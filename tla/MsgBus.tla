------------------------------- MODULE MsgBus -------------------------------
(***************************************************************************)
(* The message bus of app/app.c: the bounded queue g_wifi_core.io_queue,    *)
(* its senders (interrupts, lwIP, the supplicant, the power-save API) and   *)
(* core_thread_main, the only reader, which runs the MAC kernel's scheduler *)
(* after each message.                                                      *)
(***************************************************************************)
EXTENDS Naturals, Sequences, FiniteSets

CONSTANTS
    Pbufs,      \* packet buffers lwIP may transmit
    QueueLen,   \* g_wifi_core.queue_item_count
    MaxLost     \* bound: RX messages that find the queue full

ASSUME PbufsAssumption == IsFiniteSet(Pbufs)
ASSUME BoundsAssumption == QueueLen \in Nat \ {0} /\ MaxLost \in Nat

\* The limit in bmsg_rx_sender.
RxLimit == 2

\* Power-save commands and the two features they switch.
PsArgs == {"rf_on", "rf_off", "mcu_on", "mcu_off"}
PsFeature(arg) == IF arg \in {"rf_on", "rf_off"} THEN "rf" ELSE "mcu"
PsFeatures == {"rf", "mcu"}

VARIABLES
    ioQueue,    \* g_wifi_core.io_queue
    rxCount,    \* bmsg_rx_count
    rxSending,  \* calls of bmsg_rx_sender between the count and the push
    rxLost,     \* history: pushes of those calls that failed
    stack,      \* lwIP's business with each pbuf: "none", "push" (in bmsg_tx_sender), "sent"
    ref,        \* reference count of each pbuf
    corePc,     \* core_thread_main: "pop", "handle", "transfer", "sched", "ps"
    msg,        \* its local msg
    owned,      \* pbuf bmsg_tx_handler still has to free is the queued one
    keSkip,     \* its local ke_skip
    keEvent,    \* an event is pending in the MAC kernel
    psAsked,    \* history: last power-save command that entered the queue
    psDone,     \* last power-save command handed to ps_msg_process
    mp3Player   \* the build: CONFIG_APP_MP3PLAYER, something sends BMSG_MEDIA

rx   == <<rxCount, rxSending, rxLost>>
pbuf == <<stack, ref>>
core == <<corePc, msg, owned, keSkip>>
ps   == <<psAsked, psDone>>
vars == <<ioQueue, rx, pbuf, core, keEvent, ps, mp3Player>>

Msgs == [type : {"rx", "ioctl", "null", "media"}, arg : {"none"}]
            \cup [type : {"tx"}, arg : Pbufs]
            \cup [type : {"sta_ps"}, arg : PsArgs]
NoMsg == [type |-> "null", arg |-> "none"]

\* The types, with the queue within its capacity.
TypeOK ==
    /\ ioQueue \in Seq(Msgs) /\ Len(ioQueue) <= QueueLen
    /\ rxCount \in 0 .. RxLimit /\ rxSending \in 0 .. RxLimit /\ rxLost \in 0 .. MaxLost
    /\ stack \in [Pbufs -> {"none", "push", "sent"}]
    /\ ref \in [Pbufs -> Nat]
    /\ corePc \in {"pop", "handle", "transfer", "sched", "ps"}
    /\ msg \in Msgs
    /\ owned \in BOOLEAN /\ keSkip \in BOOLEAN /\ keEvent \in BOOLEAN
    /\ psAsked \in [PsFeatures -> PsArgs \cup {"none"}]
    /\ psDone \in [PsFeatures -> PsArgs \cup {"none"}]
    /\ mp3Player \in BOOLEAN

Init ==
    /\ ioQueue = <<>>
    /\ rxCount = 0 /\ rxSending = 0 /\ rxLost = 0
    /\ stack = [p \in Pbufs |-> "none"]
    /\ ref = [p \in Pbufs |-> 0]
    /\ corePc = "pop" /\ msg = NoMsg /\ owned = FALSE /\ keSkip = FALSE
    /\ keEvent = FALSE
    /\ psAsked = [f \in PsFeatures |-> "none"]
    /\ psDone = [f \in PsFeatures |-> "none"]
    /\ mp3Player \in BOOLEAN

-----------------------------------------------------------------------------
(* rtos_push_to_queue with BEKEN_NO_WAIT                                    *)

Full == Len(ioQueue) >= QueueLen
Push(type, arg) == ~Full /\ ioQueue' = Append(ioQueue, [type |-> type, arg |-> arg])

-----------------------------------------------------------------------------
(* Senders                                                                  *)

\* bmsg_rx_sender: at most RxLimit messages are counted ...
RxCount ==
    /\ rxCount < RxLimit
    /\ rxCount' = rxCount + 1
    /\ rxSending' = rxSending + 1
    /\ UNCHANGED <<ioQueue, rxLost, pbuf, core, keEvent, ps>>

\* ... and the interrupt lock is gone when the message is pushed.
RxPush ==
    /\ rxSending > 0
    /\ rxSending' = rxSending - 1
    /\ Push("rx", "none")
    /\ UNCHANGED <<rxCount, rxLost, pbuf, core, keEvent, ps>>

\* A failed push is only reported: the count stays.
RxPushFull ==
    /\ rxSending > 0 /\ Full /\ rxLost < MaxLost
    /\ rxSending' = rxSending - 1
    /\ rxLost' = rxLost + 1
    /\ UNCHANGED <<ioQueue, rxCount, pbuf, core, keEvent, ps>>

\* low_level_output of a fresh pbuf calls bmsg_tx_sender, which takes a
\* reference for the queue.
TxRef(p) ==
    /\ stack[p] = "none" /\ ref[p] = 0
    /\ stack' = [stack EXCEPT ![p] = "push"]
    /\ ref' = [ref EXCEPT ![p] = 2]
    /\ UNCHANGED <<ioQueue, rx, core, keEvent, ps>>

\* The push, which waits up to a second for room.
TxPush(p) ==
    /\ stack[p] = "push"
    /\ Push("tx", p)
    /\ stack' = [stack EXCEPT ![p] = "sent"]
    /\ UNCHANGED <<rx, ref, core, keEvent, ps>>

\* (mutant) the failed sender keeps its reference.
TxPushTimeoutLeak(p) ==
    /\ stack[p] = "push" /\ Full
    /\ stack' = [stack EXCEPT ![p] = "sent"]
    /\ UNCHANGED <<ioQueue, rx, ref, core, keEvent, ps>>

\* The second is over and the queue still full: give the reference back.
TxPushTimeout(p) ==
    /\ stack[p] = "push" /\ Full
    /\ ref' = [ref EXCEPT ![p] = @ - 1]
    /\ stack' = [stack EXCEPT ![p] = "sent"]
    /\ UNCHANGED <<ioQueue, rx, core, keEvent, ps>>

\* lwIP frees its own reference after low_level_output.
StackFree(p) ==
    /\ stack[p] = "sent"
    /\ ref' = [ref EXCEPT ![p] = @ - 1]
    /\ stack' = [stack EXCEPT ![p] = "none"]
    /\ UNCHANGED <<ioQueue, rx, core, keEvent, ps>>

\* bmsg_ps_sender; a command that finds the queue full is dropped.
PsSend(arg) ==
    /\ IF Full
       THEN UNCHANGED <<ioQueue, psAsked>>
       ELSE /\ Push("sta_ps", arg)
            /\ psAsked' = [psAsked EXCEPT ![PsFeature(arg)] = arg]
    /\ UNCHANGED <<rx, pbuf, core, keEvent, psDone>>

\* bmsg_ioctl_sender; bmsg_skt_tx_sender, whose message differs only in what the
\* MAC does with it; and bmsg_music_sender of an MP3 build.
OtherSend(type) ==
    /\ type = "media" => mp3Player
    /\ Push(type, "none")
    /\ UNCHANGED <<rx, pbuf, core, keEvent, ps>>

\* An interrupt sets a kernel event and calls bmsg_null_sender, which relies
\* on the messages already queued to get the scheduler run.
NullSend ==
    /\ keEvent' = TRUE
    /\ IF ioQueue = <<>> THEN Push("null", "none") ELSE UNCHANGED ioQueue
    /\ UNCHANGED <<rx, pbuf, core, ps>>

-----------------------------------------------------------------------------
(* core_thread_main                                                         *)

CorePop ==
    /\ corePc = "pop" /\ ioQueue # <<>>
    /\ msg' = Head(ioQueue)
    /\ ioQueue' = Tail(ioQueue)
    /\ corePc' = "handle"
    /\ UNCHANGED <<rx, pbuf, owned, keSkip, keEvent, ps>>

\* ps_msg_process of the current message.
PsApply == psDone' = [psDone EXCEPT ![PsFeature(msg.arg)] = msg.arg]

\* RF_DISANABLE is handled at once; every other command sets ps_flag and
\* waits for the scheduler.
HandlePs ==
    /\ corePc = "handle" /\ msg.type = "sta_ps"
    /\ IF msg.arg = "rf_off" THEN PsApply ELSE UNCHANGED psDone
    /\ corePc' = "sched"
    /\ UNCHANGED <<ioQueue, rx, pbuf, msg, owned, keSkip, keEvent, psAsked>>

\* (mutant) bmsg_rx_handler forgets the count.
HandleRxNoCount ==
    /\ corePc = "handle" /\ msg.type = "rx"
    /\ corePc' = "sched"
    /\ UNCHANGED <<ioQueue, rx, pbuf, msg, owned, keSkip, keEvent, ps>>

\* bmsg_rx_handler
HandleRx ==
    /\ corePc = "handle" /\ msg.type = "rx"
    /\ rxCount' = IF rxCount > 0 THEN rxCount - 1 ELSE 0
    /\ corePc' = "sched"
    /\ UNCHANGED <<ioQueue, rxSending, rxLost, pbuf, msg, owned, keSkip, keEvent, ps>>

\* bmsg_tx_handler of a single buffer: q is p.
HandleTxSingle ==
    /\ corePc = "handle" /\ msg.type = "tx"
    /\ owned' = TRUE
    /\ corePc' = "transfer"
    /\ UNCHANGED <<ioQueue, rx, pbuf, msg, keSkip, keEvent, ps>>

\* A chain is copied into a new buffer by pbuf_coalesce, which frees p.
HandleTxChain ==
    /\ corePc = "handle" /\ msg.type = "tx"
    /\ ref' = [ref EXCEPT ![msg.arg] = @ - 1]
    /\ owned' = FALSE
    /\ corePc' = "transfer"
    /\ UNCHANGED <<ioQueue, rx, stack, msg, keSkip, keEvent, ps>>

\* pbuf_coalesce is out of memory and returns p: the frame is dropped.
HandleTxNoMem ==
    /\ corePc = "handle" /\ msg.type = "tx"
    /\ ref' = [ref EXCEPT ![msg.arg] = @ - 1]
    /\ corePc' = "sched"
    /\ UNCHANGED <<ioQueue, rx, stack, msg, owned, keSkip, keEvent, ps>>

\* (mutant) bmsg_tx_handler never frees the queued buffer.
TransferLeak ==
    /\ corePc = "transfer"
    /\ owned' = FALSE
    /\ corePc' = "sched"
    /\ UNCHANGED <<ioQueue, rx, pbuf, msg, keSkip, keEvent, ps>>

\* The RF is awake: rwm_transfer copies the payload, pbuf_free(q).
Transfer ==
    /\ corePc = "transfer"
    /\ ref' = IF owned THEN [ref EXCEPT ![msg.arg] = @ - 1] ELSE ref
    /\ owned' = FALSE
    /\ corePc' = "sched"
    /\ UNCHANGED <<ioQueue, rx, stack, msg, keSkip, keEvent, ps>>

\* bmsg_skt_tx_handler, bmsg_ioctl_handler, bmsg_music_handler, BMSG_NULL.
HandleOther ==
    /\ corePc = "handle" /\ msg.type \in {"ioctl", "null", "media"}
    /\ keSkip' = (msg.type = "media")
    /\ corePc' = "sched"
    /\ UNCHANGED <<ioQueue, rx, pbuf, msg, owned, keEvent, ps>>

\* (mutant) ke_skip after every message that is not for the kernel.
ScheduleIoctlOnly ==
    /\ corePc = "sched"
    /\ keEvent' = IF keSkip \/ msg.type = "sta_ps" THEN keEvent ELSE FALSE
    /\ keSkip' = FALSE
    /\ corePc' = "ps"
    /\ UNCHANGED <<ioQueue, rx, pbuf, msg, owned, ps>>

\* ke_evt_core_scheduler, unless ke_skip.
Schedule ==
    /\ corePc = "sched"
    /\ keEvent' = IF keSkip THEN keEvent ELSE FALSE
    /\ keSkip' = FALSE
    /\ corePc' = "ps"
    /\ UNCHANGED <<ioQueue, rx, pbuf, msg, owned, ps>>

\* (mutant) ps_flag is examined only when the scheduler had an event.
PsDeferredLost ==
    /\ corePc = "ps"
    /\ psDone' = psDone
    /\ msg' = NoMsg
    /\ corePc' = "pop"
    /\ UNCHANGED <<ioQueue, rx, pbuf, owned, keSkip, keEvent, psAsked>>

\* The deferred power-save command, then power_save_rf_sleep_check.
PsDeferred ==
    /\ corePc = "ps"
    /\ IF msg.type = "sta_ps" /\ msg.arg # "rf_off" THEN PsApply ELSE UNCHANGED psDone
    /\ msg' = NoMsg
    /\ corePc' = "pop"
    /\ UNCHANGED <<ioQueue, rx, pbuf, owned, keSkip, keEvent, psAsked>>

-----------------------------------------------------------------------------
CoreStep ==
    \/ CorePop \/ HandlePs \/ HandleRx \/ HandleTxSingle \/ HandleTxChain \/ HandleTxNoMem
    \/ Transfer \/ HandleOther \/ Schedule \/ PsDeferred

RxStep == RxPush \/ RxPushFull
TxStep(p) == TxPush(p) \/ TxPushTimeout(p) \/ StackFree(p)

Step ==
    \/ CoreStep
    \/ RxCount \/ RxStep
    \/ \E p \in Pbufs : TxRef(p) \/ TxStep(p)
    \/ \E arg \in PsArgs : PsSend(arg)
    \/ \E type \in {"ioctl", "media"} : OtherSend(type)
    \/ NullSend

Next == Step /\ UNCHANGED mp3Player

\* Threads and interrupt handlers that have started go on; the RF wakes.
Fairness ==
    /\ WF_vars(CoreStep /\ UNCHANGED mp3Player)
    /\ WF_vars(RxStep /\ UNCHANGED mp3Player)
    /\ \A p \in Pbufs : WF_vars(TxStep(p) /\ UNCHANGED mp3Player)

Spec == Init /\ [][Next]_vars
FairSpec == Spec /\ Fairness

-----------------------------------------------------------------------------
(* Properties                                                               *)

CountIn(type, arg) ==
    Cardinality({i \in 1 .. Len(ioQueue) : ioQueue[i] = [type |-> type, arg |-> arg]})
InHand(type, arg) == IF corePc = "handle" /\ msg = [type |-> type, arg |-> arg] THEN 1 ELSE 0

\* bmsg_rx_count is what is on its way to bmsg_rx_handler plus, for good,
\* every message that found the queue full.
RxAccounting ==
    rxCount = rxSending + CountIn("rx", "none") + InHand("rx", "none") + rxLost

\* The references of a pbuf are lwIP's, the queue's and the handler's: no
\* sender, handler or error path frees one twice, leaks one, or leaves a
\* freed pbuf in the queue.
PbufReferences ==
    \A p \in Pbufs :
        ref[p] = (IF stack[p] = "none" THEN 0 ELSE IF stack[p] = "push" THEN 2 ELSE 1)
                 + CountIn("tx", p) + InHand("tx", p)
                 + (IF corePc = "transfer" /\ owned /\ msg.arg = p THEN 1 ELSE 0)

\* Commands are applied in the order in which the queue took them although
\* one of them jumps the scheduler and the others wait for it: whenever the
\* core thread blocks, each feature is in the state last asked for.
LastPsCommandWins == corePc = "pop" /\ ioQueue = <<>> => psDone = psAsked

\* bmsg_null_sender may skip its message: the core thread never blocks with a
\* kernel event pending, except in an MP3 build, where the message relied on
\* may be one after which the scheduler is skipped.
NoStrandedEvent == ~mp3Player /\ corePc = "pop" /\ ioQueue = <<>> => ~keEvent

\* Every packet lwIP hands over is freed in the end.
PbufFreed == \A p \in Pbufs : ref[p] > 0 ~> ref[p] = 0
=============================================================================
