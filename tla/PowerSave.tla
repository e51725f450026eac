------------------------------ MODULE PowerSave ------------------------------
(* RF power save of a connected station (func/power_save/power_save.c): the  *)
(* core thread lets the MAC and the RF sleep between beacons, the MAC wakeup *)
(* interrupt ends the sleep, and a thread that has something to send waits   *)
(* for it.  An application turns the mode on and off, or asks for a reboot,  *)
(* which has to wait for the RF.  Role CONFIG_ROLE_STA and me_env.ps_on are  *)
(* taken as set; PS_USE_KEEP_TIMER and PS_USE_WAIT_TIMER are 0 as shipped.   *)
(* The closed MAC library enters as: ps_sleep_check, which does not sleep    *)
(* while a frame or a mode change is under way or a beacon is awaited; the   *)
(* mode change, done when its null frame has been sent, hence awake; the MAC *)
(* wakeup interrupt.                                                         *)
EXTENDS Integers, Sequences, FiniteSets

CONSTANTS
    Senders,       \* threads that send frames besides the core thread
    IoQueueLen,    \* length of g_wifi_core.io_queue
    MaxCommands    \* bound: commands of the application under way at a time

Core == "core"     \* the core thread, which sends in bmsg_tx_handler

ASSUME PowerSaveAssumption ==
    /\ IsFiniteSet(Senders) /\ Core \notin Senders
    /\ IoQueueLen \in Nat \ {0} /\ MaxCommands \in Nat \ {0}

Sending == Senders \cup {Core}

VARIABLES
    mode,          \* bk_ps_mode: "none" or "dtim"
    realSleep,     \* ps_real_sleep
    canSleep,      \* ps_can_sleep
    way,           \* ps_arm_wakeup_way: "none" or "rw"
    waited,        \* waited_beacon: "init", "true" or "false"
    psLock,        \* ps_lock
    event,         \* ps_dis_flag: subset of {"disable", "reboot"}
    wkList,        \* wk_list: the semaphores waited on, by their thread
    given,         \* threads whose semaphore has been set
    doze,          \* the MAC sleeps
    macInts,       \* ICU: the MAC's data interrupts are enabled
    wakeInt,       \* ICU: FIQ_MAC_WAKEUP is enabled
    prevent,       \* library: threads that hold off sleep for their frame
    waitBcn,       \* library: PS_VIF_WAITING_BCN
    psReq,         \* library: MM_SET_PS_MODE_REQs not done, oldest first
    ioQueue,       \* messages to the core thread
    corePc,        \* where the core thread is
    senderPc,      \* where each sending thread is
    appPc,         \* where bk_wlan_dtim_rf_ps_disable_send_msg is
    rebooted,      \* the watchdog was set to reset the chip
    offOwed,       \* history: the application has turned the mode off
    offLost        \* history: a full queue lost an RF_DISANABLE

ps == <<mode, realSleep, canSleep, way, waited, psLock>>
hw == <<doze, macInts, wakeInt>>
lib == <<prevent, waitBcn, psReq>>
app == <<appPc, rebooted, offOwed, offLost>>
vars == <<ps, event, wkList, given, hw, lib, ioQueue, corePc, senderPc, app>>

Asleep == mode = "dtim" /\ realSleep

Init ==
    /\ mode = "none" /\ realSleep = FALSE /\ canSleep = FALSE
    /\ way = "none" /\ waited = "init" /\ psLock = 1
    /\ event = {} /\ wkList = <<>> /\ given = {}
    /\ doze = FALSE /\ macInts = TRUE /\ wakeInt = FALSE
    /\ prevent = {} /\ waitBcn = FALSE /\ psReq = <<>>
    /\ ioQueue = <<>> /\ corePc = "pop"
    /\ senderPc = [s \in Sending |-> "idle"]
    /\ appPc = "idle" /\ rebooted = FALSE /\ offOwed = FALSE /\ offLost = FALSE
-----------------------------------------------------------------------------
(* Messages to the core thread. *)

\* bmsg_ps_sender does not wait: a full queue drops the message.
bmsg_ps_sender(arg) ==
    ioQueue' = IF Len(ioQueue) < IoQueueLen THEN Append(ioQueue, arg) ELSE ioQueue

\* power_save_dtim_rf_ps_disable_send_msg
power_save_dtim_rf_ps_disable_send_msg ==
    IF mode = "dtim"
    THEN /\ bmsg_ps_sender("rf_off")
         /\ offLost' = (offLost \/ Len(ioQueue) = IoQueueLen)
    ELSE UNCHANGED <<ioQueue, offLost>>

\* Any other message makes the core thread go round its loop.
OtherSend ==
    /\ Len(ioQueue) < IoQueueLen
    /\ ioQueue' = Append(ioQueue, "other")
    /\ UNCHANGED <<ps, event, wkList, given, hw, lib, corePc, senderPc, app>>

\* A frame of the IP stack, which bmsg_tx_handler will send.
TxSend ==
    /\ Len(ioQueue) < IoQueueLen
    /\ ioQueue' = Append(ioQueue, "tx")
    /\ UNCHANGED <<ps, event, wkList, given, hw, lib, corePc, senderPc, app>>
-----------------------------------------------------------------------------
(* The application. *)

Commands == Len(psReq) + Cardinality({i \in DOMAIN ioQueue : ioQueue[i] \in {"rf_on", "rf_off"}})

bk_wlan_dtim_rf_ps_mode_enable ==
    /\ appPc = "idle" /\ Commands < MaxCommands
    /\ bmsg_ps_sender("rf_on")
    /\ UNCHANGED <<ps, event, wkList, given, hw, lib, corePc, senderPc, app>>

\* bk_wlan_dtim_rf_ps_disable_send_msg looks whether the RF sleeps ...
bk_wlan_dtim_rf_ps_disable_send_msg ==
    /\ appPc = "idle" /\ Commands < MaxCommands
    /\ appPc' = IF Asleep THEN "flag" ELSE "send"
    /\ UNCHANGED <<ps, event, wkList, given, hw, lib, ioQueue, corePc, senderPc, rebooted, offOwed, offLost>>

\* ... and leaves the work to the wakeup ...
DisableAtWakeup ==
    /\ appPc = "flag"
    /\ event' = event \cup {"disable"}
    /\ offOwed' = (mode = "dtim")
    /\ appPc' = "idle"
    /\ UNCHANGED <<ps, wkList, given, hw, lib, ioQueue, corePc, senderPc, rebooted, offLost>>

\* ... or to the core thread.  The RF may have changed meanwhile.
DisableByMessage ==
    /\ appPc = "send"
    /\ power_save_dtim_rf_ps_disable_send_msg
    /\ offOwed' = (mode = "dtim")
    /\ appPc' = "idle"
    /\ UNCHANGED <<ps, event, wkList, given, hw, lib, corePc, senderPc, rebooted>>

\* A reset while the RF sleeps is put off to the end of power save.
bk_reboot ==
    /\ appPc = "idle"
    /\ IF Asleep
       THEN /\ event' = event \cup {"disable", "reboot"}
            /\ UNCHANGED rebooted
       ELSE /\ rebooted' = TRUE
            /\ UNCHANGED event
    /\ UNCHANGED <<ps, wkList, given, hw, lib, ioQueue, corePc, senderPc, appPc, offOwed, offLost>>
-----------------------------------------------------------------------------
(* Threads that send. *)

\* (mutant) sleep is not held off
PreventNothing(s) ==
    /\ senderPc[s] = "idle"
    /\ senderPc' = [senderPc EXCEPT ![s] = "wakeup"]
    /\ UNCHANGED prevent

\* ps_set_data_prevent or ps_set_key_prevent, before the frame.
Prevent(s) ==
    /\ senderPc[s] = "idle"
    /\ prevent' = prevent \cup {s}
    /\ senderPc' = [senderPc EXCEPT ![s] = "wakeup"]

\* power_save_rf_dtim_manual_do_wakeup up to the wait: with interrupts disabled.
power_save_rf_dtim_manual_do_wakeup(s) ==
    /\ senderPc[s] = "wakeup"
    /\ IF Asleep
       THEN /\ wkList' = Append(wkList, s)
            /\ senderPc' = [senderPc EXCEPT ![s] = "waiting"]
       ELSE /\ senderPc' = [senderPc EXCEPT ![s] = "go"]
            /\ UNCHANGED wkList

\* co_list_extract: unlink an entry, nothing if it is not in the list.
co_list_extract(list, s) ==
    IF \E i \in 1 .. Len(list) : list[i] = s
    THEN LET k == CHOOSE i \in 1 .. Len(list) : list[i] = s
         IN  [j \in 1 .. Len(list) - 1 |-> IF j < k THEN list[j] ELSE list[j + 1]]
    ELSE list

\* The semaphore was set; the entry is extracted, if it is still there.
power_save_rf_ps_wkup_semlist_get(s) ==
    /\ senderPc[s] = "waiting" /\ s \in given
    /\ given' = given \ {s}
    /\ wkList' = co_list_extract(wkList, s)
    /\ senderPc' = [senderPc EXCEPT ![s] = "go"]

\* The frame goes to the MAC, and once it is out sleep is no longer held off.
Transmit(s) ==
    /\ senderPc[s] = "go"
    /\ senderPc' = [senderPc EXCEPT ![s] = "idle"]
    /\ prevent' = prevent \ {s}

Send(s) ==
    \/ Prevent(s) /\ UNCHANGED <<wkList, given>>
    \/ power_save_rf_dtim_manual_do_wakeup(s) /\ UNCHANGED <<prevent, given>>
    \/ power_save_rf_ps_wkup_semlist_get(s) /\ UNCHANGED prevent
    \/ Transmit(s) /\ UNCHANGED <<wkList, given>>

SenderStep(s) ==
    /\ Send(s)
    /\ UNCHANGED <<ps, event, hw, waitBcn, psReq, ioQueue, corePc, app>>
-----------------------------------------------------------------------------
(* The core thread. *)

\* power_save_dtim_disable: asks the MAC for PS_MODE_OFF.
power_save_dtim_disable ==
    psReq' = IF mode = "dtim" THEN Append(psReq, "off") ELSE psReq

\* power_save_dtim_enable: asks for PS_MODE_ON_DYN.
power_save_dtim_enable ==
    psReq' = IF mode = "none" THEN Append(psReq, "on") ELSE psReq

\* Turning off is handled at once, turning on at the end of the round.
CorePop ==
    /\ corePc = "pop" /\ ioQueue # <<>>
    /\ ioQueue' = Tail(ioQueue)
    /\ corePc' = IF Head(ioQueue) = "tx" THEN "tx"
                 ELSE IF Head(ioQueue) = "rf_on" THEN "on" ELSE "check"
    /\ IF Head(ioQueue) = "rf_off" THEN power_save_dtim_disable ELSE UNCHANGED psReq
    /\ UNCHANGED <<ps, event, wkList, given, hw, prevent, waitBcn, senderPc, app>>

CoreTx ==
    /\ corePc = "tx"
    /\ Send(Core)
    /\ corePc' = IF senderPc'[Core] = "idle" THEN "check" ELSE "tx"
    /\ UNCHANGED <<ps, event, hw, waitBcn, psReq, ioQueue, app>>

CoreEnable ==
    /\ corePc = "on"
    /\ power_save_dtim_enable
    /\ corePc' = "check"
    /\ UNCHANGED <<ps, event, wkList, given, hw, prevent, waitBcn, ioQueue, senderPc, app>>

\* PS_STA_DTIM_CAN_SLEEP
CanSleep == mode = "dtim" /\ waited = "true" /\ canSleep

\* power_save_rf_sleep_check: no kernel event and no message, looked at with
\* interrupts enabled.
power_save_rf_sleep_check ==
    /\ corePc = "check"
    /\ \E events \in BOOLEAN :
           corePc' = IF CanSleep /\ ~events /\ ioQueue = <<>> THEN "sleep" ELSE "pop"
    /\ UNCHANGED <<ps, event, wkList, given, hw, lib, ioQueue, senderPc, app>>

\* ps_sleep_check finds nothing that holds sleep off.
ps_sleep_check == prevent = {} /\ ~waitBcn /\ psReq = <<>>

\* (mutant) the MAC refuses, and its interrupts stay disabled
SleepRefused_masked == macInts' = FALSE /\ UNCHANGED <<ps, doze, wakeInt>>

\* The MAC refuses, and its interrupts are enabled again.
SleepRefused == UNCHANGED <<ps, hw>>

\* (mutant) the wakeup way of the last sleep is kept
Sleep_way ==
    /\ realSleep' = TRUE /\ psLock' = psLock - 1
    /\ doze' = TRUE /\ macInts' = FALSE /\ wakeInt' = TRUE
    /\ UNCHANGED <<mode, canSleep, way, waited>>

\* power_save_sleep once rwnxl_sleep has succeeded.
Sleep ==
    /\ doze' = TRUE /\ macInts' = FALSE
    /\ IF psLock > 0
       THEN /\ psLock' = psLock - 1
            /\ realSleep' = TRUE /\ way' = "none"
            /\ wakeInt' = TRUE
            /\ UNCHANGED <<mode, canSleep, waited>>
       ELSE UNCHANGED <<ps, wakeInt>>

\* power_save_sleep, called by ps_sleep_check with interrupts disabled.
power_save_sleep ==
    /\ corePc = "sleep"
    /\ \/ ps_sleep_check /\ ~realSleep /\ CanSleep /\ ~doze /\ Sleep
       \/ SleepRefused
    /\ corePc' = "pop"
    /\ UNCHANGED <<event, wkList, given, lib, ioQueue, senderPc, app>>

CoreStep == CorePop \/ CoreTx \/ CoreEnable \/ power_save_rf_sleep_check \/ power_save_sleep
-----------------------------------------------------------------------------
(* Called by the library, in the core thread. *)

\* A beacon has been received.
power_save_beacon_state_update ==
    /\ corePc = "pop" /\ ~doze
    /\ waited' = IF mode = "dtim" THEN "true" ELSE waited
    /\ waitBcn' = FALSE
    /\ UNCHANGED <<mode, realSleep, canSleep, way, psLock>>
    /\ UNCHANGED <<event, wkList, given, hw, prevent, psReq, ioQueue, corePc, senderPc, app>>

\* The MAC changes to PS_MODE_ON_DYN; the station may have lost its AP.
power_save_dtim_enable_handler ==
    /\ corePc = "pop" /\ ~doze
    /\ psReq # <<>> /\ Head(psReq) = "on"
    /\ \/ mode' = "dtim" /\ canSleep' = TRUE
       \/ UNCHANGED <<mode, canSleep>>
    /\ psReq' = Tail(psReq)
    /\ UNCHANGED <<realSleep, way, waited, psLock>>
    /\ UNCHANGED <<event, wkList, given, hw, prevent, waitBcn, ioQueue, corePc, senderPc, app>>

\* The null frame that announces PS_MODE_OFF has gone out.
ModeOffSent == psReq # <<>> /\ Head(psReq) = "off" /\ ~doze

\* (mutant) the reboot bit is not looked at
power_save_dtim_disable_handler_stay ==
    /\ corePc = "pop" /\ ModeOffSent
    /\ mode' = "none" /\ waited' = "init" /\ canSleep' = FALSE /\ realSleep' = FALSE
    /\ psReq' = Tail(psReq)
    /\ offOwed' = FALSE
    /\ UNCHANGED <<way, psLock, event, wkList, given, hw, prevent, waitBcn, ioQueue, corePc, senderPc, appPc, rebooted, offLost>>

power_save_dtim_disable_handler ==
    /\ corePc = "pop" /\ ModeOffSent
    /\ mode' = "none"
    /\ waited' = "init" /\ canSleep' = FALSE /\ realSleep' = FALSE
    /\ psReq' = Tail(psReq)
    /\ rebooted' = ("reboot" \in event)
    /\ offOwed' = FALSE
    /\ UNCHANGED <<way, psLock>>
    /\ UNCHANGED <<event, wkList, given, hw, prevent, waitBcn, ioQueue, corePc, senderPc, appPc, offLost>>

LibModeStep == power_save_dtim_enable_handler \/ power_save_dtim_disable_handler
-----------------------------------------------------------------------------
(* The MAC wakeup interrupt, in one piece. *)

\* power_save_wakeup
power_save_wakeup ==
    /\ waited' = "false"
    /\ waitBcn' = TRUE
    /\ doze' = FALSE /\ macInts' = TRUE
    /\ psLock' = psLock + 1

\* (mutant) only the first thread on the list goes on
power_save_rf_ps_wkup_semlist_set_one ==
    /\ given' = given \cup {wkList[i] : i \in DOMAIN wkList \cap {1}}
    /\ wkList' = <<>>

\* power_save_rf_ps_wkup_semlist_set: every thread on the list goes on.
power_save_rf_ps_wkup_semlist_set ==
    /\ given' = given \cup {wkList[i] : i \in DOMAIN wkList}
    /\ wkList' = <<>>

\* (mutant) the bit is cleared whether or not the message is sent
power_save_dtim_exit_check_quiet ==
    /\ event' = event \ {"disable"}
    /\ UNCHANGED <<ioQueue, offLost>>

\* power_save_dtim_exit_check
power_save_dtim_exit_check ==
    IF "disable" \in event
    THEN /\ power_save_dtim_rf_ps_disable_send_msg
         /\ event' = event \ {"disable"}
    ELSE UNCHANGED <<event, ioQueue, offLost>>

\* power_save_ieee_dtim_wakeup, with way already set to "rw".
power_save_ieee_dtim_wakeup ==
    IF realSleep
    THEN /\ power_save_wakeup
         /\ realSleep' = FALSE /\ canSleep' = TRUE
         /\ power_save_rf_ps_wkup_semlist_set
         /\ power_save_dtim_exit_check
    ELSE UNCHANGED <<realSleep, canSleep, waited, psLock, waitBcn, doze, macInts, given, wkList, event, ioQueue, offLost>>

power_save_dtim_wake ==
    /\ wakeInt /\ doze
    /\ mode = "dtim" /\ way = "none"
    /\ wakeInt' = FALSE
    /\ way' = "rw"
    /\ power_save_ieee_dtim_wakeup
    /\ UNCHANGED <<mode, prevent, psReq, corePc, senderPc, appPc, rebooted, offOwed>>
-----------------------------------------------------------------------------
AppStep == DisableAtWakeup \/ DisableByMessage

Running ==
    \/ bk_wlan_dtim_rf_ps_mode_enable \/ bk_wlan_dtim_rf_ps_disable_send_msg
    \/ AppStep \/ bk_reboot \/ OtherSend \/ TxSend
    \/ \E s \in Senders : SenderStep(s)
    \/ CoreStep \/ LibModeStep \/ power_save_beacon_state_update
    \/ power_save_dtim_wake

\* A reset ends the run.
Next == ~rebooted /\ Running

\* The wakeup interrupt comes at the next DTIM, threads that can run do, and the
\* library finishes a mode change it has been asked for.
Fairness ==
    /\ WF_vars(~rebooted /\ power_save_dtim_wake)
    /\ WF_vars(~rebooted /\ CoreStep)
    /\ SF_vars(~rebooted /\ LibModeStep)
    /\ \A s \in Senders : WF_vars(~rebooted /\ senderPc[s] # "idle" /\ SenderStep(s))

Spec == Init /\ [][Next]_vars /\ Fairness
-----------------------------------------------------------------------------
TypeOK ==
    /\ mode \in {"none", "dtim"} /\ way \in {"none", "rw"}
    /\ waited \in {"init", "true", "false"}
    /\ {realSleep, canSleep, doze, macInts, wakeInt, waitBcn, rebooted, offOwed, offLost} \subseteq BOOLEAN
    /\ psLock \in 0 .. 1
    /\ event \subseteq {"disable", "reboot"}
    /\ wkList \in Seq(Sending) /\ given \subseteq Sending /\ prevent \subseteq Sending
    /\ psReq \in Seq({"on", "off"})
    /\ ioQueue \in Seq({"rf_on", "rf_off", "tx", "other"}) /\ Len(ioQueue) <= IoQueueLen
    /\ corePc \in {"pop", "tx", "on", "check", "sleep"}
    /\ senderPc \in [Sending -> {"idle", "wakeup", "waiting", "go"}]
    /\ appPc \in {"idle", "flag", "send"}

\* ps_lock, the MAC and the interrupt controller agree with ps_real_sleep: the
\* assertion of power_save_wakeup holds, power_save_sleep never finds the lock
\* taken, and the MAC is never left with its interrupts disabled.
SleepAgrees ==
    /\ psLock = (IF realSleep THEN 0 ELSE 1)
    /\ doze = realSleep /\ macInts = ~realSleep

\* A thread that power_save_rf_dtim_manual_do_wakeup blocks, without a timeout,
\* is on the list the wakeup interrupt serves, and that interrupt will be taken;
\* neither turning the mode off nor a second sleep strands it.
NoStrandedSender ==
    \A s \in Sending : senderPc[s] = "waiting" /\ s \notin given =>
        /\ Asleep /\ wakeInt /\ way = "none"
        /\ \E i \in DOMAIN wkList : wkList[i] = s

\* Between power_save_rf_dtim_manual_do_wakeup and the frame the RF stays awake.
SentAwake == \A s \in Sending : senderPc[s] = "go" => ~realSleep /\ ~doze

\* Turning the mode off is never forgotten while the mode lasts: it waits for the
\* wakeup, for the core thread or for the MAC, unless a full queue lost it.
DisableUnderway ==
    offOwed /\ ~offLost =>
        \/ "disable" \in event
        \/ \E i \in DOMAIN ioQueue : ioQueue[i] = "rf_off"
        \/ \E i \in DOMAIN psReq : psReq[i] = "off"

\* A thread blocked for the RF goes on, unless the chip is reset first.
SenderServed == \A s \in Sending : senderPc[s] = "waiting" ~> senderPc[s] # "waiting" \/ rebooted

\* bk_reboot while the RF sleeps resets the chip in the end, unless a full queue
\* lost the message of the wakeup.
RebootServed == "reboot" \in event ~> rebooted \/ offLost
=============================================================================
