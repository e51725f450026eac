-------------------------- MODULE PowerSaveProofs --------------------------
(***************************************************************************)
(* For any number of sending threads, any length of the core thread's queue *)
(* and any number of commands: ps_real_sleep, ps_lock, the MAC and the      *)
(* interrupt controller agree, no thread is stranded on the wakeup list, no *)
(* frame goes to a sleeping MAC, and turning the mode off is not forgotten. *)
(***************************************************************************)
EXTENDS PowerSave, SequenceTheorems, TLAPS

-----------------------------------------------------------------------------
(* Type correctness, which needs ps_lock to be free when the RF is awake    *)

Typed == TypeOK /\ SleepAgrees

\* co_list_extract keeps a list of threads a list of threads.
LEMMA ExtractType ==
    ASSUME NEW list \in Seq(Sending), NEW s
    PROVE  co_list_extract(list, s) \in Seq(Sending)
<1>1. CASE \E i \in 1 .. Len(list) : list[i] = s
  <2> DEFINE k == CHOOSE i \in 1 .. Len(list) : list[i] = s
             res == [j \in 1 .. Len(list) - 1 |-> IF j < k THEN list[j] ELSE list[j + 1]]
  <2>1. k \in 1 .. Len(list)
    BY <1>1
  <2>2. Len(list) \in Nat /\ Len(list) - 1 \in Nat
    BY <2>1
  <2> HIDE DEF k
  <2>3. res \in [1 .. Len(list) - 1 -> Sending]
    BY <2>1, <2>2
  <2>4. res \in Seq(Sending)
    BY <2>2, <2>3
  <2> QED
    BY <1>1, <2>4 DEF co_list_extract, k
<1>2. CASE ~ \E i \in 1 .. Len(list) : list[i] = s
  BY <1>2 DEF co_list_extract
<1> QED
  BY <1>1, <1>2

LEMMA TypedInit == Init => Typed
<1> SUFFICES ASSUME Init PROVE Typed
  OBVIOUS
<1>1. Len(<<>>) = 0 /\ Len(ioQueue) <= IoQueueLen
  BY PowerSaveAssumption DEF Init
<1>2. TypeOK
  <2>1. {realSleep, canSleep, doze, macInts, wakeInt, waitBcn, rebooted, offOwed, offLost} \subseteq BOOLEAN
    BY DEF Init
  <2>2. wkList \in Seq(Sending) /\ psReq \in Seq({"on", "off"})
    BY DEF Init
  <2>3. ioQueue \in Seq({"rf_on", "rf_off", "tx", "other"})
    BY DEF Init
  <2> QED
    BY <1>1, <2>1, <2>2, <2>3 DEF Init, TypeOK
<1>3. SleepAgrees
  BY DEF Init, SleepAgrees
<1> QED
  BY <1>2, <1>3 DEF Typed

\* A sending thread keeps the list and the sets of threads what they are.
LEMMA SendType ==
    ASSUME TypeOK, NEW s \in Sending, Send(s)
    PROVE  /\ wkList' \in Seq(Sending) /\ given' \subseteq Sending /\ prevent' \subseteq Sending
           /\ senderPc' \in [Sending -> {"idle", "wakeup", "waiting", "go"}]
<1>t. /\ wkList \in Seq(Sending) /\ given \subseteq Sending /\ prevent \subseteq Sending
      /\ senderPc \in [Sending -> {"idle", "wakeup", "waiting", "go"}]
  BY DEF TypeOK
<1>1. CASE Prevent(s) /\ UNCHANGED <<wkList, given>>
  BY <1>1, <1>t DEF Prevent
<1>2. CASE power_save_rf_dtim_manual_do_wakeup(s) /\ UNCHANGED <<prevent, given>>
  <2>1. wkList' \in Seq(Sending)
    BY <1>2, <1>t, AppendProperties DEF power_save_rf_dtim_manual_do_wakeup
  <2> QED
    BY <1>2, <1>t, <2>1 DEF power_save_rf_dtim_manual_do_wakeup
<1>3. CASE power_save_rf_ps_wkup_semlist_get(s) /\ UNCHANGED prevent
  BY <1>3, <1>t, ExtractType DEF power_save_rf_ps_wkup_semlist_get
<1>4. CASE Transmit(s) /\ UNCHANGED <<wkList, given>>
  BY <1>4, <1>t DEF Transmit
<1> QED
  BY <1>1, <1>2, <1>3, <1>4 DEF Send

\* A message to the core thread, sent or dropped, keeps the queue within its length.
LEMMA PsSenderType ==
    ASSUME TypeOK, NEW m \in {"rf_on", "rf_off", "tx", "other"}, bmsg_ps_sender(m)
    PROVE  ioQueue' \in Seq({"rf_on", "rf_off", "tx", "other"}) /\ Len(ioQueue') <= IoQueueLen
<1> DEFINE M == {"rf_on", "rf_off", "tx", "other"}
<1>1. ioQueue \in Seq(M) /\ Len(ioQueue) <= IoQueueLen /\ m \in M
  BY DEF TypeOK
<1> HIDE DEF M
<1>2. Append(ioQueue, m) \in Seq(M) /\ Len(Append(ioQueue, m)) = Len(ioQueue) + 1
  BY <1>1, AppendProperties
<1>3. ioQueue' \in Seq(M) /\ Len(ioQueue') <= IoQueueLen
  BY <1>1, <1>2, PowerSaveAssumption DEF bmsg_ps_sender
<1> QED
  BY <1>3 DEF M

LEMMA DisableSendType ==
    ASSUME TypeOK, power_save_dtim_rf_ps_disable_send_msg
    PROVE  /\ ioQueue' \in Seq({"rf_on", "rf_off", "tx", "other"}) /\ Len(ioQueue') <= IoQueueLen
           /\ offLost' \in BOOLEAN
<1>1. CASE mode = "dtim"
  BY <1>1, PsSenderType DEF power_save_dtim_rf_ps_disable_send_msg
<1>2. CASE mode # "dtim"
  BY <1>2 DEF power_save_dtim_rf_ps_disable_send_msg, TypeOK
<1> QED
  BY <1>1, <1>2

LEMMA TypeNext == Typed /\ [Next]_vars => TypeOK'
<1> SUFFICES ASSUME TypeOK, SleepAgrees, [Next]_vars PROVE TypeOK'
  BY DEF Typed
<1> USE DEF TypeOK, ps, hw, lib, app
<1> DEFINE M == {"rf_on", "rf_off", "tx", "other"}
           QueueOK == ioQueue \in Seq(M) /\ Len(ioQueue) <= IoQueueLen
<1>s. \A m \in M : bmsg_ps_sender(m) => QueueOK'
  BY PsSenderType
<1>1. CASE bk_wlan_dtim_rf_ps_mode_enable
  BY <1>1, <1>s DEF bk_wlan_dtim_rf_ps_mode_enable
<1>2. CASE bk_wlan_dtim_rf_ps_disable_send_msg
  BY <1>2 DEF bk_wlan_dtim_rf_ps_disable_send_msg
<1>3. CASE DisableAtWakeup
  BY <1>3 DEF DisableAtWakeup
<1>4. CASE DisableByMessage
  BY <1>4, DisableSendType DEF DisableByMessage
<1>5. CASE bk_reboot
  BY <1>5 DEF bk_reboot
<1>6. CASE OtherSend
  BY <1>6, <1>s DEF OtherSend, bmsg_ps_sender
<1>7. CASE TxSend
  BY <1>7, <1>s DEF TxSend, bmsg_ps_sender
<1>8. ASSUME NEW s \in Senders, SenderStep(s) PROVE TypeOK'
  <2>1. s \in Sending
    BY DEF Sending
  <2> QED
    BY <1>8, <2>1, SendType DEF SenderStep
<1>9. CASE CorePop
  <2>1. QueueOK'
    BY <1>9, HeadTailProperties, PowerSaveAssumption DEF CorePop
  <2>2. psReq' \in Seq({"on", "off"})
    <3>1. Append(psReq, "off") \in Seq({"on", "off"})
      BY AppendProperties
    <3> QED
      BY <1>9, <3>1 DEF CorePop, power_save_dtim_disable
  <2>3. corePc' \in {"pop", "tx", "on", "check", "sleep"}
    BY <1>9 DEF CorePop
  <2> QED
    BY <1>9, <2>1, <2>2, <2>3 DEF CorePop
<1>10. CASE CoreTx
  <2>1. Core \in Sending
    BY DEF Sending
  <2>2. corePc' \in {"pop", "tx", "on", "check", "sleep"}
    BY <1>10 DEF CoreTx
  <2> QED
    BY <1>10, <2>1, <2>2, SendType DEF CoreTx
<1>11. CASE CoreEnable
  <2>1. psReq' \in Seq({"on", "off"})
    BY <1>11, AppendProperties DEF CoreEnable, power_save_dtim_enable
  <2> QED
    BY <1>11, <2>1 DEF CoreEnable
<1>12. CASE power_save_rf_sleep_check
  BY <1>12 DEF power_save_rf_sleep_check
<1>13. CASE power_save_sleep
  <2>1. CASE Sleep
    <3>1. psLock' \in 0 .. 1
      BY <2>1 DEF Sleep
    <3>2. {realSleep', canSleep', doze', macInts', wakeInt'} \subseteq BOOLEAN
      BY <2>1 DEF Sleep
    <3>3. mode' \in {"none", "dtim"} /\ way' \in {"none", "rw"} /\ waited' \in {"init", "true", "false"}
      BY <2>1 DEF Sleep
    <3> QED
      BY <1>13, <3>1, <3>2, <3>3 DEF power_save_sleep
  <2>2. CASE SleepRefused
    BY <1>13, <2>2 DEF power_save_sleep, SleepRefused
  <2> QED
    BY <1>13, <2>1, <2>2 DEF power_save_sleep
<1>14. CASE power_save_beacon_state_update
  BY <1>14 DEF power_save_beacon_state_update
<1>15. CASE power_save_dtim_enable_handler
  <2>1. psReq' \in Seq({"on", "off"})
    BY <1>15, HeadTailProperties DEF power_save_dtim_enable_handler
  <2> QED
    BY <1>15, <2>1 DEF power_save_dtim_enable_handler
<1>16. CASE power_save_dtim_disable_handler
  <2>1. psReq' \in Seq({"on", "off"})
    BY <1>16, HeadTailProperties DEF power_save_dtim_disable_handler, ModeOffSent
  <2>2. {realSleep', canSleep', rebooted', offOwed'} \subseteq BOOLEAN
    <3>1. realSleep' = FALSE /\ canSleep' = FALSE /\ offOwed' = FALSE
      BY <1>16 DEF power_save_dtim_disable_handler
    <3>2. rebooted' = TRUE \/ rebooted' = FALSE
      <4>1. CASE "reboot" \in event
        BY <1>16, <4>1, Zenon DEF power_save_dtim_disable_handler
      <4>2. CASE "reboot" \notin event
        <5>1. rebooted' = ("reboot" \in event)
          BY <1>16 DEF power_save_dtim_disable_handler
        <5>2. ("reboot" \in event) = FALSE
          BY <4>2
        <5> QED
          BY <5>1, <5>2, Zenon
      <4> QED
        BY <4>1, <4>2
    <3> QED
      BY <3>1, <3>2
  <2> QED
    BY <1>16, <2>1, <2>2 DEF power_save_dtim_disable_handler
<1>17. CASE power_save_dtim_wake
  <2>1. CASE realSleep
    <3>1. QueueOK' /\ offLost' \in BOOLEAN /\ event' \subseteq {"disable", "reboot"}
      BY <1>17, <2>1, DisableSendType
         DEF power_save_dtim_wake, power_save_ieee_dtim_wakeup, power_save_dtim_exit_check
    <3>2. wkList' \in Seq(Sending) /\ given' \subseteq Sending
      BY <1>17, <2>1
         DEF power_save_dtim_wake, power_save_ieee_dtim_wakeup, power_save_rf_ps_wkup_semlist_set
    <3>3. psLock' \in 0 .. 1
      BY <1>17, <2>1
         DEF power_save_dtim_wake, power_save_ieee_dtim_wakeup, power_save_wakeup, SleepAgrees
    <3>4. {realSleep', canSleep', doze', macInts', wakeInt', waitBcn'} \subseteq BOOLEAN
      BY <1>17, <2>1 DEF power_save_dtim_wake, power_save_ieee_dtim_wakeup, power_save_wakeup
    <3> QED
      BY <1>17, <2>1, <3>1, <3>2, <3>3, <3>4
         DEF power_save_dtim_wake, power_save_ieee_dtim_wakeup, power_save_wakeup
  <2>2. CASE ~realSleep
    BY <1>17, <2>2 DEF power_save_dtim_wake, power_save_ieee_dtim_wakeup
  <2> QED
    BY <2>1, <2>2
<1>18. CASE UNCHANGED vars
  BY <1>18 DEF vars
<1> QED
  BY <1>1, <1>2, <1>3, <1>4, <1>5, <1>6, <1>7, <1>8, <1>9, <1>10, <1>11, <1>12, <1>13,
     <1>14, <1>15, <1>16, <1>17, <1>18
     DEF Next, Running, AppStep, CoreStep, LibModeStep

LEMMA AgreesNext == Typed /\ [Next]_vars => SleepAgrees'
<1> SUFFICES ASSUME TypeOK, SleepAgrees, [Next]_vars PROVE SleepAgrees'
  BY DEF Typed
<1> USE DEF SleepAgrees
<1>1. CASE UNCHANGED <<realSleep, psLock, doze, macInts>>
  BY <1>1
<1>2. CASE power_save_sleep
  <2>1. CASE SleepRefused
    BY <1>1, <2>1 DEF SleepRefused, ps, hw
  <2>2. CASE ~realSleep /\ Sleep
    <3>1. psLock' = 0 /\ realSleep' = TRUE /\ doze' = TRUE /\ macInts' = FALSE
      BY <2>2 DEF Sleep
    <3> QED
      BY <3>1, Zenon
  <2> QED
    BY <1>2, <2>1, <2>2 DEF power_save_sleep
<1>3. CASE power_save_dtim_disable_handler
  <2>1. realSleep' = FALSE /\ doze = FALSE /\ UNCHANGED <<psLock, doze, macInts>>
    BY <1>3 DEF power_save_dtim_disable_handler, ModeOffSent, hw, TypeOK
  <2>2. realSleep = FALSE
    BY <2>1
  <2> QED
    BY <2>1, <2>2, Zenon
<1>4. CASE power_save_dtim_wake
  <2>1. realSleep /\ psLock = 0
    BY <1>4 DEF power_save_dtim_wake
  <2>2. psLock' = 1 /\ realSleep' = FALSE /\ doze' = FALSE /\ macInts' = TRUE
    BY <1>4, <2>1 DEF power_save_dtim_wake, power_save_ieee_dtim_wakeup, power_save_wakeup
  <2> QED
    BY <2>2, Zenon
<1> QED
  BY <1>1, <1>2, <1>3, <1>4
     DEF Next, Running, AppStep, CoreStep, LibModeStep, bk_wlan_dtim_rf_ps_mode_enable,
         bk_wlan_dtim_rf_ps_disable_send_msg, DisableAtWakeup, DisableByMessage, bk_reboot,
         OtherSend, TxSend, SenderStep, CorePop, CoreTx, CoreEnable, power_save_rf_sleep_check,
         power_save_beacon_state_update, power_save_dtim_enable_handler, vars, ps, hw

LEMMA TypedInvariant == Spec => []Typed
<1>1. Typed /\ [Next]_vars => Typed'
  BY TypeNext, AgreesNext DEF Typed
<1> QED
  BY <1>1, TypedInit, PTL DEF Spec

\* Every variable of the power-save model keeps its type.
THEOREM TypeCorrect == Spec => []TypeOK
BY TypedInvariant, PTL DEF Typed

\* The assertion of power_save_wakeup holds, power_save_sleep never finds the
\* lock taken, and the MAC's interrupts are disabled only while it sleeps.
THEOREM SleepStateAgrees == Spec => []SleepAgrees
BY TypedInvariant, PTL DEF Typed

-----------------------------------------------------------------------------
(* Threads that wait for the RF                                             *)

OnList(s) == \E i \in DOMAIN wkList : wkList[i] = s

\* A sleep can be ended: the mode lasts, the wakeup interrupt is enabled and
\* power_save_dtim_wake will not be turned away by ps_arm_wakeup_way.
SleepArmed == realSleep => mode = "dtim" /\ wakeInt /\ way = "none"

\* A thread holds sleep off from before it looks at the RF until its frame is
\* out; it waits only during a sleep, on the list, and is off the list when its
\* semaphore has been set.
Threads ==
    \A s \in Sending :
        /\ senderPc[s] # "idle" => s \in prevent
        /\ s \in given => senderPc[s] = "waiting" /\ ~realSleep
        /\ senderPc[s] = "go" => ~realSleep
        /\ senderPc[s] = "waiting" /\ s \notin given => realSleep /\ OnList(s)
        /\ OnList(s) => senderPc[s] = "waiting" /\ s \notin given

Waiting == SleepArmed /\ Threads

LEMMA WaitingInit == Init => Waiting
BY DEF Init, Waiting, SleepArmed, Threads, OnList, Sending

LEMMA ArmedNext == Typed /\ SleepArmed /\ [Next]_vars => SleepArmed'
<1> SUFFICES ASSUME Typed, SleepArmed, [Next]_vars PROVE SleepArmed'
  OBVIOUS
<1> USE DEF SleepArmed
<1>1. CASE UNCHANGED <<realSleep, mode, wakeInt, way>>
  BY <1>1
<1>2. CASE power_save_sleep
  <2>1. CASE SleepRefused
    BY <1>1, <2>1 DEF SleepRefused, ps, hw
  <2>2. CASE ~realSleep /\ CanSleep /\ Sleep
    BY <2>2 DEF Sleep, CanSleep, Typed, SleepAgrees
  <2> QED
    BY <1>2, <2>1, <2>2 DEF power_save_sleep
<1>3. CASE power_save_dtim_enable_handler
  BY <1>3 DEF power_save_dtim_enable_handler, hw
<1>4. CASE power_save_dtim_disable_handler
  BY <1>4 DEF power_save_dtim_disable_handler
<1>5. CASE power_save_dtim_wake
  BY <1>5 DEF power_save_dtim_wake, power_save_ieee_dtim_wakeup
<1> QED
  BY <1>1, <1>2, <1>3, <1>4, <1>5
     DEF Next, Running, AppStep, CoreStep, LibModeStep, bk_wlan_dtim_rf_ps_mode_enable,
         bk_wlan_dtim_rf_ps_disable_send_msg, DisableAtWakeup, DisableByMessage, bk_reboot,
         OtherSend, TxSend, SenderStep, CorePop, CoreTx, CoreEnable, power_save_rf_sleep_check,
         power_save_beacon_state_update, vars, ps, hw

\* One step of a thread that sends, in its own context or in the core thread's.
LEMMA SendThreads ==
    ASSUME TypeOK, Waiting, NEW o \in Sending, Send(o), UNCHANGED <<realSleep, mode>>
    PROVE  Threads'
<1>t. /\ wkList \in Seq(Sending) /\ Len(wkList) \in Nat
      /\ senderPc \in [Sending -> {"idle", "wakeup", "waiting", "go"}]
  BY DEF TypeOK
<1>h. Threads /\ SleepArmed
  BY DEF Waiting
<1>l. UNCHANGED wkList => \A s : OnList(s)' <=> OnList(s)
  BY DEF OnList
<1>1. CASE Prevent(o) /\ UNCHANGED <<wkList, given>>
  BY <1>1, <1>t, <1>h, <1>l DEF Prevent, Threads
<1>2. CASE power_save_rf_dtim_manual_do_wakeup(o) /\ UNCHANGED <<prevent, given>>
  <2>1. CASE Asleep
    <3>1. /\ wkList' = Append(wkList, o) /\ realSleep /\ senderPc[o] = "wakeup"
          /\ senderPc' = [senderPc EXCEPT ![o] = "waiting"]
      BY <1>2, <2>1 DEF power_save_rf_dtim_manual_do_wakeup, Asleep
    <3>2. /\ Len(wkList') = Len(wkList) + 1
          /\ \A i \in 1 .. Len(wkList) : wkList'[i] = wkList[i]
          /\ wkList'[Len(wkList) + 1] = o
          /\ DOMAIN wkList' = 1 .. Len(wkList) + 1 /\ DOMAIN wkList = 1 .. Len(wkList)
      BY <1>t, <3>1, AppendProperties
    <3>3. \A s : OnList(s)' <=> OnList(s) \/ s = o
      BY <1>t, <3>2 DEF OnList
    <3> QED
      BY <1>2, <1>t, <1>h, <3>1, <3>3 DEF Threads
  <2>2. CASE ~Asleep
    <3>1. /\ UNCHANGED wkList /\ senderPc[o] = "wakeup"
          /\ senderPc' = [senderPc EXCEPT ![o] = "go"]
      BY <1>2, <2>2 DEF power_save_rf_dtim_manual_do_wakeup
    <3>2. ~realSleep
      BY <1>h, <2>2 DEF Asleep, SleepArmed
    <3> QED
      BY <1>2, <1>t, <1>h, <1>l, <3>1, <3>2 DEF Threads
  <2> QED
    BY <2>1, <2>2
<1>3. CASE power_save_rf_ps_wkup_semlist_get(o) /\ UNCHANGED prevent
  <2>1. /\ senderPc[o] = "waiting" /\ o \in given /\ given' = given \ {o}
        /\ senderPc' = [senderPc EXCEPT ![o] = "go"]
        /\ wkList' = co_list_extract(wkList, o)
    BY <1>3 DEF power_save_rf_ps_wkup_semlist_get
  <2>2. ~OnList(o)
    BY <1>h, <2>1 DEF Threads
  <2>3. UNCHANGED wkList
    BY <1>t, <2>1, <2>2 DEF co_list_extract, OnList
  <2> QED
    BY <1>3, <1>t, <1>h, <1>l, <2>1, <2>3 DEF Threads
<1>4. CASE Transmit(o) /\ UNCHANGED <<wkList, given>>
  BY <1>4, <1>t, <1>h, <1>l DEF Transmit, Threads
<1> QED
  BY <1>1, <1>2, <1>3, <1>4 DEF Send

LEMMA ThreadsNext == Typed /\ Waiting /\ [Next]_vars => Threads'
<1> SUFFICES ASSUME Typed, Waiting, [Next]_vars PROVE Threads'
  OBVIOUS
<1>t. TypeOK /\ SleepAgrees /\ SleepArmed /\ Threads
  BY DEF Typed, Waiting
<1>l. UNCHANGED wkList => \A s : OnList(s)' <=> OnList(s)
  BY DEF OnList
<1>1. CASE UNCHANGED <<senderPc, prevent, given, wkList>> /\ (realSleep' <=> realSleep)
  BY <1>1, <1>t, <1>l DEF Threads
<1>2. ASSUME NEW s \in Senders, SenderStep(s) PROVE Threads'
  BY <1>2, <1>t, SendThreads DEF SenderStep, Sending, ps
<1>3. CASE CoreTx
  BY <1>3, <1>t, SendThreads DEF CoreTx, Sending, ps
<1>4. CASE power_save_sleep
  <2>1. CASE SleepRefused
    BY <1>1, <1>4, <2>1 DEF power_save_sleep, SleepRefused, ps, lib
  <2>2. CASE ps_sleep_check /\ ~realSleep /\ Sleep
    <3>1. \A s \in Sending : senderPc[s] = "idle" /\ s \notin given /\ ~OnList(s)
      BY <1>t, <2>2 DEF Threads, ps_sleep_check
    <3>2. UNCHANGED <<senderPc, prevent, given, wkList>>
      BY <1>4 DEF power_save_sleep, lib
    <3> QED
      BY <1>l, <3>1, <3>2 DEF Threads
  <2> QED
    BY <1>4, <2>1, <2>2 DEF power_save_sleep
<1>5. CASE power_save_dtim_disable_handler
  <2>1. ~realSleep /\ ~realSleep'
    BY <1>5, <1>t DEF power_save_dtim_disable_handler, ModeOffSent, SleepAgrees
  <2> QED
    BY <1>1, <1>5, <2>1 DEF power_save_dtim_disable_handler
<1>6. CASE power_save_dtim_wake
  <2>1. /\ given' = given \cup {wkList[i] : i \in DOMAIN wkList} /\ wkList' = <<>>
        /\ ~realSleep' /\ UNCHANGED <<senderPc, prevent>>
    BY <1>6, <1>t DEF power_save_dtim_wake, power_save_ieee_dtim_wakeup, SleepAgrees,
                      power_save_rf_ps_wkup_semlist_set
  <2>2. \A s : ~OnList(s)'
    BY <2>1 DEF OnList
  <2>3. \A s : s \in given' <=> s \in given \/ OnList(s)
    BY <2>1 DEF OnList
  <2> QED
    BY <1>t, <2>1, <2>2, <2>3 DEF Threads
<1> QED
  BY <1>1, <1>2, <1>3, <1>4, <1>5, <1>6
     DEF Next, Running, AppStep, CoreStep, LibModeStep, bk_wlan_dtim_rf_ps_mode_enable,
         bk_wlan_dtim_rf_ps_disable_send_msg, DisableAtWakeup, DisableByMessage, bk_reboot,
         OtherSend, TxSend, CorePop, CoreEnable, power_save_rf_sleep_check,
         power_save_beacon_state_update, power_save_dtim_enable_handler, vars, ps, lib

LEMMA WaitingInvariant == Spec => [](Typed /\ Waiting)
<1>1. Typed /\ Waiting /\ [Next]_vars => Waiting'
  BY ArmedNext, ThreadsNext DEF Waiting
<1> QED
  BY <1>1, TypedInvariant, WaitingInit, PTL DEF Spec

\* A thread that blocks without a timeout is on the list, and the interrupt that
\* serves the list will be taken.
THEOREM SenderNotStranded == Spec => []NoStrandedSender
<1>1. Typed /\ Waiting => NoStrandedSender
  BY DEF Waiting, Threads, SleepArmed, NoStrandedSender, OnList, Asleep
<1> QED
  BY <1>1, WaitingInvariant, PTL

\* No frame is handed to a MAC that sleeps.
THEOREM FramesSentAwake == Spec => []SentAwake
<1>1. Typed /\ Waiting => SentAwake
  BY DEF Typed, SleepAgrees, Waiting, Threads, SentAwake
<1> QED
  BY <1>1, WaitingInvariant, PTL

-----------------------------------------------------------------------------
(* Turning the mode off                                                     *)

\* Only the end of the mode settles it.
OffOwedInMode == offOwed => mode = "dtim"

Queued == \E i \in DOMAIN ioQueue : ioQueue[i] = "rf_off"
Asked == \E i \in DOMAIN psReq : psReq[i] = "off"

Disabling == OffOwedInMode /\ DisableUnderway

\* A message that is sent stays behind those already queued.
LEMMA AppendKeeps ==
    ASSUME NEW S, NEW q \in Seq(S), NEW e \in S, NEW x
    PROVE  (\E i \in DOMAIN Append(q, e) : Append(q, e)[i] = x)
               <=> (\E i \in DOMAIN q : q[i] = x) \/ e = x
<1>1. /\ Len(q) \in Nat /\ DOMAIN q = 1 .. Len(q) /\ DOMAIN Append(q, e) = 1 .. Len(q) + 1
      /\ \A i \in 1 .. Len(q) : Append(q, e)[i] = q[i]
      /\ Append(q, e)[Len(q) + 1] = e
  BY AppendProperties
<1> QED
  BY <1>1

\* Taking the head leaves whatever else is queued.
LEMMA TailKeeps ==
    ASSUME NEW S, NEW q \in Seq(S), q # <<>>, NEW x, \E i \in DOMAIN q : q[i] = x, Head(q) # x
    PROVE  \E i \in DOMAIN Tail(q) : Tail(q)[i] = x
<1>1. /\ Len(q) \in Nat /\ DOMAIN q = 1 .. Len(q) /\ DOMAIN Tail(q) = 1 .. Len(q) - 1
      /\ \A i \in 1 .. Len(q) - 1 : Tail(q)[i] = q[i + 1]
      /\ Head(q) = q[1]
  BY HeadTailProperties
<1>2. PICK i \in 1 .. Len(q) : q[i] = x
  BY <1>1
<1>3. i - 1 \in 1 .. Len(q) - 1 /\ Tail(q)[i - 1] = x
  BY <1>1, <1>2
<1> QED
  BY <1>1, <1>3

\* power_save_dtim_rf_ps_disable_send_msg queues its message or records the loss.
LEMMA DisableSendQueues ==
    ASSUME TypeOK, power_save_dtim_rf_ps_disable_send_msg
    PROVE  /\ Queued => Queued'
           /\ offLost => offLost'
           /\ mode = "dtim" => Queued' \/ offLost'
<1> DEFINE M == {"rf_on", "rf_off", "tx", "other"}
<1>1. ioQueue \in Seq(M) /\ "rf_off" \in M /\ Len(ioQueue) \in Nat /\ Len(ioQueue) <= IoQueueLen
  BY DEF TypeOK
<1> HIDE DEF M
<1>2. CASE mode = "dtim" /\ Len(ioQueue) < IoQueueLen
  <2>1. ioQueue' = Append(ioQueue, "rf_off") /\ (offLost => offLost')
    BY <1>2 DEF power_save_dtim_rf_ps_disable_send_msg, bmsg_ps_sender
  <2>2. Queued'
    BY <1>1, <2>1, AppendKeeps DEF Queued
  <2> QED
    BY <2>1, <2>2
<1>3. CASE mode = "dtim" /\ ~(Len(ioQueue) < IoQueueLen)
  <2>1. Len(ioQueue) = IoQueueLen
    BY <1>1, <1>3, PowerSaveAssumption
  <2>2. ioQueue' = ioQueue /\ offLost'
    BY <1>3, <2>1 DEF power_save_dtim_rf_ps_disable_send_msg, bmsg_ps_sender
  <2> QED
    BY <2>2 DEF Queued
<1>4. CASE mode # "dtim"
  BY <1>4 DEF power_save_dtim_rf_ps_disable_send_msg, Queued
<1> QED
  BY <1>2, <1>3, <1>4

LEMMA DisablingNext == Typed /\ Disabling /\ [Next]_vars => Disabling'
<1> SUFFICES ASSUME Typed, Disabling, [Next]_vars PROVE Disabling'
  OBVIOUS
<1> DEFINE M == {"rf_on", "rf_off", "tx", "other"}
<1>t. /\ TypeOK /\ (offOwed => mode = "dtim")
      /\ offOwed /\ ~offLost => "disable" \in event \/ Queued \/ Asked
      /\ ioQueue \in Seq(M) /\ psReq \in Seq({"on", "off"})
  BY DEF Typed, TypeOK, Disabling, OffOwedInMode, DisableUnderway, Queued, Asked
<1>g. SUFFICES /\ offOwed' => mode' = "dtim"
               /\ offOwed' /\ ~offLost' => "disable" \in event' \/ Queued' \/ Asked'
  BY DEF Disabling, OffOwedInMode, DisableUnderway, Queued, Asked
<1>q. UNCHANGED ioQueue => (Queued' <=> Queued)
  BY DEF Queued
<1>r. UNCHANGED psReq => (Asked' <=> Asked)
  BY DEF Asked
<1> USE DEF app, ps, lib
<1>1. ASSUME UNCHANGED <<mode, offOwed, offLost>>, event \subseteq event', Queued => Queued', Asked => Asked'
      PROVE  /\ offOwed' => mode' = "dtim"
             /\ offOwed' /\ ~offLost' => "disable" \in event' \/ Queued' \/ Asked'
  BY <1>1, <1>t
<1>a. ASSUME NEW e \in M, ioQueue' = Append(ioQueue, e) PROVE Queued => Queued'
  BY <1>a, <1>t, AppendKeeps DEF Queued
<1>2. CASE bk_wlan_dtim_rf_ps_mode_enable \/ OtherSend \/ TxSend
  <2>1. Queued => Queued'
    BY <1>2, <1>q, <1>a DEF bk_wlan_dtim_rf_ps_mode_enable, OtherSend, TxSend, bmsg_ps_sender
  <2> QED
    BY <1>1, <1>2, <1>r, <2>1 DEF bk_wlan_dtim_rf_ps_mode_enable, OtherSend, TxSend
<1>3. CASE DisableAtWakeup
  BY <1>3, <1>t DEF DisableAtWakeup
<1>4. CASE DisableByMessage
  <2>1. mode = "dtim" => Queued' \/ offLost'
    BY <1>4, <1>t, DisableSendQueues DEF DisableByMessage
  <2> QED
    BY <1>4, <2>1 DEF DisableByMessage
<1>5. CASE CorePop
  <2>1. /\ ioQueue # <<>> /\ ioQueue' = Tail(ioQueue)
        /\ UNCHANGED <<mode, offOwed, offLost, event>>
    BY <1>5 DEF CorePop
  <2>2. CASE Head(ioQueue) = "rf_off" /\ mode = "dtim"
    <3>1. psReq' = Append(psReq, "off")
      BY <1>5, <2>2 DEF CorePop, power_save_dtim_disable
    <3>2. Asked'
      BY <1>t, <3>1, AppendKeeps DEF Asked
    <3> QED
      BY <1>t, <2>1, <3>2
  <2>3. CASE ~offOwed
    BY <2>1, <2>3
  <2>4. CASE Head(ioQueue) # "rf_off"
    <3>1. UNCHANGED psReq
      BY <1>5, <2>4 DEF CorePop
    <3>2. Queued => Queued'
      BY <1>t, <2>1, <2>4, TailKeeps DEF Queued
    <3> QED
      BY <1>1, <1>r, <2>1, <3>1, <3>2
  <2> QED
    BY <1>t, <2>2, <2>3, <2>4
<1>6. CASE CoreEnable
  <2>1. Asked => Asked'
    <3>1. "on" \in {"on", "off"}
      OBVIOUS
    <3>2. CASE psReq' = Append(psReq, "on")
      BY <1>t, <3>1, <3>2, AppendKeeps DEF Asked
    <3> QED
      BY <1>6, <1>r, <3>2 DEF CoreEnable, power_save_dtim_enable
  <2> QED
    BY <1>1, <1>6, <1>q, <2>1 DEF CoreEnable
<1>7. CASE power_save_dtim_enable_handler
  <2>1. Asked => Asked'
    BY <1>7, <1>t, TailKeeps DEF power_save_dtim_enable_handler, Asked
  <2> QED
    BY <1>7, <1>t, <1>q, <2>1 DEF power_save_dtim_enable_handler
<1>8. CASE power_save_dtim_disable_handler
  BY <1>8 DEF power_save_dtim_disable_handler
<1>9. CASE power_save_dtim_wake
  <2>1. mode = "dtim" /\ UNCHANGED <<mode, offOwed, psReq>>
    BY <1>9 DEF power_save_dtim_wake
  <2>2. CASE UNCHANGED <<event, ioQueue, offLost>>
    BY <1>1, <1>q, <1>r, <2>1, <2>2
  <2>3. CASE power_save_dtim_rf_ps_disable_send_msg
    BY <1>t, <2>1, <2>3, DisableSendQueues
  <2> QED
    BY <1>9, <2>2, <2>3
       DEF power_save_dtim_wake, power_save_ieee_dtim_wakeup, power_save_dtim_exit_check
<1>10. CASE power_save_sleep
  <2>1. UNCHANGED mode
    BY <1>10 DEF power_save_sleep, Sleep, SleepRefused
  <2> QED
    BY <1>1, <1>10, <1>q, <1>r, <2>1 DEF power_save_sleep
<1>11. CASE UNCHANGED <<mode, offOwed, offLost, ioQueue, psReq>> /\ event \subseteq event'
  BY <1>1, <1>11, <1>q, <1>r
<1> QED
  BY <1>2, <1>3, <1>4, <1>5, <1>6, <1>7, <1>8, <1>9, <1>10, <1>11
     DEF Next, Running, AppStep, CoreStep, LibModeStep, bk_wlan_dtim_rf_ps_disable_send_msg,
         bk_reboot, SenderStep, CoreTx, power_save_rf_sleep_check,
         power_save_beacon_state_update, vars

\* Turning the mode off is not forgotten while the mode lasts, unless a full
\* queue lost the message.
THEOREM DisableNotForgotten == Spec => []DisableUnderway
<1>1. Init => Disabling
  BY DEF Init, Disabling, OffOwedInMode, DisableUnderway
<1>2. Disabling => DisableUnderway
  BY DEF Disabling
<1> QED
  BY <1>1, <1>2, TypedInvariant, DisablingNext, PTL DEF Spec
=============================================================================
