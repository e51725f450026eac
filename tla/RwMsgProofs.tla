---------------------------- MODULE RwMsgProofs ----------------------------
(***************************************************************************)
(* For every set of clients and ids, every queue length and any number of  *)
(* calls: RwMsg is type correct; rwnx_recv_msg never holds a freed node of  *)
(* a request that reached the bus and never writes the buffer of a call     *)
(* that has returned (IInv); kmsgbk never sleeps on a message; a request is *)
(* in one place and is answered once (OnePlace); and a caller gets its own  *)
(* answer unless a call of the id failed or two overlapped (Answers).       *)
(***************************************************************************)
EXTENDS RwMsg, SequenceTheorems, TLAPS

\* co_list_extract keeps a list of calls a list of calls.
LEMMA ExtractType ==
    ASSUME NEW list \in Seq(Calls), NEW n
    PROVE  Extract(list, n) \in Seq(Calls)
<1>1. CASE \E i \in 1 .. Len(list) : list[i] = n
  <2> DEFINE k == CHOOSE i \in 1 .. Len(list) : list[i] = n
             res == [j \in 1 .. Len(list) - 1 |-> IF j < k THEN list[j] ELSE list[j + 1]]
  <2>1. k \in 1 .. Len(list) /\ list[k] = n
    BY <1>1
  <2>2. Len(list) \in Nat /\ Len(list) - 1 \in Nat
    BY <2>1
  <2> HIDE DEF k
  <2>3. res \in [1 .. Len(list) - 1 -> Calls]
    BY <2>1, <2>2
  <2>4. res \in Seq(Calls)
    BY <2>2, <2>3
  <2> QED
    BY <1>1, <2>4 DEF Extract, k
<1>2. CASE ~ \E i \in 1 .. Len(list) : list[i] = n
  BY <1>2 DEF Extract
<1> QED
  BY <1>1, <1>2

\* co_list_extract of a list without duplicates removes exactly one element.
LEMMA ExtractRemoves ==
    ASSUME NEW list \in Seq(Calls), NEW n, NoDup(list)
    PROVE  /\ NoDup(Extract(list, n))
           /\ ~InList(Extract(list, n), n)
           /\ \A m : InList(Extract(list, n), m) => InList(list, m)
<1>1. CASE \E i \in 1 .. Len(list) : list[i] = n
  <2> DEFINE k == CHOOSE i \in 1 .. Len(list) : list[i] = n
             res == [j \in 1 .. Len(list) - 1 |-> IF j < k THEN list[j] ELSE list[j + 1]]
  <2>1. k \in 1 .. Len(list) /\ list[k] = n
    BY <1>1
  <2>2. Len(list) \in Nat /\ Len(list) - 1 \in Nat
    BY <2>1
  <2>3. Extract(list, n) = res
    BY <1>1 DEF Extract
  <2> HIDE DEF k
  <2>4. res \in Seq(Calls)
    <3>1. res \in [1 .. Len(list) - 1 -> Calls]
      BY <2>1, <2>2
    <3> QED BY <3>1, <2>2
  <2>5. Len(res) = Len(list) - 1
    BY <2>2, <2>4
  <2>6. \A j \in 1 .. Len(res) : res[j] = IF j < k THEN list[j] ELSE list[j + 1]
    BY <2>5
  <2> HIDE DEF res
  <2>7. NoDup(res)
    BY <2>1, <2>2, <2>5, <2>6 DEF NoDup
  <2>8. ~InList(res, n)
    BY <2>1, <2>2, <2>5, <2>6 DEF NoDup, InList
  <2>9. \A m : InList(res, m) => InList(list, m)
    BY <2>1, <2>2, <2>5, <2>6 DEF InList
  <2> QED
    BY <2>3, <2>7, <2>8, <2>9
<1>2. CASE ~ \E i \in 1 .. Len(list) : list[i] = n
  BY <1>2 DEF Extract, InList
<1> QED
  BY <1>1, <1>2

-----------------------------------------------------------------------------
(* Type correctness                                                         *)

LEMMA TypeInit == Init => TypeOK
BY IdsAssumption, BoundsAssumption, QueueLenAssumption
   DEF Init, TypeOK, Calls, Ids, BusMsgs, KeMsgs, NoMsg

LEMMA TypeNext == TypeOK /\ [Next]_vars => TypeOK'
<1> SUFFICES ASSUME TypeOK, [Next]_vars PROVE TypeOK'
  OBVIOUS
<1> USE BoundsAssumption, QueueLenAssumption DEF TypeOK, Ids
<1>1. ASSUME NEW c \in Clients, BeginNoCfm(c) PROVE TypeOK'
  BY <1>1 DEF BeginNoCfm, Calls, core, kmsg, client, node, hist
<1>2. ASSUME NEW c \in Clients, BeginNoMem(c) PROVE TypeOK'
  BY <1>2 DEF BeginNoMem, Calls, core, kmsg, client, node, hist
<1>3. ASSUME NEW c \in Clients, Link(c) PROVE TypeOK'
  BY <1>3 DEF Link, core, kmsg, client, node, hist
<1>4. ASSUME NEW c \in Clients, Post(c) PROVE TypeOK'
  <2>1. [type |-> "ioctl", req |-> call[c]] \in BusMsgs
    BY <1>4 DEF Post, BusMsgs
  <2>2. ioQueue' \in Seq(BusMsgs) /\ Len(ioQueue') <= QueueLen /\ call[c] \in Calls
    BY <1>4, <2>1, AppendProperties DEF Post
  <2> QED
    BY <1>4, <2>2 DEF Post, Return, core, kmsg, client, node, hist
<1>5. ASSUME NEW c \in Clients, PostFull(c) PROVE TypeOK'
  <2>1. call[c] \in Calls
    BY <1>5 DEF PostFull
  <2> QED
    BY <1>5, <2>1 DEF PostFull, Return, core, kmsg, client, node, hist
<1>6. ASSUME NEW c \in Clients, Confirmed(c) PROVE TypeOK'
  BY <1>6 DEF Confirmed, core, kmsg, client, node, hist
<1>7. ASSUME NEW c \in Clients, Timeout(c) PROVE TypeOK'
  BY <1>7 DEF Timeout, core, kmsg, client, node, hist
<1>8. ASSUME NEW c \in Clients, Unlink(c) PROVE TypeOK'
  BY <1>8, ExtractType DEF Unlink, core, kmsg, client, node, hist
<1>9. ASSUME NEW c \in Clients, Abort(c) PROVE TypeOK'
  BY <1>9 DEF Abort, Free, Return, core, kmsg, client, node, hist
<1>10. ASSUME NEW c \in Clients, Release(c) PROVE TypeOK'
  BY <1>10 DEF Release, Free, Return, core, kmsg, client, node, hist
<1>11. ASSUME NEW c \in Clients, NEW id \in ReqIds, Begin(c, id) PROVE TypeOK'
  BY <1>11 DEF Begin, Calls, core, kmsg, client, node, hist
<1>12. ASSUME NEW t \in {"tx", "rx"}, BusPost(t) PROVE TypeOK'
  <2>1. [type |-> t, req |-> 0] \in BusMsgs
    BY DEF BusMsgs
  <2>2. ioQueue' \in Seq(BusMsgs) /\ Len(ioQueue') <= QueueLen
    BY <1>12, <2>1, AppendProperties DEF BusPost
  <2> QED
    BY <1>12, <2>2 DEF BusPost, core, kmsg, client, node, hist
<1>13. ASSUME NEW k \in Calls, FwConfirm(k) PROVE TypeOK'
  <2>1. [id |-> reqid[k], req |-> k] \in KeMsgs
    BY DEF KeMsgs
  <2>2. rxHead' \in Seq(KeMsgs) /\ rxHead' # <<>>
    BY <1>13, <2>1, AppendProperties DEF FwConfirm, Fwd
  <2> QED
    BY <1>13, <2>2 DEF FwConfirm, Fwd, core, kmsg, client, node, hist
<1>14. CASE RfWake
  BY <1>14 DEF RfWake, core, kmsg, client, node, hist
<1>15. CASE CorePop
  <2>1. /\ Head(ioQueue) \in BusMsgs
        /\ ioQueue' \in Seq(BusMsgs) /\ Len(ioQueue') <= QueueLen
    BY <1>15, HeadTailProperties DEF CorePop
  <2>2. fw' \subseteq Calls
    <3>1. CASE Head(ioQueue).type = "ioctl" /\ fw' = fw \cup {Head(ioQueue).req}
      BY <2>1, <3>1 DEF BusMsgs
    <3> QED
      BY <1>15, <3>1 DEF CorePop
  <2> QED
    BY <1>15, <2>1, <2>2 DEF CorePop, core, kmsg, client, node, hist
<1>16. CASE CoreLoop
  BY <1>16 DEF CoreLoop, core, kmsg, client, node, hist
<1>17. CASE FwIndicate
  <2>1. NoMsg \in KeMsgs
    BY DEF NoMsg, KeMsgs
  <2>2. rxHead' \in Seq(KeMsgs) /\ rxHead' # <<>>
    BY <1>17, <2>1, AppendProperties DEF FwIndicate, Fwd
  <2> QED
    BY <1>17, <2>2 DEF FwIndicate, Fwd, core, kmsg, client, node, hist
<1>18. CASE KmsgWake
  BY <1>18 DEF KmsgWake, core, kmsg, client, node, hist
<1>19. CASE KmsgRead
  <2>1. rxHead # <<>> => Head(rxHead) \in KeMsgs
    BY HeadTailProperties
  <2> QED
    BY <1>19, <2>1 DEF KmsgRead, core, kmsg, client, node, hist
<1>20. CASE KmsgPop
  <2>1. Tail(rxHead) \in Seq(KeMsgs)
    BY <1>20, HeadTailProperties DEF KmsgPop
  <2>2. rxHead' \in Seq(KeMsgs)
    BY <1>20, <2>1 DEF KmsgPop
  <2> QED
    BY <1>20, <2>2 DEF KmsgPop, core, kmsg, client, node, hist
<1>21. CASE KmsgPick
  <2>1. txHead # <<>> => 1 \in 1 .. Len(txHead) /\ txHead[1] \in Calls
    <3>1. txHead # <<>> => Len(txHead) \in Nat \ {0}
      BY EmptySeq
    <3> QED
      BY <3>1, LenProperties
  <2> QED
    BY <1>21, <2>1 DEF KmsgPick, Pick, core, kmsg, client, node, hist
<1>22. CASE KmsgFound
  BY <1>22 DEF KmsgFound, core, kmsg, client, node, hist
<1>23. CASE KmsgNext
  BY <1>23 DEF KmsgNext, NextAt, core, kmsg, client, node, hist
<1>24. CASE KmsgMatch
  BY <1>24, ExtractType DEF KmsgMatch, core, kmsg, client, node, hist
<1>25. CASE KmsgSignal
  BY <1>25 DEF KmsgSignal, KmsgAgain, NoMsg, KeMsgs, core, kmsg, client, node, hist
<1>26. CASE KmsgHandle
  BY <1>26 DEF KmsgHandle, KmsgAgain, NoMsg, KeMsgs, core, kmsg, client, node, hist
<1>27. CASE UNCHANGED vars
  BY <1>27 DEF vars, core, kmsg, client, node, hist
<1> QED
  BY <1>1, <1>2, <1>3, <1>4, <1>5, <1>6, <1>7, <1>8, <1>9, <1>10, <1>11, <1>12, <1>13,
     <1>14, <1>15, <1>16, <1>17, <1>18, <1>19, <1>20, <1>21, <1>22, <1>23, <1>24, <1>25, <1>26, <1>27
     DEF Next, ClientStep, CoreStep, KmsgStep

\* No handler of the message path, in any interleaving, leaves the types.
THEOREM TypeCorrect == Spec => []TypeOK
BY TypeInit, TypeNext, PTL DEF Spec

-----------------------------------------------------------------------------
(* Nodes: allocated while linked, allocated while rwnx_recv_msg holds them  *)

LEMMA SafeInit == Init => IInv
<1> SUFFICES ASSUME Init PROVE IInv
  OBVIOUS
<1>1. TypeOK
  BY TypeInit
<1>2. txHead = <<>> /\ Len(txHead) = 0
  BY DEF Init
<1> QED
  BY <1>1, <1>2, BoundsAssumption
     DEF Init, IInv, CallsFresh, CallsDistinct, NodeDiscipline, LinkUnlinked, ReleaseUnlinked, AbortUnlinked,
         SignalledUnlinked, LiveNodeOpen, NoDup, InList, KmsgHolds,
         LinkedNodesLive, NoUseAfterFree, Calls

\* Steps of the core thread and of the firmware touch neither nodes nor locals.
LEMMA CoreFrame ==
    ASSUME IInv, TypeOK', UNCHANGED <<txHead, kmsg, client, node, hist>>
    PROVE  IInv'
BY DEF IInv, CallsFresh, CallsDistinct, NodeDiscipline, LinkUnlinked, ReleaseUnlinked, AbortUnlinked,
         SignalledUnlinked, LiveNodeOpen, NoDup, InList, KmsgHolds,
       LinkedNodesLive, NoUseAfterFree, kmsg, client, node, hist

\* A step of kmsgbk that changes only its locals keeps what is not about them.
LEMMA KmsgFrame ==
    ASSUME IInv, UNCHANGED <<txHead, client, node, hist>>
    PROVE  CallsFresh' /\ CallsDistinct' /\ NodeDiscipline' /\ LinkedNodesLive'
BY DEF IInv, CallsFresh, CallsDistinct, NodeDiscipline, LinkUnlinked, ReleaseUnlinked, AbortUnlinked,
         SignalledUnlinked, LiveNodeOpen, NoDup, InList,
       LinkedNodesLive, client, node, hist

\* While a client runs kmsgbk is asleep and holds no node.
LEMMA ClientFrame ==
    ASSUME IInv, ClientMayRun, UNCHANGED kmsg
    PROVE  KmsgHolds' /\ NoUseAfterFree'
BY DEF ClientMayRun, KmsgReady, KmsgHolds, NoUseAfterFree, kmsg

\* What the members of a list have in common with their positions.
LEMMA InListMember ==
    ASSUME NEW list, NEW i \in 1 .. Len(list)
    PROVE  InList(list, list[i])
BY DEF InList

LEMMA SafeClient ==
    ASSUME IInv, TypeOK', NEW c \in Clients,
           \/ BeginNoCfm(c) \/ BeginNoMem(c) \/ ClientStep(c)
           \/ \E id \in ReqIds : Begin(c, id)
    PROVE  IInv'
<1>a. /\ txHead \in Seq(Calls)
      /\ call \in [Clients -> Calls \cup {0}]
      /\ \A d \in Clients : clientPc[d] # "idle" => call[d] \in Calls
      /\ clientPc \in [Clients -> {"idle", "link", "post", "wait", "unlink", "abort", "release"}]
      /\ nodeState \in [Calls -> {"none", "live", "freed"}]
      /\ reqid \in [Calls -> Ids] /\ sema \in [Calls -> 0 .. 1]
      /\ outcome \in [Calls -> {"none", "ok", "fail"}]
      /\ calls \in Nat /\ Calls \subseteq Nat /\ 0 \notin Calls
  BY BoundsAssumption DEF IInv, TypeOK, Calls
<1>b. \A i \in 1 .. Len(txHead) : txHead[i] \in Nat
  BY <1>a, LenProperties
<1>c. /\ CallsFresh /\ CallsDistinct /\ LinkedNodesLive
      /\ NoDup(txHead) /\ LinkUnlinked /\ ReleaseUnlinked /\ AbortUnlinked
      /\ SignalledUnlinked /\ LiveNodeOpen
  BY DEF IInv, NodeDiscipline
<1>d. \A d \in Clients : call[d] \in Nat
  BY BoundsAssumption DEF IInv, TypeOK, Calls
<1> USE <1>a, <1>c
<1>0. KmsgHolds' /\ NoUseAfterFree'
  <2>1. ClientMayRun /\ UNCHANGED kmsg
    BY DEF BeginNoCfm, BeginNoMem, Begin, ClientStep, Link, Post, PostFull, Confirmed, Timeout,
           Unlink, Abort, Release, Free
  <2> QED
    BY <2>1, ClientFrame
<1>1. CASE BeginNoCfm(c)
  <2> USE <1>1 DEF BeginNoCfm, node, hist
  <2>1. calls + 1 \in Calls
    BY BoundsAssumption DEF Calls
  <2>2. CallsFresh'
    <3>1. \A i \in 1 .. Len(txHead) : txHead[i] <= calls + 1
      BY <1>b DEF CallsFresh
    <3>2. \A d \in Clients : call'[d] <= calls + 1
      BY <1>d DEF CallsFresh
    <3>3. \A n \in Calls : n > calls + 1 => n > calls /\ n # calls + 1
      OBVIOUS
    <3> QED
      BY <2>1, <3>1, <3>2, <3>3 DEF CallsFresh
  <2>3. CallsDistinct'
    BY <2>1 DEF CallsFresh, CallsDistinct
  <2>4. LinkUnlinked' /\ ReleaseUnlinked' /\ AbortUnlinked'
    BY DEF LinkUnlinked, ReleaseUnlinked, AbortUnlinked
  <2>5. NoDup(txHead)' /\ SignalledUnlinked' /\ LiveNodeOpen' /\ LinkedNodesLive'
    BY DEF NoDup, SignalledUnlinked, LiveNodeOpen, LinkedNodesLive
  <2> QED
    BY <1>0, <2>2, <2>3, <2>4, <2>5 DEF IInv, NodeDiscipline
<1>2. CASE BeginNoMem(c)
  <2> USE <1>2 DEF BeginNoMem, node, hist
  <2>1. calls + 1 \in Calls
    BY BoundsAssumption DEF Calls
  <2>2. CallsFresh'
    <3>1. \A i \in 1 .. Len(txHead) : txHead[i] <= calls + 1
      BY <1>b DEF CallsFresh
    <3>2. \A d \in Clients : call'[d] <= calls + 1
      BY <1>d DEF CallsFresh
    <3>3. \A n \in Calls : n > calls + 1 => n > calls /\ n # calls + 1
      OBVIOUS
    <3> QED
      BY <2>1, <3>1, <3>2, <3>3 DEF CallsFresh
  <2>6. CallsDistinct'
    BY DEF CallsDistinct
  <2>3. LinkUnlinked' /\ ReleaseUnlinked' /\ AbortUnlinked'
    BY DEF LinkUnlinked, ReleaseUnlinked, AbortUnlinked
  <2>4. NoDup(txHead)' /\ SignalledUnlinked' /\ LinkedNodesLive'
    BY DEF NoDup, SignalledUnlinked, LinkedNodesLive
  <2>5. LiveNodeOpen'
    BY <2>1 DEF CallsFresh, LiveNodeOpen
  <2> QED
    BY <1>0, <2>2, <2>3, <2>4, <2>5, <2>6 DEF IInv, NodeDiscipline
<1>3. ASSUME NEW id \in ReqIds, Begin(c, id) PROVE IInv'
  <2> USE <1>3 DEF Begin
  <2>1. calls + 1 \in Calls
    BY BoundsAssumption DEF Calls
  <2>2. CallsFresh'
    <3>1. \A i \in 1 .. Len(txHead) : txHead[i] <= calls + 1
      BY <1>b DEF CallsFresh
    <3>2. \A d \in Clients : call'[d] <= calls + 1
      BY <1>d DEF CallsFresh
    <3>3. \A n \in Calls : n > calls + 1 => n > calls /\ n # calls + 1
      OBVIOUS
    <3> QED
      BY <2>1, <3>1, <3>2, <3>3 DEF CallsFresh
  <2>3. CallsDistinct'
    BY <2>1 DEF CallsFresh, CallsDistinct
  <2>4. ~InList(txHead, calls + 1) /\ sema[calls + 1] = 0 /\ outcome[calls + 1] = "none"
    BY <1>b, <2>1 DEF CallsFresh, InList
  <2>5. /\ clientPc' = [clientPc EXCEPT ![c] = "link"]
        /\ call' = [call EXCEPT ![c] = calls + 1]
        /\ nodeState' = [nodeState EXCEPT ![calls + 1] = "live"]
        /\ reqid' = [reqid EXCEPT ![calls + 1] = id]
        /\ txHead' = txHead /\ sema' = sema /\ unposted' = unposted /\ outcome' = outcome
    OBVIOUS
  <2> HIDE <1>3 DEF Begin
  <2>6. LinkUnlinked'
    BY <2>1, <2>4, <2>5 DEF LinkUnlinked
  <2>7. ReleaseUnlinked' /\ AbortUnlinked'
    BY <2>5 DEF ReleaseUnlinked, AbortUnlinked
  <2>8. NoDup(txHead)' /\ SignalledUnlinked' /\ LinkedNodesLive'
    BY <2>1, <2>5 DEF NoDup, SignalledUnlinked, LinkedNodesLive
  <2>9. LiveNodeOpen'
    BY <2>1, <2>4, <2>5, IdsAssumption DEF LiveNodeOpen
  <2> QED
    BY <1>0, <2>2, <2>3, <2>6, <2>7, <2>8, <2>9 DEF IInv, NodeDiscipline
<1>4. CASE Link(c)
  <2> USE <1>4 DEF Link, node, hist
  <2>1. /\ txHead' \in Seq(Calls) /\ Len(txHead') = Len(txHead) + 1
        /\ \A i \in 1 .. Len(txHead) : txHead'[i] = txHead[i]
        /\ txHead'[Len(txHead) + 1] = call[c] /\ call[c] \in Calls
    BY AppendProperties
  <2>2. Len(txHead) \in Nat
    BY LenProperties
  <2>3. \A n : InList(txHead', n) <=> InList(txHead, n) \/ n = call[c]
    BY <2>1, <2>2 DEF InList
  <2>4. CallsFresh' /\ CallsDistinct'
    BY <2>1, <2>2 DEF CallsFresh, CallsDistinct
  <2>5. LinkedNodesLive'
    BY <2>1, <2>2 DEF LinkedNodesLive, LinkUnlinked
  <2>6. NoDup(txHead)'
    BY <2>1, <2>2 DEF LinkUnlinked, NoDup, InList
  <2>7. LinkUnlinked' /\ ReleaseUnlinked' /\ AbortUnlinked'
    BY <2>1, <2>3 DEF LinkUnlinked, ReleaseUnlinked, AbortUnlinked, CallsDistinct
  <2>8. SignalledUnlinked' /\ LiveNodeOpen'
    BY <2>1, <2>3 DEF LinkUnlinked, SignalledUnlinked, LiveNodeOpen
  <2> QED
    BY <1>0, <2>4, <2>5, <2>6, <2>7, <2>8 DEF IInv, NodeDiscipline
<1>5. CASE Post(c)
  <2> USE <1>5 DEF Post, Return, node, hist
  <2>1. CallsFresh'
    BY DEF CallsFresh
  <2>2. CallsDistinct' /\ LinkedNodesLive'
    BY DEF CallsDistinct, LinkedNodesLive
  <2>3. LinkUnlinked' /\ ReleaseUnlinked' /\ AbortUnlinked'
    <3>1. \A d \in Clients : clientPc'[d] \in {"link", "release", "abort"} =>
             clientPc'[d] = clientPc[d] /\ call'[d] = call[d]
      OBVIOUS
    <3> QED
      BY <3>1 DEF LinkUnlinked, ReleaseUnlinked, AbortUnlinked
  <2>4. NoDup(txHead)' /\ SignalledUnlinked'
    BY DEF NoDup, SignalledUnlinked
  <2>5. LiveNodeOpen'
    BY DEF LiveNodeOpen
  <2> QED
    BY <1>0, <2>1, <2>2, <2>3, <2>4, <2>5 DEF IInv, NodeDiscipline
<1>6. CASE PostFull(c)
  <2> USE <1>6 DEF PostFull, Return, node, hist
  <2>1. CallsFresh'
    BY DEF CallsFresh
  <2>2. CallsDistinct' /\ LinkedNodesLive'
    BY DEF CallsDistinct, LinkedNodesLive
  <2>3. LinkUnlinked' /\ ReleaseUnlinked' /\ AbortUnlinked'
    BY DEF LinkUnlinked, ReleaseUnlinked, AbortUnlinked
  <2>4. NoDup(txHead)' /\ SignalledUnlinked'
    BY DEF NoDup, SignalledUnlinked
  <2>5. LiveNodeOpen'
    BY DEF LiveNodeOpen
  <2> QED
    BY <1>0, <2>1, <2>2, <2>3, <2>4, <2>5 DEF IInv, NodeDiscipline
<1>7. CASE Confirmed(c)
  <2> USE <1>7 DEF Confirmed, node, hist
  <2>1. CallsFresh' /\ CallsDistinct' /\ LinkedNodesLive'
    BY DEF CallsFresh, CallsDistinct, LinkedNodesLive
  <2>2. LinkUnlinked' /\ ReleaseUnlinked' /\ AbortUnlinked'
    BY DEF LinkUnlinked, ReleaseUnlinked, AbortUnlinked, SignalledUnlinked
  <2>3. NoDup(txHead)' /\ SignalledUnlinked' /\ LiveNodeOpen'
    BY DEF NoDup, SignalledUnlinked, LiveNodeOpen
  <2> QED
    BY <1>0, <2>1, <2>2, <2>3 DEF IInv, NodeDiscipline
<1>8. CASE Timeout(c)
  <2> USE <1>8 DEF Timeout, node, hist
  <2>1. CallsFresh' /\ CallsDistinct' /\ LinkedNodesLive'
    BY DEF CallsFresh, CallsDistinct, LinkedNodesLive
  <2>2. LinkUnlinked' /\ ReleaseUnlinked' /\ AbortUnlinked'
    BY DEF LinkUnlinked, ReleaseUnlinked, AbortUnlinked
  <2>3. NoDup(txHead)' /\ SignalledUnlinked' /\ LiveNodeOpen'
    BY DEF NoDup, SignalledUnlinked, LiveNodeOpen
  <2> QED
    BY <1>0, <2>1, <2>2, <2>3 DEF IInv, NodeDiscipline
<1>9. CASE Unlink(c)
  <2> USE <1>9 DEF Unlink, node, hist
  <2>1. /\ NoDup(txHead)' /\ ~InList(txHead', call[c])
        /\ \A m : InList(txHead', m) => InList(txHead, m)
    BY ExtractRemoves
  <2>2. \A i \in 1 .. Len(txHead') : \E j \in 1 .. Len(txHead) : txHead'[i] = txHead[j]
    <3>1. \A i \in 1 .. Len(txHead') : InList(txHead', txHead'[i])
      BY InListMember
    <3> QED
      BY <2>1, <3>1 DEF InList
  <2>3. CallsFresh' /\ CallsDistinct'
    BY <2>2 DEF CallsFresh, CallsDistinct
  <2>4. LinkedNodesLive'
    BY <2>2 DEF LinkedNodesLive
  <2>5. LinkUnlinked' /\ ReleaseUnlinked' /\ AbortUnlinked'
    BY <2>1 DEF LinkUnlinked, ReleaseUnlinked, AbortUnlinked
  <2>6. SignalledUnlinked' /\ LiveNodeOpen'
    BY <2>1 DEF SignalledUnlinked, LiveNodeOpen
  <2> QED
    BY <1>0, <2>1, <2>3, <2>4, <2>5, <2>6 DEF IInv, NodeDiscipline
<1>10. ASSUME NEW ret \in {"ok", "fail"}, Free(c, ret),
              clientPc[c] \in {"abort", "release"}
       PROVE  IInv'
  <2> USE <1>10 DEF Free, Return, hist
  <2>1. CallsFresh' /\ CallsDistinct'
    BY DEF CallsFresh, CallsDistinct
  <2>2. LinkedNodesLive'
    BY DEF LinkedNodesLive, ReleaseUnlinked, AbortUnlinked, InList
  <2>3. LinkUnlinked'
    BY DEF LinkUnlinked, CallsDistinct
  <2>4. ReleaseUnlinked' /\ AbortUnlinked'
    BY DEF ReleaseUnlinked, AbortUnlinked
  <2>5. NoDup(txHead)' /\ SignalledUnlinked' /\ LiveNodeOpen'
    BY DEF NoDup, SignalledUnlinked, LiveNodeOpen
  <2> QED
    BY <1>0, <2>1, <2>2, <2>3, <2>4, <2>5 DEF IInv, NodeDiscipline
<1> QED
  BY <1>1, <1>2, <1>3, <1>4, <1>5, <1>6, <1>7, <1>8, <1>9, <1>10
     DEF ClientStep, Abort, Release

LEMMA SafeKmsg ==
    ASSUME IInv, TypeOK', KmsgStep
    PROVE  IInv'
<1>a. /\ txHead \in Seq(Calls) /\ Len(txHead) \in Nat
      /\ \A i \in 1 .. Len(txHead) : txHead[i] \in Calls
  BY LenProperties DEF IInv, TypeOK
<1>b. /\ KmsgHolds /\ LinkedNodesLive /\ NoUseAfterFree /\ NoDup(txHead)
  BY DEF IInv, NodeDiscipline
<1>1. CASE KmsgWake \/ KmsgRead \/ KmsgPop \/ KmsgHandle
  <2>1. UNCHANGED <<txHead, client, node, hist>>
    BY <1>1 DEF KmsgWake, KmsgRead, KmsgPop, KmsgHandle
  <2>2. kmsgPc' \notin {"scan", "match", "signal"}
    BY <1>1 DEF KmsgWake, KmsgRead, KmsgPop, KmsgHandle, KmsgAgain
  <2> QED
    BY <2>1, <2>2, KmsgFrame DEF IInv, KmsgHolds, NoUseAfterFree
<1>2. CASE KmsgPick
  <2>1. UNCHANGED <<txHead, client, node, hist>>
    BY <1>2 DEF KmsgPick
  <2>2. CASE txHead = <<>>
    BY <1>2, <2>1, <2>2, KmsgFrame DEF IInv, KmsgPick, KmsgHolds, NoUseAfterFree
  <2>3. CASE txHead # <<>>
    <3>1. 1 \in 1 .. Len(txHead)
      BY <1>a, <2>3, EmptySeq
    <3>2. txNode' = txHead[1] /\ kmsgPc' = "scan"
      BY <1>2, <2>3 DEF KmsgPick, Pick
    <3>3. InList(txHead, txNode)' /\ (nodeState'[txNode'] = "live" \/ txNode' \in unposted')
      BY <1>b, <2>1, <3>1, <3>2 DEF InList, LinkedNodesLive, node, hist
    <3> QED
      BY <2>1, <3>2, <3>3, KmsgFrame DEF IInv, KmsgHolds, NoUseAfterFree
  <2> QED
    BY <2>2, <2>3
<1>3. CASE KmsgFound
  <2>1. UNCHANGED <<txHead, client, node, hist, txNode>> /\ kmsgPc = "scan" /\ kmsgPc' = "match"
    BY <1>3 DEF KmsgFound
  <2> QED
    BY <1>b, <2>1, KmsgFrame DEF IInv, KmsgHolds, NoUseAfterFree, InList, node, hist
<1>4. CASE KmsgNext
  <2>1. UNCHANGED <<txHead, client, node, hist>> /\ kmsgPc = "scan"
    BY <1>4 DEF KmsgNext
  <2>2. PICK i \in 1 .. Len(txHead) :
           /\ txNode' = NextAt(txHead, i)
           /\ kmsgPc' = IF i < Len(txHead) THEN "scan" ELSE "handle"
    BY <1>4 DEF KmsgNext
  <2>3. CASE i < Len(txHead)
    <3>1. i + 1 \in 1 .. Len(txHead) /\ txNode' = txHead[i + 1] /\ kmsgPc' = "scan"
      BY <1>a, <2>2, <2>3 DEF NextAt
    <3>2. InList(txHead, txNode)' /\ (nodeState'[txNode'] = "live" \/ txNode' \in unposted')
      BY <1>b, <2>1, <3>1 DEF InList, LinkedNodesLive, node, hist
    <3> QED
      BY <2>1, <3>1, <3>2, KmsgFrame DEF IInv, KmsgHolds, NoUseAfterFree
  <2>4. CASE ~(i < Len(txHead))
    BY <2>1, <2>2, <2>4, KmsgFrame DEF IInv, KmsgHolds, NoUseAfterFree
  <2> QED
    BY <2>3, <2>4
<1>5. CASE KmsgMatch
  <2>1. /\ kmsgPc = "match" /\ kmsgPc' = "signal" /\ txNode' = txNode
        /\ txHead' = Extract(txHead, txNode)
        /\ UNCHANGED <<client, node, hist>>
    BY <1>5 DEF KmsgMatch
  <2>2. /\ NoDup(txHead)' /\ ~InList(txHead', txNode)
        /\ \A m : InList(txHead', m) => InList(txHead, m)
    BY <1>a, <1>b, <2>1, ExtractRemoves
  <2>3. \A i \in 1 .. Len(txHead') : \E j \in 1 .. Len(txHead) : txHead'[i] = txHead[j]
    <3>1. \A i \in 1 .. Len(txHead') : InList(txHead', txHead'[i])
      BY InListMember
    <3> QED
      BY <2>2, <3>1 DEF InList
  <2>4. CallsFresh' /\ CallsDistinct'
    BY <2>1, <2>3 DEF IInv, CallsFresh, CallsDistinct, client, node
  <2>5. LinkedNodesLive'
    BY <1>b, <2>1, <2>3 DEF LinkedNodesLive, node, hist
  <2>6. LinkUnlinked' /\ ReleaseUnlinked' /\ AbortUnlinked'
    BY <2>1, <2>2 DEF IInv, NodeDiscipline, LinkUnlinked, ReleaseUnlinked, AbortUnlinked,
                      client, node, hist
  <2>7. SignalledUnlinked' /\ LiveNodeOpen'
    BY <2>1, <2>2 DEF IInv, NodeDiscipline, SignalledUnlinked, LiveNodeOpen, client, node
  <2>8. KmsgHolds' /\ NoUseAfterFree'
    <3>1. \A c \in Clients : clientPc[c] = "link" => call[c] # txNode
      BY <1>b, <2>1 DEF IInv, NodeDiscipline, LinkUnlinked, KmsgHolds
    <3> QED
      BY <1>b, <2>1, <2>2, <3>1 DEF KmsgHolds, NoUseAfterFree, client, node, hist
  <2> QED
    BY <2>2, <2>4, <2>5, <2>6, <2>7, <2>8 DEF IInv, NodeDiscipline
<1>6. CASE KmsgSignal
  <2>1. /\ kmsgPc = "signal" /\ kmsgPc' = "read" /\ txNode \in Calls
        /\ sema' = IF nodeState[txNode] = "live" THEN [sema EXCEPT ![txNode] = 1] ELSE sema
        /\ UNCHANGED <<txHead, client, nodeState, reqid, hist>>
    BY <1>6 DEF KmsgSignal, KmsgAgain, IInv, TypeOK
  <2>2. /\ sema \in [Calls -> 0 .. 1] /\ calls \in Nat /\ Calls \subseteq Nat
        /\ \A d \in Clients : clientPc[d] = "link" => call[d] \in Calls
    BY BoundsAssumption DEF IInv, TypeOK, Calls
  <2>3. ~InList(txHead, txNode)
    BY <1>b, <2>1 DEF KmsgHolds
  <2>4. \A n \in Calls : n > calls => nodeState[n] # "live" /\ sema[n] = 0
    BY DEF IInv, CallsFresh
  <2>5. CallsFresh' /\ CallsDistinct'
    <3>1. \A n \in Calls : n > calls => sema'[n] = 0
      BY <2>1, <2>2, <2>4
    <3> QED
      BY <2>1, <3>1 DEF IInv, CallsFresh, CallsDistinct, client
  <2>6. LinkedNodesLive'
    BY <1>b, <2>1 DEF LinkedNodesLive, hist
  <2>7. SignalledUnlinked'
    BY <2>1, <2>2, <2>3 DEF IInv, NodeDiscipline, SignalledUnlinked, InList
  <2>8. LinkUnlinked'
    BY <1>b, <2>1, <2>2 DEF IInv, NodeDiscipline, LinkUnlinked, KmsgHolds, InList, client
  <2>9. NoDup(txHead)' /\ ReleaseUnlinked' /\ AbortUnlinked' /\ LiveNodeOpen'
    BY <2>1 DEF IInv, NodeDiscipline, NoDup, InList, ReleaseUnlinked, AbortUnlinked, LiveNodeOpen,
                client, hist
  <2> QED
    BY <2>1, <2>5, <2>6, <2>7, <2>8, <2>9 DEF IInv, NodeDiscipline, KmsgHolds, NoUseAfterFree
<1> QED
  BY <1>1, <1>2, <1>3, <1>4, <1>5, <1>6 DEF KmsgStep

LEMMA SafeNext == IInv /\ [Next]_vars => IInv'
<1> SUFFICES ASSUME IInv, [Next]_vars PROVE IInv'
  OBVIOUS
<1>1. TypeOK'
  BY TypeNext DEF IInv
<1>2. ASSUME NEW c \in Clients,
             \/ BeginNoCfm(c) \/ BeginNoMem(c) \/ ClientStep(c)
             \/ \E id \in ReqIds : Begin(c, id)
      PROVE  IInv'
  BY <1>1, <1>2, SafeClient
<1>3. CASE KmsgStep
  BY <1>1, <1>3, SafeKmsg
<1>4. ASSUME UNCHANGED <<txHead, kmsg, client, node, hist>> PROVE IInv'
  BY <1>1, <1>4, CoreFrame
<1>5. CASE RfWake \/ CoreStep \/ FwIndicate
  BY <1>4, <1>5 DEF RfWake, CoreStep, CorePop, CoreLoop, FwIndicate
<1>6. ASSUME NEW t \in {"tx", "rx"}, BusPost(t) PROVE IInv'
  BY <1>4, <1>6 DEF BusPost
<1>7. ASSUME NEW n \in Calls, FwConfirm(n) PROVE IInv'
  BY <1>4, <1>7 DEF FwConfirm
<1>8. CASE UNCHANGED vars
  BY <1>4, <1>8 DEF vars
<1> QED
  BY <1>2, <1>3, <1>5, <1>6, <1>7, <1>8 DEF Next

\* IInv is an inductive invariant of the message path.
THEOREM Inductive == Spec => []IInv
BY SafeInit, SafeNext, PTL DEF Spec

\* A linked node is allocated, unless rw_msg_send gave up on a full bus.
THEOREM LinkedLive == Spec => []LinkedNodesLive
<1>1. IInv => LinkedNodesLive
  BY DEF IInv
<1> QED
  BY <1>1, Inductive, PTL

\* rwnx_recv_msg holds no node that a timed-out rw_msg_send has freed.
THEOREM HeldNodesLive == Spec => []NoUseAfterFree
<1>1. IInv => NoUseAfterFree
  BY DEF IInv
<1> QED
  BY <1>1, Inductive, PTL

\* A late confirmation is never written into the buffer of a call that has
\* returned, unless that call gave up on a full bus.
THEOREM ReturnedBufferSafe == Spec => NoWriteAfterReturn
<1>1. ASSUME IInv, [Next]_vars,
             NEW n \in Calls, outcome[n] # "none", n \notin unposted
      PROVE  cfm'[n] = cfm[n]
  <2>1. CASE KmsgSignal
    <3>1. /\ nodeState[txNode] = "live" \/ txNode \in unposted
          /\ cfm \in [Calls -> Calls \cup {0}]
      BY <1>1, <2>1 DEF KmsgSignal, IInv, TypeOK, NoUseAfterFree
    <3>2. n # txNode
      BY <1>1, <3>1 DEF IInv, NodeDiscipline, LiveNodeOpen
    <3> QED
      BY <2>1, <3>1, <3>2 DEF KmsgSignal
  <2>2. CASE ~KmsgSignal
    BY <1>1, <2>2
       DEF Next, vars, node, ClientStep, CoreStep, KmsgStep, BeginNoCfm, BeginNoMem, Begin, Link,
           Post, PostFull, Confirmed, Timeout, Unlink, Abort, Release, Free, BusPost, RfWake,
           CorePop, CoreLoop, FwConfirm, FwIndicate, KmsgWake, KmsgRead, KmsgPop, KmsgPick,
           KmsgFound, KmsgNext, KmsgMatch, KmsgHandle
  <2> QED
    BY <2>1, <2>2
<1>2. IInv /\ [Next]_vars =>
        [\A n \in Calls : outcome[n] # "none" /\ n \notin unposted => cfm'[n] = cfm[n]]_vars
  BY <1>1
<1> QED
  BY <1>2, Inductive, PTL DEF Spec, NoWriteAfterReturn

-----------------------------------------------------------------------------
(* kmsgbk does not sleep on a message                                       *)

\* A message is on rw_msg_rx_head with kmsgbk asleep only while app_sema is set.
THEOREM WakeupNotLost == Spec => []NoLostWakeup
<1>1. Init => NoLostWakeup
  BY DEF Init, NoLostWakeup
<1>2. NoLostWakeup /\ [Next]_vars => NoLostWakeup'
  <2> SUFFICES ASSUME NoLostWakeup, [Next]_vars PROVE NoLostWakeup'
    OBVIOUS
  <2>1. CASE UNCHANGED <<rxHead, appSema, kmsgPc>>
    BY <2>1 DEF NoLostWakeup
  <2>2. CASE KmsgStep
    BY <2>2 DEF KmsgStep, KmsgWake, KmsgRead, KmsgPop, KmsgPick, KmsgFound, KmsgNext, KmsgMatch,
                KmsgSignal, KmsgHandle, KmsgAgain, NoLostWakeup
  <2>3. CASE FwIndicate \/ \E n \in Calls : FwConfirm(n)
    BY <2>3 DEF FwIndicate, FwConfirm, Fwd, NoLostWakeup
  <2>4. CASE RfWake \/ CoreStep \/ \E t \in {"tx", "rx"} : BusPost(t)
    BY <2>1, <2>4 DEF RfWake, CoreStep, CorePop, CoreLoop, BusPost, kmsg
  <2>5. ASSUME NEW c \in Clients, BeginNoCfm(c) \/ BeginNoMem(c) \/ \E id \in ReqIds : Begin(c, id)
        PROVE  NoLostWakeup'
    BY <2>1, <2>5 DEF BeginNoCfm, BeginNoMem, Begin, kmsg
  <2>6. ASSUME NEW c \in Clients, ClientStep(c)
        PROVE  NoLostWakeup'
    BY <2>1, <2>6 DEF ClientStep, Link, Post, PostFull, Confirmed, Timeout, Unlink, Abort, Release,
                      Free, kmsg
  <2>7. CASE UNCHANGED vars
    BY <2>1, <2>7 DEF vars, kmsg
  <2> QED
    BY <2>2, <2>3, <2>4, <2>5, <2>6, <2>7 DEF Next
<1> QED
  BY <1>1, <1>2, PTL DEF Spec

-----------------------------------------------------------------------------
(* A request is in one place: on the bus, in the firmware, on               *)
(* rw_msg_rx_head, in the hands of rwnx_recv_msg, or answered               *)

\* Request n is in queue q; no request is there twice (0 is none).
Has(q, n) == \E i \in 1 .. Len(q) : q[i].req = n
Distinct(q) ==
    \A i, j \in 1 .. Len(q) : q[i].req = q[j].req /\ q[i].req # 0 => i = j

InHand(n) == kmsgPc \in {"pick", "scan", "match", "signal", "handle"} /\ rxMsg.req = n
InBuffer(n) == \E m \in Calls : cfm[m] = n

Apart(n) ==
    /\ Has(ioQueue, n) => n \notin fw /\ ~Has(rxHead, n) /\ ~InHand(n) /\ ~InBuffer(n)
    /\ n \in fw => ~Has(rxHead, n) /\ ~InHand(n) /\ ~InBuffer(n)
    /\ Has(rxHead, n) => ~InHand(n) /\ ~InBuffer(n)
    /\ InHand(n) => ~InBuffer(n)

Somewhere(n) == Has(ioQueue, n) \/ n \in fw \/ Has(rxHead, n) \/ InHand(n) \/ InBuffer(n)

\* The call has been made and its caller is past bmsg_ioctl_sender.
Posted(n) == n <= calls /\ \A c \in Clients : clientPc[c] \in {"link", "post"} => call[c] # n

Separate == \A n \in Calls : Apart(n) /\ (Somewhere(n) => Posted(n))

OnePlace ==
    /\ Distinct(ioQueue) /\ Distinct(rxHead) /\ ConfirmedOnce
    /\ Separate
    /\ kmsgPc = "pop" => rxMsg = Head(rxHead)

LEMMA HasAppend ==
    ASSUME NEW S, NEW q \in Seq(S), NEW m \in S
    PROVE  /\ \A n : Has(Append(q, m), n) <=> Has(q, n) \/ m.req = n
           /\ Distinct(q) /\ (m.req = 0 \/ ~Has(q, m.req)) => Distinct(Append(q, m))
<1> DEFINE a == Append(q, m)
<1>1. /\ Len(q) \in Nat /\ Len(a) = Len(q) + 1 /\ a[Len(q) + 1] = m
      /\ \A i \in 1 .. Len(q) : a[i] = q[i]
  BY AppendProperties, LenProperties
<1> HIDE DEF a
<1>2. \A i \in 1 .. Len(a) : (i \in 1 .. Len(q) /\ a[i] = q[i]) \/ (i = Len(q) + 1 /\ a[i] = m)
  BY <1>1
<1>3. \A i \in 1 .. Len(q) : i \in 1 .. Len(a)
  BY <1>1
<1>4. Len(q) + 1 \in 1 .. Len(a)
  BY <1>1
<1>5. ASSUME NEW n PROVE Has(a, n) <=> Has(q, n) \/ m.req = n
  BY <1>1, <1>2, <1>3, <1>4 DEF Has
<1>6. ASSUME Distinct(q), m.req = 0 \/ ~Has(q, m.req) PROVE Distinct(a)
  BY <1>2, <1>6 DEF Distinct, Has
<1> QED
  BY <1>5, <1>6 DEF a

LEMMA HasTail ==
    ASSUME NEW S, NEW q \in Seq(S), q # <<>>
    PROVE  /\ \A n : Has(Tail(q), n) => Has(q, n)
           /\ Has(q, Head(q).req)
           /\ Distinct(q) => /\ Distinct(Tail(q))
                             /\ Head(q).req # 0 => ~Has(Tail(q), Head(q).req)
<1> DEFINE w == Tail(q)
<1>1. /\ Len(q) \in Nat /\ Len(q) > 0 /\ Len(w) = Len(q) - 1 /\ Head(q) = q[1]
      /\ \A i \in 1 .. Len(w) : w[i] = q[i + 1]
  BY HeadTailProperties, LenProperties, EmptySeq
<1> HIDE DEF w
<1>2. \A i \in 1 .. Len(w) : i + 1 \in 1 .. Len(q) /\ w[i] = q[i + 1] /\ i + 1 # 1
  BY <1>1
<1>3. 1 \in 1 .. Len(q)
  BY <1>1
<1>4. ASSUME NEW n, Has(w, n) PROVE Has(q, n)
  BY <1>2, <1>4 DEF Has
<1>5. Has(q, Head(q).req)
  BY <1>1, <1>3 DEF Has
<1>6. ASSUME Distinct(q) PROVE Distinct(w)
  <2> SUFFICES ASSUME NEW i \in 1 .. Len(w), NEW j \in 1 .. Len(w), w[i].req = w[j].req, w[i].req # 0
               PROVE  i = j
    BY DEF Distinct
  <2>1. i + 1 = j + 1
    BY <1>2, <1>6 DEF Distinct
  <2> QED
    BY <1>1, <2>1
<1>7. ASSUME Distinct(q), Head(q).req # 0 PROVE ~Has(w, Head(q).req)
  BY <1>1, <1>2, <1>3, <1>7 DEF Distinct, Has
<1> QED
  BY <1>4, <1>5, <1>6, <1>7 DEF w

LEMMA OnePlaceInit == Init => OnePlace
<1> SUFFICES ASSUME Init PROVE OnePlace
  OBVIOUS
<1>1. Len(ioQueue) = 0 /\ Len(rxHead) = 0 /\ fw = {} /\ kmsgPc = "wait" /\ \A m \in Calls : cfm[m] = 0
  BY DEF Init
<1>2. \A n : ~Has(ioQueue, n) /\ ~Has(rxHead, n)
  BY <1>1 DEF Has
<1>3. Distinct(ioQueue) /\ Distinct(rxHead) /\ ConfirmedOnce
  BY <1>1 DEF Distinct, ConfirmedOnce
<1>4. \A n \in Calls : ~InHand(n) /\ ~InBuffer(n) /\ n \notin fw
  BY <1>1, BoundsAssumption DEF InHand, InBuffer, Calls
<1> QED
  BY <1>1, <1>2, <1>3, <1>4 DEF OnePlace, Separate, Apart, Somewhere

\* A step that moves one request, or none, from one place to the next.
LEMMA SeparateMove ==
    ASSUME Separate, NEW r,
           \A n \in Calls : Posted(n) => Posted(n)',
           \A n \in Calls \ {r} :
               /\ Has(ioQueue', n) => Has(ioQueue, n)
               /\ n \in fw' => n \in fw
               /\ Has(rxHead', n) => Has(rxHead, n)
               /\ InHand(n)' => InHand(n)
               /\ InBuffer(n)' => InBuffer(n),
           r \in Calls => Apart(r)' /\ (Somewhere(r)' => Posted(r)')
    PROVE  Separate'
<1> SUFFICES ASSUME NEW n \in Calls \ {r} PROVE Apart(n)' /\ (Somewhere(n)' => Posted(n)')
  BY DEF Separate
<1>1. Apart(n) /\ (Somewhere(n) => Posted(n))
  BY DEF Separate
<1> QED
  BY <1>1 DEF Apart, Somewhere

LEMMA ZeroIsNoCall == 0 \notin Calls
BY BoundsAssumption DEF Calls

\* Nothing moves.
LEMMA SeparateKept ==
    ASSUME OnePlace, UNCHANGED <<ioQueue, fw, rxHead, cfm>>,
           kmsgPc' = kmsgPc /\ rxMsg' = rxMsg,
           \A n \in Calls : Posted(n) => Posted(n)'
    PROVE  OnePlace'
<1>1. \A n \in Calls : /\ Has(ioQueue', n) => Has(ioQueue, n)
                       /\ Has(rxHead', n) => Has(rxHead, n)
                       /\ InHand(n)' => InHand(n)
                       /\ InBuffer(n)' => InBuffer(n)
  BY DEF InHand, InBuffer
<1>2. Separate'
  BY <1>1, SeparateMove, ZeroIsNoCall DEF OnePlace
<1> QED
  BY <1>2 DEF OnePlace, Distinct, ConfirmedOnce

LEMMA OnePlacePost ==
    ASSUME IInv, OnePlace, NEW c \in Clients, Post(c)
    PROVE  OnePlace'
<1>0. PICK r : r = call[c]
  OBVIOUS
<1> DEFINE m == [type |-> "ioctl", req |-> r]
<1>1. /\ clientPc[c] = "post" /\ ioQueue' = Append(ioQueue, m)
      /\ UNCHANGED <<fw, rxHead, cfm, kmsgPc, rxMsg, calls>>
  BY <1>0 DEF Post, kmsg, node
<1>2. r \in Calls /\ r <= calls /\ ioQueue \in Seq(BusMsgs)
  BY <1>0, <1>1 DEF IInv, TypeOK, CallsFresh
<1>3. m \in BusMsgs /\ m.req = r
  BY <1>2 DEF BusMsgs
<1>4. ~Somewhere(r)
  BY <1>0, <1>1, <1>2 DEF OnePlace, Separate, Posted
<1>5. \A d \in Clients : clientPc'[d] \in {"link", "post"} =>
          d # c /\ clientPc[d] = clientPc'[d] /\ call'[d] = call[d]
  BY DEF Post, Return, IInv, TypeOK
<1>6. Posted(r)'
  BY <1>0, <1>1, <1>2, <1>5 DEF Posted, IInv, CallsDistinct
<1> HIDE DEF m
<1>7. /\ \A n : Has(ioQueue', n) <=> Has(ioQueue, n) \/ r = n
      /\ Distinct(ioQueue)'
  BY <1>1, <1>2, <1>3, <1>4, HasAppend DEF OnePlace, Somewhere
<1>8. \A n \in Calls : /\ Has(rxHead', n) <=> Has(rxHead, n)
                       /\ InHand(n)' <=> InHand(n)
                       /\ InBuffer(n)' <=> InBuffer(n)
  BY <1>1 DEF InHand, InBuffer
<1>9. \A n \in Calls : Posted(n) => Posted(n)'
  BY <1>1, <1>5 DEF Posted
<1>10. Apart(r)'
  BY <1>1, <1>2, <1>4, <1>8 DEF Apart, Somewhere
<1>11. Separate'
  BY <1>1, <1>6, <1>7, <1>8, <1>9, <1>10, SeparateMove DEF OnePlace
<1> QED
  BY <1>1, <1>7, <1>11 DEF OnePlace, Distinct, ConfirmedOnce

LEMMA OnePlaceClient ==
    ASSUME IInv, OnePlace, NEW c \in Clients,
           \/ BeginNoCfm(c) \/ BeginNoMem(c) \/ ClientStep(c)
           \/ \E id \in ReqIds : Begin(c, id)
    PROVE  OnePlace'
<1>t. calls \in Nat /\ (\A n \in Calls : n \in Nat)
      /\ clientPc \in [Clients -> {"idle", "link", "post", "wait", "unlink", "abort", "release"}]
      /\ call \in [Clients -> Calls \cup {0}]
  BY BoundsAssumption DEF IInv, TypeOK, Calls
<1>1. CASE Post(c)
  BY <1>1, OnePlacePost
<1>2. CASE BeginNoCfm(c) \/ \E id \in ReqIds : Begin(c, id)
  <2>1. /\ UNCHANGED <<ioQueue, fw, rxHead, cfm, kmsgPc, rxMsg>> /\ calls' = calls + 1
        /\ call' = [call EXCEPT ![c] = calls + 1]
        /\ \A d \in Clients \ {c} : clientPc'[d] = clientPc[d]
    BY <1>2, <1>t DEF BeginNoCfm, Begin, core, kmsg, node
  <2>2. \A n \in Calls : Posted(n) => Posted(n)'
    <3> SUFFICES ASSUME NEW n \in Calls, Posted(n), NEW d \in Clients, clientPc'[d] \in {"link", "post"}
                 PROVE  n <= calls' /\ call'[d] # n
      BY <1>t, <2>1 DEF Posted
    <3>1. n <= calls /\ n <= calls' /\ n # calls + 1
      BY <1>t, <2>1 DEF Posted
    <3>2. CASE d = c
      BY <1>t, <2>1, <3>1, <3>2
    <3>3. CASE d # c
      BY <1>t, <2>1, <3>1, <3>3 DEF Posted
    <3> QED
      BY <3>2, <3>3
  <2> QED
    BY <2>1, <2>2, SeparateKept
<1>3. CASE BeginNoMem(c)
  <2>1. /\ UNCHANGED <<ioQueue, fw, rxHead, cfm, kmsgPc, rxMsg, clientPc, call>> /\ calls' = calls + 1
    BY <1>3 DEF BeginNoMem, core, kmsg, node
  <2>2. \A n \in Calls : Posted(n) => Posted(n)'
    BY <1>t, <2>1 DEF Posted
  <2> QED
    BY <2>1, <2>2, SeparateKept
<1>4. CASE Link(c) \/ PostFull(c) \/ Confirmed(c) \/ Timeout(c) \/ Unlink(c) \/ Abort(c) \/ Release(c)
  <2>1. UNCHANGED <<ioQueue, fw, rxHead, cfm, kmsgPc, rxMsg, calls>>
    BY <1>4 DEF Link, PostFull, Confirmed, Timeout, Unlink, Abort, Release, Free, core, kmsg, node
  <2>2. ASSUME NEW d \in Clients, clientPc'[d] \in {"link", "post"}
        PROVE  clientPc[d] \in {"link", "post"} /\ call'[d] = call[d]
    <3>1. CASE Link(c)
      BY <1>t, <2>2, <3>1 DEF Link
    <3>2. CASE PostFull(c)
      BY <1>t, <2>2, <3>2 DEF PostFull, Return
    <3>3. CASE Confirmed(c) \/ Timeout(c) \/ Unlink(c)
      BY <1>t, <2>2, <3>3 DEF Confirmed, Timeout, Unlink
    <3>4. CASE Abort(c) \/ Release(c)
      BY <1>t, <2>2, <3>4 DEF Abort, Release, Free, Return
    <3> QED
      BY <1>4, <3>1, <3>2, <3>3, <3>4
  <2>3. \A n \in Calls : Posted(n) => Posted(n)'
    BY <2>1, <2>2 DEF Posted
  <2> QED
    BY <2>1, <2>3, SeparateKept
<1> QED
  BY <1>1, <1>2, <1>3, <1>4 DEF ClientStep

\* The firmware takes the head of the bus.
LEMMA OnePlacePop ==
    ASSUME IInv, OnePlace, CorePop
    PROVE  OnePlace'
<1>0. PICK r : r = Head(ioQueue).req
  OBVIOUS
<1>1. /\ ioQueue # <<>> /\ ioQueue' = Tail(ioQueue) /\ ioQueue \in Seq(BusMsgs)
      /\ fw' = fw \/ (fw' = fw \cup {r})
      /\ UNCHANGED <<rxHead, cfm, kmsgPc, rxMsg, client>>
  BY <1>0 DEF CorePop, kmsg, node, IInv, TypeOK
<1>2. /\ \A n : Has(ioQueue', n) => Has(ioQueue, n)
      /\ Has(ioQueue, r) /\ Distinct(ioQueue') /\ (r # 0 => ~Has(ioQueue', r))
  BY <1>0, <1>1, HasTail DEF OnePlace
<1>3. \A n \in Calls : /\ Has(rxHead', n) <=> Has(rxHead, n)
                       /\ InHand(n)' <=> InHand(n)
                       /\ InBuffer(n)' <=> InBuffer(n)
                       /\ Posted(n)' <=> Posted(n)
  BY <1>1 DEF InHand, InBuffer, Posted, client
<1>4. r \in Calls => Apart(r)' /\ (Somewhere(r)' => Posted(r)')
  BY <1>1, <1>2, <1>3, ZeroIsNoCall DEF OnePlace, Separate, Apart, Somewhere
<1>5. Separate'
  BY <1>1, <1>2, <1>3, <1>4, SeparateMove DEF OnePlace
<1> QED
  BY <1>1, <1>2, <1>5 DEF OnePlace, Distinct, ConfirmedOnce

\* A message behind the others on rw_msg_rx_head: an answer, or of no request.
LEMMA OnePlaceFwd ==
    ASSUME IInv, OnePlace, NEW m \in KeMsgs, Fwd(m), UNCHANGED <<ioQueue, kmsg, client, cfm>>,
           \/ m.req = 0 /\ fw' = fw
           \/ m.req \in fw /\ fw' = fw \ {m.req}
    PROVE  OnePlace'
<1> DEFINE r == m.req
<1>1. rxHead' = Append(rxHead, m) /\ rxHead \in Seq(KeMsgs) /\ fw \subseteq Calls
  BY DEF Fwd, IInv, TypeOK
<1>2. r = 0 \/ ~Has(rxHead, r)
  BY <1>1 DEF OnePlace, Separate, Apart
<1>3. (\A n : Has(rxHead', n) <=> Has(rxHead, n) \/ r = n) /\ Distinct(rxHead')
  BY <1>1, <1>2, HasAppend DEF OnePlace
<1> HIDE DEF r
<1>4. \A n \in Calls : /\ Has(ioQueue', n) <=> Has(ioQueue, n)
                       /\ InHand(n)' <=> InHand(n)
                       /\ InBuffer(n)' <=> InBuffer(n)
                       /\ Posted(n)' <=> Posted(n)
  BY DEF InHand, InBuffer, Posted, client, kmsg
<1>5. r \in Calls => Apart(r)' /\ (Somewhere(r)' => Posted(r)')
  BY <1>1, <1>3, <1>4, ZeroIsNoCall DEF OnePlace, Separate, Apart, Somewhere, r
<1>6. Separate'
  BY <1>3, <1>4, <1>5, SeparateMove DEF OnePlace, r
<1>7. kmsgPc' = "pop" => rxMsg' = Head(rxHead')
  <2>1. kmsgPc = "pop" => rxHead # <<>> /\ rxMsg = Head(rxHead)
    BY DEF IInv, TypeOK, OnePlace
  <2>2. rxHead # <<>> => Head(Append(rxHead, m)) = Head(rxHead)
    <3>1. rxHead # <<>> => Len(rxHead) \in Nat /\ Len(rxHead) > 0
      BY <1>1, LenProperties, EmptySeq
    <3>2. rxHead # <<>> => Append(rxHead, m)[1] = rxHead[1]
      BY <1>1, <3>1, AppendProperties
    <3> QED
      BY <1>1, <3>1, <3>2
  <2> QED
    BY <1>1, <2>1, <2>2 DEF kmsg
<1> QED
  BY <1>3, <1>6, <1>7 DEF OnePlace, Distinct, ConfirmedOnce

LEMMA OnePlaceKmsg ==
    ASSUME IInv, OnePlace, KmsgStep
    PROVE  OnePlace'
<1>t. /\ rxHead \in Seq(KeMsgs) /\ rxMsg \in KeMsgs /\ cfm \in [Calls -> Calls \cup {0}]
      /\ kmsgPc \in {"scan", "match", "signal"} => txNode \in Calls
      /\ kmsgPc = "pop" => rxHead # <<>>
  BY DEF IInv, TypeOK
<1>1. UNCHANGED <<ioQueue, fw, calls, clientPc, call>>
  BY DEF KmsgStep, KmsgWake, KmsgRead, KmsgPop, KmsgPick, KmsgFound, KmsgNext, KmsgMatch,
         KmsgSignal, KmsgHandle, core, client
<1>2. \A n \in Calls : Posted(n)' <=> Posted(n)
  BY <1>1 DEF Posted
<1>3. \A n \in Calls : Has(ioQueue', n) <=> Has(ioQueue, n)
  BY <1>1
<1>4. Distinct(ioQueue')
  BY <1>1 DEF OnePlace
\* The message stays where it is, or is dropped.
<1>5. ASSUME UNCHANGED <<rxHead, cfm>>, \A n \in Calls : InHand(n)' => InHand(n),
             kmsgPc' = "pop" => rxMsg' = Head(rxHead)
      PROVE  OnePlace'
  <2>1. \A n \in Calls : InBuffer(n)' => InBuffer(n)
    BY <1>5 DEF InBuffer
  <2>2. Separate'
    BY <1>1, <1>2, <1>5, <2>1, SeparateMove, ZeroIsNoCall DEF OnePlace
  <2> QED
    BY <1>4, <1>5, <2>2 DEF OnePlace, ConfirmedOnce
<1>6. CASE KmsgWake \/ KmsgRead
  BY <1>5, <1>6 DEF KmsgWake, KmsgRead, InHand, node
<1>7. CASE KmsgPick \/ KmsgFound \/ KmsgNext \/ KmsgMatch
  <2>1. /\ UNCHANGED <<rxHead, cfm, rxMsg>> /\ kmsgPc \in {"pick", "scan", "match"}
        /\ kmsgPc' # "pop"
    BY <1>7 DEF KmsgPick, KmsgFound, KmsgNext, KmsgMatch, node
  <2> QED
    BY <1>5, <2>1 DEF InHand
<1>8. CASE KmsgHandle
  <2>1. UNCHANGED <<rxHead, cfm>> /\ kmsgPc' = "read"
    BY <1>8 DEF KmsgHandle, KmsgAgain, node
  <2> QED
    BY <1>5, <2>1 DEF InHand
<1>9. CASE KmsgPop
  <2>0. PICK r : r = rxMsg.req
    OBVIOUS
  <2>1. /\ kmsgPc = "pop" /\ kmsgPc' = "pick" /\ rxMsg' = rxMsg /\ cfm' = cfm
        /\ rxHead' = <<>> \/ rxHead' = Tail(rxHead)
        /\ rxMsg = Head(rxHead) /\ rxHead # <<>>
    BY <1>9, <1>t DEF KmsgPop, OnePlace, node
  <2>2. /\ \A n : Has(Tail(rxHead), n) => Has(rxHead, n)
        /\ Has(rxHead, r) /\ Distinct(Tail(rxHead)) /\ (r # 0 => ~Has(Tail(rxHead), r))
    BY <1>t, <2>0, <2>1, HasTail DEF OnePlace
  <2>3. Distinct(<<>>) /\ \A n : ~Has(<<>>, n)
    <3>1. Len(<<>>) = 0
      OBVIOUS
    <3> QED
      BY <3>1 DEF Distinct, Has
  <2>4. /\ \A n : Has(rxHead', n) => Has(rxHead, n)
        /\ Distinct(rxHead') /\ (r # 0 => ~Has(rxHead', r))
    BY <2>1, <2>2, <2>3
  <2>5. \A n \in Calls : /\ ~InHand(n) /\ (InHand(n)' <=> n = r)
                         /\ InBuffer(n)' <=> InBuffer(n)
    BY <2>0, <2>1 DEF InHand, InBuffer
  <2>6. r \in Calls => Apart(r)' /\ (Somewhere(r)' => Posted(r)')
    BY <1>1, <1>2, <1>3, <2>2, <2>4, <2>5, ZeroIsNoCall DEF OnePlace, Separate, Apart, Somewhere
  <2>7. Separate'
    BY <1>1, <1>2, <1>3, <2>4, <2>5, <2>6, SeparateMove DEF OnePlace
  <2> QED
    BY <1>4, <2>1, <2>4, <2>7 DEF OnePlace, ConfirmedOnce
<1>10. CASE KmsgSignal
  <2>0. PICK r : r = rxMsg.req
    OBVIOUS
  <2>1. /\ kmsgPc = "signal" /\ kmsgPc' = "read" /\ rxHead' = rxHead
        /\ cfm' = [cfm EXCEPT ![txNode] = r] /\ txNode \in Calls
    BY <1>10, <1>t, <2>0 DEF KmsgSignal, KmsgAgain
  <2>2. r \in Calls \cup {0} /\ (r # 0 => InHand(r) /\ ~InBuffer(r))
    BY <1>t, <2>0, <2>1 DEF KeMsgs, InHand, OnePlace, Separate, Apart
  <2>3. \A n \in Calls \ {r} : InBuffer(n)' => InBuffer(n)
    BY <1>t, <2>1 DEF InBuffer
  <2>4. \A n \in Calls : ~InHand(n)'
    BY <2>1 DEF InHand
  <2>5. ConfirmedOnce'
    BY <1>t, <2>1, <2>2 DEF OnePlace, ConfirmedOnce, InBuffer
  <2>6. r \in Calls => Apart(r)' /\ (Somewhere(r)' => Posted(r)')
    BY <1>1, <1>2, <1>3, <2>1, <2>2, <2>4, ZeroIsNoCall DEF OnePlace, Separate, Apart, Somewhere
  <2>7. Separate'
    BY <1>1, <1>2, <1>3, <2>1, <2>3, <2>4, <2>6, SeparateMove DEF OnePlace
  <2> QED
    BY <1>4, <2>1, <2>5, <2>7 DEF OnePlace
<1> QED
  BY <1>6, <1>7, <1>8, <1>9, <1>10 DEF KmsgStep

\* A message of another origin on the bus.
LEMMA OnePlaceBus ==
    ASSUME IInv, OnePlace, NEW t \in {"tx", "rx"}, BusPost(t)
    PROVE  OnePlace'
<1> DEFINE m == [type |-> t, req |-> 0]
<1>1. /\ ioQueue' = Append(ioQueue, m) /\ ioQueue \in Seq(BusMsgs) /\ m \in BusMsgs /\ m.req = 0
      /\ UNCHANGED <<fw, rxHead, cfm, kmsgPc, rxMsg, calls, clientPc, call>>
  BY DEF BusPost, kmsg, client, node, IInv, TypeOK, BusMsgs
<1> HIDE DEF m
<1>2. (\A n : Has(ioQueue', n) <=> Has(ioQueue, n) \/ 0 = n) /\ Distinct(ioQueue')
  BY <1>1, HasAppend DEF OnePlace
<1>3. \A n \in Calls : /\ Has(ioQueue', n) => Has(ioQueue, n)
                       /\ Has(rxHead', n) => Has(rxHead, n)
                       /\ InHand(n)' => InHand(n)
                       /\ InBuffer(n)' => InBuffer(n)
                       /\ Posted(n) => Posted(n)'
  BY <1>1, <1>2, ZeroIsNoCall DEF InHand, InBuffer, Posted
<1>4. Separate'
  BY <1>1, <1>3, SeparateMove, ZeroIsNoCall DEF OnePlace
<1> QED
  BY <1>1, <1>2, <1>4 DEF OnePlace, Distinct, ConfirmedOnce

LEMMA OnePlaceNext == IInv /\ OnePlace /\ [Next]_vars => OnePlace'
<1> SUFFICES ASSUME IInv, OnePlace, [Next]_vars PROVE OnePlace'
  OBVIOUS
<1>1. ASSUME NEW n \in Calls, FwConfirm(n) PROVE OnePlace'
  <2> DEFINE m == [id |-> reqid[n], req |-> n]
  <2>1. m \in KeMsgs /\ m.req = n
    BY DEF IInv, TypeOK, KeMsgs
  <2>2. Fwd(m) /\ n \in fw /\ fw' = fw \ {n} /\ UNCHANGED <<ioQueue, kmsg, client, cfm>>
    BY <1>1 DEF FwConfirm, node
  <2> HIDE DEF m
  <2> QED
    BY <2>1, <2>2, OnePlaceFwd
<1>2. CASE FwIndicate
  <2>1. NoMsg \in KeMsgs /\ NoMsg.req = 0
    BY DEF NoMsg, KeMsgs, Ids
  <2>2. Fwd(NoMsg) /\ fw' = fw /\ UNCHANGED <<ioQueue, kmsg, client, cfm>>
    BY <1>2 DEF FwIndicate, core, node
  <2> QED
    BY <2>1, <2>2, OnePlaceFwd
<1>3. CASE RfWake \/ CoreLoop \/ UNCHANGED vars
  <2>1. /\ UNCHANGED <<ioQueue, fw, rxHead, cfm>> /\ kmsgPc' = kmsgPc /\ rxMsg' = rxMsg
        /\ UNCHANGED <<calls, clientPc, call>>
    BY <1>3 DEF RfWake, CoreLoop, vars, core, kmsg, client, node
  <2>2. \A n \in Calls : Posted(n) => Posted(n)'
    BY <2>1 DEF Posted
  <2> QED
    BY <2>1, <2>2, SeparateKept
<1> QED
  BY <1>1, <1>2, <1>3, OnePlaceClient, OnePlacePop, OnePlaceKmsg, OnePlaceBus DEF Next, CoreStep

\* The confirmation of a request is written into one buffer and only once.
THEOREM AnsweredOnce == Spec => []ConfirmedOnce
<1>1. OnePlace => ConfirmedOnce
  BY DEF OnePlace
<1> QED
  BY <1>1, OnePlaceInit, OnePlaceNext, Inductive, PTL DEF Spec

-----------------------------------------------------------------------------
(* A caller gets its own confirmation                                       *)

Active(n) == \E c \in Clients : clientPc[c] # "idle" /\ call[c] = n

\* What the calls under way and the calls that have returned have recorded.
OpenCalls == \A c \in Clients : clientPc[c] # "idle" => outcome[call[c]] = "none"
FreshIds == \A n \in Calls : n > calls => reqid[n] = NoCfm
CallsAccounted ==
    \A n \in Calls : n <= calls /\ reqid[n] # NoCfm => Active(n) \/ outcome[n] # "none"
GaveUp ==
    \A n \in unposted :
        /\ reqid[n] # NoCfm
        /\ outcome[n] = "fail" \/ \E c \in Clients : clientPc[c] = "abort" /\ call[c] = n
FreedReturned == \A n \in Calls : nodeState[n] = "freed" => outcome[n] # "none"
Overlaps ==
    \A c, d \in Clients :
        /\ c # d /\ clientPc[c] # "idle" /\ clientPc[d] # "idle"
        /\ reqid[call[c]] = reqid[call[d]] /\ reqid[call[c]] # NoCfm
        => reqid[call[c]] \in shared

CallRecords ==
    /\ OpenCalls
    /\ FreshIds
    /\ CallsAccounted
    /\ GaveUp
    /\ FreedReturned
    /\ Overlaps

LEMMA RecordsInit == Init => CallRecords
<1> SUFFICES ASSUME Init PROVE CallRecords
  OBVIOUS
<1>1. /\ calls = 0 /\ unposted = {} /\ clientPc = [c \in Clients |-> "idle"]
      /\ reqid = [n \in Calls |-> NoCfm] /\ nodeState = [n \in Calls |-> "none"]
  BY DEF Init
<1> QED
  BY <1>1 DEF CallRecords, OpenCalls, FreshIds, CallsAccounted, GaveUp, FreedReturned, Overlaps

\* The core thread, the firmware and kmsgbk record nothing.
LEMMA RecordsFrame ==
    ASSUME CallRecords, UNCHANGED <<client, nodeState, reqid, hist>>
    PROVE  CallRecords'
BY DEF CallRecords, OpenCalls, FreshIds, CallsAccounted, GaveUp, FreedReturned, Overlaps, Active, client, hist

\* A new call, with or without a confirmation to wait for.
LEMMA RecordsBegin ==
    ASSUME IInv, CallRecords, NEW c \in Clients,
           BeginNoCfm(c) \/ BeginNoMem(c) \/ \E id \in ReqIds : Begin(c, id)
    PROVE  CallRecords'
<1>t. /\ calls \in Nat /\ calls' = calls + 1 /\ calls + 1 \in Calls /\ Calls \subseteq Nat
      /\ clientPc \in [Clients -> {"idle", "link", "post", "wait", "unlink", "abort", "release"}]
      /\ call \in [Clients -> Calls \cup {0}]
      /\ \A d \in Clients : clientPc[d] # "idle" => call[d] \in Calls
      /\ reqid \in [Calls -> Ids] /\ unposted \subseteq Calls
      /\ nodeState \in [Calls -> {"none", "live", "freed"}]
      /\ outcome \in [Calls -> {"none", "ok", "fail"}]
  BY BoundsAssumption DEF IInv, TypeOK, BeginNoCfm, BeginNoMem, Begin, Calls
<1>u. clientPc[c] = "idle" /\ unposted' = unposted
  BY DEF BeginNoCfm, BeginNoMem, Begin, hist
<1>n. PICK k : k = calls + 1
  OBVIOUS
<1>1. /\ reqid[k] = NoCfm /\ outcome[k] = "none" /\ k \notin unposted
      /\ \A d \in Clients : call[d] # k
      /\ \A n \in Calls : (n <= calls + 1 <=> n <= calls \/ n = k) /\ (n > calls + 1 => n > calls /\ n # k)
      /\ k \in Calls
  <2>1. k \in Calls /\ k > calls
    BY <1>t, <1>n
  <2>2. \A d \in Clients : call[d] \in Nat /\ call[d] <= calls
    <3>1. \A d \in Clients : call[d] \in Nat
      BY BoundsAssumption DEF IInv, TypeOK, Calls
    <3> QED
      BY <3>1 DEF IInv, CallsFresh
  <2>3. \A d \in Clients : call[d] # k
    BY <1>t, <1>n, <2>2
  <2>4. reqid[k] = NoCfm /\ outcome[k] = "none"
    BY <2>1 DEF CallRecords, FreshIds, IInv, CallsFresh
  <2>5. k \notin unposted
    BY <2>4 DEF CallRecords, GaveUp
  <2>6. \A n \in Calls : (n <= calls + 1 <=> n <= calls \/ n = k) /\ (n > calls + 1 => n > calls /\ n # k)
    BY <1>t, <1>n
  <2> QED
    BY <2>1, <2>3, <2>4, <2>5, <2>6
<1>2. CASE BeginNoMem(c)
  <2>1. /\ outcome' = [outcome EXCEPT ![k] = "fail"]
        /\ UNCHANGED <<clientPc, call, reqid, nodeState, unposted, shared>>
    BY <1>2, <1>n DEF BeginNoMem, node, hist
  <2>2. OpenCalls' /\ Overlaps'
    BY <1>t, <1>1, <2>1 DEF CallRecords, OpenCalls, Overlaps
  <2>3. FreshIds' /\ CallsAccounted'
    BY <1>t, <1>1, <2>1 DEF CallRecords, FreshIds, CallsAccounted, Active
  <2>4. GaveUp'
    BY <1>t, <1>1, <2>1 DEF CallRecords, GaveUp
  <2>5. FreedReturned'
    BY <1>t, <1>1, <2>1 DEF CallRecords, FreedReturned
  <2> QED
    BY <2>2, <2>3, <2>4, <2>5 DEF CallRecords
<1>3. ASSUME clientPc' = [clientPc EXCEPT ![c] = "post"] \/ clientPc' = [clientPc EXCEPT ![c] = "link"],
             call' = [call EXCEPT ![c] = k], outcome' = outcome,
             NEW id \in Ids, reqid' = [reqid EXCEPT ![k] = id],
             nodeState' = nodeState \/ nodeState' = [nodeState EXCEPT ![k] = "live"],
             shared \subseteq shared',
             \A d \in Clients : clientPc[d] # "idle" /\ reqid[call[d]] = id => id = NoCfm \/ id \in shared'
      PROVE  CallRecords'
  <2>1. /\ clientPc'[c] \in {"post", "link"} /\ call'[c] = k /\ reqid'[k] = id
        /\ \A d \in Clients \ {c} : clientPc'[d] = clientPc[d] /\ call'[d] = call[d]
        /\ \A n \in Calls \ {k} : reqid'[n] = reqid[n] /\ nodeState'[n] = nodeState[n]
    BY <1>t, <1>1, <1>3
  <2>2. OpenCalls'
    BY <1>1, <1>3, <2>1 DEF CallRecords, OpenCalls
  <2>3. FreshIds'
    BY <1>t, <1>1, <2>1 DEF CallRecords, FreshIds
  <2>4. \A n \in Calls : Active(n) => Active(n)'
    BY <1>u, <2>1 DEF Active
  <2>5. Active(k)'
    BY <2>1 DEF Active
  <2>6. CallsAccounted'
    BY <1>t, <1>1, <1>3, <2>1, <2>4, <2>5 DEF CallRecords, CallsAccounted
  <2>7. GaveUp'
    BY <1>t, <1>u, <1>1, <1>3, <2>1 DEF CallRecords, GaveUp
  <2>9. FreedReturned'
    <3>1. nodeState[k] # "freed" /\ nodeState'[k] # "freed"
      BY <1>t, <1>1, <1>3 DEF CallRecords, FreedReturned
    <3> QED
      BY <1>3, <2>1, <3>1 DEF CallRecords, FreedReturned
  <2>8. Overlaps'
    <3> SUFFICES ASSUME NEW d \in Clients, NEW e \in Clients, d # e,
                        clientPc'[d] # "idle", clientPc'[e] # "idle",
                        reqid'[call'[d]] = reqid'[call'[e]], reqid'[call'[d]] # NoCfm
                 PROVE  reqid'[call'[d]] \in shared'
      BY DEF Overlaps
    <3>1. CASE d = c
      BY <1>t, <1>1, <1>3, <2>1, <3>1
    <3>2. CASE e = c
      BY <1>t, <1>1, <1>3, <2>1, <3>2
    <3>3. CASE d # c /\ e # c
      BY <1>t, <1>1, <1>3, <2>1, <3>3 DEF CallRecords, Overlaps
    <3> QED
      BY <3>1, <3>2, <3>3
  <2> QED
    BY <2>2, <2>3, <2>6, <2>7, <2>8, <2>9 DEF CallRecords
<1>4. CASE BeginNoCfm(c)
  <2>1. /\ clientPc' = [clientPc EXCEPT ![c] = "post"] /\ call' = [call EXCEPT ![c] = k]
        /\ UNCHANGED <<outcome, reqid, nodeState, shared>>
    BY <1>4, <1>n DEF BeginNoCfm, node, hist
  <2>2. NoCfm \in Ids /\ reqid' = [reqid EXCEPT ![k] = NoCfm]
    BY <1>t, <1>1, <2>1 DEF Ids
  <2> QED
    BY <1>3, <2>1, <2>2
<1>5. ASSUME NEW id \in ReqIds, Begin(c, id) PROVE CallRecords'
  <2>1. /\ clientPc' = [clientPc EXCEPT ![c] = "link"] /\ call' = [call EXCEPT ![c] = k]
        /\ outcome' = outcome /\ reqid' = [reqid EXCEPT ![k] = id]
        /\ nodeState' = [nodeState EXCEPT ![k] = "live"]
        /\ shared' = IF \E d \in Clients : clientPc[d] # "idle" /\ reqid[call[d]] = id
                     THEN shared \cup {id} ELSE shared
    BY <1>5, <1>n DEF Begin
  <2>2. id \in Ids /\ shared \subseteq shared'
    BY <2>1 DEF Ids
  <2>3. \A d \in Clients : clientPc[d] # "idle" /\ reqid[call[d]] = id => id \in shared'
    BY <2>1
  <2> QED
    BY <1>3, <2>1, <2>2, <2>3
<1> QED
  BY <1>2, <1>4, <1>5

\* The rest of rw_msg_send.
LEMMA RecordsStep ==
    ASSUME IInv, CallRecords, NEW c \in Clients, ClientStep(c)
    PROVE  CallRecords'
<1>t. /\ calls \in Nat /\ Calls \subseteq Nat
      /\ clientPc \in [Clients -> {"idle", "link", "post", "wait", "unlink", "abort", "release"}]
      /\ call \in [Clients -> Calls \cup {0}]
      /\ \A d \in Clients : clientPc[d] # "idle" => call[d] \in Calls
      /\ reqid \in [Calls -> Ids] /\ unposted \subseteq Calls
      /\ nodeState \in [Calls -> {"none", "live", "freed"}]
      /\ outcome \in [Calls -> {"none", "ok", "fail"}]
  BY BoundsAssumption DEF IInv, TypeOK, Calls
<1>u. UNCHANGED <<reqid, calls, shared>>
  BY DEF ClientStep, Link, Post, PostFull, Confirmed, Timeout, Unlink, Abort, Release, Free, node, hist
<1>d. \A d \in Clients : clientPc[d] # "idle" /\ clientPc[c] # "idle" /\ call[d] = call[c] => d = c
  BY DEF IInv, CallsDistinct
<1>n. PICK k : k = call[c]
  OBVIOUS
\* The call goes on.
<1>1. ASSUME NEW pc \in {"post", "wait", "unlink", "abort", "release"},
             clientPc' = [clientPc EXCEPT ![c] = pc], clientPc[c] \notin {"idle", "abort"},
             UNCHANGED <<call, outcome, nodeState>>,
             unposted' = unposted \/ (pc = "abort" /\ unposted' = unposted \cup {k} /\ reqid[k] # NoCfm)
      PROVE  CallRecords'
  <2>1. clientPc'[c] = pc /\ \A d \in Clients \ {c} : clientPc'[d] = clientPc[d]
    BY <1>t, <1>1
  <2>2. OpenCalls' /\ FreshIds' /\ FreedReturned' /\ Overlaps'
    BY <1>u, <1>1, <2>1 DEF CallRecords, OpenCalls, FreshIds, FreedReturned, Overlaps
  <2>3. CallsAccounted'
    BY <1>u, <1>1, <2>1 DEF CallRecords, CallsAccounted, Active
  <2>4. GaveUp'
    <3> SUFFICES ASSUME NEW n \in unposted'
                 PROVE  /\ reqid'[n] # NoCfm
                        /\ outcome'[n] = "fail" \/ \E d \in Clients : clientPc'[d] = "abort" /\ call'[d] = n
      BY DEF GaveUp
    <3>1. CASE n \in unposted
      BY <1>u, <1>1, <2>1, <3>1 DEF CallRecords, GaveUp
    <3>2. CASE n \notin unposted
      BY <1>u, <1>n, <1>1, <2>1, <3>2
    <3> QED
      BY <3>1, <3>2
  <2> QED
    BY <2>2, <2>3, <2>4 DEF CallRecords
\* The call returns.
<1>2. ASSUME NEW ret \in {"ok", "fail"}, Return(c, ret), clientPc[c] # "idle", unposted' = unposted,
             \/ nodeState' = nodeState
             \/ nodeState' = [nodeState EXCEPT ![k] = "freed"],
             clientPc[c] = "abort" => ret = "fail"
      PROVE  CallRecords'
  <2>1. /\ k \in Calls /\ clientPc'[c] = "idle" /\ outcome'[k] = ret
        /\ \A d \in Clients \ {c} : clientPc'[d] = clientPc[d] /\ call'[d] = call[d]
        /\ \A n \in Calls \ {k} : outcome'[n] = outcome[n] /\ nodeState'[n] = nodeState[n]
    BY <1>t, <1>n, <1>2 DEF Return
  <2>2. \A d \in Clients \ {c} : clientPc[d] # "idle" => call[d] # k
    BY <1>d, <1>n, <1>2
  <2>3. outcome[k] = "none"
    BY <1>n, <1>2 DEF CallRecords, OpenCalls
  <2>4. OpenCalls'
    <3> SUFFICES ASSUME NEW d \in Clients, clientPc'[d] # "idle" PROVE outcome'[call'[d]] = "none"
      BY DEF OpenCalls
    <3>1. d # c /\ clientPc[d] # "idle" /\ call'[d] = call[d]
      BY <2>1
    <3>2. call[d] \in Calls \ {k} /\ outcome[call[d]] = "none"
      BY <1>t, <2>2, <3>1 DEF CallRecords, OpenCalls
    <3> QED
      BY <2>1, <3>1, <3>2
  <2>5. FreshIds' /\ Overlaps'
    BY <1>u, <2>1 DEF CallRecords, FreshIds, Overlaps
  <2>6. CallsAccounted'
    <3>1. \A n \in Calls \ {k} : Active(n) => Active(n)'
      BY <1>n, <2>1 DEF Active
    <3> QED
      BY <1>u, <2>1, <3>1 DEF CallRecords, CallsAccounted
  <2>7. GaveUp'
    <3>1. k \in unposted => ret = "fail"
      BY <1>d, <1>n, <1>2, <2>2, <2>3 DEF CallRecords, GaveUp
    <3>2. \A n \in unposted \ {k} :
              (\E d \in Clients : clientPc[d] = "abort" /\ call[d] = n) =>
               \E d \in Clients : clientPc'[d] = "abort" /\ call'[d] = n
      BY <1>n, <2>1
    <3> QED
      BY <1>t, <1>u, <1>2, <2>1, <3>1, <3>2 DEF CallRecords, GaveUp
  <2>8. FreedReturned'
    BY <2>1 DEF CallRecords, FreedReturned
  <2> QED
    BY <2>4, <2>5, <2>6, <2>7, <2>8 DEF CallRecords
<1>3. CASE Link(c) \/ Confirmed(c) \/ Timeout(c) \/ Unlink(c)
  BY <1>1, <1>3 DEF Link, Confirmed, Timeout, Unlink, node, hist
<1>4. CASE Post(c)
  <2>1. CASE reqid[call[c]] # NoCfm
    BY <1>1, <1>4, <2>1 DEF Post, node, hist
  <2>2. CASE reqid[call[c]] = NoCfm
    BY <1>2, <1>4, <2>2 DEF Post, node, hist
  <2> QED
    BY <2>1, <2>2
<1>5. CASE PostFull(c)
  <2>1. CASE reqid[call[c]] # NoCfm
    BY <1>1, <1>5, <1>n, <2>1 DEF PostFull, node, hist
  <2>2. CASE reqid[call[c]] = NoCfm
    BY <1>2, <1>5, <2>2 DEF PostFull, node, hist
  <2> QED
    BY <2>1, <2>2
<1>6. CASE Abort(c)
  BY <1>2, <1>6, <1>n DEF Abort, Free, hist
<1>7. CASE Release(c)
  BY <1>2, <1>7, <1>n DEF Release, Free, hist
<1> QED
  BY <1>3, <1>4, <1>5, <1>6, <1>7 DEF ClientStep

\* A message names the id its request waits for; one of no request nobody's.
Genuine(m) ==
    /\ m.req = 0 => m.id = NoCfm
    /\ m.req \in Calls => m.id = reqid[m.req]

RxGenuine ==
    /\ \A i \in 1 .. Len(rxHead) : Genuine(rxHead[i])
    /\ kmsgPc \notin {"wait", "read"} => Genuine(rxMsg)

\* What rwnx_recv_msg has found out of the node it is about to signal.
Matched ==
    /\ kmsgPc \in {"match", "signal"} => rxMsg.id = reqid[txNode] \/ nodeState[txNode] = "freed"
    /\ kmsgPc = "signal" =>
          sema[txNode] = 0 /\ \A c \in Clients : clientPc[c] = "release" => call[c] # txNode

\* A caller is told of success only with a confirmation in its buffer.
Told ==
    /\ \A n \in Calls :
          /\ n > calls => cfm[n] = 0
          /\ sema[n] = 1 => cfm[n] # 0
          /\ outcome[n] = "ok" /\ reqid[n] # NoCfm => cfm[n] # 0
    /\ \A c \in Clients : clientPc[c] = "release" => cfm[call[c]] # 0

Answers == RxGenuine /\ Matched /\ Told /\ OwnConfirmation

LEMMA AnswersInit == Init => Answers
<1> SUFFICES ASSUME Init PROVE Answers
  OBVIOUS
<1>1. /\ Len(rxHead) = 0 /\ kmsgPc = "wait" /\ clientPc = [c \in Clients |-> "idle"]
      /\ cfm = [n \in Calls |-> 0] /\ sema = [n \in Calls |-> 0] /\ outcome = [n \in Calls |-> "none"]
  BY DEF Init
<1> QED
  BY <1>1 DEF Answers, RxGenuine, Matched, Told, OwnConfirmation

\* A client runs only while kmsgbk is asleep; ids of calls made do not change,
\* nor does a failure that has been reported.
LEMMA AnswersClientFrame ==
    ASSUME IInv, OnePlace, Answers, kmsgPc = "wait", UNCHANGED <<rxHead, kmsgPc, cfm>>,
           \A n \in Calls : n <= calls => reqid'[n] = reqid[n],
           \A n \in Calls : outcome[n] = "fail" => outcome'[n] = "fail",
           shared \subseteq shared'
    PROVE  RxGenuine' /\ Matched' /\ OwnConfirmation'
<1>t. rxHead \in Seq(KeMsgs) /\ calls \in Nat /\ Calls \subseteq Nat
  BY BoundsAssumption DEF IInv, TypeOK, Calls
<1>1. \A i \in 1 .. Len(rxHead) : Genuine(rxHead[i])'
  <2> SUFFICES ASSUME NEW i \in 1 .. Len(rxHead) PROVE Genuine(rxHead[i])'
    OBVIOUS
  <2>1. Has(rxHead, rxHead[i].req) /\ Genuine(rxHead[i])
    BY DEF Has, Answers, RxGenuine
  <2>2. rxHead[i].req \in Calls => rxHead[i].req <= calls
    BY <2>1 DEF OnePlace, Separate, Somewhere, Posted
  <2> QED
    BY <2>1, <2>2 DEF Genuine
<1>2. RxGenuine' /\ Matched'
  BY <1>1 DEF RxGenuine, Matched
<1>3. \A m \in Calls : outcome[m] = "fail" => m <= calls
  BY <1>t DEF IInv, CallsFresh
<1>4. OwnConfirmation'
  <2> SUFFICES ASSUME NEW n \in Calls, cfm[n] \notin {0, n}
               PROVE  \/ reqid'[n] \in shared'
                      \/ \E m \in Calls : reqid'[m] = reqid'[n] /\ outcome'[m] = "fail"
    BY DEF OwnConfirmation
  <2>1. reqid'[n] = reqid[n]
    BY <1>t DEF Answers, Told
  <2>2. CASE reqid[n] \in shared
    BY <2>1, <2>2
  <2>3. CASE \E m \in Calls : reqid[m] = reqid[n] /\ outcome[m] = "fail"
    BY <1>3, <2>1, <2>3
  <2> QED
    BY <2>2, <2>3 DEF Answers, OwnConfirmation
<1> QED
  BY <1>2, <1>4

LEMMA AnswersClient ==
    ASSUME IInv, OnePlace, CallRecords, Answers, NEW c \in Clients,
           \/ BeginNoCfm(c) \/ BeginNoMem(c) \/ ClientStep(c)
           \/ \E id \in ReqIds : Begin(c, id)
    PROVE  Answers'
<1>t. /\ calls \in Nat /\ Calls \subseteq Nat
      /\ clientPc \in [Clients -> {"idle", "link", "post", "wait", "unlink", "abort", "release"}]
      /\ call \in [Clients -> Calls \cup {0}]
      /\ \A d \in Clients : clientPc[d] # "idle" => call[d] \in Calls
      /\ reqid \in [Calls -> Ids] /\ sema \in [Calls -> 0 .. 1]
      /\ outcome \in [Calls -> {"none", "ok", "fail"}]
  BY BoundsAssumption DEF IInv, TypeOK, Calls
<1>u. kmsgPc = "wait" /\ UNCHANGED <<rxHead, kmsgPc, cfm>> /\ shared \subseteq shared'
  BY DEF BeginNoCfm, BeginNoMem, Begin, ClientStep, Link, Post, PostFull, Confirmed, Timeout,
         Unlink, Abort, Release, Free, ClientMayRun, KmsgReady, kmsg, node, hist
<1> SUFFICES /\ \A n \in Calls : n <= calls => reqid'[n] = reqid[n]
             /\ \A n \in Calls : outcome[n] = "fail" => outcome'[n] = "fail"
             /\ Told'
  BY <1>u, AnswersClientFrame DEF Answers
\* A call begins, and touches no call that was made before.
<1>1. CASE BeginNoCfm(c) \/ BeginNoMem(c) \/ \E id \in ReqIds : Begin(c, id)
  <2>0. PICK k : k = calls + 1
    OBVIOUS
  <2>1. /\ calls' = calls + 1 /\ sema' = sema
        /\ \A n \in Calls \ {k} : reqid'[n] = reqid[n] /\ outcome'[n] = outcome[n]
        /\ outcome'[k] # "ok"
        /\ \A d \in Clients : clientPc'[d] = "release" => clientPc[d] = "release" /\ call'[d] = call[d]
    <3>1. k \in Calls /\ outcome[k] = "none"
      <4>1. k \in Calls /\ k > calls
        BY <1>1, <1>t, <2>0, BoundsAssumption DEF BeginNoCfm, BeginNoMem, Begin, Calls
      <4> QED
        BY <4>1 DEF IInv, CallsFresh
    <3>2. CASE BeginNoCfm(c)
      BY <1>t, <2>0, <3>1, <3>2 DEF BeginNoCfm, node
    <3>3. CASE BeginNoMem(c)
      BY <1>t, <2>0, <3>1, <3>3 DEF BeginNoMem, node
    <3>4. CASE \E id \in ReqIds : Begin(c, id)
      BY <1>t, <2>0, <3>1, <3>4 DEF Begin
    <3> QED
      BY <1>1, <3>2, <3>3, <3>4
  <2>2. \A n \in Calls : n <= calls => n # k
    BY <1>t, <2>0
  <2>3. \A n \in Calls : outcome[n] = "fail" => n # k
    BY <1>t, <2>0 DEF IInv, CallsFresh
  <2>4. \A n \in Calls : n > calls' => n > calls
    BY <1>t, <2>1
  <2>5. Told'
    <3>1. \A n \in Calls : outcome'[n] = "ok" => n # k
      BY <2>1
    <3> QED
      BY <1>u, <2>1, <2>4, <3>1 DEF Answers, Told
  <2> QED
    BY <2>1, <2>2, <2>3, <2>5
<1>2. CASE ClientStep(c)
  <2>1. reqid' = reqid /\ calls' = calls
    BY <1>2 DEF ClientStep, Link, Post, PostFull, Confirmed, Timeout, Unlink, Abort, Release, Free, node
  <2>2. clientPc[c] # "idle" /\ call[c] \in Calls /\ outcome[call[c]] = "none"
    BY <1>t, <1>2 DEF ClientStep, Link, Post, PostFull, Confirmed, Timeout, Unlink, Abort, Release,
                      CallRecords, OpenCalls
  <2>3. ASSUME sema' = sema \/ sema' = [sema EXCEPT ![call[c]] = 0],
               \/ outcome' = outcome
               \/ outcome' = [outcome EXCEPT ![call[c]] = "fail"]
               \/ /\ outcome' = [outcome EXCEPT ![call[c]] = "ok"]
                  /\ reqid[call[c]] = NoCfm \/ cfm[call[c]] # 0,
               \A d \in Clients : clientPc'[d] = "release" =>
                   call'[d] = call[d] /\ (clientPc[d] = "release" \/ cfm[call[d]] # 0)
        PROVE  Told' /\ \A n \in Calls : outcome[n] = "fail" => outcome'[n] = "fail"
    <3>1. \A n \in Calls : outcome[n] = "fail" => outcome'[n] = "fail"
      BY <1>t, <2>2, <2>3
    <3>2. \A n \in Calls : sema'[n] = 1 => sema[n] = 1
      BY <1>t, <2>2, <2>3
    <3>3. \A n \in Calls : outcome'[n] = "ok" => outcome[n] = "ok" \/ reqid[n] = NoCfm \/ cfm[n] # 0
      BY <1>t, <2>2, <2>3
    <3> QED
      BY <1>u, <2>1, <2>3, <3>1, <3>2, <3>3 DEF Answers, Told
  <2>4. CASE Link(c) \/ Timeout(c) \/ Unlink(c)
    BY <1>t, <2>1, <2>3, <2>4 DEF Link, Timeout, Unlink, node
  <2>5. CASE Confirmed(c)
    <3>1. cfm[call[c]] # 0
      BY <2>2, <2>5 DEF Confirmed, Answers, Told
    <3> QED
      BY <1>t, <2>1, <2>3, <2>5, <3>1 DEF Confirmed
  <2>6. CASE Post(c)
    BY <1>t, <2>1, <2>3, <2>6 DEF Post, Return, node
  <2>7. CASE PostFull(c)
    BY <1>t, <2>1, <2>3, <2>7 DEF PostFull, Return, node
  <2>8. CASE Abort(c)
    BY <1>t, <2>1, <2>3, <2>8 DEF Abort, Free, Return
  <2>9. CASE Release(c)
    <3>1. cfm[call[c]] # 0
      BY <2>9 DEF Release, Answers, Told
    <3> QED
      BY <1>t, <2>1, <2>3, <2>9, <3>1 DEF Release, Free, Return
  <2> QED
    BY <1>2, <2>1, <2>4, <2>5, <2>6, <2>7, <2>8, <2>9 DEF ClientStep
<1> QED
  BY <1>1, <1>2

\* The core thread and the firmware only put messages on rw_msg_rx_head.
LEMMA AnswersCore ==
    ASSUME IInv, Answers, UNCHANGED <<kmsg, client, node, hist>>,
           \/ rxHead' = rxHead
           \/ \E m \in KeMsgs : Genuine(m) /\ rxHead' = Append(rxHead, m)
    PROVE  Answers'
<1>1. UNCHANGED <<kmsgPc, rxMsg, txNode, clientPc, call, outcome, calls, nodeState, reqid, sema, cfm, shared>>
  BY DEF kmsg, client, node, hist
<1>2. \A i \in 1 .. Len(rxHead') : Genuine(rxHead'[i])
  <2>1. CASE rxHead' = rxHead
    BY <2>1 DEF Answers, RxGenuine
  <2>2. ASSUME NEW m \in KeMsgs, Genuine(m), rxHead' = Append(rxHead, m)
        PROVE  \A i \in 1 .. Len(rxHead') : Genuine(rxHead'[i])
    <3>1. /\ Len(rxHead) \in Nat /\ Len(rxHead') = Len(rxHead) + 1 /\ rxHead'[Len(rxHead) + 1] = m
          /\ \A i \in 1 .. Len(rxHead) : rxHead'[i] = rxHead[i]
      BY <2>2, AppendProperties, LenProperties DEF IInv, TypeOK
    <3>2. \A i \in 1 .. Len(rxHead') : i \in 1 .. Len(rxHead) \/ i = Len(rxHead) + 1
      BY <3>1
    <3> QED
      BY <2>2, <3>1, <3>2 DEF Answers, RxGenuine
  <2> QED
    BY <2>1, <2>2
<1>3. RxGenuine'
  BY <1>1, <1>2 DEF Answers, RxGenuine, Genuine
<1>4. Matched' /\ Told' /\ OwnConfirmation'
  BY <1>1 DEF Answers, Matched, Told, OwnConfirmation
<1> QED
  BY <1>3, <1>4 DEF Answers

\* rwnx_recv_msg up to the match.
LEMMA AnswersScan ==
    ASSUME IInv, OnePlace, Answers, KmsgStep, ~KmsgSignal
    PROVE  Answers'
<1>t. /\ rxHead \in Seq(KeMsgs)
      /\ kmsgPc \in {"scan", "match", "signal"} => txNode \in Calls
      /\ sema \in [Calls -> 0 .. 1]
      /\ kmsgPc = "pop" => rxHead # <<>>
  BY DEF IInv, TypeOK
<1>1. UNCHANGED <<clientPc, call, outcome, calls, nodeState, reqid, sema, cfm, shared>>
  BY DEF KmsgStep, KmsgWake, KmsgRead, KmsgPop, KmsgPick, KmsgFound, KmsgNext, KmsgMatch,
         KmsgSignal, KmsgHandle, client, node, hist
<1>2. Told' /\ OwnConfirmation'
  BY <1>1 DEF Answers, Told, OwnConfirmation
<1>3. rxHead # <<>> => Len(rxHead) \in Nat /\ Len(rxHead) > 0 /\ Head(rxHead) = rxHead[1]
  BY <1>t, EmptySeq, LenProperties
<1>4. RxGenuine'
  <2>1. \A i \in 1 .. Len(rxHead') : Genuine(rxHead'[i])
    <3>1. CASE rxHead' = rxHead
      BY <3>1 DEF Answers, RxGenuine
    <3>2. CASE rxHead' = <<>>
      <4>1. Len(rxHead') = 0
        BY <3>2
      <4> QED
        BY <4>1
    <3>3. CASE rxHead # <<>> /\ rxHead' = Tail(rxHead)
      <4>1. /\ Len(rxHead') = Len(rxHead) - 1
            /\ \A i \in 1 .. Len(rxHead') : rxHead'[i] = rxHead[i + 1]
        BY <1>t, <3>3, HeadTailProperties
      <4>2. \A i \in 1 .. Len(rxHead') : i + 1 \in 1 .. Len(rxHead)
        BY <1>3, <3>3, <4>1
      <4> QED
        BY <4>1, <4>2 DEF Answers, RxGenuine
    <3> QED
      BY <1>t, <3>1, <3>2, <3>3
         DEF KmsgStep, KmsgWake, KmsgRead, KmsgPop, KmsgPick, KmsgFound, KmsgNext, KmsgMatch, KmsgHandle
  <2>2. kmsgPc' \notin {"wait", "read"} => Genuine(rxMsg')
    <3>1. CASE KmsgRead
      <4>1. rxHead # <<>> => 1 \in 1 .. Len(rxHead) /\ Genuine(Head(rxHead))
        BY <1>3 DEF Answers, RxGenuine
      <4> QED
        BY <3>1, <4>1 DEF KmsgRead
    <3>2. CASE KmsgWake \/ KmsgHandle
      BY <3>2 DEF KmsgWake, KmsgHandle, KmsgAgain
    <3>3. CASE KmsgPop \/ KmsgPick \/ KmsgFound \/ KmsgNext \/ KmsgMatch
      BY <3>3 DEF KmsgPop, KmsgPick, KmsgFound, KmsgNext, KmsgMatch, Answers, RxGenuine
    <3> QED
      BY <3>1, <3>2, <3>3 DEF KmsgStep
  <2>3. \A m : Genuine(m)' <=> Genuine(m)
    BY <1>1 DEF Genuine
  <2> QED
    BY <1>1, <2>1, <2>2 DEF RxGenuine, Genuine
<1>5. Matched'
  <2>1. CASE KmsgFound
    BY <1>1, <2>1 DEF KmsgFound, Matched
  <2>2. CASE KmsgMatch
    <3>1. /\ kmsgPc = "match" /\ kmsgPc' = "signal" /\ txNode' = txNode /\ rxMsg' = rxMsg
          /\ txNode \in Calls
      BY <1>t, <2>2 DEF KmsgMatch
    <3>2. InList(txHead, txNode)
      BY <3>1 DEF IInv, KmsgHolds
    <3>3. sema[txNode] = 0 /\ \A c \in Clients : clientPc[c] = "release" => call[c] # txNode
      BY <1>t, <3>1, <3>2 DEF IInv, NodeDiscipline, SignalledUnlinked, ReleaseUnlinked
    <3> QED
      BY <1>1, <3>1, <3>3 DEF Answers, Matched
  <2>3. CASE kmsgPc' \notin {"match", "signal"}
    BY <2>3 DEF Matched
  <2> QED
    BY <2>1, <2>2, <2>3
       DEF KmsgStep, KmsgWake, KmsgRead, KmsgPop, KmsgPick, KmsgNext, KmsgHandle, KmsgAgain
<1> QED
  BY <1>2, <1>4, <1>5 DEF Answers

\* The copy into the caller's buffer.
LEMMA AnswersSignal ==
    ASSUME IInv, OnePlace, CallRecords, Answers, KmsgSignal
    PROVE  Answers'
<1>n. PICK n : n = txNode
  OBVIOUS
<1>r. PICK r : r = rxMsg.req
  OBVIOUS
<1>1. /\ kmsgPc = "signal" /\ kmsgPc' = "read" /\ rxHead' = rxHead
      /\ cfm' = [cfm EXCEPT ![n] = r]
      /\ sema' = IF nodeState[n] = "live" THEN [sema EXCEPT ![n] = 1] ELSE sema
      /\ UNCHANGED <<clientPc, call, outcome, calls, nodeState, reqid, shared>>
  BY <1>n, <1>r DEF KmsgSignal, KmsgAgain, client, hist
<1>t. /\ n \in Calls /\ r \in Calls \cup {0} /\ calls \in Nat /\ Calls \subseteq Nat
      /\ cfm \in [Calls -> Calls \cup {0}] /\ sema \in [Calls -> 0 .. 1]
      /\ nodeState \in [Calls -> {"none", "live", "freed"}]
      /\ outcome \in [Calls -> {"none", "ok", "fail"}]
  BY <1>n, <1>r, <1>1, BoundsAssumption DEF IInv, TypeOK, KeMsgs, Calls
<1>2. nodeState[n] = "live" \/ n \in unposted
  BY <1>n, <1>1 DEF IInv, NoUseAfterFree
<1>3. /\ reqid[n] # NoCfm /\ n <= calls
      /\ Active(n) \/ outcome[n] = "fail"
      /\ outcome[n] # "ok"
  <2>1. reqid[n] # NoCfm
    BY <1>t, <1>2 DEF IInv, NodeDiscipline, LiveNodeOpen, CallRecords, GaveUp
  <2>2. n <= calls
    BY <1>t, <2>1 DEF CallRecords, FreshIds
  <2>3. CASE nodeState[n] = "live"
    BY <1>t, <2>1, <2>2, <2>3 DEF IInv, NodeDiscipline, LiveNodeOpen, CallRecords, CallsAccounted
  <2>4. CASE n \in unposted
    BY <2>1, <2>2, <2>4 DEF CallRecords, GaveUp, OpenCalls, Active
  <2> QED
    BY <1>2, <2>1, <2>2, <2>3, <2>4
<1>4. nodeState[n] = "freed" => outcome[n] = "fail"
  BY <1>t, <1>3 DEF CallRecords, FreedReturned
<1>5. /\ rxMsg.id = reqid[n] \/ nodeState[n] = "freed"
      /\ sema[n] = 0 /\ \A c \in Clients : clientPc[c] = "release" => call[c] # n
      /\ Genuine(rxMsg)
  BY <1>n, <1>1 DEF Answers, Matched, RxGenuine
\* A node that still exists is told of a request, not of an indication.
<1>6. nodeState[n] = "live" => r # 0
  BY <1>r, <1>3, <1>5 DEF Genuine
<1>7. RxGenuine' /\ Matched'
  BY <1>1 DEF Answers, RxGenuine, Matched, Genuine
<1>8. Told'
  <2>1. \A m \in Calls \ {n} : cfm'[m] = cfm[m] /\ sema'[m] = sema[m]
    BY <1>t, <1>1
  <2>2. sema'[n] = 1 => cfm'[n] # 0
    BY <1>t, <1>1, <1>5, <1>6
  <2>3. ASSUME NEW c \in Clients, clientPc[c] = "release" PROVE cfm'[call[c]] # 0
    BY <1>t, <1>5, <2>1, <2>3 DEF Answers, Told, IInv, TypeOK
  <2>4. ASSUME NEW m \in Calls
        PROVE  /\ m > calls => cfm'[m] = 0
               /\ sema'[m] = 1 => cfm'[m] # 0
               /\ outcome[m] = "ok" /\ reqid[m] # NoCfm => cfm'[m] # 0
    <3>1. CASE m = n
      BY <1>t, <1>3, <2>2, <3>1
    <3>2. CASE m # n
      BY <2>1, <3>2 DEF Answers, Told
    <3> QED
      BY <3>1, <3>2
  <2> QED
    BY <1>1, <2>3, <2>4 DEF Told
\* The id matches: the request is its own, or another call of the same id
\* failed, or overlaps with this one.
<1>9. \/ r \in {0, n} \/ reqid[n] \in shared
      \/ \E m \in Calls : reqid[m] = reqid[n] /\ outcome[m] = "fail"
  <2> SUFFICES ASSUME r \in Calls, r # n, rxMsg.id = reqid[n], outcome[n] # "fail"
               PROVE  \/ reqid[n] \in shared
                      \/ \E m \in Calls : reqid[m] = reqid[n] /\ outcome[m] = "fail"
    BY <1>t, <1>4, <1>5
  <2>1. reqid[r] = reqid[n]
    BY <1>r, <1>5 DEF Genuine
  <2>2. InHand(r) /\ ~InBuffer(r) /\ r <= calls
    BY <1>r, <1>1 DEF InHand, OnePlace, Separate, Apart, Somewhere, Posted
  <2>3. CASE outcome[r] = "fail"
    BY <2>1, <2>3
  <2>4. CASE outcome[r] = "ok"
    <3>1. cfm[r] \notin {0, r}
      BY <1>3, <2>1, <2>2, <2>4 DEF Answers, Told, InBuffer
    <3> QED
      BY <2>1, <3>1 DEF Answers, OwnConfirmation
  <2>5. CASE outcome[r] = "none"
    <3>1. Active(r) /\ Active(n)
      BY <1>3, <2>1, <2>2, <2>5 DEF CallRecords, CallsAccounted
    <3>2. PICK c \in Clients, d \in Clients :
              clientPc[c] # "idle" /\ call[c] = n /\ clientPc[d] # "idle" /\ call[d] = r
      BY <3>1 DEF Active
    <3> QED
      BY <1>3, <2>1, <3>2 DEF CallRecords, Overlaps
  <2> QED
    BY <1>t, <2>3, <2>4, <2>5
<1>10. OwnConfirmation'
  <2> SUFFICES ASSUME NEW m \in Calls
               PROVE  \/ cfm'[m] \in {0, m} \/ reqid[m] \in shared
                      \/ \E j \in Calls : reqid[j] = reqid[m] /\ outcome[j] = "fail"
    BY <1>1 DEF OwnConfirmation
  <2>1. CASE m = n
    BY <1>t, <1>1, <1>9, <2>1
  <2>2. CASE m # n
    BY <1>t, <1>1, <2>2 DEF Answers, OwnConfirmation
  <2> QED
    BY <2>1, <2>2
<1> QED
  BY <1>7, <1>8, <1>10 DEF Answers

LEMMA OwnNext ==
    ASSUME IInv, OnePlace, CallRecords, Answers, [Next]_vars
    PROVE  CallRecords' /\ Answers'
<1>1. ASSUME UNCHANGED <<kmsg, client, node, hist>>,
             \/ rxHead' = rxHead
             \/ \E m \in KeMsgs : Genuine(m) /\ rxHead' = Append(rxHead, m)
      PROVE  CallRecords' /\ Answers'
  BY <1>1, AnswersCore, RecordsFrame DEF node
<1>2. ASSUME NEW n \in Calls, FwConfirm(n) PROVE CallRecords' /\ Answers'
  <2> DEFINE m == [id |-> reqid[n], req |-> n]
  <2>1. m \in KeMsgs /\ Genuine(m)
    BY ZeroIsNoCall DEF IInv, TypeOK, KeMsgs, Genuine
  <2>2. rxHead' = Append(rxHead, m) /\ UNCHANGED <<kmsg, client, node, hist>>
    BY <1>2 DEF FwConfirm, Fwd
  <2> HIDE DEF m
  <2> QED
    BY <1>1, <2>1, <2>2
<1>3. CASE FwIndicate
  <2>1. NoMsg \in KeMsgs /\ Genuine(NoMsg)
    BY ZeroIsNoCall DEF NoMsg, KeMsgs, Ids, Genuine
  <2> QED
    BY <1>1, <1>3, <2>1 DEF FwIndicate, Fwd
<1>4. CASE RfWake \/ CoreStep \/ \E t \in {"tx", "rx"} : BusPost(t)
  BY <1>1, <1>4 DEF RfWake, CoreStep, CorePop, CoreLoop, BusPost
<1>5. CASE UNCHANGED vars
  BY <1>1, <1>5 DEF vars
<1>6. CASE KmsgStep
  <2>1. UNCHANGED <<client, nodeState, reqid, hist>>
    BY <1>6 DEF KmsgStep, KmsgWake, KmsgRead, KmsgPop, KmsgPick, KmsgFound, KmsgNext, KmsgMatch,
                KmsgSignal, KmsgHandle, node
  <2> QED
    BY <1>6, <2>1, RecordsFrame, AnswersScan, AnswersSignal
<1> QED
  BY <1>2, <1>3, <1>4, <1>5, <1>6, AnswersClient, RecordsBegin, RecordsStep DEF Next

\* rwnx_recv_msg matches by id alone, and still every caller gets the answer
\* to its own request, unless a call of that id failed or two overlapped.
THEOREM AnswerIsOwn == Spec => []OwnConfirmation
<1>1. Answers => OwnConfirmation
  BY DEF Answers
<1> DEFINE Inv == OnePlace /\ CallRecords /\ Answers
<1>2. Init => Inv
  BY OnePlaceInit, RecordsInit, AnswersInit
<1>3. IInv /\ Inv /\ [Next]_vars => Inv'
  BY OnePlaceNext, OwnNext
<1> QED
  BY <1>1, <1>2, <1>3, Inductive, PTL DEF Spec
=============================================================================
