---------------------------- MODULE MsgBusProofs ----------------------------
(***************************************************************************)
(* For every set of packet buffers and every queue length: the message bus  *)
(* is type correct, counts its RX messages and the references of its        *)
(* buffers exactly, applies the last power-save command of each feature and *)
(* never blocks on a pending kernel event.                                  *)
(***************************************************************************)
EXTENDS MsgBus, FiniteSetTheorems, SequenceTheorems, TLAPS

-----------------------------------------------------------------------------
(* How often a message occurs in a queue                                    *)

Places(q, m) == {i \in 1 .. Len(q) : q[i] = m}
Count(q, m) == Cardinality(Places(q, m))

LEMMA CountType ==
    ASSUME NEW S, NEW q \in Seq(S), NEW m
    PROVE  IsFiniteSet(Places(q, m)) /\ Count(q, m) \in Nat
<1>1. Len(q) \in Nat
  OBVIOUS
<1>2. IsFiniteSet(1 .. Len(q))
  BY <1>1, FS_Interval
<1>3. IsFiniteSet(Places(q, m))
  BY <1>2, FS_Subset DEF Places
<1> QED
  BY <1>3, FS_CardinalityType DEF Count

LEMMA CountEmpty ==
    ASSUME NEW m
    PROVE  Count(<<>>, m) = 0
<1>1. Places(<<>>, m) = {}
  BY DEF Places
<1> QED
  BY <1>1, FS_EmptySet DEF Count

\* A message that is pushed is one more of its kind.
LEMMA CountAppend ==
    ASSUME NEW S, NEW q \in Seq(S), NEW e \in S, NEW m
    PROVE  Count(Append(q, e), m) = Count(q, m) + (IF e = m THEN 1 ELSE 0)
<1> DEFINE a == Append(q, e)
<1>1. /\ Len(q) \in Nat /\ Len(a) = Len(q) + 1
      /\ \A i \in 1 .. Len(q) : a[i] = q[i]
      /\ a[Len(q) + 1] = e
  BY AppendProperties
<1> HIDE DEF a
<1>4. IsFiniteSet(Places(q, m)) /\ Count(q, m) \in Nat
  BY CountType
<1>2. CASE e = m
  <2>1. Places(a, m) = Places(q, m) \cup {Len(q) + 1}
    BY <1>1, <1>2 DEF Places
  <2>2. Len(q) + 1 \notin Places(q, m)
    BY <1>1 DEF Places
  <2> QED
    BY <1>2, <1>4, <2>1, <2>2, FS_AddElement DEF Count, a
<1>3. CASE e # m
  <2>1. Places(a, m) = Places(q, m)
    BY <1>1, <1>3 DEF Places
  <2> QED
    BY <1>3, <1>4, <2>1 DEF Count, a
<1> QED
  BY <1>2, <1>3

\* A message that is popped is one less of its kind.
LEMMA CountTail ==
    ASSUME NEW S, NEW q \in Seq(S), q # <<>>, NEW m
    PROVE  Count(q, m) = Count(Tail(q), m) + (IF Head(q) = m THEN 1 ELSE 0)
<1> DEFINE t == Tail(q)
<1>1. /\ Len(q) \in Nat \ {0} /\ Len(t) = Len(q) - 1 /\ t \in Seq(S)
      /\ \A i \in 1 .. Len(t) : t[i] = q[i + 1]
      /\ Head(q) = q[1]
  BY HeadTailProperties
<1> HIDE DEF t
<1> DEFINE f == [i \in Places(t, m) |-> i + 1]
           T == Places(q, m) \ {1}
<1>2. f \in Bijection(Places(t, m), T)
  <2>1. f \in [Places(t, m) -> T]
    BY <1>1 DEF Places
  <2>2. \A i, j \in Places(t, m) : f[i] = f[j] => i = j
    BY <1>1 DEF Places
  <2>3. \A k \in T : \E i \in Places(t, m) : f[i] = k
    <3> SUFFICES ASSUME NEW k \in T PROVE \E i \in Places(t, m) : f[i] = k
      OBVIOUS
    <3>1. k - 1 \in Places(t, m) /\ (k - 1) + 1 = k
      BY <1>1 DEF Places
    <3>2. f[k - 1] = k
      BY <3>1
    <3> QED
      BY <3>1, <3>2
  <2> QED
    BY <2>1, <2>2, <2>3 DEF Bijection, Injection, Surjection, IsInjective
<1>3. IsFiniteSet(Places(t, m)) /\ IsFiniteSet(Places(q, m))
  BY <1>1, CountType
<1>4. IsFiniteSet(T) /\ Cardinality(T) = Cardinality(Places(t, m))
  <2>1. ExistsBijection(Places(t, m), T)
    BY <1>2 DEF ExistsBijection
  <2> HIDE DEF T
  <2> QED
    BY <1>3, <2>1, FS_Bijection
<1>5. Count(q, m) \in Nat /\ Count(t, m) \in Nat
  BY <1>1, CountType
<1>6. CASE Head(q) = m
  <2>1. 1 \in Places(q, m)
    BY <1>1, <1>6 DEF Places
  <2>2. Cardinality(T) = Cardinality(Places(q, m)) - 1
    BY <1>3, <2>1, FS_RemoveElement
  <2> QED
    BY <1>5, <1>4, <1>6, <2>2 DEF Count, t
<1>7. CASE Head(q) # m
  <2>1. T = Places(q, m)
    BY <1>1, <1>7 DEF Places
  <2>2. Count(q, m) = Count(t, m)
    BY <1>4, <2>1 DEF Count
  <2> QED
    BY <1>5, <1>7, <2>2 DEF t
<1> QED
  BY <1>6, <1>7

-----------------------------------------------------------------------------
(* The queue of the bus                                                     *)

LEMMA CountsType == TypeOK => \A t, a : CountIn(t, a) \in Nat
<1> SUFFICES ASSUME TypeOK, NEW t, NEW a PROVE CountIn(t, a) \in Nat
  OBVIOUS
<1>1. ioQueue \in Seq(Msgs)
  BY DEF TypeOK
<1>2. Count(ioQueue, [type |-> t, arg |-> a]) \in Nat
  BY <1>1, CountType
<1> QED
  BY <1>2 DEF CountIn, Count, Places

LEMMA SameCounts == UNCHANGED ioQueue => \A t, a : CountIn(t, a)' = CountIn(t, a)
BY DEF CountIn

\* rtos_push_to_queue that finds room adds one message of its kind.
LEMMA PushCounts ==
    ASSUME TypeOK, NEW type, NEW arg, [type |-> type, arg |-> arg] \in Msgs, Push(type, arg)
    PROVE  /\ ioQueue' \in Seq(Msgs) /\ Len(ioQueue') <= QueueLen
           /\ \A t, a : CountIn(t, a)' = CountIn(t, a) + (IF t = type /\ a = arg THEN 1 ELSE 0)
<1> DEFINE e == [type |-> type, arg |-> arg]
<1>1. /\ ioQueue \in Seq(Msgs) /\ e \in Msgs /\ ioQueue' = Append(ioQueue, e)
      /\ Len(ioQueue) < QueueLen
  BY BoundsAssumption DEF TypeOK, Push, Full
<1>2. ioQueue' \in Seq(Msgs) /\ Len(ioQueue') <= QueueLen
  BY <1>1, BoundsAssumption, AppendProperties
<1>3. ASSUME NEW t, NEW a
      PROVE  CountIn(t, a)' = CountIn(t, a) + (IF t = type /\ a = arg THEN 1 ELSE 0)
  <2> DEFINE m == [type |-> t, arg |-> a]
  <2>1. (e = m) <=> (t = type /\ a = arg)
    OBVIOUS
  <2>2. CountIn(t, a) = Count(ioQueue, m) /\ CountIn(t, a)' = Count(ioQueue', m)
    BY DEF CountIn, Count, Places
  <2> HIDE DEF e, m
  <2>3. Count(ioQueue', m) = Count(ioQueue, m) + (IF e = m THEN 1 ELSE 0)
    BY <1>1, CountAppend
  <2> QED
    BY <2>1, <2>2, <2>3
<1> QED
  BY <1>2, <1>3

\* The message core_thread_main pops leaves the queue and is in its hand.
LEMMA PopCounts ==
    ASSUME TypeOK, CorePop
    PROVE  /\ ioQueue' \in Seq(Msgs) /\ Len(ioQueue') <= QueueLen /\ msg' \in Msgs
           /\ \A t, a : CountIn(t, a)
                            = CountIn(t, a)' + (IF msg' = [type |-> t, arg |-> a] THEN 1 ELSE 0)
<1>1. /\ ioQueue \in Seq(Msgs) /\ ioQueue # <<>> /\ Len(ioQueue) <= QueueLen
      /\ ioQueue' = Tail(ioQueue) /\ msg' = Head(ioQueue)
  BY DEF TypeOK, CorePop
<1>2. ioQueue' \in Seq(Msgs) /\ Len(ioQueue') <= QueueLen /\ msg' \in Msgs
  BY <1>1, BoundsAssumption, HeadTailProperties
<1>3. ASSUME NEW t, NEW a
      PROVE  CountIn(t, a) = CountIn(t, a)' + (IF msg' = [type |-> t, arg |-> a] THEN 1 ELSE 0)
  <2> DEFINE m == [type |-> t, arg |-> a]
  <2>1. CountIn(t, a) = Count(ioQueue, m) /\ CountIn(t, a)' = Count(ioQueue', m)
    BY DEF CountIn, Count, Places
  <2> HIDE DEF m
  <2>2. Count(ioQueue, m) = Count(Tail(ioQueue), m) + (IF Head(ioQueue) = m THEN 1 ELSE 0)
    BY <1>1, CountTail
  <2>3. CountIn(t, a) = CountIn(t, a)' + (IF msg' = m THEN 1 ELSE 0)
    BY <1>1, <2>1, <2>2
  <2> QED
    BY <2>3 DEF m
<1> QED
  BY <1>2, <1>3

\* What the handlers know of the message in hand.
LEMMA MsgShape ==
    ASSUME NEW m \in Msgs
    PROVE  /\ m = [type |-> m.type, arg |-> m.arg]
           /\ m.type = "tx" => m.arg \in Pbufs
           /\ m.type = "sta_ps" => m.arg \in PsArgs
           /\ m.type \in {"rx", "ioctl", "null", "media"} => m.arg = "none"
BY DEF Msgs

LEMMA MsgKinds ==
    /\ NoMsg \in Msgs
    /\ \A t \in {"rx", "ioctl", "null", "media"} : [type |-> t, arg |-> "none"] \in Msgs
    /\ \A p \in Pbufs : [type |-> "tx", arg |-> p] \in Msgs
    /\ \A a \in PsArgs : [type |-> "sta_ps", arg |-> a] \in Msgs
BY DEF Msgs, NoMsg

-----------------------------------------------------------------------------
(* Types and accounting, which need each other: a count may go down because *)
(* what it counts is there.                                                 *)

\* bmsg_tx_handler works on the buffer of a TX message.
TransferTx == corePc = "transfer" => msg.type = "tx"

Account == TypeOK /\ RxAccounting /\ PbufReferences /\ TransferTx

LEMMA AccountInit == Init => Account
<1> SUFFICES ASSUME Init PROVE Account
  OBVIOUS
<1>1. ioQueue = <<>> /\ Len(ioQueue) = 0
  BY DEF Init
<1>2. TypeOK
  <2>1. ioQueue \in Seq(Msgs) /\ Len(ioQueue) <= QueueLen
    BY <1>1, BoundsAssumption
  <2>2. rxCount \in 0 .. RxLimit /\ rxSending \in 0 .. RxLimit /\ rxLost \in 0 .. MaxLost
    BY BoundsAssumption DEF Init, RxLimit
  <2> QED
    BY <2>1, <2>2, MsgKinds DEF Init, TypeOK
<1>3. \A t, a : CountIn(t, a) = 0
  BY <1>1, CountEmpty DEF CountIn, Count, Places
<1>4. \A t, a : InHand(t, a) = 0
  BY DEF Init, InHand
<1>5. RxAccounting
  BY <1>3, <1>4 DEF Init, RxAccounting
<1>6. PbufReferences
  BY <1>3, <1>4 DEF Init, PbufReferences
<1> QED
  BY <1>2, <1>5, <1>6 DEF Account, TransferTx, Init

\* A buffer in the hands of bmsg_tx_handler has a reference to give back.
LEMMA HeldHasReference ==
    ASSUME Account
    PROVE  /\ \A p \in Pbufs : stack[p] = "push" => ref[p] >= 2
           /\ \A p \in Pbufs : stack[p] = "sent" => ref[p] >= 1
           /\ corePc = "handle" /\ msg.type = "tx" => msg.arg \in Pbufs /\ ref[msg.arg] >= 1
           /\ corePc = "transfer" => msg.arg \in Pbufs
           /\ corePc = "transfer" /\ owned => ref[msg.arg] >= 1
<1> USE DEF Account, TypeOK
<1>1. \A t, a : CountIn(t, a) \in Nat /\ InHand(t, a) \in Nat
  BY CountsType DEF InHand
<1>2. msg.type = "tx" => msg.arg \in Pbufs /\ msg = [type |-> "tx", arg |-> msg.arg]
  BY MsgShape
<1>3. corePc = "handle" /\ msg.type = "tx" => InHand("tx", msg.arg) = 1
  BY <1>2 DEF InHand
<1>4. ASSUME NEW p \in Pbufs
      PROVE  /\ ref[p] \in Nat
             /\ stack[p] = "push" => ref[p] >= 2
             /\ stack[p] = "sent" => ref[p] >= 1
             /\ ref[p] >= InHand("tx", p)
             /\ corePc = "transfer" /\ owned /\ msg.arg = p => ref[p] >= 1
  BY <1>1 DEF PbufReferences
<1>5. corePc = "handle" /\ msg.type = "tx" => ref[msg.arg] >= 1
  BY <1>2, <1>3, <1>4
<1>6. corePc = "transfer" => msg.arg \in Pbufs
  BY <1>2 DEF TransferTx
<1> QED
  BY <1>2, <1>4, <1>5, <1>6

LEMMA TypeNext == Account /\ [Next]_vars => TypeOK'
<1> SUFFICES ASSUME Account, [Next]_vars PROVE TypeOK'
  OBVIOUS
<1> USE BoundsAssumption
    DEF TypeOK, RxLimit, rx, pbuf, core, ps
<1>t. TypeOK /\ RxAccounting
  BY DEF Account
<1>r. rxCount >= rxSending /\ rxCount >= rxLost
  BY <1>t, CountsType DEF RxAccounting, InHand
<1>1. CASE CorePop /\ UNCHANGED mp3Player
  BY <1>1, <1>t, PopCounts DEF CorePop
<1>2. CASE HandlePs /\ UNCHANGED mp3Player
  <2>1. msg.arg \in PsArgs
    BY <1>2, <1>t, MsgShape DEF HandlePs
  <2>2. psDone' \in [PsFeatures -> PsArgs \cup {"none"}]
    BY <1>2, <1>t, <2>1 DEF HandlePs, PsApply
  <2> QED
    BY <1>2, <1>t, <2>2 DEF HandlePs
<1>3. CASE HandleRx /\ UNCHANGED mp3Player
  BY <1>3, <1>t DEF HandleRx
<1>4. CASE HandleTxSingle /\ UNCHANGED mp3Player
  BY <1>4, <1>t DEF HandleTxSingle
<1>5. CASE HandleTxChain /\ UNCHANGED mp3Player
  <2>1. ref' \in [Pbufs -> Nat]
    BY <1>5, <1>t, HeldHasReference DEF HandleTxChain
  <2> QED
    BY <1>5, <1>t, <2>1 DEF HandleTxChain
<1>6. CASE HandleTxNoMem /\ UNCHANGED mp3Player
  <2>1. ref' \in [Pbufs -> Nat]
    BY <1>6, <1>t, HeldHasReference DEF HandleTxNoMem
  <2> QED
    BY <1>6, <1>t, <2>1 DEF HandleTxNoMem
<1>7. CASE Transfer /\ UNCHANGED mp3Player
  <2>1. ref' \in [Pbufs -> Nat]
    BY <1>7, <1>t, HeldHasReference DEF Transfer
  <2> QED
    BY <1>7, <1>t, <2>1 DEF Transfer
<1>8. CASE HandleOther /\ UNCHANGED mp3Player
  BY <1>8, <1>t DEF HandleOther
<1>9. CASE Schedule /\ UNCHANGED mp3Player
  BY <1>9, <1>t DEF Schedule
<1>10. CASE PsDeferred /\ UNCHANGED mp3Player
  <2>1. msg.type = "sta_ps" => msg.arg \in PsArgs
    BY <1>t, MsgShape
  <2>2. psDone' \in [PsFeatures -> PsArgs \cup {"none"}]
    BY <1>10, <1>t, <2>1 DEF PsDeferred, PsApply
  <2> QED
    BY <1>10, <1>t, <2>2, MsgKinds DEF PsDeferred
<1>11. CASE RxCount /\ UNCHANGED mp3Player
  BY <1>11, <1>t, <1>r DEF RxCount
<1>12. CASE RxPush /\ UNCHANGED mp3Player
  BY <1>12, <1>t, PushCounts, MsgKinds DEF RxPush
<1>13. CASE RxPushFull /\ UNCHANGED mp3Player
  BY <1>13, <1>t DEF RxPushFull
<1>14. ASSUME NEW p \in Pbufs, TxRef(p), UNCHANGED mp3Player PROVE TypeOK'
  BY <1>14, <1>t DEF TxRef
<1>15. ASSUME NEW p \in Pbufs, TxPush(p), UNCHANGED mp3Player PROVE TypeOK'
  BY <1>15, <1>t, PushCounts, MsgKinds DEF TxPush
<1>16. ASSUME NEW p \in Pbufs, TxPushTimeout(p), UNCHANGED mp3Player PROVE TypeOK'
  BY <1>16, <1>t, HeldHasReference DEF TxPushTimeout
<1>17. ASSUME NEW p \in Pbufs, StackFree(p), UNCHANGED mp3Player PROVE TypeOK'
  BY <1>17, <1>t, HeldHasReference DEF StackFree
<1>18. ASSUME NEW a \in PsArgs, PsSend(a), UNCHANGED mp3Player PROVE TypeOK'
  <2>1. ioQueue' \in Seq(Msgs) /\ Len(ioQueue') <= QueueLen
    BY <1>18, <1>t, PushCounts, MsgKinds DEF PsSend
  <2>2. psAsked' \in [PsFeatures -> PsArgs \cup {"none"}]
    BY <1>18, <1>t DEF PsSend
  <2> QED
    BY <1>18, <1>t, <2>1, <2>2 DEF PsSend
<1>19. ASSUME NEW t \in {"ioctl", "media"}, OtherSend(t), UNCHANGED mp3Player PROVE TypeOK'
  BY <1>19, <1>t, PushCounts, MsgKinds DEF OtherSend
<1>20. CASE NullSend /\ UNCHANGED mp3Player
  <2>1. ioQueue' \in Seq(Msgs) /\ Len(ioQueue') <= QueueLen
    BY <1>20, <1>t, PushCounts, MsgKinds DEF NullSend
  <2> QED
    BY <1>20, <1>t, <2>1 DEF NullSend
<1>21. CASE UNCHANGED vars
  BY <1>21, <1>t DEF vars
<1> QED
  BY <1>1, <1>2, <1>3, <1>4, <1>5, <1>6, <1>7, <1>8, <1>9, <1>10, <1>11, <1>12, <1>13,
     <1>14, <1>15, <1>16, <1>17, <1>18, <1>19, <1>20, <1>21
     DEF Next, Step, CoreStep, RxStep, TxStep

LEMMA RxNext == Account /\ [Next]_vars => RxAccounting'
<1> SUFFICES ASSUME Account, [Next]_vars PROVE RxAccounting'
  OBVIOUS
<1> DEFINE queued == CountIn("rx", "none")
           hand == InHand("rx", "none")
<1>t. TypeOK /\ rxCount = rxSending + queued + hand + rxLost
  BY DEF Account, RxAccounting
<1>n. /\ rxCount \in Nat /\ rxSending \in Nat /\ rxLost \in Nat
      /\ queued \in Nat /\ hand \in Nat
  BY <1>t, CountsType DEF TypeOK, RxLimit, InHand
<1> SUFFICES rxCount' = rxSending' + queued' + hand' + rxLost'
  BY DEF RxAccounting
<1>f. UNCHANGED <<corePc, msg>> => hand' = hand
  BY DEF InHand
<1>q. UNCHANGED ioQueue => queued' = queued
  BY SameCounts
<1> HIDE DEF queued, hand
<1>p. ASSUME NEW t, NEW a, [type |-> t, arg |-> a] \in Msgs, Push(t, a), t # "rx"
      PROVE  queued' = queued
  BY <1>p, <1>t, <1>n, PushCounts DEF queued
<1>1. CASE CorePop
  <2>1. queued = queued' + (IF msg' = [type |-> "rx", arg |-> "none"] THEN 1 ELSE 0)
    BY <1>1, <1>t, PopCounts DEF queued
  <2>2. queued' \in Nat
    <3>1. Count(ioQueue', [type |-> "rx", arg |-> "none"]) \in Nat
      BY <1>1, <1>t, PopCounts, CountType
    <3> QED
      BY <3>1 DEF queued, CountIn, Count, Places
  <2>3. hand = 0 /\ hand' = IF msg' = [type |-> "rx", arg |-> "none"] THEN 1 ELSE 0
    BY <1>1 DEF CorePop, hand, InHand
  <2> QED
    BY <1>1, <1>t, <1>n, <2>1, <2>2, <2>3 DEF CorePop, rx
<1>2. CASE HandleRx
  <2>1. msg = [type |-> "rx", arg |-> "none"]
    BY <1>2, <1>t, MsgShape DEF HandleRx, TypeOK
  <2>2. hand = 1 /\ hand' = 0
    BY <1>2, <2>1 DEF HandleRx, hand, InHand
  <2> QED
    BY <1>2, <1>t, <1>n, <1>q, <2>2 DEF HandleRx
<1>3. CASE \/ HandlePs \/ HandleTxSingle \/ HandleTxChain \/ HandleTxNoMem
           \/ Transfer \/ HandleOther \/ Schedule \/ PsDeferred
  <2>1. corePc' # "handle" /\ UNCHANGED <<rx, ioQueue>>
    BY <1>3 DEF HandlePs, HandleTxSingle, HandleTxChain, HandleTxNoMem, Transfer, HandleOther,
                Schedule, PsDeferred
  <2>2. corePc # "handle" \/ msg.type # "rx"
    BY <1>3 DEF HandlePs, HandleTxSingle, HandleTxChain, HandleTxNoMem, Transfer, HandleOther,
                Schedule, PsDeferred
  <2>3. hand = 0 /\ hand' = 0
    BY <2>1, <2>2 DEF hand, InHand
  <2> QED
    BY <1>t, <1>q, <2>1, <2>3 DEF rx
<1>4. CASE RxCount
  BY <1>4, <1>t, <1>n, <1>q, <1>f DEF RxCount, core
<1>5. CASE RxPush
  <2>1. queued' = queued + 1
    BY <1>5, <1>t, PushCounts, MsgKinds DEF RxPush, queued
  <2> QED
    BY <1>5, <1>t, <1>n, <1>f, <2>1 DEF RxPush, core
<1>6. CASE RxPushFull
  BY <1>6, <1>t, <1>n, <1>q, <1>f DEF RxPushFull, core
<1>7. ASSUME NEW p \in Pbufs, TxRef(p) \/ TxStep(p)
      PROVE  rxCount' = rxSending' + queued' + hand' + rxLost'
  <2>1. queued' = queued
    BY <1>7, <1>q, <1>p, MsgKinds DEF TxRef, TxStep, TxPush, TxPushTimeout, StackFree
  <2>2. UNCHANGED <<rx, core>>
    BY <1>7 DEF TxRef, TxStep, TxPush, TxPushTimeout, StackFree
  <2> QED
    BY <1>t, <1>f, <2>1, <2>2 DEF rx, core
<1>8. ASSUME NEW a \in PsArgs, PsSend(a)
      PROVE  rxCount' = rxSending' + queued' + hand' + rxLost'
  BY <1>8, <1>t, <1>q, <1>p, <1>f, MsgKinds DEF PsSend, rx, core
<1>9. ASSUME NEW t \in {"ioctl", "media"}, OtherSend(t)
      PROVE  rxCount' = rxSending' + queued' + hand' + rxLost'
  BY <1>9, <1>t, <1>p, <1>f, MsgKinds DEF OtherSend, rx, core
<1>10. CASE NullSend
  BY <1>10, <1>t, <1>q, <1>p, <1>f, MsgKinds DEF NullSend, rx, core
<1>11. CASE UNCHANGED vars
  BY <1>11, <1>t, <1>q, <1>f DEF vars, rx, core
<1> QED
  BY <1>1, <1>2, <1>3, <1>4, <1>5, <1>6, <1>7, <1>8, <1>9, <1>10, <1>11
     DEF Next, Step, CoreStep, RxStep

\* What a step does to the references of one buffer.
LEMMA PbufNext == Account /\ [Next]_vars => PbufReferences'
<1> SUFFICES ASSUME Account, [Next]_vars, NEW p \in Pbufs
             PROVE  ref'[p] = (IF stack'[p] = "none" THEN 0 ELSE IF stack'[p] = "push" THEN 2 ELSE 1)
                              + CountIn("tx", p)' + InHand("tx", p)'
                              + (IF corePc' = "transfer" /\ owned' /\ msg'.arg = p THEN 1 ELSE 0)
  BY DEF PbufReferences
<1> DEFINE lwip == IF stack[p] = "none" THEN 0 ELSE IF stack[p] = "push" THEN 2 ELSE 1
           queued == CountIn("tx", p)
           hand == InHand("tx", p)
           keeps == IF corePc = "transfer" /\ owned /\ msg.arg = p THEN 1 ELSE 0
           Goal == ref'[p] = lwip' + queued' + hand' + keeps'
<1>t. TypeOK /\ TransferTx /\ ref[p] = lwip + queued + hand + keeps
  BY DEF Account, PbufReferences
<1>n. /\ ref[p] \in Nat /\ lwip \in Nat /\ queued \in Nat /\ hand \in Nat /\ keeps \in Nat
      /\ stack \in [Pbufs -> {"none", "push", "sent"}] /\ ref \in [Pbufs -> Nat]
  BY <1>t, CountsType DEF TypeOK, InHand
<1> SUFFICES Goal
  OBVIOUS
<1>h. UNCHANGED <<corePc, msg>> => hand' = hand
  BY DEF InHand
<1>k. UNCHANGED <<corePc, msg, owned>> => keeps' = keeps
  OBVIOUS
<1>q. UNCHANGED ioQueue => queued' = queued
  BY SameCounts
<1>l. stack'[p] = stack[p] => lwip' = lwip
  OBVIOUS
<1>s. /\ stack[p] = "none" => lwip = 0
      /\ stack[p] = "push" => lwip = 2
      /\ stack[p] = "sent" => lwip = 1
      /\ stack'[p] = "none" => lwip' = 0
      /\ stack'[p] = "push" => lwip' = 2
      /\ stack'[p] = "sent" => lwip' = 1
  OBVIOUS
<1>m. /\ hand = IF corePc = "handle" /\ msg = [type |-> "tx", arg |-> p] THEN 1 ELSE 0
      /\ hand' = IF corePc' = "handle" /\ msg' = [type |-> "tx", arg |-> p] THEN 1 ELSE 0
      /\ keeps = IF corePc = "transfer" /\ owned /\ msg.arg = p THEN 1 ELSE 0
      /\ keeps' = IF corePc' = "transfer" /\ owned' /\ msg'.arg = p THEN 1 ELSE 0
  BY DEF InHand
<1> HIDE DEF queued, hand, keeps, lwip
<1>p. ASSUME NEW t, NEW a, [type |-> t, arg |-> a] \in Msgs, Push(t, a)
      PROVE  queued' = queued + (IF t = "tx" /\ a = p THEN 1 ELSE 0)
  BY <1>p, <1>t, PushCounts DEF queued
<1>x. msg.type = "tx" => msg.arg \in Pbufs /\ msg = [type |-> "tx", arg |-> msg.arg]
  BY <1>t, MsgShape DEF TypeOK
<1>1. CASE CorePop
  <2>1. queued = queued' + (IF msg' = [type |-> "tx", arg |-> p] THEN 1 ELSE 0)
    BY <1>1, <1>t, PopCounts DEF queued
  <2>2. queued' \in Nat
    <3>1. Count(ioQueue', [type |-> "tx", arg |-> p]) \in Nat
      BY <1>1, <1>t, PopCounts, CountType
    <3> QED
      BY <3>1 DEF queued, CountIn, Count, Places
  <2>3. /\ hand = 0 /\ hand' = IF msg' = [type |-> "tx", arg |-> p] THEN 1 ELSE 0
        /\ keeps = 0 /\ keeps' = 0
    BY <1>1, <1>m DEF CorePop
  <2>4. UNCHANGED <<ref, stack>>
    BY <1>1 DEF CorePop, pbuf
  <2> QED
    BY <1>t, <1>n, <1>l, <2>1, <2>2, <2>3, <2>4
<1>2. CASE HandleTxSingle
  <2>1. keeps' = hand /\ keeps = 0
    BY <1>2, <1>m, <1>x DEF HandleTxSingle
  <2>2. hand' = 0
    BY <1>2, <1>m DEF HandleTxSingle
  <2>3. ref'[p] = ref[p] /\ lwip' = lwip /\ queued' = queued
    BY <1>2, <1>q, <1>l DEF HandleTxSingle, pbuf
  <2> QED
    BY <1>t, <1>n, <2>1, <2>2, <2>3
<1>3. CASE HandleTxChain \/ HandleTxNoMem
  <2>1. hand' = 0 /\ keeps' = 0 /\ keeps = 0 /\ UNCHANGED <<ioQueue, stack>>
    BY <1>3, <1>m DEF HandleTxChain, HandleTxNoMem
  <2>2. ref' = [ref EXCEPT ![msg.arg] = @ - 1] /\ corePc = "handle" /\ msg.type = "tx"
    BY <1>3 DEF HandleTxChain, HandleTxNoMem
  <2>3. CASE msg.arg = p
    <3>1. hand = 1 /\ ref'[p] = ref[p] - 1
      BY <1>n, <1>m, <1>x, <2>2, <2>3
    <3> QED
      BY <1>t, <1>n, <1>q, <1>l, <2>1, <3>1
  <2>4. CASE msg.arg # p
    <3>1. hand = 0 /\ ref'[p] = ref[p]
      BY <1>n, <1>m, <1>x, <2>2, <2>4
    <3> QED
      BY <1>t, <1>n, <1>q, <1>l, <2>1, <3>1
  <2> QED
    BY <2>3, <2>4
<1>4. CASE Transfer
  <2>1. hand = 0 /\ hand' = 0 /\ keeps' = 0 /\ UNCHANGED <<ioQueue, stack>>
    BY <1>4, <1>m DEF Transfer
  <2>2. ref'[p] = ref[p] - keeps
    BY <1>4, <1>n, <1>m DEF Transfer
  <2> QED
    BY <1>t, <1>n, <1>q, <1>l, <2>1, <2>2
<1>5. CASE HandlePs \/ HandleRx \/ HandleOther \/ Schedule \/ PsDeferred
  <2>1. corePc' \notin {"handle", "transfer"} /\ UNCHANGED <<ioQueue, stack, ref>>
    BY <1>5 DEF HandlePs, HandleRx, HandleOther, Schedule, PsDeferred, pbuf
  <2>2. corePc # "transfer" /\ (corePc # "handle" \/ msg.type # "tx")
    BY <1>5 DEF HandlePs, HandleRx, HandleOther, Schedule, PsDeferred
  <2>3. hand = 0 /\ hand' = 0 /\ keeps = 0 /\ keeps' = 0
    BY <1>m, <2>1, <2>2
  <2> QED
    BY <1>t, <1>n, <1>q, <1>l, <2>1, <2>3
<1>6. ASSUME NEW o \in Pbufs, TxRef(o) PROVE Goal
  <2>1. UNCHANGED <<ioQueue, corePc, msg, owned>>
    BY <1>6 DEF TxRef, core
  <2> QED
    BY <1>6, <1>t, <1>n, <1>q, <1>h, <1>k, <1>l, <1>s, <2>1 DEF TxRef
<1>7. ASSUME NEW o \in Pbufs, TxPush(o) PROVE Goal
  <2>1. UNCHANGED <<corePc, msg, owned, ref>>
    BY <1>7 DEF TxPush, core
  <2>2. queued' = queued + (IF o = p THEN 1 ELSE 0)
    BY <1>7, <1>p, MsgKinds DEF TxPush
  <2>3. lwip = lwip' + (IF o = p THEN 1 ELSE 0) /\ lwip' \in Nat
    BY <1>7, <1>n, <1>l, <1>s DEF TxPush
  <2> QED
    BY <1>t, <1>n, <1>h, <1>k, <2>1, <2>2, <2>3
<1>8. ASSUME NEW o \in Pbufs, TxPushTimeout(o) \/ StackFree(o) PROVE Goal
  <2>1. UNCHANGED <<ioQueue, corePc, msg, owned>>
    BY <1>8 DEF TxPushTimeout, StackFree, core
  <2>2. ref'[p] = ref[p] - (IF o = p THEN 1 ELSE 0)
    BY <1>8, <1>n DEF TxPushTimeout, StackFree
  <2>3. lwip = lwip' + (IF o = p THEN 1 ELSE 0) /\ lwip' \in Nat
    BY <1>8, <1>n, <1>l, <1>s DEF TxPushTimeout, StackFree
  <2> QED
    BY <1>t, <1>n, <1>q, <1>h, <1>k, <2>1, <2>2, <2>3
<1>9. ASSUME UNCHANGED <<stack, ref, corePc, msg, owned>>, queued' = queued PROVE Goal
  BY <1>9, <1>t, <1>h, <1>k, <1>l
<1>10. CASE RxCount \/ RxPush \/ RxPushFull
  BY <1>9, <1>10, <1>n, <1>q, <1>p, MsgKinds DEF RxCount, RxPush, RxPushFull, pbuf, core
<1>11. ASSUME NEW a \in PsArgs, PsSend(a) PROVE Goal
  <2>1. queued' = queued
    <3>1. CASE Full
      BY <1>11, <1>q, <3>1 DEF PsSend
    <3>2. CASE Push("sta_ps", a)
      <4>1. [type |-> "sta_ps", arg |-> a] \in Msgs
        BY <1>11, MsgKinds
      <4>2. queued' = queued + (IF "sta_ps" = "tx" /\ a = p THEN 1 ELSE 0)
        BY <1>p, <3>2, <4>1
      <4> QED
        BY <1>n, <4>2
    <3> QED
      BY <1>11, <3>1, <3>2 DEF PsSend
  <2> QED
    BY <1>9, <1>11, <2>1 DEF PsSend, pbuf, core
<1>12. ASSUME NEW t \in {"ioctl", "media"}, OtherSend(t) PROVE Goal
  BY <1>9, <1>12, <1>n, <1>p, MsgKinds DEF OtherSend, pbuf, core
<1>13. CASE NullSend
  BY <1>9, <1>13, <1>n, <1>q, <1>p, MsgKinds DEF NullSend, pbuf, core
<1>14. CASE UNCHANGED vars
  BY <1>9, <1>14, <1>q DEF vars, pbuf, core
<1> QED
  BY <1>1, <1>2, <1>3, <1>4, <1>5, <1>6, <1>7, <1>8, <1>10, <1>11, <1>12, <1>13, <1>14
     DEF Next, Step, CoreStep, RxStep, TxStep

LEMMA TransferNext == Account /\ [Next]_vars => TransferTx'
<1> SUFFICES ASSUME TransferTx, [Next]_vars PROVE TransferTx'
  BY DEF Account
<1> USE DEF TransferTx, core
<1>1. CASE CoreStep
  BY <1>1 DEF CoreStep, CorePop, HandlePs, HandleRx, HandleTxSingle, HandleTxChain, HandleTxNoMem,
              Transfer, HandleOther, Schedule, PsDeferred
<1>2. CASE UNCHANGED <<corePc, msg>>
  BY <1>2
<1> QED
  BY <1>1, <1>2 DEF Next, Step, RxCount, RxStep, RxPush, RxPushFull, TxRef, TxStep, TxPush,
                    TxPushTimeout, StackFree, PsSend, OtherSend, NullSend, vars

LEMMA AccountNext == Account /\ [Next]_vars => Account'
BY TypeNext, RxNext, PbufNext, TransferNext DEF Account

LEMMA AccountInvariant == Spec => []Account
BY AccountInit, AccountNext, PTL DEF Spec

\* The bus keeps to its types and the queue to its capacity, and no
\* reference count goes below zero.
THEOREM TypeCorrect == Spec => []TypeOK
BY AccountInvariant, PTL DEF Account

\* bmsg_rx_count is exact, but for the messages that found the queue full.
THEOREM RxCounted == Spec => []RxAccounting
BY AccountInvariant, PTL DEF Account

\* Every reference of a packet buffer has one owner: lwIP, the sender, the
\* queue or bmsg_tx_handler.
THEOREM PbufsCounted == Spec => []PbufReferences
BY AccountInvariant, PTL DEF Account

-----------------------------------------------------------------------------
(* Power-save commands                                                      *)

\* A message that asks for feature f.
Asks(m, f) == m.type = "sta_ps" /\ PsFeature(m.arg) = f

\* core_thread_main holds a command of f it has yet to apply.
Deferred(f) ==
    /\ Asks(msg, f)
    /\ corePc = "handle" \/ (corePc \in {"sched", "ps"} /\ msg.arg # "rf_off")

\* The last command of f in the queue is the last one asked for.
LastAsked(f) ==
    \A i \in 1 .. Len(ioQueue) :
        Asks(ioQueue[i], f) /\ (\A j \in 1 .. Len(ioQueue) : j > i => ~Asks(ioQueue[j], f))
            => ioQueue[i].arg = psAsked[f]

NoneQueued(f) == \A i \in 1 .. Len(ioQueue) : ~Asks(ioQueue[i], f)

\* A feature gets what was asked of it last from the queue, from the command in
\* hand, or has it.
PsOrder ==
    \A f \in PsFeatures :
        /\ LastAsked(f)
        /\ NoneQueued(f) => IF Deferred(f) THEN msg.arg = psAsked[f] ELSE psDone[f] = psAsked[f]

LEMMA PsOrderInit == Init => PsOrder
BY DEF Init, PsOrder, LastAsked, NoneQueued, Deferred, Asks, NoMsg

LEMMA PsOrderNext == Account /\ PsOrder /\ [Next]_vars => PsOrder'
<1> SUFFICES ASSUME Account, PsOrder, [Next]_vars, NEW f \in PsFeatures
             PROVE  /\ LastAsked(f)'
                    /\ NoneQueued(f)' => IF Deferred(f)' THEN msg'.arg = psAsked'[f]
                                                        ELSE psDone'[f] = psAsked'[f]
  BY DEF PsOrder
<1> DEFINE Goal == /\ LastAsked(f)'
                   /\ NoneQueued(f)' => IF Deferred(f)' THEN msg'.arg = psAsked'[f]
                                                       ELSE psDone'[f] = psAsked'[f]
<1>t. /\ TypeOK /\ LastAsked(f)
      /\ NoneQueued(f) => IF Deferred(f) THEN msg.arg = psAsked[f] ELSE psDone[f] = psAsked[f]
  BY DEF Account, PsOrder
<1>y. /\ ioQueue \in Seq(Msgs) /\ msg \in Msgs /\ Len(ioQueue) \in Nat
      /\ psAsked \in [PsFeatures -> PsArgs \cup {"none"}]
      /\ psDone \in [PsFeatures -> PsArgs \cup {"none"}]
  BY <1>t DEF TypeOK
<1>q. UNCHANGED ioQueue => (NoneQueued(f)' <=> NoneQueued(f))
  BY DEF NoneQueued
<1>l. UNCHANGED <<ioQueue, psAsked>> => LastAsked(f)'
  BY <1>t DEF LastAsked
<1>d. UNCHANGED <<corePc, msg>> => (Deferred(f)' <=> Deferred(f))
  BY DEF Deferred
<1> SUFFICES Goal
  OBVIOUS
\* Pushing a message that asks nothing of f changes nothing for f.
<1>p. ASSUME NEW m \in Msgs, ~Asks(m, f), ioQueue' = Append(ioQueue, m), psAsked'[f] = psAsked[f]
      PROVE  LastAsked(f)' /\ (NoneQueued(f)' <=> NoneQueued(f))
  <2>1. /\ Len(ioQueue') = Len(ioQueue) + 1
        /\ \A i \in 1 .. Len(ioQueue) : ioQueue'[i] = ioQueue[i]
        /\ ioQueue'[Len(ioQueue) + 1] = m
    BY <1>p, <1>y, AppendProperties
  <2>2. \A i \in 1 .. Len(ioQueue') : Asks(ioQueue'[i], f)
            => i \in 1 .. Len(ioQueue) /\ ioQueue'[i] = ioQueue[i]
    BY <1>p, <1>y, <2>1
  <2>3. NoneQueued(f)' <=> NoneQueued(f)
    BY <1>y, <2>1, <2>2 DEF NoneQueued
  <2>4. LastAsked(f)'
    BY <1>p, <1>t, <1>y, <2>1, <2>2 DEF LastAsked
  <2> QED
    BY <2>3, <2>4
<1>1. CASE CorePop
  <2>1. /\ ioQueue # <<>> /\ ioQueue' = Tail(ioQueue) /\ msg' = ioQueue[1]
        /\ corePc = "pop" /\ corePc' = "handle" /\ UNCHANGED <<psAsked, psDone>>
    BY <1>1, <1>y DEF CorePop, ps
  <2>2. /\ Len(ioQueue) >= 1 /\ Len(ioQueue') = Len(ioQueue) - 1
        /\ \A i \in 1 .. Len(ioQueue') : ioQueue'[i] = ioQueue[i + 1]
    BY <1>y, <2>1, HeadTailProperties
  <2>3. LastAsked(f)'
    <3> SUFFICES ASSUME NEW i \in 1 .. Len(ioQueue'), Asks(ioQueue'[i], f),
                        \A j \in 1 .. Len(ioQueue') : j > i => ~Asks(ioQueue'[j], f)
                 PROVE  ioQueue'[i].arg = psAsked'[f]
      BY DEF LastAsked
    <3>1. i + 1 \in 1 .. Len(ioQueue) /\ ioQueue[i + 1] = ioQueue'[i]
      BY <1>y, <2>2
    <3>2. ASSUME NEW j \in 1 .. Len(ioQueue), j > i + 1 PROVE ~Asks(ioQueue[j], f)
      <4>1. j - 1 \in 1 .. Len(ioQueue') /\ j - 1 > i /\ ioQueue'[j - 1] = ioQueue[j]
        BY <1>y, <2>2, <3>2
      <4> QED
        BY <4>1
    <3> QED
      BY <1>t, <2>1, <3>1, <3>2 DEF LastAsked
  <2>4. ASSUME NoneQueued(f)'
        PROVE  IF Deferred(f)' THEN msg'.arg = psAsked'[f] ELSE psDone'[f] = psAsked'[f]
    <3>1. ASSUME NEW j \in 1 .. Len(ioQueue), j > 1 PROVE ~Asks(ioQueue[j], f)
      <4>1. j - 1 \in 1 .. Len(ioQueue') /\ ioQueue'[j - 1] = ioQueue[j]
        BY <1>y, <2>2, <3>1
      <4> QED
        BY <2>4, <4>1 DEF NoneQueued
    <3>2. CASE Asks(ioQueue[1], f)
      <4>1. Deferred(f)'
        BY <2>1, <3>2 DEF Deferred
      <4>2. 1 \in 1 .. Len(ioQueue)
        BY <1>y, <2>2
      <4>3. ioQueue[1].arg = psAsked[f]
        BY <1>t, <3>1, <3>2, <4>2 DEF LastAsked
      <4> QED
        BY <2>1, <4>1, <4>3
    <3>3. CASE ~Asks(ioQueue[1], f)
      <4>1. NoneQueued(f)
        BY <1>y, <3>1, <3>3 DEF NoneQueued
      <4>2. ~Deferred(f) /\ ~Deferred(f)'
        BY <2>1, <3>3 DEF Deferred
      <4> QED
        BY <1>t, <2>1, <4>1, <4>2
    <3> QED
      BY <3>2, <3>3
  <2> QED
    BY <2>3, <2>4
<1>2. CASE HandlePs
  <2>1. /\ UNCHANGED <<ioQueue, psAsked, msg>>
        /\ corePc = "handle" /\ corePc' = "sched" /\ msg.type = "sta_ps" /\ msg.arg \in PsArgs
        /\ psDone' = IF msg.arg = "rf_off" THEN [psDone EXCEPT !["rf"] = "rf_off"] ELSE psDone
    BY <1>2, <1>y, MsgShape DEF HandlePs, PsApply, PsFeature
  <2>2. CASE Asks(msg, f)
    BY <1>t, <1>y, <1>l, <1>q, <2>1, <2>2 DEF Deferred, Asks, PsFeature
  <2>3. CASE ~Asks(msg, f)
    BY <1>t, <1>y, <1>l, <1>q, <2>1, <2>3 DEF Deferred, Asks, PsFeature
  <2> QED
    BY <2>2, <2>3
<1>3. CASE PsDeferred
  <2>1. /\ UNCHANGED <<ioQueue, psAsked>> /\ corePc = "ps" /\ corePc' = "pop"
        /\ psDone' = IF msg.type = "sta_ps" /\ msg.arg # "rf_off"
                     THEN [psDone EXCEPT ![PsFeature(msg.arg)] = msg.arg] ELSE psDone
    BY <1>3 DEF PsDeferred, PsApply
  <2>2. ~Deferred(f)'
    BY <2>1 DEF Deferred
  <2>3. psDone'[f] = IF Deferred(f) THEN msg.arg ELSE psDone[f]
    BY <1>y, <2>1 DEF Deferred, Asks
  <2> QED
    BY <1>t, <1>l, <1>q, <2>1, <2>2, <2>3
<1>4. CASE HandleRx \/ HandleTxSingle \/ HandleTxChain \/ HandleTxNoMem \/ Transfer \/ HandleOther
  <2>1. UNCHANGED <<ioQueue, psAsked, psDone, msg>>
    BY <1>4 DEF HandleRx, HandleTxSingle, HandleTxChain, HandleTxNoMem, Transfer, HandleOther, ps
  <2>2. msg.type # "sta_ps"
    BY <1>4 DEF HandleRx, HandleTxSingle, HandleTxChain, HandleTxNoMem, Transfer, HandleOther,
                Account, TransferTx
  <2>3. ~Deferred(f) /\ ~Deferred(f)'
    BY <2>1, <2>2 DEF Deferred, Asks
  <2> QED
    BY <1>t, <1>l, <1>q, <2>1, <2>3
<1>5. CASE Schedule
  <2>1. UNCHANGED <<ioQueue, psAsked, psDone, msg>>
    BY <1>5 DEF Schedule, ps
  <2>2. Deferred(f)' <=> Deferred(f)
    BY <1>5, <2>1 DEF Schedule, Deferred
  <2> QED
    BY <1>t, <1>l, <1>q, <2>1, <2>2
<1>6. ASSUME UNCHANGED <<corePc, msg, psDone>>, psAsked'[f] = psAsked[f],
             LastAsked(f)', NoneQueued(f)' <=> NoneQueued(f)
      PROVE  Goal
  BY <1>6, <1>t, <1>d
<1>7. ASSUME NEW t, NEW a, [type |-> t, arg |-> a] \in Msgs, t # "sta_ps", Push(t, a),
             UNCHANGED <<corePc, msg, psDone, psAsked>>
      PROVE  Goal
  <2> DEFINE m == [type |-> t, arg |-> a]
  <2>1. ioQueue' = Append(ioQueue, m) /\ ~Asks(m, f) /\ m \in Msgs
    BY <1>7 DEF Push, Asks
  <2> HIDE DEF m
  <2> QED
    BY <1>6, <1>7, <1>p, <2>1
<1>8. CASE RxCount \/ RxPushFull
  BY <1>8, <1>6, <1>q, <1>l DEF RxCount, RxPushFull, core, ps
<1>9. CASE RxPush
  BY <1>9, <1>7, MsgKinds DEF RxPush, core, ps
<1>10. ASSUME NEW p \in Pbufs, TxRef(p) \/ TxPushTimeout(p) \/ StackFree(p) PROVE Goal
  BY <1>10, <1>6, <1>q, <1>l DEF TxRef, TxPushTimeout, StackFree, core, ps
<1>11. ASSUME NEW p \in Pbufs, TxPush(p) PROVE Goal
  BY <1>11, <1>7, MsgKinds DEF TxPush, core, ps
<1>12. ASSUME NEW a \in PsArgs, PsSend(a) PROVE Goal
  <2> DEFINE m == [type |-> "sta_ps", arg |-> a]
  <2>1. UNCHANGED <<corePc, msg, psDone>>
    BY <1>12 DEF PsSend, core
  <2>2. CASE Full
    BY <1>12, <1>6, <1>q, <1>l, <2>1, <2>2 DEF PsSend
  <2>3. CASE ~Full
    <3>1. /\ ioQueue' = Append(ioQueue, m) /\ m \in Msgs
          /\ psAsked' = [psAsked EXCEPT ![PsFeature(a)] = a]
      BY <1>12, <2>3, MsgKinds DEF PsSend, Push
    <3>2. CASE PsFeature(a) # f
      <4>1. ~Asks(m, f) /\ psAsked'[f] = psAsked[f]
        BY <1>y, <3>1, <3>2 DEF Asks
      <4> HIDE DEF m
      <4> QED
        BY <1>6, <1>p, <2>1, <3>1, <4>1
    <3>3. CASE PsFeature(a) = f
      <4>1. Asks(m, f) /\ m.arg = a /\ psAsked'[f] = a
        BY <1>y, <3>1, <3>3 DEF Asks
      <4> HIDE DEF m
      <4>2. /\ Len(ioQueue') = Len(ioQueue) + 1
            /\ ioQueue'[Len(ioQueue) + 1] = m
        BY <1>y, <3>1, AppendProperties
      <4>3. ~NoneQueued(f)'
        BY <1>y, <4>1, <4>2 DEF NoneQueued
      <4>4. LastAsked(f)'
        BY <1>y, <4>1, <4>2 DEF LastAsked
      <4> QED
        BY <4>3, <4>4
    <3> QED
      BY <3>2, <3>3
  <2> QED
    BY <2>2, <2>3
<1>13. ASSUME NEW t \in {"ioctl", "media"}, OtherSend(t) PROVE Goal
  BY <1>13, <1>7, MsgKinds DEF OtherSend, core, ps
<1>14. CASE NullSend
  <2>1. UNCHANGED <<corePc, msg, psDone, psAsked>>
    BY <1>14 DEF NullSend, core, ps
  <2>2. CASE UNCHANGED ioQueue
    BY <1>6, <1>q, <1>l, <2>1, <2>2
  <2>3. CASE Push("null", "none")
    BY <1>7, <2>1, <2>3, MsgKinds
  <2> QED
    BY <1>14, <2>2, <2>3 DEF NullSend
<1>15. CASE UNCHANGED vars
  BY <1>15, <1>6, <1>q, <1>l DEF vars, core, ps
<1> QED
  BY <1>1, <1>2, <1>3, <1>4, <1>5, <1>8, <1>9, <1>10, <1>11, <1>12, <1>13, <1>14, <1>15
     DEF Next, Step, CoreStep, RxStep, TxStep

\* Whenever the core thread blocks on an empty queue, each power-save feature
\* is in the state last asked for, although RF_DISANABLE overtakes the
\* scheduler and the other commands wait for it.
THEOREM PsInOrder == Spec => []LastPsCommandWins
<1>1. Account /\ PsOrder => LastPsCommandWins
  <2> SUFFICES ASSUME Account, PsOrder, corePc = "pop", ioQueue = <<>> PROVE psDone = psAsked
    BY DEF LastPsCommandWins
  <2>1. psDone \in [PsFeatures -> PsArgs \cup {"none"}] /\ psAsked \in [PsFeatures -> PsArgs \cup {"none"}]
    BY DEF Account, TypeOK
  <2>2. \A f \in PsFeatures : NoneQueued(f) /\ ~Deferred(f)
    BY DEF NoneQueued, Deferred
  <2>3. \A f \in PsFeatures : psDone[f] = psAsked[f]
    BY <2>2 DEF PsOrder
  <2> QED
    BY <2>1, <2>3
<1> QED
  BY <1>1, AccountInvariant, PsOrderInit, PsOrderNext, PTL DEF Spec

-----------------------------------------------------------------------------
(* Kernel events                                                            *)

\* Unless something sends BMSG_MEDIA, a pending kernel event has a message
\* ahead of it, or in hand, after which the scheduler runs.
EventCovered ==
    ~mp3Player =>
        /\ ~keSkip
        /\ \A i \in 1 .. Len(ioQueue) : ioQueue[i].type # "media"
        /\ msg.type # "media"
        /\ keEvent => ioQueue # <<>> \/ corePc \in {"handle", "transfer", "sched"}

LEMMA EventInit == Init => EventCovered
BY DEF Init, EventCovered, NoMsg

LEMMA EventNext == Account /\ EventCovered /\ [Next]_vars => EventCovered'
<1> SUFFICES ASSUME Account, EventCovered, [Next]_vars, ~mp3Player PROVE EventCovered'
  BY DEF EventCovered, Next, vars
<1> USE DEF EventCovered
<1>y. ioQueue \in Seq(Msgs) /\ Len(ioQueue) \in Nat
  BY DEF Account, TypeOK
<1>p. ASSUME NEW t, NEW a, [type |-> t, arg |-> a] \in Msgs, t # "media", Push(t, a)
      PROVE  ioQueue' # <<>> /\ \A i \in 1 .. Len(ioQueue') : ioQueue'[i].type # "media"
  <2> DEFINE m == [type |-> t, arg |-> a]
  <2>1. m.type = t /\ m \in Msgs /\ ioQueue' = Append(ioQueue, m)
    BY <1>p DEF Push
  <2> HIDE DEF m
  <2>2. /\ Len(ioQueue') = Len(ioQueue) + 1
        /\ \A i \in 1 .. Len(ioQueue) : ioQueue'[i] = ioQueue[i]
        /\ ioQueue'[Len(ioQueue) + 1] = m
    BY <1>y, <2>1, AppendProperties
  <2> QED
    BY <1>p, <1>y, <2>1, <2>2
<1>1. CASE CorePop
  <2>1. /\ Len(ioQueue') = Len(ioQueue) - 1 /\ Len(ioQueue) >= 1
        /\ \A i \in 1 .. Len(ioQueue') : ioQueue'[i] = ioQueue[i + 1]
        /\ msg' = ioQueue[1]
    BY <1>1, <1>y, HeadTailProperties DEF CorePop
  <2>2. \A i \in 1 .. Len(ioQueue') : ioQueue'[i].type # "media"
    BY <1>y, <2>1
  <2>3. msg'.type # "media"
    BY <1>y, <2>1
  <2> QED
    BY <1>1, <2>2, <2>3 DEF CorePop
<1>2. CASE \/ HandlePs \/ HandleRx \/ HandleTxSingle \/ HandleTxChain \/ HandleTxNoMem
           \/ Transfer \/ HandleOther
  BY <1>2 DEF HandlePs, HandleRx, HandleTxSingle, HandleTxChain, HandleTxNoMem, Transfer, HandleOther
<1>3. CASE Schedule
  BY <1>3 DEF Schedule
<1>4. CASE PsDeferred
  <2>1. msg'.type = "null" /\ UNCHANGED <<ioQueue, keSkip, keEvent>> /\ corePc = "ps"
    BY <1>4 DEF PsDeferred, NoMsg
  <2> QED
    BY <2>1
<1>5. CASE RxCount \/ RxPushFull
  BY <1>5 DEF RxCount, RxPushFull, core
<1>6. CASE RxPush
  BY <1>6, <1>p, MsgKinds DEF RxPush, core
<1>7. ASSUME NEW p \in Pbufs, TxRef(p) \/ TxPushTimeout(p) \/ StackFree(p) PROVE EventCovered'
  BY <1>7 DEF TxRef, TxPushTimeout, StackFree, core
<1>8. ASSUME NEW p \in Pbufs, TxPush(p) PROVE EventCovered'
  BY <1>8, <1>p, MsgKinds DEF TxPush, core
<1>9. ASSUME NEW a \in PsArgs, PsSend(a) PROVE EventCovered'
  <2>1. CASE Full
    BY <1>9, <2>1 DEF PsSend, core
  <2>2. CASE Push("sta_ps", a)
    BY <1>9, <1>p, <2>2, MsgKinds DEF PsSend, core
  <2> QED
    BY <1>9, <2>1, <2>2 DEF PsSend
<1>10. ASSUME NEW t \in {"ioctl", "media"}, OtherSend(t) PROVE EventCovered'
  <2>1. t = "ioctl" /\ Push("ioctl", "none")
    BY <1>10 DEF OtherSend
  <2>2. UNCHANGED <<msg, corePc, keSkip, keEvent>>
    BY <1>10 DEF OtherSend, core
  <2> QED
    BY <1>p, <2>1, <2>2, MsgKinds
<1>11. CASE NullSend
  <2>1. CASE Push("null", "none")
    BY <1>11, <1>p, <2>1, MsgKinds DEF NullSend, core
  <2>2. CASE UNCHANGED ioQueue /\ ioQueue # <<>>
    BY <1>11, <2>2 DEF NullSend, core
  <2> QED
    BY <1>11, <2>1, <2>2 DEF NullSend
<1>12. CASE UNCHANGED vars
  BY <1>12 DEF vars, core
<1> QED
  BY <1>1, <1>2, <1>3, <1>4, <1>5, <1>6, <1>7, <1>8, <1>9, <1>10, <1>11, <1>12
     DEF Next, Step, CoreStep, RxStep, TxStep

\* bmsg_null_sender may rely on the messages already queued: in a build without
\* the MP3 player the core thread never blocks with a kernel event pending.
THEOREM EventNotStranded == Spec => []NoStrandedEvent
<1>1. EventCovered => NoStrandedEvent
  BY DEF EventCovered, NoStrandedEvent
<1> QED
  BY <1>1, AccountInvariant, EventInit, EventNext, PTL DEF Spec
=============================================================================
