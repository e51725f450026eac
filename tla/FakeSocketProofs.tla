-------------------------- MODULE FakeSocketProofs --------------------------
(***************************************************************************)
(* With CFG_NEW_SUPP, for any number of frames, sockets opened and failed    *)
(* allocations and any length of wpah_queue: the assertion on the payload    *)
(* holds, no element is used after it was freed, every frame for the         *)
(* supplicant has a token, and frames keep their order in both directions.   *)
(***************************************************************************)
EXTENDS FakeSocket, SequenceTheorems, TLAPS

-----------------------------------------------------------------------------
(* Frames that have passed a queue and frames that are in it                *)

\* Numbers grow along what has passed and then along the queue, up to bound.
Ordered(past, q, bound) ==
    /\ Increasing(past) /\ Increasing(q)
    /\ \A i \in DOMAIN past : past[i] \in 1 .. bound
    /\ \A i \in DOMAIN q : q[i] \in 1 .. bound
    /\ \A i \in DOMAIN past, j \in DOMAIN q : past[i] < q[j]

LEMMA OrderedGrows ==
    ASSUME NEW past, NEW q, NEW b \in Nat, NEW c \in Nat, b <= c, Ordered(past, q, b)
    PROVE  Ordered(past, q, c)
BY DEF Ordered

LEMMA OrderedEmpty ==
    ASSUME NEW past, NEW q, NEW b, Ordered(past, q, b)
    PROVE  Ordered(past, <<>>, b)
BY DEF Ordered, Increasing

LEMMA OrderedPush ==
    ASSUME NEW past \in Seq(Nat), NEW q \in Seq(Nat), NEW b \in Nat, Ordered(past, q, b)
    PROVE  Ordered(past, Append(q, b + 1), b + 1)
<1> DEFINE a == Append(q, b + 1)
<1>1. /\ Len(q) \in Nat /\ DOMAIN q = 1 .. Len(q) /\ DOMAIN a = 1 .. Len(q) + 1
      /\ \A i \in 1 .. Len(q) : a[i] = q[i]
      /\ a[Len(q) + 1] = b + 1
  BY AppendProperties
<1> HIDE DEF a
<1>2. \A i \in DOMAIN a : (i \in DOMAIN q /\ a[i] = q[i]) \/ (i = Len(q) + 1 /\ a[i] = b + 1)
  BY <1>1
<1>3. \A i \in DOMAIN a : a[i] \in 1 .. b + 1
  BY <1>2 DEF Ordered
<1>4. Increasing(a)
  <2> SUFFICES ASSUME NEW i \in DOMAIN a, NEW j \in DOMAIN a, i < j PROVE a[i] < a[j]
    BY DEF Increasing
  <2>1. i \in DOMAIN q /\ a[i] = q[i] /\ q[i] \in 1 .. b
    BY <1>1, <1>2 DEF Ordered
  <2>2. CASE j \in DOMAIN q /\ a[j] = q[j]
    BY <2>1, <2>2 DEF Ordered, Increasing
  <2>3. CASE a[j] = b + 1
    BY <2>1, <2>3
  <2> QED
    BY <1>2, <2>2, <2>3
<1>5. \A i \in DOMAIN past, j \in DOMAIN a : past[i] < a[j]
  <2> SUFFICES ASSUME NEW i \in DOMAIN past, NEW j \in DOMAIN a PROVE past[i] < a[j]
    OBVIOUS
  <2>1. past[i] \in 1 .. b
    BY DEF Ordered
  <2>2. CASE j \in DOMAIN q /\ a[j] = q[j]
    BY <2>2 DEF Ordered
  <2>3. CASE a[j] = b + 1
    BY <2>1, <2>3
  <2> QED
    BY <1>2, <2>2, <2>3
<1>6. \A i \in DOMAIN past : past[i] \in 1 .. b + 1
  BY DEF Ordered
<1> QED
  BY <1>3, <1>4, <1>5, <1>6 DEF Ordered, a

\* The head leaves the queue: it is dropped, or it passes.
LEMMA OrderedPop ==
    ASSUME NEW past \in Seq(Nat), NEW q \in Seq(Nat), NEW b \in Nat, q # <<>>, Ordered(past, q, b)
    PROVE  /\ Ordered(past, Tail(q), b)
           /\ Ordered(Append(past, Head(q)), Tail(q), b)
<1> DEFINE t == Tail(q)
           a == Append(past, Head(q))
<1>1. /\ Len(q) \in Nat /\ Len(q) > 0 /\ DOMAIN q = 1 .. Len(q) /\ DOMAIN t = 1 .. Len(q) - 1
      /\ \A i \in 1 .. Len(q) - 1 : t[i] = q[i + 1]
      /\ Head(q) = q[1] /\ Head(q) \in Nat
  BY HeadTailProperties
<1>2. /\ Len(past) \in Nat /\ DOMAIN past = 1 .. Len(past) /\ DOMAIN a = 1 .. Len(past) + 1
      /\ \A i \in 1 .. Len(past) : a[i] = past[i]
      /\ a[Len(past) + 1] = Head(q)
  BY <1>1, AppendProperties
<1> HIDE DEF t, a
<1>3. \A i \in DOMAIN t : i + 1 \in DOMAIN q /\ t[i] = q[i + 1]
  BY <1>1
<1>4. \A i \in DOMAIN t : t[i] \in 1 .. b
  BY <1>3 DEF Ordered
<1>5. Increasing(t)
  <2> SUFFICES ASSUME NEW i \in DOMAIN t, NEW j \in DOMAIN t, i < j PROVE t[i] < t[j]
    BY DEF Increasing
  <2>1. i + 1 \in DOMAIN q /\ j + 1 \in DOMAIN q /\ i + 1 < j + 1
    BY <1>1, <1>3
  <2>2. q[i + 1] < q[j + 1]
    BY <2>1 DEF Ordered, Increasing
  <2> QED
    BY <1>3, <2>2
<1>6. \A i \in DOMAIN past, j \in DOMAIN t : past[i] < t[j]
  BY <1>3 DEF Ordered
<1>7. Ordered(past, t, b)
  BY <1>4, <1>5, <1>6 DEF Ordered
<1>8. 1 \in DOMAIN q /\ Head(q) = q[1] /\ Head(q) \in 1 .. b
  BY <1>1 DEF Ordered
<1>9. \A i \in DOMAIN a : (i \in DOMAIN past /\ a[i] = past[i]) \/ (i = Len(past) + 1 /\ a[i] = Head(q))
  BY <1>2
<1>10. \A i \in DOMAIN a : a[i] \in 1 .. b
  BY <1>8, <1>9 DEF Ordered
<1>11. \A i \in DOMAIN past : past[i] < Head(q)
  BY <1>8 DEF Ordered
<1>12. \A j \in DOMAIN t : Head(q) < t[j]
  <2> SUFFICES ASSUME NEW j \in DOMAIN t PROVE Head(q) < t[j]
    OBVIOUS
  <2>1. j + 1 \in DOMAIN q /\ 1 < j + 1
    BY <1>1, <1>3
  <2>2. q[1] < q[j + 1]
    BY <1>8, <2>1 DEF Ordered, Increasing
  <2> QED
    BY <1>3, <1>8, <2>2
<1>13. Increasing(a)
  <2> SUFFICES ASSUME NEW i \in DOMAIN a, NEW j \in DOMAIN a, i < j PROVE a[i] < a[j]
    BY DEF Increasing
  <2>1. i \in DOMAIN past /\ a[i] = past[i]
    BY <1>2, <1>9
  <2>2. CASE j \in DOMAIN past /\ a[j] = past[j]
    BY <2>1, <2>2 DEF Ordered, Increasing
  <2>3. CASE a[j] = Head(q)
    BY <1>11, <2>1, <2>3
  <2> QED
    BY <1>9, <2>2, <2>3
<1>14. \A i \in DOMAIN a, j \in DOMAIN t : a[i] < t[j]
  BY <1>6, <1>9, <1>12
<1>15. Ordered(a, t, b)
  BY <1>4, <1>5, <1>10, <1>13, <1>14 DEF Ordered
<1> QED
  BY <1>7, <1>15 DEF a, t

-----------------------------------------------------------------------------
(* Type correctness                                                         *)

Types ==
    /\ elem \in [Socks -> 0 .. Opens] /\ opened \in 0 .. Opens /\ readers \subseteq Socks
    /\ rxq \in [Socks -> Seq(1 .. Frames)] /\ txq \in [Socks -> Seq(1 .. Frames)]
    /\ received \in [Socks -> Seq(Nat)] /\ handed \in [Socks -> Seq(Nat)]
    /\ wpah \in 0 .. WpahLen /\ bus \in Seq(Socks) /\ Len(bus) <= 1
    /\ sentRx \in 0 .. Frames /\ sentTx \in 0 .. Frames /\ fails \in Nat
    /\ asserted \in BOOLEAN

OpTypes ==
    /\ op.kind \in {"idle", "event", "recv", "queue", "post"}
    /\ op.kind = "event" => op.sock \in {"mgmt", "data"}
    /\ op.kind \in {"recv", "queue", "post"} => op.sock \in Socks
    /\ op.kind = "queue" => op.frame \in 1 .. Frames

LEMMA FramesAreNumbers ==
    ASSUME NEW q \in Seq(1 .. Frames)
    PROVE  q \in Seq(Nat)
<1>1. q \in [1 .. Len(q) -> Nat] /\ Len(q) \in Nat
  BY FakeSocketAssumption, LenProperties
<1> QED
  BY <1>1

LEMMA PushType ==
    ASSUME NEW S, NEW q \in Seq(S), NEW e \in S
    PROVE  /\ Append(q, e) \in Seq(S) /\ Append(q, e) # <<>>
           /\ Len(Append(q, e)) = Len(q) + 1
           /\ Tail(Append(q, e)) \in Seq(S) /\ Len(Tail(Append(q, e))) = Len(q)
<1>1. Append(q, e) \in Seq(S) /\ Len(Append(q, e)) = Len(q) + 1 /\ Len(q) \in Nat
  BY AppendProperties
<1>2. Append(q, e) # <<>>
  BY <1>1
<1> QED
  BY <1>1, <1>2, HeadTailProperties

LEMMA PopType ==
    ASSUME NEW S, NEW q \in Seq(S), q # <<>>
    PROVE  Head(q) \in S /\ Tail(q) \in Seq(S) /\ Len(Tail(q)) = Len(q) - 1 /\ Len(q) > 0
BY HeadTailProperties, EmptySeq

LEMMA AfterSockShape ==
    ASSUME NEW s
    PROVE  /\ AfterSock(s).kind \in {"idle", "event"}
           /\ AfterSock(s).kind = "event" => s = "mgmt" /\ AfterSock(s).sock = "data"
           /\ s = "mgmt" => AfterSock(s).kind = "event"
BY DEF AfterSock, NoOp

LEMMA OpTypesInit == Init => OpTypes
BY DEF Init, OpTypes, NoOp

LEMMA OpTypesNext ==
    ASSUME Types, OpTypes, [Next]_vars
    PROVE  OpTypes'
<1>1. ASSUME NEW s \in Socks, ke_sk_send(s) PROVE OpTypes'
  BY <1>1 DEF ke_sk_send, OpTypes
<1>2. ASSUME NEW s \in Socks, fsocket_send(s) PROVE OpTypes'
  <2>1. sentTx + 1 \in 1 .. Frames
    BY <1>2, FakeSocketAssumption DEF fsocket_send, Types
  <2> QED
    BY <1>2, <2>1 DEF fsocket_send, OpTypes
<1>3. ASSUME NEW s \in Socks, fsocket_init(s) PROVE OpTypes'
  BY <1>3 DEF fsocket_init, OpTypes
<1>4. ASSUME NEW s \in Socks, fsocket_close(s) PROVE OpTypes'
  BY <1>4 DEF fsocket_close, OpTypes
<1>5. ASSUME NEW s \in Socks, eloop_register_read_sock(s) PROVE OpTypes'
  BY <1>5 DEF eloop_register_read_sock, OpTypes
<1>6. CASE wpa_hostapd_queue_poll
  BY <1>6 DEF wpa_hostapd_queue_poll, OpTypes
<1>7. CASE hapd_intf_ke_rx_handle
  BY <1>7 DEF hapd_intf_ke_rx_handle, OpTypes
<1>8. CASE eloop_run
  BY <1>8 DEF eloop_run, OpTypes
<1>9. CASE eloop_handler_sock_event
  <2>1. CASE op' = AfterSock(op.sock)
    BY <2>1, AfterSockShape DEF OpTypes
  <2>2. CASE op.sock \in Socks /\ op' = [kind |-> "recv", sock |-> op.sock, elem |-> elem[op.sock]]
    BY <2>2 DEF OpTypes
  <2> QED
    BY <1>9, <2>1, <2>2 DEF eloop_handler_sock_event
<1>10. CASE fsocket_recv
  <2>1. op' = AfterSock(op.sock)
    BY <1>10 DEF fsocket_recv
  <2> QED
    BY <2>1, AfterSockShape DEF OpTypes
<1>11. CASE fsocket_send_queue
  BY <1>11 DEF fsocket_send_queue, OpTypes
<1>12. CASE bmsg_skt_tx_sender
  BY <1>12 DEF bmsg_skt_tx_sender, OpTypes, NoOp
<1>13. CASE UNCHANGED vars
  BY <1>13 DEF vars, OpTypes
<1> QED
  BY <1>1, <1>2, <1>3, <1>4, <1>5, <1>6, <1>7, <1>8, <1>9, <1>10, <1>11, <1>12, <1>13
     DEF Next, Wpas

LEMMA TypesInit == Init => Types
<1> SUFFICES ASSUME Init PROVE Types
  OBVIOUS
<1>1. /\ rxq \in [Socks -> Seq(1 .. Frames)] /\ txq \in [Socks -> Seq(1 .. Frames)]
      /\ received \in [Socks -> Seq(Nat)] /\ handed \in [Socks -> Seq(Nat)]
  BY DEF Init
<1>2. bus \in Seq(Socks) /\ Len(bus) <= 1
  BY DEF Init
<1>3. elem \in [Socks -> 0 .. Opens]
  BY FakeSocketAssumption DEF Init
<1>4. wpah \in 0 .. WpahLen /\ opened \in 0 .. Opens
  BY FakeSocketAssumption DEF Init
<1>5. sentRx \in 0 .. Frames /\ sentTx \in 0 .. Frames
  BY FakeSocketAssumption DEF Init
<1> QED
  BY <1>1, <1>2, <1>3, <1>4, <1>5 DEF Init, Types

LEMMA TypesNext ==
    ASSUME Types, OpTypes, [Next]_vars
    PROVE  Types'
<1>t. WpahLen \in Nat /\ Frames \in Nat /\ Opens \in Nat /\ MallocFails \in Nat
  BY FakeSocketAssumption
<1>1. ASSUME NEW s \in Socks, ke_sk_send(s) PROVE Types'
  <2>1. sentRx' \in 0 .. Frames /\ sentRx + 1 \in 1 .. Frames
    BY <1>1, <1>t DEF ke_sk_send, Types
  <2>2. wpah' \in 0 .. WpahLen
    BY <1>1, <1>t DEF ke_sk_send, Types
  <2>3. /\ Append(rxq[s], sentRx + 1) \in Seq(1 .. Frames)
        /\ Tail(Append(rxq[s], sentRx + 1)) \in Seq(1 .. Frames)
    BY <2>1, PushType DEF Types
  <2>5. \/ rxq' = rxq
        \/ \E q \in Seq(1 .. Frames) : rxq' = [rxq EXCEPT ![s] = q]
    BY <1>1, <2>3 DEF ke_sk_send, DummyRead
  <2>6. fails' = fails + 1 \/ fails' = fails
    BY <1>1 DEF ke_sk_send, DummyRead, MallocFail
  <2>4. rxq' \in [Socks -> Seq(1 .. Frames)]
    BY <2>5 DEF Types
  <2>7. fails' \in Nat
    BY <2>6 DEF Types
  <2> QED
    BY <1>1, <2>1, <2>2, <2>4, <2>7 DEF ke_sk_send, sockets, Types
<1>2. ASSUME NEW s \in Socks, fsocket_send(s) PROVE Types'
  BY <1>2, <1>t DEF fsocket_send, sockets, queues, Types
<1>3. ASSUME NEW s \in Socks, fsocket_init(s) PROVE Types'
  <2>1. opened' \in 0 .. Opens /\ elem' \in [Socks -> 0 .. Opens]
    BY <1>3, <1>t DEF fsocket_init, Types
  <2> QED
    BY <1>3, <2>1 DEF fsocket_init, queues, ghosts, Types
<1>4. ASSUME NEW s \in Socks, fsocket_close(s) PROVE Types'
  <2>1. elem' \in [Socks -> 0 .. Opens]
    BY <1>4, <1>t DEF fsocket_close, Types
  <2>2. rxq' \in [Socks -> Seq(1 .. Frames)] /\ txq' \in [Socks -> Seq(1 .. Frames)]
    BY <1>4 DEF fsocket_close, Types
  <2> QED
    BY <1>4, <2>1, <2>2 DEF fsocket_close, ghosts, Types
<1>5. ASSUME NEW s \in Socks, eloop_register_read_sock(s) PROVE Types'
  BY <1>5 DEF eloop_register_read_sock, queues, ghosts, Types
<1>6. CASE wpa_hostapd_queue_poll
  <2>1. wpah' \in 0 .. WpahLen
    BY <1>6, <1>t DEF wpa_hostapd_queue_poll, Types
  <2> QED
    BY <1>6, <2>1 DEF wpa_hostapd_queue_poll, sockets, ghosts, Types
<1>7. CASE hapd_intf_ke_rx_handle
  <2>1. bus # <<>> /\ bus \in Seq(Socks) /\ bus' = Tail(bus) /\ Len(bus) <= 1
    BY <1>7 DEF hapd_intf_ke_rx_handle, Types
  <2>2. Head(bus) \in Socks /\ bus' \in Seq(Socks) /\ Len(bus') <= 1
    BY <2>1, PopType
  <2>3. CASE txq[Head(bus)] = <<>>
    BY <1>7, <2>2, <2>3 DEF hapd_intf_ke_rx_handle, sockets, Types
  <2>4. CASE ~ (txq[Head(bus)] = <<>>)
    <3>1. txq[Head(bus)] \in Seq(1 .. Frames)
      BY <2>2 DEF Types
    <3>p. Head(txq[Head(bus)]) \in 1 .. Frames /\ Tail(txq[Head(bus)]) \in Seq(1 .. Frames)
      BY <2>4, <3>1, PopType
    <3>2. Head(txq[Head(bus)]) \in Nat /\ Tail(txq[Head(bus)]) \in Seq(1 .. Frames)
      BY <3>p, <1>t
    <3>3. Append(handed[Head(bus)], Head(txq[Head(bus)])) \in Seq(Nat)
      BY <2>2, <3>2, PushType DEF Types
    <3>4. CASE ke_sk_recv(Head(bus)) /\ UNCHANGED fails
      <4>1. txq' \in [Socks -> Seq(1 .. Frames)] /\ handed' \in [Socks -> Seq(Nat)]
        BY <3>2, <3>3, <3>4 DEF ke_sk_recv, Types
      <4> QED
        BY <1>7, <2>2, <2>4, <3>4, <4>1 DEF hapd_intf_ke_rx_handle, sockets, Types
    <3>5. CASE MallocFail /\ UNCHANGED <<txq, handed>>
      BY <1>7, <2>2, <2>4, <3>5 DEF hapd_intf_ke_rx_handle, MallocFail, sockets, Types
    <3> QED
      BY <1>7, <2>4, <3>4, <3>5 DEF hapd_intf_ke_rx_handle
  <2> QED
    BY <2>3, <2>4
<1>8. CASE eloop_run
  <2>1. wpah' \in 0 .. WpahLen
    BY <1>8, <1>t DEF eloop_run, Types
  <2> QED
    BY <1>8, <2>1 DEF eloop_run, sockets, ghosts, Types
<1>9. CASE eloop_handler_sock_event
  BY <1>9 DEF eloop_handler_sock_event, sockets, queues, ghosts, Types
<1>10. CASE fsocket_recv
  <2>1. op.sock \in Socks
    BY <1>10 DEF fsocket_recv, OpTypes
  <2>2. UNCHANGED <<sockets, txq, wpah, bus, handed, sentRx, sentTx, asserted>>
    BY <1>10 DEF fsocket_recv
  <2>4. fails' = fails + 1 \/ fails' = fails
    BY <1>10 DEF fsocket_recv, MallocFail
  <2>6. fails' \in Nat
    BY <2>4 DEF Types
  <2>3. rxq' \in [Socks -> Seq(1 .. Frames)] /\ received' \in [Socks -> Seq(Nat)]
    <3>1. CASE UNCHANGED <<rxq, received>>
      BY <3>1 DEF Types
    <3>2. CASE /\ rxq' = [rxq EXCEPT ![op.sock] = IF @ = <<>> THEN @ ELSE Tail(@)]
               /\ received' = [received EXCEPT ![op.sock] =
                                  Append(@, IF rxq[op.sock] = <<>> THEN 0 ELSE Head(rxq[op.sock]))]
      <4> DEFINE q == rxq[op.sock]
                 f == IF q = <<>> THEN 0 ELSE Head(q)
      <4>1. q \in Seq(1 .. Frames) /\ received[op.sock] \in Seq(Nat)
        BY <2>1 DEF Types
      <4>p. q # <<>> => Head(q) \in 1 .. Frames /\ Tail(q) \in Seq(1 .. Frames)
        BY <4>1, PopType
      <4>2. (IF q = <<>> THEN q ELSE Tail(q)) \in Seq(1 .. Frames) /\ f \in Nat
        BY <4>1, <4>p, <1>t
      <4>3. Append(received[op.sock], f) \in Seq(Nat)
        BY <4>1, <4>2, PushType
      <4> QED
        BY <2>1, <3>2, <4>2, <4>3 DEF Types
    <3> QED
      BY <1>10, <3>1, <3>2 DEF fsocket_recv
  <2> QED
    BY <2>2, <2>3, <2>6 DEF sockets, Types
<1>11. CASE fsocket_send_queue
  <2>1. op.sock \in Socks /\ op.frame \in 1 .. Frames
    BY <1>11 DEF fsocket_send_queue, OpTypes
  <2>2. Append(txq[op.sock], op.frame) \in Seq(1 .. Frames)
    BY <2>1, PushType DEF Types
  <2>3. txq' \in [Socks -> Seq(1 .. Frames)]
    BY <1>11, <2>1, <2>2 DEF fsocket_send_queue, Types
  <2> QED
    BY <1>11, <2>3 DEF fsocket_send_queue, sockets, Types
<1>12. CASE bmsg_skt_tx_sender
  <2>1. op.sock \in Socks /\ bus = <<>> /\ bus' \in {Append(bus, op.sock), bus}
    BY <1>12 DEF bmsg_skt_tx_sender, CoreIdle, OpTypes
  <2>2. Append(bus, op.sock) \in Seq(Socks) /\ Len(Append(bus, op.sock)) <= 1
    BY <2>1, PushType DEF Types
  <2>3. bus' \in Seq(Socks) /\ Len(bus') <= 1
    BY <2>1, <2>2 DEF Types
  <2> QED
    BY <1>12, <2>3 DEF bmsg_skt_tx_sender, sockets, ghosts, Types
<1>13. CASE UNCHANGED vars
  BY <1>13 DEF vars, sockets, queues, ghosts, Types
<1> QED
  BY <1>1, <1>2, <1>3, <1>4, <1>5, <1>6, <1>7, <1>8, <1>9, <1>10, <1>11, <1>12, <1>13
     DEF Next, Wpas

\* The variables of the sockets stay within their types: element numbers within the
\* elements made, tokens within wpah_queue, one bus message at most.
THEOREM TypeCorrect == Spec => []TypeOK
<1>1. Init => Types /\ OpTypes
  BY TypesInit, OpTypesInit
<1>2. Types /\ OpTypes /\ [Next]_vars => (Types /\ OpTypes)'
  BY TypesNext, OpTypesNext
<1>3. Types /\ OpTypes => TypeOK
  BY DEF Types, OpTypes, TypeOK
<1> QED
  BY <1>1, <1>2, <1>3, PTL DEF Spec
-----------------------------------------------------------------------------
(* An element looked up is used before its socket is closed                  *)

\* With CFG_NEW_SUPP sockets are opened and closed between two operations of the wpas
\* thread, so what it has looked up stays as it was, and every bus message has a frame.
Untouched ==
    /\ asserted = FALSE
    /\ op.kind \in {"recv", "queue"} => elem[op.sock] = op.elem
    /\ op.kind \in {"event", "recv"} => \A s \in Socks : elem[s] # 0 => s \in readers
    /\ op.kind = "recv" => rxq[op.sock] # <<>>
    /\ op.kind = "post" => txq[op.sock] # <<>>
    /\ bus # <<>> => op.kind = "idle" /\ txq[Head(bus)] # <<>>
    /\ \A s \in Socks : elem[s] = 0 => rxq[s] = <<>>

LEMMA UntouchedInit == Init => Untouched
BY DEF Init, Untouched, NoOp

\* A frame that arrives is added, in place of the oldest one when wpah_queue is full.
LEMMA DummyReadGrows ==
    ASSUME Types, NEW s \in Socks, sentRx < Frames, DummyRead(s)
    PROVE  /\ \A t \in Socks \ {s} : rxq'[t] = rxq[t]
           /\ \/ rxq'[s] = Append(rxq[s], sentRx + 1) /\ (wpah < WpahLen \/ fails' = fails + 1)
              \/ rxq'[s] = Tail(Append(rxq[s], sentRx + 1)) /\ ~ (wpah < WpahLen) /\ fails' = fails
           /\ fails' \in Nat /\ fails <= fails'
           /\ rxq[s] # <<>> => rxq'[s] # <<>>
<1>1. sentRx + 1 \in 1 .. Frames /\ rxq[s] \in Seq(1 .. Frames)
  BY FakeSocketAssumption DEF Types
<1>2. \A t \in Socks \ {s} : rxq'[t] = rxq[t]
  BY DEF DummyRead, Types
<1>3. \/ rxq'[s] = Append(rxq[s], sentRx + 1) /\ (wpah < WpahLen \/ fails' = fails + 1)
      \/ rxq'[s] = Tail(Append(rxq[s], sentRx + 1)) /\ ~ (wpah < WpahLen) /\ fails' = fails
  BY DEF DummyRead, MallocFail, Types
<1>4. fails' = fails + 1 \/ fails' = fails
  BY DEF DummyRead, MallocFail
<1>5. fails' \in Nat /\ fails <= fails'
  BY <1>4 DEF Types
<1>6. ASSUME rxq[s] # <<>> PROVE rxq'[s] # <<>>
  <2>1. Len(rxq[s]) > 0
    BY <1>1, <1>6, PopType
  <2>2. Len(rxq'[s]) = Len(rxq[s]) + 1 \/ Len(rxq'[s]) = Len(rxq[s])
    BY <1>1, <1>3, PushType
  <2>3. Len(rxq[s]) \in Nat
    BY <1>1, LenProperties
  <2> QED
    BY <2>1, <2>2, <2>3
<1> QED
  BY <1>2, <1>3, <1>5, <1>6

LEMMA UntouchedNext ==
    ASSUME CFG_NEW_SUPP, Types, OpTypes, Untouched, [Next]_vars
    PROVE  Untouched'
<1>1. ASSUME NEW s \in Socks, ke_sk_send(s) PROVE Untouched'
  <2>1. CASE elem[s] = 0
    BY <1>1, <2>1 DEF ke_sk_send, sockets, Untouched
  <2>2. CASE ~ (elem[s] = 0)
    <3>1. sentRx < Frames /\ DummyRead(s)
      BY <1>1, <2>2 DEF ke_sk_send
    <3>2. /\ \A t \in Socks \ {s} : rxq'[t] = rxq[t]
          /\ rxq[s] # <<>> => rxq'[s] # <<>>
      BY <3>1, DummyReadGrows
    <3>3. op.kind = "recv" => rxq'[op.sock] # <<>>
      BY <3>2 DEF OpTypes, Untouched
    <3>4. \A t \in Socks : elem[t] = 0 => rxq'[t] = <<>>
      BY <2>2, <3>2 DEF Untouched
    <3>5. UNCHANGED <<elem, opened, readers, txq, bus, op, asserted>>
      BY <1>1 DEF ke_sk_send, sockets
    <3> QED
      BY <3>3, <3>4, <3>5 DEF Untouched
  <2> QED
    BY <2>1, <2>2
<1>2. ASSUME NEW s \in Socks, fsocket_send(s) PROVE Untouched'
  BY <1>2 DEF fsocket_send, MayPoll, CoreIdle, sockets, queues, Untouched
<1>3. ASSUME NEW s \in Socks, fsocket_init(s) PROVE Untouched'
  <2>1. op.kind = "idle" /\ bus = <<>> /\ UNCHANGED <<rxq, txq, bus, op, asserted>>
    BY <1>3 DEF fsocket_init, MayControl, CoreIdle, queues, ghosts
  <2>2. elem' = [elem EXCEPT ![s] = opened + 1] /\ opened + 1 # 0
    BY <1>3 DEF fsocket_init, Types
  <2>3. \A t \in Socks : elem'[t] = 0 => rxq'[t] = <<>>
    BY <2>1, <2>2 DEF Types, Untouched
  <2> QED
    BY <2>1, <2>3 DEF Untouched
<1>4. ASSUME NEW s \in Socks, fsocket_close(s) PROVE Untouched'
  <2>1. op.kind = "idle" /\ bus = <<>> /\ UNCHANGED <<bus, op, asserted>>
    BY <1>4 DEF fsocket_close, MayControl, CoreIdle, ghosts
  <2>2. \A t \in Socks : elem'[t] = 0 => rxq'[t] = <<>>
    BY <1>4 DEF fsocket_close, Types, Untouched
  <2> QED
    BY <2>1, <2>2 DEF Untouched
<1>5. ASSUME NEW s \in Socks, eloop_register_read_sock(s) PROVE Untouched'
  <2>1. op.kind = "idle" /\ bus = <<>> /\ UNCHANGED <<elem, rxq, txq, bus, op, asserted>>
    BY <1>5 DEF eloop_register_read_sock, MayControl, CoreIdle, queues, ghosts
  <2> QED
    BY <2>1 DEF Untouched
<1>6. CASE wpa_hostapd_queue_poll
  BY <1>6 DEF wpa_hostapd_queue_poll, sockets, ghosts, Untouched
<1>7. CASE hapd_intf_ke_rx_handle
  <2>1. bus # <<>> /\ op.kind = "idle" /\ txq[Head(bus)] # <<>>
    BY <1>7 DEF hapd_intf_ke_rx_handle, Untouched
  <2>2. UNCHANGED <<elem, readers, rxq, op, asserted>> /\ bus' = Tail(bus)
    BY <1>7, <2>1 DEF hapd_intf_ke_rx_handle, sockets
  <2>3. Len(bus) > 0 /\ Tail(bus) \in Seq(Socks) /\ Len(Tail(bus)) = Len(bus) - 1
    BY <2>1, PopType DEF Types
  <2>4. bus' = <<>>
    BY <2>2, <2>3, EmptySeq DEF Types
  <2> QED
    BY <2>1, <2>2, <2>4 DEF Untouched
<1>8. CASE eloop_run
  BY <1>8 DEF eloop_run, MayPoll, CoreIdle, sockets, ghosts, Untouched
<1>9. CASE eloop_handler_sock_event
  <2>1. UNCHANGED <<elem, readers, rxq, txq, bus, asserted>> /\ bus = <<>> /\ op.kind = "event"
    BY <1>9 DEF eloop_handler_sock_event, CoreIdle, sockets, queues, ghosts
  <2>2. CASE op' = AfterSock(op.sock)
    BY <2>1, <2>2, AfterSockShape DEF Untouched
  <2>3. CASE /\ rxq[op.sock] # <<>>
             /\ op' = [kind |-> "recv", sock |-> op.sock, elem |-> elem[op.sock]]
    BY <2>1, <2>3 DEF Untouched
  <2> QED
    BY <1>9, <2>2, <2>3 DEF eloop_handler_sock_event
<1>10. CASE fsocket_recv
  <2>1. /\ UNCHANGED <<elem, readers, txq, bus, asserted>> /\ bus = <<>> /\ op.kind = "recv"
        /\ op' = AfterSock(op.sock) /\ op.sock \in Socks
    BY <1>10 DEF fsocket_recv, CoreIdle, sockets, OpTypes
  <2>2. elem[op.sock] = op.elem /\ rxq[op.sock] # <<>>
    BY <2>1 DEF Untouched
  <2>4. elem[op.sock] # 0
    BY <2>1, <2>2 DEF Untouched
  <2>5. \A t \in Socks \ {op.sock} : rxq'[t] = rxq[t]
    BY <1>10, <2>1 DEF fsocket_recv, Types
  <2>6. \A t \in Socks : elem[t] = 0 => rxq'[t] = <<>>
    BY <2>4, <2>5 DEF Untouched
  <2> QED
    BY <2>1, <2>6, AfterSockShape DEF Untouched
<1>11. CASE fsocket_send_queue
  <2>1. /\ UNCHANGED <<elem, readers, rxq, bus, asserted>> /\ bus = <<>> /\ op.kind = "queue"
        /\ op' = [kind |-> "post", sock |-> op.sock] /\ op.sock \in Socks
        /\ op.frame \in 1 .. Frames
    BY <1>11 DEF fsocket_send_queue, CoreIdle, sockets, OpTypes
  <2>2. txq' = [txq EXCEPT ![op.sock] = Append(@, op.frame)]
    BY <1>11, <2>1 DEF fsocket_send_queue, Untouched
  <2>3. Append(txq[op.sock], op.frame) # <<>>
    BY <2>1, PushType DEF Types
  <2>4. txq'[op.sock] # <<>>
    BY <2>1, <2>2, <2>3 DEF Types
  <2> QED
    BY <2>1, <2>2, <2>4 DEF Untouched
<1>12. CASE bmsg_skt_tx_sender
  <2>1. /\ UNCHANGED <<elem, readers, rxq, txq, asserted>> /\ bus = <<>> /\ op.kind = "post"
        /\ op' = NoOp /\ op.sock \in Socks /\ bus' \in {Append(bus, op.sock), bus}
    BY <1>12 DEF bmsg_skt_tx_sender, CoreIdle, sockets, ghosts, OpTypes
  <2>2. bus' # <<>> => Head(bus') = op.sock
    BY <2>1
  <2>3. op'.kind = "idle"
    BY <2>1 DEF NoOp
  <2> QED
    BY <2>1, <2>2, <2>3 DEF Untouched
<1>13. CASE UNCHANGED vars
  BY <1>13 DEF vars, sockets, queues, ghosts, Untouched
<1> QED
  BY <1>1, <1>2, <1>3, <1>4, <1>5, <1>6, <1>7, <1>8, <1>9, <1>10, <1>11, <1>12, <1>13
     DEF Next, Wpas
-----------------------------------------------------------------------------
(* A token for every frame                                                  *)

\* The event under way still comes to socket s.
Now(s) == IF op.kind \in {"recv", "event"} /\ (op.sock = s \/ op.sock = "mgmt") THEN 1 ELSE 0

Tokens == \A s \in Socks : Len(rxq[s]) <= wpah + Now(s) + fails

LEMMA TokensIsCover == Tokens <=> TokensCover
<1>1. ASSUME NEW s
      PROVE  Now(s) = IF \/ op.kind = "recv" /\ (op.sock = s \/ op.sock = "mgmt")
                         \/ op.kind = "event" /\ (op.sock = s \/ op.sock = "mgmt")
                      THEN 1 ELSE 0
  BY DEF Now
<1> QED
  BY <1>1 DEF Tokens, TokensCover

LEMMA TokensInit == Init => Tokens
<1> SUFFICES ASSUME Init PROVE Tokens
  OBVIOUS
<1>1. \A s \in Socks : Len(rxq[s]) = 0 /\ Now(s) = 0
  BY DEF Init, Now, NoOp
<1>2. wpah = 0 /\ fails = 0 /\ 0 <= 0 + 0 + 0
  BY DEF Init
<1>3. \A s \in Socks : Len(rxq[s]) <= wpah + Now(s) + fails
  BY <1>1, <1>2
<1> QED
  BY <1>3 DEF Tokens

\* Nothing is fetched and no token is spent.
LEMMA TokensKept ==
    ASSUME Types, Tokens, Types', UNCHANGED <<rxq, op>>, wpah <= wpah', fails <= fails'
    PROVE  Tokens'
<1> SUFFICES ASSUME NEW t \in Socks PROVE Len(rxq'[t]) <= wpah' + Now(t)' + fails'
  BY DEF Tokens
<1>1. Now(t)' = Now(t) /\ Now(t) \in {0, 1}
  BY DEF Now
<1>2. Len(rxq[t]) <= wpah + Now(t) + fails /\ rxq'[t] = rxq[t]
  BY DEF Tokens
<1>3. Len(rxq[t]) \in Nat
  BY LenProperties DEF Types
<1>4. wpah \in Nat /\ fails \in Nat /\ wpah' \in Nat /\ fails' \in Nat
  BY FakeSocketAssumption DEF Types
<1> QED
  BY <1>1, <1>2, <1>3, <1>4

LEMMA TokensNext ==
    ASSUME CFG_NEW_SUPP, Types, OpTypes, Untouched, Tokens, [Next]_vars
    PROVE  Tokens'
<1>p. Types'
  BY TypesNext
<1>t. wpah \in Nat /\ fails \in Nat /\ wpah' \in Nat /\ fails' \in Nat
  BY <1>p, FakeSocketAssumption DEF Types
<1>l. \A s \in Socks : Len(rxq[s]) \in Nat /\ Len(rxq[s]) <= wpah + Now(s) + fails
  BY LenProperties DEF Types, Tokens
<1>n. \A s : Now(s) \in {0, 1} /\ Now(s)' \in {0, 1}
  BY DEF Now
<1>1. ASSUME NEW s \in Socks, ke_sk_send(s) PROVE Tokens'
  <2>1. op' = op /\ sentRx < Frames
    BY <1>1 DEF ke_sk_send
  <2>2. CASE elem[s] = 0
    <3>1. rxq' = rxq /\ wpah' = wpah /\ fails' = fails
      BY <1>1, <2>2 DEF ke_sk_send
    <3> QED
      BY <1>p, <1>t, <2>1, <3>1, TokensKept
  <2>3. CASE ~ (elem[s] = 0)
    <3>1. DummyRead(s) /\ wpah' = IF wpah < WpahLen THEN wpah + 1 ELSE wpah
      BY <1>1, <2>3 DEF ke_sk_send
    <3>2. /\ \A t \in Socks \ {s} : rxq'[t] = rxq[t]
          /\ \/ rxq'[s] = Append(rxq[s], sentRx + 1) /\ (wpah < WpahLen \/ fails' = fails + 1)
             \/ rxq'[s] = Tail(Append(rxq[s], sentRx + 1)) /\ ~ (wpah < WpahLen) /\ fails' = fails
          /\ fails <= fails'
      BY <2>1, <3>1, DummyReadGrows
    <3>3. sentRx + 1 \in 1 .. Frames /\ rxq[s] \in Seq(1 .. Frames)
      BY <2>1, FakeSocketAssumption DEF Types
    <3>4. /\ Len(Append(rxq[s], sentRx + 1)) = Len(rxq[s]) + 1
          /\ Len(Tail(Append(rxq[s], sentRx + 1))) = Len(rxq[s])
      BY <3>3, PushType
    <3>5. \/ Len(rxq'[s]) = Len(rxq[s]) + 1 /\ (wpah' = wpah + 1 \/ fails' = fails + 1)
          \/ Len(rxq'[s]) = Len(rxq[s])
      BY <3>1, <3>2, <3>4
    <3>6. wpah <= wpah'
      BY <3>1, <1>t
    <3> SUFFICES ASSUME NEW t \in Socks PROVE Len(rxq'[t]) <= wpah' + Now(t)' + fails'
      BY DEF Tokens
    <3>7. Now(t)' = Now(t) /\ Now(t) \in {0, 1}
      BY <2>1 DEF Now
    <3>8. CASE t = s
      <4>1. Len(rxq[s]) \in Nat /\ Len(rxq[s]) <= wpah + Now(s) + fails
        BY <1>l
      <4> QED
        BY <1>t, <3>2, <3>5, <3>6, <3>7, <3>8, <4>1
    <3>9. CASE t # s
      <4>1. Len(rxq[t]) \in Nat /\ Len(rxq[t]) <= wpah + Now(t) + fails /\ rxq'[t] = rxq[t]
        BY <1>l, <3>2, <3>9
      <4> QED
        BY <1>t, <3>2, <3>6, <3>7, <4>1
    <3> QED
      BY <3>8, <3>9
  <2> QED
    BY <2>2, <2>3
<1>2. ASSUME NEW s \in Socks, fsocket_send(s) PROVE Tokens'
  <2>1. /\ UNCHANGED <<rxq, wpah, fails>>
        /\ op.kind = "idle" /\ op'.kind = "queue"
    BY <1>2 DEF fsocket_send, queues
  <2>2. \A t \in Socks : Now(t)' = 0 /\ Now(t) = 0
    BY <2>1 DEF Now
  <2> QED
    BY <2>1, <2>2 DEF Tokens
<1>3. ASSUME NEW s \in Socks, fsocket_init(s) PROVE Tokens'
  <2>1. UNCHANGED <<rxq, op, wpah, fails>>
    BY <1>3 DEF fsocket_init, queues, ghosts
  <2> QED
    BY <1>p, <1>t, <2>1, TokensKept
<1>4. ASSUME NEW s \in Socks, fsocket_close(s) PROVE Tokens'
  <2>1. UNCHANGED <<op, wpah, fails>> /\ rxq' = [rxq EXCEPT ![s] = <<>>]
    BY <1>4 DEF fsocket_close, ghosts
  <2> SUFFICES ASSUME NEW t \in Socks PROVE Len(rxq'[t]) <= wpah' + Now(t)' + fails'
    BY DEF Tokens
  <2>2. Now(t)' = Now(t) /\ Now(t) \in {0, 1}
    BY <2>1 DEF Now
  <2>3. Len(rxq'[t]) = 0 \/ rxq'[t] = rxq[t]
    BY <2>1 DEF Types
  <2> QED
    BY <1>t, <1>l, <2>1, <2>2, <2>3
<1>5. ASSUME NEW s \in Socks, eloop_register_read_sock(s) PROVE Tokens'
  <2>1. UNCHANGED <<rxq, op, wpah, fails>>
    BY <1>5 DEF eloop_register_read_sock, queues, ghosts
  <2> QED
    BY <1>p, <1>t, <2>1, TokensKept
<1>6. CASE wpa_hostapd_queue_poll
  <2>1. UNCHANGED <<rxq, op, fails>> /\ wpah' = wpah + 1
    BY <1>6 DEF wpa_hostapd_queue_poll, ghosts
  <2> QED
    BY <1>p, <1>t, <2>1, TokensKept
<1>7. CASE hapd_intf_ke_rx_handle
  <2>1. UNCHANGED <<rxq, op, wpah>> /\ (fails' = fails \/ fails' = fails + 1)
    BY <1>7 DEF hapd_intf_ke_rx_handle, MallocFail
  <2> QED
    BY <1>p, <1>t, <2>1, TokensKept
<1>8. CASE eloop_run
  <2>1. /\ UNCHANGED <<rxq, fails>> /\ wpah > 0 /\ wpah' = wpah - 1
        /\ op.kind = "idle" /\ op' = [kind |-> "event", sock |-> "mgmt"]
    BY <1>8 DEF eloop_run, ghosts
  <2>2. \A t \in Socks : Now(t) = 0 /\ Now(t)' = 1
    BY <2>1 DEF Now
  <2> QED
    BY <1>t, <1>l, <2>1, <2>2 DEF Tokens
<1>9. CASE eloop_handler_sock_event
  <2>1. UNCHANGED <<rxq, wpah, fails>> /\ op.kind = "event"
    BY <1>9 DEF eloop_handler_sock_event, queues, ghosts
  <2>2. CASE /\ op' = AfterSock(op.sock)
             /\ ~ (op.sock \in Socks /\ elem[op.sock] # 0 /\ rxq[op.sock] # <<>> /\ op.sock \in readers)
    <3>1. op.sock \in Socks => rxq[op.sock] = <<>>
      BY <2>1, <2>2 DEF Untouched
    <3> SUFFICES ASSUME NEW t \in Socks PROVE Len(rxq'[t]) <= wpah' + Now(t)' + fails'
      BY DEF Tokens
    <3>2. CASE t = op.sock
      BY <1>t, <1>n, <2>1, <3>1, <3>2
    <3>3. CASE t # op.sock
      <4>1. Now(t)' = Now(t)
        <5>1. op.sock \in {"mgmt", "data"} /\ t \in {"mgmt", "data"}
          BY <2>1, FakeSocketAssumption DEF OpTypes
        <5>2. CASE op.sock = "mgmt"
          BY <2>1, <2>2, <3>3, <5>1, <5>2 DEF Now, AfterSock
        <5>3. CASE op.sock = "data"
          BY <2>1, <2>2, <3>3, <5>1, <5>3 DEF Now, AfterSock, NoOp
        <5> QED
          BY <5>1, <5>2, <5>3
      <4> QED
        BY <1>l, <2>1, <4>1
    <3> QED
      BY <3>2, <3>3
  <2>3. CASE op' = [kind |-> "recv", sock |-> op.sock, elem |-> elem[op.sock]]
    <3>1. \A t \in Socks : Now(t)' = Now(t)
      BY <2>1, <2>3 DEF Now
    <3> QED
      BY <2>1, <3>1 DEF Tokens
  <2> QED
    BY <1>9, <2>2, <2>3 DEF eloop_handler_sock_event
<1>10. CASE fsocket_recv
  <2>1. /\ wpah' = wpah /\ op.kind = "recv" /\ op' = AfterSock(op.sock)
        /\ op.sock \in Socks /\ elem[op.sock] = op.elem /\ rxq[op.sock] # <<>>
    BY <1>10 DEF fsocket_recv, OpTypes, Untouched
  <2>2. \/ fails' = fails + 1 /\ rxq' = rxq
        \/ fails' = fails /\ rxq' = [rxq EXCEPT ![op.sock] = Tail(@)]
    BY <1>10, <2>1 DEF fsocket_recv, MallocFail, Types
  <2> SUFFICES ASSUME NEW t \in Socks PROVE Len(rxq'[t]) <= wpah' + Now(t)' + fails'
    BY DEF Tokens
  <2>3. CASE fails' = fails + 1 /\ rxq' = rxq
    BY <1>t, <1>l, <1>n, <2>1, <2>3
  <2>4. CASE fails' = fails /\ rxq' = [rxq EXCEPT ![op.sock] = Tail(@)]
    <3>1. CASE t = op.sock
      <4>1. rxq'[t] = Tail(rxq[t]) /\ rxq[t] \in Seq(1 .. Frames) /\ rxq[t] # <<>>
        BY <2>1, <2>4, <3>1 DEF Types
      <4>2. Len(rxq'[t]) = Len(rxq[t]) - 1
        BY <4>1, PopType
      <4> QED
        BY <1>t, <1>l, <1>n, <2>1, <2>4, <4>2
    <3>2. CASE t # op.sock
      <4>1. rxq'[t] = rxq[t]
        BY <2>1, <2>4, <3>2 DEF Types
      <4>2. Now(t)' = Now(t)
        <5>1. op.sock \in {"mgmt", "data"} /\ t \in {"mgmt", "data"}
          BY <2>1, FakeSocketAssumption
        <5>2. CASE op.sock = "mgmt"
          BY <2>1, <3>2, <5>1, <5>2 DEF Now, AfterSock
        <5>3. CASE op.sock = "data"
          BY <2>1, <3>2, <5>1, <5>3 DEF Now, AfterSock, NoOp
        <5> QED
          BY <5>1, <5>2, <5>3
      <4> QED
        BY <1>l, <2>1, <2>4, <4>1, <4>2
    <3> QED
      BY <3>1, <3>2
  <2> QED
    BY <2>2, <2>3, <2>4
<1>11. CASE fsocket_send_queue
  <2>1. UNCHANGED <<rxq, wpah, fails>> /\ op.kind = "queue" /\ op'.kind = "post"
    BY <1>11 DEF fsocket_send_queue
  <2>2. \A t \in Socks : Now(t)' = 0 /\ Now(t) = 0
    BY <2>1 DEF Now
  <2> QED
    BY <2>1, <2>2 DEF Tokens
<1>12. CASE bmsg_skt_tx_sender
  <2>1. UNCHANGED <<rxq, wpah, fails>> /\ op.kind = "post" /\ op'.kind = "idle"
    BY <1>12 DEF bmsg_skt_tx_sender, ghosts, NoOp
  <2>2. \A t \in Socks : Now(t)' = 0 /\ Now(t) = 0
    BY <2>1 DEF Now
  <2> QED
    BY <2>1, <2>2 DEF Tokens
<1>13. CASE UNCHANGED vars
  <2>1. UNCHANGED <<rxq, op, wpah, fails>>
    BY <1>13 DEF vars, queues, ghosts
  <2> QED
    BY <1>p, <1>t, <2>1, TokensKept
<1> QED
  BY <1>1, <1>2, <1>3, <1>4, <1>5, <1>6, <1>7, <1>8, <1>9, <1>10, <1>11, <1>12, <1>13
     DEF Next, Wpas
-----------------------------------------------------------------------------
(* Frames in their order                                                    *)

\* The newest frame that can be in the queue of socket s: the one being sent is not yet.
TxBound(s) == IF op.kind = "queue" /\ op.sock = s THEN sentTx - 1 ELSE sentTx

RxOrder == \A s \in Socks : Ordered(received[s], rxq[s], sentRx)

TxOrder ==
    /\ op.kind = "queue" => op.frame = sentTx /\ sentTx > 0
    /\ \A s \in Socks : Ordered(handed[s], txq[s], TxBound(s))

LEMMA OrderInit == Init => RxOrder /\ TxOrder
<1> SUFFICES ASSUME Init PROVE RxOrder /\ TxOrder
  OBVIOUS
<1>1. \A b : Ordered(<<>>, <<>>, b)
  BY DEF Ordered, Increasing
<1> QED
  BY <1>1 DEF Init, RxOrder, TxOrder, NoOp

LEMMA RxOrderNext ==
    ASSUME CFG_NEW_SUPP, Types, OpTypes, Untouched, RxOrder, [Next]_vars
    PROVE  RxOrder'
<1>t. sentRx \in Nat
  BY FakeSocketAssumption DEF Types
<1>s. \A s \in Socks : received[s] \in Seq(Nat) /\ rxq[s] \in Seq(Nat)
  BY FramesAreNumbers DEF Types
<1>1. ASSUME NEW s \in Socks, ke_sk_send(s) PROVE RxOrder'
  <2>1. sentRx' = sentRx + 1 /\ received' = received /\ sentRx < Frames
    BY <1>1 DEF ke_sk_send
  <2>2. \A t \in Socks : Ordered(received[t], rxq[t], sentRx + 1)
    BY <1>t, OrderedGrows DEF RxOrder
  <2>3. CASE elem[s] = 0
    BY <1>1, <2>1, <2>2, <2>3 DEF ke_sk_send, RxOrder
  <2>4. CASE ~ (elem[s] = 0)
    <3>1. DummyRead(s)
      BY <1>1, <2>4 DEF ke_sk_send
    <3>2. /\ \A t \in Socks \ {s} : rxq'[t] = rxq[t]
          /\ \/ rxq'[s] = Append(rxq[s], sentRx + 1)
             \/ rxq'[s] = Tail(Append(rxq[s], sentRx + 1))
      BY <2>1, <3>1, DummyReadGrows
    <3> DEFINE q == Append(rxq[s], sentRx + 1)
    <3>3. Ordered(received[s], q, sentRx + 1)
      BY <1>s, <1>t, OrderedPush DEF RxOrder
    <3>4. q \in Seq(Nat) /\ q # <<>>
      BY <1>s, <1>t, PushType
    <3>5. sentRx + 1 \in Nat
      BY <1>t
    <3> HIDE DEF q
    <3>6. Ordered(received[s], Tail(q), sentRx + 1)
      BY <1>s, <3>3, <3>4, <3>5, OrderedPop
    <3>7. Ordered(received[s], rxq'[s], sentRx + 1)
      BY <3>2, <3>3, <3>6 DEF q
    <3> QED
      BY <2>1, <2>2, <3>2, <3>7 DEF RxOrder
  <2> QED
    BY <2>3, <2>4
<1>2. ASSUME NEW s \in Socks, fsocket_close(s) PROVE RxOrder'
  <2>1. UNCHANGED <<received, sentRx>> /\ rxq' = [rxq EXCEPT ![s] = <<>>]
    BY <1>2 DEF fsocket_close, ghosts
  <2>2. \A t \in Socks : rxq'[t] = rxq[t] \/ rxq'[t] = <<>>
    BY <2>1 DEF Types
  <2> QED
    BY <2>1, <2>2, OrderedEmpty DEF RxOrder
<1>3. CASE fsocket_recv
  <2>1. op.sock \in Socks /\ rxq[op.sock] # <<>> /\ elem[op.sock] = op.elem /\ sentRx' = sentRx
    BY <1>3 DEF fsocket_recv, OpTypes, Untouched
  <2>2. CASE UNCHANGED <<rxq, received>>
    BY <2>1, <2>2 DEF RxOrder
  <2>3. CASE /\ rxq' = [rxq EXCEPT ![op.sock] = Tail(@)]
             /\ received' = [received EXCEPT ![op.sock] = Append(@, Head(rxq[op.sock]))]
    <3> SUFFICES ASSUME NEW t \in Socks PROVE Ordered(received'[t], rxq'[t], sentRx)
      BY <2>1 DEF RxOrder
    <3>1. CASE t = op.sock
      <4>1. rxq'[t] = Tail(rxq[t]) /\ received'[t] = Append(received[t], Head(rxq[t]))
        BY <2>3, <3>1 DEF Types
      <4> QED
        BY <1>s, <1>t, <2>1, <3>1, <4>1, OrderedPop DEF RxOrder
    <3>2. CASE t # op.sock
      <4>1. rxq'[t] = rxq[t] /\ received'[t] = received[t]
        BY <2>3, <3>2 DEF Types
      <4> QED
        BY <4>1 DEF RxOrder
    <3> QED
      BY <3>1, <3>2
  <2> QED
    BY <1>3, <2>1, <2>2, <2>3 DEF fsocket_recv
<1>4. CASE UNCHANGED <<rxq, received, sentRx>>
  BY <1>4 DEF RxOrder
<1>5. \/ UNCHANGED <<rxq, received, sentRx>>
      \/ fsocket_recv
      \/ \E s \in Socks : ke_sk_send(s) \/ fsocket_close(s)
  <2>1. ASSUME NEW s \in Socks, fsocket_send(s) \/ fsocket_init(s) \/ eloop_register_read_sock(s)
        PROVE  UNCHANGED <<rxq, received, sentRx>>
    BY <2>1 DEF fsocket_send, fsocket_init, eloop_register_read_sock, queues, ghosts
  <2>2. CASE wpa_hostapd_queue_poll \/ hapd_intf_ke_rx_handle \/ eloop_run
    BY <2>2 DEF wpa_hostapd_queue_poll, hapd_intf_ke_rx_handle, eloop_run, ghosts
  <2>3. CASE eloop_handler_sock_event \/ fsocket_send_queue \/ bmsg_skt_tx_sender
    BY <2>3 DEF eloop_handler_sock_event, fsocket_send_queue, bmsg_skt_tx_sender, queues, ghosts
  <2>4. CASE UNCHANGED vars
    BY <2>4 DEF vars, queues, ghosts
  <2> QED
    BY <2>1, <2>2, <2>3, <2>4 DEF Next, Wpas
<1> QED
  BY <1>1, <1>2, <1>3, <1>4, <1>5

LEMMA TxOrderNext ==
    ASSUME CFG_NEW_SUPP, Types, OpTypes, Untouched, TxOrder, [Next]_vars
    PROVE  TxOrder'
<1>t. sentTx \in Nat /\ (op.kind = "queue" => sentTx - 1 \in Nat)
  BY FakeSocketAssumption DEF Types, TxOrder
<1>s. \A s \in Socks : handed[s] \in Seq(Nat) /\ txq[s] \in Seq(Nat)
  BY FramesAreNumbers DEF Types
<1>b. op.kind # "queue" => \A s : TxBound(s) = sentTx
  BY DEF TxBound
<1>1. ASSUME NEW s \in Socks, fsocket_send(s) PROVE TxOrder'
  <2>1. /\ UNCHANGED <<txq, handed>> /\ op.kind = "idle" /\ sentTx' = sentTx + 1
        /\ op' = [kind |-> "queue", sock |-> s, elem |-> elem[s], frame |-> sentTx + 1]
    BY <1>1 DEF fsocket_send, queues
  <2>2. op'.frame = sentTx' /\ sentTx' > 0
    BY <1>t, <2>1
  <2> SUFFICES ASSUME NEW t \in Socks PROVE Ordered(handed[t], txq[t], TxBound(t)')
    BY <2>1, <2>2 DEF TxOrder
  <2>3. Ordered(handed[t], txq[t], sentTx)
    BY <1>b, <2>1 DEF TxOrder
  <2>4. TxBound(t)' = sentTx \/ TxBound(t)' = sentTx + 1
    BY <1>t, <2>1 DEF TxBound
  <2> QED
    BY <1>t, <2>3, <2>4, OrderedGrows
<1>2. ASSUME NEW s \in Socks, fsocket_close(s) PROVE TxOrder'
  <2>1. UNCHANGED <<handed, sentTx, op>> /\ txq' = [txq EXCEPT ![s] = <<>>]
    BY <1>2 DEF fsocket_close, ghosts
  <2>2. \A t \in Socks : TxBound(t)' = TxBound(t) /\ (txq'[t] = txq[t] \/ txq'[t] = <<>>)
    BY <2>1 DEF Types, TxBound
  <2> QED
    BY <2>1, <2>2, OrderedEmpty DEF TxOrder
<1>3. CASE hapd_intf_ke_rx_handle
  <2>1. bus # <<>> /\ UNCHANGED <<op, sentTx>>
    BY <1>3 DEF hapd_intf_ke_rx_handle
  <2>2. op.kind = "idle" /\ txq[Head(bus)] # <<>> /\ Head(bus) \in Socks
    BY <2>1, PopType DEF Untouched, Types
  <2>3. \A t : TxBound(t)' = sentTx /\ TxBound(t) = sentTx
    BY <2>1, <2>2 DEF TxBound
  <2>4. CASE UNCHANGED <<txq, handed>>
    BY <2>1, <2>3, <2>4 DEF TxOrder
  <2>5. CASE ke_sk_recv(Head(bus))
    <3> SUFFICES ASSUME NEW t \in Socks PROVE Ordered(handed'[t], txq'[t], sentTx)
      BY <2>1, <2>2, <2>3 DEF TxOrder
    <3>1. CASE t = Head(bus)
      <4>1. txq'[t] = Tail(txq[t]) /\ handed'[t] = Append(handed[t], Head(txq[t]))
        BY <2>5, <3>1 DEF ke_sk_recv, Types
      <4>2. Ordered(handed[t], txq[t], sentTx)
        BY <2>3 DEF TxOrder
      <4> QED
        BY <1>s, <1>t, <2>2, <3>1, <4>1, <4>2, OrderedPop
    <3>2. CASE t # Head(bus)
      <4>1. txq'[t] = txq[t] /\ handed'[t] = handed[t]
        BY <2>5, <3>2 DEF ke_sk_recv, Types
      <4> QED
        BY <2>3, <4>1 DEF TxOrder
    <3> QED
      BY <3>1, <3>2
  <2> QED
    BY <1>3, <2>2, <2>4, <2>5 DEF hapd_intf_ke_rx_handle
<1>4. CASE fsocket_send_queue
  <2>1. /\ UNCHANGED <<handed, sentTx>> /\ op.kind = "queue" /\ op' = [kind |-> "post", sock |-> op.sock]
        /\ op.sock \in Socks /\ op.frame = sentTx /\ sentTx > 0
        /\ txq' = [txq EXCEPT ![op.sock] = Append(@, op.frame)]
    BY <1>4 DEF fsocket_send_queue, OpTypes, TxOrder, Untouched
  <2>2. \A t : TxBound(t)' = sentTx
    BY <2>1 DEF TxBound
  <2> SUFFICES ASSUME NEW t \in Socks PROVE Ordered(handed[t], txq'[t], sentTx)
    BY <2>1, <2>2 DEF TxOrder
  <2>3. CASE t = op.sock
    <3>1. Ordered(handed[t], txq[t], sentTx - 1)
      BY <2>1, <2>3 DEF TxOrder, TxBound
    <3>4. txq'[t] = Append(txq[t], sentTx)
      BY <2>1, <2>3 DEF Types
    <3>5. sentTx - 1 \in Nat /\ (sentTx - 1) + 1 = sentTx
      BY <1>t, <2>1
    <3>2. txq'[t] = Append(txq[t], sentTx) /\ sentTx - 1 \in Nat /\ (sentTx - 1) + 1 = sentTx
      BY <3>4, <3>5
    <3>3. Ordered(handed[t], Append(txq[t], (sentTx - 1) + 1), (sentTx - 1) + 1)
      BY <1>s, <3>1, <3>2, OrderedPush
    <3> QED
      BY <3>2, <3>3
  <2>4. CASE t # op.sock
    <3>1. txq'[t] = txq[t] /\ TxBound(t) = sentTx
      BY <2>1, <2>4 DEF Types, TxBound
    <3> QED
      BY <3>1 DEF TxOrder
  <2> QED
    BY <2>3, <2>4
<1>5. CASE /\ UNCHANGED <<txq, handed, sentTx>>
           /\ op' = op \/ (op.kind # "queue" /\ op'.kind # "queue")
  <2>1. \A t \in Socks : TxBound(t)' = TxBound(t)
    BY <1>5 DEF TxBound
  <2> QED
    BY <1>5, <2>1 DEF TxOrder
<1>6. \/ /\ UNCHANGED <<txq, handed, sentTx>>
         /\ op' = op \/ (op.kind # "queue" /\ op'.kind # "queue")
      \/ hapd_intf_ke_rx_handle \/ fsocket_send_queue
      \/ \E s \in Socks : fsocket_send(s) \/ fsocket_close(s)
  <2>1. ASSUME NEW s \in Socks, ke_sk_send(s) \/ fsocket_init(s) \/ eloop_register_read_sock(s)
        PROVE  UNCHANGED <<txq, handed, sentTx, op>>
    BY <2>1 DEF ke_sk_send, fsocket_init, eloop_register_read_sock, queues, ghosts
  <2>2. CASE wpa_hostapd_queue_poll \/ UNCHANGED vars
    BY <2>2 DEF wpa_hostapd_queue_poll, vars, queues, ghosts
  <2>3. CASE eloop_run \/ bmsg_skt_tx_sender
    BY <2>3 DEF eloop_run, bmsg_skt_tx_sender, ghosts, NoOp
  <2>4. CASE eloop_handler_sock_event
    BY <2>4 DEF eloop_handler_sock_event, AfterSock, NoOp, queues, ghosts
  <2>5. CASE fsocket_recv
    BY <2>5 DEF fsocket_recv, AfterSock, NoOp
  <2> QED
    BY <2>1, <2>2, <2>3, <2>4, <2>5 DEF Next, Wpas
<1> QED
  BY <1>1, <1>2, <1>3, <1>4, <1>5, <1>6
-----------------------------------------------------------------------------
(* The theorems                                                             *)

Inv == Types /\ OpTypes /\ Untouched /\ Tokens /\ RxOrder /\ TxOrder

LEMMA Invariance == CFG_NEW_SUPP /\ Spec => []Inv
<1>1. Init => Inv
  BY TypesInit, OpTypesInit, UntouchedInit, TokensInit, OrderInit DEF Inv
<1>2. CFG_NEW_SUPP /\ Inv /\ [Next]_vars => Inv'
  <2> SUFFICES ASSUME CFG_NEW_SUPP, Inv, [Next]_vars PROVE Inv'
    OBVIOUS
  <2>1. Types /\ OpTypes /\ Untouched /\ Tokens /\ RxOrder /\ TxOrder
    BY DEF Inv
  <2>2. Types' /\ OpTypes'
    BY <2>1, TypesNext, OpTypesNext
  <2>3. Untouched' /\ Tokens'
    BY <2>1, UntouchedNext, TokensNext
  <2>4. RxOrder' /\ TxOrder'
    BY <2>1, RxOrderNext, TxOrderNext
  <2> QED
    BY <2>2, <2>3, <2>4 DEF Inv
<1>3. CASE CFG_NEW_SUPP
  BY <1>1, <1>2, <1>3, PTL DEF Spec
<1>4. CASE ~ CFG_NEW_SUPP
  BY <1>4, PTL
<1> QED
  BY <1>3, <1>4

\* With sockets opened and closed in the wpas thread (CFG_NEW_SUPP), ASSERT(payload_size)
\* of hapd_intf_ke_rx_handle holds: every bus message finds its frame.
THEOREM PayloadFound == CFG_NEW_SUPP /\ Spec => []PayloadAssert
<1>1. Inv => PayloadAssert
  BY DEF Inv, Untouched, PayloadAssert
<1> QED
  BY <1>1, Invariance, PTL

\* With CFG_NEW_SUPP, every frame queued for the supplicant has a poll token or the
\* event under way, but for as many as os_malloc has failed.
THEOREM FramesHaveTokens == CFG_NEW_SUPP /\ Spec => []TokensCover
<1>1. Inv => TokensCover
  BY TokensIsCover DEF Inv
<1> QED
  BY <1>1, Invariance, PTL

\* With CFG_NEW_SUPP, frames keep their order in both directions, none arrives twice,
\* and the supplicant never reads an empty frame.
THEOREM FramesKeepOrder == CFG_NEW_SUPP /\ Spec => []FramesInOrder
<1>1. Inv => FramesInOrder
  <2> SUFFICES ASSUME Inv, NEW s \in Socks
               PROVE  /\ Increasing(received[s]) /\ Increasing(handed[s])
                      /\ \A i \in DOMAIN received[s] : received[s][i] # 0
    BY DEF FramesInOrder
  <2>1. Ordered(received[s], rxq[s], sentRx) /\ Ordered(handed[s], txq[s], TxBound(s))
    BY DEF Inv, RxOrder, TxOrder
  <2>2. sentRx \in Nat
    BY FakeSocketAssumption DEF Inv, Types
  <2> QED
    BY <2>1, <2>2 DEF Ordered
<1> QED
  BY <1>1, Invariance, PTL
=============================================================================
