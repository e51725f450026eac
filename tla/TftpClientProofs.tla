-------------------------- MODULE TftpClientProofs --------------------------
(***************************************************************************)
(* For an image of any length, any sector size and flash that holds it, any  *)
(* number of server ports and packets under way: an image header of the      *)
(* current download means a whole image, and a download that ends has        *)
(* stored the whole image when the network keeps the order of packets.       *)
(***************************************************************************)
EXTENDS TftpClient, SequenceTheorems, TLAPS

-----------------------------------------------------------------------------
(* Packets under way                                                        *)

Packets ==
    [type : {"oack"}, port : Ports, block : {0}] \cup [type : {"data"}, port : Ports, block : Blocks]

Requests == [type : {"rrq", "ack"}, port : Ports \cup {WellKnown}, block : 0 .. N]

\* A packet taken out of a queue leaves the others in their order.
LEMMA WithoutElements ==
    ASSUME NEW S, NEW q \in Seq(S), NEW i \in DOMAIN q
    PROVE  /\ Without(q, i) \in Seq(S) /\ Len(Without(q, i)) = Len(q) - 1
           /\ DOMAIN Without(q, i) = 1 .. Len(q) - 1 /\ Len(q) \in Nat /\ q[i] \in S
           /\ \A j \in DOMAIN Without(q, i) :
                 /\ (IF j < i THEN j ELSE j + 1) \in DOMAIN q
                 /\ Without(q, i)[j] = q[IF j < i THEN j ELSE j + 1]
<1>1. Len(q) \in Nat /\ i \in 1 .. Len(q) /\ DOMAIN q = 1 .. Len(q) /\ q[i] \in S
  BY LenProperties
<1> DEFINE a == SubSeq(q, 1, i - 1)
           b == SubSeq(q, i + 1, Len(q))
<1>2. a \in Seq(S) /\ Len(a) = i - 1 /\ \A j \in 1 .. i - 1 : a[j] = q[j]
  BY <1>1, SubSeqProperties
<1>3. b \in Seq(S) /\ Len(b) = Len(q) - i /\ \A j \in 1 .. Len(q) - i : b[j] = q[i + j]
  BY <1>1, SubSeqProperties
<1> HIDE DEF a, b
<1>4. /\ a \o b \in Seq(S) /\ Len(a \o b) = Len(a) + Len(b)
      /\ \A j \in 1 .. Len(a) + Len(b) :
            (a \o b)[j] = IF j <= Len(a) THEN a[j] ELSE b[j - Len(a)]
  BY <1>2, <1>3, ConcatProperties
<1>5. Len(a \o b) = Len(q) - 1 /\ DOMAIN (a \o b) = 1 .. Len(q) - 1
  <2>1. Len(a \o b) = Len(q) - 1
    BY <1>1, <1>2, <1>3, <1>4
  <2>2. DOMAIN (a \o b) = 1 .. Len(a \o b)
    BY <1>4, LenProperties
  <2> QED
    BY <2>1, <2>2
<1>6. ASSUME NEW j \in 1 .. Len(q) - 1
      PROVE  /\ (IF j < i THEN j ELSE j + 1) \in DOMAIN q
             /\ (a \o b)[j] = q[IF j < i THEN j ELSE j + 1]
  <2>1. CASE j < i
    BY <1>1, <1>2, <1>3, <1>4, <1>6, <2>1
  <2>2. CASE ~ (j < i)
    <3>1. j - (i - 1) \in 1 .. Len(q) - i /\ i + (j - (i - 1)) = j + 1
      BY <1>1, <1>6, <2>2
    <3>2. (a \o b)[j] = b[j - (i - 1)]
      BY <1>1, <1>2, <1>3, <1>4, <1>6, <2>2
    <3>3. b[j - (i - 1)] = q[j + 1]
      BY <1>3, <3>1
    <3> QED
      BY <1>1, <1>6, <2>2, <3>2, <3>3
  <2> QED
    BY <2>1, <2>2
<1> QED
  BY <1>1, <1>4, <1>5, <1>6 DEF Without, a, b

LEMMA SentElements ==
    ASSUME NEW S, NEW q \in Seq(S), NEW m \in S, NEW r \in Sent(q, m), Len(q) <= NetLen
    PROVE  /\ r \in Seq(S) /\ Len(r) <= NetLen
           /\ r = q \/ r = Append(q, m)
<1>1. r = q \/ (r = Append(q, m) /\ Len(q) < NetLen)
  BY DEF Sent
<1>2. Append(q, m) \in Seq(S) /\ Len(Append(q, m)) = Len(q) + 1 /\ Len(q) \in Nat
  BY AppendProperties
<1> QED
  BY <1>1, <1>2, TftpAssumption

LEMMA AppendElements ==
    ASSUME NEW S, NEW q \in Seq(S), NEW m \in S
    PROVE  /\ Len(q) \in Nat /\ DOMAIN q = 1 .. Len(q) /\ DOMAIN Append(q, m) = 1 .. Len(q) + 1
           /\ \A i \in DOMAIN Append(q, m) :
                 \/ i \in DOMAIN q /\ Append(q, m)[i] = q[i]
                 \/ i = Len(q) + 1 /\ Append(q, m)[i] = m
<1>1. /\ Len(q) \in Nat /\ DOMAIN q = 1 .. Len(q) /\ DOMAIN Append(q, m) = 1 .. Len(q) + 1
      /\ \A i \in 1 .. Len(q) : Append(q, m)[i] = q[i]
      /\ Append(q, m)[Len(q) + 1] = m
  BY AppendProperties
<1> QED
  BY <1>1
-----------------------------------------------------------------------------
(* Type correctness                                                         *)

NetTypes ==
    /\ toClient \in Seq(Packets) /\ toServer \in Seq(Requests)
    /\ srv \in [Ports -> Free .. Done]
    /\ rx \in Packets \cup {NoPacket}

\* The packet being handled is the one whose block is stored, inside the flash.
Handling ==
    /\ pc = "handle" => rx \in Packets
    /\ pc = "write" => addr < FlashLen
    /\ pc \in {"erase", "write", "commit"} => rx.type = "data" /\ rx.block = block

Typed == TypeOK /\ NetTypes /\ Handling

LEMMA ConstantTypes ==
    /\ N \in Nat /\ N >= 1 /\ Sector \in Nat /\ Sector >= 1 /\ FlashLen \in Nat /\ FlashLen >= N
    /\ TIMEOUT_COUNT \in Nat /\ NetLen \in Nat /\ NetLen >= 1 /\ Sessions \in Nat
BY TftpAssumption

LEMMA PacketShape ==
    ASSUME NEW m \in Packets
    PROVE  /\ m.port \in Ports /\ m.type \in {"oack", "data"} /\ m.block \in 0 .. N
           /\ m.type = "data" => m.block \in 1 .. N
           /\ m.type = "oack" => m.block = 0
BY ConstantTypes DEF Packets, Blocks

LEMMA PacketMade ==
    ASSUME NEW p \in Ports
    PROVE  /\ OackFrom(p) \in Packets
           /\ \A b \in 1 .. N : DataFrom(p, b) \in Packets
BY DEF OackFrom, DataFrom, Packets, Blocks

LEMMA TypedInit == Init => Typed
<1> SUFFICES ASSUME Init PROVE Typed
  OBVIOUS
<1>1. toClient \in Seq(Packets) /\ toServer \in Seq(Requests) /\ Len(toClient) = 0 /\ Len(toServer) = 0
  BY DEF Init
<1>2. srv \in [Ports -> Free .. Done]
  BY ConstantTypes DEF Init, Free, Done
<1>3. flash \in [Area -> {Garbled, Erased} \cup Blocks]
  BY DEF Init
<1>4. TypeOK
  BY <1>1, <1>3, ConstantTypes DEF Init, TypeOK
<1> QED
  BY <1>1, <1>2, <1>4 DEF Init, Typed, NetTypes, Handling

\* TftpSend and the server keep the network's types.
LEMMA TftpSendTypes ==
    ASSUME Typed, TftpSend(state)
    PROVE  toServer' \in Seq(Requests) /\ Len(toServer') <= NetLen
<1> DEFINE m == IF state = "rrq" THEN [type |-> "rrq", port |-> peer, block |-> 0]
                                 ELSE [type |-> "ack", port |-> peer, block |-> block]
<1>1. peer \in Ports \cup {WellKnown} /\ block \in 0 .. N /\ 0 \in 0 .. N
  BY ConstantTypes DEF Typed, TypeOK
<1>2. m \in Requests
  BY <1>1 DEF Requests
<1>3. toServer' \in Sent(toServer, m) /\ toServer \in Seq(Requests) /\ Len(toServer) <= NetLen
  BY DEF TftpSend, Typed, TypeOK, NetTypes
<1> HIDE DEF m
<1> QED
  BY <1>2, <1>3, SentElements

\* Only the network's side of the state changes.
ClientSame == UNCHANGED <<session, pc, state, block, lastBlock, serverPort, peer, rx,
                          addr, crc, flash, header, inOrder>>

LEMMA TypedNetwork ==
    ASSUME Typed, ClientSame, timeouts' \in 0 .. TIMEOUT_COUNT + 1,
           toClient' \in Seq(Packets), Len(toClient') <= NetLen,
           toServer' \in Seq(Requests), Len(toServer') <= NetLen,
           srv' \in [Ports -> Free .. Done]
    PROVE  Typed'
<1>1. TypeOK'
  BY DEF Typed, TypeOK, ClientSame
<1>2. NetTypes' /\ Handling'
  BY DEF Typed, NetTypes, Handling, ClientSame
<1> QED
  BY <1>1, <1>2 DEF Typed

LEMMA TypedRepeat ==
    ASSUME Typed, Repeat, UNCHANGED inOrder
    PROVE  Typed' /\ ClientSame
<1>1. PICK i \in DOMAIN toClient : toClient' = Append(toClient, toClient[i])
  BY DEF Repeat
<1>2. toClient[i] \in Packets /\ toClient \in Seq(Packets) /\ Len(toClient) < NetLen
  BY ElementOfSeq, LenProperties DEF Typed, NetTypes, Repeat
<1>3. toClient' \in Seq(Packets) /\ Len(toClient') <= NetLen
  BY <1>1, <1>2, AppendProperties, ConstantTypes
<1>4. ClientSame /\ UNCHANGED <<timeouts, toServer, srv>>
  BY DEF Repeat, ClientSame, thread, proto, store
<1>5. Typed'
  BY <1>3, <1>4, TypedNetwork DEF Typed, TypeOK, NetTypes
<1> QED
  BY <1>4, <1>5

LEMMA TypedResend ==
    ASSUME Typed, NEW p \in Ports, ServerResend(p), UNCHANGED inOrder
    PROVE  Typed' /\ ClientSame /\ ServerPacket(p) \in Packets
<1>1. toClient' = Append(toClient, ServerPacket(p)) /\ Len(toClient) < NetLen
  BY DEF ServerResend
<1>2. ServerPacket(p) \in Packets
  BY PacketMade DEF ServerResend, Serving, ServerPacket
<1>3. toClient' \in Seq(Packets) /\ Len(toClient') <= NetLen
  BY <1>1, <1>2, AppendProperties, ConstantTypes DEF Typed, NetTypes
<1>4. ClientSame /\ UNCHANGED <<timeouts, toServer, srv>>
  BY DEF ServerResend, ClientSame, thread, proto, store
<1>5. Typed'
  BY <1>3, <1>4, TypedNetwork DEF Typed, TypeOK, NetTypes
<1> QED
  BY <1>2, <1>4, <1>5

\* What the server does with the request it takes.
ServerStep(i, m) ==
    /\ i \in Positions(toServer) /\ i \in DOMAIN toServer
    /\ m = toServer[i] /\ m \in Requests
    /\ toServer' = Without(toServer, i)
    /\ \/ \E p \in Ports : /\ srv[p] = Free /\ srv' = [srv EXCEPT ![p] = 0]
                           /\ m.type = "rrq"
                           /\ toClient' \in Sent(toClient, OackFrom(p))
       \/ /\ m.type = "ack" /\ m.port \in Ports /\ m.block = srv[m.port] /\ m.block = N
          /\ srv' = [srv EXCEPT ![m.port] = Done] /\ UNCHANGED toClient
       \/ /\ m.type = "ack" /\ m.port \in Ports /\ m.block = srv[m.port] /\ m.block # N
          /\ srv' = [srv EXCEPT ![m.port] = @ + 1]
          /\ toClient' \in Sent(toClient, DataFrom(m.port, m.block + 1))
       \/ UNCHANGED <<srv, toClient>>

LEMMA ServerSteps ==
    ASSUME Typed, ServerReceive
    PROVE  \E i, m : ServerStep(i, m)
<1>1. PICK i \in Positions(toServer) :
          /\ toServer' = Without(toServer, i)
          /\ LET m == toServer[i] IN
              \/ /\ m.type = "rrq" /\ m.port = WellKnown
                 /\ \E p \in Ports :
                        /\ srv[p] = Free
                        /\ srv' = [srv EXCEPT ![p] = 0]
                        /\ toClient' \in Sent(toClient, OackFrom(p))
              \/ /\ m.type = "ack" /\ m.port \in Ports
                 /\ m.block = srv[m.port]
                 /\ IF m.block = N
                    THEN /\ srv' = [srv EXCEPT ![m.port] = Done]
                         /\ UNCHANGED toClient
                    ELSE /\ srv' = [srv EXCEPT ![m.port] = @ + 1]
                         /\ toClient' \in Sent(toClient, DataFrom(m.port, m.block + 1))
              \/ UNCHANGED <<srv, toClient>>
  BY DEF ServerReceive
<1>2. i \in DOMAIN toServer
  BY DEF Positions
<1>3. toServer[i] \in Requests
  BY <1>2, ElementOfSeq, LenProperties DEF Typed, NetTypes
<1> QED
  BY <1>1, <1>2, <1>3 DEF ServerStep

LEMMA TypedServer ==
    ASSUME Typed, ServerReceive, UNCHANGED inOrder
    PROVE  Typed' /\ ClientSame
<1>1. PICK i, m : ServerStep(i, m)
  BY ServerSteps
<1>2. /\ toServer \in Seq(Requests) /\ Len(toServer) <= NetLen
      /\ toClient \in Seq(Packets) /\ Len(toClient) <= NetLen
      /\ srv \in [Ports -> Free .. Done]
  BY DEF Typed, TypeOK, NetTypes
<1>3. toServer' \in Seq(Requests) /\ Len(toServer') <= NetLen
  <2>1. /\ Without(toServer, i) \in Seq(Requests) /\ Len(toServer) \in Nat
        /\ Len(Without(toServer, i)) = Len(toServer) - 1
    BY <1>1, <1>2, WithoutElements DEF ServerStep
  <2> QED
    BY <1>1, <1>2, <2>1, ConstantTypes DEF ServerStep
<1>4. /\ toClient' \in Seq(Packets) /\ Len(toClient') <= NetLen
      /\ srv' \in [Ports -> Free .. Done]
  <2>1. ASSUME NEW p \in Ports, srv' = [srv EXCEPT ![p] = 0], toClient' \in Sent(toClient, OackFrom(p))
        PROVE  /\ toClient' \in Seq(Packets) /\ Len(toClient') <= NetLen
               /\ srv' \in [Ports -> Free .. Done]
    <3>1. toClient' \in Seq(Packets) /\ Len(toClient') <= NetLen
      BY <1>2, <2>1, PacketMade, SentElements
    <3>2. 0 \in Free .. Done
      BY ConstantTypes DEF Free, Done
    <3> QED
      BY <1>2, <2>1, <3>1, <3>2
  <2>2. CASE /\ m.port \in Ports /\ srv' = [srv EXCEPT ![m.port] = Done] /\ UNCHANGED toClient
    <3>1. Done \in Free .. Done
      BY ConstantTypes DEF Free, Done
    <3> QED
      BY <1>2, <2>2, <3>1
  <2>3. CASE /\ m.port \in Ports /\ m.block = srv[m.port] /\ m.block # N
             /\ srv' = [srv EXCEPT ![m.port] = @ + 1]
             /\ toClient' \in Sent(toClient, DataFrom(m.port, m.block + 1))
    <3>1. m.block \in 0 .. N
      BY <1>1 DEF ServerStep, Requests
    <3>2. m.block + 1 \in 1 .. N
      BY <2>3, <3>1, ConstantTypes
    <3>3. toClient' \in Seq(Packets) /\ Len(toClient') <= NetLen
      BY <1>2, <2>3, <3>2, PacketMade, SentElements
    <3>4. srv[m.port] + 1 \in Free .. Done
      BY <2>3, <3>2, ConstantTypes DEF Free, Done
    <3> QED
      BY <1>2, <2>3, <3>3, <3>4
  <2>4. CASE UNCHANGED <<srv, toClient>>
    BY <1>2, <2>4
  <2> QED
    BY <1>1, <2>1, <2>2, <2>3, <2>4 DEF ServerStep
<1>5. ClientSame /\ UNCHANGED timeouts
  BY DEF ServerReceive, ClientSame, thread, proto, store
<1>6. Typed'
  BY <1>3, <1>4, <1>5, TypedNetwork DEF Typed, TypeOK
<1> QED
  BY <1>5, <1>6

LEMMA TypedTimeout ==
    ASSUME Typed, TftpTimeout, UNCHANGED inOrder
    PROVE  Typed' /\ ClientSame
<1>1. timeouts' \in 0 .. TIMEOUT_COUNT + 1
  BY ConstantTypes DEF TftpTimeout, Typed, TypeOK
<1>2. toServer' \in Seq(Requests) /\ Len(toServer') <= NetLen
  <2>1. CASE UNCHANGED toServer
    BY <2>1 DEF Typed, TypeOK, NetTypes
  <2>2. CASE TftpSend(state)
    BY <2>2, TftpSendTypes
  <2> QED
    BY <2>1, <2>2 DEF TftpTimeout
<1>3. ClientSame /\ UNCHANGED <<toClient, srv>>
  BY DEF TftpTimeout, ClientSame, thread, proto, store
<1>4. Typed'
  BY <1>1, <1>2, <1>3, TypedNetwork DEF Typed, TypeOK, NetTypes
<1> QED
  BY <1>3, <1>4

LEMMA TypedReceive ==
    ASSUME Typed, Receive, UNCHANGED inOrder
    PROVE  Typed'
<1>1. PICK i \in Positions(toClient) :
          rx' = toClient[i] /\ peer' = toClient[i].port /\ toClient' = Without(toClient, i)
  BY DEF Receive
<1>2. i \in DOMAIN toClient /\ toClient \in Seq(Packets) /\ Len(toClient) <= NetLen
  BY DEF Positions, Typed, TypeOK, NetTypes
<1>3. /\ toClient[i] \in Packets /\ toClient' \in Seq(Packets) /\ Len(toClient) \in Nat
      /\ Len(toClient') = Len(toClient) - 1
  BY <1>1, <1>2, WithoutElements
<1>4. Len(toClient') <= NetLen
  BY <1>2, <1>3, ConstantTypes
<1>5. rx' \in Packets /\ peer' \in Ports
  BY <1>1, <1>3, PacketShape
<1>6. /\ UNCHANGED <<session, proto, timeouts, store, toServer, srv, inOrder>> /\ pc' = "handle"
  BY DEF Receive
<1>7. TypeOK'
  BY <1>4, <1>5, <1>6 DEF Typed, TypeOK, proto, store
<1>8. NetTypes' /\ Handling'
  BY <1>3, <1>5, <1>6 DEF Typed, NetTypes, Handling
<1> QED
  BY <1>7, <1>8 DEF Typed

LEMMA TypedClient ==
    ASSUME Typed, ClientStep, UNCHANGED inOrder
    PROVE  Typed'
<1>t. TypeOK /\ NetTypes /\ Handling
  BY DEF Typed
<1>1. CASE TftpHandlerReject
  <2>1. TypeOK'
    BY <1>1, <1>t DEF TftpHandlerReject, TypeOK, proto, store, net
  <2>2. NetTypes' /\ Handling'
    BY <1>1, <1>t DEF TftpHandlerReject, NetTypes, Handling, net
  <2> QED
    BY <2>1, <2>2 DEF Typed
<1>2. CASE TftpHandlerOack
  <2>1. rx \in Packets
    BY <1>2, <1>t DEF TftpHandlerOack, Handling
  <2>2. rx.port \in Ports
    BY <2>1, PacketShape
  <2>3. TypeOK'
    BY <1>2, <1>t, <2>2 DEF TftpHandlerOack, TypeOK, store, net
  <2>4. NetTypes' /\ Handling'
    BY <1>2, <1>t DEF TftpHandlerOack, NetTypes, Handling, net
  <2> QED
    BY <2>3, <2>4 DEF Typed
<1>3. CASE TftpHandlerData
  <2>1. rx \in Packets /\ rx.type = "data"
    BY <1>3, <1>t DEF TftpHandlerData, Handling
  <2>2. rx.port \in Ports /\ rx.block \in 0 .. N
    BY <2>1, PacketShape
  <2>3. UNCHANGED <<session, peer, timeouts, rx, store, net>> /\ block' = rx.block
    BY <1>3 DEF TftpHandlerData
  <2>4. pc' \in {"recv", "ack", "erase"} /\ lastBlock' \in 0 .. N
    <3>1. lastBlock' \in {0, lastBlock, rx.block} /\ pc' \in {"recv", "ack", "erase"}
      BY <1>3 DEF TftpHandlerData
    <3> QED
      BY <1>t, <2>2, <3>1, ConstantTypes DEF TypeOK
  <2>5. TypeOK'
    BY <1>3, <1>t, <2>2, <2>3, <2>4 DEF TftpHandlerData, TypeOK, store, net
  <2>6. NetTypes' /\ Handling'
    BY <1>t, <2>1, <2>3, <2>4 DEF NetTypes, Handling, net
  <2> QED
    BY <2>5, <2>6 DEF Typed
<1>4. CASE store_block_erase
  <2>1. /\ UNCHANGED <<session, proto, peer, timeouts, rx, header, net>>
        /\ addr' = StoreStart /\ pc' = IF InFlash(addr') THEN "write" ELSE "ack"
        /\ pc = "erase"
    BY <1>4 DEF store_block_erase
  <2>2. addr' \in 0 .. FlashLen /\ crc' \in -1 .. N
    BY <1>4, <1>t, ConstantTypes DEF store_block_erase, StoreStart, TypeOK
  <2>3. flash' \in [Area -> {Garbled, Erased} \cup Blocks]
    BY <1>4, <1>t DEF store_block_erase, TypeOK
  <2>4. TypeOK'
    BY <1>t, <2>1, <2>2, <2>3 DEF TypeOK, proto, net
  <2>5. NetTypes' /\ Handling'
    BY <1>t, <2>1 DEF NetTypes, Handling, InFlash, net, proto
  <2> QED
    BY <2>4, <2>5 DEF Typed
<1>5. CASE store_block_write
  <2>1. /\ UNCHANGED <<session, proto, peer, timeouts, rx, net>> /\ pc = "write"
        /\ addr' = addr + 1 /\ pc' \in {"commit", "ack"} /\ (header' = 0 \/ header' = header)
    BY <1>5 DEF store_block_write
  <2>2. addr < FlashLen /\ rx.type = "data" /\ rx.block = block /\ rx \in Packets \cup {NoPacket}
    BY <1>t, <2>1 DEF NetTypes, Handling
  <2>3. block \in 1 .. N
    BY <2>2, PacketShape DEF NoPacket
  <2>4. addr' \in 0 .. FlashLen /\ header' \in 0 .. Sessions
    BY <1>t, <2>1, <2>2, ConstantTypes DEF TypeOK
  <2>5. crc' \in -1 .. N
    BY <1>5, <2>3, ConstantTypes DEF store_block_write
  <2>6. flash' \in [Area -> {Garbled, Erased} \cup Blocks]
    BY <1>5, <1>t, <2>3 DEF store_block_write, TypeOK, Blocks
  <2>7. TypeOK'
    BY <1>t, <2>1, <2>4, <2>5, <2>6 DEF TypeOK, proto, net
  <2>8. NetTypes' /\ Handling'
    BY <1>t, <2>1 DEF NetTypes, Handling, net, proto
  <2> QED
    BY <2>7, <2>8 DEF Typed
<1>6. CASE store_block_commit
  <2>1. TypeOK'
    BY <1>6, <1>t DEF store_block_commit, TypeOK, proto, net
  <2>2. NetTypes' /\ Handling'
    BY <1>6, <1>t DEF store_block_commit, NetTypes, Handling, net
  <2> QED
    BY <2>1, <2>2 DEF Typed
<1>7. CASE Acknowledge
  <2>1. toServer' \in Seq(Requests) /\ Len(toServer') <= NetLen
    BY <1>7, TftpSendTypes DEF Acknowledge
  <2>2. /\ UNCHANGED <<session, proto, peer, timeouts, rx, store, toClient, srv>>
        /\ pc' \in {"succeed", "recv"}
    BY <1>7 DEF Acknowledge
  <2>3. TypeOK'
    BY <1>t, <2>1, <2>2 DEF TypeOK, proto, store
  <2>4. NetTypes' /\ Handling'
    BY <1>t, <2>1, <2>2 DEF NetTypes, Handling
  <2> QED
    BY <2>3, <2>4 DEF Typed
<1> QED
  BY <1>1, <1>2, <1>3, <1>4, <1>5, <1>6, <1>7 DEF ClientStep

LEMMA TypedRestart ==
    ASSUME Typed, tftp_start \/ PowerFail, UNCHANGED inOrder
    PROVE  Typed'
<1>1. /\ toClient' \in Seq(Packets) /\ toServer' \in Seq(Requests)
      /\ Len(toClient') = 0 /\ Len(toServer') = 0
  <2>1. toClient' = <<>> /\ toServer' = <<>>
    BY DEF tftp_start, PowerFail, Disconnect
  <2> QED
    BY <2>1, EmptySeq
<1>2. srv' \in [Ports -> Free .. Done]
  BY ConstantTypes DEF tftp_start, PowerFail, Disconnect, Free, Done
<1>3. /\ pc' \in {"recv", "off"} /\ state' = "rrq" /\ block' = 0 /\ serverPort' = WellKnown
      /\ crc' = 0 /\ timeouts' = 0 /\ peer' = WellKnown /\ rx' = NoPacket
      /\ UNCHANGED <<flash, header>>
  BY DEF tftp_start, PowerFail
<1>4. /\ session' = session \/ (session < Sessions /\ session' = session + 1)
      /\ lastBlock' = 0 \/ lastBlock' = lastBlock
      /\ addr' = 0 \/ addr' = addr
  BY DEF tftp_start, PowerFail
<1>5. session' \in 0 .. Sessions /\ lastBlock' \in 0 .. N /\ addr' \in 0 .. FlashLen
  BY <1>4, ConstantTypes DEF Typed, TypeOK
<1>6. TypeOK'
  BY <1>1, <1>3, <1>5, ConstantTypes DEF Typed, TypeOK
<1>7. NetTypes' /\ Handling'
  BY <1>1, <1>2, <1>3 DEF NetTypes, Handling
<1> QED
  BY <1>6, <1>7 DEF Typed

LEMMA TypedNext == Typed /\ [Next]_vars => Typed'
<1>1. CASE UNCHANGED vars
  <2>1. ClientSame /\ UNCHANGED <<timeouts, toClient, toServer, srv>>
    BY <1>1 DEF vars, thread, proto, store, net, ClientSame
  <2> QED
    BY <2>1, TypedNetwork DEF Typed, TypeOK, NetTypes
<1> QED
  BY <1>1, TypedRepeat, TypedResend, TypedServer, TypedTimeout, TypedReceive, TypedClient, TypedRestart
     DEF Next, Step

\* The variables of the client stay within their types: block numbers within the image,
\* the address within the flash, the count of timeouts within its limit.
THEOREM TypeCorrect == Spec => []TypeOK
<1>1. Typed => TypeOK
  BY DEF Typed
<1> QED
  BY <1>1, TypedInit, TypedNext, PTL DEF Spec
-----------------------------------------------------------------------------
(* The image area                                                           *)

\* Cells from addr to the end of its sector.
Left == Sector - (addr % Sector)

\* The rest of a sector that was begun is erased, and the sector being written to.
Clean ==
    addr % Sector # 0 \/ pc = "write" =>
        \A a \in Area : addr <= a /\ a < addr + Left => flash[a] = Erased

\* While the checksum is that of blocks 1 .. crc, these are in their places and the
\* next one goes behind them.
Prefix ==
    /\ crc >= 1 => addr = crc /\ \A b \in 1 .. crc : flash[b - 1] = b
    /\ pc = "write" /\ block = 1 => addr = 0 /\ crc = 0

\* After the header of this download nothing is stored any more.
HeaderLast ==
    /\ header <= session
    /\ header # 0 /\ header = session =>
          Whole /\ (pc \in {"off", "succeed"} \/ (pc = "ack" /\ Ends))
    /\ pc = "commit" => Whole /\ Ends

Image == Clean /\ Prefix /\ HeaderLast

LEMMA ModType ==
    ASSUME NEW x \in Nat
    PROVE  x % Sector \in 0 .. Sector - 1
BY ConstantTypes

LEMMA ModStep ==
    ASSUME NEW x \in Nat, (x + 1) % Sector # 0
    PROVE  (x + 1) % Sector = (x % Sector) + 1
<1> DEFINE p == x \div Sector
           r == x % Sector
           q == (x + 1) \div Sector
           s == (x + 1) % Sector
<1>1. /\ p \in Int /\ r \in 0 .. Sector - 1 /\ x = Sector * p + r
      /\ q \in Int /\ s \in 0 .. Sector - 1 /\ x + 1 = Sector * q + s
  BY ConstantTypes
<1>2. s # 0
  OBVIOUS
<1> HIDE DEF p, q, r, s
<1>3. Sector * (p - q) = s - 1 - r /\ Sector \in Nat /\ Sector >= 1
  BY <1>1, ConstantTypes
<1>4. CASE p - q >= 1
  <2>1. Sector * (p - q) >= Sector
    BY <1>1, <1>3, <1>4
  <2> QED
    BY <1>1, <1>2, <1>3, <2>1
<1>5. CASE p - q <= -1
  <2>1. Sector * (p - q) <= -Sector
    BY <1>1, <1>3, <1>5
  <2> QED
    BY <1>1, <1>2, <1>3, <2>1
<1>6. CASE p = q
  <2>0. p - q = 0 /\ Sector * 0 = 0
    BY <1>1, <1>3, <1>6
  <2>1. s = r + 1
    BY <1>1, <1>3, <2>0
  <2> QED
    BY <2>1 DEF r, s
<1> QED
  BY <1>1, <1>4, <1>5, <1>6

LEMMA ImageInit == Init => Image
<1> SUFFICES ASSUME Init PROVE Image
  OBVIOUS
<1>1. 0 % Sector = 0
  BY ConstantTypes
<1>2. Clean
  BY <1>1 DEF Init, Clean
<1>3. Prefix /\ HeaderLast
  BY DEF Init, Prefix, HeaderLast
<1> QED
  BY <1>2, <1>3 DEF Image

\* Nothing is stored and the header is not written.
LEMMA ImageKept ==
    ASSUME Typed, Image, UNCHANGED <<session, addr, crc, flash, header>>,
           pc' \notin {"write", "commit"} \/ (pc' = pc /\ block' = block /\ rx' = rx),
           \/ pc' \in {"off", "succeed"} \/ (pc' = pc /\ rx' = rx)
           \/ pc \notin {"off", "succeed", "ack"} \/ (pc = "ack" /\ ~Ends)
    PROVE  Image'
<1>1. Clean'
  BY DEF Image, Clean, Left
<1>2. Prefix'
  BY DEF Image, Prefix
<1>3. HeaderLast'
  BY DEF Image, HeaderLast, Whole, Ends
<1> QED
  BY <1>1, <1>2, <1>3 DEF Image

LEMMA ImageErase ==
    ASSUME Typed, Image, store_block_erase
    PROVE  Image'
<1>t. addr \in 0 .. FlashLen /\ addr' \in Nat /\ crc \in -1 .. N /\ flash \in [Area -> {Garbled, Erased} \cup Blocks]
  BY ConstantTypes DEF store_block_erase, StoreStart, Typed, TypeOK
<1>1. /\ pc = "erase" /\ addr' = IF block = 1 THEN 0 ELSE addr
      /\ crc' = IF block = 1 THEN 0 ELSE crc
      /\ pc' \in {"write", "ack"} /\ UNCHANGED <<session, header, block>>
  BY DEF store_block_erase, StoreStart, proto
<1>2. flash' = IF addr' % Sector = 0
               THEN [a \in Area |-> IF addr' <= a /\ a < addr' + Sector THEN Erased ELSE flash[a]]
               ELSE flash
  BY DEF store_block_erase
<1>3. Clean'
  <2>1. CASE addr' % Sector = 0
    <3>1. addr' + Left' = addr' + Sector
      <4>1. Left' = Sector - 0
        BY <2>1 DEF Left
      <4>2. Sector - 0 = Sector
        BY ConstantTypes
      <4> QED
        BY <4>1, <4>2
    <3> QED
      BY <1>2, <2>1, <3>1 DEF Clean
  <2>2. CASE addr' % Sector # 0
    <3>z. 0 % Sector = 0
      BY ConstantTypes
    <3>1. addr' = addr /\ flash' = flash
      BY <1>1, <1>2, <2>2, <3>z
    <3> QED
      BY <2>2, <3>1 DEF Image, Clean, Left
  <2> QED
    BY <2>1, <2>2
<1>4. Prefix'
  <2>1. CASE block = 1
    BY <1>1, <2>1 DEF Prefix
  <2>2. CASE block # 1
    <3>1. addr' = addr /\ crc' = crc
      BY <1>1, <2>2
    <3>2. ASSUME crc >= 1, NEW b \in 1 .. crc PROVE flash'[b - 1] = b
      <4>1. addr = crc /\ flash[b - 1] = b
        BY <3>2 DEF Image, Prefix
      <4>2. b - 1 \in Area /\ b - 1 < addr
        BY <1>t, <3>2, <4>1, ConstantTypes DEF Area
      <4>3. flash'[b - 1] = flash[b - 1]
        BY <1>2, <1>t, <3>1, <4>2
      <4> QED
        BY <4>1, <4>3
    <3> QED
      BY <1>1, <2>2, <3>1, <3>2 DEF Image, Prefix
  <2> QED
    BY <2>1, <2>2
<1>5. HeaderLast'
  BY <1>1 DEF Image, HeaderLast
<1> QED
  BY <1>3, <1>4, <1>5 DEF Image

LEMMA ImageWrite ==
    ASSUME Typed, Image, store_block_write
    PROVE  Image'
<1>t. /\ addr \in Nat /\ addr < FlashLen /\ addr \in Area /\ crc \in -1 .. N
      /\ flash \in [Area -> {Garbled, Erased} \cup Blocks]
  BY ConstantTypes DEF store_block_write, Typed, TypeOK, Handling, Area
<1>b. block \in 1 .. N /\ N <= FlashLen
  <2>1. rx \in Packets \cup {NoPacket} /\ rx.type = "data" /\ rx.block = block
    BY DEF store_block_write, Typed, NetTypes, Handling
  <2> QED
    BY <2>1, PacketShape, ConstantTypes DEF NoPacket
<1>1. /\ pc = "write" /\ addr' = addr + 1 /\ UNCHANGED <<session, block, rx>>
      /\ crc' = IF crc + 1 = block THEN block ELSE -1
      /\ pc' \in {"commit", "ack"}
  BY DEF store_block_write, proto
<1>2. flash[addr] = Erased
  <2>1. addr < addr + Left
    BY <1>t, ModType, ConstantTypes DEF Left
  <2> QED
    BY <1>1, <1>t, <2>1 DEF Image, Clean
<1>3. flash' = [flash EXCEPT ![addr] = block]
  BY <1>2 DEF store_block_write
<1>4. Clean'
  <2> SUFFICES ASSUME (addr + 1) % Sector # 0, NEW a \in Area, addr + 1 <= a, a < addr + 1 + Left'
               PROVE  flash'[a] = Erased
    BY <1>1 DEF Clean
  <2>1. (addr + 1) % Sector = (addr % Sector) + 1 /\ addr % Sector \in 0 .. Sector - 1
    BY <1>t, ModStep, ModType
  <2>2. Left' = Sector - ((addr % Sector) + 1) /\ Left = Sector - (addr % Sector)
    BY <1>1, <2>1 DEF Left
  <2>3. a \in Nat /\ addr <= a /\ a < addr + Left /\ a # addr
    BY <1>t, <2>1, <2>2, ConstantTypes DEF Area
  <2>4. flash[a] = Erased
    BY <1>1, <2>3 DEF Image, Clean
  <2> QED
    BY <1>3, <1>t, <2>3, <2>4
<1>5. Prefix'
  <2>1. CASE crc + 1 = block
    <3>1. crc >= 0 /\ addr = crc /\ crc' = block /\ crc + 1 = block /\ addr' = crc'
      BY <1>1, <1>b, <1>t, <2>1 DEF Image, Prefix
    <3>2. ASSUME NEW b \in 1 .. block PROVE flash'[b - 1] = b
      <4>1. CASE b = block
        BY <1>3, <1>t, <3>1, <4>1
      <4>2. CASE b # block
        <5>1. b \in 1 .. crc /\ crc >= 1 /\ b - 1 # addr /\ b - 1 \in Area
          BY <1>b, <1>t, <3>1, <3>2, <4>2, ConstantTypes DEF Area
        <5>2. flash[b - 1] = b
          BY <5>1 DEF Image, Prefix
        <5> QED
          BY <1>3, <1>t, <5>1, <5>2
      <4> QED
        BY <4>1, <4>2
    <3> QED
      BY <1>1, <3>1, <3>2 DEF Prefix
  <2>2. CASE crc + 1 # block
    BY <1>1, <2>2 DEF Prefix
  <2> QED
    BY <2>1, <2>2
<1>6. HeaderLast'
  <2>1. CASE block = N /\ CrcOk(crc')
    <3>1. header' = 0 /\ pc' = "commit" /\ crc' = N
      BY <2>1 DEF store_block_write, CrcOk
    <3>2. Whole'
      BY <1>5, <3>1, ConstantTypes DEF Prefix, Whole, Blocks
    <3>3. Ends'
      BY <1>1, <2>1 DEF Ends, Typed, Handling
    <3> QED
      BY <1>1, <3>1, <3>2, <3>3, ConstantTypes DEF HeaderLast, Typed, TypeOK
  <2>2. CASE ~ (block = N /\ CrcOk(crc'))
    <3>1. header' = header /\ pc' = "ack"
      BY <2>2 DEF store_block_write
    <3> QED
      BY <1>1, <3>1 DEF Image, HeaderLast
  <2> QED
    BY <2>1, <2>2
<1> QED
  BY <1>4, <1>5, <1>6 DEF Image

LEMMA ImageNext ==
    ASSUME Typed, Image, [Next]_vars
    PROVE  Image'
<1>1. CASE ClientSame
  BY <1>1, ImageKept DEF ClientSame
<1>2. CASE Receive
  <2>1. pc = "recv" /\ pc' = "handle" /\ UNCHANGED <<session, addr, crc, flash, header>>
    BY <1>2 DEF Receive, store
  <2> QED
    BY <2>1, ImageKept
<1>3. CASE TftpHandlerReject \/ TftpHandlerOack \/ TftpHandlerData
  <2>1. /\ pc = "handle" /\ pc' \in {"recv", "ack", "erase"}
        /\ UNCHANGED <<session, addr, crc, flash, header>>
    BY <1>3 DEF TftpHandlerReject, TftpHandlerOack, TftpHandlerData, store
  <2> QED
    BY <2>1, ImageKept
<1>4. CASE store_block_erase
  BY <1>4, ImageErase
<1>5. CASE store_block_write
  BY <1>5, ImageWrite
<1>6. CASE store_block_commit
  <2>1. /\ pc = "commit" /\ pc' = "ack" /\ header' = session
        /\ UNCHANGED <<session, block, rx, addr, crc, flash>>
    BY <1>6 DEF store_block_commit, proto
  <2>2. Clean'
    BY <2>1 DEF Image, Clean, Left
  <2>3. Prefix'
    BY <2>1 DEF Image, Prefix
  <2>4. HeaderLast'
    BY <2>1 DEF Image, HeaderLast, Whole, Ends, Typed, TypeOK
  <2> QED
    BY <2>2, <2>3, <2>4 DEF Image
<1>7. CASE Acknowledge
  <2>1. /\ pc = "ack" /\ (pc' = "succeed" \/ (pc' = "recv" /\ ~Ends))
        /\ UNCHANGED <<session, addr, crc, flash, header>>
    BY <1>7 DEF Acknowledge, store
  <2> QED
    BY <2>1, ImageKept
<1>8. CASE tftp_start
  <2>1. /\ session' = session + 1 /\ pc' = "recv" /\ crc' = 0
        /\ UNCHANGED <<addr, flash, header>>
    BY <1>8 DEF tftp_start
  <2>2. Clean'
    BY <2>1 DEF Image, Clean, Left
  <2>3. Prefix'
    BY <2>1 DEF Prefix
  <2>4. header' <= session' /\ header' # session'
    BY <2>1 DEF Image, HeaderLast, Typed, TypeOK
  <2>5. HeaderLast'
    BY <2>1, <2>4 DEF HeaderLast
  <2> QED
    BY <2>2, <2>3, <2>5 DEF Image
<1>9. CASE PowerFail
  <2>1. /\ pc' = "off" /\ addr' = 0 /\ crc' = 0 /\ 0 % Sector = 0
        /\ UNCHANGED <<session, flash, header>>
    BY <1>9, ConstantTypes DEF PowerFail
  <2>2. Clean'
    BY <2>1 DEF Clean
  <2>3. Prefix'
    BY <2>1 DEF Prefix
  <2>4. HeaderLast'
    BY <2>1 DEF Image, HeaderLast, Whole
  <2> QED
    BY <2>2, <2>3, <2>4 DEF Image
<1>10. CASE UNCHANGED vars
  <2>1. ClientSame
    BY <1>10 DEF vars, thread, proto, store, ClientSame
  <2> QED
    BY <1>1, <2>1
<1> QED
  BY <1>1, <1>2, <1>3, <1>4, <1>5, <1>6, <1>7, <1>8, <1>9, <1>10,
     TypedRepeat, TypedResend, TypedServer, TypedTimeout
     DEF Next, Step, ClientStep

\* As long as no further download has begun, an image header in flash means that the
\* area holds every block in its place: whatever the network did, whatever block
\* numbers store_block was given, wherever the power failed.
THEOREM HeaderMeansWhole == Spec => []HeaderWhole
<1>1. Init => Typed /\ Image
  BY TypedInit, ImageInit
<1>2. Typed /\ Image /\ [Next]_vars => (Typed /\ Image)'
  BY TypedNext, ImageNext
<1>3. Typed /\ Image => HeaderWhole
  BY DEF Image, HeaderLast, HeaderWhole
<1> QED
  BY <1>1, <1>2, <1>3, PTL DEF Spec
-----------------------------------------------------------------------------
(* The client and its server in step, on a network that keeps the order     *)

\* The packets of port p in queue q do not go back, and are within lo .. hi.
Rising(q, p, lo, hi) ==
    /\ \A i \in DOMAIN q : q[i].port = p => lo <= q[i].block /\ q[i].block <= hi
    /\ \A i, j \in DOMAIN q :
          i < j /\ q[i].port = p /\ q[j].port = p => q[i].block <= q[j].block

\* Until the client has accepted a server, servers only answer its requests.
Quiet ==
    state = "rrq" =>
        /\ block = 0 /\ crc = 0 /\ pc \in {"off", "recv", "handle"}
        /\ \A p \in Ports : srv[p] \in {Free, 0}
        /\ \A i \in DOMAIN toClient : toClient[i].type = "oack" /\ srv[toClient[i].port] = 0
        /\ \A i \in DOMAIN toServer : toServer[i].type = "rrq"
        /\ pc = "handle" => rx.type = "oack" /\ srv[rx.port] = 0

\* Then the accepted server is at the client's block or at the next one, whatever the
\* client acknowledged to other servers.
Ahead ==
    state # "rrq" =>
        /\ serverPort \in Ports /\ srv[serverPort] \in {block, block + 1}
        /\ Rising(toClient, serverPort, block, srv[serverPort])
        /\ \A i \in DOMAIN toServer :
              toServer[i].type = "ack" /\ toServer[i].port = serverPort => toServer[i].block <= block
        /\ pc = "handle" /\ rx.port = serverPort =>
              /\ block <= rx.block /\ rx.block <= srv[serverPort]
              /\ Rising(toClient, serverPort, rx.block, srv[serverPort])

\* And the checksum is that of all blocks up to it.
Stored ==
    state # "rrq" =>
        /\ state = "oack" => /\ block = 0 /\ pc \in {"recv", "handle", "ack"}
                             /\ pc = "ack" => rx.type # "data"
        /\ state = "data" => block >= 1 /\ lastBlock = block
        /\ crc = IF pc \in {"erase", "write"} THEN block - 1 ELSE block
        /\ pc = "ack" /\ rx.type = "data" => rx.block = block
        /\ pc = "succeed" => block = N

InStep == inOrder => Quiet /\ Ahead /\ Stored

LEMMA RisingAppend ==
    ASSUME NEW q \in Seq(Packets), NEW m \in Packets, NEW p, NEW lo \in Int, NEW hi \in Int,
           NEW top \in Int, Rising(q, p, lo, hi), hi <= top, m.port = p => m.block = top /\ lo <= top
    PROVE  Rising(Append(q, m), p, lo, top)
<1> DEFINE a == Append(q, m)
<1>1. /\ Len(q) \in Nat /\ DOMAIN q = 1 .. Len(q) /\ DOMAIN a = 1 .. Len(q) + 1
      /\ \A i \in DOMAIN a : (i \in DOMAIN q /\ a[i] = q[i]) \/ (i = Len(q) + 1 /\ a[i] = m)
  BY AppendElements
<1>2. \A i \in DOMAIN q : q[i] \in Packets /\ q[i].block \in Int
  <2>1. \A i \in DOMAIN q : q[i] \in Packets
    BY <1>1, ElementOfSeq
  <2>2. \A i \in DOMAIN q : q[i].block \in 0 .. N
    BY <2>1, PacketShape
  <2> QED
    BY <2>1, <2>2, ConstantTypes
<1> HIDE DEF a
<1>3. ASSUME NEW i \in DOMAIN a, a[i].port = p PROVE lo <= a[i].block /\ a[i].block <= top
  <2>1. CASE i \in DOMAIN q /\ a[i] = q[i]
    BY <1>2, <1>3, <2>1 DEF Rising
  <2>2. CASE a[i] = m
    BY <1>3, <2>2
  <2> QED
    BY <1>1, <2>1, <2>2
<1>4. ASSUME NEW i \in DOMAIN a, NEW j \in DOMAIN a, i < j, a[i].port = p, a[j].port = p
      PROVE  a[i].block <= a[j].block
  <2>1. i \in DOMAIN q /\ a[i] = q[i]
    BY <1>1, <1>4
  <2>2. CASE j \in DOMAIN q /\ a[j] = q[j]
    BY <1>4, <2>1, <2>2 DEF Rising
  <2>3. CASE a[j] = m
    BY <1>2, <1>4, <2>1, <2>3 DEF Rising
  <2> QED
    BY <1>1, <2>2, <2>3
<1> QED
  BY <1>3, <1>4 DEF Rising, a

LEMMA RisingTake ==
    ASSUME NEW q \in Seq(Packets), 1 \in DOMAIN q, NEW p, NEW lo \in Int, NEW hi \in Int,
           Rising(q, p, lo, hi)
    PROVE  /\ Rising(Without(q, 1), p, lo, hi)
           /\ q[1].port = p => /\ lo <= q[1].block /\ q[1].block <= hi
                               /\ Rising(Without(q, 1), p, q[1].block, hi)
<1> DEFINE w == Without(q, 1)
<1>1. /\ DOMAIN w = 1 .. Len(q) - 1 /\ Len(q) \in Nat
      /\ \A j \in DOMAIN w : /\ (IF j < 1 THEN j ELSE j + 1) \in DOMAIN q
                             /\ w[j] = q[IF j < 1 THEN j ELSE j + 1]
  BY WithoutElements
<1>2. \A j \in DOMAIN w : j \in Int /\ j >= 1 /\ j + 1 \in DOMAIN q /\ w[j] = q[j + 1]
  BY <1>1
<1> HIDE DEF w
<1>3. ASSUME NEW i \in DOMAIN w, NEW j \in DOMAIN w, i < j, w[i].port = p, w[j].port = p
      PROVE  w[i].block <= w[j].block
  <2>1. /\ i + 1 \in DOMAIN q /\ w[i] = q[i + 1] /\ j + 1 \in DOMAIN q /\ w[j] = q[j + 1]
        /\ i + 1 < j + 1
    BY <1>2, <1>3
  <2> QED
    BY <1>3, <2>1 DEF Rising
<1>4. Rising(w, p, lo, hi)
  BY <1>2, <1>3 DEF Rising
<1>5. ASSUME q[1].port = p
      PROVE  lo <= q[1].block /\ q[1].block <= hi /\ Rising(w, p, q[1].block, hi)
  <2>1. lo <= q[1].block /\ q[1].block <= hi
    BY <1>5 DEF Rising
  <2>2. ASSUME NEW j \in DOMAIN w, w[j].port = p PROVE q[1].block <= w[j].block /\ w[j].block <= hi
    <3>1. j + 1 \in DOMAIN q /\ 1 < j + 1 /\ w[j] = q[j + 1]
      BY <1>2, <2>2
    <3> QED
      BY <1>5, <2>2, <3>1 DEF Rising
  <2> QED
    BY <1>3, <2>1, <2>2 DEF Rising
<1> QED
  BY <1>4, <1>5 DEF w

LEMMA RisingWider ==
    ASSUME NEW q \in Seq(Packets), NEW p, NEW lo, NEW hi \in Int, NEW top \in Int,
           Rising(q, p, lo, hi), hi <= top
    PROVE  Rising(q, p, lo, top)
<1>1. \A i \in DOMAIN q : q[i] \in Packets
  BY ElementOfSeq, LenProperties
<1>2. \A i \in DOMAIN q : q[i].block \in 0 .. N
  BY <1>1, PacketShape
<1> QED
  BY <1>2, ConstantTypes DEF Rising

LEMMA InStepInit == Init => InStep
BY DEF Init, InStep, Quiet, Ahead, Stored

\* A packet added to the client's queue: an answer, or the block of its server.
LEMMA InStepResend ==
    ASSUME Typed, InStep, inOrder, NEW p \in Ports, ServerResend(p), UNCHANGED inOrder
    PROVE  Quiet' /\ Ahead' /\ Stored'
<1> DEFINE m == ServerPacket(p)
<1>1. ClientSame /\ m \in Packets
  BY TypedResend
<1>2. toClient' = Append(toClient, m) /\ UNCHANGED <<toServer, srv>> /\ toClient \in Seq(Packets)
  BY DEF ServerResend, Typed, NetTypes
<1>3. m.port = p /\ m.block = srv[p] /\ (srv[p] = 0 => m.type = "oack") /\ srv[p] \in 0 .. N
  BY DEF ServerResend, Serving, ServerPacket, OackFrom, DataFrom
<1>e. \A i \in DOMAIN toClient' :
          (i \in DOMAIN toClient /\ toClient'[i] = toClient[i]) \/ toClient'[i] = m
  BY <1>1, <1>2, AppendElements
<1> HIDE DEF m
<1>4. Quiet'
  <2> SUFFICES ASSUME state = "rrq" PROVE Quiet'
    BY <1>1 DEF Quiet, ClientSame
  <2>1. srv[p] = 0
    BY <1>3, ConstantTypes DEF InStep, Quiet, Free
  <2>2. \A i \in DOMAIN toClient' : toClient'[i].type = "oack" /\ srv[toClient'[i].port] = 0
    BY <1>3, <1>e, <2>1 DEF InStep, Quiet
  <2> QED
    BY <1>1, <1>2, <2>2 DEF InStep, Quiet, ClientSame
<1>5. Ahead'
  <2> SUFFICES ASSUME state # "rrq" PROVE Ahead'
    BY <1>1 DEF Ahead, ClientSame
  <2>1. /\ Rising(toClient, serverPort, block, srv[serverPort]) /\ serverPort \in Ports
        /\ srv[serverPort] \in {block, block + 1} /\ block \in Int /\ srv[serverPort] \in Int
    BY ConstantTypes DEF InStep, Ahead, Typed, TypeOK
  <2>2. Rising(toClient', serverPort, block, srv[serverPort])
    BY <1>1, <1>2, <1>3, <2>1, RisingAppend
  <2>3. ASSUME pc = "handle", rx.port = serverPort
        PROVE  Rising(toClient', serverPort, rx.block, srv[serverPort])
    <3>1. /\ Rising(toClient, serverPort, rx.block, srv[serverPort]) /\ rx.block <= srv[serverPort]
          /\ rx \in Packets
      BY <2>3 DEF InStep, Ahead, Typed, Handling
    <3>2. rx.block \in Int
      BY <3>1, PacketShape, ConstantTypes
    <3> QED
      BY <1>1, <1>2, <1>3, <2>1, <3>1, <3>2, RisingAppend
  <2> QED
    BY <1>1, <1>2, <2>2, <2>3 DEF InStep, Ahead, ClientSame
<1>6. Stored'
  BY <1>1 DEF InStep, Stored, ClientSame
<1> QED
  BY <1>4, <1>5, <1>6

\* The client's packet: the request while there is no server, or the acknowledgement
\* of its block.
LEMMA InStepSend ==
    ASSUME Typed, InStep, inOrder, TftpSend(state),
           UNCHANGED <<state, block, lastBlock, serverPort, rx, crc, toClient, srv>>,
           pc' = pc \/ (pc' # "handle" /\ state # "rrq")
    PROVE  Quiet' /\ Ahead'
<1> DEFINE m == IF state = "rrq" THEN [type |-> "rrq", port |-> peer, block |-> 0]
                                 ELSE [type |-> "ack", port |-> peer, block |-> block]
<1>1. toServer' = toServer \/ toServer' = Append(toServer, m)
  BY DEF TftpSend, Sent
<1>2. m \in Requests /\ toServer \in Seq(Requests)
  <2>1. peer \in Ports \cup {WellKnown} /\ block \in 0 .. N /\ 0 \in 0 .. N
    BY ConstantTypes DEF Typed, TypeOK
  <2> QED
    BY <2>1 DEF Requests, Typed, NetTypes
<1>3. m.type = (IF state = "rrq" THEN "rrq" ELSE "ack") /\ (state # "rrq" => m.block = block)
  OBVIOUS
<1> HIDE DEF m
<1>4. \A i \in DOMAIN toServer' :
          (i \in DOMAIN toServer /\ toServer'[i] = toServer[i]) \/ toServer'[i] = m
  BY <1>1, <1>2, AppendElements
<1>5. Quiet'
  BY <1>3, <1>4 DEF InStep, Quiet
<1>6. Ahead'
  <2>1. block \in Int
    BY DEF Typed, TypeOK
  <2> QED
    BY <1>3, <1>4, <2>1 DEF InStep, Ahead
<1> QED
  BY <1>5, <1>6

\* The server answers a request on a free port, or goes on to the next block.
LEMMA InStepServer ==
    ASSUME Typed, InStep, inOrder, ServerReceive, UNCHANGED inOrder
    PROVE  Quiet' /\ Ahead' /\ Stored'
<1>1. PICK i, m : ServerStep(i, m)
  BY ServerSteps
<1>2. /\ toServer \in Seq(Requests) /\ toClient \in Seq(Packets) /\ srv \in [Ports -> Free .. Done]
      /\ block \in 0 .. N
  BY DEF Typed, TypeOK, NetTypes
<1>3. ClientSame
  BY TypedServer
<1>4. \A j \in DOMAIN toServer' : \E k \in DOMAIN toServer : toServer'[j] = toServer[k]
  <2>1. i \in DOMAIN toServer /\ toServer' = Without(toServer, i)
    BY <1>1 DEF ServerStep
  <2>2. \A j \in DOMAIN Without(toServer, i) :
            /\ (IF j < i THEN j ELSE j + 1) \in DOMAIN toServer
            /\ Without(toServer, i)[j] = toServer[IF j < i THEN j ELSE j + 1]
    BY <1>2, <2>1, WithoutElements
  <2> QED
    BY <2>1, <2>2
<1>5. Quiet'
  <2> SUFFICES ASSUME state = "rrq" PROVE Quiet'
    BY <1>3 DEF Quiet, ClientSame
  <2>q. Quiet
    BY DEF InStep
  <2>1. m.type = "rrq"
    BY <1>1, <2>q DEF ServerStep, Quiet
  <2>2. \A j \in DOMAIN toServer' : toServer'[j].type = "rrq"
    BY <1>4, <2>q DEF Quiet
  <2>3. CASE UNCHANGED <<srv, toClient>>
    BY <1>3, <2>2, <2>3, <2>q DEF Quiet, ClientSame
  <2>4. ASSUME NEW p \in Ports, srv[p] = Free, srv' = [srv EXCEPT ![p] = 0],
               toClient' \in Sent(toClient, OackFrom(p))
        PROVE  Quiet'
    <3>1. toClient' = toClient \/ toClient' = Append(toClient, OackFrom(p))
      BY <2>4 DEF Sent
    <3>2. \A j \in DOMAIN toClient' :
              (j \in DOMAIN toClient /\ toClient'[j] = toClient[j]) \/ toClient'[j] = OackFrom(p)
      BY <1>2, <3>1, PacketMade, AppendElements
    <3>3. \A r \in Ports : srv'[r] = 0 \/ srv'[r] = srv[r]
      BY <1>2, <2>4
    <3>4. srv'[p] = 0 /\ OackFrom(p).port = p /\ OackFrom(p).type = "oack"
      BY <1>2, <2>4 DEF OackFrom
    <3>5. \A j \in DOMAIN toClient : toClient[j].port \in Ports
      <4>1. \A j \in DOMAIN toClient : toClient[j] \in Packets
        BY <1>2, ElementOfSeq, LenProperties
      <4> QED
        BY <4>1, PacketShape
    <3>6. \A j \in DOMAIN toClient' : toClient'[j].type = "oack" /\ srv'[toClient'[j].port] = 0
      BY <2>q, <3>2, <3>3, <3>4, <3>5 DEF Quiet
    <3>7. pc = "handle" => rx.type = "oack" /\ srv'[rx.port] = 0
      <4>1. pc = "handle" => rx.port \in Ports
        BY PacketShape DEF Typed, Handling
      <4> QED
        BY <2>q, <3>3, <4>1 DEF Quiet
    <3>8. \A r \in Ports : srv'[r] \in {Free, 0}
      BY <2>q, <3>3 DEF Quiet
    <3> QED
      BY <1>3, <2>2, <2>q, <3>6, <3>7, <3>8 DEF Quiet, ClientSame
  <2> QED
    BY <1>1, <2>1, <2>3, <2>4 DEF ServerStep
<1>6. Ahead'
  <2> SUFFICES ASSUME state # "rrq" PROVE Ahead'
    BY <1>3 DEF Ahead, ClientSame
  <2> DEFINE p == serverPort
  <2>a. /\ p \in Ports /\ srv[p] \in {block, block + 1} /\ srv[p] \in Int /\ block \in Int
        /\ Rising(toClient, p, block, srv[p])
        /\ \A j \in DOMAIN toServer :
              toServer[j].type = "ack" /\ toServer[j].port = p => toServer[j].block <= block
        /\ pc = "handle" /\ rx.port = p =>
              /\ block <= rx.block /\ rx.block <= srv[p] /\ rx.block \in Int
              /\ Rising(toClient, p, rx.block, srv[p])
    <3>1. pc = "handle" => rx.block \in 0 .. N
      BY PacketShape DEF Typed, Handling
    <3> QED
      BY <1>2, <3>1, ConstantTypes DEF InStep, Ahead
  <2>b. \A j \in DOMAIN toServer' :
            toServer'[j].type = "ack" /\ toServer'[j].port = p => toServer'[j].block <= block
    BY <1>4, <2>a
  <2> HIDE DEF p
  <2> DEFINE Goal == /\ srv'[p] \in {block, block + 1}
                     /\ Rising(toClient', p, block, srv'[p])
                     /\ pc = "handle" /\ rx.port = p =>
                           rx.block <= srv'[p] /\ Rising(toClient', p, rx.block, srv'[p])
  <2> SUFFICES Goal
    BY <1>3, <2>a, <2>b DEF Ahead, ClientSame, p
  <2>1. CASE UNCHANGED <<srv, toClient>>
    BY <2>1, <2>a
  <2>2. ASSUME NEW pkt \in Packets, pkt.port # p, srv'[p] = srv[p],
               toClient' = toClient \/ toClient' = Append(toClient, pkt)
        PROVE  Goal
    <3>w. ASSUME NEW lo \in Int, Rising(toClient, p, lo, srv[p])
          PROVE  Rising(toClient', p, lo, srv[p])
      <4>1. srv[p] <= srv[p] /\ (pkt.port = p => pkt.block = srv[p] /\ lo <= srv[p])
        BY <2>2, <2>a
      <4>2. Rising(Append(toClient, pkt), p, lo, srv[p])
        BY <1>2, <2>a, <3>w, <4>1, RisingAppend
      <4> QED
        BY <2>2, <3>w, <4>2
    <3>1. Rising(toClient', p, block, srv[p])
      BY <2>a, <3>w
    <3>2. pc = "handle" /\ rx.port = p => Rising(toClient', p, rx.block, srv[p])
      BY <2>a, <3>w
    <3> QED
      BY <2>2, <2>a, <3>1, <3>2
  <2>3. ASSUME NEW r \in Ports, srv[r] = Free, srv' = [srv EXCEPT ![r] = 0],
               toClient' \in Sent(toClient, OackFrom(r))
        PROVE  Goal
    <3>1. r # p /\ srv'[p] = srv[p]
      BY <1>2, <2>3, <2>a, ConstantTypes DEF Free
    <3>2. OackFrom(r) \in Packets /\ OackFrom(r).port = r
      BY PacketMade DEF OackFrom
    <3>3. toClient' = toClient \/ toClient' = Append(toClient, OackFrom(r))
      BY <2>3 DEF Sent
    <3> QED
      BY <2>2, <3>1, <3>2, <3>3
  <2>4. CASE m.type = "ack" /\ m.port = p /\ m.block = srv[p]
    <3>1. srv[p] = block
      BY <1>1, <2>4, <2>a DEF ServerStep
    <3>2. CASE m.block = N /\ srv' = [srv EXCEPT ![m.port] = Done] /\ UNCHANGED toClient
      <4>1. srv'[p] = block + 1
        BY <1>2, <2>4, <2>a, <3>1, <3>2 DEF Done
      <4>2. Rising(toClient, p, block, block + 1)
        BY <1>2, <2>a, <3>1, RisingWider
      <4>3. pc = "handle" /\ rx.port = p => Rising(toClient, p, rx.block, block + 1) /\ rx.block <= block + 1
        BY <1>2, <2>a, <3>1, RisingWider
      <4> QED
        BY <3>2, <4>1, <4>2, <4>3
    <3>3. CASE /\ m.block # N /\ srv' = [srv EXCEPT ![m.port] = @ + 1]
               /\ toClient' \in Sent(toClient, DataFrom(m.port, m.block + 1))
      <4> DEFINE pkt == DataFrom(p, block + 1)
      <4>1. srv'[p] = block + 1
        BY <1>2, <2>4, <2>a, <3>1, <3>3
      <4>2. toClient' = toClient \/ toClient' = Append(toClient, pkt)
        BY <2>4, <3>1, <3>3 DEF Sent
      <4>3. pkt \in Packets /\ pkt.block = block + 1
        <5>1. block + 1 \in 1 .. N
          BY <1>2, <2>4, <3>1, <3>3, ConstantTypes
        <5> QED
          BY <2>a, <5>1, PacketMade DEF DataFrom
      <4> HIDE DEF pkt
      <4>w. ASSUME NEW lo \in Int, lo <= block, Rising(toClient, p, lo, block)
            PROVE  Rising(toClient', p, lo, block + 1)
        <5>1. Rising(toClient, p, lo, block + 1)
          BY <1>2, <2>a, <4>w, RisingWider
        <5>2. Rising(Append(toClient, pkt), p, lo, block + 1)
          BY <1>2, <2>a, <4>3, <4>w, RisingAppend
        <5> QED
          BY <4>2, <5>1, <5>2
      <4>4. Rising(toClient', p, block, block + 1)
        BY <2>a, <3>1, <4>w
      <4>5. pc = "handle" /\ rx.port = p => Rising(toClient', p, rx.block, block + 1) /\ rx.block <= block + 1
        BY <2>a, <3>1, <4>w
      <4> QED
        BY <4>1, <4>4, <4>5
    <3>4. CASE \E r \in Ports : /\ srv[r] = Free /\ srv' = [srv EXCEPT ![r] = 0]
                                /\ toClient' \in Sent(toClient, OackFrom(r))
      BY <2>3, <3>4
    <3> QED
      BY <1>1, <2>1, <3>2, <3>3, <3>4 DEF ServerStep
  <2>5. CASE m.type = "ack" /\ m.port \in Ports /\ m.port # p /\ m.block = srv[m.port]
    <3>1. CASE m.block = N /\ srv' = [srv EXCEPT ![m.port] = Done] /\ UNCHANGED toClient
      <4>1. srv'[p] = srv[p]
        BY <1>2, <2>5, <2>a, <3>1
      <4> QED
        BY <2>a, <3>1, <4>1
    <3>2. CASE /\ m.block # N /\ srv' = [srv EXCEPT ![m.port] = @ + 1]
               /\ toClient' \in Sent(toClient, DataFrom(m.port, m.block + 1))
      <4>1. srv'[p] = srv[p]
        BY <1>2, <2>5, <2>a, <3>2
      <4>2. m.block + 1 \in 1 .. N
        BY <1>1, <3>2, ConstantTypes DEF ServerStep, Requests
      <4>3. DataFrom(m.port, m.block + 1) \in Packets /\ DataFrom(m.port, m.block + 1).port = m.port
        BY <2>5, <4>2, PacketMade DEF DataFrom
      <4>4. toClient' = toClient \/ toClient' = Append(toClient, DataFrom(m.port, m.block + 1))
        BY <3>2 DEF Sent
      <4> QED
        BY <2>2, <2>5, <4>1, <4>3, <4>4
    <3>3. CASE \E r \in Ports : /\ srv[r] = Free /\ srv' = [srv EXCEPT ![r] = 0]
                                /\ toClient' \in Sent(toClient, OackFrom(r))
      BY <2>3, <3>3
    <3> QED
      BY <1>1, <2>1, <3>1, <3>2, <3>3 DEF ServerStep
  <2>6. CASE \E r \in Ports : /\ srv[r] = Free /\ srv' = [srv EXCEPT ![r] = 0]
                              /\ toClient' \in Sent(toClient, OackFrom(r))
    BY <2>3, <2>6
  <2> HIDE DEF Goal
  <2> QED
    BY <1>1, <2>1, <2>4, <2>5, <2>6 DEF ServerStep
<1>7. Stored'
  BY <1>3 DEF InStep, Stored, ClientSame
<1> QED
  BY <1>5, <1>6, <1>7

\* The client takes the oldest packet.
LEMMA InStepReceive ==
    ASSUME Typed, InStep, inOrder, Receive, UNCHANGED inOrder
    PROVE  Quiet' /\ Ahead' /\ Stored'
<1>1. 1 \in DOMAIN toClient /\ rx' = toClient[1] /\ toClient' = Without(toClient, 1)
  BY DEF Receive, Positions
<1>2. /\ pc = "recv" /\ pc' = "handle"
      /\ UNCHANGED <<state, block, lastBlock, serverPort, crc, toServer, srv>>
  BY DEF Receive, proto, store
<1>3. toClient \in Seq(Packets) /\ block \in Int /\ srv \in [Ports -> Free .. Done]
  BY DEF Typed, TypeOK, NetTypes
<1>4. \A j \in DOMAIN toClient' : \E k \in DOMAIN toClient : toClient'[j] = toClient[k]
  <2>1. \A j \in DOMAIN Without(toClient, 1) :
            /\ (IF j < 1 THEN j ELSE j + 1) \in DOMAIN toClient
            /\ Without(toClient, 1)[j] = toClient[IF j < 1 THEN j ELSE j + 1]
    BY <1>1, <1>3, WithoutElements
  <2> QED
    BY <1>1, <2>1
<1>5. Quiet'
  BY <1>1, <1>2, <1>4 DEF InStep, Quiet
<1>6. Ahead'
  <2> SUFFICES ASSUME state # "rrq" PROVE Ahead'
    BY <1>2 DEF Ahead
  <2>1. /\ serverPort \in Ports /\ srv[serverPort] \in {block, block + 1}
        /\ Rising(toClient, serverPort, block, srv[serverPort])
    BY DEF InStep, Ahead
  <2>2. srv[serverPort] \in Int
    BY <1>3, <2>1
  <2>3. /\ Rising(toClient', serverPort, block, srv[serverPort])
        /\ rx'.port = serverPort =>
              /\ block <= rx'.block /\ rx'.block <= srv[serverPort]
              /\ Rising(toClient', serverPort, rx'.block, srv[serverPort])
    BY <1>1, <1>3, <2>1, <2>2, RisingTake
  <2> QED
    BY <1>2, <2>1, <2>3 DEF InStep, Ahead
<1>7. Stored'
  BY <1>2 DEF InStep, Stored
<1> QED
  BY <1>5, <1>6, <1>7

LEMMA InStepOack ==
    ASSUME Typed, InStep, inOrder, TftpHandlerOack
    PROVE  Quiet' /\ Ahead' /\ Stored'
<1>1. /\ pc = "handle" /\ Accepted /\ rx.type = "oack" /\ state' = "oack" /\ serverPort' = rx.port
      /\ pc' = "ack" /\ UNCHANGED <<block, lastBlock, rx, crc, toClient, toServer, srv>>
  BY DEF TftpHandlerOack, store, net
<1>2. rx \in Packets /\ rx.port \in Ports /\ rx.block = 0
  BY <1>1, PacketShape DEF Typed, Handling
<1>t. block \in 0 .. N /\ toClient \in Seq(Packets)
  BY DEF Typed, TypeOK, NetTypes
<1>3. Quiet'
  BY <1>1 DEF Quiet
<1>4. CASE state = "rrq"
  <2>1. /\ block = 0 /\ crc = 0 /\ srv[rx.port] = 0
        /\ \A i \in DOMAIN toClient : toClient[i].type = "oack"
        /\ \A i \in DOMAIN toServer : toServer[i].type = "rrq"
    BY <1>1, <1>4 DEF InStep, Quiet
  <2>2. \A i \in DOMAIN toClient : toClient[i].block = 0
    <3>1. \A i \in DOMAIN toClient : toClient[i] \in Packets
      BY <1>t, ElementOfSeq, LenProperties
    <3> QED
      BY <2>1, <3>1, PacketShape
  <2>3. Rising(toClient, rx.port, 0, 0)
    BY <2>2 DEF Rising
  <2>4. Ahead'
    BY <1>1, <1>2, <2>1, <2>3 DEF Ahead
  <2>5. Stored'
    BY <1>1, <2>1 DEF Stored
  <2> QED
    BY <1>3, <2>4, <2>5
<1>5. CASE state # "rrq"
  <2>1. rx.port = serverPort
    BY <1>1, <1>5 DEF Accepted
  <2>2. block <= 0
    BY <1>1, <1>2, <1>5, <2>1 DEF InStep, Ahead
  <2>3. block = 0
    BY <1>t, <2>2, ConstantTypes
  <2>4. Ahead'
    BY <1>1, <1>5, <2>1 DEF InStep, Ahead
  <2>5. crc = 0
    BY <1>1, <1>5, <2>3 DEF InStep, Stored
  <2>6. Stored'
    BY <1>1, <2>3, <2>5 DEF Stored
  <2> QED
    BY <1>3, <2>4, <2>6
<1> QED
  BY <1>4, <1>5

\* The block is the client's own again, or the next one.
LEMMA InStepData ==
    ASSUME Typed, InStep, inOrder, TftpHandlerData
    PROVE  Quiet' /\ Ahead' /\ Stored'
<1>1. /\ pc = "handle" /\ Accepted /\ rx.type = "data" /\ state' = "data" /\ serverPort' = rx.port
      /\ block' = rx.block /\ UNCHANGED <<rx, crc, toClient, toServer, srv>>
  BY DEF TftpHandlerData, store, net
<1>2. rx.block \in 1 .. N
  BY <1>1, PacketShape DEF Typed, Handling
<1>t. block \in 0 .. N /\ state \in {"rrq", "oack", "data"}
  BY DEF Typed, TypeOK
<1>3. state # "rrq" /\ rx.port = serverPort
  BY <1>1 DEF InStep, Quiet, Accepted
<1>4. /\ serverPort \in Ports /\ srv[serverPort] \in {block, block + 1}
      /\ block <= rx.block /\ rx.block <= srv[serverPort]
      /\ Rising(toClient, serverPort, rx.block, srv[serverPort])
      /\ \A i \in DOMAIN toServer :
            toServer[i].type = "ack" /\ toServer[i].port = serverPort => toServer[i].block <= block
  BY <1>1, <1>3 DEF InStep, Ahead
<1>5. rx.block \in {block, block + 1} /\ srv[serverPort] \in {rx.block, rx.block + 1}
  BY <1>2, <1>4, <1>t
<1>6. crc = block /\ (state = "oack" => block = 0) /\ (state = "data" => block >= 1 /\ lastBlock = block)
  BY <1>1, <1>3 DEF InStep, Stored
<1>7. \/ pc' = "ack" /\ rx.block = block /\ lastBlock' = rx.block
      \/ pc' = "erase" /\ rx.block = block + 1 /\ lastBlock' = rx.block
  <2>1. CASE state = "oack"
    <3>1. First /\ rx.block = 1 /\ block = 0
      BY <1>2, <1>5, <1>6, <2>1 DEF First
    <3> QED
      BY <3>1 DEF TftpHandlerData
  <2>2. CASE state = "data"
    <3>1. ~First /\ lastBlock = block
      BY <1>6, <2>2 DEF First
    <3>2. CASE rx.block = block
      BY <3>1, <3>2 DEF TftpHandlerData
    <3>3. CASE rx.block # block
      BY <1>5, <3>1, <3>3 DEF TftpHandlerData
    <3> QED
      BY <3>2, <3>3
  <2> QED
    BY <1>3, <1>t, <2>1, <2>2
<1>8. Quiet'
  BY <1>1 DEF Quiet
<1>9. Ahead'
  <2>1. \A i \in DOMAIN toServer :
            toServer[i].type = "ack" /\ toServer[i].port = serverPort => toServer[i].block <= rx.block
    <3>1. \A i \in DOMAIN toServer : toServer[i] \in Requests
      BY ElementOfSeq, LenProperties DEF Typed, NetTypes
    <3>2. \A i \in DOMAIN toServer : toServer[i].block \in 0 .. N
      BY <3>1 DEF Requests
    <3> QED
      BY <1>2, <1>4, <1>t, <3>2
  <2>2. pc' # "handle"
    BY <1>7
  <2> QED
    BY <1>1, <1>3, <1>4, <1>5, <2>1, <2>2 DEF Ahead
<1>10. Stored'
  <2>1. CASE pc' = "ack" /\ rx.block = block /\ lastBlock' = rx.block
    BY <1>1, <1>2, <1>6, <2>1 DEF Stored
  <2>2. CASE pc' = "erase" /\ rx.block = block + 1 /\ lastBlock' = rx.block
    <3>1. crc' = block' - 1
      BY <1>1, <1>6, <1>t, <2>2
    <3> QED
      BY <1>1, <1>2, <2>2, <3>1 DEF Stored
  <2> QED
    BY <1>7, <2>1, <2>2
<1> QED
  BY <1>8, <1>9, <1>10

\* The block is stored behind those before it, in the flash.
LEMMA InStepStore ==
    ASSUME Typed, Image, InStep, inOrder,
           store_block_erase \/ store_block_write \/ store_block_commit
    PROVE  Quiet' /\ Ahead' /\ Stored'
<1>1. /\ pc \in {"erase", "write", "commit"} /\ pc' \in {"write", "commit", "ack"}
      /\ UNCHANGED <<state, block, lastBlock, serverPort, rx, toClient, toServer, srv>>
  BY DEF store_block_erase, store_block_write, store_block_commit, proto, net
<1>2. state = "data"
  BY <1>1 DEF InStep, Quiet, Stored, Typed, TypeOK
<1>3. Quiet' /\ Ahead'
  BY <1>1, <1>2 DEF InStep, Quiet, Ahead
<1>4. /\ block >= 1 /\ lastBlock = block /\ block \in 0 .. N /\ rx.block = block
      /\ crc = IF pc \in {"erase", "write"} THEN block - 1 ELSE block
  BY <1>1, <1>2 DEF InStep, Stored, Typed, TypeOK, Handling
<1>5. crc' = IF pc' \in {"erase", "write"} THEN block - 1 ELSE block
  <2>1. CASE store_block_erase
    <3>1. pc = "erase" /\ crc = block - 1 /\ crc' = IF block = 1 THEN 0 ELSE crc
      BY <1>4, <2>1 DEF store_block_erase
    <3>2. crc' = block - 1
      BY <1>4, <3>1
    <3>3. addr' < FlashLen
      <4>1. CASE block = 1
        BY <2>1, <4>1, ConstantTypes DEF store_block_erase, StoreStart
      <4>2. CASE block # 1
        <5>1. crc >= 1 /\ crc < N
          BY <1>4, <3>1, <4>2, ConstantTypes
        <5>2. addr' = addr /\ addr = crc
          BY <2>1, <4>2, <5>1 DEF store_block_erase, StoreStart, Image, Prefix
        <5> QED
          BY <1>4, <3>1, <5>1, <5>2, ConstantTypes
      <4> QED
        BY <4>1, <4>2
    <3>4. pc' = "write"
      BY <2>1, <3>3 DEF store_block_erase, InFlash
    <3> QED
      BY <3>2, <3>4
  <2>2. CASE store_block_write
    <3>1. pc = "write" /\ crc = block - 1 /\ pc' \in {"commit", "ack"}
      BY <1>4, <2>2 DEF store_block_write
    <3>2. crc + 1 = block
      BY <1>4, <3>1
    <3> QED
      BY <2>2, <3>1, <3>2 DEF store_block_write
  <2>3. CASE store_block_commit
    BY <1>4, <2>3 DEF store_block_commit
  <2> QED
    BY <2>1, <2>2, <2>3
<1>6. Stored'
  BY <1>1, <1>2, <1>4, <1>5 DEF Stored
<1> QED
  BY <1>3, <1>6

LEMMA InStepNext ==
    ASSUME Typed, Image, InStep, [Next]_vars
    PROVE  InStep'
<1> SUFFICES ASSUME inOrder PROVE Quiet' /\ Ahead' /\ Stored'
  BY DEF InStep, Next, vars
<1>o. inOrder' = inOrder
  BY DEF Next, vars
<1>1. CASE Repeat
  BY <1>1 DEF Repeat
<1>2. ASSUME NEW p \in Ports, ServerResend(p) PROVE Quiet' /\ Ahead' /\ Stored'
  BY <1>2, <1>o, InStepResend
<1>3. CASE ServerReceive
  BY <1>3, <1>o, InStepServer
<1>4. CASE TftpTimeout
  <2>1. /\ UNCHANGED <<pc, state, block, lastBlock, serverPort, rx, crc, toClient, srv>>
        /\ toServer' = toServer \/ TftpSend(state)
    BY <1>4 DEF TftpTimeout, thread, proto, store
  <2>2. Stored'
    BY <2>1 DEF InStep, Stored
  <2>3. CASE toServer' = toServer
    BY <2>1, <2>2, <2>3 DEF InStep, Quiet, Ahead
  <2>4. CASE TftpSend(state)
    BY <2>1, <2>2, <2>4, InStepSend
  <2> QED
    BY <2>1, <2>3, <2>4
<1>5. CASE Receive
  BY <1>5, <1>o, InStepReceive
<1>6. CASE TftpHandlerReject
  <2>1. /\ pc = "handle" /\ state # "rrq" /\ pc' = "recv"
        /\ UNCHANGED <<state, block, lastBlock, serverPort, rx, crc, toClient, toServer, srv>>
    BY <1>6 DEF TftpHandlerReject, Accepted, proto, store, net
  <2> QED
    BY <2>1 DEF InStep, Quiet, Ahead, Stored
<1>7. CASE TftpHandlerOack
  BY <1>7, InStepOack
<1>8. CASE TftpHandlerData
  BY <1>8, InStepData
<1>9. CASE store_block_erase \/ store_block_write \/ store_block_commit
  BY <1>9, InStepStore
<1>10. CASE Acknowledge
  <2>1. /\ pc = "ack" /\ TftpSend(state) /\ pc' = IF Ends THEN "succeed" ELSE "recv"
        /\ UNCHANGED <<state, block, lastBlock, serverPort, rx, crc, toClient, srv>>
    BY <1>10 DEF Acknowledge, proto, store
  <2>2. state # "rrq"
    BY <2>1 DEF InStep, Quiet
  <2>3. Quiet' /\ Ahead'
    BY <2>1, <2>2, InStepSend
  <2>4. Stored'
    BY <2>1, <2>2 DEF InStep, Stored, Ends
  <2> QED
    BY <2>3, <2>4
<1>11. CASE tftp_start \/ PowerFail
  <2>1. /\ state' = "rrq" /\ block' = 0 /\ crc' = 0 /\ pc' \in {"recv", "off"}
        /\ toClient' = <<>> /\ toServer' = <<>> /\ srv' = [p \in Ports |-> Free]
    BY <1>11 DEF tftp_start, PowerFail, Disconnect
  <2> QED
    BY <2>1 DEF Quiet, Ahead, Stored
<1>12. CASE UNCHANGED vars
  <2>1. UNCHANGED <<pc, state, block, lastBlock, serverPort, rx, crc, toClient, toServer, srv>>
    BY <1>12 DEF vars, thread, proto, store, net
  <2> QED
    BY <2>1 DEF InStep, Quiet, Ahead, Stored
<1> QED
  BY <1>1, <1>2, <1>3, <1>4, <1>5, <1>6, <1>7, <1>8, <1>9, <1>10, <1>11, <1>12
     DEF Next, Step, ClientStep

\* When the network keeps the order of packets, a thread that Tftp_Uninit ends after a
\* short block has stored the whole image: although the timer acknowledges to any port
\* a packet came from, and several servers may have answered.
THEOREM ReceivedMeansWhole == Spec => []ReceivedWhole
<1>1. Init => Typed /\ Image /\ InStep
  BY TypedInit, ImageInit, InStepInit
<1>2. Typed /\ Image /\ InStep /\ [Next]_vars => (Typed /\ Image /\ InStep)'
  BY TypedNext, ImageNext, InStepNext
<1>3. Typed /\ Image /\ InStep => ReceivedWhole
  <2> SUFFICES ASSUME Typed, Image, InStep, inOrder, pc = "succeed" PROVE Whole
    BY DEF ReceivedWhole
  <2>1. state # "rrq"
    BY DEF InStep, Quiet
  <2>2. crc = N
    BY <2>1 DEF InStep, Stored
  <2> QED
    BY <2>2, ConstantTypes DEF Image, Prefix, Whole, Blocks
<1> QED
  BY <1>1, <1>2, <1>3, PTL DEF Spec
=============================================================================
