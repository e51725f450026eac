----------------------------- MODULE TftpClient ------------------------------
(* Firmware update over TFTP (app/tftp/tftpclient.c): the client thread      *)
(* receives the blocks of an image and stores them in flash, a periodic      *)
(* timer repeats the last packet, and the image header that makes the boot   *)
(* loader take the image is written when the checksum of all packets agrees. *)
(* Packets may be lost and, unless inOrder, overtake and repeat one another; *)
(* the power may fail.  The server is external: RFC 1350 with options, a     *)
(* port for each request it receives, and repetition of its last packet.     *)
EXTENDS Integers, Sequences, FiniteSets

CONSTANTS
    N,              \* blocks of the image; the last one is short
    Sector,         \* blocks in a flash sector
    FlashLen,       \* blocks that fit in the flash
    TIMEOUT_COUNT,  \* # of timeouts before giving up
    Ports,          \* ports the server may use
    NetLen,         \* bound: packets under way in each direction
    Sessions        \* bound: downloads started

WellKnown == "69"   \* WELL_KNOWN_PORT

ASSUME TftpAssumption ==
    /\ N \in Nat \ {0} /\ Sector \in Nat \ {0} /\ FlashLen \in Nat /\ FlashLen >= N
    /\ TIMEOUT_COUNT \in Nat /\ NetLen \in Nat \ {0} /\ Sessions \in Nat
    /\ IsFiniteSet(Ports) /\ WellKnown \notin Ports

VARIABLES
    session,        \* number of the download, 0 before the first
    pc,             \* the client thread: "off", "recv", "handle", "erase", "write",
                    \* "commit", "ack", "succeed"
    state,          \* TftpState
    block,          \* TftpBlock
    lastBlock,      \* TftpLastBlock
    serverPort,     \* TftpServerPort
    peer,           \* server_addr: where the last packet came from
    timeouts,       \* TftpTimeoutCount
    rx,             \* the packet being handled
    addr,           \* os_data_addr, in blocks
    crc,            \* tftp_crc: k after exactly blocks 1 .. k, -1 after anything else
    flash,          \* what the image area holds
    header,         \* session whose image header is in flash, 0 for none
    toClient, toServer,  \* packets under way
    inOrder,        \* the network: packets neither overtake nor repeat one another
    srv             \* per port: block awaiting its acknowledgement, or Free, Done

thread == <<session, pc>>
proto == <<state, block, lastBlock, serverPort>>
store == <<addr, crc, flash, header>>
net == <<toClient, toServer, srv>>
vars == <<thread, proto, peer, timeouts, rx, store, net, inOrder>>

Blocks == 1 .. N
Area == 0 .. FlashLen - 1
Erased == 0
Garbled == -1
Free == -1
Done == N + 1
NoPacket == [type |-> "none", port |-> WellKnown, block |-> 0]
OackFrom(p) == [type |-> "oack", port |-> p, block |-> 0]
DataFrom(p, b) == [type |-> "data", port |-> p, block |-> b]

Init ==
    /\ session = 0 /\ pc = "off"
    /\ state = "rrq" /\ block = 0 /\ lastBlock = 0 /\ serverPort = WellKnown
    /\ peer = WellKnown /\ timeouts = 0 /\ rx = NoPacket
    /\ addr = 0 /\ crc = 0 /\ flash = [a \in Area |-> Erased] /\ header = 0
    /\ toClient = <<>> /\ toServer = <<>> /\ srv = [p \in Ports |-> Free]
    /\ inOrder \in BOOLEAN
-----------------------------------------------------------------------------
(* The network.  A packet is lost, or waits in its direction unless that is full. *)

Sent(q, m) == {q} \cup (IF Len(q) < NetLen THEN {Append(q, m)} ELSE {})
Without(q, i) == SubSeq(q, 1, i - 1) \o SubSeq(q, i + 1, Len(q))
Positions(q) == IF inOrder THEN DOMAIN q \cap {1} ELSE DOMAIN q

Repeat ==
    /\ ~inOrder /\ Len(toClient) < NetLen
    /\ \E i \in DOMAIN toClient : toClient' = Append(toClient, toClient[i])
    /\ UNCHANGED <<thread, proto, peer, timeouts, rx, store, toServer, srv>>
-----------------------------------------------------------------------------
(* The server. *)

ServerPacket(p) == IF srv[p] = 0 THEN OackFrom(p) ELSE DataFrom(p, srv[p])
Serving(p) == srv[p] \in 0 .. N

\* A request gets a port of its own, an acknowledgement the next block.
ServerReceive ==
    /\ \E i \in Positions(toServer) :
           /\ toServer' = Without(toServer, i)
           /\ LET m == toServer[i] IN
              \/ /\ m.type = "rrq" /\ m.port = WellKnown
                 /\ \E p \in Ports :
                        /\ srv[p] = Free
                        /\ srv' = [srv EXCEPT ![p] = 0]
                        /\ toClient' \in Sent(toClient, OackFrom(p))
              \/ /\ m.type = "ack" /\ m.port \in Ports
                 /\ m.block = srv[m.port]
                 /\ IF m.block = N
                    THEN /\ srv' = [srv EXCEPT ![m.port] = Done]
                         /\ UNCHANGED toClient
                    ELSE /\ srv' = [srv EXCEPT ![m.port] = @ + 1]
                         /\ toClient' \in Sent(toClient, DataFrom(m.port, m.block + 1))
              \/ /\ \/ m.type = "rrq" /\ (m.port # WellKnown \/ \A p \in Ports : srv[p] # Free)
                    \/ m.type = "ack" /\ (m.port \notin Ports \/ m.block # srv[m.port])
                 /\ UNCHANGED <<srv, toClient>>
    /\ UNCHANGED <<thread, proto, peer, timeouts, rx, store>>

ServerResend(p) ==
    /\ Serving(p) /\ Len(toClient) < NetLen
    /\ toClient' = Append(toClient, ServerPacket(p))
    /\ UNCHANGED <<thread, proto, peer, timeouts, rx, store, toServer, srv>>
-----------------------------------------------------------------------------
(* Sending. *)

\* TftpSend: the request, or the acknowledgement of the last block number seen.
TftpSend(st) ==
    toServer' \in Sent(toServer, IF st = "rrq"
                                 THEN [type |-> "rrq", port |-> peer, block |-> 0]
                                 ELSE [type |-> "ack", port |-> peer, block |-> block])

\* TftpTimeout, in the timer task; the count is not reset by progress.
TftpTimeout ==
    /\ pc \notin {"off", "succeed"} /\ timeouts <= TIMEOUT_COUNT
    /\ timeouts' = timeouts + 1
    /\ IF timeouts + 1 > TIMEOUT_COUNT THEN UNCHANGED toServer ELSE TftpSend(state)
    /\ UNCHANGED <<thread, proto, peer, rx, store, toClient, srv>>
-----------------------------------------------------------------------------
(* The client thread. *)

\* recvfrom overwrites server_addr, whoever the packet comes from.
Receive ==
    /\ pc = "recv"
    /\ \E i \in Positions(toClient) :
           /\ rx' = toClient[i]
           /\ peer' = toClient[i].port
           /\ toClient' = Without(toClient, i)
    /\ pc' = "handle"
    /\ UNCHANGED <<session, proto, timeouts, store, toServer, srv>>

\* A packet from another port than the server's is ignored, once that is known.
Accepted == state = "rrq" \/ rx.port = serverPort

\* TftpHandler rejects the packet.
TftpHandlerReject ==
    /\ pc = "handle" /\ ~Accepted
    /\ pc' = "recv"
    /\ UNCHANGED <<session, proto, peer, timeouts, rx, store, net>>

\* TftpHandler, TFTP_OACK.
TftpHandlerOack ==
    /\ pc = "handle" /\ Accepted /\ rx.type = "oack"
    /\ state' = "oack" /\ serverPort' = rx.port
    /\ pc' = "ack"
    /\ UNCHANGED <<session, block, lastBlock, peer, timeouts, rx, store, net>>

First == state \in {"rrq", "oack"}

\* (mutant) a repeated block is not recognised
TftpHandlerDataAll ==
    /\ pc = "handle" /\ Accepted /\ rx.type = "data"
    /\ block' = rx.block
    /\ state' = "data" /\ serverPort' = rx.port
    /\ lastBlock' = rx.block /\ pc' = "erase"
    /\ UNCHANGED <<session, peer, timeouts, rx, store, net>>

\* (mutant) a repeated block is dropped without an acknowledgement
TftpHandlerDataQuiet ==
    /\ pc = "handle" /\ Accepted /\ rx.type = "data"
    /\ block' = rx.block
    /\ state' = "data" /\ serverPort' = rx.port
    /\ lastBlock' = rx.block /\ pc' = IF rx.block = lastBlock THEN "recv" ELSE "erase"
    /\ UNCHANGED <<session, peer, timeouts, rx, store, net>>

\* TftpHandler, TFTP_DATA: a first block other than 1 is dropped, the same block
\* again only acknowledged, any other block number is stored next.
TftpHandlerData ==
    /\ pc = "handle" /\ Accepted /\ rx.type = "data"
    /\ block' = rx.block
    /\ state' = "data" /\ serverPort' = rx.port
    /\ LET last == IF First THEN 0 ELSE lastBlock IN
       IF First /\ rx.block # 1 THEN lastBlock' = 0 /\ pc' = "recv"
       ELSE IF rx.block = last THEN lastBlock' = last /\ pc' = "ack"
       ELSE lastBlock' = rx.block /\ pc' = "erase"
    /\ UNCHANGED <<session, peer, timeouts, rx, store, net>>

\* store_block: the first block starts the area and the checksum again.
StoreStart == IF block = 1 THEN 0 ELSE addr

\* Blocks past the end of the flash are not written.
InFlash(a) == a < FlashLen

store_block_erase ==
    /\ pc = "erase"
    /\ addr' = StoreStart
    /\ crc' = IF block = 1 THEN 0 ELSE crc
    /\ flash' = IF addr' % Sector = 0
                THEN [a \in Area |-> IF addr' <= a /\ a < addr' + Sector THEN Erased ELSE flash[a]]
                ELSE flash
    /\ pc' = IF InFlash(addr') THEN "write" ELSE "ack"
    /\ UNCHANGED <<session, proto, peer, timeouts, rx, header, net>>

\* (mutant) the checksum is not looked at
CrcOkAlways(k) == TRUE

\* tftp_crc == or_crc, after the last packet.
CrcOk(k) == k = N

\* store_block: the block is written, its checksum added, and the last block's
\* compared; a cell that is not erased does not take the new data.
store_block_write ==
    /\ pc = "write"
    /\ flash' = [flash EXCEPT ![addr] = IF @ \in {Erased, block} THEN block ELSE Garbled]
    /\ crc' = IF crc + 1 = block THEN block ELSE -1
    /\ addr' = addr + 1
    /\ IF block = N /\ CrcOk(crc')
       THEN header' = 0 /\ pc' = "commit"
       ELSE UNCHANGED header /\ pc' = "ack"
    /\ UNCHANGED <<session, proto, peer, timeouts, rx, net>>

\* store_block: the image header is written.
store_block_commit ==
    /\ pc = "commit"
    /\ header' = session
    /\ pc' = "ack"
    /\ UNCHANGED <<session, proto, peer, timeouts, rx, addr, crc, flash, net>>

\* The block was shorter than TftpBlkSize.
Ends == rx.type = "data" /\ rx.block = N

\* The acknowledgement; after a short block Tftp_Uninit ends the thread.
Acknowledge ==
    /\ pc = "ack"
    /\ TftpSend(state)
    /\ pc' = IF Ends THEN "succeed" ELSE "recv"
    /\ UNCHANGED <<session, proto, peer, timeouts, rx, store, toClient, srv>>

ClientStep ==
    \/ TftpHandlerReject \/ TftpHandlerOack \/ TftpHandlerData
    \/ store_block_erase \/ store_block_write \/ store_block_commit \/ Acknowledge
-----------------------------------------------------------------------------
\* A closed socket: nothing of the old download arrives any more.
Disconnect == toClient' = <<>> /\ toServer' = <<>> /\ srv' = [p \in Ports |-> Free]

\* tftp_start: Tftp_Uninit ends a thread that runs, and TftpStart sets up a new one.
tftp_start ==
    /\ session < Sessions
    /\ session' = session + 1 /\ pc' = "recv"
    /\ state' = "rrq" /\ block' = 0 /\ serverPort' = WellKnown /\ crc' = 0
    /\ timeouts' = 0 /\ peer' = WellKnown /\ rx' = NoPacket
    /\ Disconnect
    /\ UNCHANGED <<lastBlock, addr, flash, header>>

\* The power fails: memory is lost, flash is not.
PowerFail ==
    /\ pc # "off"
    /\ pc' = "off" /\ state' = "rrq" /\ block' = 0 /\ lastBlock' = 0
    /\ serverPort' = WellKnown /\ peer' = WellKnown /\ timeouts' = 0 /\ rx' = NoPacket
    /\ addr' = 0 /\ crc' = 0
    /\ Disconnect
    /\ UNCHANGED <<session, flash, header>>

Step ==
    \/ ClientStep \/ Receive \/ TftpTimeout \/ tftp_start \/ PowerFail
    \/ ServerReceive \/ (\E p \in Ports : ServerResend(p)) \/ Repeat

Next == Step /\ UNCHANGED inOrder

\* The thread runs, the server repeats its packet, and neither all its repetitions
\* nor all acknowledgements are lost.
Fairness ==
    /\ WF_vars(ClientStep /\ UNCHANGED inOrder)
    /\ WF_vars(Receive /\ UNCHANGED inOrder)
    /\ WF_vars(ServerReceive /\ UNCHANGED inOrder)
    /\ SF_vars(Acknowledge /\ toServer' # toServer /\ UNCHANGED inOrder)
    /\ \A p \in Ports : SF_vars(ServerResend(p) /\ UNCHANGED inOrder)

Spec == Init /\ [][Next]_vars /\ Fairness
-----------------------------------------------------------------------------
TypeOK ==
    /\ session \in 0 .. Sessions
    /\ pc \in {"off", "recv", "handle", "erase", "write", "commit", "ack", "succeed"}
    /\ state \in {"rrq", "oack", "data"}
    /\ block \in 0 .. N /\ lastBlock \in 0 .. N
    /\ serverPort \in Ports \cup {WellKnown} /\ peer \in Ports \cup {WellKnown}
    /\ timeouts \in 0 .. TIMEOUT_COUNT + 1
    /\ addr \in 0 .. FlashLen /\ crc \in -1 .. N
    /\ flash \in [Area -> {Garbled, Erased} \cup Blocks]
    /\ header \in 0 .. Sessions
    /\ Len(toClient) <= NetLen /\ Len(toServer) <= NetLen /\ inOrder \in BOOLEAN

Whole == \A b \in Blocks : flash[b - 1] = b

\* The boot loader is never pointed at a broken image: as long as no further
\* download has begun, an image header means that the area holds every block in
\* its place, whatever the network repeated, overtook or lost, whenever the timer
\* interfered and the power failed.
HeaderWhole == header # 0 /\ header = session => Whole

\* "We received the whole thing.  Try to run it.": when a short block ends the
\* thread, the image is complete, if the network keeps the order of packets.
ReceivedWhole == inOrder /\ pc = "succeed" => Whole

\* A network that keeps the order loses no progress: once the server has answered,
\* the download succeeds, unless it is started anew or the power fails.
Succeeds ==
    \A s \in 1 .. Sessions :
        (inOrder /\ session = s /\ state # "rrq") ~> (pc \in {"succeed", "off"} \/ session # s)
=============================================================================
