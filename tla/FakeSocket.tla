----------------------------- MODULE FakeSocket ------------------------------
(* The sockets between the supplicant and the MAC (hostapd-2.5/bk_patch/      *)
(* fake_socket.c and sk_intf.c, the event loop's eloop_handler_sock_event and *)
(* hapd_intf_ke_rx_handle).  Frames for the supplicant are queued on a socket *)
(* by the core thread, which then posts a poll token; frames of the           *)
(* supplicant are queued by the wpas thread, which then posts a bus message.  *)
(* The core thread has the highest priority: its operations are single steps, *)
(* and nobody else runs while its bus holds a message.  Sockets are opened    *)
(* and closed in the wpas thread (CFG_NEW_SUPP) or in a thread that may       *)
(* preempt it.  One interface is modelled.                                    *)
EXTENDS Naturals, Sequences

CONSTANTS
    Socks,          \* {"mgmt", "data"}: the sockets of an interface
    CFG_NEW_SUPP,   \* sockets are opened and closed in the wpas thread
    WpahLen,        \* length of wpah_queue: 64
    Frames,         \* bound: frames in each direction
    Opens,          \* bound: sockets opened
    MallocFails     \* bound: failures of os_malloc

ASSUME FakeSocketAssumption ==
    /\ Socks \subseteq {"mgmt", "data"} /\ CFG_NEW_SUPP \in BOOLEAN
    /\ {WpahLen, Frames, Opens, MallocFails} \subseteq Nat

VARIABLES
    elem,           \* the element of each socket, a number, or 0
    opened,         \* elements made so far
    rxq, txq,       \* sk_rx_msg and sk_tx_msg: frames to and from the supplicant
    readers,        \* eloop.readers
    wpah,           \* poll tokens in wpah_queue
    bus,            \* BMSG_SKT_TX messages for the core thread
    op,             \* what the wpas thread is doing
    received,       \* history: frames the supplicant has received
    handed,         \* history: frames handed to the MAC
    sentRx, sentTx, \* history: frames sent so far in each direction
    fails,          \* failures of os_malloc so far
    asserted        \* ASSERT(payload_size) failed

sockets == <<elem, opened, readers>>
queues == <<rxq, txq, wpah, bus>>
ghosts == <<received, handed, sentRx, sentTx, fails, asserted>>
vars == <<sockets, queues, op, ghosts>>

NoOp == [kind |-> "idle"]

Init ==
    /\ elem = [s \in Socks |-> 0] /\ opened = 0 /\ readers = {}
    /\ rxq = [s \in Socks |-> <<>>] /\ txq = [s \in Socks |-> <<>>]
    /\ wpah = 0 /\ bus = <<>> /\ op = NoOp
    /\ received = [s \in Socks |-> <<>>] /\ handed = [s \in Socks |-> <<>>]
    /\ sentRx = 0 /\ sentTx = 0 /\ fails = 0 /\ asserted = FALSE

\* The threads below the core thread run when it has nothing to do.
CoreIdle == bus = <<>> /\ ~asserted
-----------------------------------------------------------------------------
(* The core thread. *)

\* os_malloc may fail, a bounded number of times.
MallocFail == fails < MallocFails /\ fails' = fails + 1

\* (mutant) nothing is taken back when wpah_queue is full
DummyReadNothing(s) ==
    /\ rxq' = [rxq EXCEPT ![s] = Append(@, sentRx + 1)]
    /\ UNCHANGED fails

\* (mutant) dl_list_add instead of dl_list_add_tail
DummyReadHead(s) ==
    /\ wpah < WpahLen
    /\ rxq' = [rxq EXCEPT ![s] = <<sentRx + 1>> \o @]
    /\ UNCHANGED fails

\* The frame is queued; with wpah_queue full, handle_dummy_read drops the oldest.
DummyRead(s) ==
    LET q == Append(rxq[s], sentRx + 1) IN
    \/ rxq' = [rxq EXCEPT ![s] = IF wpah < WpahLen THEN q ELSE Tail(q)] /\ UNCHANGED fails
    \/ wpah = WpahLen /\ rxq' = [rxq EXCEPT ![s] = q] /\ MallocFail

\* ke_mgmt_packet_tx and ke_l2_packet_tx: a frame for the supplicant.
ke_sk_send(s) ==
    /\ ~asserted /\ sentRx < Frames
    /\ sentRx' = sentRx + 1
    /\ IF elem[s] = 0
       THEN UNCHANGED <<rxq, wpah, fails>>
       ELSE /\ DummyRead(s)
            /\ wpah' = IF wpah < WpahLen THEN wpah + 1 ELSE wpah
    /\ UNCHANGED <<sockets, txq, bus, op, received, handed, sentTx, asserted>>

\* wpa_handler_signal and others poll without a frame.
wpa_hostapd_queue_poll ==
    /\ ~asserted /\ wpah < WpahLen
    /\ wpah' = wpah + 1
    /\ UNCHANGED <<sockets, rxq, txq, bus, op, ghosts>>

\* ke_sk_recv: the oldest frame leaves the socket's queue.
ke_sk_recv(s) ==
    /\ txq' = [txq EXCEPT ![s] = Tail(@)]
    /\ handed' = [handed EXCEPT ![s] = Append(@, Head(txq[s]))]

\* hapd_intf_ke_rx_handle: takes the next frame of the socket the bus message names.
hapd_intf_ke_rx_handle ==
    /\ ~asserted /\ bus # <<>>
    /\ bus' = Tail(bus)
    /\ LET s == Head(bus) IN
       IF txq[s] = <<>>
       THEN /\ asserted' = (s = "mgmt")
            /\ UNCHANGED <<txq, handed, fails>>
       ELSE /\ UNCHANGED asserted
            /\ \/ ke_sk_recv(s) /\ UNCHANGED fails
               \/ MallocFail /\ UNCHANGED <<txq, handed>>
    /\ UNCHANGED <<sockets, rxq, wpah, op, received, sentRx, sentTx>>
-----------------------------------------------------------------------------
(* The wpas thread.  An operation looks the element up under the lock and uses *)
(* it after the lock was released.                                             *)

\* An event waits until its command has registered the sockets it opened.
MayPoll == CoreIdle /\ (CFG_NEW_SUPP => \A s \in Socks : elem[s] # 0 => s \in readers)

\* (mutant) the events of an interface are handled once for all its tokens
eloop_run_all ==
    /\ MayPoll /\ op.kind = "idle" /\ wpah > 0
    /\ wpah' = 0
    /\ op' = [kind |-> "event", sock |-> "mgmt"]
    /\ UNCHANGED <<sockets, rxq, txq, bus, ghosts>>

\* eloop_run pops a token and begins eloop_handler_sock_event.
eloop_run ==
    /\ MayPoll /\ op.kind = "idle" /\ wpah > 0
    /\ wpah' = wpah - 1
    /\ op' = [kind |-> "event", sock |-> "mgmt"]
    /\ UNCHANGED <<sockets, rxq, txq, bus, ghosts>>

AfterSock(s) == IF s = "mgmt" THEN [kind |-> "event", sock |-> "data"] ELSE NoOp

\* The payload of the next frame is looked at; without one, or without a reader,
\* the socket is skipped.
eloop_handler_sock_event ==
    /\ CoreIdle /\ op.kind = "event"
    /\ LET s == op.sock IN
       op' = IF s \in Socks /\ elem[s] # 0 /\ rxq[s] # <<>> /\ s \in readers
             THEN [kind |-> "recv", sock |-> s, elem |-> elem[s]]
             ELSE AfterSock(s)
    /\ UNCHANGED <<sockets, queues, ghosts>>

\* handle_read or l2_packet_receive calls fsocket_recv; the former gives up when it
\* gets no memory.
fsocket_recv ==
    /\ CoreIdle /\ op.kind = "recv"
    /\ LET s == op.sock IN
       /\ op' = AfterSock(s)
       /\ \/ s = "mgmt" /\ MallocFail /\ UNCHANGED <<rxq, received>>
          \/ elem[s] # op.elem /\ UNCHANGED <<rxq, received, fails>>
          \/ /\ elem[s] = op.elem
             /\ rxq' = [rxq EXCEPT ![s] = IF @ = <<>> THEN @ ELSE Tail(@)]
             /\ received' = [received EXCEPT ![s] =
                               Append(@, IF rxq[s] = <<>> THEN 0 ELSE Head(rxq[s]))]
             /\ UNCHANGED fails
    /\ UNCHANGED <<sockets, txq, wpah, bus, handed, sentRx, sentTx, asserted>>

\* fsocket_send: the lookup.
fsocket_send(s) ==
    /\ MayPoll /\ op.kind = "idle" /\ sentTx < Frames
    /\ elem[s] # 0
    /\ sentTx' = sentTx + 1
    /\ op' = [kind |-> "queue", sock |-> s, elem |-> elem[s], frame |-> sentTx + 1]
    /\ UNCHANGED <<sockets, queues, received, handed, sentRx, fails, asserted>>

\* (mutant) the bus message is posted before the frame is queued
fsocket_send_first ==
    /\ CoreIdle /\ op.kind = "queue"
    /\ IF bus # <<>> \/ "posted" \in DOMAIN op
       THEN /\ txq' = [txq EXCEPT ![op.sock] = Append(@, op.frame)] /\ UNCHANGED bus
            /\ op' = NoOp
       ELSE /\ bus' = Append(bus, op.sock) /\ UNCHANGED txq
            /\ op' = [kind |-> "queue", sock |-> op.sock, elem |-> op.elem,
                      frame |-> op.frame, posted |-> TRUE]
    /\ UNCHANGED <<sockets, rxq, wpah, ghosts>>

\* fsocket_send: the frame is queued, in vain if the element has been freed.
fsocket_send_queue ==
    /\ CoreIdle /\ op.kind = "queue"
    /\ txq' = IF elem[op.sock] = op.elem
              THEN [txq EXCEPT ![op.sock] = Append(@, op.frame)] ELSE txq
    /\ op' = [kind |-> "post", sock |-> op.sock]
    /\ UNCHANGED <<sockets, rxq, wpah, bus, received, handed, sentRx, sentTx, fails, asserted>>

\* fsocket_send: bmsg_skt_tx_sender.  The push fails when other messages fill the
\* bus; the frame then stays until the message of a later one.
bmsg_skt_tx_sender ==
    /\ CoreIdle /\ op.kind = "post"
    /\ bus' \in {Append(bus, op.sock), bus}
    /\ op' = NoOp
    /\ UNCHANGED <<sockets, rxq, txq, wpah, ghosts>>
-----------------------------------------------------------------------------
(* Opening and closing, in the wpas thread or in one that preempts it. *)

MayControl == CoreIdle /\ (CFG_NEW_SUPP => op.kind = "idle")

fsocket_init(s) ==
    /\ MayControl /\ elem[s] = 0 /\ opened < Opens
    /\ opened' = opened + 1
    /\ elem' = [elem EXCEPT ![s] = opened + 1]
    /\ UNCHANGED <<readers, queues, op, ghosts>>

eloop_register_read_sock(s) ==
    /\ MayControl /\ elem[s] # 0 /\ s \notin readers
    /\ readers' = readers \cup {s}
    /\ UNCHANGED <<elem, opened, queues, op, ghosts>>

\* fsocket_close frees the frames too; the reader is unregistered with it.
fsocket_close(s) ==
    /\ MayControl /\ elem[s] # 0 /\ s \in readers
    /\ elem' = [elem EXCEPT ![s] = 0]
    /\ rxq' = [rxq EXCEPT ![s] = <<>>] /\ txq' = [txq EXCEPT ![s] = <<>>]
    /\ readers' = readers \ {s}
    /\ UNCHANGED <<opened, wpah, bus, op, ghosts>>

Wpas ==
    \/ eloop_run \/ eloop_handler_sock_event \/ fsocket_recv
    \/ fsocket_send_queue \/ bmsg_skt_tx_sender

Next ==
    \/ \E s \in Socks : \/ ke_sk_send(s) \/ fsocket_send(s)
                        \/ fsocket_init(s) \/ fsocket_close(s)
    \/ \E s \in Socks : eloop_register_read_sock(s)
    \/ wpa_hostapd_queue_poll \/ hapd_intf_ke_rx_handle \/ Wpas

\* Threads run when they can; a command that has opened a socket goes on to
\* register it.
Fairness ==
    /\ WF_vars(hapd_intf_ke_rx_handle) /\ WF_vars(Wpas)
    /\ WF_vars(\E s \in Socks : eloop_register_read_sock(s))

Spec == Init /\ [][Next]_vars /\ Fairness
-----------------------------------------------------------------------------
Increasing(q) == \A i, j \in DOMAIN q : i < j => q[i] < q[j]

TypeOK ==
    /\ elem \in [Socks -> 0 .. Opens] /\ opened \in 0 .. Opens /\ readers \subseteq Socks
    /\ \A s \in Socks : rxq[s] \in Seq(1 .. Frames) /\ txq[s] \in Seq(1 .. Frames)
    /\ wpah \in 0 .. WpahLen /\ bus \in Seq(Socks) /\ Len(bus) <= 1
    /\ op.kind \in {"idle", "event", "recv", "queue", "post"}
    /\ asserted \in BOOLEAN

\* ASSERT(payload_size) in hapd_intf_ke_rx_handle: a bus message for the management
\* socket finds a frame.
PayloadAssert == ~asserted

\* Every frame for the supplicant has a poll token that will fetch it, also when
\* wpah_queue overflows and frames are dropped, but for those a failed os_malloc left.
TokensCover ==
    \A s \in Socks :
        LET now == IF \/ op.kind = "recv" /\ (op.sock = s \/ op.sock = "mgmt")
                      \/ op.kind = "event" /\ (op.sock = s \/ op.sock = "mgmt")
                   THEN 1 ELSE 0
        IN Len(rxq[s]) <= wpah + now + fails

\* Frames arrive in the order they were sent, none twice, and the reader never gets
\* an empty frame (0), although frames are dropped between its look and its read.
FramesInOrder ==
    \A s \in Socks :
        /\ Increasing(received[s]) /\ Increasing(handed[s])
        /\ \A i \in DOMAIN received[s] : received[s][i] # 0

\* Every frame queued for the supplicant is fetched or dropped, unless os_malloc
\* failed and its token was spent in vain.
FramesFetched ==
    \A s \in Socks, f \in 1 .. Frames :
        (\E i \in DOMAIN rxq[s] : rxq[s][i] = f)
            ~> ~(\E i \in DOMAIN rxq[s] : rxq[s][i] = f) \/ fails > 0
=============================================================================
