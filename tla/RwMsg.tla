------------------------------- MODULE RwMsg -------------------------------
(***************************************************************************)
(* The request/confirmation path between the host threads and the MAC      *)
(* firmware: rw_msg_send (func/rwnx_intf/rw_msg_tx.c) on the calling        *)
(* thread, core_thread_main (app/app.c) that drains the bus queue and runs  *)
(* the firmware kernel, mr_kmsg_fwd that hands firmware messages over, and  *)
(* kmsg_bk_thread_main / rwnx_recv_msg (rw_msg_rx.c) that matches them with *)
(* the waiting requests.                                                    *)
(*                                                                         *)
(* The threads run under FreeRTOS strict priorities on one core: the core   *)
(* thread is above kmsgbk, and kmsgbk is above every thread that waits for  *)
(* a confirmation (config/sys_config.h).  A thread steps only while no      *)
(* thread above it is ready; what wakes a higher thread (an interrupt, a    *)
(* tick) may happen between any two steps.                                  *)
(***************************************************************************)
EXTENDS Naturals, Sequences, FiniteSets

CONSTANTS
    Clients,    \* threads that call rw_msg_send
    ReqIds,     \* confirmation ids a caller waits for (MM_ADD_IF_CFM, ...)
    NoCfm,      \* id of the messages nobody waits for
    MaxCalls,   \* bound: calls of rw_msg_send in a behaviour
    MaxExt,     \* bound: bus messages and indications of other origin
    QueueLen    \* g_wifi_core.queue_item_count

ASSUME ClientsAssumption == IsFiniteSet(Clients)
ASSUME IdsAssumption == NoCfm \notin ReqIds
ASSUME BoundsAssumption == MaxCalls \in Nat /\ MaxExt \in Nat
ASSUME QueueLenAssumption == QueueLen \in Nat \ {0}

VARIABLES
    ioQueue,    \* g_wifi_core.io_queue
    corePc,     \* core_thread_main: "pop", "sched", or "rf" (waits for the RF)
    fw,         \* requests the firmware has taken and not yet confirmed
    txHead,     \* rw_msg_tx_head, a co_list of nodes
    rxHead,     \* rw_msg_rx_head, a co_list of ke_msg
    appSema,    \* app_sema, a semaphore of maximum count 1
    kmsgPc,     \* control of kmsg_bk_thread_main / rwnx_recv_msg
    rxMsg,      \* its local rx_msg
    rxNext,     \* the next pointer read from the element being popped
    txNode,     \* its local tx_node, 0 for NULL
    clientPc,   \* control of rw_msg_send on each client
    call,       \* the call (and the node) each client is in
    nodeState,  \* heap state of the MSG_SND_NODE_ST of each call
    reqid,      \* its reqid
    sema,       \* count of its semaphore
    cfm,        \* *cfm of the caller: the request whose confirmation it holds
    outcome,    \* what each call returned
    calls,      \* number of calls made
    ext,        \* number of external messages made
    unposted,   \* history: calls whose message found the bus full
    shared      \* history: ids that two overlapping calls waited for

core   == <<ioQueue, corePc, fw>>
kmsg   == <<kmsgPc, rxMsg, rxNext, txNode>>
client == <<clientPc, call, outcome, calls>>
node   == <<nodeState, reqid, sema, cfm>>
hist   == <<unposted, shared>>
vars   == <<core, txHead, rxHead, appSema, kmsg, client, node, ext, hist>>

Calls == 1 .. MaxCalls
Ids == ReqIds \cup {NoCfm}
BusMsgs == [type : {"ioctl"}, req : Calls] \cup [type : {"tx", "rx"}, req : {0}]
KeMsgs == [id : Ids, req : Calls \cup {0}]
NoMsg == [id |-> NoCfm, req |-> 0]

\* The types of the variables, and that a local is set where it is used.
TypeOK ==
    /\ ioQueue \in Seq(BusMsgs) /\ Len(ioQueue) <= QueueLen
    /\ corePc \in {"pop", "sched", "rf"}
    /\ fw \subseteq Calls
    /\ txHead \in Seq(Calls)
    /\ rxHead \in Seq(KeMsgs)
    /\ appSema \in 0 .. 1
    /\ kmsgPc \in {"wait", "read", "pop", "pick", "scan", "match", "signal", "handle"}
    /\ rxMsg \in KeMsgs
    /\ rxNext \in {"null", "node"}
    /\ txNode \in Calls \cup {0}
    /\ kmsgPc \in {"scan", "match", "signal"} => txNode \in Calls
    /\ kmsgPc = "pop" => rxHead # <<>>
    /\ clientPc \in [Clients -> {"idle", "link", "post", "wait", "unlink", "abort", "release"}]
    /\ call \in [Clients -> Calls \cup {0}]
    /\ \A c \in Clients : clientPc[c] # "idle" => call[c] \in Calls
    /\ nodeState \in [Calls -> {"none", "live", "freed"}]
    /\ reqid \in [Calls -> Ids]
    /\ sema \in [Calls -> 0 .. 1]
    /\ cfm \in [Calls -> Calls \cup {0}]
    /\ outcome \in [Calls -> {"none", "ok", "fail"}]
    /\ calls \in 0 .. MaxCalls
    /\ ext \in 0 .. MaxExt
    /\ unposted \subseteq Calls
    /\ shared \subseteq ReqIds

Init ==
    /\ ioQueue = <<>> /\ corePc = "pop" /\ fw = {}
    /\ txHead = <<>> /\ rxHead = <<>>
    /\ appSema = 0
    /\ kmsgPc = "wait" /\ rxMsg = NoMsg /\ rxNext = "null" /\ txNode = 0
    /\ clientPc = [c \in Clients |-> "idle"]
    /\ call = [c \in Clients |-> 0]
    /\ nodeState = [n \in Calls |-> "none"]
    /\ reqid = [n \in Calls |-> NoCfm]
    /\ sema = [n \in Calls |-> 0]
    /\ cfm = [n \in Calls |-> 0]
    /\ outcome = [n \in Calls |-> "none"]
    /\ calls = 0 /\ ext = 0
    /\ unposted = {} /\ shared = {}

-----------------------------------------------------------------------------
(* Lists (co_list) and the scheduler                                        *)

\* co_list_extract: unlink an element, nothing if it is not in the list.
Extract(list, n) ==
    IF \E i \in 1 .. Len(list) : list[i] = n
    THEN LET k == CHOOSE i \in 1 .. Len(list) : list[i] = n
         IN  [j \in 1 .. Len(list) - 1 |-> IF j < k THEN list[j] ELSE list[j + 1]]
    ELSE list

\* co_list_pick: the first element, NULL when there is none.
Pick(list) == IF list = <<>> THEN 0 ELSE list[1]

\* The element after position i, NULL at the end.
NextAt(list, i) == IF i < Len(list) THEN list[i + 1] ELSE 0

InList(list, n) == \E i \in 1 .. Len(list) : list[i] = n

\* FreeRTOS readiness of the two upper threads.
CoreReady == corePc = "sched" \/ (corePc = "pop" /\ ioQueue # <<>>)
KmsgReady == kmsgPc # "wait" \/ appSema = 1

KmsgMayRun == ~CoreReady
\* (mutant) callers that are not below kmsgbk.
ClientMayRunAboveKmsg == ~CoreReady
ClientMayRun == ~CoreReady /\ ~KmsgReady

-----------------------------------------------------------------------------
(* rw_msg_send, on the thread of a client                                   *)

\* Entry of rw_msg_send without a confirmation: nothing but the bus message.
BeginNoCfm(c) ==
    /\ ClientMayRun
    /\ clientPc[c] = "idle" /\ calls < MaxCalls
    /\ calls' = calls + 1
    /\ call' = [call EXCEPT ![c] = calls + 1]
    /\ clientPc' = [clientPc EXCEPT ![c] = "post"]
    /\ UNCHANGED <<core, txHead, rxHead, appSema, kmsg, outcome, node, ext, hist>>

\* Entry with a confirmation buffer: allocate the node, create its semaphore.
Begin(c, id) ==
    /\ ClientMayRun
    /\ clientPc[c] = "idle" /\ calls < MaxCalls
    /\ calls' = calls + 1
    /\ call' = [call EXCEPT ![c] = calls + 1]
    /\ nodeState' = [nodeState EXCEPT ![calls + 1] = "live"]
    /\ reqid' = [reqid EXCEPT ![calls + 1] = id]
    /\ clientPc' = [clientPc EXCEPT ![c] = "link"]
    /\ shared' = IF \E d \in Clients : clientPc[d] # "idle" /\ reqid[call[d]] = id
                 THEN shared \cup {id} ELSE shared
    /\ UNCHANGED <<core, txHead, rxHead, appSema, kmsg, outcome, sema, cfm, ext, unposted>>

\* os_malloc of the node fails: return -1 at once.
BeginNoMem(c) ==
    /\ ClientMayRun
    /\ clientPc[c] = "idle" /\ calls < MaxCalls
    /\ calls' = calls + 1
    /\ outcome' = [outcome EXCEPT ![calls + 1] = "fail"]
    /\ UNCHANGED <<core, txHead, rxHead, appSema, kmsg, clientPc, call, node, ext, hist>>

\* co_list_push_back(&rw_msg_tx_head, &tx_msg->hdr)
Link(c) ==
    /\ ClientMayRun
    /\ clientPc[c] = "link"
    /\ txHead' = Append(txHead, call[c])
    /\ clientPc' = [clientPc EXCEPT ![c] = "post"]
    /\ UNCHANGED <<core, rxHead, appSema, kmsg, call, outcome, calls, node, ext, hist>>

\* rw_msg_send returns ret.
Return(c, ret) ==
    /\ outcome' = [outcome EXCEPT ![call[c]] = ret]
    /\ clientPc' = [clientPc EXCEPT ![c] = "idle"]
    /\ call' = [call EXCEPT ![c] = 0]

\* bmsg_ioctl_sender: the bus queue takes the message without waiting.  A
\* caller that wants no confirmation has succeeded.
Post(c) ==
    /\ ClientMayRun
    /\ clientPc[c] = "post"
    /\ Len(ioQueue) < QueueLen
    /\ ioQueue' = Append(ioQueue, [type |-> "ioctl", req |-> call[c]])
    /\ IF reqid[call[c]] # NoCfm
       THEN /\ clientPc' = [clientPc EXCEPT ![c] = "wait"]
            /\ UNCHANGED <<call, outcome>>
       ELSE Return(c, "ok")
    /\ UNCHANGED <<corePc, fw, txHead, rxHead, appSema, kmsg, calls, node, ext, hist>>

\* bmsg_ioctl_sender fails on a full queue: goto failed_or_timeout, which
\* does not unlink the node.
PostFull(c) ==
    /\ ClientMayRun
    /\ clientPc[c] = "post"
    /\ Len(ioQueue) >= QueueLen
    /\ IF reqid[call[c]] # NoCfm
       THEN /\ unposted' = unposted \cup {call[c]}
            /\ clientPc' = [clientPc EXCEPT ![c] = "abort"]
            /\ UNCHANGED <<call, outcome>>
       ELSE /\ Return(c, "fail")
            /\ UNCHANGED unposted
    /\ UNCHANGED <<core, txHead, rxHead, appSema, kmsg, calls, node, ext, shared>>

\* rtos_get_semaphore succeeds.
Confirmed(c) ==
    /\ ClientMayRun
    /\ clientPc[c] = "wait"
    /\ sema[call[c]] = 1
    /\ sema' = [sema EXCEPT ![call[c]] = 0]
    /\ clientPc' = [clientPc EXCEPT ![c] = "release"]
    /\ UNCHANGED <<core, txHead, rxHead, appSema, kmsg, call, outcome, calls,
                   nodeState, reqid, cfm, ext, hist>>

\* (mutant) the timeout path goes straight to failed_or_timeout.
TimeoutNoUnlink(c) ==
    /\ ClientMayRun
    /\ clientPc[c] = "wait"
    /\ sema[call[c]] = 0
    /\ clientPc' = [clientPc EXCEPT ![c] = "abort"]
    /\ UNCHANGED <<core, txHead, rxHead, appSema, kmsg, call, outcome, calls, node, ext, hist>>

\* (mutant) the caller waits with BEKEN_WAIT_FOREVER.
TimeoutNever(c) == FALSE

\* rtos_get_semaphore times out: the count is still 0 when the thread runs.
Timeout(c) ==
    /\ ClientMayRun
    /\ clientPc[c] = "wait"
    /\ sema[call[c]] = 0
    /\ clientPc' = [clientPc EXCEPT ![c] = "unlink"]
    /\ UNCHANGED <<core, txHead, rxHead, appSema, kmsg, call, outcome, calls, node, ext, hist>>

\* co_list_extract(&rw_msg_tx_head, &tx_msg->hdr) after the timeout.
Unlink(c) ==
    /\ ClientMayRun
    /\ clientPc[c] = "unlink"
    /\ txHead' = Extract(txHead, call[c])
    /\ clientPc' = [clientPc EXCEPT ![c] = "abort"]
    /\ UNCHANGED <<core, rxHead, appSema, kmsg, call, outcome, calls, node, ext, hist>>

\* rtos_deinit_semaphore, os_free, return.
Free(c, ret) ==
    /\ nodeState' = [nodeState EXCEPT ![call[c]] = "freed"]
    /\ Return(c, ret)
    /\ UNCHANGED <<core, txHead, rxHead, appSema, kmsg, calls, reqid, sema, cfm, ext, hist>>

Abort(c) == ClientMayRun /\ clientPc[c] = "abort" /\ Free(c, "fail")
Release(c) == ClientMayRun /\ clientPc[c] = "release" /\ Free(c, "ok")

-----------------------------------------------------------------------------
(* The bus and the core thread                                              *)

\* Messages of other threads and of interrupts on the bus (MsgBus).
BusPost(t) ==
    /\ ext < MaxExt
    /\ Len(ioQueue) < QueueLen
    /\ ioQueue' = Append(ioQueue, [type |-> t, req |-> 0])
    /\ ext' = ext + 1
    /\ UNCHANGED <<corePc, fw, txHead, rxHead, appSema, kmsg, client, node, hist>>

\* core_thread_main pops one message.  bmsg_ioctl_handler hands a request to
\* the firmware; bmsg_tx_handler may first have to wake the RF and blocks.
CorePop ==
    /\ corePc = "pop" /\ ioQueue # <<>>
    /\ ioQueue' = Tail(ioQueue)
    /\ \/ /\ Head(ioQueue).type = "ioctl"
          /\ fw' = fw \cup {Head(ioQueue).req} /\ corePc' = "sched"
       \/ /\ Head(ioQueue).type # "ioctl"
          /\ fw' = fw /\ corePc' = "sched"
       \/ /\ Head(ioQueue).type = "tx"
          /\ fw' = fw /\ corePc' = "rf"
    /\ UNCHANGED <<txHead, rxHead, appSema, kmsg, client, node, ext, hist>>

\* The RF-wake interrupt releases the core thread (PowerSave).
RfWake ==
    /\ corePc = "rf"
    /\ corePc' = "sched"
    /\ UNCHANGED <<ioQueue, fw, txHead, rxHead, appSema, kmsg, client, node, ext, hist>>

\* mr_kmsg_fwd: queue the message and set app_sema (which may be set already).
Fwd(m) ==
    /\ rxHead' = Append(rxHead, m)
    /\ appSema' = 1

\* ke_evt_core_scheduler: the firmware confirms some request ...
FwConfirm(n) ==
    /\ corePc = "sched" /\ n \in fw
    /\ fw' = fw \ {n}
    /\ Fwd([id |-> reqid[n], req |-> n])
    /\ UNCHANGED <<ioQueue, corePc, txHead, kmsg, client, node, ext, hist>>

\* ... or sends an indication of its own (SM_DISCONNECT_IND, ...) ...
FwIndicate ==
    /\ corePc = "sched" /\ ext < MaxExt
    /\ ext' = ext + 1
    /\ Fwd(NoMsg)
    /\ UNCHANGED <<core, txHead, kmsg, client, node, hist>>

\* ... until the scheduler has no event left.
CoreLoop ==
    /\ corePc = "sched"
    /\ corePc' = "pop"
    /\ UNCHANGED <<ioQueue, fw, txHead, rxHead, appSema, kmsg, client, node, ext, hist>>

-----------------------------------------------------------------------------
(* kmsg_bk_thread_main and rwnx_recv_msg                                    *)

\* rtos_get_semaphore(&app_sema, BEKEN_WAIT_FOREVER)
KmsgWake ==
    /\ KmsgMayRun
    /\ kmsgPc = "wait" /\ appSema = 1
    /\ appSema' = 0
    /\ kmsgPc' = "read"
    /\ UNCHANGED <<core, txHead, rxHead, rxMsg, rxNext, txNode, client, node, ext, hist>>

\* co_list_pop_front without the interrupt lock, first half: read the first
\* element and its next pointer.  An empty list ends rwnx_recv_msg.
KmsgRead ==
    /\ KmsgMayRun
    /\ kmsgPc = "read"
    /\ IF rxHead = <<>>
       THEN /\ kmsgPc' = "wait"
            /\ UNCHANGED <<rxMsg, rxNext>>
       ELSE /\ kmsgPc' = "pop"
            /\ rxMsg' = Head(rxHead)
            /\ rxNext' = IF Len(rxHead) = 1 THEN "null" ELSE "node"
    /\ UNCHANGED <<core, txHead, rxHead, appSema, txNode, client, node, ext, hist>>

\* (mutant) the message is looked at and not taken off the list.
KmsgPopPeek ==
    /\ KmsgMayRun
    /\ kmsgPc = "pop"
    /\ kmsgPc' = "pick"
    /\ UNCHANGED <<core, txHead, rxHead, appSema, rxMsg, rxNext, txNode, client, node, ext, hist>>

\* Second half: write the list head.  A message forwarded in between behind
\* the last element is lost, the stale next pointer being NULL.
KmsgPop ==
    /\ KmsgMayRun
    /\ kmsgPc = "pop"
    /\ rxHead' = IF rxNext = "null" THEN <<>> ELSE Tail(rxHead)
    /\ kmsgPc' = "pick"
    /\ UNCHANGED <<core, txHead, appSema, rxMsg, rxNext, txNode, client, node, ext, hist>>

\* co_list_pick(&rw_msg_tx_head); an empty list leaves find at 0.
KmsgPick ==
    /\ KmsgMayRun
    /\ kmsgPc = "pick"
    /\ txNode' = Pick(txHead)
    /\ kmsgPc' = IF txHead = <<>> THEN "handle" ELSE "scan"
    /\ UNCHANGED <<core, txHead, rxHead, appSema, rxMsg, rxNext, client, node, ext, hist>>

\* (mutant) the first waiting request is taken whatever its id.
KmsgFoundAny ==
    /\ KmsgMayRun
    /\ kmsgPc = "scan"
    /\ kmsgPc' = "match"
    /\ UNCHANGED <<core, txHead, rxHead, appSema, rxMsg, rxNext, txNode, client, node, ext, hist>>

\* rx_msg->id == tx_msg->reqid: found.  What a freed node holds depends on
\* the heap: the comparison may go either way.
KmsgFound ==
    /\ KmsgMayRun
    /\ kmsgPc = "scan"
    /\ rxMsg.id = reqid[txNode] \/ nodeState[txNode] = "freed"
    /\ kmsgPc' = "match"
    /\ UNCHANGED <<core, txHead, rxHead, appSema, rxMsg, rxNext, txNode, client, node, ext, hist>>

\* Otherwise co_list_next; at the end of the list find stays 0.
KmsgNext ==
    /\ KmsgMayRun
    /\ kmsgPc = "scan"
    /\ rxMsg.id # reqid[txNode] \/ nodeState[txNode] = "freed"
    /\ \E i \in 1 .. Len(txHead) :
          /\ txHead[i] = txNode
          /\ txNode' = NextAt(txHead, i)
          /\ kmsgPc' = IF i < Len(txHead) THEN "scan" ELSE "handle"
    /\ UNCHANGED <<core, txHead, rxHead, appSema, rxMsg, rxNext, client, node, ext, hist>>

\* (mutant) the matched node stays on rw_msg_tx_head.
KmsgMatchKeep ==
    /\ KmsgMayRun
    /\ kmsgPc = "match"
    /\ kmsgPc' = "signal"
    /\ UNCHANGED <<core, txHead, rxHead, appSema, rxMsg, rxNext, txNode, client, node, ext, hist>>

\* Extract the node (rx_node is already off its list).
KmsgMatch ==
    /\ KmsgMayRun
    /\ kmsgPc = "match"
    /\ txHead' = Extract(txHead, txNode)
    /\ kmsgPc' = "signal"
    /\ UNCHANGED <<core, rxHead, appSema, rxMsg, rxNext, txNode, client, node, ext, hist>>

\* (mutant) rwnx_recv_msg handles one message per wake-up.
KmsgAgainOnce ==
    /\ kmsgPc' = "wait"
    /\ rxMsg' = NoMsg /\ rxNext' = "null" /\ txNode' = 0

\* Next turn of the while(1) of rwnx_recv_msg, its locals dead.
KmsgAgain ==
    /\ kmsgPc' = "read"
    /\ rxMsg' = NoMsg /\ rxNext' = "null" /\ txNode' = 0

\* os_memcpy into the caller's buffer, rtos_set_semaphore, ke_msg_free.  The
\* semaphore of a freed node does not exist any more.
KmsgSignal ==
    /\ KmsgMayRun
    /\ kmsgPc = "signal"
    /\ cfm' = [cfm EXCEPT ![txNode] = rxMsg.req]
    /\ sema' = IF nodeState[txNode] = "live" THEN [sema EXCEPT ![txNode] = 1] ELSE sema
    /\ KmsgAgain
    /\ UNCHANGED <<core, txHead, rxHead, appSema, client, nodeState, reqid, ext, hist>>

\* rwnx_handle_recv_msg and ke_msg_free.
KmsgHandle ==
    /\ KmsgMayRun
    /\ kmsgPc = "handle"
    /\ KmsgAgain
    /\ UNCHANGED <<core, txHead, rxHead, appSema, client, node, ext, hist>>

-----------------------------------------------------------------------------
ClientStep(c) ==
    \/ Link(c) \/ Post(c) \/ PostFull(c) \/ Confirmed(c) \/ Timeout(c)
    \/ Unlink(c) \/ Abort(c) \/ Release(c)

CoreStep == CorePop \/ CoreLoop

KmsgStep ==
    \/ KmsgWake \/ KmsgRead \/ KmsgPop \/ KmsgPick \/ KmsgFound \/ KmsgNext
    \/ KmsgMatch \/ KmsgSignal \/ KmsgHandle

Next ==
    \/ \E c \in Clients : \/ BeginNoCfm(c) \/ BeginNoMem(c)
                          \/ \E id \in ReqIds : Begin(c, id)
                          \/ ClientStep(c)
    \/ \E t \in {"tx", "rx"} : BusPost(t)
    \/ RfWake
    \/ CoreStep
    \/ \E n \in Calls : FwConfirm(n)
    \/ FwIndicate
    \/ KmsgStep

\* The scheduler runs every ready thread in the end, the tick expires every
\* timeout.  Nothing obliges a caller to call, the firmware to answer or the
\* RF to wake.
Fairness ==
    /\ WF_vars(CoreStep)
    /\ WF_vars(KmsgStep)
    /\ \A c \in Clients : WF_vars(ClientStep(c))

Spec == Init /\ [][Next]_vars
FairSpec == Spec /\ Fairness

-----------------------------------------------------------------------------
(* Properties                                                               *)

\* A node on rw_msg_tx_head is allocated, unless its call found the bus full:
\* that path of rw_msg_send frees the node without unlinking it.
LinkedNodesLive ==
    \A i \in 1 .. Len(txHead) :
        nodeState[txHead[i]] = "live" \/ txHead[i] \in unposted

\* rwnx_recv_msg, which drops the interrupt lock between looking at a node
\* and using it, never holds a node that a timed-out caller has freed.
NoUseAfterFree ==
    kmsgPc \in {"scan", "match", "signal"} =>
        nodeState[txNode] = "live" \/ txNode \in unposted

\* Confirmations are matched by id alone.  As long as no call for the id has
\* failed and no two calls for it overlapped, each caller gets the answer to
\* its own request.
OwnConfirmation ==
    \A n \in Calls :
        cfm[n] \in {0, n} \/ reqid[n] \in shared
            \/ \E m \in Calls : reqid[m] = reqid[n] /\ outcome[m] = "fail"

\* One confirmation message completes at most one request.
ConfirmedOnce ==
    \A m, n \in Calls : cfm[m] = cfm[n] /\ cfm[n] # 0 => m = n

\* A forwarded message is never left on rw_msg_rx_head with kmsgbk asleep,
\* although app_sema counts to 1 only.
NoLostWakeup == kmsgPc = "wait" /\ rxHead # <<>> => appSema = 1

\* The confirmation buffer is often on the caller's stack: once rw_msg_send
\* has returned, a late confirmation must not be written there.
NoWriteAfterReturn ==
    [][\A n \in Calls : outcome[n] # "none" /\ n \notin unposted => cfm'[n] = cfm[n]]_vars

\* Every call of rw_msg_send returns, whatever the firmware and the RF do.
CallReturns == \A c \in Clients : clientPc[c] # "idle" ~> clientPc[c] = "idle"

\* ASSERT(0 == ret) after rtos_set_semaphore(&tx_msg->semaphore) in
\* rwnx_recv_msg: the semaphore exists and its count is 0.
SetSemaphoreAssert ==
    kmsgPc = "signal" => nodeState[txNode] = "live" /\ sema[txNode] = 0

-----------------------------------------------------------------------------
(* The inductive invariant behind LinkedNodesLive, NoUseAfterFree and       *)
(* NoWriteAfterReturn                                                       *)

\* Elements of a list are distinct.
NoDup(list) ==
    \A i, j \in 1 .. Len(list) : list[i] = list[j] => i = j

\* Nodes of calls to come are untouched and unknown to everyone.
CallsFresh ==
    /\ \A i \in 1 .. Len(txHead) : txHead[i] <= calls
    /\ \A c \in Clients : call[c] <= calls
    /\ \A n \in Calls : n > calls =>
          nodeState[n] = "none" /\ sema[n] = 0 /\ outcome[n] = "none"

\* Each client is in a call of its own.
CallsDistinct ==
    \A c, d \in Clients :
        clientPc[c] # "idle" /\ clientPc[d] # "idle" /\ call[c] = call[d] => c = d

\* A node is linked once, between Link and Unlink or the match, ...
LinkUnlinked ==
    \A c \in Clients : clientPc[c] = "link" =>
        ~InList(txHead, call[c]) /\ sema[call[c]] = 0 /\ nodeState[call[c]] = "live"
ReleaseUnlinked ==
    \A c \in Clients : clientPc[c] = "release" => ~InList(txHead, call[c])
AbortUnlinked ==
    \A c \in Clients : clientPc[c] = "abort" =>
        ~InList(txHead, call[c]) \/ call[c] \in unposted
SignalledUnlinked ==
    \A n \in Calls : sema[n] = 1 => ~InList(txHead, n)

\* ... and is allocated only while its call has not returned.
LiveNodeOpen ==
    \A n \in Calls : nodeState[n] = "live" => reqid[n] # NoCfm /\ outcome[n] = "none"

NodeDiscipline ==
    /\ NoDup(txHead)
    /\ LinkUnlinked
    /\ ReleaseUnlinked
    /\ AbortUnlinked
    /\ SignalledUnlinked
    /\ LiveNodeOpen

\* What rwnx_recv_msg knows of the node it is looking at.
KmsgHolds ==
    /\ kmsgPc \in {"scan", "match"} => InList(txHead, txNode)
    /\ kmsgPc = "signal" =>
          /\ ~InList(txHead, txNode)
          /\ \A c \in Clients : clientPc[c] = "link" => call[c] # txNode

IInv ==
    /\ TypeOK
    /\ CallsFresh
    /\ CallsDistinct
    /\ NodeDiscipline
    /\ KmsgHolds
    /\ LinkedNodesLive
    /\ NoUseAfterFree
=============================================================================
