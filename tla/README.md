# TLA+ models of the BK7251 FreeRTOS SDK

Specifications of the host-side control logic of the Beken BK7251/BK7231 Wi-Fi
SDK (`beken378/`): the threads, queues, timers and lists between the
applications, the supplicant and lwIP on one side and the closed MAC library
(`librwnx.a`) on the other. Line numbers refer to the sources in this repository;
`PROJECT.json` maps every definition to the lines it models.

## The system

| Component | State | Operations | Hard part |
|---|---|---|---|
| Message path (`func/rwnx_intf/rw_msg_tx.c`, `rw_msg_rx.c`) | `rw_msg_tx_head`, `rw_msg_rx_head`, a node with semaphore and buffer pointer per waiting call, `app_sema` | `rw_msg_send`, `mr_kmsg_fwd`, `rwnx_recv_msg` | timeouts against late confirmations, lists touched with and without the interrupt lock, a buffer on the caller's stack |
| Core thread and bus (`app/app.c`) | `g_wifi_core.io_queue`, `bmsg_rx_count`, pbuf references, `ke_skip`, `ps_flag` | the `bmsg_*_sender`s, `core_thread_main` and its handlers | full queue, count and push not atomic, deferred and immediate commands, skipped wake-ups |
| Role launch (`func/joint_up/role_launch.c`) | mailbox `g_rl_socket`, previous and following slot per role, status and cancel flags, CSA flag, reconnection cache, two one-shot timers | `rl_sta_request_enter`, `rl_ap_request_enter`, `rl_enter_handler`, `rl_launch_handler`, status reports | reports of four other threads between the steps of the timer task, one-place mailbox, lost expiries |
| STA/AP control (`func/wlan_ui/wlan_ui.c`) | global parameters | `bk_wlan_start*`, `bk_wlan_stop` | runs in the timer task and blocks there |
| STA power save (`func/power_save/power_save.c`) | `bk_ps_mode`, `ps_arm_wakeup_way`, `ps_lock`, doze, list of blocked senders, event bits | sleep, wake-up interrupt, enable, disable, reboot | wake-up interrupt against disable, blocked senders |
| Socket emulation (`hostapd-2.5/bk_patch`, `hostapd_intf.c`) | an element with two message queues per socket, `wpah_queue` | `fsocket_*`, `ke_sk_send`, `eloop_run` | element used after the lock, tokens and frames in step at a full queue |
| Byte FIFO (`common/fifo.h`, `BkDriverUart.c`) | free-running indices, buffer | put, get, look ahead, receive | wrap-around, unlocked reads against the interrupt |
| DHCP server (`lwip_intf/dhcpd`) | table of MAC and IP addresses, `current_ip` | one handler per message | lost and repeated messages, promised and granted addresses, a full table |
| Parameter table (`func/net_param_intf`) | flash sector of items | search, save, load | power failing between erase and write |
| TFTP update (`app/tftp/tftpclient.c`) | block numbers, checksum, flash, image header | packet handler, retry timer, block store | reordering, repetition, power failure |
| MCU power save, audio ring, UART console, buttons, video, drivers | | | see `PROJECT.json` |

How they interact: an application asks role launch for a station; the timer task
runs `bk_wlan_start_sta`, whose supplicant calls `rw_msg_send`; that posts a
`BMSG_IOCTL` on the bus and waits; the core thread hands it to the MAC kernel and
runs the kernel's scheduler, which calls `mr_kmsg_fwd`; `kmsgbk` matches the
message with the waiting call or passes it to `rwnx_handle_recv_msg`, which
reports to role launch again. Data frames and power-save commands share the bus,
and a sender first waits for the RF. Management and EAPOL frames of the supplicant
go through its socket and a `BMSG_SKT_TX`; those for it through its socket and a
poll token.

Threads run under FreeRTOS strict priorities on one core (`config/sys_config.h`
21-31; a smaller number is a higher priority): core 2, kmsgbk 3, lwIP and the
applications 4 and 5, the timer task below them. `RwMsg` depends on the first
three: a caller never runs while kmsgbk is ready, which is what protects
`rwnx_recv_msg` between its short locked sections. `FakeSocket` depends on the core
thread running whenever the bus holds a message.

## Modules

* `RwMsg` - the message path. `clientPc` is the control of `rw_msg_send` on each
  caller, `kmsgPc` that of `kmsg_bk_thread_main`/`rwnx_recv_msg`, `corePc` that of
  `core_thread_main`. Nodes are named by the call that allocated them;
  `nodeState` says whether the memory is live or freed. What a freed node holds
  is unknown, so comparing its id may go either way. The unlocked
  `co_list_pop_front` is two steps (`KmsgRead`, `KmsgPop`). `unposted` and `shared`
  are history: calls that found the bus full, and ids two overlapping calls
  waited for.
* `MsgBus` - the bus, all its senders and the core thread's loop. Packets carry a
  reference count; chains are copied or run out of memory. The MAC kernel is one
  bit, "an event is pending". `mp3Player` is the build option
  `CONFIG_APP_MP3PLAYER`, chosen in the initial state. The commands
  that only start a power-save timer (`PS_BMSG_IOCTL_RF_TD_SET`) are handled like
  `RF_ENABLE` and left out of `PsArgs`; socket frames are treated like ioctls, from
  which they differ only inside the MAC.
* `RoleLaunch` - `pc` is the control of the timer task through both handlers and
  through the blocking start of a request; all other threads have a higher
  priority, so each of their reports is one step between two steps of the timer
  task. A request is its number and its kind; "zero" is the kind of a zeroed
  `LAUNCH_REQ`. `started`, `dropped` are history. `rl_sta_may_next_launch` reads the
  status several times; every answer it can give is the answer for one of the
  moments, so the decision is one step. A scan request may be lost on its way (`ScanReq`),
  and `bk_wlan_start_ap` may wait (`StartWaitAp`). Interrupt masking left behind by
  `rl_pre_sta_set_status` (line 614) is not modelled.
* `PowerSave` - a connected station's RF sleep. `corePc` follows the core thread from
  the bus through transmission and command to `power_save_rf_sleep_check` and
  `power_save_sleep`; `power_save_dtim_wake` is the interrupt, in one piece;
  `senderPc` is the control of each thread that sends; `appPc` that of the
  application between looking whether the RF sleeps and acting on it. The closed
  library enters as assumptions: `ps_sleep_check` refuses sleep while a frame, a
  mode change or an awaited beacon is outstanding (and may refuse at any time); a
  mode change is done awake, when its null frame has gone out; the interrupt comes
  at the next DTIM. `PS_USE_KEEP_TIMER` and `PS_USE_WAIT_TIMER` are 0 as shipped.
* `FakeSocket` - sockets between supplicant and MAC. `op` is what the wpas thread is
  doing: it looks an element up under the lock and uses it in a later step. An
  element is a number, so that a freed one is told from a new one of the same
  socket. `CFG_NEW_SUPP` says whether sockets are opened and closed in the wpas
  thread or in one that may preempt it. The bus message of a frame may be lost (full bus).
* `Kfifo` - the FIFO of a UART. Put and get run with interrupts off and are one step
  each, whatever part of the copy lies behind the wrap; counting and looking ahead
  run without, one byte per step. `Modulus` stands for 2^32.
* `ByteFifo` - the abstract queue of bytes: put what fits, get or look at what is
  there. `Kfifo` implements it.
* `DhcpServer` - the server thread, one step per message, with its table and
  `current_ip`, and the stations as environment. A station names its address once, in
  `ciaddr` or in the option (RFC 2131), so the loop over the options is one look. It
  ignores answers to exchanges it has abandoned (`live`). An endless search of
  `next_yiaddr` is the state `looping`. Start and stop of the thread are one step:
  it runs at the priority of the timer task, which starts it.
* `NetParam` - the sector, byte by byte: the walk of `search_info_item` goes from head
  to head, also over bytes never written, and which heads it meets then depends on
  addresses. Erasing, every 32-byte write and the power failing are steps. The items
  are the six that some part of the code saves: the MAC address, four values of
  the calibration and the charge configuration. As many bytes are read as the item's
  head says; more than the callers' variables hold is `Overrun`. The sector is scaled
  down.
* `ParamStore` - the abstract map of items, which promises nothing once the power
  has failed in a save. `NetParam` implements it.
* `TftpClient` - the client thread (`pc`), the retry timer, the flash and the image
  header, the server and the network. `inOrder` is a property of the network, chosen
  in the initial state. The checksum is the number of blocks summed in order, or
  -1. `lastBlock` is not reset by a new download, as in the code.
* `RwMsgProofs`, `MsgBusProofs`, `RoleLaunchProofs`, `PowerSaveProofs`,
  `FakeSocketProofs`, `DhcpServerProofs`, `TftpClientProofs` - theorems about the module
  of that name (below, Proofs).
* `RefinementProofs` - theorems about `Kfifo` and `NetParam`, the two modules that
  implement an abstract one. It extends both; so that it can, the specification of
  `NetParam` is called `TableSpec` (with `TableInit`, `TableNext`, `tableVars`).
* `MC*` - the TLC instances.

Definitions marked `(mutant)` stand before the definition they vary; no
specification uses them. They are plausible slips in the same code, kept to show
that each property can fail. A module's `TypeOK` (`TableTypeOK` in `NetParam`)
documents its types; only the one of `RwMsg`, part of `IInv`, belongs to a run.

## Runs

| Run | Checks | Bounds | Result |
|---|---|---|---|
| `rwmsg` | `IInv`, `LinkedNodesLive`, `NoUseAfterFree`, `OwnConfirmation`, `ConfirmedOnce`, `NoLostWakeup`, `NoWriteAfterReturn`, `CallReturns` | 2 callers, 1 id, 3 calls, 1 foreign message, queue of 1 | 773,879 states |
| `rwmsg_assert` | `SetSemaphoreAssert` | as `rwmsg`, 2 ids | violated |
| `msgbus` | `RxAccounting`, `PbufReferences`, `LastPsCommandWins`, `NoStrandedEvent`, `PbufFreed` | 1 packet, queue of 2, 1 lost RX message, both builds | 818,145 states |
| `rolelaunch` | `EntityOwnership`, `FollowingArmed`, `MailboxArmed`, `StartsInOrder`, `StaFollowingStarts` | 3 requests of all kinds, 1 failed allocation, 1 beacon change | 489,187 states |
| `power_save` | `SleepAgrees`, `NoStrandedSender`, `SentAwake`, `DisableUnderway`, `SenderServed`, `RebootServed` | core and one more sender, queue of 2, 2 commands | 216,121 states |
| `fake_socket` | `PayloadAssert`, `TokensCover`, `FramesInOrder`, `FramesFetched` | both sockets, 3 frames each way, 2 openings, 2 tokens, 1 failed allocation, `CFG_NEW_SUPP` | 831,931 states |
| `fake_socket_shipped` | `PayloadAssert` | both sockets, 2 frames, 2 openings, `CFG_NEW_SUPP` 0 as shipped | violated |
| `kfifo` | `PeekCovered`, `ImplementsByteFifo` | 4 bytes, indices modulo 8, transfers of up to 3 | 30,080 states |
| `dhcp` | `UniqueLease`, `LeaseRecorded`, `OfferHonoured`, `AllServed` | 2 stations, table of 2, 8 addresses, 2 datagrams, 1 fault | 80,432 states |
| `net_param` | `PrefixSurvives`, `ImplementsParamStore` | 5 items, 2 values, 5 saves, 1 power failure | 249,397 states |
| `net_param_size` | `TableFits` | 3 items, 9 saves, 1 power failure, a sector of 96 bytes | violated |
| `tftp` | `HeaderWhole`, `ReceivedWhole`, `Succeeds` | 3 blocks, 2 server ports, 1 retry, 2 packets each way, 2 downloads, both kinds of network | 360,650 states |

Why the bounds suffice. In `rwmsg` a queue of one is full as soon as anything is
on it; three calls give a late confirmation a successor with the same id, and
two callers give it a competitor; the foreign message has another id, and so do
calls that wait for none. In `msgbus` two entries let every pair of
message types meet in both orders and overflow; packets meet only as entries of
the queue, which the other messages fill as well. In `rolelaunch` three requests
fill both slots of a role and the mailbox, and let one role wait for the other. In `power_save` a queue of two overflows, two
commands may be under way against each other, and the core thread competes with
one other sender. In `fake_socket` two tokens overflow with three frames, and one
socket can be closed and opened again. In `kfifo` the indices wrap without end:
the behaviour is not bounded at all. In `dhcp` both stations may remember the very
address the server is about to offer to the other, and the one fault is a station
that leaves and comes back or a restart of the AP in the middle of an exchange. In
`net_param` five saves overwrite in place, fail and go on, or fill the table with the
five items, of which the last has its head across the 32-byte boundary at 64. In
`tftp` two ports let a repeated request open a second transfer that competes with
the first, and the second download meets the flash the first one left. Deadlock is
not checked where the bounds use up what the environment does: every thread may
then sleep for good, as in the real system. `RwMsgTwoIds.cfg` (2 ids, with symmetry,
921,527 states) and `RoleLaunchFour.cfg` (4 requests, 4.5M states) check the safety
properties of the two on larger instances; the proofs cover all of them.

What the runs show beyond "it holds":

* **The full-bus path of `rw_msg_send`** (`rw_msg_tx.c` 61-67, 90-97) frees the node
  without taking it off `rw_msg_tx_head`; `rwnx_recv_msg` may later match it and
  `ASSERT(0 == ret)` (`rw_msg_rx.c` 723) after setting the deleted semaphore does
  not hold. The other properties of `RwMsg` therefore except the calls in
  `unposted`, and only those. (`os_free(msg_params)` on the same path is given an
  interior pointer; memory layout is not modelled.)
* `OwnConfirmation`: a caller gets the confirmation of its own request unless
  another call waited for the same id at the same time or earlier timed out on it:
  matching is by id.
* `RxAccounting`: each RX message that meets a full queue keeps its share of
  `bmsg_rx_count` for ever; two of them end reception.
* `NoStrandedEvent` excepts MP3 builds: an event raised behind a media message waits
  for the next message.
* `MailboxArmed`: only a failed allocation in `rl_enter_handler` leaves a request
  without a timer, until the next request.
* **A scan request may be lost** after the status has become `RL_STATUS_STA_SCANNING`:
  `rw_msg_send_scanu_req` returns when `ke_msg_alloc` finds no memory (`rw_msg_tx.c` 565)
  or the bus is full (590), and no `SCANU_START_CFM` will end the status. A station
  request that follows then waits for good (`role_launch.c` 509-513).
  `StaFollowingStarts` excepts that state (`ScanLost`) and two more: the timer task in the
  loop of `bk_wlan_start_ap` (`wlan_ui.c` 451-466), which waits without bound for the
  AP that is up to leave, and a channel switch whose AP was removed (a random walk of
  `RoleLaunch` with seven requests reaches it).
* `RoleLaunch` also reaches states no document of the repository rules out and
  that are listed as hazards: the reconnection flag set over a zeroed request,
  and a soft-AP launch begun while a directly started station is still scanning.
* `RebootServed`, `DisableUnderway`: a command deferred to the wake-up is lost only
  when its message then finds the queue full.
* `FramesFetched`, `TokensCover`: a failed `os_malloc` spends a token without its
  frame, which then waits for the next frame.
* `ReceivedWhole` excepts networks that reorder: `TftpHandler` stores any block
  whose number differs from the last one as the next one, so a late packet takes
  another's place and the short last block still ends the download as a success
  (`tftpclient.c` 279-303). `HeaderWhole` holds all the same, because of the checksum.
* **`fake_socket_shipped`**: with `CFG_NEW_SUPP` 0, as shipped,
  `bk_wlan_stop` closes the sockets in its caller's thread, which may preempt the
  wpas thread inside `fsocket_send`: the frame goes to the freed element, the bus
  message posted after it finds none and
  `ASSERT(payload_size)` (`hostapd_intf.c` 979) fails. In that build a frame that
  arrives before its socket is registered also spends its token in vain.
* **A head cut in two** (`PrefixSurvives`): flash is programmed 32 bytes at a time, and with
  the MAC address and three more items in front the fifth head lies at 60. A power
  failure at 64 leaves its type with the length 0xFFFFFFFF, and `get_info_item` copies
  `head.len` bytes (`net_param.c` 147) into a variable of four (`Overrun`). No other
  place of a head is cut so by the items the code saves; behind the cut nothing is
  found, and in front of it every value is read as saved.
* **`net_param_size`**: over erased bytes a head has length 0xFFFFFFFF, so the walk goes on
  7 bytes further and passes over the items behind the hole that a power failure
  left; each save appends its item again, finds it no more the next time, and the
  table outgrows the sector (`net_param.c` 275: "assume info cfg tbl size is less than
  4k").

One more configuration is for use by hand; TLC finds a counterexample:

* `DhcpFull.cfg` (`MCDhcpServer`): once the table is full, what is granted is not
  recorded and may be granted again; entries are never released. (The comment at
  `dhcp-server.c` 439 speaks of addresses "not assigned to any other client".)

## Fairness

`RwMsg`: the scheduler runs every ready thread and the tick ends every wait; the
firmware and the RF owe nothing. `MsgBus`: threads and interrupt handlers that
have begun go on, and the RF wakes for a transmission. `RoleLaunch`: timers that
run expire and the timer task goes on, except in the loop of `bk_wlan_start_ap`; the
firmware confirms every scan it was asked for, an AP
that is up keeps beaconing (each beacon is reported by `mm_bcn` in the MAC library)
and a channel switch ends while hostapd lives. Nothing is assumed of the
supplicant, of DHCP or of the applications. `PowerSave`: the wake-up interrupt comes,
threads that can run do, and the library finishes a mode change it was asked for
(strongly: it needs the RF awake, which it is again and again); no beacon, no
application and no new frame is assumed. `FakeSocket`: threads run when they can, and
a command that has opened a socket goes on to register it. `DhcpServer`: the server
thread runs, stations without an address ask and go on asking, and not every
request or answer of a station is lost (strong fairness of handling and receiving);
the subnet has more hosts than the table has entries. `TftpClient`: the thread runs,
the server repeats its packet for ever and neither all repetitions nor all
acknowledgements are lost; the retry timer, which gives up, is not relied on.

## Proofs

The provers check the theorems below for all values of the constants that the
`ASSUME`s of the modules admit. These say that sets are finite, bounds are natural
numbers, queues hold something and names are distinct; for `Kfifo` also that the size
of the buffer divides the range of the indices (`common/fifo.h` 35 and 45 make both
powers of two), for `NetParam` that a table with all six items the code saves, 84 bytes, fits the
partition (a sector of 4096 or more), for `TftpClient` that the image fits the flash, and for `DhcpServer`
that the server's own address is a host of its subnet. Each module's
`TypeCorrect` proves its type invariant, but for `NetParam`.

| Module | Theorem | Property | Inductive invariant |
|---|---|---|---|
| `RwMsgProofs` | `Inductive`, `LinkedLive`, `HeldNodesLive`, `ReturnedBufferSafe` | `IInv`, `LinkedNodesLive`, `NoUseAfterFree`, `NoWriteAfterReturn` | `IInv` |
| | `WakeupNotLost` | `NoLostWakeup` | itself |
| | `AnsweredOnce` | `ConfirmedOnce` | `OnePlace` |
| | `AnswerIsOwn` | `OwnConfirmation` | `OnePlace`, `CallRecords`, `Answers` |
| `MsgBusProofs` | `RxCounted`, `PbufsCounted` | `RxAccounting`, `PbufReferences` | `Account` |
| | `PsInOrder` | `LastPsCommandWins` | `PsOrder` |
| | `EventNotStranded` | `NoStrandedEvent` | `EventCovered` |
| `RoleLaunchProofs` | `MailboxHasTimer` | `MailboxArmed` | itself, with types |
| | `FollowingHasTimer` | `FollowingArmed` | `Armed` |
| | `EntitiesOwned`, `RequestsInOrder` | `EntityOwnership`, `StartsInOrder` | `Armed`, `Order`, `Apart`, `Owned` |
| `PowerSaveProofs` | `SleepStateAgrees` | `SleepAgrees` | `Typed` |
| | `SenderNotStranded`, `FramesSentAwake` | `NoStrandedSender`, `SentAwake` | `Waiting` |
| | `DisableNotForgotten` | `DisableUnderway` | `Disabling` |
| `FakeSocketProofs`, with `CFG_NEW_SUPP` | `PayloadFound` | `PayloadAssert` | `Untouched` |
| | `FramesHaveTokens` | `TokensCover` | `Tokens` |
| | `FramesKeepOrder` | `FramesInOrder` | `RxOrder`, `TxOrder` |
| `RefinementProofs`, `Kfifo` | `PeekStaysCovered` | `PeekCovered` | `RingInv` |
| | `Refinement` | `ImplementsByteFifo` | `RingInv` |
| `RefinementProofs`, `NetParam` | `StoreRefinement` | `ImplementsParamStore` | `TabInv` |
| | `PrefixHolds`, until the second power failure | `PrefixSurvives` | `TabInv` |
| `DhcpServerProofs`, with `TableFits` | `LeasesUnique`, `LeasesRecorded` | `UniqueLease`, `LeaseRecorded` | `Leases` |
| | `OffersHonoured` | `OfferHonoured` | `Leases`, `Asked` |
| `TftpClientProofs` | `HeaderMeansWhole` | `HeaderWhole` | `Image` |
| | `ReceivedMeansWhole` | `ReceivedWhole` | `Image`, `InStep` |

Three groups of theorems have a hypothesis. Those about `FakeSocket` (but for its types)
assume `CFG_NEW_SUPP`, the build in which the wpas thread opens and closes the sockets
itself; without it the run `fake_socket_shipped` refutes the assertion. Those about
`DhcpServer` (again but for its types) assume `TableFits`: the stations are no more than the table has entries;
with more `DhcpFull.cfg` refutes `UniqueLease`. `PrefixHolds` speaks of the states up to and
with the first power failure (`failures <= 1`): later saves build on what that failure
left, and the table they build may outgrow any sector (`net_param_size`).

The arguments:

* **`RwMsg`, nodes.** `NoUseAfterFree` is not inductive: that kmsgbk's node is live
  says nothing about its owner's next step. `IInv` adds, per control point of a caller,
  whether its node may be on the list (`LinkUnlinked`, `ReleaseUnlinked`,
  `AbortUnlinked`), that a signalled node is off the list (`SignalledUnlinked`), that a
  live node belongs to a call in progress (`LiveNodeOpen`), that lists hold no
  duplicates (`NoDup`), that calls are fresh and distinct, and which node kmsgbk may
  hold at which point (`KmsgHolds`). Whenever a caller runs, kmsgbk waits and holds
  nothing (priorities), so what a caller frees is at most on the list, and its control
  point says it is not - except on the full-bus path. The steps are split into those
  of callers, kmsgbk and the core thread (`ClientFrame`, `KmsgFrame`, `CoreFrame`).
* **`RwMsg`, answers.** `OnePlace`: a request is on the bus, in the firmware, on
  `rw_msg_rx_head`, in kmsgbk's hand or in a buffer, in one of them only and once. So no
  confirmation reaches two buffers. `CallRecords` relates a call's id, outcome and
  `shared`; `Answers` says that a message carries the id its request waits for and that
  the node about to be signalled has that id. A confirmation in the wrong buffer then
  has the id of a call that is still under way (an overlap) or has returned without
  its answer (a failure).
* **`MsgBus`.** The counts follow each message and each reference through sender,
  queue and handler; that a chain under transfer belongs to a TX message is all that
  is missing. `PsOrder` says where the last command of a feature is: in the queue
  behind all others of that feature, in the hand of the core thread, or applied.
  `EventCovered` says that a pending event has a message ahead after which the scheduler
  runs, which is what `bmsg_null_sender` relies on when it skips its own.
* **`RoleLaunch`.** `TypeOK` itself is not inductive: that the reconnection cache holds a
  station's parameters needs that the station's mailbox and its copy hold requests of
  a station (`KindsFit`). `FollowingArmed` speaks of the timer task at rest; `Armed` says
  what holds inside the handlers: what is started is in the previous slot, a role that
  is over has nothing that follows, and outside `rl_launch_handler` what follows has
  the timer. `Order` puts the places a request of a role passes through in a line,
  previous, following, copy, mailbox, along which numbers grow; `Apart` keeps the roles
  apart and `Owned` ties the heap to the slots.
* **`PowerSave`.** `SleepAgrees` carries the types (the lock count is 0 or 1 only because
  of it). A blocked sender is safe because a sleep keeps its wake-up enabled
  (`SleepArmed`) and because a sender that has looked at the RF already holds sleep off
  (`Threads`). A disable is owed only in the mode (`OffOwedInMode`), so nothing else can
  make it void.
* **`FakeSocket`.** What the wpas thread has looked up stays as it was between two of its
  steps, and every bus message has its frame (`Untouched`). `Tokens` counts the event
  under way for both sockets, since one round of `eloop_run` serves them in turn.
  Order is that of the frames that have passed followed by those in the queue.
* **`Kfifo`.** `Content`, the byte queue a ring stands for, is given by place
  (`ContentAt`); put and get change it by a suffix and a prefix, also across the wrap of
  the buffer and of the indices, by a few lemmas on remainders. `PeekPrefix`, that a look
  ahead has copied the front of what is there, makes its last byte a step of `ByteFifo`
  and all earlier ones stutter.
* **`NetParam`.** A `Layout` says which items a table has, where, and with which values:
  from the header on, each item ends where another one or nothing begins. `TableIn` says
  that memory holds the first bytes of such a table and is erased behind them; with all
  bytes it is the table itself. `TabInv`: until the power fails, flash and the table under
  way are of one layout, and what is written so far is a prefix. The walk of
  `search_info_item` is recursive, and two things replace an induction over it. That the
  walk obeys its equation (`SearchWalks`), although it need not end in every memory, is
  `WalkExists`: the equation has a solution, made of the stops that lie in every set
  closed under the walk. What it finds follows from the largest address at which the
  claim would be false (`GreatestIn`): an item is found when its type is there
  (`SearchFinds`) and is not found otherwise (`SearchMisses`), also when a head was cut
  within its type or its length (`UINT32Torn`). The length in a head that is whole is
  that of the item (`GetHeaded`); in one that is cut it is negative as a signed number,
  hence longer than any variable (`GetCutHead`). Saving gives the layout with one value changed or one item more
  (`NewLayout`, `SavedTable`), which is a step of the map; the last chunk exchanges the
  table under way for the one in flash, which reads the same.
* **`DhcpServer`.** The table holds one entry per station and per address
  (`GoodTable`), never drops one (`Keeps`), and has room for a station without an entry
  because the entries are of other stations (`Room`, by counting). `Leases`: every
  answer on its way, and every station that was promised an address, agrees with the
  table. `Asked`: a request that is not void names the address its station was promised,
  so it is not refused.
* **`TftpClient`.** `Image`: while the checksum is that of blocks 1 to n, these are in their
  places and the rest of the begun sector is erased, so an equal checksum means a whole
  image on any network. `InStep`, for networks that keep the order: the accepted server is
  at the client's block or one ahead, and what is under way from it rises between the two.

Only model-checked:

* liveness (`CallReturns`, `PbufFreed`, `StaFollowingStarts`, `SenderServed`, `RebootServed`,
  `FramesFetched`, `AllServed`, `Succeeds`): outside the proof system's reach;
* `PrefixSurvives` after a second power failure: the table then has items the walk no
  longer reaches, and no bound on its length;
* what is violated: `SetSemaphoreAssert`, `TableFits`, and `PayloadAssert` without
  `CFG_NEW_SUPP`.

The modules with theorems, and those they extend, have no `CASE` expression: the
translation to SMT of tlapm 1.4.5 accepts some false equalities between two of them
(`x = CASE h -> a [] ~h -> b` is taken to give `x = CASE h -> a [] ~h -> c`). `IF` has
no such fault; with it, changes to `NetParam`, such as a wrong value, length or sector,
make the proofs fail at the step that speaks of the change.

## Not modelled

The closed MAC and BLE libraries except as environment; vendored hostapd, lwIP,
FreeRTOS, FatFs, MQTT, EasyFlash and decoders; register drivers; parameter
passing, formatting and logging; builds for AliOS, RT-Thread and `CFG_USE_AP_PS`,
which the shipped `sys_config.h` turns off. `TftpClient` (`CFG_SUPPORT_OTA_TFTP`)
is also off in the shipped configuration. The audio ring, the buttons and the UART
console are compiled out as shipped and share nothing with the parts modelled
(the console is one more reader of `Kfifo`); MCU power save is a condition on a
counter plus arithmetic on a closed timer; the video service needs the list code of
the closed library and a camera. Left out of the modelled parts: two tasks saving
parameters at once, TFTP error packets, the beacon arithmetic of power save, a DHCP
thread that cannot be told to stop.

## Plan

1. `NetParam` after several power failures: a layout with stretches that the walk skips,
   and a bound on saves under which `PrefixSurvives` holds for all of them.
2. Composition of `PowerSave` with `MsgBus`: the queue that both have, with the
   reference counts of the one and the sleep of the other.
