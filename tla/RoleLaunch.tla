----------------------------- MODULE RoleLaunch -----------------------------
(***************************************************************************)
(* func/joint_up/role_launch.c: requests to start or stop the station and   *)
(* the soft AP pass through a one-place mailbox (g_rl_socket) and, in the   *)
(* FreeRTOS timer task, through a previous and a following slot per role.   *)
(* The timer task runs rl_enter_handler and rl_launch_handler; what the     *)
(* supplicant, hostapd, lwIP and kmsgbk threads report about the launch in  *)
(* progress (rl_pre_sta_set_status, rl_pre_ap_set_status, the CSA flag)     *)
(* happens between any two of its steps.                                    *)
(***************************************************************************)
EXTENDS Naturals

CONSTANTS
    MaxReqs,    \* bound: requests that enter the mailbox
    MaxOom,     \* bound: failed allocations in rl_enter_handler
    MaxUpdates, \* bound: beacon changes by a running hostapd
    StaKinds,   \* requests the applications make for the station ...
    ApKinds     \* ... and for the soft AP

ASSUME BoundsAssumption == MaxReqs \in Nat /\ MaxOom \in Nat /\ MaxUpdates \in Nat
ASSUME KindsAssumption == StaKinds \subseteq {"sta", "scan", "delsta"} /\ ApKinds \subseteq {"ap", "delap"}

Roles == {"sta", "ap"}
Other(r) == IF r = "sta" THEN "ap" ELSE "sta"
Ids == 1 .. MaxReqs
\* LAUNCH_REQ; "zero" is the request type of a zeroed structure.
Reqs == [id : Ids, kind : StaKinds \cup ApKinds \cup {"zero"}]
None == [id |-> 0, kind |-> "zero"]

VARIABLES
    mailbox,    \* g_rl_socket: the request of each role, None without its flag
    cache,      \* g_sta_cache: the request kind kept, and its flag
    enterTimer, \* enter_timer is running
    rlTimer,    \* rl_timer is running
    entType,    \* pre_entity_type
    previous,   \* jl_previous_sta, jl_previous_ap
    following,  \* jl_following_sta, jl_following_ap
    heap,       \* entities allocated and not freed
    status,     \* pre_sta_status, pre_ap_status
    apBit,      \* RL_STATUS_CANCEL in pre_ap_status
    cancel,     \* pre_sta_cancel, pre_ap_cancel
    csa,        \* g_mrole_csa_flag: "none", "switching", "switched"
    pc,         \* control of the timer task
    hit,        \* rl_enter_handler's copy of the mailbox
    turn,       \* role rl_launch_handler works on
    swapped,    \* it has changed pre_entity_type in this run
    after,      \* where to go when the request is started
    supp,       \* supplicant: "off", "idle", "joining", "assoc", "dhcp", "up"
    scan,       \* scan in the firmware and its callback: "none", "supp", "demo"
    link,       \* the firmware's connection: "down", "joining", "up"
    apUp,       \* hostapd runs and beacons
    updates,    \* beacon changes made
    entered,    \* number of requests made
    oom,        \* failed allocations
    dropped,    \* history: the last expiry of enter_timer was lost
    started     \* history: last request started for each role

slots  == <<previous, following, heap, entType>>
launch == <<status, apBit, cancel, csa>>
timers == <<enterTimer, rlTimer>>
task   == <<pc, hit, turn, swapped, after>>
env    == <<supp, scan, link, apUp, updates>>
hist   == <<oom, dropped, started>>
vars   == <<mailbox, cache, entered, slots, launch, timers, task, env, hist>>

Statuses == {"unknown", "initing", "scanning", "scan_over", "connecting", "dhcping",
             "launched", "failed", "updating_bcn", "transmitted_bcn"}

\* The types of the variables.
TypeOK ==
    /\ mailbox \in [Roles -> Reqs \cup {None}] /\ hit \in [Roles -> Reqs \cup {None}]
    /\ previous \in [Roles -> Reqs \cup {None}] /\ following \in [Roles -> Reqs \cup {None}]
    /\ cache \in [kind : StaKinds \cup {"zero"}, flag : BOOLEAN]
    /\ enterTimer \in BOOLEAN /\ rlTimer \in BOOLEAN
    /\ entType \in Roles \cup {"idle"} /\ turn \in Roles
    /\ heap \subseteq Ids
    /\ status \in [Roles -> Statuses] /\ apBit \in BOOLEAN /\ cancel \in [Roles -> BOOLEAN]
    /\ csa \in {"none", "switching", "switched"}
    /\ pc \in {"idle", "copy", "sta", "ap", "cache", "flag", "start", "stop", "wait", "init", "scan",
               "launch", "decide", "over", "relaunch"}
    /\ swapped \in BOOLEAN /\ after \in {"cache", "idle", "relaunch"}
    /\ supp \in {"off", "idle", "joining", "assoc", "dhcp", "up"} /\ scan \in {"none", "supp", "demo"}
    /\ link \in {"down", "joining", "up"} /\ apUp \in BOOLEAN /\ updates \in 0 .. MaxUpdates
    /\ entered \in 0 .. MaxReqs /\ oom \in 0 .. MaxOom /\ dropped \in BOOLEAN
    /\ started \in [Roles -> 0 .. MaxReqs]

Init ==
    /\ mailbox = [r \in Roles |-> None] /\ hit = [r \in Roles |-> None]
    /\ previous = [r \in Roles |-> None] /\ following = [r \in Roles |-> None]
    /\ cache = [kind |-> "zero", flag |-> FALSE]
    /\ enterTimer = FALSE /\ rlTimer = FALSE /\ entType = "idle" /\ turn = "sta"
    /\ heap = {}
    /\ status = [r \in Roles |-> "unknown"] /\ apBit = FALSE
    /\ cancel = [r \in Roles |-> FALSE] /\ csa = "none"
    /\ pc = "idle" /\ swapped = FALSE /\ after = "idle"
    /\ supp = "off" /\ scan = "none" /\ link = "down" /\ apUp = FALSE /\ updates = 0
    /\ entered = 0 /\ oom = 0 /\ dropped = FALSE
    /\ started = [r \in Roles |-> 0]

-----------------------------------------------------------------------------
(* Requests                                                                 *)

\* (mutant) a pending request is trusted to have started the timer.
EnterTrusting(r, kind) ==
    /\ entered < MaxReqs
    /\ entered' = entered + 1
    /\ mailbox' = [mailbox EXCEPT ![r] = [id |-> entered + 1, kind |-> kind]]
    /\ enterTimer' = IF mailbox = [q \in Roles |-> None] THEN TRUE ELSE enterTimer
    /\ dropped' = FALSE

\* rl_sta_request_enter, rl_ap_request_enter: overwrite the mailbox and
\* restart enter_timer, with interrupts off.
Enter(r, kind) ==
    /\ entered < MaxReqs
    /\ entered' = entered + 1
    /\ mailbox' = [mailbox EXCEPT ![r] = [id |-> entered + 1, kind |-> kind]]
    /\ enterTimer' = TRUE
    /\ dropped' = FALSE

\* bk_wlan_start, the scan and the delif commands, on an application thread.
Request(r, kind) ==
    /\ kind \in IF r = "sta" THEN StaKinds ELSE ApKinds
    /\ Enter(r, kind)
    /\ UNCHANGED <<cache, slots, launch, rlTimer, task, env, oom, started>>

-----------------------------------------------------------------------------
(* rl_enter_handler                                                         *)

\* enter_timer expires.
EnterFire ==
    /\ pc = "idle" /\ enterTimer
    /\ enterTimer' = FALSE
    /\ pc' = "copy"
    /\ UNCHANGED <<mailbox, cache, entered, slots, launch, rlTimer, hit, turn, swapped, after, env, hist>>

\* os_malloc fails: the mailbox stays and nothing will look at it again
\* before the next request.
EnterNoMem ==
    /\ pc = "copy" /\ oom < MaxOom
    /\ oom' = oom + 1
    /\ dropped' = ~enterTimer
    /\ pc' = "idle"
    /\ UNCHANGED <<mailbox, cache, entered, slots, launch, timers, hit, turn, swapped, after, env, started>>

\* Copy and clear the mailbox with interrupts off.
EnterCopy ==
    /\ pc = "copy"
    /\ hit' = mailbox
    /\ mailbox' = [r \in Roles |-> None]
    /\ pc' = "sta"
    /\ UNCHANGED <<cache, entered, slots, launch, timers, turn, swapped, after, env, hist>>

\* The copy is freed when the AP's request, the last, has been entered.
FreeCopy(r) == hit' = IF r = "ap" THEN [q \in Roles |-> None] ELSE hit

\* No request of this role in the copy.
EnterNone(r) ==
    /\ pc = r /\ hit[r] = None
    /\ pc' = IF r = "sta" THEN "ap" ELSE "idle"
    /\ FreeCopy(r)
    /\ UNCHANGED <<mailbox, cache, entered, slots, launch, timers, turn, swapped, after, env, hist>>

\* Occupy a slot of role r: rl_alloc_entity, and the type if it was idle.
Alloc(r) ==
    /\ heap' = heap \cup {hit[r].id}
    /\ entType' = IF entType = "idle" THEN r ELSE entType

\* rl_sta_request_start and rl_ap_request_start begin: rl_pre_sta_init and
\* rl_pre_ap_init for the requests that launch something.
PreInit(r, kind) ==
    IF kind \in {"sta", "scan", "ap"}
    THEN /\ status' = [status EXCEPT ![r] = "unknown"]
         /\ cancel' = [cancel EXCEPT ![r] = FALSE]
         /\ apBit' = IF r = "ap" THEN FALSE ELSE apBit
    ELSE UNCHANGED <<status, cancel, apBit>>

\* (mutant) the slot of the other role is not looked at.
EnterDirectOwnOnly(r) ==
    /\ pc = r /\ hit[r] # None
    /\ previous[r] = None
    /\ previous' = [previous EXCEPT ![r] = hit[r]]
    /\ Alloc(r)
    /\ started' = [started EXCEPT ![r] = hit[r].id]
    /\ PreInit(r, hit[r].kind)
    /\ turn' = r
    /\ pc' = "start" /\ after' = IF r = "sta" THEN "cache" ELSE "idle"
    /\ FreeCopy(r)
    /\ UNCHANGED <<mailbox, cache, entered, following, csa, timers, swapped, env, oom, dropped>>

\* _sta_request_enter, _ap_request_enter with both previous slots free:
\* start at once.  rl_timer is not started.
EnterDirect(r) ==
    /\ pc = r /\ hit[r] # None
    /\ \A s \in Roles : previous[s] = None
    /\ previous' = [previous EXCEPT ![r] = hit[r]]
    /\ Alloc(r)
    /\ started' = [started EXCEPT ![r] = hit[r].id]
    /\ PreInit(r, hit[r].kind)
    /\ turn' = r
    /\ pc' = "start" /\ after' = IF r = "sta" THEN "cache" ELSE "idle"
    /\ FreeCopy(r)
    /\ UNCHANGED <<mailbox, cache, entered, following, csa, timers, swapped, env, oom, dropped>>

\* Otherwise into the following slot; a full one drops the request.  Both
\* restart rl_timer (rl_start).
EnterFollow(r) ==
    /\ pc = r /\ hit[r] # None
    /\ \E s \in Roles : previous[s] # None
    /\ rlTimer' = TRUE
    /\ IF following[r] = None
       THEN /\ following' = [following EXCEPT ![r] = hit[r]]
            /\ Alloc(r)
            /\ pc' = IF r = "sta" THEN "cache" ELSE "idle"
       ELSE /\ UNCHANGED <<following, heap, entType>>
            /\ pc' = IF r = "sta" THEN "ap" ELSE "idle"
    /\ FreeCopy(r)
    /\ UNCHANGED <<mailbox, cache, entered, previous, launch, enterTimer, turn, swapped, after, env, hist>>

\* An accepted station request is cached for a reconnection, without a lock
\* and the flag last.
CacheParam ==
    /\ pc = "cache"
    /\ cache' = [cache EXCEPT !.kind = hit["sta"].kind]
    /\ pc' = "flag"
    /\ UNCHANGED <<mailbox, entered, slots, launch, timers, hit, turn, swapped, after, env, hist>>

CacheFlag ==
    /\ pc = "flag"
    /\ cache' = [cache EXCEPT !.flag = TRUE]
    /\ pc' = "ap"
    /\ UNCHANGED <<mailbox, entered, slots, launch, timers, hit, turn, swapped, after, env, hist>>

-----------------------------------------------------------------------------
(* Starting a request: bk_wlan_start_sta, bk_wlan_start_scan, bk_wlan_stop   *)
(* and bk_wlan_start_ap, in the timer task                                   *)

\* bk_wlan_stop(BK_STATION), alone or first thing in bk_wlan_start_sta: no
\* status while the station goes down ...
StartStopSta ==
    /\ pc = "start" /\ previous[turn].kind \in {"sta", "delsta"}
    /\ status' = [status EXCEPT !["sta"] = "unknown"]
    /\ pc' = "stop"
    /\ UNCHANGED <<mailbox, cache, entered, slots, apBit, cancel, csa, timers, hit, turn, swapped, after,
                   env, hist>>

\* ... RL_STATUS_STA_LAUNCHED at the end.  The indication of the
\* disconnection is still to come.
StopSta ==
    /\ pc = "stop"
    /\ supp' = "off"
    /\ cancel' = [cancel EXCEPT !["sta"] = FALSE]
    /\ status' = [status EXCEPT !["sta"] = "launched"]
    /\ pc' = IF previous[turn].kind = "sta" THEN "init" ELSE after
    /\ UNCHANGED <<mailbox, cache, entered, slots, apBit, csa, timers, hit, turn, swapped, after,
                   scan, link, apUp, updates, hist>>

\* bk_wlan_sta_init, then supplicant_main_entry or the scan request.
StartInitSta ==
    /\ \/ pc = "init" /\ turn = "sta"
       \/ pc = "start" /\ previous[turn].kind = "scan"
    /\ csa' = "none"
    /\ status' = [status EXCEPT !["sta"] = "initing"]
    /\ IF previous["sta"].kind = "sta"
       THEN pc' = after /\ supp' = "idle"
       ELSE pc' = "scan" /\ supp' = supp
    /\ UNCHANGED <<mailbox, cache, entered, slots, apBit, cancel, timers, hit, turn, swapped, after,
                   scan, link, apUp, updates, hist>>

\* rw_msg_send_scanu_req: RL_STATUS_STA_SCANNING is refused in a wrong state
\* or after a cancel, and the scan is over before it began.  Otherwise the
\* status is set first: when ke_msg_alloc or the push to the bus fails after
\* that, it stays, and no SCANU_START_CFM will come.
ScanReq(callback) ==
    IF status["sta"] \in {"initing", "scan_over"} /\ ~cancel["sta"]
    THEN /\ status' = [status EXCEPT !["sta"] = "scanning"]
         /\ scan' \in {callback, scan}
    ELSE /\ status' = [status EXCEPT !["sta"] = "scan_over"]
         /\ scan' = scan

StartScan ==
    /\ pc = "scan"
    /\ ScanReq("demo")
    /\ pc' = after
    /\ UNCHANGED <<mailbox, cache, entered, slots, apBit, cancel, csa, timers, hit, turn, swapped, after,
                   supp, link, apUp, updates, hist>>

\* rl_pre_ap_set_status(s): the cancel bit is added.
SetApStatus(s) ==
    /\ status' = [status EXCEPT !["ap"] = s]
    /\ apBit' = cancel["ap"]

\* bk_wlan_start_ap begins with a loop that polls the MAC library every 100 ms
\* until no beacon is unconfirmed and no configuration is left to send.
StartWaitAp ==
    /\ pc = "start" /\ previous[turn].kind = "ap"
    /\ pc' = "wait"
    /\ UNCHANGED <<mailbox, cache, entered, slots, launch, timers, hit, turn, swapped, after, env, hist>>

\* bk_wlan_stop(BK_SOFT_AP), alone or behind the loop of bk_wlan_start_ap,
\* which ends when the library says so.
StartStopAp ==
    /\ \/ pc = "start" /\ previous[turn].kind = "delap"
       \/ pc = "wait"
    /\ apUp' = FALSE
    /\ SetApStatus("launched")
    /\ pc' = IF pc = "wait" THEN "init" ELSE after
    /\ UNCHANGED <<mailbox, cache, entered, slots, cancel, csa, timers, hit, turn, swapped, after,
                   supp, scan, link, updates, hist>>

\* bk_wlan_ap_init and hostapd_main_entry, whose last report is the beacon;
\* if hostapd fails the AP is stopped again.
StartInitAp ==
    /\ pc = "init" /\ turn = "ap"
    /\ csa' = "none"
    /\ apUp' \in BOOLEAN
    /\ SetApStatus(IF apUp' THEN "updating_bcn" ELSE "launched")
    /\ pc' = after
    /\ UNCHANGED <<mailbox, cache, entered, slots, cancel, timers, hit, turn, swapped, after,
                   supp, scan, link, updates, hist>>

\* A zeroed request starts nothing.
StartNothing ==
    /\ pc = "start" /\ previous[turn].kind = "zero"
    /\ pc' = after
    /\ UNCHANGED <<mailbox, cache, entered, slots, launch, timers, hit, turn, swapped, after, env, hist>>

-----------------------------------------------------------------------------
(* rl_launch_handler                                                        *)

\* rl_timer expires; the handler begins with the role of pre_entity_type.
LaunchFire ==
    /\ pc = "idle" /\ rlTimer
    /\ rlTimer' = FALSE
    /\ IF entType = "idle"
       THEN pc' = "idle" /\ turn' = turn
       ELSE pc' = "launch" /\ turn' = entType
    /\ UNCHANGED <<mailbox, cache, entered, slots, launch, enterTimer, hit, swapped, after, env, hist>>

\* Move the following request of role r up and start it, or end with r.
\* rl_launch_ap resets the AP's status and cancel flag whatever the request.
MoveUp(r) ==
    /\ previous' = [previous EXCEPT ![r] = following[r]]
    /\ following' = [following EXCEPT ![r] = None]
    /\ after' = "relaunch"
    /\ IF following[r] = None
       THEN /\ pc' = "over"
            /\ UNCHANGED <<started, status, cancel, apBit>>
       ELSE /\ pc' = "start"
            /\ started' = [started EXCEPT ![r] = following[r].id]
            /\ PreInit(r, IF r = "ap" THEN "ap" ELSE following[r].kind)

\* rl_launch_sta, rl_launch_ap with a free previous slot.
LaunchFree ==
    /\ pc = "launch" /\ previous[turn] = None
    /\ MoveUp(turn)
    /\ UNCHANGED <<mailbox, cache, entered, heap, entType, csa, timers, hit, turn, swapped, env, oom, dropped>>

\* (mutant) the launch in progress is not cancelled.
LaunchBusyNoCancel ==
    /\ pc = "launch" /\ previous[turn] # None
    /\ pc' = "decide"
    /\ UNCHANGED <<mailbox, cache, entered, slots, launch, timers, hit, turn, swapped, after, env, hist>>

\* With a launch in the previous slot: a following request (all are
\* LAUNCH_TYPE_ASAP) cancels it.  relaunch_limit is always 0.
LaunchBusy ==
    /\ pc = "launch" /\ previous[turn] # None
    /\ cancel' = IF following[turn] # None THEN [cancel EXCEPT ![turn] = TRUE] ELSE cancel
    /\ pc' = "decide"
    /\ UNCHANGED <<mailbox, cache, entered, slots, status, apBit, csa, timers, hit, turn, swapped, after, env, hist>>

\* rl_sta_may_next_launch
StaMayNext ==
    /\ csa # "switching"
    /\ \/ csa = "switched"
       \/ cancel["sta"] /\ status["sta"] \in {"dhcping", "initing", "scan_over", "connecting"}
       \/ status["sta"] \in {"failed", "launched"}

\* rl_ap_may_next_launch(cancel_pre_flag)
ApMayNext ==
    \/ following["ap"] = None
    \/ /\ csa # "switching"
       /\ (status["ap"] = "transmitted_bcn" /\ apBit) \/ status["ap"] = "launched"

MayNext(r) == IF r = "sta" THEN StaMayNext ELSE ApMayNext

\* (mutant) the entity of the launch that ends is not freed.
DecideNextLeak ==
    /\ pc = "decide" /\ MayNext(turn)
    /\ MoveUp(turn)
    /\ UNCHANGED <<mailbox, cache, entered, heap, entType, csa, timers, hit, turn, swapped, env, oom, dropped>>

\* The launch is over or gives way: free it and go on with the next.
DecideNext ==
    /\ pc = "decide" /\ MayNext(turn)
    /\ heap' = heap \ {previous[turn].id}
    /\ MoveUp(turn)
    /\ UNCHANGED <<mailbox, cache, entered, entType, csa, timers, hit, turn, swapped, env, oom, dropped>>

\* LAUNCH_STATUS_CONT: look again at the next expiry.
DecideWait ==
    /\ pc = "decide" /\ ~MayNext(turn)
    /\ pc' = "relaunch"
    /\ UNCHANGED <<mailbox, cache, entered, slots, launch, timers, hit, turn, swapped, after, env, hist>>

\* (mutant) the other role is left to the next request.
LaunchOverOne ==
    /\ pc = "over"
    /\ pc' = "idle"
    /\ entType' = Other(turn)
    /\ UNCHANGED <<mailbox, cache, entered, previous, following, heap, launch, timers, hit, turn, swapped, after, env, hist>>

\* LAUNCH_STATUS_OVER: the type changes to the other role, which gets its
\* turn; when both are over the timer stays off.
LaunchOver ==
    /\ pc = "over"
    /\ IF swapped
       THEN pc' = "idle" /\ swapped' = FALSE /\ UNCHANGED <<entType, turn>>
       ELSE /\ pc' = "launch" /\ swapped' = TRUE
            /\ entType' = Other(turn) /\ turn' = Other(turn)
    /\ UNCHANGED <<mailbox, cache, entered, previous, following, heap, launch, timers, hit, after, env, hist>>

\* rl_relaunch_chance
Relaunch ==
    /\ pc = "relaunch"
    /\ rlTimer' = TRUE
    /\ swapped' = FALSE
    /\ pc' = "idle"
    /\ UNCHANGED <<mailbox, cache, entered, slots, launch, enterTimer, hit, turn, after, env, hist>>

-----------------------------------------------------------------------------
(* The other threads, all of higher priority than the timer task            *)

\* rl_pre_sta_set_status(s) for every status but RL_STATUS_STA_SCANNING.
SetStaStatus(s) == status' = [status EXCEPT !["sta"] = s]

\* The supplicant scans.
SuppScan ==
    /\ supp = "idle" /\ scan = "none"
    /\ ScanReq("supp")
    /\ UNCHANGED <<mailbox, cache, entered, slots, apBit, cancel, csa, timers, task, supp, link, apUp, updates, hist>>

\* wpa_send_assoc_req: a cancelled launch goes no further.
SuppAssoc ==
    /\ supp = "idle" /\ scan = "none" /\ link = "down"
    /\ SetStaStatus("connecting")
    /\ IF cancel["sta"] THEN UNCHANGED <<supp, link>> ELSE supp' = "joining" /\ link' = "joining"
    /\ UNCHANGED <<mailbox, cache, entered, slots, apBit, cancel, csa, timers, task, scan, apUp, updates, hist>>

\* dhcp_start after the association.
Dhcp ==
    /\ supp = "assoc"
    /\ SetStaStatus("dhcping")
    /\ supp' = IF cancel["sta"] THEN "assoc" ELSE "dhcp"
    /\ UNCHANGED <<mailbox, cache, entered, slots, apBit, cancel, csa, timers, task, scan, link, apUp, updates, hist>>

\* wm_netif_status_callback: the address is bound.
Bound ==
    /\ supp = "dhcp"
    /\ SetStaStatus("launched")
    /\ supp' = "up"
    /\ UNCHANGED <<mailbox, cache, entered, slots, apBit, cancel, csa, timers, task, scan, link, apUp, updates, hist>>

\* SCANU_START_CFM on kmsgbk: RL_STATUS_STA_SCAN_OVER, then the callback of
\* the scan; scan_cb of the demo reports the end of a pure scan.
ScanCfm ==
    /\ scan # "none"
    /\ SetStaStatus(IF scan = "demo" THEN "launched" ELSE "scan_over")
    /\ scan' = "none"
    /\ UNCHANGED <<mailbox, cache, entered, slots, apBit, cancel, csa, timers, task, supp, link, apUp, updates, hist>>

\* SM_CONNECT_IND of success.  With an AP on another channel,
\* bk_wlan_ap_csa_coexist_mode begins a channel switch; rl_set_csa_switching
\* refuses it while a launch is being cancelled.
ConnectInd ==
    /\ link = "joining"
    /\ link' = "up"
    /\ supp' = IF supp = "joining" THEN "assoc" ELSE supp
    /\ \/ csa' = csa
       \/ apUp /\ ~cancel["sta"] /\ ~cancel["ap"] /\ csa' = "switching"
    /\ UNCHANGED <<mailbox, cache, entered, slots, status, apBit, cancel, timers, task, scan, apUp, updates, hist>>

\* rl_sta_cache_request_enter: the cached request enters the mailbox again
\* and the cache is cleared, with interrupts off.
CacheEnter ==
    /\ IF cache.flag THEN Enter("sta", cache.kind)
                     ELSE UNCHANGED <<mailbox, entered, enterTimer, dropped>>
    /\ cache' = [kind |-> "zero", flag |-> FALSE]

\* mhdr_disconnect_ind: unless the station is just being started (and the
\* reason is not VENDOR_CONNECTION_LOSS) it reconnects.  SM_DISCONNECT_IND
\* then reports a failed launch; a failed SM_CONNECT_IND does not.
DisconnectInd ==
    /\ link # "down"
    /\ link' = "down"
    /\ supp' = IF supp = "off" THEN "off" ELSE "idle"
    /\ \/ CacheEnter
       \/ /\ status["sta"] \in {"unknown", "initing"}
          /\ previous["sta"] # None \/ following["sta"] # None
          /\ UNCHANGED <<mailbox, entered, enterTimer, dropped, cache>>
    /\ SetStaStatus(IF link = "up" THEN "failed" ELSE status["sta"])
    /\ UNCHANGED <<slots, apBit, cancel, csa, rlTimer, task, scan, apUp, updates, oom, started>>

\* The MAC library reports each beacon sent.
ApBeacon ==
    /\ apUp
    /\ SetApStatus("transmitted_bcn")
    /\ UNCHANGED <<mailbox, cache, entered, slots, cancel, csa, timers, task, env, hist>>

\* hapd_intf_set_ap_bcn when hostapd changes the beacon.
ApUpdate ==
    /\ apUp /\ updates < MaxUpdates
    /\ updates' = updates + 1
    /\ SetApStatus("updating_bcn")
    /\ UNCHANGED <<mailbox, cache, entered, slots, cancel, csa, timers, task, supp, scan, link, apUp, hist>>

\* hostapd_event_ch_switch: rl_set_csa_switched, while hostapd lives.
CsaSwitched ==
    /\ csa = "switching" /\ apUp
    /\ csa' = "switched"
    /\ UNCHANGED <<mailbox, cache, entered, slots, status, apBit, cancel, timers, task, env, hist>>

-----------------------------------------------------------------------------
EnterStep ==
    \/ EnterFire \/ EnterNoMem \/ EnterCopy \/ CacheParam \/ CacheFlag
    \/ \E r \in Roles : EnterNone(r) \/ EnterDirect(r) \/ EnterFollow(r)

StartStep ==
    \/ StartStopSta \/ StopSta \/ StartInitSta \/ StartScan
    \/ StartWaitAp \/ StartStopAp \/ StartInitAp \/ StartNothing

LaunchStep ==
    \/ LaunchFire \/ LaunchFree \/ LaunchBusy \/ DecideNext \/ DecideWait \/ LaunchOver \/ Relaunch

TimerTask == EnterStep \/ StartStep \/ LaunchStep

Next ==
    \/ \E r \in Roles, kind \in StaKinds \cup ApKinds : Request(r, kind)
    \/ TimerTask
    \/ SuppScan \/ SuppAssoc \/ Dhcp \/ Bound
    \/ ScanCfm \/ ConnectInd \/ DisconnectInd
    \/ ApBeacon \/ ApUpdate \/ CsaSwitched

\* The timer task runs and its timers expire, but nothing makes the loop of
\* bk_wlan_start_ap end; the firmware ends every scan it was asked for, an AP
\* keeps beaconing and a channel switch ends while hostapd lives.
Fairness ==
    /\ WF_vars(EnterStep) /\ WF_vars(pc # "wait" /\ StartStep) /\ WF_vars(LaunchStep)
    /\ WF_vars(ScanCfm) /\ WF_vars(ApBeacon) /\ WF_vars(CsaSwitched)

Spec == Init /\ [][Next]_vars
FairSpec == Spec /\ Fairness

-----------------------------------------------------------------------------
(* Properties                                                               *)

Entities == {previous[r].id : r \in Roles} \cup {following[r].id : r \in Roles}

\* The entities on the heap are the occupied slots, each in one slot only:
\* none is leaked, freed twice or used after rl_free_entity.
EntityOwnership ==
    /\ heap = Entities \ {0}
    /\ \A r, s \in Roles :
          /\ previous[r] # None => previous[r] # following[s]
          /\ r # s => /\ previous[r] # None => previous[r] # previous[s]
                      /\ following[r] # None => following[r] # following[s]

\* Whatever the order of requests and expiries, a following request is never
\* left behind with rl_timer off: rl_launch_handler stops only when both
\* roles have nothing to do.
FollowingArmed ==
    pc \in {"idle", "copy"} => \A r \in Roles : following[r] # None => rlTimer

\* A request in the mailbox has enter_timer running, or an expiry at hand
\* that will find it; only a failed allocation leaves one unattended.
MailboxArmed ==
    \A r \in Roles : mailbox[r] # None => enterTimer \/ pc = "copy" \/ dropped

\* For each role, requests are started in the order in which they entered:
\* none overtakes one that waits in the following slot, none is repeated.
StartsInOrder ==
    [][\A r \in Roles : started'[r] # started[r] => started'[r] > started[r]]_vars

\* A scan request that did not reach the firmware: rl_sta_may_next_launch
\* waits for a status that nobody will set.
ScanLost == status["sta"] = "scanning" /\ scan = "none"

\* A station request that waits is launched, whatever the launch before it is
\* doing.  The code has three ways to hold it up for good: a scan request
\* that was lost, the loop of bk_wlan_start_ap in the timer task, and a
\* channel switch under way when the AP goes away, which leaves
\* g_mrole_csa_flag at "switching".
StaFollowingStarts ==
    following["sta"] # None ~> \/ following["sta"] = None
                               \/ ScanLost
                               \/ pc = "wait"
                               \/ csa = "switching" /\ ~apUp
=============================================================================
