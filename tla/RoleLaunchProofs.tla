-------------------------- MODULE RoleLaunchProofs --------------------------
(***************************************************************************)
(* For every number of requests, failed allocations and beacon changes and  *)
(* every choice of request kinds: role launch is type correct, leaves no    *)
(* request in the mailbox or in a following slot without its timer (Armed), *)
(* starts the requests of a role in order (Order) and owns every entity     *)
(* exactly once (Apart).                                                    *)
(***************************************************************************)
EXTENDS RoleLaunch, TLAPS

-----------------------------------------------------------------------------
(* Type correctness                                                         *)

LEMMA NoneFacts ==
    /\ None.id = 0 /\ None.kind = "zero"
    /\ \A q \in Reqs : q # None /\ q.id \in Ids /\ q.id \in Nat /\ q.id > 0
    /\ Ids \subseteq Nat /\ 0 \notin Ids
BY BoundsAssumption DEF None, Reqs, Ids

\* The types, flags and the rest apart, and that the station's requests in the
\* mailbox and in its copy are requests for the station.
Flags == {enterTimer, rlTimer, apBit, swapped, apUp, dropped} \subseteq BOOLEAN
FlagsOf == [Roles -> BOOLEAN]
Data ==
    /\ mailbox \in [Roles -> Reqs \cup {None}] /\ hit \in [Roles -> Reqs \cup {None}]
    /\ previous \in [Roles -> Reqs \cup {None}] /\ following \in [Roles -> Reqs \cup {None}]
    /\ entType \in Roles \cup {"idle"} /\ turn \in Roles
    /\ heap \subseteq Ids
    /\ status \in [Roles -> Statuses]
    /\ csa \in {"none", "switching", "switched"}
    /\ pc \in {"idle", "copy", "sta", "ap", "cache", "flag", "start", "stop", "wait", "init", "scan",
               "launch", "decide", "over", "relaunch"}
    /\ after \in {"cache", "idle", "relaunch"}
    /\ supp \in {"off", "idle", "joining", "assoc", "dhcp", "up"} /\ scan \in {"none", "supp", "demo"}
    /\ link \in {"down", "joining", "up"} /\ updates \in 0 .. MaxUpdates
    /\ entered \in 0 .. MaxReqs /\ oom \in 0 .. MaxOom
    /\ started \in [Roles -> 0 .. MaxReqs]
Caches == [kind : StaKinds \cup {"zero"}, flag : BOOLEAN]
KindsFit == {mailbox["sta"].kind, hit["sta"].kind} \subseteq StaKinds \cup {"zero"}

Typed == Flags /\ cancel \in FlagsOf /\ Data /\ cache \in Caches /\ KindsFit

LEMMA TypedOK == Typed => TypeOK
BY DEF Typed, Flags, FlagsOf, Data, Caches, TypeOK

LEMMA TypeInit == Init => Typed
<1> SUFFICES ASSUME Init PROVE Typed
  OBVIOUS
<1>1. Flags
  BY DEF Init, Flags
<1>2. cancel \in FlagsOf /\ cache \in Caches
  BY DEF Init, FlagsOf, Caches
<1>3. Data
  BY BoundsAssumption DEF Init, Data, Roles, Statuses
<1>4. KindsFit
  BY DEF Init, KindsFit, Roles, None
<1> QED
  BY <1>1, <1>2, <1>3, <1>4 DEF Typed

\* The steps of the other threads that leave the mailbox alone.
Report ==
    \/ SuppScan \/ SuppAssoc \/ Dhcp \/ Bound \/ ScanCfm \/ ConnectInd
    \/ ApBeacon \/ ApUpdate \/ CsaSwitched

\* The steps that put a request into the mailbox.
Arrival == DisconnectInd \/ \E r \in Roles, kind \in StaKinds \cup ApKinds : Request(r, kind)

LEMMA NextParts ==
    [Next]_vars => EnterStep \/ StartStep \/ LaunchStep \/ Report \/ Arrival \/ UNCHANGED vars
BY DEF Next, TimerTask, Report, Arrival

\* What an arrival does to the mailbox.
LEMMA ArrivalEnters ==
    ASSUME Typed, Arrival
    PROVE  \/ UNCHANGED <<mailbox, entered, enterTimer, dropped>>
           \/ /\ entered < MaxReqs /\ entered' = entered + 1 /\ enterTimer' = TRUE /\ dropped' = FALSE
              /\ \E r \in Roles, kind \in StaKinds \cup ApKinds \cup {"zero"} :
                    /\ r = "sta" => kind \in StaKinds \cup {"zero"}
                    /\ mailbox' = [mailbox EXCEPT ![r] = [id |-> entered + 1, kind |-> kind]]
<1>1. cache.kind \in StaKinds \cup {"zero"}
  BY DEF Typed, Caches
<1> QED
  BY <1>1 DEF Arrival, DisconnectInd, CacheEnter, Request, Enter, Roles

LEMMA FlagsNext == ASSUME Typed, [Next]_vars PROVE Flags'
<1> USE DEF Typed, Flags, slots, launch, timers, task, env, hist
<1>1. CASE EnterStep
  BY <1>1 DEF EnterStep, EnterFire, EnterNoMem, EnterCopy, CacheParam, CacheFlag, EnterNone,
              EnterDirect, EnterFollow, PreInit
<1>2. CASE StartStep
  <2>1. apBit' \in BOOLEAN
    BY <1>2 DEF StartStep, StartStopSta, StopSta, StartInitSta, StartScan, StartWaitAp, StartStopAp, StartInitAp,
                StartNothing, SetApStatus, FlagsOf, Roles
  <2> QED
    BY <1>2, <2>1 DEF StartStep, StartStopSta, StopSta, StartInitSta, StartScan, StartWaitAp, StartStopAp,
                      StartInitAp, StartNothing
<1>3. CASE LaunchStep
  BY <1>3 DEF LaunchStep, LaunchFire, LaunchFree, LaunchBusy, DecideNext, DecideWait, LaunchOver,
              Relaunch, MoveUp, PreInit
<1>4. CASE Report
  BY <1>4 DEF Report, SuppScan, SuppAssoc, Dhcp, Bound, ScanCfm, ConnectInd, ApBeacon, ApUpdate,
              CsaSwitched, SetApStatus, FlagsOf, Roles
<1>5. CASE Arrival
  <2>1. {enterTimer', dropped'} \subseteq BOOLEAN
    BY <1>5, ArrivalEnters
  <2> QED
    BY <1>5, <2>1 DEF Arrival, DisconnectInd, Request
<1>6. CASE UNCHANGED vars
  BY <1>6 DEF vars
<1> QED
  BY <1>1, <1>2, <1>3, <1>4, <1>5, <1>6, NextParts

LEMMA CancelNext == ASSUME Typed, [Next]_vars PROVE cancel' \in FlagsOf
<1> USE DEF Typed, FlagsOf, slots, launch, timers, task, env, hist
<1>1. CASE EnterStep
  BY <1>1 DEF EnterStep, EnterFire, EnterNoMem, EnterCopy, CacheParam, CacheFlag, EnterNone,
              EnterDirect, EnterFollow, PreInit
<1>2. CASE StartStep
  BY <1>2 DEF StartStep, StartStopSta, StopSta, StartInitSta, StartScan, StartWaitAp, StartStopAp, StartInitAp,
              StartNothing
<1>3. CASE LaunchStep
  BY <1>3 DEF LaunchStep, LaunchFire, LaunchFree, LaunchBusy, DecideNext, DecideWait, LaunchOver,
              Relaunch, MoveUp, PreInit
<1>4. CASE Report \/ Arrival \/ UNCHANGED vars
  BY <1>4 DEF Report, SuppScan, SuppAssoc, Dhcp, Bound, ScanCfm, ConnectInd, ApBeacon, ApUpdate,
              CsaSwitched, Arrival, DisconnectInd, Request, vars
<1> QED
  BY <1>1, <1>2, <1>3, <1>4, NextParts

LEMMA CacheNext == ASSUME Typed, [Next]_vars PROVE cache' \in Caches /\ KindsFit'
<1>t. /\ mailbox \in [Roles -> Reqs \cup {None}] /\ hit \in [Roles -> Reqs \cup {None}]
      /\ {mailbox["sta"].kind, hit["sta"].kind} \subseteq StaKinds \cup {"zero"} /\ cache \in Caches
      /\ "sta" \in Roles /\ None.kind = "zero"
  BY NoneFacts DEF Typed, Data, KindsFit, Roles
<1>1. CASE UNCHANGED <<mailbox, hit, cache>>
  BY <1>1 DEF Typed, KindsFit
<1>2. CASE EnterStep
  <2>1. CASE EnterCopy
    BY <1>t, <2>1 DEF EnterCopy, KindsFit
  <2>2. CASE CacheParam
    BY <1>t, <2>2 DEF CacheParam, KindsFit, Caches
  <2>3. CASE CacheFlag
    BY <1>t, <2>3 DEF CacheFlag, KindsFit, Caches
  <2>4. ASSUME NEW r \in Roles, EnterNone(r) \/ EnterDirect(r) \/ EnterFollow(r)
        PROVE  cache' \in Caches /\ KindsFit'
    BY <1>t, <2>4 DEF EnterNone, EnterDirect, EnterFollow, FreeCopy, KindsFit
  <2> QED
    BY <1>1, <1>2, <2>1, <2>2, <2>3, <2>4 DEF EnterStep, EnterFire, EnterNoMem
<1>3. CASE StartStep
  BY <1>1, <1>3 DEF StartStep, StartStopSta, StopSta, StartInitSta, StartScan, StartWaitAp, StartStopAp,
                    StartInitAp, StartNothing
<1>4. CASE LaunchStep
  BY <1>1, <1>4 DEF LaunchStep, LaunchFire, LaunchFree, LaunchBusy, DecideNext, DecideWait,
                    LaunchOver, Relaunch
<1>5. CASE Report \/ UNCHANGED vars
  BY <1>1, <1>5 DEF Report, SuppScan, SuppAssoc, Dhcp, Bound, ScanCfm, ConnectInd, ApBeacon, ApUpdate,
                    CsaSwitched, vars, task
<1>6. CASE Arrival
  <2>1. mailbox'["sta"].kind \in StaKinds \cup {"zero"}
    <3>1. ASSUME NEW r \in Roles, NEW kind, r = "sta" => kind \in StaKinds \cup {"zero"},
                 mailbox' = [mailbox EXCEPT ![r] = [id |-> entered + 1, kind |-> kind]]
          PROVE  mailbox'["sta"].kind \in StaKinds \cup {"zero"}
      BY <1>t, <3>1
    <3> QED
      BY <1>t, <1>6, <3>1, ArrivalEnters
  <2>2. cache' = cache \/ cache' = [kind |-> "zero", flag |-> FALSE]
    BY <1>6 DEF Arrival, DisconnectInd, CacheEnter, Request
  <2>3. hit' = hit
    BY <1>6 DEF Arrival, DisconnectInd, Request, task
  <2>4. cache' \in Caches
    <3>1. [kind |-> "zero", flag |-> FALSE] \in Caches
      BY DEF Caches
    <3> QED
      BY <1>t, <2>2, <3>1
  <2>5. KindsFit'
    BY <1>t, <2>1, <2>3 DEF KindsFit
  <2> QED
    BY <2>4, <2>5
<1> QED
  BY <1>2, <1>3, <1>4, <1>5, <1>6, NextParts

LEMMA DataMoveUp ==
    ASSUME Data, MoveUp(turn)
    PROVE  /\ previous' \in [Roles -> Reqs \cup {None}] /\ following' \in [Roles -> Reqs \cup {None}]
           /\ after' = "relaunch" /\ pc' \in {"over", "start"}
           /\ started' \in [Roles -> 0 .. MaxReqs] /\ status' \in [Roles -> Statuses]
<1>1. following[turn] # None => following[turn].id \in 0 .. MaxReqs
  BY NoneFacts, BoundsAssumption DEF Data, Ids
<1> QED
  BY <1>1 DEF MoveUp, PreInit, Data, Statuses

LEMMA DataEnter == ASSUME Data, EnterStep PROVE Data'
<1> USE DEF Data, slots, launch, timers, task, env, hist
<1>1. CASE EnterFire \/ EnterCopy \/ CacheParam \/ CacheFlag
  BY <1>1 DEF EnterFire, EnterCopy, CacheParam, CacheFlag
<1>2. CASE EnterNoMem
  BY <1>2, BoundsAssumption DEF EnterNoMem
<1>3. ASSUME NEW r \in Roles, EnterNone(r) PROVE Data'
  BY <1>3 DEF EnterNone, FreeCopy
<1>4. ASSUME NEW r \in Roles, EnterDirect(r) PROVE Data'
  <2>1. hit[r] \in Reqs /\ hit[r].id \in Ids /\ hit[r].id \in 0 .. MaxReqs
    BY <1>4, NoneFacts, BoundsAssumption DEF EnterDirect, Ids
  <2>2. status' \in [Roles -> Statuses]
    BY <1>4 DEF EnterDirect, PreInit, Statuses
  <2> QED
    BY <1>4, <2>1, <2>2 DEF EnterDirect, Alloc, FreeCopy
<1>5. ASSUME NEW r \in Roles, EnterFollow(r) PROVE Data'
  <2>1. hit[r] \in Reqs /\ hit[r].id \in Ids
    BY <1>5, NoneFacts DEF EnterFollow
  <2> QED
    BY <1>5, <2>1 DEF EnterFollow, Alloc, FreeCopy
<1> QED
  BY <1>1, <1>2, <1>3, <1>4, <1>5 DEF EnterStep

LEMMA DataNext == ASSUME Typed, [Next]_vars PROVE Data'
<1>t. Data
  BY DEF Typed
<1> USE <1>t DEF slots, launch, timers, task, env, hist
<1>1. CASE StartStep
  BY <1>1 DEF StartStep, StartStopSta, StopSta, StartInitSta, StartScan, ScanReq, StartWaitAp, StartStopAp,
              StartInitAp, StartNothing, SetApStatus, Data, Statuses, Roles
<1>2. CASE LaunchStep
  <2>1. CASE LaunchFree \/ DecideNext
    BY <2>1, DataMoveUp DEF LaunchFree, DecideNext, Data
  <2>2. CASE LaunchFire \/ LaunchBusy \/ DecideWait \/ LaunchOver \/ Relaunch
    BY <2>2 DEF LaunchFire, LaunchBusy, DecideWait, LaunchOver, Relaunch, Data, Other, Roles
  <2> QED
    BY <1>2, <2>1, <2>2 DEF LaunchStep
<1>3. CASE Report
  BY <1>3, BoundsAssumption
     DEF Report, SuppScan, SuppAssoc, Dhcp, Bound, ScanCfm, ConnectInd, ApBeacon, ApUpdate,
         CsaSwitched, ScanReq, SetApStatus, SetStaStatus, Data, Statuses, Roles
<1>4. CASE Arrival
  <2>1. mailbox' \in [Roles -> Reqs \cup {None}] /\ entered' \in 0 .. MaxReqs
    <3>1. CASE UNCHANGED <<mailbox, entered>>
      BY <3>1 DEF Data
    <3>2. ASSUME entered < MaxReqs, entered' = entered + 1, NEW r \in Roles,
                 NEW kind \in StaKinds \cup ApKinds \cup {"zero"},
                 mailbox' = [mailbox EXCEPT ![r] = [id |-> entered + 1, kind |-> kind]]
          PROVE  mailbox' \in [Roles -> Reqs \cup {None}] /\ entered' \in 0 .. MaxReqs
      <4>1. entered + 1 \in Ids /\ entered + 1 \in 0 .. MaxReqs
        BY <3>2, BoundsAssumption DEF Data, Ids
      <4>2. [id |-> entered + 1, kind |-> kind] \in Reqs
        BY <4>1 DEF Reqs
      <4> QED
        BY <3>2, <4>1, <4>2 DEF Data
    <3> QED
      BY <1>4, <3>1, <3>2, ArrivalEnters
  <2> QED
    BY <1>4, <2>1 DEF Arrival, DisconnectInd, Request, SetStaStatus, Data, Statuses, Roles
<1>5. CASE UNCHANGED vars
  BY <1>5 DEF vars, Data
<1> QED
  BY <1>1, <1>2, <1>3, <1>4, <1>5, NextParts, DataEnter

LEMMA TypedNext == Typed /\ [Next]_vars => Typed'
BY FlagsNext, CancelNext, CacheNext, DataNext DEF Typed

LEMMA TypedAlways == Spec => []Typed
BY TypeInit, TypedNext, PTL DEF Spec

\* No handler and no report, in any order, leaves the types.
THEOREM TypeCorrect == Spec => []TypeOK
BY TypedAlways, TypedOK, PTL

-----------------------------------------------------------------------------
(* The mailbox                                                              *)

\* A request in the mailbox has enter_timer, an expiry at hand, or was left
\* there by a failed allocation.
THEOREM MailboxHasTimer == Spec => []MailboxArmed
<1>1. Init => MailboxArmed
  BY DEF Init, MailboxArmed
<1>2. Typed /\ MailboxArmed /\ [Next]_vars => MailboxArmed'
  <2> SUFFICES ASSUME Typed, MailboxArmed, [Next]_vars PROVE MailboxArmed'
    OBVIOUS
  <2>1. CASE enterTimer'
    BY <2>1 DEF MailboxArmed
  <2>2. CASE UNCHANGED <<mailbox, enterTimer, dropped>> /\ (pc = "copy" => pc' = "copy")
    BY <2>2 DEF MailboxArmed
  <2>3. CASE EnterStep
    <3>1. CASE EnterFire
      BY <3>1 DEF EnterFire, MailboxArmed
    <3>2. CASE EnterNoMem
      BY <3>2 DEF EnterNoMem, MailboxArmed, timers
    <3>3. CASE EnterCopy
      BY <3>3 DEF EnterCopy, MailboxArmed
    <3>4. CASE CacheParam \/ CacheFlag
      BY <2>2, <3>4 DEF CacheParam, CacheFlag, timers, hist
    <3>5. ASSUME NEW r \in Roles, EnterNone(r) \/ EnterDirect(r) \/ EnterFollow(r) PROVE MailboxArmed'
      BY <2>2, <3>5 DEF EnterNone, EnterDirect, EnterFollow, timers, hist, Roles
    <3> QED
      BY <2>3, <3>1, <3>2, <3>3, <3>4, <3>5 DEF EnterStep
  <2>4. CASE StartStep
    BY <2>2, <2>4 DEF StartStep, StartStopSta, StopSta, StartInitSta, StartScan, StartWaitAp, StartStopAp,
                      StartInitAp, StartNothing, timers, hist
  <2>5. CASE LaunchStep
    BY <2>2, <2>5 DEF LaunchStep, LaunchFire, LaunchFree, LaunchBusy, DecideNext, DecideWait,
                      LaunchOver, Relaunch, timers, hist
  <2>6. CASE Report \/ UNCHANGED vars
    BY <2>2, <2>6 DEF Report, SuppScan, SuppAssoc, Dhcp, Bound, ScanCfm, ConnectInd, ApBeacon,
                      ApUpdate, CsaSwitched, vars, timers, task, hist
  <2>7. CASE \E r \in Roles, kind \in StaKinds \cup ApKinds : Request(r, kind)
    BY <2>1, <2>7 DEF Request, Enter
  <2>8. CASE DisconnectInd
    BY <2>1, <2>2, <2>8 DEF DisconnectInd, CacheEnter, Enter, task
  <2> QED
    BY <2>3, <2>4, <2>5, <2>6, <2>7, <2>8 DEF Next, TimerTask, Report
<1> QED
  BY <1>1, <1>2, TypedAlways, PTL DEF Spec

-----------------------------------------------------------------------------
(* The following slots                                                      *)

Starting == pc \in {"start", "stop", "wait", "init", "scan"}

\* The timer task is inside rl_launch_handler.
Launching == pc \in {"launch", "decide", "over", "relaunch"} \/ (Starting /\ after = "relaunch")

\* Outside rl_launch_handler a request that follows has rl_timer; inside, the
\* role that is over, and the one that was before it, have nothing that follows.
OutsideArmed == ~Launching => ~swapped /\ \A r \in Roles : following[r] # None => rlTimer
OverEmpty ==
    /\ pc \in {"launch", "decide", "over"} /\ swapped => following[Other(turn)] = None
    /\ pc = "over" => following[turn] = None

\* A slot has been filled only if pre_entity_type says so; what is being started
\* or waited for is in the previous slot, and nothing follows nothing.
IdleEmpty == entType = "idle" => \A r \in Roles : following[r] = None
PreviousHeld == Starting \/ pc \in {"decide", "relaunch"} => previous[turn] # None
NothingFollows ==
    pc \notin {"launch", "over"} /\ (\A r \in Roles : previous[r] = None)
        => \A r \in Roles : following[r] = None

Armed == OutsideArmed /\ OverEmpty /\ IdleEmpty /\ PreviousHeld /\ NothingFollows

LEMMA RolesOther ==
    ASSUME NEW r \in Roles
    PROVE  /\ Other(r) \in Roles /\ Other(r) # r /\ Other(Other(r)) = r
           /\ \A s \in Roles : s = r \/ s = Other(r)
BY DEF Roles, Other

LEMMA ArmedInit == Init => Armed
BY DEF Init, Armed, OutsideArmed, OverEmpty, IdleEmpty, PreviousHeld, NothingFollows, Starting, Launching

\* Steps of other threads.
LEMMA ArmedFrame ==
    ASSUME Armed, UNCHANGED <<previous, following, entType, pc, turn, swapped, after, rlTimer>>
    PROVE  Armed'
BY DEF Armed, OutsideArmed, OverEmpty, IdleEmpty, PreviousHeld, NothingFollows, Starting, Launching

\* Steps that only move the control of the timer task along.
LEMMA ArmedMove ==
    ASSUME Armed, UNCHANGED <<previous, following, entType, turn, swapped, after, rlTimer>>,
           pc \notin {"launch", "over"}, pc' \notin {"launch", "over"},
           Launching' <=> Launching,
           (Starting \/ pc \in {"decide", "relaunch"})' => Starting \/ pc \in {"decide", "relaunch"},
           pc' = "decide" => pc = "decide"
    PROVE  Armed'
<1>1. OutsideArmed' /\ IdleEmpty'
  BY DEF Armed, OutsideArmed, IdleEmpty
<1>2. OverEmpty'
  BY DEF Armed, OverEmpty
<1>3. PreviousHeld' /\ NothingFollows'
  BY DEF Armed, PreviousHeld, NothingFollows
<1> QED
  BY <1>1, <1>2, <1>3 DEF Armed

LEMMA ArmedEnter == ASSUME Typed, Armed, EnterStep PROVE Armed'
<1>t. /\ Data /\ turn \in Roles /\ after \in {"cache", "idle", "relaunch"} /\ entType \in Roles \cup {"idle"}
      /\ previous \in [Roles -> Reqs \cup {None}] /\ following \in [Roles -> Reqs \cup {None}]
  BY DEF Typed, Data
<1>1. CASE EnterFire \/ EnterNoMem \/ EnterCopy \/ CacheParam \/ CacheFlag
  BY <1>1, ArmedMove DEF EnterFire, EnterNoMem, EnterCopy, CacheParam, CacheFlag, slots, timers,
                         Starting, Launching
<1>2. ASSUME NEW r \in Roles, EnterNone(r) PROVE Armed'
  BY <1>2, ArmedMove DEF EnterNone, slots, timers, Starting, Launching, Roles
<1>3. ASSUME NEW r \in Roles, EnterDirect(r) PROVE Armed'
  <2>1. /\ pc = r /\ hit[r] # None /\ (\A s \in Roles : previous[s] = None)
        /\ previous' = [previous EXCEPT ![r] = hit[r]] /\ turn' = r
        /\ entType' # "idle" /\ pc' = "start" /\ after' \in {"cache", "idle"}
        /\ UNCHANGED <<following, rlTimer, swapped>>
    BY <1>3, <1>t DEF EnterDirect, Alloc, timers, Roles
  <2>2. ~Launching /\ ~Launching' /\ pc \notin {"launch", "over"}
    BY <2>1 DEF Launching, Starting, Roles
  <2>3. \A s \in Roles : following[s] = None
    BY <2>1, <2>2 DEF Armed, NothingFollows
  <2>4. OutsideArmed'
    BY <2>1, <2>2, <2>3 DEF Armed, OutsideArmed
  <2>5. PreviousHeld'
    BY <1>t, <2>1 DEF PreviousHeld
  <2> QED
    BY <2>1, <2>3, <2>4, <2>5 DEF Armed, OverEmpty, IdleEmpty, NothingFollows
<1>4. ASSUME NEW r \in Roles, EnterFollow(r) PROVE Armed'
  <2>1. /\ pc = r /\ rlTimer' /\ (\E s \in Roles : previous[s] # None)
        /\ pc' \in {"cache", "ap", "idle"} /\ UNCHANGED <<previous, turn, swapped, after>>
        /\ \/ UNCHANGED <<following, entType>>
           \/ entType' # "idle"
    BY <1>4, <1>t DEF EnterFollow, Alloc, timers, Roles
  <2>2. ~Launching /\ ~Launching' /\ ~Starting'
    BY <2>1 DEF Launching, Starting, Roles
  <2>3. OutsideArmed'
    BY <2>1, <2>2 DEF Armed, OutsideArmed
  <2>4. IdleEmpty'
    BY <2>1 DEF Armed, IdleEmpty
  <2> QED
    BY <2>1, <2>2, <2>3, <2>4 DEF Armed, OverEmpty, PreviousHeld, NothingFollows
<1> QED
  BY <1>1, <1>2, <1>3, <1>4 DEF EnterStep

LEMMA ArmedStart == ASSUME Typed, Armed, StartStep PROVE Armed'
<1>t. after \in {"cache", "idle", "relaunch"}
  BY DEF Typed, Data
<1>1. /\ Starting /\ pc' \in {"stop", "wait", "init", "scan", after}
      /\ UNCHANGED <<previous, following, entType, turn, swapped, after, rlTimer>>
  BY DEF StartStep, StartStopSta, StopSta, StartInitSta, StartScan, StartWaitAp, StartStopAp, StartInitAp,
         StartNothing, slots, timers, Starting
<1>2. /\ pc \notin {"launch", "over"} /\ pc' \notin {"launch", "over", "decide"}
      /\ Launching' <=> Launching
  BY <1>t, <1>1 DEF Starting, Launching
<1> QED
  BY <1>1, <1>2, ArmedMove

LEMMA ArmedLaunch == ASSUME Typed, Armed, LaunchStep PROVE Armed'
<1>t. /\ turn \in Roles /\ after \in {"cache", "idle", "relaunch"} /\ entType \in Roles \cup {"idle"}
      /\ previous \in [Roles -> Reqs \cup {None}] /\ following \in [Roles -> Reqs \cup {None}]
  BY DEF Typed, Data
<1>o. Other(turn) \in Roles /\ Other(turn) # turn /\ Other(Other(turn)) = turn
      /\ \A s \in Roles : s = turn \/ s = Other(turn)
  BY <1>t, RolesOther
<1>1. CASE LaunchFire
  <2>1. /\ pc = "idle" /\ UNCHANGED <<previous, following, entType, swapped, after>>
        /\ \/ entType = "idle" /\ pc' = "idle" /\ turn' = turn
           \/ entType # "idle" /\ pc' = "launch" /\ turn' = entType
    BY <1>1 DEF LaunchFire, slots
  <2>2. ~Launching /\ ~swapped
    BY <2>1 DEF Armed, OutsideArmed, Launching, Starting
  <2>3. CASE entType = "idle" /\ pc' = "idle"
    <3>1. \A r \in Roles : following'[r] = None
      BY <2>1, <2>3 DEF Armed, IdleEmpty
    <3> QED
      BY <2>1, <2>2, <2>3, <3>1 DEF Armed, OutsideArmed, OverEmpty, IdleEmpty, PreviousHeld,
                                    NothingFollows, Starting
  <2>4. CASE entType # "idle" /\ pc' = "launch"
    BY <2>1, <2>2, <2>4 DEF Armed, OutsideArmed, OverEmpty, IdleEmpty, PreviousHeld, NothingFollows,
                            Starting, Launching
  <2> QED
    BY <2>1, <2>3, <2>4
<1>2. CASE LaunchFree \/ DecideNext
  <2>1. /\ pc \in {"launch", "decide"} /\ UNCHANGED <<turn, swapped, entType>>
        /\ previous' = [previous EXCEPT ![turn] = following[turn]]
        /\ following' = [following EXCEPT ![turn] = None] /\ after' = "relaunch"
        /\ \/ following[turn] = None /\ pc' = "over"
           \/ following[turn] # None /\ pc' = "start"
    BY <1>2 DEF LaunchFree, DecideNext, MoveUp
  <2>2. Launching'
    BY <2>1 DEF Launching, Starting
  <2>3. OverEmpty'
    BY <1>t, <1>o, <2>1 DEF Armed, OverEmpty
  <2>4. IdleEmpty'
    BY <1>t, <2>1 DEF Armed, IdleEmpty
  <2>5. PreviousHeld' /\ NothingFollows'
    BY <1>t, <2>1 DEF PreviousHeld, NothingFollows, Starting
  <2> QED
    BY <2>2, <2>3, <2>4, <2>5 DEF Armed, OutsideArmed
<1>3. CASE LaunchBusy
  <2>1. /\ pc = "launch" /\ pc' = "decide" /\ previous[turn] # None
        /\ UNCHANGED <<previous, following, entType, turn, swapped, after>>
    BY <1>3 DEF LaunchBusy, slots
  <2> QED
    BY <1>t, <2>1 DEF Armed, OutsideArmed, OverEmpty, IdleEmpty, PreviousHeld, NothingFollows,
                      Starting, Launching
<1>4. CASE DecideWait
  BY <1>4, ArmedMove DEF DecideWait, slots, timers, Starting, Launching
<1>5. CASE LaunchOver
  <2>1. pc = "over" /\ following[turn] = None /\ UNCHANGED <<previous, following, after>>
    BY <1>5 DEF LaunchOver, Armed, OverEmpty
  <2>2. CASE swapped
    <3>1. pc' = "idle" /\ ~swapped' /\ entType' = entType /\ turn' = turn
      BY <1>5, <2>2 DEF LaunchOver
    <3>2. \A r \in Roles : following'[r] = None
      BY <1>o, <2>1, <2>2 DEF Armed, OverEmpty
    <3> QED
      BY <2>1, <3>1, <3>2 DEF Armed, OutsideArmed, OverEmpty, IdleEmpty, PreviousHeld,
                              NothingFollows, Starting
  <2>3. CASE ~swapped
    <3>1. pc' = "launch" /\ entType' = Other(turn) /\ turn' = Other(turn) /\ Other(turn) # "idle"
      BY <1>5, <2>3 DEF LaunchOver, Other
    <3> QED
      BY <1>o, <2>1, <3>1 DEF Armed, OutsideArmed, OverEmpty, IdleEmpty, PreviousHeld, NothingFollows,
                              Starting, Launching
  <2> QED
    BY <2>2, <2>3
<1>6. CASE Relaunch
  <2>1. /\ pc = "relaunch" /\ pc' = "idle" /\ rlTimer' /\ ~swapped'
        /\ UNCHANGED <<previous, following, entType, turn, after>>
    BY <1>6 DEF Relaunch, slots
  <2> QED
    BY <2>1 DEF Armed, OutsideArmed, OverEmpty, IdleEmpty, PreviousHeld, NothingFollows, Starting
<1> QED
  BY <1>1, <1>2, <1>3, <1>4, <1>5, <1>6 DEF LaunchStep

LEMMA ArmedNext == Typed /\ Armed /\ [Next]_vars => Armed'
<1> SUFFICES ASSUME Typed, Armed, [Next]_vars PROVE Armed'
  OBVIOUS
<1>1. CASE Report \/ Arrival \/ UNCHANGED vars
  BY <1>1, ArmedFrame DEF Report, SuppScan, SuppAssoc, Dhcp, Bound, ScanCfm, ConnectInd, ApBeacon,
                          ApUpdate, CsaSwitched, Arrival, DisconnectInd, Request, vars, slots, timers, task
<1> QED
  BY <1>1, NextParts, ArmedEnter, ArmedStart, ArmedLaunch

LEMMA ArmedAlways == Spec => []Armed
BY ArmedInit, ArmedNext, TypedAlways, PTL DEF Spec

\* rl_launch_handler stops its timer only when nothing follows in either role.
THEOREM FollowingHasTimer == Spec => []FollowingArmed
<1>1. Armed => FollowingArmed
  BY DEF Armed, OutsideArmed, FollowingArmed, Launching, Starting
<1> QED
  BY <1>1, ArmedAlways, PTL

-----------------------------------------------------------------------------
(* Requests pass from the mailbox through the copy and the following slot to *)
(* the previous one, and none overtakes another of its role                 *)

\* rl_enter_handler is between copying the mailbox and the AP's request.
Copying == pc \in {"sta", "ap", "cache", "flag"} \/ (Starting /\ after = "cache")

\* The request of role r in the copy that has not been entered yet.
Waiting(r) == IF (r = "sta" /\ pc = "sta") \/ (r = "ap" /\ Copying) THEN hit[r] ELSE None

\* Of one role, from the launch in progress to the mailbox: later requests are
\* younger (0 is no request).
Queued(p, s, f, w, m, e) ==
    /\ p <= s /\ s <= e /\ f <= e /\ w <= e /\ m <= e
    /\ f # 0 => s < f
    /\ w # 0 => s < w /\ f < w
    /\ m # 0 => s < m /\ f < m /\ w < m

Order ==
    \A r \in Roles :
        Queued(previous[r].id, started[r], following[r].id, Waiting(r).id, mailbox[r].id, entered)

\* Role r holds request i somewhere; no request is held by both.
HeldBy(r, i) == i # 0 /\ i \in {previous[r].id, following[r].id, Waiting(r).id, mailbox[r].id}
Apart == \A r, s \in Roles : \A i \in Ids : HeldBy(r, i) /\ HeldBy(s, i) => r = s

\* The entities on the heap are those of the occupied slots.
InSlot(i) == i # 0 /\ \E r \in Roles : previous[r].id = i \/ following[r].id = i
Owned == \A i \in Ids : i \in heap <=> InSlot(i)

\* What a step of the timer task does to the requests of a role: nothing, drop
\* one, copy the mailbox, start one directly, let one follow, or move one up.
Passes(p, s, f, w, m, p1, s1, f1, w1, m1) ==
    \/ p1 = p /\ s1 = s /\ f1 = f /\ w1 = w /\ m1 = m
    \/ p1 = p /\ s1 = s /\ f1 = f /\ w1 = 0 /\ m1 = m
    \/ p1 = p /\ s1 = s /\ f1 = f /\ w = 0 /\ w1 = m /\ m1 = 0
    \/ p1 = w /\ s1 = w /\ f = 0 /\ f1 = 0 /\ w # 0 /\ w1 = 0 /\ m1 = m
    \/ p1 = p /\ s1 = s /\ f = 0 /\ f1 = w /\ w # 0 /\ w1 = 0 /\ m1 = m
    \/ p1 = f /\ s1 = (IF f = 0 THEN s ELSE f) /\ f1 = 0 /\ w1 = w /\ m1 = m

PassesIn(r) ==
    Passes(previous[r].id, started[r], following[r].id, Waiting(r).id, mailbox[r].id,
           previous'[r].id, started'[r], following'[r].id, Waiting(r)'.id, mailbox'[r].id)

LEMMA IdTypes ==
    ASSUME Typed, NEW r \in Roles
    PROVE  /\ previous[r].id \in Nat /\ started[r] \in Nat /\ following[r].id \in Nat
           /\ Waiting(r).id \in Nat /\ mailbox[r].id \in Nat /\ entered \in Nat
           /\ Waiting(r) \in Reqs \cup {None}
           /\ (previous[r] = None <=> previous[r].id = 0) /\ (following[r] = None <=> following[r].id = 0)
           /\ (Waiting(r) = None <=> Waiting(r).id = 0)
<1>1. /\ \A q \in Reqs \cup {None} : q.id \in Nat /\ (q = None <=> q.id = 0)
  BY NoneFacts
<1>2. /\ previous[r] \in Reqs \cup {None} /\ following[r] \in Reqs \cup {None}
      /\ mailbox[r] \in Reqs \cup {None} /\ hit[r] \in Reqs \cup {None}
      /\ started[r] \in Nat /\ entered \in Nat
  BY BoundsAssumption DEF Typed, Data
<1>3. Waiting(r) \in Reqs \cup {None}
  BY <1>2 DEF Waiting
<1> QED
  BY <1>1, <1>2, <1>3

LEMMA OrderInit == Init => Order /\ Apart /\ Owned
<1> SUFFICES ASSUME Init PROVE Order /\ Apart /\ Owned
  OBVIOUS
<1>1. \A r \in Roles : /\ previous[r].id = 0 /\ following[r].id = 0 /\ mailbox[r].id = 0
                       /\ started[r] = 0 /\ Waiting(r).id = 0
  BY NoneFacts DEF Init, Waiting, Copying, Starting
<1>2. entered = 0 /\ heap = {}
  BY DEF Init
<1> QED
  BY <1>1, <1>2 DEF Order, Queued, Apart, HeldBy, Owned, InSlot

\* No new request: order and separation last, and requests start in order.
LEMMA OrderPasses ==
    ASSUME Typed, Typed', Order, Apart, entered' = entered, \A r \in Roles : PassesIn(r)
    PROVE  /\ Order' /\ Apart'
           /\ \A r \in Roles : started'[r] # started[r] => started'[r] > started[r]
<1>1. ASSUME NEW r \in Roles
      PROVE  /\ Queued(previous'[r].id, started'[r], following'[r].id, Waiting(r)'.id, mailbox'[r].id, entered)
             /\ started'[r] = started[r] \/ started'[r] > started[r]
  <2>1. PICK p, s, f, w, m : /\ p = previous[r].id /\ s = started[r] /\ f = following[r].id
                             /\ w = Waiting(r).id /\ m = mailbox[r].id
    OBVIOUS
  <2>2. PICK p1, s1, f1, w1, m1 : /\ p1 = previous'[r].id /\ s1 = started'[r] /\ f1 = following'[r].id
                                  /\ w1 = Waiting(r)'.id /\ m1 = mailbox'[r].id
    OBVIOUS
  <2>3. {p, s, f, w, m, entered} \subseteq Nat
    BY <2>1, IdTypes
  <2>4. Queued(p, s, f, w, m, entered) /\ Passes(p, s, f, w, m, p1, s1, f1, w1, m1)
    BY <2>1, <2>2 DEF Order, PassesIn
  <2>5. Queued(p1, s1, f1, w1, m1, entered) /\ (s1 = s \/ s1 > s)
    BY <2>3, <2>4 DEF Queued, Passes
  <2> QED
    BY <2>1, <2>2, <2>5
<1>2. ASSUME NEW r \in Roles, NEW i \in Ids, HeldBy(r, i)' PROVE HeldBy(r, i)
  <2>1. PassesIn(r)
    OBVIOUS
  <2>2. i # 0
    BY NoneFacts
  <2> QED
    BY <1>2, <2>1, <2>2 DEF HeldBy, PassesIn, Passes
<1>3. Order'
  BY <1>1 DEF Order
<1>4. Apart'
  BY <1>2 DEF Apart
<1> QED
  BY <1>1, <1>3, <1>4

\* A new request is younger than all others and enters one mailbox.
LEMMA OrderArrival ==
    ASSUME Typed, Order, Apart, Arrival
    PROVE  Order' /\ Apart'
<1>0. /\ mailbox \in [Roles -> Reqs \cup {None}] /\ entered \in Nat
  BY BoundsAssumption DEF Typed, Data
<1>1. UNCHANGED <<previous, following, started, pc, hit, after>>
  BY DEF Arrival, DisconnectInd, Request, slots, task
<1>2. \A r \in Roles : Waiting(r)' = Waiting(r)
  BY <1>1 DEF Waiting, Copying, Starting
<1>3. CASE UNCHANGED <<mailbox, entered>>
  BY <1>1, <1>2, <1>3 DEF Order, Apart, HeldBy
<1>4. ASSUME entered' = entered + 1, NEW r \in Roles, NEW kind,
             mailbox' = [mailbox EXCEPT ![r] = [id |-> entered + 1, kind |-> kind]]
      PROVE  Order' /\ Apart'
  <2>1. mailbox'[r].id = entered + 1 /\ \A s \in Roles \ {r} : mailbox'[s] = mailbox[s]
    BY <1>0, <1>4
  <2>2. ASSUME NEW s \in Roles
        PROVE  Queued(previous[s].id, started[s], following[s].id, Waiting(s).id, mailbox'[s].id, entered + 1)
    <3>1. Queued(previous[s].id, started[s], following[s].id, Waiting(s).id, mailbox[s].id, entered)
      BY DEF Order
    <3>2. CASE s = r
      BY <2>1, <3>1, <3>2, IdTypes DEF Queued
    <3>3. CASE s # r
      BY <2>1, <3>1, <3>3, IdTypes DEF Queued
    <3> QED
      BY <3>2, <3>3
  <2>3. ASSUME NEW s \in Roles, NEW i \in Ids, HeldBy(s, i)'
        PROVE  HeldBy(s, i) \/ (s = r /\ i = entered + 1)
    BY <1>1, <1>2, <2>1, <2>3 DEF HeldBy
  <2>4. ASSUME NEW s \in Roles PROVE ~HeldBy(s, entered + 1)
    <3>1. Queued(previous[s].id, started[s], following[s].id, Waiting(s).id, mailbox[s].id, entered)
      BY DEF Order
    <3> QED
      BY <3>1, IdTypes DEF Queued, HeldBy
  <2>5. Apart'
    BY <2>3, <2>4 DEF Apart
  <2> QED
    BY <1>1, <1>2, <1>4, <2>2, <2>5 DEF Order
<1> QED
  BY <1>3, <1>4, ArrivalEnters

\* Steps that leave slots, mailbox and copy alone.
LEMMA PassesKept ==
    ASSUME Owned, UNCHANGED <<previous, following, heap, mailbox, started, hit>>,
           Copying' <=> Copying, pc' = "sta" <=> pc = "sta"
    PROVE  (\A r \in Roles : PassesIn(r)) /\ Owned'
<1>1. \A r \in Roles : Waiting(r)' = Waiting(r)
  BY DEF Waiting
<1>2. \A r \in Roles : PassesIn(r)
  BY <1>1 DEF PassesIn, Passes
<1>3. Owned'
  BY DEF Owned, InSlot
<1> QED
  BY <1>2, <1>3

LEMMA PassesEnter ==
    ASSUME Typed, Armed, Owned, EnterStep
    PROVE  (\A r \in Roles : PassesIn(r)) /\ Owned'
<1>t. /\ previous \in [Roles -> Reqs \cup {None}] /\ following \in [Roles -> Reqs \cup {None}]
      /\ hit \in [Roles -> Reqs \cup {None}] /\ mailbox \in [Roles -> Reqs \cup {None}]
      /\ started \in [Roles -> 0 .. MaxReqs] /\ "sta" \in Roles /\ "ap" \in Roles
      /\ \A s \in Roles : s = "sta" \/ s = "ap"
  BY DEF Typed, Data, Roles
<1>n. None.id = 0 /\ \A q \in Reqs : q.id \in Ids /\ q.id # 0
  BY NoneFacts
<1>1. CASE EnterFire \/ EnterNoMem
  BY <1>1, PassesKept DEF EnterFire, EnterNoMem, slots, hist, Copying, Starting
<1>2. CASE CacheParam \/ CacheFlag
  BY <1>2, PassesKept DEF CacheParam, CacheFlag, slots, hist, Copying, Starting
<1>3. CASE EnterCopy
  <2>1. /\ pc = "copy" /\ pc' = "sta" /\ hit' = mailbox
        /\ mailbox' = [r \in Roles |-> None] /\ UNCHANGED <<previous, following, heap, started>>
    BY <1>3 DEF EnterCopy, slots, hist
  <2>2. \A r \in Roles : Waiting(r) = None /\ Waiting(r)' = mailbox[r] /\ mailbox'[r] = None
    BY <1>t, <2>1 DEF Waiting, Copying, Starting
  <2>3. \A r \in Roles : PassesIn(r)
    BY <1>n, <2>1, <2>2 DEF PassesIn, Passes
  <2> QED
    BY <2>1, <2>3 DEF Owned, InSlot
\* The rest concerns one role: the station's request leaves the copy, or the
\* AP's, with which the copy is freed.
<1>4. ASSUME NEW r \in Roles, pc = r, FreeCopy(r), pc' # "copy", pc' # "sta", r = "ap" => ~Copying',
             r = "sta" => Copying'
      PROVE  Waiting(r) = hit[r] /\ Waiting(r)' = None /\ Waiting(Other(r))' = Waiting(Other(r))
  BY <1>t, <1>4 DEF FreeCopy, Waiting, Copying, Other
<1>5. ASSUME NEW r \in Roles, EnterNone(r) PROVE (\A s \in Roles : PassesIn(s)) /\ Owned'
  <2>1. /\ pc = r /\ hit[r] = None /\ FreeCopy(r) /\ pc' = (IF r = "sta" THEN "ap" ELSE "idle")
        /\ UNCHANGED <<previous, following, heap, mailbox, started>>
    BY <1>5 DEF EnterNone, slots, hist
  <2>2. Waiting(r) = hit[r] /\ Waiting(r)' = None /\ Waiting(Other(r))' = Waiting(Other(r))
    BY <1>t, <1>4, <2>1 DEF Copying, Starting
  <2>3. \A s \in Roles : Waiting(s)' = Waiting(s)
    BY <2>1, <2>2, RolesOther
  <2>4. \A s \in Roles : PassesIn(s)
    BY <2>1, <2>3 DEF PassesIn, Passes
  <2> QED
    BY <2>1, <2>4 DEF Owned, InSlot
<1>6. ASSUME NEW r \in Roles, EnterDirect(r) PROVE (\A s \in Roles : PassesIn(s)) /\ Owned'
  <2>1. /\ pc = r /\ hit[r] # None /\ (\A s \in Roles : previous[s] = None)
        /\ previous' = [previous EXCEPT ![r] = hit[r]] /\ heap' = heap \cup {hit[r].id}
        /\ started' = [started EXCEPT ![r] = hit[r].id] /\ FreeCopy(r)
        /\ pc' = "start" /\ after' = (IF r = "sta" THEN "cache" ELSE "idle")
        /\ UNCHANGED <<following, mailbox>>
    BY <1>6 DEF EnterDirect, Alloc
  <2>2. Waiting(r) = hit[r] /\ Waiting(r)' = None /\ Waiting(Other(r))' = Waiting(Other(r))
    BY <1>t, <1>4, <2>1 DEF Copying, Starting
  <2>3. \A s \in Roles : following[s] = None
    BY <2>1 DEF Armed, NothingFollows, Roles
  <2>4. hit[r].id # 0 /\ previous'[r] = hit[r] /\ started'[r] = hit[r].id
        /\ \A s \in Roles \ {r} : previous'[s] = previous[s] /\ started'[s] = started[s] /\ s = Other(r)
    BY <1>t, <1>n, <2>1, RolesOther
  <2>5. PassesIn(r)
    BY <1>n, <2>1, <2>2, <2>3, <2>4 DEF PassesIn, Passes
  <2>6. ASSUME NEW s \in Roles \ {r} PROVE PassesIn(s)
    BY <2>1, <2>2, <2>4 DEF PassesIn, Passes
  <2>7. Owned'
    BY <1>n, <2>1, <2>3, <2>4 DEF Owned, InSlot
  <2> QED
    BY <2>5, <2>6, <2>7
<1>7. ASSUME NEW r \in Roles, EnterFollow(r) PROVE (\A s \in Roles : PassesIn(s)) /\ Owned'
  <2>1. /\ pc = r /\ hit[r] # None /\ FreeCopy(r) /\ pc' \in (IF r = "sta" THEN {"cache", "ap"} ELSE {"idle"})
        /\ UNCHANGED <<previous, mailbox, started>>
    BY <1>7 DEF EnterFollow, hist
  <2>2. Waiting(r) = hit[r] /\ Waiting(r)' = None /\ Waiting(Other(r))' = Waiting(Other(r))
    BY <1>t, <1>4, <2>1 DEF Copying, Starting
  <2>3. CASE following[r] # None
    <3>1. UNCHANGED <<following, heap>>
      BY <1>7, <2>3 DEF EnterFollow
    <3>2. \A s \in Roles : Waiting(s)' = None \/ Waiting(s)' = Waiting(s)
      BY <2>2, RolesOther
    <3>3. \A s \in Roles : PassesIn(s)
      BY <1>n, <2>1, <3>1, <3>2 DEF PassesIn, Passes
    <3> QED
      BY <2>1, <3>1, <3>3 DEF Owned, InSlot
  <2>4. CASE following[r] = None
    <3>1. following' = [following EXCEPT ![r] = hit[r]] /\ heap' = heap \cup {hit[r].id}
      BY <1>7, <2>4 DEF EnterFollow, Alloc
    <3>2. hit[r].id # 0 /\ following'[r] = hit[r]
          /\ \A s \in Roles \ {r} : following'[s] = following[s] /\ s = Other(r)
      BY <1>t, <1>n, <2>1, <3>1, RolesOther
    <3>3. PassesIn(r)
      BY <1>n, <2>1, <2>2, <2>4, <3>2 DEF PassesIn, Passes
    <3>4. ASSUME NEW s \in Roles \ {r} PROVE PassesIn(s)
      BY <2>1, <2>2, <3>2 DEF PassesIn, Passes
    <3>5. Owned'
      BY <1>n, <2>1, <2>4, <3>1, <3>2 DEF Owned, InSlot
    <3> QED
      BY <3>3, <3>4, <3>5
  <2> QED
    BY <2>3, <2>4
<1> QED
  BY <1>1, <1>2, <1>3, <1>5, <1>6, <1>7 DEF EnterStep

LEMMA PassesStart ==
    ASSUME Typed, Owned, StartStep
    PROVE  (\A r \in Roles : PassesIn(r)) /\ Owned'
<1>1. after \in {"cache", "idle", "relaunch"}
  BY DEF Typed, Data
<1>2. /\ Starting /\ pc' \in {"stop", "wait", "init", "scan", after} /\ after' = after
      /\ UNCHANGED <<previous, following, heap, mailbox, started, hit>>
  BY DEF StartStep, StartStopSta, StopSta, StartInitSta, StartScan, StartWaitAp, StartStopAp, StartInitAp,
         StartNothing, slots, hist, Starting
<1>3. (Copying' <=> Copying) /\ (pc' = "sta" <=> pc = "sta")
  BY <1>1, <1>2 DEF Copying, Starting
<1> QED
  BY <1>2, <1>3, PassesKept

LEMMA PassesLaunch ==
    ASSUME Typed, Order, Apart, Owned, LaunchStep
    PROVE  (\A r \in Roles : PassesIn(r)) /\ Owned'
<1>t. /\ previous \in [Roles -> Reqs \cup {None}] /\ following \in [Roles -> Reqs \cup {None}]
      /\ started \in [Roles -> 0 .. MaxReqs] /\ turn \in Roles /\ heap \subseteq Ids
  BY DEF Typed, Data
<1>n. None.id = 0 /\ (\A q \in Reqs : q.id \in Ids /\ q.id # 0) /\ 0 \notin Ids
  BY NoneFacts
<1>1. CASE LaunchFire \/ LaunchBusy \/ DecideWait \/ LaunchOver \/ Relaunch
  BY <1>1, PassesKept DEF LaunchFire, LaunchBusy, DecideWait, LaunchOver, Relaunch, slots, hist,
                          Copying, Starting
<1>2. CASE LaunchFree \/ DecideNext
  <2>1. /\ pc \in {"launch", "decide"} /\ MoveUp(turn) /\ UNCHANGED <<mailbox, hit, turn>>
        /\ heap' = heap \/ heap' = heap \ {previous[turn].id}
        /\ heap' = heap => previous[turn] = None \/ heap' = heap \ {previous[turn].id}
    BY <1>2 DEF LaunchFree, DecideNext
  <2>2. /\ previous'[turn] = following[turn] /\ following'[turn] = None
        /\ \A s \in Roles \ {turn} : previous'[s] = previous[s] /\ following'[s] = following[s]
    BY <1>t, <2>1 DEF MoveUp
  <2>3. /\ started'[turn] = IF following[turn].id = 0 THEN started[turn] ELSE following[turn].id
        /\ \A s \in Roles \ {turn} : started'[s] = started[s]
    BY <1>t, <1>n, <2>1 DEF MoveUp
  <2>4. \A s \in Roles : Waiting(s)' = None /\ Waiting(s) = None
    BY <2>1 DEF MoveUp, Waiting, Copying, Starting
  <2>5. PassesIn(turn)
    <3>1. PICK f, s1 : f = following[turn].id /\ s1 = started'[turn]
      OBVIOUS
    <3>2. /\ previous'[turn].id = f /\ following'[turn].id = 0 /\ mailbox'[turn].id = mailbox[turn].id
          /\ Waiting(turn)'.id = Waiting(turn).id
      BY <1>t, <1>n, <2>1, <2>2, <2>4, <3>1
    <3>3. s1 = IF f = 0 THEN started[turn] ELSE f
      BY <2>3, <3>1
    <3> QED
      BY <3>1, <3>2, <3>3 DEF PassesIn, Passes
  <2>6. ASSUME NEW s \in Roles \ {turn} PROVE PassesIn(s)
    BY <2>1, <2>2, <2>3, <2>4 DEF PassesIn, Passes
  <2>7. heap' = heap \ {previous[turn].id}
    BY <1>t, <1>n, <2>1
  <2>8. ASSUME NEW i \in Ids PROVE InSlot(i)' <=> InSlot(i) /\ i # previous[turn].id
    <3>1. i # 0
      BY <1>n
    <3>2. following[turn].id = i => i # previous[turn].id
      <4>1. Queued(previous[turn].id, started[turn], following[turn].id, Waiting(turn).id,
                   mailbox[turn].id, entered)
        BY <1>t DEF Order
      <4> QED
        BY <1>t, <3>1, <4>1, IdTypes DEF Queued
    <3>3. ASSUME NEW s \in Roles \ {turn}, previous[s].id = i \/ following[s].id = i
          PROVE  i # previous[turn].id
      BY <1>t, <3>1, <3>3 DEF Apart, HeldBy
    <3>4. ASSUME InSlot(i)' PROVE InSlot(i) /\ i # previous[turn].id
      <4>1. PICK s \in Roles : previous'[s].id = i \/ following'[s].id = i
        BY <3>4 DEF InSlot
      <4>2. CASE s = turn
        BY <1>n, <1>t, <2>2, <3>1, <3>2, <4>1, <4>2 DEF InSlot
      <4>3. CASE s # turn
        BY <2>2, <3>1, <3>3, <4>1, <4>3 DEF InSlot
      <4> QED
        BY <4>2, <4>3
    <3>5. ASSUME InSlot(i), i # previous[turn].id PROVE InSlot(i)'
      <4>1. PICK s \in Roles : previous[s].id = i \/ following[s].id = i
        BY <3>5 DEF InSlot
      <4>2. CASE s = turn
        BY <1>t, <2>2, <3>1, <3>5, <4>1, <4>2 DEF InSlot
      <4>3. CASE s # turn
        BY <2>2, <3>1, <4>1, <4>3 DEF InSlot
      <4> QED
        BY <4>2, <4>3
    <3> QED
      BY <3>4, <3>5
  <2>9. Owned'
    BY <2>7, <2>8 DEF Owned
  <2> QED
    BY <2>5, <2>6, <2>9
<1> QED
  BY <1>1, <1>2 DEF LaunchStep

\* One step: order, separation and ownership last, and what starts is younger.
LEMMA OrderNext ==
    ASSUME Typed, Typed', Armed, Order, Apart, Owned, [Next]_vars
    PROVE  /\ Order' /\ Apart' /\ Owned'
           /\ \A r \in Roles : started'[r] # started[r] => started'[r] > started[r]
<1>1. CASE Arrival
  <2>1. UNCHANGED <<previous, following, heap, started>>
    BY <1>1 DEF Arrival, DisconnectInd, Request, slots
  <2> QED
    BY <1>1, <2>1, OrderArrival DEF Owned, InSlot
<1>2. CASE Report \/ UNCHANGED vars
  <2>1. UNCHANGED <<previous, following, heap, mailbox, started, hit, pc, after, entered>>
    BY <1>2 DEF Report, SuppScan, SuppAssoc, Dhcp, Bound, ScanCfm, ConnectInd, ApBeacon, ApUpdate,
                CsaSwitched, vars, slots, task, hist
  <2>2. (Copying' <=> Copying) /\ (pc' = "sta" <=> pc = "sta")
    BY <2>1 DEF Copying, Starting
  <2> QED
    BY <2>1, <2>2, PassesKept, OrderPasses
<1>3. CASE EnterStep \/ StartStep \/ LaunchStep
  <2>1. entered' = entered
    BY <1>3 DEF EnterStep, EnterFire, EnterNoMem, EnterCopy, CacheParam, CacheFlag, EnterNone,
                EnterDirect, EnterFollow, StartStep, StartStopSta, StopSta, StartInitSta, StartScan,
                StartWaitAp, StartStopAp, StartInitAp, StartNothing, LaunchStep, LaunchFire, LaunchFree,
                LaunchBusy, DecideNext, DecideWait, LaunchOver, Relaunch
  <2>2. (\A r \in Roles : PassesIn(r)) /\ Owned'
    BY <1>3, PassesEnter, PassesStart, PassesLaunch
  <2> QED
    BY <2>1, <2>2, OrderPasses
<1> QED
  BY <1>1, <1>2, <1>3, NextParts

LEMMA OrderAlways == Spec => [](Order /\ Apart /\ Owned)
<1>1. Typed /\ Typed' /\ Armed /\ (Order /\ Apart /\ Owned) /\ [Next]_vars => (Order /\ Apart /\ Owned)'
  BY OrderNext
<1> QED
  BY <1>1, OrderInit, TypedAlways, ArmedAlways, PTL DEF Spec

\* Every entity that rl_alloc_entity gave out is in exactly one slot until
\* rl_free_entity takes it back.
THEOREM EntitiesOwned == Spec => []EntityOwnership
<1>1. ASSUME Typed, Order, Apart, Owned PROVE EntityOwnership
  <2>1. heap \subseteq Ids /\ \A r \in Roles : /\ previous[r] \in Reqs \cup {None}
                                               /\ following[r] \in Reqs \cup {None}
    BY <1>1 DEF Typed, Data
  <2>2. \A r \in Roles : /\ previous[r] # None => previous[r].id \in Ids /\ previous[r].id # 0
                         /\ following[r] # None => following[r].id \in Ids /\ following[r].id # 0
                         /\ previous[r].id \in Ids \cup {0} /\ following[r].id \in Ids \cup {0}
    BY <2>1, NoneFacts
  <2>3. heap = Entities \ {0}
    <3>1. ASSUME NEW i PROVE i \in Entities \ {0} <=> i \in Ids /\ InSlot(i)
      BY <2>2, NoneFacts DEF Entities, InSlot
    <3> QED
      BY <1>1, <2>1, <3>1 DEF Owned
  <2>4. ASSUME NEW r \in Roles, previous[r] # None PROVE previous[r] # following[r]
    <3>1. Queued(previous[r].id, started[r], following[r].id, Waiting(r).id, mailbox[r].id, entered)
      BY <1>1 DEF Order
    <3> QED
      BY <1>1, <2>2, <2>4, <3>1, IdTypes DEF Queued
  <2>5. ASSUME NEW r \in Roles, NEW s \in Roles, r # s
        PROVE  /\ previous[r] # None => previous[r] # previous[s] /\ previous[r] # following[s]
               /\ following[r] # None => following[r] # following[s]
    BY <1>1, <2>2, <2>5 DEF Apart, HeldBy
  <2> QED
    BY <2>3, <2>4, <2>5 DEF EntityOwnership
<1> QED
  BY <1>1, OrderAlways, TypedAlways, PTL

\* Requests of a role are started in the order in which they were made.
THEOREM RequestsInOrder == Spec => StartsInOrder
<1>1. Typed /\ Typed' /\ Armed /\ (Order /\ Apart /\ Owned) /\ [Next]_vars
        => [\A r \in Roles : started'[r] # started[r] => started'[r] > started[r]]_vars
  BY OrderNext
<1> QED
  BY <1>1, OrderAlways, TypedAlways, ArmedAlways, PTL DEF Spec, StartsInOrder
=============================================================================
