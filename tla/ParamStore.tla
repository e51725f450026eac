----------------------------- MODULE ParamStore ------------------------------
(* What the table of network parameters promises its users: a map from items *)
(* to values in which a saved value replaces the one before, until the power *)
(* fails in the middle of a save.                                            *)
EXTENDS Naturals

CONSTANTS Items, Values, Absent

VARIABLES
    params,     \* the map
    request,    \* the item and the value saved last
    saves,      \* number of saves
    failed      \* the power has failed during a save

vars == <<params, request, saves, failed>>

Init ==
    /\ params = [i \in Items |-> Absent]
    /\ request = <<>> /\ saves = 0 /\ failed = FALSE

Save(i, v) ==
    /\ ~failed
    /\ request' = <<i, v>>
    /\ saves' = saves + 1
    /\ params' = [params EXCEPT ![i] = v]
    /\ UNCHANGED failed

\* From then on nothing is promised.
PowerFail == failed' = TRUE

Next == PowerFail \/ \E i \in Items, v \in Values : Save(i, v)

Spec == Init /\ [][Next]_vars
=============================================================================
