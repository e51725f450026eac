------------------------------ MODULE MCRwMsg ------------------------------
(* Instances of RwMsg for TLC: two calling threads, one or two ids.       *)
EXTENDS RwMsg, TLC

Symmetry == Permutations(Clients) \cup Permutations(ReqIds)
=============================================================================
