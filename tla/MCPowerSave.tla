----------------------------- MODULE MCPowerSave -----------------------------
(* RF power save with one sending thread besides the core thread. *)
EXTENDS PowerSave
=============================================================================
