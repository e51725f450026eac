---------------------------- MODULE MCFakeSocket -----------------------------
(* The socket emulation at the sizes its configurations give. *)
EXTENDS FakeSocket
=============================================================================
