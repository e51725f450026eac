------------------------------- MODULE MCKfifo -------------------------------
(* Indices wrap after 8 bytes through a buffer of 4. *)
EXTENDS Kfifo
=============================================================================
