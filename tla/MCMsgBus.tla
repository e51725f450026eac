------------------------------ MODULE MCMsgBus ------------------------------
(* The bus at the sizes its configuration gives.                            *)
EXTENDS MsgBus
=============================================================================
