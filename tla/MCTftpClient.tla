---------------------------- MODULE MCTftpClient -----------------------------
(* The TFTP client against a server, at the sizes its configurations give. *)
EXTENDS TftpClient
=============================================================================
