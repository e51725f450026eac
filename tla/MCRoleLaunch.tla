---------------------------- MODULE MCRoleLaunch ----------------------------
(***************************************************************************)
(* TLC instance of RoleLaunch.                                              *)
(***************************************************************************)
EXTENDS RoleLaunch
=============================================================================
