---------------------------- MODULE MCHolepunch ----------------------------
(***************************************************************************)
(* Two unread notifications are enough for one that is wanted to be behind *)
(* one that is not; every order of kinds arrives.                          *)
(***************************************************************************)
EXTENDS Holepunch
=============================================================================
