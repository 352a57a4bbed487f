------------------------- MODULE MCStreamConnection -------------------------
(***************************************************************************)
(* The stream connection with two application threads that set the         *)
(* controller state.                                                       *)
(***************************************************************************)
EXTENDS StreamConnection
=============================================================================
