------------------------------ MODULE MCTakion ------------------------------
(***************************************************************************)
(* Takion with a window of three, three messages of which the first brings *)
(* the keys, one AV packet and room to postpone one.  With one packet in   *)
(* flight at a time the messages still arrive in every order, any number   *)
(* of times and with any of them missing: the network drops a packet for   *)
(* the next one, keeps it after it was received, and the console sends     *)
(* again whatever is not acknowledged.                                     *)
(***************************************************************************)
EXTENDS Takion

MCPositions == 0 .. 2
=============================================================================
