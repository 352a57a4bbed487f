------------------------- MODULE MCTakionSendBuffer -------------------------
(***************************************************************************)
(* Two senders and three messages, whose numbers 6, 7, 0 pass the wrap, in *)
(* a buffer of two: overflow, pushes out of order, and giving up all       *)
(* happen.                                                                 *)
(***************************************************************************)
EXTENDS TakionSendBuffer
=============================================================================
