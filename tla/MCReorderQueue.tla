--------------------------- MODULE MCReorderQueue ---------------------------
(***************************************************************************)
(* ReorderQueue with two slots and eight sequence numbers.  The stream     *)
(* begins at 5 and runs to 8, whose number is 0 again, and a packet from   *)
(* before the start may be late: long enough for both slots of the ring to *)
(* be used, emptied and used again.  Each packet may arrive twice.         *)
(***************************************************************************)
EXTENDS ReorderQueue, TLC

\* The two arrivals of a packet are interchangeable.
CopySymmetry == Permutations(Copies)
=============================================================================
