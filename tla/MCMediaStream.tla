--------------------------- MODULE MCMediaStream ---------------------------
(***************************************************************************)
(* Frames of two source units with two redundant ones and of one without,  *)
(* by turns; the profile changes in the middle.                            *)
(***************************************************************************)
EXTENDS MediaStream

MCSource == [p \in Positions |-> 1 + (p % 2)]
MCFec == [p \in Positions |-> 2 * (p % 2)]
MCProfileOf == [p \in Positions |-> IF p < 4 THEN 0 ELSE 1]
=============================================================================
