--------------------------- MODULE FrameProcessor ---------------------------
(***************************************************************************)
(* chiaki/src/frameprocessor.c: the units of one frame are collected in    *)
(* slots, source units first and redundant (FEC) ones after them, and the  *)
(* frame is put together from the source units, the missing ones restored  *)
(* when there are enough redundant ones.                                   *)
(*                                                                         *)
(* Pure operators on the record of a frame; the receiver of the video      *)
(* stream keeps the record.  What a unit holds is left out: a slot is set  *)
(* or not (data_size).  A unit is taken to be well formed and memory to be *)
(* there, so that chiaki_frame_processor_alloc_frame does not fail.        *)
(***************************************************************************)
EXTENDS Integers, FiniteSets

\* chiaki_frame_processor_init.  flushed is left out: it is only ever read
\* after alloc_frame, which clears it, and nothing sets it again.
NoFrame == [source |-> 0, fec |-> 0, slots |-> {}, sourceGot |-> 0, fecGot |-> 0]

\* chiaki_frame_processor_alloc_frame: at least one redundant unit is expected
AllocFrame(source, fec) ==
  [NoFrame EXCEPT !.source = source, !.fec = IF fec < 1 THEN 1 ELSE fec]

SlotsSize(fp) == fp.source + fp.fec
Received(fp) == fp.sourceGot + fp.fecGot

\* Mutant of CanPut: a unit that is there already is counted again
CanPutTwice(fp, unit) == unit <= SlotsSize(fp)

\* the checks of chiaki_frame_processor_put_unit
CanPut(fp, unit) == unit <= SlotsSize(fp) /\ unit \notin fp.slots

\* chiaki_frame_processor_put_unit, of a unit that passes its checks
Put(fp, unit) ==
  [fp EXCEPT !.slots = @ \cup {unit},
             !.sourceGot = IF unit < fp.source THEN @ + 1 ELSE @,
             !.fecGot = IF unit < fp.source THEN @ ELSE @ + 1]

\* Mutant of FlushPossible: waits for every source unit
FlushPossibleSource(fp) == fp.sourceGot >= fp.source

\* chiaki_frame_processor_flush_possible
FlushPossible(fp) == Received(fp) >= fp.source

\* chiaki_fec_decode (external) restores as many erasures as there are
\* redundant units
Erasures(fp) == (0 .. SlotsSize(fp) - 1) \ fp.slots
Decodes(fp) == Cardinality(Erasures(fp)) <= fp.fec

\* the result of chiaki_frame_processor_flush
FlushResult(fp) == CASE fp.source = 0 -> "FAILED"
                     [] fp.source > 0 /\ fp.sourceGot >= fp.source -> "SUCCESS"
                     [] OTHER -> IF Decodes(fp) THEN "FEC_SUCCESS" ELSE "FEC_FAILED"

\* chiaki_frame_processor_fec sets the sizes of the restored units, so that
\* they count as present when they arrive late
Flushed(fp) == IF FlushResult(fp) = "FEC_SUCCESS"
               THEN [fp EXCEPT !.slots = @ \cup 0 .. fp.source - 1] ELSE fp
=============================================================================
