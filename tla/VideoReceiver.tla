---------------------------- MODULE VideoReceiver ----------------------------
(***************************************************************************)
(* chiaki/src/videoreceiver.c: the units of the video stream come in the   *)
(* order the network delivers them, late, twice or not at all.  It         *)
(* follows the newest frame, puts its units together, hands the picture to *)
(* the decoder, and tells the console which frames are missing or corrupt. *)
(*                                                                         *)
(* The p-th frame the console sends (its position) has the number Idx(p)   *)
(* in the packets.  The functions run on the Takion thread alone.  They    *)
(* are operators on a record, set-valued where the stream or the decoder   *)
(* decides; MediaStream.tla makes the packets the actions.  The record's   *)
(* fields after "ghost" are positions, for the properties.  frames_lost, a *)
(* number for the decoder's statistics, is left out.                       *)
(***************************************************************************)
EXTENDS Integers, Sequences, FiniteSets, SeqNum, FrameProcessor

CONSTANTS M,          \* number of frame numbers (2^16 in the code)
          Frames,     \* bound: positions
          Source, Fec, \* position -> source and redundant units of the frame
          ProfileOf,  \* position -> its adaptive stream index
          Profiles,   \* profiles_count, once known
          Refs        \* size of reference_frames (16 in the code)

Positions == 1 .. Frames

ASSUME VideoAssumption ==
  /\ M \in Nat \ {0} /\ M % 2 = 0 /\ Frames \in Nat /\ Profiles \in Nat
  /\ Refs \in Nat \ {0} /\ Refs < M
  /\ Source \in [Positions -> Nat \ {0}] /\ Fec \in [Positions -> Nat]
  /\ ProfileOf \in [Positions -> Nat]

Half == M \div 2
Idx(p) == p % M
UnitsOf(p) == 0 .. Source[p] + Fec[p] - 1

\* chiaki_video_receiver_init; -1 stands for none
VideoInit == [profiles |-> 0, profileCur |-> -1,
              cur |-> -1, prev |-> -1, complete |-> 0,
              refs |-> [i \in 1 .. Refs |-> -1], fp |-> NoFrame,
              \* ghost: position of cur, of the units in fp, pictures handed
              \* over, frames reported
              pos |-> 0, holds |-> {}, shown |-> <<>>, reported |-> {}]

AcceptedIn(shown) == {s.pos : s \in {shown[i] : i \in {j \in DOMAIN shown : shown[j].ok}}}
Accepted(v) == AcceptedIn(v.shown)
LastAccepted(v) == IF Accepted(v) = {} THEN 0
                   ELSE CHOOSE p \in Accepted(v) : \A q \in Accepted(v) : q <= p

\* chiaki_video_receiver_stream_info: only the first one counts
StreamInfoVideo(v) == IF v.profiles > 0 THEN v ELSE [v EXCEPT !.profiles = Profiles]

\* add_ref_frame: filled from the end, then the oldest at the end falls out
AddRef(refs, frame) ==
  IF refs[1] # -1
  THEN [i \in 1 .. Refs |-> IF i = 1 THEN frame ELSE refs[i - 1]]
  ELSE LET last == CHOOSE i \in 1 .. Refs :
                     refs[i] = -1 /\ \A j \in i + 1 .. Refs : refs[j] # -1
       IN [refs EXCEPT ![last] = frame]

HaveRef(v, frame) == \E i \in 1 .. Refs : v.refs[i] = frame

\* stream_connection_send_corrupt_frame(from, to): the frames near position p
\* with these numbers
Report(v, from, to, p) ==
  [v EXCEPT !.reported = @ \cup {q \in p - Half + 1 .. p + Half - 1 :
     SeqGe(M, Idx(q), from) /\ SeqLe(M, Idx(q), to)}]
-----------------------------------------------------------------------------
(* chiaki_video_receiver_flush_frame                                       *)

\* number of the frame a P slice with reference d refers to
RefAt(v, d) == (v.cur - d - 1) % M

\* The distance in the slice when it is handed over: the one the console wrote,
\* if that reference is held, or else the next one held, if the slice could be
\* changed (chiaki_bitstream_slice_set_reference_frame).  The console may have
\* written any number, of which the code keeps the width of a frame number, so any
\* held one is possible; 255 counts as no reference, as in the code.
Distances(v) == {d \in 0 .. M - 1 : HaveRef(v, RefAt(v, d))}

\* the slice refers to a frame that is not held and is not changed
MayMissReference(v) == \E d \in 0 .. M - 1 : ~HaveRef(v, RefAt(v, d))

Finished(v) == [v EXCEPT !.prev = v.cur]

\* video_sample_cb takes the picture or refuses it
HandOver(v, needs) ==
  LET pic(ok) == [pos |-> v.pos, header |-> v.profileCur, needs |-> needs, ok |-> ok]
  IN {[Finished(v) EXCEPT !.complete = v.cur, !.refs = AddRef(@, v.cur),
                          !.shown = Append(@, pic(TRUE))],
      [Finished(v) EXCEPT !.shown = Append(@, pic(FALSE))]}

\* the outcomes of a flush; needs = 0 for a picture that needs no other
FlushFrame(v) ==
  LET done == [v EXCEPT !.fp = Flushed(@)]
  IN CASE FlushResult(v.fp) = "FAILED" -> {v}
       [] FlushResult(v.fp) = "FEC_FAILED" ->
            {Finished(Report(v, SeqAdd(M, v.complete, 1), v.cur, v.pos))}
       [] OTHER -> HandOver(done, 0)
                   \cup (UNION {HandOver(done, v.pos - d - 1) : d \in Distances(v)})
                   \cup (IF MayMissReference(v) THEN {Finished(done)} ELSE {})
-----------------------------------------------------------------------------
(* chiaki_video_receiver_av_packet, for a packet of the frame at p         *)

OldFrame(v, p) == v.cur >= 0 /\ SeqLt(M, Idx(p), v.cur)

NewFrame(v, p) == v.cur < 0 \/ SeqGt(M, Idx(p), v.cur)

\* the packet names a profile that is not there, or not yet
BadProfile(v, p) == v.profileCur # ProfileOf[p] /\ ProfileOf[p] >= v.profiles

\* the packet passes the checks at the head of the handler
Taken(v, p) == ~OldFrame(v, p) /\ ~BadProfile(v, p)

\* the profile's header goes to the decoder before the old frame is flushed
SwitchProfile(v, p) == [v EXCEPT !.profileCur = ProfileOf[p]]

FlushOld(v) == IF v.cur >= 0 /\ v.prev # v.cur THEN FlushFrame(v) ELSE {v}

\* Mutant of ReportGap: the report ends one frame early
ReportGapShort(v, p) ==
  IF SeqGt(M, Idx(p), SeqAdd(M, v.complete, 1)) /\ ~(Idx(p) = 1 /\ v.cur < 0)
  THEN Report(v, SeqAdd(M, v.complete, 1), (Idx(p) - 2) % M, p) ELSE v

ReportGap(v, p) ==
  IF SeqGt(M, Idx(p), SeqAdd(M, v.complete, 1)) /\ ~(Idx(p) = 1 /\ v.cur < 0)
  THEN Report(v, SeqAdd(M, v.complete, 1), (Idx(p) - 1) % M, p) ELSE v

BeginFrame(v, p) ==
  {[ReportGap(w, p) EXCEPT !.cur = Idx(p), !.fp = AllocFrame(Source[p], Fec[p]),
                          !.pos = p, !.holds = {}] :
     w \in FlushOld(v)}

PutUnit(v, p, unit) ==
  IF CanPut(v.fp, unit)
  THEN [v EXCEPT !.fp = Put(@, unit), !.holds = @ \cup {p}] ELSE v

\* Mutant of FlushNow: a frame that was flushed is flushed again
FlushNowAgain(v, p, unit) ==
  FlushPossible(v.fp) \/ unit = Source[p] + Fec[p] - 1

\* enough units for the whole frame, or its last one
FlushNow(v, p, unit) == /\ v.cur # v.prev
                        /\ FlushPossible(v.fp) \/ unit = Source[p] + Fec[p] - 1

\* the receiver after a packet it takes
AfterPacket(v, p, unit) ==
  LET switched == SwitchProfile(v, p)
  IN UNION {LET w == PutUnit(b, p, unit) IN IF FlushNow(w, p, unit) THEN FlushFrame(w) ELSE {w} :
              b \in IF NewFrame(v, p) THEN BeginFrame(switched, p) ELSE {switched}}
=============================================================================
