----------------------------- MODULE MediaStream -----------------------------
(***************************************************************************)
(* What the Takion thread does with the packets of the video and the audio *)
(* stream, and the packet statistics (chiaki/src/packetstats.c) it shares  *)
(* with the thread of the congestion control                               *)
(* (chiaki/src/congestioncontrol.c).                                       *)
(*                                                                         *)
(* The statistics have a mutex, which chiaki_packet_stats_push_seq does    *)
(* not take: its load, its store and the maximum are steps of their own,   *)
(* and so are the two ends of chiaki_packet_stats_get.  All else a packet  *)
(* causes is the Takion thread's own and one step.  The network delivers   *)
(* any packet of any frame near the current one, in any order, again or    *)
(* never.  gen_lost, which only becomes part of a number sent to the       *)
(* console, is left out.                                                   *)
(***************************************************************************)
EXTENDS VideoReceiver

CONSTANTS AudioSource, AudioFec, \* units of an audio packet
          AudioFrames, \* bound: positions of the audio stream
          Packets,     \* bound: packets that have an effect
          Reports,     \* bound: times the statistics are read
          Wide         \* 2^64: the width in which losses are computed

ASSUME MediaAssumption ==
  /\ {AudioFrames, Packets, Reports, Wide} \subseteq Nat
  /\ AudioSource \in Nat \ {0} /\ AudioFec \in Nat /\ Wide >= 2 * M
  /\ AudioSource + AudioFec <= Half \* both are numbers of four bits (takion.h)

Audio == INSTANCE AudioReceiver

VARIABLES video, audio, \* the receivers
          stats,    \* ChiakiPacketStats: [gen, seq, min, max]
          takion,   \* Takion thread in push_seq: [at, loaded, num]
          control,  \* congestion control in packet_stats_get: [at, seq]
          packets, reports, \* bounds: so many so far
          owed,     \* ghost: received, and not yet reported as received
          raced     \* ghost: a store of push_seq and a reset fell into each other

push == <<takion, packets>>
vars == <<video, audio, stats, push, control, reports, owed, raced>>

Init == /\ video = VideoInit /\ audio = Audio!AudioInit
        /\ stats = [gen |-> 0, seq |-> 0, min |-> 0, max |-> 0]
        /\ takion = [at |-> "idle", loaded |-> 0, num |-> 0]
        /\ control = [at |-> "idle", seq |-> 0]
        /\ packets = 0 /\ reports = 0 /\ owed = 0 /\ raced = FALSE

Counted(v) == Received(v.fp)
Locked == control.at = "read"
TakionFree == takion.at = "idle"
-----------------------------------------------------------------------------
(* The Takion thread                                                       *)

StreamInfo == /\ TakionFree /\ video.profiles = 0
              /\ video' = StreamInfoVideo(video)
              /\ UNCHANGED <<audio, stats, push, control, reports, owed, raced>>

\* Mutant of PushGeneration: after the counts were cleared
PushGenerationLate(v, w) == [stats EXCEPT !.gen = @ + IF w.cur # v.cur THEN Counted(w) ELSE 0]

\* chiaki_frame_processor_report_packet_stats, of the old frame, when the
\* receiver goes from v to w
PushGeneration(v, w) == [stats EXCEPT !.gen = @ + IF w.cur # v.cur THEN Counted(v) ELSE 0]

\* units the packet adds to those received; put_unit comes before any flush
Added(v, p, unit) ==
  IF NewFrame(v, p) \/ CanPut(v.fp, unit) THEN 1 ELSE 0

\* a packet near enough for its number to be told from those of other frames
Near(p, last) == p - last < Half /\ last - p < Half

\* av packet of the video stream; one that is not taken changes nothing
VideoPacket(p, unit) ==
  /\ TakionFree /\ packets < Packets
  /\ Near(p, video.pos) /\ Near(p, LastAccepted(video))
  /\ Taken(video, p)
  /\ NewFrame(video, p) => ~Locked
  /\ video' \in AfterPacket(video, p, unit)
  /\ stats' = PushGeneration(video, video')
  /\ owed' = owed + Added(video, p, unit)
  /\ packets' = packets + 1
  /\ UNCHANGED <<audio, takion, control, reports, raced>>

LastPlayed == IF audio.played = <<>> THEN 0 ELSE audio.played[Len(audio.played)]

\* av packet of the audio stream, up to the load of seq_received
AudioPacket(p) ==
  /\ TakionFree /\ packets < Packets
  /\ Near(p - AudioFec, LastPlayed) /\ Near(p + AudioSource - 1, LastPlayed)
  /\ audio' = Audio!AfterAudioPacket(audio, p)
  /\ takion' = [at |-> "loaded", loaded |-> stats.seq, num |-> Idx(p)]
  /\ packets' = packets + 1
  /\ UNCHANGED <<video, stats, control, reports, owed, raced>>

PushStore == /\ takion.at = "loaded"
             /\ stats' = [stats EXCEPT !.seq = takion.loaded + 1]
             /\ takion' = [takion EXCEPT !.at = "stored"]
             /\ owed' = owed + 1
             /\ raced' = (raced \/ Locked)
             /\ UNCHANGED <<video, audio, control, packets, reports>>

PushMax == /\ takion.at = "stored"
           /\ stats' = [stats EXCEPT !.max = IF SeqGt(M, takion.num, @) THEN takion.num ELSE @]
           /\ takion' = [at |-> "idle", loaded |-> 0, num |-> 0]
           /\ UNCHANGED <<video, audio, control, packets, reports, owed, raced>>
-----------------------------------------------------------------------------
(* The congestion control's thread, every 200 ms: chiaki_packet_stats_get  *)

\* seq_lost: the difference of two 16-bit numbers, an int, as an uint64_t
SeqLost == LET diff == (stats.max - stats.min) % Wide
           IN IF stats.seq > diff THEN diff ELSE diff - stats.seq

\* the mutex is taken and the statistics are read
ReportRead == /\ control.at = "idle" /\ reports < Reports
              /\ control' = [at |-> "read", seq |-> stats.seq]
              /\ reports' = reports + 1
              /\ UNCHANGED <<video, audio, stats, push, owed, raced>>

\* reset_stats
ResetStats == [gen |-> 0, seq |-> 0, min |-> stats.max, max |-> stats.max]

\* they are cleared and the mutex is released
ReportReset == /\ control.at = "read"
               /\ stats' = ResetStats
               /\ control' = [at |-> "idle", seq |-> 0]
               /\ owed' = owed - (stats.gen + control.seq)
               /\ raced' = (raced \/ takion.at = "loaded")
               /\ UNCHANGED <<video, audio, push, reports>>

Next == \/ StreamInfo
        \/ \E p \in Positions : \E unit \in UnitsOf(p) : VideoPacket(p, unit)
        \/ \E p \in 1 .. AudioFrames : AudioPacket(p)
        \/ PushStore \/ PushMax
        \/ ReportRead \/ ReportReset

Spec == Init /\ [][Next]_vars
-----------------------------------------------------------------------------
Pictures == [pos : Positions, header : 0 .. Profiles - 1, needs : Nat, ok : BOOLEAN]

TypeOK ==
  /\ video.profiles \in {0, Profiles} /\ video.profileCur \in -1 .. Profiles - 1
  /\ {video.cur, video.prev} \subseteq -1 .. M - 1 /\ video.complete \in 0 .. M - 1
  /\ video.refs \in [1 .. Refs -> -1 .. M - 1]
  /\ video.fp.slots \subseteq 0 .. SlotsSize(video.fp) - 1
  /\ {video.fp.sourceGot, video.fp.fecGot} \subseteq Nat
  /\ Counted(video) <= Cardinality(video.fp.slots)
  /\ video.pos \in {0} \cup Positions /\ video.holds \subseteq Positions
  /\ video.shown \in Seq(Pictures)
  /\ audio.prev \in 0 .. M - 1 /\ audio.startup \in BOOLEAN
  /\ stats \in [gen : Nat, seq : Nat, min : 0 .. M - 1, max : 0 .. M - 1]
  /\ takion \in [at : {"idle", "loaded", "stored"}, loaded : Nat, num : 0 .. M - 1]
  /\ control \in [at : {"idle", "read"}, seq : Nat]
  /\ packets \in 0 .. Packets /\ reports \in 0 .. Reports
  /\ owed \in Int /\ raced \in BOOLEAN

\* A picture is handed to the decoder after all pictures of earlier frames and
\* never again, however the packets of several frames are mixed and wherever
\* the 16-bit numbers wrap; sound frames go to the sink likewise.
PicturesInOrder == \A i, j \in DOMAIN video.shown :
                     i < j => video.shown[i].pos < video.shown[j].pos
SoundInOrder == \A i, j \in DOMAIN audio.played :
                  i < j => audio.played[i] < audio.played[j]
InOrder == PicturesInOrder /\ SoundInOrder

\* The console hears of every frame before the current one whose picture the
\* decoder did not take, and of no picture it took (corrupt-frame messages).
GapsReported == /\ 1 .. video.pos - 1 \subseteq Accepted(video) \cup video.reported
                /\ video.reported \cap Accepted(video) = {}

\* A picture is put together from units of its own frame; it is handed over
\* while the decoder has the header of its profile, although the header of the
\* next frame's profile goes out before the old frame is flushed; and the other
\* picture it may need is one the decoder has taken.
OwnUnits == video.holds \subseteq {video.pos}
OwnHeader == \A i \in DOMAIN video.shown :
               video.shown[i].header = ProfileOf[video.shown[i].pos]
Decodable == \A i \in DOMAIN video.shown :
  video.shown[i].needs # 0 =>
    video.shown[i].needs \in AcceptedIn(SubSeq(video.shown, 1, i - 1))
PicturesIntact == OwnUnits /\ OwnHeader /\ Decodable

\* What was received is reported once: until then it is in the statistics or
\* among the units of the current frame.  A push_seq whose load and store a
\* reset falls between, or whose store falls into a report, breaks this.
CountedOnce == ~raced => owed = stats.gen + stats.seq + Counted(video)

\* What is lost in an interval is computed in the width of the numbers
\* (`overflow on purpose if max < min').
LossWithinWidth == [][control.at = "idle" /\ control'.at = "read" => SeqLost < M]_vars
=============================================================================
