---------------------------- MODULE AudioReceiver ----------------------------
(***************************************************************************)
(* chiaki/src/audioreceiver.c: a packet of the audio stream holds some     *)
(* sound frames and copies of the frames before them; a frame goes to the  *)
(* sink if its number is after the last one's.                             *)
(*                                                                         *)
(* As in VideoReceiver.tla, the frame at position p has the number p % M   *)
(* in the packets.  The receiver of the haptics stream runs the same code  *)
(* and counts nothing.  A packet is taken to be well formed.               *)
(***************************************************************************)
EXTENDS Integers, Sequences, SeqNum

CONSTANTS M,                \* number of frame numbers (2^16 in the code)
          AudioSource,      \* source_units_count
          AudioFec          \* fec_units_count

\* chiaki_audio_receiver_init; ghost: the positions handed to the sink
AudioInit == [prev |-> 0, startup |-> TRUE, played |-> <<>>]

\* frame_index of unit i of the packet at p, as a position
UnitAt(p, i) == IF i < AudioSource THEN p + i ELSE p - AudioFec + (i - AudioSource)

\* `first packets will contain the same frame multiple times, ignore those'
Ignored(a, p, i) == /\ a.startup /\ i >= AudioSource
                    /\ (p % M) + (i - AudioSource) < AudioFec + 1

\* chiaki_audio_receiver_frame
AudioFrame(a, p) ==
  IF SeqGt(M, p % M, a.prev)
  THEN [a EXCEPT !.prev = p % M, !.played = Append(@, p)] ELSE a

AudioUnit(a, p, i) == IF Ignored(a, p, i) THEN a ELSE AudioFrame(a, UnitAt(p, i))

Started(a, p) == IF p % M > M \div 2 THEN [a EXCEPT !.startup = FALSE] ELSE a

\* the receiver after so many units of the packet at p
AudioUnits(a, p) ==
  LET after[n \in 0 .. AudioSource + AudioFec] ==
        IF n = 0 THEN Started(a, p) ELSE AudioUnit(after[n - 1], p, n - 1)
  IN after

\* chiaki_audio_receiver_av_packet up to the statistics
AfterAudioPacket(a, p) == AudioUnits(a, p)[AudioSource + AudioFec]
=============================================================================
