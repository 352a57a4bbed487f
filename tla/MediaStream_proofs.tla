------------------------- MODULE MediaStream_proofs -------------------------
(***************************************************************************)
(* What the receivers promise whatever the network does with the packets:  *)
(* for every number of frame numbers, every shape of the frames, every     *)
(* number of reference frames and every audio packet size, as long as a    *)
(* packet is less than half of the numbers away from the frame it meets.   *)
(*                                                                         *)
(* The proofs speak of positions, which do not wrap.                       *)
(***************************************************************************)
EXTENDS MediaStream, SeqNum_proofs, FiniteSetTheorems, WellFoundedInduction

-----------------------------------------------------------------------------
(* Numbers                                                                 *)

LEMMA SizeFacts ==
  /\ M \in Nat \ {0} /\ M % 2 = 0 /\ Half \in Nat /\ M = 2 * Half /\ Half > 0
  /\ Profiles \in Nat /\ Refs \in Nat \ {0} /\ Refs < M
  /\ AudioSource \in Nat \ {0} /\ AudioFec \in Nat /\ AudioSource + AudioFec <= Half
<1>1. M \in Nat \ {0} /\ M % 2 = 0
  BY VideoAssumption
<1>2. M \div 2 \in Nat /\ M = 2 * (M \div 2)
  BY ONLY <1>1
<1> QED
  BY <1>1, <1>2, VideoAssumption, MediaAssumption DEF Half

LEMMA PositionFacts ==
  \A p \in Positions : p \in Nat \ {0} /\ Source[p] \in Nat \ {0} /\ Fec[p] \in Nat
                       /\ ProfileOf[p] \in Nat
BY VideoAssumption DEF Positions

\* The comparisons of the code, of positions less than half of M apart.
LEMMA Compare ==
  ASSUME NEW a \in Int, NEW b \in Int, b - a < Half, a - b < Half
  PROVE  /\ SeqLt(M, Idx(a), Idx(b)) <=> a < b
         /\ SeqGt(M, Idx(a), Idx(b)) <=> a > b
         /\ SeqLe(M, Idx(a), Idx(b)) <=> a <= b
         /\ SeqGe(M, Idx(a), Idx(b)) <=> a >= b
BY SizeFacts, SeqCompare DEF Half, Idx

LEMMA IdxAdd == \A a, d \in Int : (Idx(a) + d) % M = Idx(a + d)
BY SizeFacts, ModAdd DEF Idx

LEMMA IdxType == \A a \in Int : Idx(a) \in 0 .. M - 1
BY SizeFacts, ModWitness DEF Idx

LEMMA IdxDistinct ==
  \A a, b \in Int : a # b /\ a - b < M /\ b - a < M => Idx(a) # Idx(b)
BY SizeFacts, ModDistinct DEF Idx

\* Half of the numbers apart, neither is before the other.
LEMMA NotAtHalf ==
  ASSUME NEW a \in Int
  PROVE  ~SeqLe(M, Idx(a + Half), Idx(a))
<1> DEFINE x == Idx(a)
           y == Idx(a + Half)
<1>1. x \in 0 .. M - 1
  BY IdxType
<1>2. y = IF x + Half < M THEN x + Half ELSE x + Half - M
  <2>1. - M < Half /\ Half < M /\ Half \in Int
    BY SizeFacts
  <2>2. (a + Half) % M = IF (a % M) + Half < 0 THEN (a % M) + Half + M
                         ELSE IF (a % M) + Half < M THEN (a % M) + Half
                         ELSE (a % M) + Half - M
    BY ONLY <2>1, SizeFacts, ModStep, a \in Int
  <2> QED
    BY <1>1, <2>2, SizeFacts DEF Idx
<1> HIDE DEF x, y
<1>3. x # y /\ (y > x => y - x = Half) /\ (y < x => x - y = Half)
  BY <1>1, <1>2, SizeFacts
<1>4. ~SeqLt(M, y, x)
  <2>1. M \div 2 = Half /\ Half \in Nat /\ x \in Int /\ y \in Int
    BY <1>1, <1>2, SizeFacts DEF Half
  <2> QED
    BY ONLY <1>3, <2>1 DEF SeqLt
<1> QED
  BY <1>3, <1>4 DEF SeqLe, x, y

\* What a corrupt-frame message from one position to the last one, or to the
\* one before it, names.
LEMMA ReportedFrames ==
  ASSUME NEW p \in Int, NEW from \in Int, NEW to \in {p - 1, p},
         from <= p, p - from < Half
  PROVE  {q \in p - Half + 1 .. p + Half - 1 :
            SeqGe(M, Idx(q), Idx(from)) /\ SeqLe(M, Idx(q), Idx(to))} = from .. to
<1> DEFINE Named(q) == SeqGe(M, Idx(q), Idx(from)) /\ SeqLe(M, Idx(q), Idx(to))
<1>h. Half \in Nat /\ Half > 0
  BY SizeFacts
<1>1. ASSUME NEW q \in p - Half + 1 .. p + Half - 1
      PROVE  Named(q) <=> q \in from .. to
  <2>1. SeqLe(M, Idx(q), Idx(to)) <=> q <= to
    <3>1. CASE q - to < Half
      <4>1. q \in Int /\ to \in Int /\ to - q < Half
        BY <1>h
      <4> QED
        BY ONLY <4>1, <3>1, Compare
    <3>2. CASE q - to >= Half
      <4>1. to \in Int /\ q = to + Half
        BY <1>h, <3>2
      <4>2. ~SeqLe(M, Idx(to + Half), Idx(to))
        BY <4>1, NotAtHalf
      <4> QED
        BY <1>h, <4>1, <4>2
    <3> QED
      BY <3>1, <3>2, <1>h
  <2>2. q <= to => (SeqGe(M, Idx(q), Idx(from)) <=> q >= from)
    <3>1. q <= to => q - from < Half /\ from - q < Half
      BY <1>h
    <3> QED
      BY <3>1, Compare
  <2> QED
    BY <2>1, <2>2
<1>2. \A q \in from .. to : q \in p - Half + 1 .. p + Half - 1
  BY <1>h
<1> QED
  BY <1>1, <1>2
-----------------------------------------------------------------------------
(* The frame processor                                                     *)

Frame == [source : Nat, fec : Nat, slots : SUBSET Nat, sourceGot : Nat, fecGot : Nat]

FrameOK(fp) == /\ fp \in Frame /\ fp.slots \subseteq 0 .. SlotsSize(fp) - 1
               /\ Received(fp) <= Cardinality(fp.slots)

LEMMA FrameFacts ==
  ASSUME NEW fp, FrameOK(fp)
  PROVE  /\ fp.source \in Nat /\ fp.fec \in Nat /\ fp.sourceGot \in Nat /\ fp.fecGot \in Nat
         /\ SlotsSize(fp) \in Nat /\ Received(fp) \in Nat
         /\ IsFiniteSet(fp.slots) /\ Cardinality(fp.slots) \in Nat
         /\ Cardinality(fp.slots) <= SlotsSize(fp)
<1>1. /\ fp.source \in Nat /\ fp.fec \in Nat /\ fp.sourceGot \in Nat /\ fp.fecGot \in Nat
      /\ fp.slots \subseteq 0 .. SlotsSize(fp) - 1
  BY DEF FrameOK, Frame
<1>2. SlotsSize(fp) \in Nat /\ Received(fp) \in Nat
  BY <1>1 DEF SlotsSize, Received
<1>3. /\ IsFiniteSet(0 .. SlotsSize(fp) - 1)
      /\ Cardinality(0 .. SlotsSize(fp) - 1) = SlotsSize(fp)
  <2>1. 0 \in Int /\ SlotsSize(fp) - 1 \in Int
    BY <1>2
  <2>2. /\ IsFiniteSet(0 .. SlotsSize(fp) - 1)
        /\ Cardinality(0 .. SlotsSize(fp) - 1) =
             IF 0 > SlotsSize(fp) - 1 THEN 0 ELSE SlotsSize(fp) - 1 - 0 + 1
    BY <2>1, FS_Interval
  <2> QED
    BY <1>2, <2>2
<1>4. IsFiniteSet(fp.slots) /\ Cardinality(fp.slots) <= SlotsSize(fp)
  <2>1. PICK S : S = 0 .. SlotsSize(fp) - 1
    OBVIOUS
  <2>2. PICK T : T = fp.slots
    OBVIOUS
  <2>3. IsFiniteSet(T) /\ Cardinality(T) <= Cardinality(S)
    BY ONLY <1>1, <1>3, <2>1, <2>2, FS_Subset
  <2> QED
    BY ONLY <1>3, <2>1, <2>2, <2>3
<1>5. Cardinality(fp.slots) \in Nat
  BY <1>4, FS_CardinalityType
<1> QED
  BY <1>1, <1>2, <1>4, <1>5

LEMMA NoFrameOK == FrameOK(NoFrame) /\ Received(NoFrame) = 0 /\ Cardinality({}) = 0
<1>1. Cardinality({}) = 0
  BY FS_EmptySet
<1> QED
  BY <1>1 DEF FrameOK, Frame, NoFrame, Received

LEMMA AllocOK ==
  ASSUME NEW s \in Nat \ {0}, NEW f \in Nat
  PROVE  LET fp == AllocFrame(s, f)
         IN /\ FrameOK(fp) /\ Received(fp) = 0 /\ fp.slots = {} /\ fp.source = s
            /\ SlotsSize(fp) >= s + f
<1>1. Cardinality({}) = 0
  BY FS_EmptySet
<1> DEFINE fp == AllocFrame(s, f)
<1>2. PICK k \in Nat : k = IF f < 1 THEN 1 ELSE f
  OBVIOUS
<1>3. fp = [source |-> s, fec |-> k, slots |-> {}, sourceGot |-> 0, fecGot |-> 0]
  <2>1. fp = [NoFrame EXCEPT !.source = s, !.fec = k]
    BY ONLY <1>2 DEF AllocFrame
  <2> QED
    BY ONLY <2>1 DEF NoFrame
<1>4. fp \in Frame /\ fp.slots = {} /\ fp.source = s /\ fp.fec = k /\ Received(fp) = 0
  BY <1>3 DEF Frame, Received
<1>5. SlotsSize(fp) >= s + f
  BY <1>2, <1>4 DEF SlotsSize
<1> QED
  BY <1>1, <1>4, <1>5 DEF FrameOK

\* A unit that was not there is counted once.
LEMMA PutOK ==
  ASSUME NEW fp, FrameOK(fp), NEW unit \in 0 .. SlotsSize(fp) - 1, CanPut(fp, unit)
  PROVE  /\ FrameOK(Put(fp, unit))
         /\ Put(fp, unit).source = fp.source /\ SlotsSize(Put(fp, unit)) = SlotsSize(fp)
         /\ Received(Put(fp, unit)) = Received(fp) + 1
         /\ Cardinality(Put(fp, unit).slots) = Cardinality(fp.slots) + 1
<1>1. fp \in Frame /\ unit \in Nat /\ unit \notin fp.slots
  BY FrameFacts DEF FrameOK, CanPut
<1>2. /\ Put(fp, unit) \in Frame
      /\ Put(fp, unit).source = fp.source /\ Put(fp, unit).fec = fp.fec
      /\ Put(fp, unit).slots = fp.slots \cup {unit}
      /\ Received(Put(fp, unit)) = Received(fp) + 1
  <2>1. PICK more \in SUBSET Nat : more = fp.slots \cup {unit}
    <3>1. fp.slots \in SUBSET Nat
      BY <1>1 DEF Frame
    <3> QED
      BY <1>1, <3>1
  <2>2. ASSUME NEW g \in Nat, NEW h \in Nat, g + h = fp.sourceGot + fp.fecGot + 1,
               Put(fp, unit) = [fp EXCEPT !.slots = more, !.sourceGot = g, !.fecGot = h]
        PROVE  /\ Put(fp, unit) \in Frame /\ Put(fp, unit).slots = more
               /\ Put(fp, unit).source = fp.source /\ Put(fp, unit).fec = fp.fec
               /\ Received(Put(fp, unit)) = Received(fp) + 1
    BY <1>1, <2>2 DEF Frame, Received
  <2>3. CASE unit < fp.source
    <3>1. PICK g \in Nat : g = fp.sourceGot + 1
      BY FrameFacts
    <3>2. PICK h \in Nat : h = fp.fecGot
      BY FrameFacts
    <3>3. Put(fp, unit) = [fp EXCEPT !.slots = more, !.sourceGot = g, !.fecGot = h]
      BY ONLY <2>1, <2>3, <3>1, <3>2 DEF Put
    <3>4. g + h = fp.sourceGot + fp.fecGot + 1
      BY <3>1, <3>2, FrameFacts
    <3> QED
      BY <2>1, <2>2, <3>3, <3>4
  <2>4. CASE ~ (unit < fp.source)
    <3>1. PICK g \in Nat : g = fp.sourceGot
      BY FrameFacts
    <3>2. PICK h \in Nat : h = fp.fecGot + 1
      BY FrameFacts
    <3>3. Put(fp, unit) = [fp EXCEPT !.slots = more, !.sourceGot = g, !.fecGot = h]
      BY ONLY <2>1, <2>4, <3>1, <3>2 DEF Put
    <3>4. g + h = fp.sourceGot + fp.fecGot + 1
      BY <3>1, <3>2, FrameFacts
    <3> QED
      BY <2>1, <2>2, <3>3, <3>4
  <2> QED
    BY <2>3, <2>4
<1>3. Cardinality(fp.slots \cup {unit}) = Cardinality(fp.slots) + 1
  BY <1>1, FrameFacts, FS_AddElement
<1>4. Received(fp) <= Cardinality(fp.slots) /\ fp.slots \subseteq 0 .. SlotsSize(fp) - 1
  BY DEF FrameOK
<1>5. SlotsSize(Put(fp, unit)) = SlotsSize(fp)
  BY <1>2 DEF SlotsSize
<1>6. FrameOK(Put(fp, unit))
  <2>1. Received(fp) + 1 <= Cardinality(fp.slots) + 1
    BY <1>4, FrameFacts
  <2> QED
    BY <1>2, <1>3, <1>4, <1>5, <2>1 DEF FrameOK
<1> QED
  BY <1>2, <1>3, <1>5, <1>6

\* Putting a frame together only adds units that were restored.
LEMMA FlushedOK ==
  ASSUME NEW fp, FrameOK(fp)
  PROVE  /\ FrameOK(Flushed(fp)) /\ Received(Flushed(fp)) = Received(fp)
         /\ Flushed(fp).source = fp.source /\ SlotsSize(Flushed(fp)) = SlotsSize(fp)
<1>1. CASE FlushResult(fp) = "FEC_SUCCESS"
  <2>1. fp \in Frame /\ fp.slots \subseteq 0 .. SlotsSize(fp) - 1
    BY DEF FrameOK
  <2>2. PICK more \in SUBSET Nat : more = fp.slots \cup 0 .. fp.source - 1
    <3>1. fp.slots \cup 0 .. fp.source - 1 \in SUBSET Nat
      BY <2>1, FrameFacts DEF Frame
    <3> QED
      BY <3>1
  <2>3. Flushed(fp) = [fp EXCEPT !.slots = more]
    BY <1>1, <2>2 DEF Flushed
  <2>4. /\ Flushed(fp) \in Frame /\ Flushed(fp).slots = more
        /\ SlotsSize(Flushed(fp)) = SlotsSize(fp) /\ Received(Flushed(fp)) = Received(fp)
        /\ Flushed(fp).source = fp.source
    BY <2>1, <2>3 DEF Frame, SlotsSize, Received
  <2>5. more \subseteq 0 .. SlotsSize(fp) - 1
    BY <2>1, <2>2, FrameFacts DEF SlotsSize
  <2>6. Cardinality(fp.slots) <= Cardinality(more) /\ Cardinality(more) \in Nat
    <3>1. IsFiniteSet(0 .. SlotsSize(fp) - 1)
      BY FrameFacts, FS_Interval
    <3>2. IsFiniteSet(more)
      BY <2>5, <3>1, FS_Subset
    <3>3. fp.slots \subseteq more
      BY <2>2
    <3> QED
      BY <3>2, <3>3, FS_Subset, FS_CardinalityType
  <2>7. Received(fp) <= Cardinality(more)
    BY <2>6, FrameFacts DEF FrameOK
  <2> QED
    BY <2>4, <2>5, <2>7 DEF FrameOK
<1>2. CASE FlushResult(fp) # "FEC_SUCCESS"
  BY <1>2 DEF Flushed
<1> QED
  BY <1>1, <1>2

\* Too few units to put a frame together are too few to restore it.
LEMMA TooFewUnits ==
  ASSUME NEW fp, FrameOK(fp), ~FlushPossible(fp), Received(fp) = Cardinality(fp.slots)
  PROVE  FlushResult(fp) = "FEC_FAILED"
<1>1. /\ fp.source \in Nat /\ fp.fec \in Nat /\ fp.sourceGot \in Nat /\ fp.fecGot \in Nat
      /\ Received(fp) = fp.sourceGot + fp.fecGot
  BY FrameFacts DEF Received
<1>2. Received(fp) < fp.source
  BY <1>1 DEF FlushPossible
<1>3. /\ IsFiniteSet(0 .. SlotsSize(fp) - 1)
      /\ Cardinality(0 .. SlotsSize(fp) - 1) = SlotsSize(fp)
  <2>1. 0 \in Int /\ SlotsSize(fp) - 1 \in Int /\ SlotsSize(fp) \in Nat
    BY FrameFacts
  <2>2. /\ IsFiniteSet(0 .. SlotsSize(fp) - 1)
        /\ Cardinality(0 .. SlotsSize(fp) - 1) =
             IF 0 > SlotsSize(fp) - 1 THEN 0 ELSE SlotsSize(fp) - 1 - 0 + 1
    BY <2>1, FS_Interval
  <2> QED
    BY <2>1, <2>2
<1>4. Cardinality(Erasures(fp)) = SlotsSize(fp) - Cardinality(fp.slots)
  <2>1. PICK S : S = 0 .. SlotsSize(fp) - 1
    OBVIOUS
  <2>2. S \cap fp.slots = fp.slots
    BY <2>1 DEF FrameOK
  <2>3. IsFiniteSet(S) /\ Cardinality(S) = SlotsSize(fp)
    BY <1>3, <2>1
  <2>4. Cardinality(S \ fp.slots) = Cardinality(S) - Cardinality(S \cap fp.slots)
    BY ONLY <2>3, FS_Difference
  <2>5. Erasures(fp) = S \ fp.slots
    BY ONLY <2>1 DEF Erasures
  <2>6. Cardinality(S \ fp.slots) = SlotsSize(fp) - Cardinality(fp.slots)
    BY ONLY <2>2, <2>3, <2>4
  <2> QED
    BY ONLY <2>5, <2>6
<1>5. ~Decodes(fp)
  <2>1. Cardinality(fp.slots) < fp.source /\ Cardinality(fp.slots) \in Nat
    BY <1>2, FrameFacts
  <2>2. SlotsSize(fp) - Cardinality(fp.slots) > fp.fec
    BY ONLY <1>1, <2>1 DEF SlotsSize
  <2>3. Cardinality(Erasures(fp)) > fp.fec /\ Cardinality(Erasures(fp)) \in Int
    <3>1. PICK k \in Int : k = SlotsSize(fp) - Cardinality(fp.slots)
      BY <2>1, FrameFacts
    <3> QED
      BY ONLY <1>4, <2>2, <3>1
  <2> QED
    BY ONLY <1>1, <2>3 DEF Decodes
<1> QED
  BY <1>1, <1>2, <1>5 DEF FlushResult
-----------------------------------------------------------------------------
(* The receiver of the video stream                                        *)

Receiver == [profiles : {0, Profiles}, profileCur : -1 .. Profiles - 1,
             cur : -1 .. M - 1, prev : -1 .. M - 1, complete : 0 .. M - 1,
             refs : [1 .. Refs -> -1 .. M - 1], fp : Frame,
             pos : {0} \cup Positions, holds : SUBSET Positions,
             shown : Seq(Pictures), reported : SUBSET Nat]

\* n is the position of the last picture the decoder took.
Newest(v, n) == /\ \A q \in Accepted(v) : q <= n
                /\ n # 0 => n \in Accepted(v)

\* The current frame was not handed to flush yet.
Open(v) == v.pos # 0 /\ v.prev # v.cur

Placed(v) ==
  /\ v.pos = 0 => v.cur = -1 /\ v.prev = -1 /\ v.fp.source = 0
  /\ v.pos # 0 => /\ v.cur = Idx(v.pos) /\ v.fp.source = Source[v.pos]
                  /\ SlotsSize(v.fp) >= Source[v.pos] + Fec[v.pos]

CompleteOK(v) == \E n \in 0 .. v.pos :
                   Newest(v, n) /\ v.complete = Idx(n) /\ v.pos - n < Half

ShownOK(v) ==
  /\ \A i \in 1 .. Len(v.shown) : /\ v.shown[i].pos <= v.pos
                                  /\ v.shown[i].header = ProfileOf[v.shown[i].pos]
  /\ \A i, j \in 1 .. Len(v.shown) : i < j => v.shown[i].pos < v.shown[j].pos

ReportsOK(v) == /\ v.reported \subseteq 1 .. v.pos
                /\ 1 .. v.pos - 1 \subseteq Accepted(v) \cup v.reported
                /\ v.reported \cap Accepted(v) = {}

\* The picture at i may need one that has the number of the one at j, which the
\* decoder took.
RefersTo(shown, i, j) ==
  /\ shown[j].ok /\ shown[j].pos <= shown[i].needs /\ shown[i].needs < shown[i].pos
  /\ Idx(shown[j].pos) = Idx(shown[i].needs)

\* The decoder took the pictures whose numbers it holds, and every picture it
\* may need is, as far as the number tells, one of those.
RefsOK(v) ==
  /\ \A i \in 1 .. Refs : v.refs[i] = -1 \/ \E a \in Accepted(v) : v.refs[i] = Idx(a)
  /\ \A i \in 1 .. Len(v.shown) : v.shown[i].needs # 0 =>
       \E j \in 1 .. i - 1 : RefersTo(v.shown, i, j)

OpenOK(v) == Open(v) => /\ \A i \in 1 .. Len(v.shown) : v.shown[i].pos < v.pos
                        /\ v.pos \notin v.reported
                        /\ Received(v.fp) = Cardinality(v.fp.slots)

ReceiverOK(v) == /\ v \in Receiver /\ FrameOK(v.fp) /\ Placed(v) /\ CompleteOK(v)
                 /\ ShownOK(v) /\ ReportsOK(v) /\ RefsOK(v) /\ OpenOK(v)
                 /\ v.holds \subseteq {v.pos}

LEMMA AcceptedIs ==
  ASSUME NEW shown \in Seq(Pictures)
  PROVE  \A x : x \in AcceptedIn(shown) <=>
                  \E i \in 1 .. Len(shown) : shown[i].ok /\ x = shown[i].pos
<1>1. DOMAIN shown = 1 .. Len(shown)
  OBVIOUS
<1> QED
  BY <1>1 DEF AcceptedIn

LEMMA PictureTypes ==
  ASSUME NEW shown \in Seq(Pictures), NEW i \in 1 .. Len(shown)
  PROVE  /\ shown[i] \in Pictures /\ shown[i].pos \in Positions /\ shown[i].pos \in Nat \ {0}
         /\ shown[i].header \in 0 .. Profiles - 1 /\ shown[i].needs \in Nat
         /\ shown[i].ok \in BOOLEAN
<1>1. shown[i] \in Pictures
  OBVIOUS
<1>2. /\ shown[i].pos \in Positions
      /\ shown[i].header \in 0 .. Profiles - 1 /\ shown[i].needs \in Nat
      /\ shown[i].ok \in BOOLEAN
  BY ONLY <1>1 DEF Pictures
<1> QED
  BY <1>1, <1>2, PositionFacts

\* One more picture.
LEMMA ShownAppend ==
  ASSUME NEW shown \in Seq(Pictures), NEW pic \in Pictures
  PROVE  LET new == Append(shown, pic)
         IN /\ new \in Seq(Pictures) /\ Len(new) = Len(shown) + 1 /\ Len(shown) \in Nat
            /\ \A i \in 1 .. Len(shown) : new[i] = shown[i]
            /\ new[Len(shown) + 1] = pic
            /\ \A x : x \in AcceptedIn(new) <=>
                        x \in AcceptedIn(shown) \/ (pic.ok /\ x = pic.pos)
<1> DEFINE new == Append(shown, pic)
<1>1. /\ new \in Seq(Pictures) /\ Len(new) = Len(shown) + 1 /\ Len(shown) \in Nat
      /\ \A i \in 1 .. Len(shown) : new[i] = shown[i]
      /\ new[Len(shown) + 1] = pic
  OBVIOUS
<1> HIDE DEF new
<1>2. ASSUME NEW x
      PROVE  x \in AcceptedIn(new) <=> x \in AcceptedIn(shown) \/ (pic.ok /\ x = pic.pos)
  <2>1. x \in AcceptedIn(new) <=> \E i \in 1 .. Len(new) : new[i].ok /\ x = new[i].pos
    BY ONLY <1>1, AcceptedIs
  <2>2. x \in AcceptedIn(shown) <=> \E i \in 1 .. Len(shown) : shown[i].ok /\ x = shown[i].pos
    BY ONLY AcceptedIs, shown \in Seq(Pictures)
  <2>3. \A i \in 1 .. Len(new) : i \in 1 .. Len(shown) \/ i = Len(shown) + 1
    BY ONLY <1>1
  <2>4. (\A i \in 1 .. Len(shown) : i \in 1 .. Len(new)) /\ Len(shown) + 1 \in 1 .. Len(new)
    BY ONLY <1>1
  <2> QED
    BY ONLY <1>1, <2>1, <2>2, <2>3, <2>4
<1> QED
  BY <1>1, <1>2 DEF new

LEMMA NewestIs ==
  ASSUME NEW v \in Receiver, NEW n \in Nat, Newest(v, n)
  PROVE  LastAccepted(v) = n
<1>1. v.shown \in Seq(Pictures)
  BY DEF Receiver
<1>2. \A q \in Accepted(v) : q \in Nat \ {0}
  BY <1>1, AcceptedIs, PictureTypes DEF Accepted
<1>3. CASE Accepted(v) = {}
  BY <1>3 DEF LastAccepted, Newest
<1>4. CASE Accepted(v) # {}
  <2>1. n # 0 /\ n \in Accepted(v) /\ \A q \in Accepted(v) : q <= n
    BY <1>2, <1>4 DEF Newest
  <2>2. \A p \in Accepted(v) : (\A q \in Accepted(v) : q <= p) => p = n
    BY <1>2, <2>1
  <2> QED
    BY <1>4, <2>1, <2>2 DEF LastAccepted
<1> QED
  BY <1>3, <1>4

LEMMA ReceiverFacts ==
  ASSUME NEW v, ReceiverOK(v)
  PROVE  /\ v \in Receiver /\ v.pos \in Nat /\ v.shown \in Seq(Pictures)
         /\ v.reported \in SUBSET Nat /\ Len(v.shown) \in Nat
         /\ \A q \in Accepted(v) : q \in Nat \ {0} /\ q <= v.pos
         /\ v.pos # 0 => v.pos \in Positions
<1>1. /\ v \in Receiver /\ v.shown \in Seq(Pictures) /\ v.pos \in {0} \cup Positions
      /\ v.reported \in SUBSET Nat
  BY DEF ReceiverOK, Receiver
<1>2. v.pos \in Nat
  BY <1>1, PositionFacts
<1>3. \A q \in Accepted(v) : q \in Nat \ {0} /\ q <= v.pos
  <2>1. \A q \in Accepted(v) : \E i \in 1 .. Len(v.shown) : q = v.shown[i].pos
    BY ONLY <1>1, AcceptedIs DEF Accepted
  <2>2. \A i \in 1 .. Len(v.shown) : v.shown[i].pos <= v.pos
    BY DEF ReceiverOK, ShownOK
  <2>3. \A i \in 1 .. Len(v.shown) : v.shown[i].pos \in Nat \ {0}
    BY ONLY <1>1, PictureTypes
  <2> QED
    BY ONLY <2>1, <2>2, <2>3
<1> QED
  BY <1>1, <1>2, <1>3

WithReports(v, R) == [v EXCEPT !.reported = R]

\* What a corrupt-frame message adds, in positions.
LEMMA ReportIs ==
  ASSUME NEW v \in Receiver, NEW n \in Nat, v.complete = Idx(n),
         NEW p \in Nat, NEW to \in {p - 1, p}, n < p, p - n <= Half
  PROVE  \E R \in SUBSET Nat :
            /\ R = v.reported \cup (n + 1 .. to)
            /\ Report(v, SeqAdd(M, v.complete, 1), Idx(to), p) = WithReports(v, R)
<1>1. SeqAdd(M, v.complete, 1) = Idx(n + 1)
  BY IdxAdd DEF SeqAdd
<1>2. PICK m \in Int : m = n + 1
  OBVIOUS
<1>3. {q \in p - Half + 1 .. p + Half - 1 :
         SeqGe(M, Idx(q), Idx(m)) /\ SeqLe(M, Idx(q), Idx(to))} = m .. to
  <2>1. p \in Int /\ m <= p /\ p - m < Half
    BY <1>2, SizeFacts
  <2> QED
    BY ONLY <2>1, ReportedFrames, to \in {p - 1, p}, m \in Int
<1>4. PICK R \in SUBSET Nat : R = v.reported \cup (n + 1 .. to)
  <2>1. v.reported \cup (n + 1 .. to) \in SUBSET Nat
    BY DEF Receiver
  <2> QED
    BY ONLY <2>1
<1>5. Report(v, SeqAdd(M, v.complete, 1), Idx(to), p) = WithReports(v, R)
  BY ONLY <1>1, <1>2, <1>3, <1>4 DEF Report, WithReports
<1> QED
  BY ONLY <1>4, <1>5

\* The receiver went on from v to w, and the frame of v is settled.
Settled(v, w) == /\ ReceiverOK(w) /\ w.prev = w.cur /\ w.cur = v.cur /\ w.pos = v.pos
                 /\ w.profiles = v.profiles /\ w.profileCur = v.profileCur
                 /\ Received(w.fp) = Received(v.fp)

\* A frame that cannot be put together is reported with all before it.
LEMMA LostFrame ==
  ASSUME NEW v, ReceiverOK(v), Open(v), FlushResult(v.fp) = "FEC_FAILED",
         NEW w \in FlushFrame(v)
  PROVE  Settled(v, w) /\ w.shown = v.shown
<1>1. PICK n \in 0 .. v.pos : Newest(v, n) /\ v.complete = Idx(n) /\ v.pos - n < Half
  BY DEF ReceiverOK, CompleteOK
<1>2. v \in Receiver /\ v.pos \in Positions /\ v.pos \in Nat \ {0} /\ n \in Nat
  BY ReceiverFacts, <1>1 DEF Open
<1>3. v.cur = Idx(v.pos)
  BY <1>2 DEF ReceiverOK, Placed
<1>4. v.shown \in Seq(Pictures)
  BY ReceiverFacts
\* The frame is not among those the decoder took.
<1>5. \A q \in Accepted(v) : q < v.pos
  <2>1. \A q \in Accepted(v) : \E i \in 1 .. Len(v.shown) : q = v.shown[i].pos
    BY ONLY <1>4, AcceptedIs DEF Accepted
  <2>2. \A i \in 1 .. Len(v.shown) : v.shown[i].pos < v.pos
    BY DEF ReceiverOK, OpenOK
  <2> QED
    BY ONLY <2>1, <2>2
<1>6. n < v.pos
  BY <1>1, <1>2, <1>5 DEF Newest
<1>7. PICK R \in SUBSET Nat :
        /\ R = v.reported \cup (n + 1 .. v.pos)
        /\ Report(v, SeqAdd(M, v.complete, 1), Idx(v.pos), v.pos) = WithReports(v, R)
  <2>1. PICK p \in Nat : p = v.pos
    BY <1>2
  <2>2. n < p /\ p - n <= Half /\ v.complete = Idx(n)
    BY <1>1, <1>2, <1>6, <2>1, SizeFacts
  <2>3. PICK to \in {p - 1, p} : to = p
    OBVIOUS
  <2>4. \E R \in SUBSET Nat :
          /\ R = v.reported \cup (n + 1 .. to)
          /\ Report(v, SeqAdd(M, v.complete, 1), Idx(to), p) = WithReports(v, R)
    BY <1>2, <2>2, ReportIs
  <2> QED
    BY ONLY <2>1, <2>3, <2>4
<1>8. w = [v EXCEPT !.reported = R, !.prev = v.cur]
  <2>1. FlushFrame(v) = {Finished(Report(v, SeqAdd(M, v.complete, 1), Idx(v.pos), v.pos))}
    BY <1>3 DEF FlushFrame
  <2> QED
    BY <1>2, <1>7, <2>1 DEF Finished, Receiver, WithReports
<1>9. /\ w \in Receiver /\ w.reported = R /\ w.prev = v.cur /\ w.cur = v.cur
      /\ w.pos = v.pos /\ w.profiles = v.profiles /\ w.profileCur = v.profileCur
      /\ w.fp = v.fp /\ w.complete = v.complete /\ w.refs = v.refs
      /\ w.shown = v.shown /\ w.holds = v.holds
  BY <1>2, <1>7, <1>8 DEF Receiver
<1>10. Accepted(w) = Accepted(v)
  BY <1>9 DEF Accepted
<1>11. FrameOK(w.fp) /\ Placed(w) /\ CompleteOK(w) /\ ShownOK(w) /\ RefsOK(w)
  <2>1. FrameOK(w.fp)
    BY <1>9 DEF ReceiverOK
  <2>2. Placed(w)
    BY <1>2, <1>9 DEF ReceiverOK, Placed
  <2>3. CompleteOK(w)
    BY <1>1, <1>9, <1>10 DEF CompleteOK, Newest
  <2>4. ShownOK(w)
    BY <1>9 DEF ReceiverOK, ShownOK
  <2>5. RefsOK(w)
    BY <1>9, <1>10 DEF ReceiverOK, RefsOK
  <2> QED
    BY <2>1, <2>2, <2>3, <2>4, <2>5
<1>12. ReportsOK(w)
  <2>1. /\ v.reported \subseteq 1 .. v.pos /\ v.reported \cap Accepted(v) = {}
        /\ 1 .. v.pos - 1 \subseteq Accepted(v) \cup v.reported
    BY DEF ReceiverOK, ReportsOK
  <2>2. \A q \in Accepted(v) : q \notin n + 1 .. v.pos
    BY <1>1, <1>2, ReceiverFacts DEF Newest
  <2>3. R \subseteq 1 .. v.pos
    BY <1>2, <1>7, <2>1
  <2>4. R \cap Accepted(v) = {} /\ 1 .. v.pos - 1 \subseteq Accepted(v) \cup R
    BY ONLY <1>7, <2>1, <2>2
  <2> QED
    BY <1>9, <1>10, <2>3, <2>4 DEF ReportsOK
<1>13. OpenOK(w) /\ w.holds \subseteq {w.pos}
  BY <1>9 DEF ReceiverOK, OpenOK, Open
<1> QED
  BY <1>9, <1>11, <1>12, <1>13 DEF Settled, ReceiverOK

\* A reference frame falls out, or an empty place is taken.
LEMMA AddRefOK ==
  ASSUME NEW refs \in [1 .. Refs -> -1 .. M - 1], NEW frame \in 0 .. M - 1
  PROVE  /\ AddRef(refs, frame) \in [1 .. Refs -> -1 .. M - 1]
         /\ \A i \in 1 .. Refs : \/ AddRef(refs, frame)[i] = frame
                                 \/ \E j \in 1 .. Refs : AddRef(refs, frame)[i] = refs[j]
<1>1. frame \in -1 .. M - 1 /\ Refs \in Nat \ {0}
  BY SizeFacts
<1>2. CASE refs[1] # -1
  <2> DEFINE new == [i \in 1 .. Refs |-> IF i = 1 THEN frame ELSE refs[i - 1]]
  <2>1. AddRef(refs, frame) = new
    BY <1>2 DEF AddRef
  <2>2. \A i \in 1 .. Refs : i # 1 => i - 1 \in 1 .. Refs
    BY <1>1
  <2>3. \A i \in 1 .. Refs : \/ new[i] = frame
                             \/ i - 1 \in 1 .. Refs /\ new[i] = refs[i - 1]
    BY <2>2
  <2>4. new \in [1 .. Refs -> -1 .. M - 1]
    BY <1>1, <2>2
  <2> QED
    BY <2>1, <2>3, <2>4
<1>3. CASE refs[1] = -1
  <2> DEFINE last == CHOOSE i \in 1 .. Refs : refs[i] = -1 /\ \A j \in i + 1 .. Refs : refs[j] # -1
  <2>1. AddRef(refs, frame) = [refs EXCEPT ![last] = frame]
    BY <1>3 DEF AddRef
  <2> HIDE DEF last
  <2>2. [refs EXCEPT ![last] = frame] \in [1 .. Refs -> -1 .. M - 1]
    BY <1>1
  <2>3. \A i \in 1 .. Refs : \/ [refs EXCEPT ![last] = frame][i] = frame
                             \/ [refs EXCEPT ![last] = frame][i] = refs[i]
    OBVIOUS
  <2> QED
    BY <2>1, <2>2, <2>3
<1> QED
  BY <1>2, <1>3

\* A reference that is held is, by its number, a picture the decoder took.
LEMMA NeedsOK ==
  ASSUME NEW v, ReceiverOK(v), Open(v), v.pos # 0, NEW d \in Distances(v)
  PROVE  /\ v.pos - d - 1 \in Nat \ {0} /\ v.pos - d - 1 < v.pos
         /\ \E a \in Accepted(v) : a <= v.pos - d - 1 /\ Idx(a) = Idx(v.pos - d - 1)
<1>1. /\ v \in Receiver /\ v.pos \in Nat /\ v.cur = Idx(v.pos)
      /\ \A q \in Accepted(v) : q \in Nat \ {0}
  BY ReceiverFacts DEF ReceiverOK, Placed
<1>a. \A q \in Accepted(v) : q < v.pos
  <2>1. PICK shown \in Seq(Pictures) : shown = v.shown
    BY <1>1 DEF Receiver
  <2>2. \A i \in 1 .. Len(shown) : shown[i].pos < v.pos
    BY <2>1 DEF ReceiverOK, OpenOK
  <2>3. Accepted(v) = AcceptedIn(shown)
    BY <2>1 DEF Accepted
  <2> QED
    BY <2>2, <2>3, AcceptedIs
<1>2. d \in 0 .. M - 1 /\ HaveRef(v, RefAt(v, d))
  BY DEF Distances
<1>3. PICK q \in Int : q = v.pos - d - 1
  BY <1>1, <1>2, SizeFacts
<1>4. RefAt(v, d) = Idx(q) /\ Idx(q) \in 0 .. M - 1
  <2>1. PICK e \in Int : e = 0 - d - 1
    BY <1>2, SizeFacts
  <2>2. (Idx(v.pos) + e) % M = Idx(v.pos + e)
    <3>1. PICK a \in Int : a = v.pos
      BY <1>1
    <3>2. (Idx(a) + e) % M = Idx(a + e)
      BY ONLY IdxAdd, a \in Int, e \in Int
    <3> QED
      BY ONLY <3>1, <3>2
  <2>3. Idx(v.pos) + e = v.cur - d - 1
    <3>1. Idx(v.pos) \in Int
      BY <1>1, IdxType
    <3> QED
      BY <1>1, <1>2, <2>1, <3>1, SizeFacts
  <2>4. v.pos + e = q
    BY <1>1, <1>2, <1>3, <2>1, SizeFacts
  <2> QED
    BY <1>3, <2>2, <2>3, <2>4, IdxType DEF RefAt
<1>5. PICK i \in 1 .. Refs : v.refs[i] = Idx(q)
  BY <1>2, <1>4 DEF HaveRef
<1>6. PICK a \in Accepted(v) : Idx(a) = Idx(q)
  <2>1. v.refs[i] # -1
    BY <1>4, <1>5
  <2> QED
    BY <1>5, <2>1 DEF ReceiverOK, RefsOK
<1>7. a <= q
  <2>1. a \in Nat \ {0} /\ a < v.pos
    BY <1>1, <1>a
  <2>2. a - q < M
    BY <1>1, <1>2, <1>3, <2>1, SizeFacts
  <2>3. q < a => q - a < M /\ a # q
    BY <2>1, SizeFacts
  <2>4. q < a => Idx(a) # Idx(q)
    BY <2>1, <2>2, <2>3, IdxDistinct
  <2> QED
    BY <1>6, <2>1, <2>4
<1>8. q \in Nat \ {0} /\ q < v.pos
  BY <1>1, <1>2, <1>3, <1>7, SizeFacts
<1> QED
  BY <1>3, <1>6, <1>7, <1>8

\* What a picture may need: nothing, or a picture the decoder took.
Needed(v, k) == /\ k \in Nat
                /\ k # 0 => \E a \in Accepted(v) : a <= k /\ k < v.pos /\ Idx(a) = Idx(k)

\* The outcomes of putting a frame together, field by field.
SameFrame(v, w) ==
  /\ w \in Receiver /\ w.prev = v.cur /\ w.cur = v.cur
  /\ w.pos = v.pos /\ w.profiles = v.profiles /\ w.profileCur = v.profileCur
  /\ w.fp = Flushed(v.fp) /\ w.reported = v.reported /\ w.holds = v.holds

Picture(v, k, b) == [pos |-> v.pos, header |-> v.profileCur, needs |-> k, ok |-> b]

TookNothing(v, w) ==
  w.complete = v.complete /\ w.refs = v.refs /\ w.shown = v.shown

Refused(v, w, k) == /\ w.complete = v.complete /\ w.refs = v.refs
                    /\ w.shown = Append(v.shown, Picture(v, k, FALSE))

TookPicture(v, w, k) == /\ w.complete = v.cur /\ w.refs = AddRef(v.refs, v.cur)
                        /\ w.shown = Append(v.shown, Picture(v, k, TRUE))

LEMMA PictureType ==
  ASSUME NEW v \in Receiver, v.pos \in Positions, v.profileCur = ProfileOf[v.pos],
         NEW k \in Nat, NEW b \in BOOLEAN
  PROVE  Picture(v, k, b) \in Pictures
<1>1. v.profileCur \in 0 .. Profiles - 1
  BY PositionFacts, SizeFacts DEF Receiver
<1> QED
  BY <1>1 DEF Picture, Pictures

LEMMA HandOverFields ==
  ASSUME NEW v \in Receiver, FrameOK(v.fp), v.pos \in Positions, v.cur \in 0 .. M - 1,
         v.profileCur = ProfileOf[v.pos], NEW k \in Nat,
         NEW done, done = [v EXCEPT !.fp = Flushed(v.fp)]
  PROVE  /\ SameFrame(v, Finished(done)) /\ TookNothing(v, Finished(done))
         /\ \A w \in HandOver(done, k) :
              SameFrame(v, w) /\ (Refused(v, w, k) \/ TookPicture(v, w, k))
<1>1. Flushed(v.fp) \in Frame
  BY FlushedOK DEF FrameOK
<1>2. PICK fp \in Frame : fp = Flushed(v.fp)
  BY <1>1
<1>3. /\ done \in Receiver /\ done.cur = v.cur /\ done.prev = v.prev /\ done.fp = fp
      /\ done.pos = v.pos /\ done.profiles = v.profiles /\ done.profileCur = v.profileCur
      /\ done.reported = v.reported /\ done.holds = v.holds
      /\ done.complete = v.complete /\ done.refs = v.refs /\ done.shown = v.shown
  BY <1>2 DEF Receiver
<1>4. v.cur \in -1 .. M - 1
  BY DEF Receiver
<1>5. SameFrame(v, Finished(done)) /\ TookNothing(v, Finished(done))
  <2> DEFINE w == Finished(done)
  <2>1. w = [done EXCEPT !.prev = v.cur]
    BY <1>3 DEF Finished
  <2>2. /\ w \in Receiver /\ w.prev = v.cur /\ w.cur = done.cur /\ w.pos = done.pos
        /\ w.profiles = done.profiles /\ w.profileCur = done.profileCur
        /\ w.fp = done.fp /\ w.reported = done.reported /\ w.holds = done.holds
        /\ w.complete = done.complete /\ w.refs = done.refs /\ w.shown = done.shown
    BY ONLY <1>3, <1>4, <2>1 DEF Receiver
  <2> QED
    BY ONLY <1>2, <1>3, <2>2 DEF SameFrame, TookNothing
<1>6. PICK no \in Seq(Pictures) : no = Append(v.shown, Picture(v, k, FALSE))
  BY PictureType, ShownAppend DEF Receiver
<1>7. PICK yes \in Seq(Pictures) : yes = Append(v.shown, Picture(v, k, TRUE))
  BY PictureType, ShownAppend DEF Receiver
<1>8. PICK refs \in [1 .. Refs -> -1 .. M - 1] : refs = AddRef(v.refs, v.cur)
  BY AddRefOK DEF Receiver
<1>9. ASSUME NEW w, w = [done EXCEPT !.prev = v.cur, !.shown = no]
      PROVE  SameFrame(v, w) /\ Refused(v, w, k)
  <2>1. /\ w \in Receiver /\ w.prev = v.cur /\ w.cur = done.cur /\ w.pos = done.pos
        /\ w.profiles = done.profiles /\ w.profileCur = done.profileCur
        /\ w.fp = done.fp /\ w.reported = done.reported /\ w.holds = done.holds
        /\ w.complete = done.complete /\ w.refs = done.refs /\ w.shown = no
    BY ONLY <1>3, <1>4, <1>9, no \in Seq(Pictures) DEF Receiver
  <2> QED
    BY ONLY <1>2, <1>3, <1>6, <2>1 DEF SameFrame, Refused
<1>10. ASSUME NEW w, w = [done EXCEPT !.prev = v.cur, !.complete = v.cur,
                                      !.refs = refs, !.shown = yes]
       PROVE  SameFrame(v, w) /\ TookPicture(v, w, k)
  <2>1. /\ w \in Receiver /\ w.prev = v.cur /\ w.cur = done.cur /\ w.pos = done.pos
        /\ w.profiles = done.profiles /\ w.profileCur = done.profileCur
        /\ w.fp = done.fp /\ w.reported = done.reported /\ w.holds = done.holds
        /\ w.complete = v.cur /\ w.refs = refs /\ w.shown = yes
    BY ONLY <1>3, <1>4, <1>10, v.cur \in 0 .. M - 1, yes \in Seq(Pictures),
            refs \in [1 .. Refs -> -1 .. M - 1] DEF Receiver
  <2> QED
    BY ONLY <1>2, <1>3, <1>7, <1>8, <2>1 DEF SameFrame, TookPicture
<1>11. ASSUME NEW w \in HandOver(done, k)
       PROVE  SameFrame(v, w) /\ (Refused(v, w, k) \/ TookPicture(v, w, k))
  <2>1. \/ w = [Finished(done) EXCEPT !.complete = done.cur, !.refs = AddRef(done.refs, done.cur),
                            !.shown = Append(done.shown, Picture(done, k, TRUE))]
        \/ w = [Finished(done) EXCEPT !.shown = Append(done.shown, Picture(done, k, FALSE))]
    <3>1. Finished(done).refs = done.refs /\ Finished(done).shown = done.shown
      BY ONLY <1>3, <1>5 DEF TookNothing
    <3> QED
      BY ONLY <3>1, w \in HandOver(done, k) DEF HandOver, Picture
  <2>2. Picture(done, k, TRUE) = Picture(v, k, TRUE) /\ Picture(done, k, FALSE) = Picture(v, k, FALSE)
    BY ONLY <1>3 DEF Picture
  <2>3. \/ w = [Finished(done) EXCEPT !.complete = v.cur, !.refs = refs, !.shown = yes]
        \/ w = [Finished(done) EXCEPT !.shown = no]
    BY ONLY <1>3, <1>6, <1>7, <1>8, <2>1, <2>2
  <2>4. \/ w = [done EXCEPT !.prev = v.cur, !.complete = v.cur, !.refs = refs, !.shown = yes]
        \/ w = [done EXCEPT !.prev = v.cur, !.shown = no]
    BY ONLY <1>3, <2>3 DEF Finished, Receiver
  <2> QED
    BY <1>9, <1>10, <2>4
<1> QED
  BY <1>5, <1>11

\* What holds of a receiver whose frame was put together, whatever the decoder
\* made of it.
LEMMA SameFrameKeeps ==
  ASSUME NEW v, ReceiverOK(v), Open(v), NEW w, SameFrame(v, w)
  PROVE  /\ v.cur = Idx(v.pos) /\ v.cur \in 0 .. M - 1
         /\ w.prev = w.cur /\ FrameOK(w.fp) /\ Placed(w) /\ OpenOK(w)
         /\ w.holds \subseteq {w.pos} /\ Received(w.fp) = Received(v.fp)
<1>1. v.pos # 0 /\ v.pos \in Positions /\ v.pos \in Nat
  BY ReceiverFacts DEF Open
<1>2. v.cur = Idx(v.pos) /\ v.cur \in 0 .. M - 1
  BY <1>1, IdxType DEF ReceiverOK, Placed
<1>3. /\ FrameOK(w.fp) /\ Received(w.fp) = Received(v.fp)
      /\ w.fp.source = v.fp.source /\ SlotsSize(w.fp) = SlotsSize(v.fp)
  BY FlushedOK DEF ReceiverOK, SameFrame
<1>4. w.prev = w.cur /\ w.cur = v.cur /\ w.pos = v.pos /\ w.holds = v.holds
  BY DEF SameFrame
<1>5. Placed(w)
  BY <1>1, <1>2, <1>3, <1>4 DEF ReceiverOK, Placed
<1>6. OpenOK(w)
  BY <1>4 DEF OpenOK, Open
<1> QED
  BY <1>2, <1>3, <1>4, <1>5, <1>6 DEF ReceiverOK

\* Nothing new was handed over.
LEMMA NothingTaken ==
  ASSUME NEW v, ReceiverOK(v), Open(v), NEW w, SameFrame(v, w), TookNothing(v, w)
  PROVE  Settled(v, w)
<1>1. /\ w.complete = v.complete /\ w.refs = v.refs /\ w.shown = v.shown
      /\ w.pos = v.pos /\ w.reported = v.reported /\ Accepted(w) = Accepted(v)
      /\ w \in Receiver
  BY DEF SameFrame, TookNothing, Accepted
<1>2. CompleteOK(w) /\ ShownOK(w) /\ ReportsOK(w) /\ RefsOK(w)
  BY <1>1 DEF ReceiverOK, CompleteOK, ShownOK, ReportsOK, RefsOK, Newest
<1> QED
  BY <1>1, <1>2, SameFrameKeeps DEF Settled, ReceiverOK, SameFrame

\* One more picture was handed over: it is after all before it, and what it
\* may need was taken before.
OneMore(v, pic, w) ==
  /\ ShownOK(w)
  /\ \A x : x \in Accepted(w) <=> x \in Accepted(v) \/ (pic.ok /\ x = v.pos)
  /\ \A i \in 1 .. Len(w.shown) : w.shown[i].needs # 0 =>
       \E j \in 1 .. i - 1 : RefersTo(w.shown, i, j)

LEMMA PictureKeeps ==
  ASSUME NEW v, ReceiverOK(v), Open(v), v.profileCur = ProfileOf[v.pos],
         NEW k, Needed(v, k), NEW pic \in {Picture(v, k, TRUE), Picture(v, k, FALSE)},
         NEW w, w.shown = Append(v.shown, pic), w.pos = v.pos
  PROVE  OneMore(v, pic, w)
<1> DEFINE n == Len(v.shown)
<1>1. /\ v \in Receiver /\ v.shown \in Seq(Pictures) /\ v.pos \in Positions
      /\ v.pos \in Nat /\ k \in Nat
  BY ReceiverFacts DEF Open, Needed
<1>2. /\ pic.pos = v.pos /\ pic.header = ProfileOf[v.pos] /\ pic.needs = k
  BY DEF Picture
<1>3. pic \in Pictures
  BY <1>1, PictureType
<1>4. /\ Len(w.shown) = n + 1 /\ n \in Nat
      /\ \A i \in 1 .. n : w.shown[i] = v.shown[i]
      /\ w.shown[n + 1] = pic
      /\ \A x : x \in AcceptedIn(w.shown) <=> x \in AcceptedIn(v.shown) \/ (pic.ok /\ x = pic.pos)
  BY ONLY <1>1, <1>3, w.shown = Append(v.shown, pic), ShownAppend
<1> HIDE DEF n
<1>5. \A i \in 1 .. Len(w.shown) : i \in 1 .. n \/ i = n + 1
  BY ONLY <1>4
<1>6. /\ \A i \in 1 .. n : /\ v.shown[i].pos < v.pos
                           /\ v.shown[i].header = ProfileOf[v.shown[i].pos]
      /\ \A i, j \in 1 .. n : i < j => v.shown[i].pos < v.shown[j].pos
  BY DEF ReceiverOK, OpenOK, ShownOK, n
<1>7. \A i \in 1 .. n : v.shown[i].pos \in Nat
  BY <1>1, PictureTypes DEF n
<1>8. ShownOK(w)
  <2>1. \A i \in 1 .. Len(w.shown) : /\ w.shown[i].pos <= w.pos
                                     /\ w.shown[i].header = ProfileOf[w.shown[i].pos]
    <3> SUFFICES ASSUME NEW i \in 1 .. Len(w.shown)
                 PROVE  /\ w.shown[i].pos <= v.pos
                        /\ w.shown[i].header = ProfileOf[w.shown[i].pos]
      OBVIOUS
    <3>1. CASE i \in 1 .. n
      BY ONLY <1>1, <1>4, <1>6, <1>7, <3>1
    <3>2. CASE i = n + 1
      BY ONLY <1>1, <1>2, <1>4, <3>2
    <3> QED
      BY ONLY <1>5, <3>1, <3>2, i \in 1 .. Len(w.shown)
  <2>2. \A i, j \in 1 .. Len(w.shown) : i < j => w.shown[i].pos < w.shown[j].pos
    <3> SUFFICES ASSUME NEW i \in 1 .. Len(w.shown), NEW j \in 1 .. Len(w.shown), i < j
                 PROVE  w.shown[i].pos < w.shown[j].pos
      OBVIOUS
    <3>1. i \in 1 .. n
      BY ONLY <1>4, i \in 1 .. Len(w.shown), j \in 1 .. Len(w.shown), i < j
    <3>2. CASE j \in 1 .. n
      BY ONLY <1>4, <1>6, <3>1, <3>2, i < j
    <3>3. CASE j = n + 1
      BY ONLY <1>1, <1>2, <1>4, <1>6, <3>1, <3>3
    <3> QED
      BY ONLY <1>5, <3>2, <3>3, j \in 1 .. Len(w.shown)
  <2> QED
    BY ONLY <2>1, <2>2 DEF ShownOK
<1>9. \A i \in 1 .. Len(w.shown) : w.shown[i].needs # 0 =>
        \E j \in 1 .. i - 1 : RefersTo(w.shown, i, j)
  <2> SUFFICES ASSUME NEW i \in 1 .. Len(w.shown), w.shown[i].needs # 0
               PROVE  \E j \in 1 .. i - 1 : RefersTo(w.shown, i, j)
    OBVIOUS
  <2>1. CASE i \in 1 .. n
    <3>1. PICK j \in 1 .. i - 1 : RefersTo(v.shown, i, j)
      BY <1>4, <2>1 DEF ReceiverOK, RefsOK, n
    <3>2. j \in 1 .. n
      BY ONLY <1>4, <2>1, j \in 1 .. i - 1
    <3> QED
      BY ONLY <1>4, <2>1, <3>1, <3>2 DEF RefersTo
  <2>2. CASE i = n + 1
    <3>1. w.shown[i].needs = k /\ k # 0 /\ w.shown[i].pos = v.pos
      BY <1>2, <1>4, <2>2
    <3>2. PICK a \in Accepted(v) : a <= k /\ k < v.pos /\ Idx(a) = Idx(k)
      BY <3>1 DEF Needed
    <3>3. PICK j \in 1 .. n : v.shown[j].ok /\ a = v.shown[j].pos
      BY ONLY <1>1, AcceptedIs, a \in Accepted(v) DEF Accepted, n
    <3>4. j \in 1 .. i - 1
      BY ONLY <1>4, <2>2, j \in 1 .. n
    <3> QED
      BY ONLY <1>4, <3>1, <3>2, <3>3, <3>4 DEF RefersTo
  <2> QED
    BY ONLY <1>5, <2>1, <2>2, i \in 1 .. Len(w.shown)
<1> QED
  BY ONLY <1>2, <1>4, <1>8, <1>9 DEF Accepted, OneMore

LEMMA RefusedPicture ==
  ASSUME NEW v, ReceiverOK(v), Open(v), v.profileCur = ProfileOf[v.pos],
         NEW k, Needed(v, k), NEW w, SameFrame(v, w), Refused(v, w, k)
  PROVE  Settled(v, w)
<1>1. /\ w.complete = v.complete /\ w.refs = v.refs /\ w.pos = v.pos
      /\ w.reported = v.reported /\ w \in Receiver
      /\ w.shown = Append(v.shown, Picture(v, k, FALSE))
  BY DEF SameFrame, Refused
<1>2. PICK pic \in {Picture(v, k, TRUE), Picture(v, k, FALSE)} : pic = Picture(v, k, FALSE)
  OBVIOUS
<1>3. OneMore(v, pic, w)
  BY <1>1, <1>2, PictureKeeps
<1>4. Accepted(w) = Accepted(v)
  BY ONLY <1>2, <1>3 DEF Picture, OneMore
<1>5. CompleteOK(w) /\ ReportsOK(w) /\ RefsOK(w)
  BY <1>1, <1>3, <1>4 DEF ReceiverOK, CompleteOK, ReportsOK, RefsOK, Newest, OneMore
<1> QED
  BY <1>1, <1>3, <1>5, SameFrameKeeps DEF Settled, ReceiverOK, SameFrame, OneMore

LEMMA TakenPicture ==
  ASSUME NEW v, ReceiverOK(v), Open(v), v.profileCur = ProfileOf[v.pos],
         NEW k, Needed(v, k), NEW w, SameFrame(v, w), TookPicture(v, w, k)
  PROVE  Settled(v, w)
<1>1. /\ w.complete = v.cur /\ w.refs = AddRef(v.refs, v.cur) /\ w.pos = v.pos
      /\ w.reported = v.reported /\ w \in Receiver
      /\ w.shown = Append(v.shown, Picture(v, k, TRUE))
  BY DEF SameFrame, TookPicture
<1>2. PICK pic \in {Picture(v, k, TRUE), Picture(v, k, FALSE)} : pic = Picture(v, k, TRUE)
  OBVIOUS
<1>3. OneMore(v, pic, w)
  BY <1>1, <1>2, PictureKeeps
<1>4. Accepted(w) = Accepted(v) \cup {v.pos}
  BY ONLY <1>2, <1>3 DEF Picture, OneMore
<1>5. /\ v \in Receiver /\ v.pos \in Nat /\ v.pos # 0 /\ v.cur = Idx(v.pos) /\ v.cur \in 0 .. M - 1
      /\ \A q \in Accepted(v) : q <= v.pos
  BY ReceiverFacts, SameFrameKeeps DEF Open
<1>6. CompleteOK(w)
  <2>1. Newest(w, v.pos)
    BY <1>4, <1>5 DEF Newest
  <2>2. v.pos - v.pos < Half /\ v.pos \in 0 .. v.pos
    BY <1>5, SizeFacts
  <2> QED
    BY <1>1, <1>5, <2>1, <2>2 DEF CompleteOK
<1>7. ReportsOK(w)
  <2>1. v.pos \notin v.reported
    BY DEF ReceiverOK, OpenOK
  <2> QED
    BY <1>1, <1>4, <2>1 DEF ReceiverOK, ReportsOK
<1>8. RefsOK(w)
  <2>1. v.refs \in [1 .. Refs -> -1 .. M - 1]
    BY <1>5 DEF Receiver
  <2>2. \A i \in 1 .. Refs : \/ w.refs[i] = v.cur
                             \/ \E j \in 1 .. Refs : w.refs[i] = v.refs[j]
    <3>1. PICK refs \in [1 .. Refs -> -1 .. M - 1] : refs = v.refs
      BY <2>1
    <3>2. PICK frame \in 0 .. M - 1 : frame = v.cur
      BY <1>5
    <3>3. \A i \in 1 .. Refs : \/ AddRef(refs, frame)[i] = frame
                               \/ \E j \in 1 .. Refs : AddRef(refs, frame)[i] = refs[j]
      BY ONLY AddRefOK, refs \in [1 .. Refs -> -1 .. M - 1], frame \in 0 .. M - 1
    <3> QED
      BY ONLY <1>1, <3>1, <3>2, <3>3
  <2>3. \A j \in 1 .. Refs : v.refs[j] = -1 \/ \E a \in Accepted(v) : v.refs[j] = Idx(a)
    BY DEF ReceiverOK, RefsOK
  <2>4. \A i \in 1 .. Refs : w.refs[i] = -1 \/ \E a \in Accepted(w) : w.refs[i] = Idx(a)
    BY ONLY <1>4, <1>5, <2>2, <2>3
  <2> QED
    BY <1>3, <2>4 DEF RefsOK, OneMore
<1> QED
  BY <1>1, <1>3, <1>6, <1>7, <1>8, SameFrameKeeps DEF Settled, ReceiverOK, SameFrame, OneMore

\* A frame that is put together is handed over, or its picture refers to none
\* that is held.
LEMMA HandedFrame ==
  ASSUME NEW v, ReceiverOK(v), Open(v), v.profileCur = ProfileOf[v.pos],
         FlushResult(v.fp) \notin {"FAILED", "FEC_FAILED"}, NEW w \in FlushFrame(v)
  PROVE  Settled(v, w)
<1>1. PICK done : done = [v EXCEPT !.fp = Flushed(v.fp)]
  OBVIOUS
<1>2. \/ w \in HandOver(done, 0)
      \/ \E d \in Distances(v) : w \in HandOver(done, v.pos - d - 1)
      \/ w = Finished(done)
  <2>1. FlushFrame(v) = HandOver(done, 0)
                        \cup (UNION {HandOver(done, v.pos - d - 1) : d \in Distances(v)})
                        \cup (IF MayMissReference(v) THEN {Finished(done)} ELSE {})
    <3>1. FlushResult(v.fp) # "FAILED" /\ FlushResult(v.fp) # "FEC_FAILED"
      OBVIOUS
    <3> QED
      BY ONLY <1>1, <3>1 DEF FlushFrame
  <2> QED
    BY ONLY <2>1, w \in FlushFrame(v)
<1>3. /\ v \in Receiver /\ FrameOK(v.fp) /\ v.pos \in Positions /\ v.pos # 0
      /\ v.cur \in 0 .. M - 1
  BY ReceiverFacts, SameFrameKeeps, IdxType DEF ReceiverOK, Open, Placed
<1>4. ASSUME NEW k, Needed(v, k), w \in HandOver(done, k)
      PROVE  Settled(v, w)
  <2>1. k \in Nat
    BY <1>4 DEF Needed
  <2>2. SameFrame(v, w) /\ (Refused(v, w, k) \/ TookPicture(v, w, k))
    BY <1>1, <1>3, <1>4, <2>1, HandOverFields
  <2> QED
    BY <1>4, <2>2, RefusedPicture, TakenPicture
<1>5. CASE w \in HandOver(done, 0)
  <2>1. Needed(v, 0)
    BY DEF Needed
  <2> QED
    BY <1>4, <1>5, <2>1
<1>6. CASE \E d \in Distances(v) : w \in HandOver(done, v.pos - d - 1)
  <2>1. PICK d \in Distances(v) : w \in HandOver(done, v.pos - d - 1)
    BY <1>6
  <2>2. PICK k : k = v.pos - d - 1
    OBVIOUS
  <2>3. Needed(v, k)
    BY <1>3, <2>2, NeedsOK DEF Needed
  <2> QED
    BY <1>4, <2>1, <2>2, <2>3
<1>7. CASE w = Finished(done)
  <2>1. SameFrame(v, w) /\ TookNothing(v, w)
    <3>1. 0 \in Nat
      OBVIOUS
    <3> QED
      BY <1>1, <1>3, <1>7, <3>1, HandOverFields
  <2> QED
    BY <2>1, NothingTaken
<1> QED
  BY <1>2, <1>5, <1>6, <1>7

\* However a frame ends, the receiver keeps what it promises.
LEMMA FlushSettles ==
  ASSUME NEW v, ReceiverOK(v), Open(v), v.profileCur = ProfileOf[v.pos], NEW w \in FlushFrame(v)
  PROVE  Settled(v, w)
<1>1. FlushResult(v.fp) # "FAILED"
  <2>1. v.fp.source = Source[v.pos] /\ v.pos \in Positions
    BY ReceiverFacts DEF Open, ReceiverOK, Placed
  <2>2. v.fp.source # 0
    BY <2>1, PositionFacts
  <2> QED
    BY <2>2 DEF FlushResult
<1>2. CASE FlushResult(v.fp) = "FEC_FAILED"
  BY <1>2, LostFrame
<1>3. CASE FlushResult(v.fp) # "FEC_FAILED"
  <2>1. FlushResult(v.fp) \notin {"FAILED", "FEC_FAILED"}
    BY <1>1, <1>3
  <2> QED
    BY <2>1, HandedFrame
<1> QED
  BY <1>2, <1>3
-----------------------------------------------------------------------------
(* A packet of the video stream                                            *)

\* The receiver between two packets.
VideoInv(v) == /\ ReceiverOK(v)
               /\ Open(v) => ~FlushPossible(v.fp)
               /\ v.pos # 0 => v.profileCur = ProfileOf[v.pos]

WithProfile(v, h) == [v EXCEPT !.profileCur = h]

\* The header of the next profile goes out before the old frame is flushed:
\* nothing depends on it, as no picture is handed over then.
LEMMA WithProfileOK ==
  ASSUME NEW v, ReceiverOK(v), NEW h \in 0 .. Profiles - 1
  PROVE  LET s == WithProfile(v, h)
         IN /\ ReceiverOK(s) /\ s.profileCur = h /\ s.fp = v.fp /\ s.pos = v.pos
            /\ s.cur = v.cur /\ s.prev = v.prev /\ s.shown = v.shown /\ s.profiles = v.profiles
            /\ Open(s) <=> Open(v)
<1> DEFINE s == WithProfile(v, h)
<1>1. v \in Receiver /\ h \in -1 .. Profiles - 1
  BY SizeFacts DEF ReceiverOK
<1>2. /\ s \in Receiver /\ s.profileCur = h /\ s.fp = v.fp /\ s.pos = v.pos
      /\ s.cur = v.cur /\ s.prev = v.prev /\ s.shown = v.shown /\ s.profiles = v.profiles
      /\ s.complete = v.complete /\ s.refs = v.refs /\ s.holds = v.holds
      /\ s.reported = v.reported
  BY ONLY <1>1 DEF WithProfile, Receiver
<1> HIDE DEF s
<1>3. Accepted(s) = Accepted(v) /\ (Open(s) <=> Open(v))
  BY <1>2 DEF Accepted, Open
<1>4. Placed(s) /\ ReportsOK(s) /\ RefsOK(s) /\ OpenOK(s) /\ FrameOK(s.fp)
  BY <1>2, <1>3 DEF ReceiverOK, Placed, ReportsOK, RefsOK, OpenOK
<1>5. CompleteOK(s) /\ ShownOK(s) /\ s.holds \subseteq {s.pos}
  BY <1>2, <1>3 DEF ReceiverOK, CompleteOK, ShownOK, Newest
<1> QED
  BY <1>2, <1>3, <1>4, <1>5 DEF ReceiverOK, s

\* A new frame begins after the old one was given up.
GaveUp(v, w, p) == /\ ReceiverOK(w) /\ ~Open(w) /\ w.pos = v.pos /\ w.cur = v.cur
                   /\ w.shown = v.shown /\ w.profileCur = ProfileOf[p]

LEMMA FlushOldGivesUp ==
  ASSUME NEW v, VideoInv(v), NEW p \in Positions, ~BadProfile(v, p),
         NEW w \in FlushOld(SwitchProfile(v, p))
  PROVE  GaveUp(v, w, p)
<1>1. ProfileOf[p] \in 0 .. Profiles - 1
  <2>1. v \in Receiver /\ ProfileOf[p] \in Nat
    BY PositionFacts DEF VideoInv, ReceiverOK
  <2>2. v.profiles \in {0, Profiles} /\ v.profileCur \in -1 .. Profiles - 1
    BY <2>1 DEF Receiver
  <2>3. v.profileCur = ProfileOf[p] \/ ProfileOf[p] < v.profiles
    BY <2>1, <2>2, SizeFacts DEF BadProfile
  <2> QED
    BY <2>1, <2>2, <2>3, SizeFacts
<1>2. PICK h \in 0 .. Profiles - 1 : h = ProfileOf[p]
  BY <1>1
<1>3. PICK s : s = WithProfile(v, h)
  OBVIOUS
<1>4. /\ ReceiverOK(s) /\ s.profileCur = h /\ s.fp = v.fp /\ s.pos = v.pos
      /\ s.cur = v.cur /\ s.prev = v.prev /\ s.shown = v.shown
      /\ Open(s) <=> Open(v)
  BY <1>3, WithProfileOK DEF VideoInv
<1>5. w \in FlushOld(s)
  BY <1>2, <1>3 DEF SwitchProfile, WithProfile
<1>6. Open(s) <=> s.cur >= 0 /\ s.prev # s.cur
  <2>1. s.pos # 0 => s.cur = Idx(s.pos) /\ s.pos \in Int
    BY <1>4, ReceiverFacts DEF ReceiverOK, Placed
  <2>2. s.pos # 0 => s.cur >= 0
    BY <2>1, IdxType, SizeFacts
  <2>3. s.pos = 0 => s.cur = -1
    BY <1>4 DEF ReceiverOK, Placed
  <2> QED
    BY <2>2, <2>3 DEF Open
<1>7. CASE Open(s)
  <2>1. FlushResult(s.fp) = "FEC_FAILED"
    <3>1. ~FlushPossible(s.fp)
      BY <1>4, <1>7 DEF VideoInv
    <3>2. FrameOK(s.fp) /\ Received(s.fp) = Cardinality(s.fp.slots)
      BY <1>4, <1>7 DEF ReceiverOK, OpenOK
    <3> QED
      BY <3>1, <3>2, TooFewUnits
  <2>2. w \in FlushFrame(s)
    BY <1>5, <1>6, <1>7 DEF FlushOld
  <2>3. Settled(s, w) /\ w.shown = s.shown
    BY <1>4, <1>7, <2>1, <2>2, LostFrame
  <2>4. ReceiverOK(w) /\ w.prev = w.cur /\ w.cur = s.cur /\ w.pos = s.pos
        /\ w.profileCur = s.profileCur
    BY <2>3 DEF Settled
  <2> QED
    BY <1>2, <1>4, <2>3, <2>4 DEF GaveUp, Open
<1>8. CASE ~Open(s)
  <2>1. w = s
    BY <1>5, <1>6, <1>8 DEF FlushOld
  <2> QED
    BY <1>2, <1>4, <1>8, <2>1 DEF GaveUp
<1> QED
  BY <1>7, <1>8

\* All frames between the last picture and the new frame are reported.
LEMMA ReportGapIs ==
  ASSUME NEW w, ReceiverOK(w), NEW p \in Positions, w.pos < p,
         NEW n \in 0 .. w.pos, Newest(w, n), w.complete = Idx(n), p - n < Half
  PROVE  \E R \in SUBSET Nat : /\ R = w.reported \cup (n + 1 .. p - 1)
                               /\ ReportGap(w, p) = WithReports(w, R)
<1>1. w \in Receiver /\ w.pos \in Nat /\ n \in Nat /\ p \in Nat \ {0} /\ n < p
  BY ReceiverFacts, PositionFacts
<1>2. SeqAdd(M, w.complete, 1) = Idx(n + 1) /\ (Idx(p) - 1) % M = Idx(p - 1)
  <2>1. PICK e \in Int : e = -1
    OBVIOUS
  <2>2. (Idx(p) + e) % M = Idx(p + e)
    BY <1>1, <2>1, IdxAdd
  <2>3. Idx(p) + e = Idx(p) - 1 /\ p + e = p - 1
    BY <1>1, <2>1, IdxType, SizeFacts
  <2> QED
    BY <1>1, <2>2, <2>3, IdxAdd DEF SeqAdd
<1>3. SeqGt(M, Idx(p), SeqAdd(M, w.complete, 1)) <=> p > n + 1
  <2>1. PICK m \in Int : m = n + 1
    BY <1>1
  <2>2. p - m < Half /\ m - p < Half /\ p \in Int
    BY <1>1, <2>1, SizeFacts
  <2> QED
    BY <1>2, <2>1, <2>2, Compare
<1>4. CASE SeqGt(M, Idx(p), SeqAdd(M, w.complete, 1)) /\ ~(Idx(p) = 1 /\ w.cur < 0)
  <2>1. ReportGap(w, p) = Report(w, SeqAdd(M, w.complete, 1), Idx(p - 1), p)
    BY <1>2, <1>4 DEF ReportGap
  <2>2. PICK to \in {p - 1, p} : to = p - 1
    OBVIOUS
  <2>3. \E R \in SUBSET Nat :
          /\ R = w.reported \cup (n + 1 .. to)
          /\ Report(w, SeqAdd(M, w.complete, 1), Idx(to), p) = WithReports(w, R)
    BY <1>1, SizeFacts, ReportIs
  <2> QED
    BY <2>1, <2>2, <2>3
<1>5. CASE ~(SeqGt(M, Idx(p), SeqAdd(M, w.complete, 1)) /\ ~(Idx(p) = 1 /\ w.cur < 0))
  <2>1. p = n + 1
    <3>1. CASE Idx(p) = 1 /\ w.cur < 0
      <4>1. w.pos = 0
        <5>1. w.pos # 0 => w.cur = Idx(w.pos)
          BY DEF ReceiverOK, Placed
        <5> QED
          BY <1>1, <3>1, <5>1, IdxType, SizeFacts
      <4>2. n = 0 /\ p \in 0 .. M - 1
        BY <1>1, <4>1, SizeFacts
      <4>3. Idx(p) = p
        BY <4>2, ModSmall, SizeFacts DEF Idx
      <4> QED
        BY <3>1, <4>2, <4>3
    <3>2. CASE ~SeqGt(M, Idx(p), SeqAdd(M, w.complete, 1))
      BY <1>1, <1>3, <3>2
    <3> QED
      BY <1>5, <3>1, <3>2
  <2>2. ReportGap(w, p) = w
    BY <1>5 DEF ReportGap
  <2>3. n + 1 .. p - 1 = {}
    BY <1>1, <2>1
  <2>4. PICK R \in SUBSET Nat : R = w.reported
    BY <1>1 DEF Receiver
  <2>5. WithReports(w, R) = w
    BY <1>1, <2>4 DEF WithReports, Receiver
  <2>6. R = w.reported \cup (n + 1 .. p - 1)
    BY <2>3, <2>4
  <2> QED
    BY <2>2, <2>5, <2>6
<1> QED
  BY <1>4, <1>5

NewFrameOf(g, p, fp) == [g EXCEPT !.cur = Idx(p), !.fp = fp, !.pos = p, !.holds = {}]

\* The receiver is ready for the units of the frame at p.
Ready(v, b, p) == /\ VideoInv(b) /\ b.pos = p
                  /\ Received(b.fp) = (IF NewFrame(v, p) THEN 0 ELSE Received(v.fp))
                  /\ NewFrame(v, p) => b.cur # v.cur /\ b.fp.slots = {}
                  /\ ~NewFrame(v, p) => b.cur = v.cur /\ b.fp = v.fp

LEMMA FrameBegins ==
  ASSUME NEW v, VideoInv(v), NEW p \in Positions, ~BadProfile(v, p), NewFrame(v, p),
         Near(p, v.pos), Near(p, LastAccepted(v)),
         NEW b \in BeginFrame(SwitchProfile(v, p), p)
  PROVE  Ready(v, b, p)
<1>1. PICK w \in FlushOld(SwitchProfile(v, p)) :
        b = [ReportGap(w, p) EXCEPT !.cur = Idx(p), !.fp = AllocFrame(Source[p], Fec[p]),
                                    !.pos = p, !.holds = {}]
  BY DEF BeginFrame
<1>2. /\ ReceiverOK(w) /\ ~Open(w) /\ w.pos = v.pos /\ w.cur = v.cur
      /\ w.shown = v.shown /\ w.profileCur = ProfileOf[p]
  BY FlushOldGivesUp DEF GaveUp
<1>3. /\ v \in Receiver /\ w \in Receiver /\ w.pos \in Nat /\ p \in Nat \ {0}
      /\ Source[p] \in Nat \ {0} /\ Fec[p] \in Nat /\ ProfileOf[p] \in Nat
  BY <1>2, ReceiverFacts, PositionFacts DEF VideoInv, ReceiverOK
<1>4. w.pos < p
  <2>1. w.pos # 0 => v.cur = Idx(w.pos)
    BY <1>2 DEF ReceiverOK, Placed
  <2>2. CASE v.cur < 0
    BY <1>3, <2>1, <2>2, IdxType, SizeFacts
  <2>3. CASE SeqGt(M, Idx(p), v.cur) /\ w.pos # 0
    <3>1. PICK q \in Int : q = w.pos
      BY <1>3
    <3>2. q - p < Half /\ p - q < Half /\ p \in Int
      BY <1>2, <1>3, <3>1, SizeFacts DEF Near
    <3>3. SeqGt(M, Idx(p), Idx(q)) <=> p > q
      BY ONLY <3>2, q \in Int, Compare
    <3> QED
      BY <1>3, <2>1, <2>3, <3>1, <3>3
  <2> QED
    BY <1>3, <2>2, <2>3 DEF NewFrame
<1>5. PICK n \in 0 .. w.pos : Newest(w, n) /\ w.complete = Idx(n)
  BY <1>2 DEF ReceiverOK, CompleteOK
<1>6. p - n < Half
  <2>1. Newest(v, n)
    BY <1>2, <1>5 DEF Newest, Accepted
  <2>2. LastAccepted(v) = n
    BY <1>3, <1>5, <2>1, NewestIs
  <2> QED
    BY <2>2 DEF Near
<1>7. PICK R \in SUBSET Nat : /\ R = w.reported \cup (n + 1 .. p - 1)
                              /\ ReportGap(w, p) = WithReports(w, R)
  BY <1>2, <1>4, <1>5, <1>6, ReportGapIs
<1>8. PICK fp : /\ fp = AllocFrame(Source[p], Fec[p])
                /\ FrameOK(fp) /\ Received(fp) = 0 /\ fp.slots = {} /\ fp.source = Source[p]
                /\ SlotsSize(fp) >= Source[p] + Fec[p]
  BY <1>3, AllocOK
<1>9. b = NewFrameOf(WithReports(w, R), p, fp)
  BY <1>1, <1>7, <1>8 DEF NewFrameOf
<1>10. /\ b \in Receiver /\ b.reported = R /\ b.prev = w.prev /\ b.cur = Idx(p)
       /\ b.pos = p /\ b.profiles = w.profiles /\ b.profileCur = w.profileCur
       /\ b.fp = fp /\ b.complete = w.complete /\ b.refs = w.refs
       /\ b.shown = w.shown /\ b.holds = {}
  <2>1. fp \in Frame /\ Idx(p) \in -1 .. M - 1 /\ {} \in SUBSET Positions
    BY <1>3, <1>8, IdxType, SizeFacts DEF FrameOK
  <2> QED
    BY ONLY <1>3, <1>9, <2>1, R \in SUBSET Nat, p \in Positions
       DEF Receiver, NewFrameOf, WithReports
<1>11. Accepted(b) = Accepted(w)
  BY <1>10 DEF Accepted
<1>12. Placed(b) /\ FrameOK(b.fp) /\ RefsOK(b) /\ b.holds \subseteq {b.pos}
  BY <1>2, <1>3, <1>8, <1>10, <1>11 DEF ReceiverOK, Placed, RefsOK
<1>13. CompleteOK(b)
  <2>1. Newest(b, n) /\ n \in 0 .. p
    BY <1>3, <1>4, <1>5, <1>11 DEF Newest
  <2> QED
    BY <1>5, <1>6, <1>10, <2>1 DEF CompleteOK
<1>14. \A i \in 1 .. Len(b.shown) : b.shown[i].pos < p /\ b.shown[i].pos <= p
  <2>1. \A i \in 1 .. Len(w.shown) : w.shown[i].pos <= w.pos /\ w.shown[i].pos \in Nat
    BY <1>2, <1>3, PictureTypes DEF ReceiverOK, ShownOK, Receiver
  <2> QED
    BY <1>3, <1>4, <1>10, <2>1
<1>15. ShownOK(b)
  <2>1. ShownOK(w)
    BY <1>2 DEF ReceiverOK
  <2> QED
    BY ONLY <1>10, <1>14, <2>1 DEF ShownOK
<1>16. ReportsOK(b) /\ p \notin R
  <2>1. /\ w.reported \subseteq 1 .. w.pos /\ w.reported \cap Accepted(w) = {}
        /\ 1 .. w.pos - 1 \subseteq Accepted(w) \cup w.reported
    BY <1>2 DEF ReceiverOK, ReportsOK
  <2>2. \A q \in Accepted(w) : q <= n /\ q \in Nat
    BY <1>2, <1>5, ReceiverFacts DEF Newest
  <2>3. R \subseteq 1 .. p - 1
    BY <1>3, <1>4, <1>7, <2>1
  <2>4. R \cap Accepted(w) = {}
    BY <1>3, <1>7, <2>1, <2>2
  <2>5. 1 .. p - 1 \subseteq Accepted(w) \cup R
    <3> SUFFICES ASSUME NEW x \in 1 .. p - 1
                 PROVE  x \in Accepted(w) \cup R
      OBVIOUS
    <3>1. CASE x > n
      BY <1>3, <1>7, <3>1
    <3>2. CASE x <= n /\ x < w.pos
      BY <1>3, <1>7, <2>1, <3>2
    <3>3. CASE x <= n /\ x >= w.pos
      <4>1. x = n /\ n # 0
        BY <1>3, <3>3
      <4> QED
        BY <1>5, <4>1 DEF Newest
    <3> QED
      BY <1>3, <3>1, <3>2, <3>3
  <2> QED
    BY <1>3, <1>10, <1>11, <2>3, <2>4, <2>5 DEF ReportsOK
<1>17. OpenOK(b)
  BY <1>8, <1>10, <1>14, <1>16, NoFrameOK DEF OpenOK
<1>18. b.cur # v.cur
  <2>1. CASE w.pos = 0
    <3>1. w.cur = -1
      BY <1>2, <2>1 DEF ReceiverOK, Placed
    <3> QED
      BY <1>2, <1>3, <1>10, <3>1, IdxType, SizeFacts
  <2>2. CASE w.pos # 0
    <3>1. w.cur = Idx(w.pos)
      BY <1>2, <2>2 DEF ReceiverOK, Placed
    <3>2. Idx(w.pos) # Idx(p)
      <4>1. p - w.pos < M /\ w.pos - p < M /\ w.pos # p
        BY <1>2, <1>3, <1>4, SizeFacts DEF Near
      <4> QED
        BY <1>3, <4>1, IdxDistinct
    <3> QED
      BY <1>2, <1>10, <3>1, <3>2
  <2> QED
    BY <2>1, <2>2
<1>19. VideoInv(b)
  <2>1. ReceiverOK(b)
    BY <1>10, <1>12, <1>13, <1>15, <1>16, <1>17 DEF ReceiverOK
  <2>2. ~FlushPossible(b.fp)
    BY <1>3, <1>8, <1>10 DEF FlushPossible
  <2> QED
    BY <1>2, <1>10, <2>1, <2>2 DEF VideoInv
<1> QED
  BY <1>8, <1>10, <1>18, <1>19 DEF Ready

\* A packet of the frame the receiver follows.
LEMMA FrameGoesOn ==
  ASSUME NEW v, VideoInv(v), NEW p \in Positions, Taken(v, p), ~NewFrame(v, p), Near(p, v.pos)
  PROVE  Ready(v, SwitchProfile(v, p), p)
<1>1. /\ v \in Receiver /\ v.pos \in Nat /\ p \in Int /\ v.cur \in Int
      /\ v.pos = 0 => v.cur = -1
      /\ v.pos # 0 => v.cur = Idx(v.pos) /\ v.profileCur = ProfileOf[v.pos]
  BY ReceiverFacts, PositionFacts, SizeFacts DEF VideoInv, ReceiverOK, Placed, Receiver
<1>2. v.pos # 0 /\ ~SeqLt(M, Idx(p), v.cur) /\ ~SeqGt(M, Idx(p), v.cur)
  BY <1>1 DEF NewFrame, Taken, OldFrame
<1>3. v.pos = p
  <2>1. PICK q \in Int : q = v.pos
    BY <1>1
  <2>2. q - p < Half /\ p - q < Half
    BY <2>1 DEF Near
  <2>3. (SeqLt(M, Idx(p), Idx(q)) <=> p < q) /\ (SeqGt(M, Idx(p), Idx(q)) <=> p > q)
    BY ONLY <1>1, <2>2, q \in Int, Compare
  <2> QED
    BY <1>1, <1>2, <2>1, <2>3
<1>4. SwitchProfile(v, p) = v
  BY <1>1, <1>2, <1>3 DEF SwitchProfile, Receiver
<1> QED
  BY <1>3, <1>4 DEF Ready

\* A unit of the frame is counted once.
LEMMA UnitPut ==
  ASSUME NEW v, VideoInv(v), NEW p \in Positions, v.pos = p, NEW unit \in UnitsOf(p),
         NEW w, w = PutUnit(v, p, unit)
  PROVE  /\ ReceiverOK(w) /\ w.pos = p /\ w.cur = v.cur /\ w.prev = v.prev
         /\ w.profileCur = ProfileOf[p]
         /\ Received(w.fp) = Received(v.fp) + (IF CanPut(v.fp, unit) THEN 1 ELSE 0)
<1>1. ReceiverOK(v) /\ v \in Receiver /\ p # 0 /\ v.profileCur = ProfileOf[p] /\ FrameOK(v.fp)
  BY PositionFacts DEF VideoInv, ReceiverOK
<1>2. CASE ~CanPut(v.fp, unit)
  <2>1. w = v
    BY <1>2 DEF PutUnit
  <2>2. Received(v.fp) = Received(v.fp) + 0
    BY <1>1, FrameFacts
  <2> QED
    BY <1>1, <1>2, <2>1, <2>2
<1>3. CASE CanPut(v.fp, unit)
  <2>1. unit \in 0 .. SlotsSize(v.fp) - 1
    <3>1. SlotsSize(v.fp) >= Source[p] + Fec[p] /\ SlotsSize(v.fp) \in Nat
      BY <1>1, FrameFacts DEF ReceiverOK, Placed
    <3> QED
      BY <3>1, PositionFacts DEF UnitsOf
  <2>2. PICK fp : fp = Put(v.fp, unit)
    OBVIOUS
  <2>3. PICK old : old = v.fp
    OBVIOUS
  <2>4. /\ FrameOK(fp) /\ fp.source = v.fp.source /\ SlotsSize(fp) = SlotsSize(v.fp)
        /\ Received(fp) = Received(v.fp) + 1
        /\ Cardinality(fp.slots) = Cardinality(v.fp.slots) + 1
    BY <1>1, <1>3, <2>1, <2>2, <2>3, PutOK
  <2>5. w = [v EXCEPT !.fp = fp, !.holds = v.holds \cup {p}]
    BY <1>3, <2>2 DEF PutUnit
  <2>6. v.holds \cup {p} \in SUBSET Positions /\ fp \in Frame
    BY <1>1, <2>4 DEF Receiver, FrameOK
  <2>7. /\ w \in Receiver /\ w.reported = v.reported /\ w.prev = v.prev /\ w.cur = v.cur
        /\ w.pos = v.pos /\ w.profiles = v.profiles /\ w.profileCur = v.profileCur
        /\ w.fp = fp /\ w.complete = v.complete /\ w.refs = v.refs
        /\ w.shown = v.shown /\ w.holds = v.holds \cup {p}
    BY ONLY <1>1, <2>5, <2>6 DEF Receiver
  <2>8. Accepted(w) = Accepted(v)
    BY <2>7 DEF Accepted
  <2>9. Placed(w) /\ FrameOK(w.fp) /\ w.holds \subseteq {w.pos}
    BY <1>1, <2>4, <2>7 DEF ReceiverOK, Placed
  <2>10. CompleteOK(w) /\ ShownOK(w)
    BY <1>1, <2>7, <2>8 DEF ReceiverOK, CompleteOK, ShownOK, Newest
  <2>11. ReportsOK(w) /\ RefsOK(w)
    BY <1>1, <2>7, <2>8 DEF ReceiverOK, ReportsOK, RefsOK
  <2>12. OpenOK(w)
    <3>1. Open(w) => Open(v)
      BY <2>7 DEF Open
    <3>2. Open(v) => /\ \A i \in 1 .. Len(v.shown) : v.shown[i].pos < v.pos
                     /\ v.pos \notin v.reported
                     /\ Received(v.fp) = Cardinality(v.fp.slots)
      BY <1>1 DEF ReceiverOK, OpenOK
    <3>3. Received(v.fp) = Cardinality(v.fp.slots) => Received(w.fp) = Cardinality(w.fp.slots)
      BY <2>4, <2>7
    <3> QED
      BY ONLY <2>7, <3>1, <3>2, <3>3 DEF OpenOK
  <2> QED
    BY <1>1, <1>3, <2>4, <2>7, <2>9, <2>10, <2>11, <2>12 DEF ReceiverOK
<1> QED
  BY <1>2, <1>3

\* What a packet does to the receiver: it keeps its promises, and what the
\* packet adds is among the units it counts.
LEMMA PacketKeeps ==
  ASSUME NEW v, VideoInv(v), NEW p \in Positions, NEW unit \in UnitsOf(p), Taken(v, p),
         Near(p, v.pos), Near(p, LastAccepted(v)), NEW x \in AfterPacket(v, p, unit)
  PROVE  /\ VideoInv(x)
         /\ x.cur # v.cur <=> NewFrame(v, p)
         /\ Received(x.fp) = (IF NewFrame(v, p) THEN 0 ELSE Received(v.fp)) + Added(v, p, unit)
<1>1. PICK b \in IF NewFrame(v, p) THEN BeginFrame(SwitchProfile(v, p), p)
                 ELSE {SwitchProfile(v, p)} :
        x \in LET w == PutUnit(b, p, unit)
              IN IF FlushNow(w, p, unit) THEN FlushFrame(w) ELSE {w}
  BY DEF AfterPacket
<1>2. Ready(v, b, p)
  <2>1. CASE NewFrame(v, p)
    BY <1>1, <2>1, FrameBegins DEF Taken
  <2>2. CASE ~NewFrame(v, p)
    BY <1>1, <2>2, FrameGoesOn
  <2> QED
    BY <2>1, <2>2
<1>3. PICK w : w = PutUnit(b, p, unit)
  OBVIOUS
<1>4. x \in IF FlushNow(w, p, unit) THEN FlushFrame(w) ELSE {w}
  BY <1>1, <1>3
<1>5. /\ ReceiverOK(w) /\ w.pos = p /\ w.cur = b.cur /\ w.prev = b.prev
      /\ w.profileCur = ProfileOf[p]
      /\ Received(w.fp) = Received(b.fp) + (IF CanPut(b.fp, unit) THEN 1 ELSE 0)
  BY <1>2, <1>3, UnitPut DEF Ready
<1>6. Received(w.fp) = (IF NewFrame(v, p) THEN 0 ELSE Received(v.fp)) + Added(v, p, unit)
  <2>1. CASE NewFrame(v, p)
    <3>1. b.fp.slots = {} /\ unit <= SlotsSize(b.fp) /\ Received(b.fp) = 0
      <4>1. b.fp.slots = {} /\ Received(b.fp) = 0 /\ ReceiverOK(b) /\ b.pos = p /\ p # 0
        BY <1>2, <2>1, PositionFacts DEF Ready, VideoInv
      <4>2. SlotsSize(b.fp) >= Source[p] + Fec[p] /\ SlotsSize(b.fp) \in Nat
        BY <4>1, FrameFacts DEF ReceiverOK, Placed
      <4> QED
        BY <4>1, <4>2, PositionFacts DEF UnitsOf
    <3>2. CanPut(b.fp, unit)
      BY <3>1 DEF CanPut
    <3> QED
      BY <1>5, <2>1, <3>1, <3>2 DEF Added
  <2>2. CASE ~NewFrame(v, p)
    BY <1>2, <1>5, <2>2 DEF Ready, Added
  <2> QED
    BY <2>1, <2>2
<1>7. w.cur # v.cur <=> NewFrame(v, p)
  BY <1>2, <1>5 DEF Ready
<1>8. p # 0
  BY PositionFacts
<1>9. CASE FlushNow(w, p, unit)
  <2>1. Open(w)
    BY <1>5, <1>8, <1>9 DEF FlushNow, Open
  <2>2. Settled(w, x)
    BY <1>4, <1>5, <1>9, <2>1, FlushSettles
  <2>3. VideoInv(x) /\ x.cur = w.cur /\ Received(x.fp) = Received(w.fp)
    BY <1>5, <2>2 DEF Settled, VideoInv, Open
  <2> QED
    BY <1>6, <1>7, <2>3
<1>10. CASE ~FlushNow(w, p, unit)
  <2>1. x = w
    BY <1>4, <1>10
  <2>2. VideoInv(w)
    BY <1>5, <1>10 DEF VideoInv, FlushNow, Open
  <2> QED
    BY <1>6, <1>7, <2>1, <2>2
<1> QED
  BY <1>9, <1>10

\* The first stream info names the profiles.
LEMMA StreamInfoKeeps ==
  ASSUME NEW v, VideoInv(v)
  PROVE  LET s == StreamInfoVideo(v)
         IN VideoInv(s) /\ Received(s.fp) = Received(v.fp)
<1>1. CASE v.profiles > 0
  BY <1>1 DEF StreamInfoVideo
<1>2. CASE ~(v.profiles > 0)
  <2>1. v \in Receiver
    BY DEF VideoInv, ReceiverOK
  <2>2. PICK s : s = [v EXCEPT !.profiles = Profiles]
    OBVIOUS
  <2>3. /\ s \in Receiver /\ s.profileCur = v.profileCur /\ s.fp = v.fp /\ s.pos = v.pos
        /\ s.cur = v.cur /\ s.prev = v.prev /\ s.shown = v.shown
        /\ s.complete = v.complete /\ s.refs = v.refs /\ s.holds = v.holds
        /\ s.reported = v.reported
    BY ONLY <2>1, <2>2 DEF Receiver
  <2>4. Accepted(s) = Accepted(v) /\ (Open(s) <=> Open(v))
    BY <2>3 DEF Accepted, Open
  <2>5. Placed(s) /\ ReportsOK(s) /\ RefsOK(s) /\ OpenOK(s) /\ FrameOK(s.fp)
    BY <2>3, <2>4 DEF VideoInv, ReceiverOK, Placed, ReportsOK, RefsOK, OpenOK
  <2>6. CompleteOK(s) /\ ShownOK(s) /\ s.holds \subseteq {s.pos}
    BY <2>3, <2>4 DEF VideoInv, ReceiverOK, CompleteOK, ShownOK, Newest
  <2>7. VideoInv(s)
    BY <2>3, <2>4, <2>5, <2>6 DEF VideoInv, ReceiverOK
  <2> QED
    BY <1>2, <2>2, <2>3, <2>7 DEF StreamInfoVideo
<1> QED
  BY <1>1, <1>2

LEMMA VideoInitOK == VideoInv(VideoInit) /\ Received(VideoInit.fp) = 0
<1>1. PICK refs \in [1 .. Refs -> -1 .. M - 1] : refs = [i \in 1 .. Refs |-> -1]
  <2>1. -1 \in -1 .. M - 1
    BY SizeFacts
  <2> QED
    BY <2>1
<1>2. PICK shown \in Seq(Pictures) : shown = << >> /\ Len(shown) = 0
  <2>1. << >> \in Seq(Pictures) /\ Len(<< >>) = 0
    OBVIOUS
  <2> QED
    BY ONLY <2>1
<1>3. PICK v : v = VideoInit
  OBVIOUS
<1>4. /\ v \in Receiver /\ v.profileCur = -1 /\ v.fp = NoFrame /\ v.pos = 0
      /\ v.cur = -1 /\ v.prev = -1 /\ v.shown = shown
      /\ v.complete = 0 /\ v.refs = refs /\ v.holds = {} /\ v.reported = {}
  <2>1. /\ v = [profiles |-> 0, profileCur |-> -1, cur |-> -1, prev |-> -1, complete |-> 0,
                refs |-> refs, fp |-> NoFrame, pos |-> 0, holds |-> {}, shown |-> shown,
                reported |-> {}]
    BY ONLY <1>1, <1>2, <1>3 DEF VideoInit
  <2>2. NoFrame \in Frame
    BY NoFrameOK DEF FrameOK
  <2>3. -1 \in -1 .. M - 1 /\ 0 \in 0 .. M - 1 /\ -1 \in -1 .. Profiles - 1
    BY SizeFacts
  <2> QED
    BY ONLY <2>1, <2>2, <2>3, refs \in [1 .. Refs -> -1 .. M - 1], shown \in Seq(Pictures)
       DEF Receiver
<1>5. Accepted(v) = {}
  <2>1. \A x : x \in AcceptedIn(shown) <=> \E i \in 1 .. Len(shown) : shown[i].ok /\ x = shown[i].pos
    BY ONLY AcceptedIs, shown \in Seq(Pictures)
  <2>2. 1 .. Len(shown) = {}
    BY <1>2
  <2> QED
    BY ONLY <1>4, <2>1, <2>2 DEF Accepted
<1>6. FrameOK(v.fp) /\ Placed(v) /\ ~Open(v) /\ OpenOK(v)
  BY <1>4, NoFrameOK DEF Placed, Open, OpenOK, NoFrame
<1>7. CompleteOK(v)
  <2>1. 0 \in 0 .. v.pos /\ v.pos - 0 < Half /\ v.complete = Idx(0)
    <3>1. Idx(0) = 0
      BY SizeFacts, ModSmall DEF Idx
    <3> QED
      BY <1>4, <3>1, SizeFacts
  <2>2. Newest(v, 0)
    BY <1>5 DEF Newest
  <2> QED
    BY <2>1, <2>2 DEF CompleteOK
<1>8. ShownOK(v) /\ ReportsOK(v)
  <2>1. 1 .. v.pos = {} /\ 1 .. v.pos - 1 = {} /\ 1 .. Len(v.shown) = {}
    BY <1>2, <1>4
  <2> QED
    BY <1>4, <2>1 DEF ShownOK, ReportsOK
<1>9. RefsOK(v)
  <2>1. 1 .. Len(v.shown) = {}
    BY <1>2, <1>4
  <2> QED
    BY <1>1, <1>4, <2>1 DEF RefsOK
<1> QED
  BY <1>3, <1>4, <1>6, <1>7, <1>8, <1>9, NoFrameOK DEF VideoInv, ReceiverOK
-----------------------------------------------------------------------------
(* A packet of the audio stream                                            *)

\* A set of numbers has a smallest one.
LEMMA SmallestNat ==
  ASSUME NEW T \in SUBSET Nat, T # {}
  PROVE  \E m \in T : \A k \in T : m <= k
<1> DEFINE R == OpToRel(<, Nat)
<1>1. IsWellFoundedOn(R, Nat)
  BY NatLessThanWellFounded
<1> HIDE DEF R
<1>2. PICK m \in T : \A k \in T : ~(<<k, m>> \in R)
  BY <1>1, WFMin
<1>3. \A k \in T : k < m => <<k, m>> \in R
  BY DEF R, OpToRel
<1> QED
  <2>1. \A k \in T : k \in Nat
    OBVIOUS
  <2>2. \A k \in T : ~(k < m)
    BY <1>2, <1>3
  <2>3. m \in Nat
    OBVIOUS
  <2>4. \A k \in T : m <= k
    BY ONLY <2>1, <2>2, <2>3
  <2> QED
    BY <2>4

UnitStep(a, p, g, n) == IF n = 0 THEN Audio!Started(a, p) ELSE Audio!AudioUnit(g[n - 1], p, n - 1)

\* The receiver after each unit of a packet.
LEMMA UnitsExist ==
  ASSUME NEW a, NEW p, NEW K \in Nat
  PROVE  \E g : g = [n \in 0 .. K |-> UnitStep(a, p, g, n)]
<1> DEFINE Good(n) == \E g : g = [i \in 0 .. n |-> UnitStep(a, p, g, i)]
           T == {n \in Nat : ~Good(n)}
<1>1. Good(0)
  <2>1. PICK g : g = [i \in 0 .. 0 |-> Audio!Started(a, p)]
    OBVIOUS
  <2>2. \A i \in 0 .. 0 : UnitStep(a, p, g, i) = Audio!Started(a, p)
    BY DEF UnitStep
  <2>3. g = [i \in 0 .. 0 |-> UnitStep(a, p, g, i)]
    BY <2>1, <2>2
  <2> QED
    BY <2>3
<1>2. ASSUME NEW n \in Nat \ {0}, Good(n - 1)
      PROVE  Good(n)
  <2>1. PICK g : g = [i \in 0 .. n - 1 |-> UnitStep(a, p, g, i)]
    BY <1>2
  <2>2. PICK h : h = [i \in 0 .. n |-> IF i < n THEN g[i] ELSE UnitStep(a, p, g, n)]
    OBVIOUS
  <2>3. ASSUME NEW i \in 0 .. n
        PROVE  h[i] = UnitStep(a, p, h, i)
    <3>1. CASE i = 0
      <4>1. h[i] = g[i] /\ i \in 0 .. n - 1
        BY <2>2, <3>1
      <4>2. g[i] = UnitStep(a, p, g, i)
        BY <2>1, <4>1
      <4>3. UnitStep(a, p, g, i) = UnitStep(a, p, h, i)
        BY <3>1 DEF UnitStep
      <4> QED
        BY <4>1, <4>2, <4>3
    <3>2. CASE i # 0
      <4>1. i - 1 \in 0 .. n - 1 /\ i - 1 < n /\ i - 1 \in 0 .. n
        BY <3>2
      <4>2. h[i - 1] = g[i - 1]
        BY <2>2, <4>1
      <4>3. UnitStep(a, p, g, i) = UnitStep(a, p, h, i)
        BY <3>2, <4>2 DEF UnitStep
      <4>4. h[i] = UnitStep(a, p, g, i)
        <5>1. CASE i < n
          <6>1. h[i] = g[i] /\ i \in 0 .. n - 1
            BY <2>2, <5>1
          <6>2. g[i] = UnitStep(a, p, g, i)
            BY <2>1, <6>1
          <6> QED
            BY <6>1, <6>2
        <5>2. CASE i = n
          BY <2>2, <5>2
        <5> QED
          BY <5>1, <5>2
      <4> QED
        BY <4>3, <4>4
    <3> QED
      BY <3>1, <3>2
  <2>4. h = [i \in 0 .. n |-> h[i]]
    BY <2>2
  <2>5. h = [i \in 0 .. n |-> UnitStep(a, p, h, i)]
    BY ONLY <2>3, <2>4
  <2> QED
    BY <2>5
<1> HIDE DEF Good
<1>3. T = {}
  <2> SUFFICES ASSUME T # {} PROVE FALSE
    OBVIOUS
  <2>1. T \in SUBSET Nat
    OBVIOUS
  <2>2. PICK m \in T : \A k \in T : m <= k
    BY <2>1, SmallestNat
  <2>3. m \in Nat \ {0}
    BY <1>1
  <2>4. m - 1 \in Nat /\ m - 1 \notin T
    BY <2>2, <2>3
  <2>5. Good(m - 1)
    BY <2>4
  <2> QED
    BY <1>2, <2>3, <2>5
<1>4. Good(K)
  BY <1>3
<1> QED
  BY <1>4 DEF Good

\* last is the position of the newest sound frame that was handed over.
AudioOK(a, last) ==
  /\ a \in [prev : 0 .. M - 1, startup : BOOLEAN, played : Seq(Nat)]
  /\ last \in Nat /\ a.prev = Idx(last)
  /\ last = IF a.played = << >> THEN 0 ELSE a.played[Len(a.played)]
  /\ \A i \in 1 .. Len(a.played) : a.played[i] <= last
  /\ \A i, j \in 1 .. Len(a.played) : i < j => a.played[i] < a.played[j]

LEMMA SoundAppend ==
  ASSUME NEW s \in Seq(Nat), NEW q \in Nat
  PROVE  LET new == Append(s, q)
         IN /\ new \in Seq(Nat) /\ Len(new) = Len(s) + 1 /\ Len(s) \in Nat /\ new # << >>
            /\ \A i \in 1 .. Len(s) : new[i] = s[i]
            /\ new[Len(s) + 1] = q
OBVIOUS

\* A sound frame goes to the sink if it is after the newest one.
LEMMA SoundFrameOK ==
  ASSUME NEW a, NEW last, AudioOK(a, last), NEW q \in Int, q - last < Half, last - q < Half
  PROVE  \E next \in {last, q} : next >= last /\ AudioOK(Audio!AudioFrame(a, q), next)
<1>1. /\ a \in [prev : 0 .. M - 1, startup : BOOLEAN, played : Seq(Nat)]
      /\ last \in Nat /\ a.prev = Idx(last)
  BY DEF AudioOK
<1>2. Audio!SeqGt(M, q % M, a.prev) <=> q > last
  <2>1. SeqGt(M, Idx(q), Idx(last)) <=> q > last
    BY <1>1, Compare
  <2> QED
    BY <1>1, <2>1 DEF Idx, SeqGt, Audio!SeqGt
<1>3. CASE q <= last
  <2>1. Audio!AudioFrame(a, q) = a
    BY <1>1, <1>2, <1>3 DEF Audio!AudioFrame
  <2> QED
    BY <1>1, <2>1
<1>4. CASE q > last
  <2>1. q \in Nat /\ q >= last
    BY <1>1, <1>4
  <2>2. PICK s \in Seq(Nat) : s = a.played
    BY <1>1
  <2>3. PICK new \in Seq(Nat) :
          /\ new = Append(s, q) /\ Len(new) = Len(s) + 1 /\ Len(s) \in Nat /\ new # << >>
          /\ \A i \in 1 .. Len(s) : new[i] = s[i]
          /\ new[Len(s) + 1] = q
    BY <2>1, SoundAppend
  <2>4. PICK b : b = Audio!AudioFrame(a, q)
    OBVIOUS
  <2>5. b = [a EXCEPT !.prev = Idx(q), !.played = new]
    BY <1>2, <1>4, <2>2, <2>3, <2>4 DEF Audio!AudioFrame, Idx
  <2>6. b \in [prev : 0 .. M - 1, startup : BOOLEAN, played : Seq(Nat)]
        /\ b.prev = Idx(q) /\ b.played = new
    BY <1>1, <2>5, IdxType
  <2>7. \A i \in 1 .. Len(new) : i \in 1 .. Len(s) \/ i = Len(s) + 1
    BY ONLY <2>3
  <2>8. /\ \A i \in 1 .. Len(s) : s[i] <= last /\ s[i] \in Nat
        /\ \A i, j \in 1 .. Len(s) : i < j => s[i] < s[j]
    BY <2>2 DEF AudioOK
  <2>9. \A i \in 1 .. Len(new) : new[i] <= q
    BY ONLY <1>1, <1>4, <2>1, <2>3, <2>7, <2>8
  <2>10. \A i, j \in 1 .. Len(new) : i < j => new[i] < new[j]
    <3> SUFFICES ASSUME NEW i \in 1 .. Len(new), NEW j \in 1 .. Len(new), i < j
                 PROVE  new[i] < new[j]
      OBVIOUS
    <3>1. i \in 1 .. Len(s)
      BY ONLY <2>3, i \in 1 .. Len(new), j \in 1 .. Len(new), i < j
    <3>2. CASE j \in 1 .. Len(s)
      BY ONLY <2>3, <2>8, <3>1, <3>2, i < j
    <3>3. CASE j = Len(s) + 1
      BY ONLY <1>1, <1>4, <2>1, <2>3, <2>8, <3>1, <3>3
    <3> QED
      BY ONLY <2>7, <3>2, <3>3, j \in 1 .. Len(new)
  <2>11. new[Len(new)] = q
    BY <2>3
  <2>12. AudioOK(b, q)
    BY ONLY <2>1, <2>3, <2>6, <2>9, <2>10, <2>11 DEF AudioOK
  <2> QED
    BY <2>1, <2>4, <2>12
<1> QED
  BY <1>1, <1>3, <1>4

\* The units of a packet and the newest sound frame are so near each other
\* that every unit is compared as its position tells.
LEMMA AudioPacketOK ==
  ASSUME NEW a, NEW last, AudioOK(a, last), NEW p \in Int,
         Near(p - AudioFec, last), Near(p + AudioSource - 1, last)
  PROVE  \E next \in Nat : AudioOK(Audio!AfterAudioPacket(a, p), next)
<1> DEFINE K == AudioSource + AudioFec
           Far(n) == n <= last \/ n <= p + AudioSource - 1
           Good(g, n) == \E next \in Nat : next >= last /\ Far(next) /\ AudioOK(g[n], next)
<1>1. /\ K \in Nat /\ K <= Half /\ AudioSource \in Nat \ {0} /\ AudioFec \in Nat
      /\ Half \in Nat
  BY SizeFacts
<1>2. last \in Nat
  BY DEF AudioOK
<1>3. PICK g : g = [n \in 0 .. K |-> UnitStep(a, p, g, n)] /\ g = Audio!AudioUnits(a, p)
  <2>1. Audio!AudioUnits(a, p) = CHOOSE g : g = [n \in 0 .. K |-> UnitStep(a, p, g, n)]
    BY ONLY ZenonT(60) DEF Audio!AudioUnits, UnitStep
  <2>2. PICK k \in Nat : k = K
    BY <1>1
  <2>3. \E g : g = [n \in 0 .. k |-> UnitStep(a, p, g, n)]
    BY ONLY k \in Nat, UnitsExist, ZenonT(60)
  <2> QED
    BY ONLY <2>1, <2>2, <2>3
<1> HIDE DEF K
<1>4. \A n \in 0 .. K : g[n] = UnitStep(a, p, g, n)
  BY ONLY <1>3
<1>5. Good(g, 0)
  <2>1. g[0] = Audio!Started(a, p)
    BY <1>1, <1>4 DEF UnitStep
  <2>2. PICK b : b = Audio!Started(a, p)
    OBVIOUS
  <2>3. b.prev = a.prev /\ b.played = a.played
        /\ b \in [prev : 0 .. M - 1, startup : BOOLEAN, played : Seq(Nat)]
    BY <2>2 DEF Audio!Started, AudioOK
  <2>4. AudioOK(b, last)
    BY <2>3 DEF AudioOK
  <2> QED
    BY <1>2, <2>1, <2>2, <2>4
<1>6. ASSUME NEW n \in 1 .. K, Good(g, n - 1)
      PROVE  Good(g, n)
  <2>1. PICK mid \in Nat : mid >= last /\ Far(mid) /\ AudioOK(g[n - 1], mid)
    BY <1>6
  <2>2. PICK h : h = g[n - 1]
    OBVIOUS
  <2>3. PICK i \in 0 .. K - 1 : i = n - 1
    BY <1>1
  <2>4. g[n] = Audio!AudioUnit(h, p, i)
    BY <1>1, <1>4, <2>2, <2>3 DEF UnitStep
  <2>5. CASE Audio!Ignored(h, p, i)
    <3>1. g[n] = h
      BY <2>4, <2>5 DEF Audio!AudioUnit
    <3> QED
      BY <2>1, <2>2, <3>1
  <2>6. CASE ~Audio!Ignored(h, p, i)
    <3>1. PICK q \in Int : q = Audio!UnitAt(p, i)
      <4>1. Audio!UnitAt(p, i) \in Int
        BY <1>1 DEF Audio!UnitAt
      <4> QED
        BY <4>1
    <3>2. p - AudioFec <= q /\ q <= p + AudioSource - 1
      BY <1>1, <3>1 DEF Audio!UnitAt, K
    <3>3. g[n] = Audio!AudioFrame(h, q)
      BY <2>4, <2>6, <3>1 DEF Audio!AudioUnit
    <3>4. /\ p - AudioFec - last < Half /\ last - (p - AudioFec) < Half
          /\ (p + AudioSource - 1) - last < Half /\ last - (p + AudioSource - 1) < Half
      BY DEF Near
    <3>5. q - mid < Half /\ mid - q < Half
      BY <1>1, <1>2, <2>1, <3>2, <3>4 DEF K
    <3>6. PICK next \in {mid, q} : next >= mid /\ AudioOK(Audio!AudioFrame(h, q), next)
      BY <2>1, <2>2, <3>5, SoundFrameOK
    <3>7. next \in Nat /\ next >= last /\ Far(next)
      BY <1>1, <1>2, <2>1, <3>2, <3>6
    <3> QED
      BY <3>3, <3>6, <3>7
  <2> QED
    BY <2>5, <2>6
<1> DEFINE T == {n \in 0 .. K : ~Good(g, n)}
<1> HIDE DEF Good
<1>7. T = {}
  <2> SUFFICES ASSUME T # {} PROVE FALSE
    OBVIOUS
  <2>1. T \in SUBSET Nat
    BY <1>1
  <2>2. PICK m \in T : \A k \in T : m <= k
    BY <2>1, SmallestNat
  <2>3. m \in 1 .. K
    BY <1>1, <1>5
  <2>4. m - 1 \in 0 .. K /\ m - 1 \notin T
    BY <1>1, <2>2, <2>3
  <2>5. Good(g, m - 1)
    BY <2>4
  <2> QED
    BY <1>6, <2>3, <2>5
<1>8. Good(g, K)
  BY <1>1, <1>7
<1>9. g[K] = Audio!AfterAudioPacket(a, p)
  BY <1>3 DEF Audio!AfterAudioPacket, K
<1> QED
  BY <1>8, <1>9 DEF Good
-----------------------------------------------------------------------------
(* The inductive invariant                                                 *)

Bookkeeping ==
  /\ stats \in [gen : Nat, seq : Nat, min : 0 .. M - 1, max : 0 .. M - 1]
  /\ takion \in [at : {"idle", "loaded", "stored"}, loaded : Nat, num : 0 .. M - 1]
  /\ control \in [at : {"idle", "read"}, seq : Nat]
  /\ packets \in 0 .. Packets /\ reports \in 0 .. Reports
  /\ owed \in Int /\ raced \in BOOLEAN

\* As long as no store and no reset fell into each other, what the two threads
\* have read is still there.
ReadsHold == ~raced => /\ takion.at = "loaded" => takion.loaded = stats.seq
                       /\ control.at = "read" => control.seq = stats.seq

IInv == /\ VideoInv(video) /\ AudioOK(audio, LastPlayed)
        /\ Bookkeeping /\ ReadsHold /\ CountedOnce

LEMMA CountedNat == VideoInv(video) => Counted(video) \in Nat
BY FrameFacts DEF VideoInv, ReceiverOK, Counted

LEMMA AudioIs ==
  ASSUME AudioOK(audio, LastPlayed)
  PROVE  LastPlayed \in Nat
BY DEF AudioOK

LEMMA InitOK == Init => IInv
<1> SUFFICES ASSUME Init PROVE IInv
  OBVIOUS
<1>1. VideoInv(video) /\ Counted(video) = 0
  BY VideoInitOK DEF Init, Counted
<1>2. AudioOK(audio, LastPlayed)
  <2>1. PICK s \in Seq(Nat) : s = << >> /\ Len(s) = 0
    <3>1. << >> \in Seq(Nat) /\ Len(<< >>) = 0
      OBVIOUS
    <3> QED
      BY ONLY <3>1
  <2>2. PICK a : a = audio
    OBVIOUS
  <2>3. a = [prev |-> 0, startup |-> TRUE, played |-> s]
    BY ONLY <2>1, <2>2, Init DEF Init, Audio!AudioInit
  <2>4. LastPlayed = 0
    BY <2>1, <2>2, <2>3 DEF LastPlayed
  <2>5. Idx(0) = 0 /\ 0 \in 0 .. M - 1
    BY SizeFacts, ModSmall DEF Idx
  <2>6. 1 .. Len(a.played) = {}
    BY <2>1, <2>3
  <2>7. AudioOK(a, 0)
    BY <2>1, <2>3, <2>5, <2>6 DEF AudioOK
  <2> QED
    BY <2>2, <2>4, <2>7
<1>3. Bookkeeping
  <2>1. 0 \in 0 .. M - 1 /\ 0 \in 0 .. Packets /\ 0 \in 0 .. Reports
    BY SizeFacts, MediaAssumption
  <2>2. /\ stats \in [gen : Nat, seq : Nat, min : 0 .. M - 1, max : 0 .. M - 1]
        /\ takion \in [at : {"idle", "loaded", "stored"}, loaded : Nat, num : 0 .. M - 1]
        /\ control \in [at : {"idle", "read"}, seq : Nat]
    BY ONLY <2>1, Init DEF Init
  <2>3. packets \in 0 .. Packets /\ reports \in 0 .. Reports /\ owed \in Int
    BY <2>1 DEF Init
  <2>4. raced \in BOOLEAN
    BY DEF Init
  <2> QED
    BY ONLY <2>2, <2>3, <2>4 DEF Bookkeeping
<1>4. ReadsHold /\ CountedOnce
  BY <1>1 DEF Init, ReadsHold, CountedOnce
<1> QED
  BY <1>1, <1>2, <1>3, <1>4 DEF IInv

LEMMA StreamInfoStep == IInv /\ StreamInfo => IInv'
<1> SUFFICES ASSUME IInv, StreamInfo PROVE IInv'
  OBVIOUS
<1>1. VideoInv(video') /\ Received(video'.fp) = Received(video.fp)
  BY StreamInfoKeeps DEF IInv, StreamInfo
<1>2. Counted(video') = Counted(video)
  BY <1>1 DEF Counted
<1> USE DEF StreamInfo, push
<1>3. AudioOK(audio', LastPlayed')
  BY DEF IInv, LastPlayed
<1>4. Bookkeeping'
  BY DEF IInv, Bookkeeping
<1>5. ReadsHold' /\ CountedOnce'
  BY <1>2 DEF IInv, ReadsHold, CountedOnce
<1> QED
  BY <1>1, <1>3, <1>4, <1>5 DEF IInv

LEMMA VideoPacketStep ==
  ASSUME IInv, NEW p \in Positions, NEW unit \in UnitsOf(p), VideoPacket(p, unit)
  PROVE  IInv'
<1>1. PICK x \in AfterPacket(video, p, unit) : video' = x
  BY DEF VideoPacket
<1>2. PICK v : v = video
  OBVIOUS
<1>3. /\ VideoInv(v) /\ Taken(v, p) /\ Near(p, v.pos) /\ Near(p, LastAccepted(v))
      /\ x \in AfterPacket(v, p, unit)
  BY <1>1, <1>2 DEF IInv, VideoPacket
<1>4. /\ VideoInv(x)
      /\ x.cur # v.cur <=> NewFrame(v, p)
      /\ Received(x.fp) = (IF NewFrame(v, p) THEN 0 ELSE Received(v.fp)) + Added(v, p, unit)
  BY ONLY <1>3, p \in Positions, unit \in UnitsOf(p), PacketKeeps
<1>5. /\ Counted(v) \in Nat /\ Added(v, p, unit) \in Nat
      /\ Counted(x) = (IF NewFrame(v, p) THEN 0 ELSE Counted(v)) + Added(v, p, unit)
  BY <1>2, <1>4, CountedNat DEF IInv, Counted, Added
<1>6. PICK g \in Nat : g = IF NewFrame(v, p) THEN Counted(v) ELSE 0
  BY <1>5
<1>7. /\ stats \in [gen : Nat, seq : Nat, min : 0 .. M - 1, max : 0 .. M - 1]
      /\ stats' = [stats EXCEPT !.gen = @ + g]
  BY <1>1, <1>2, <1>4, <1>6 DEF IInv, Bookkeeping, VideoPacket, PushGeneration
<1>8. /\ stats' \in [gen : Nat, seq : Nat, min : 0 .. M - 1, max : 0 .. M - 1]
      /\ stats'.gen = stats.gen + g /\ stats'.seq = stats.seq
      /\ stats.gen \in Nat /\ stats.seq \in Nat
  BY ONLY <1>7, g \in Nat
<1>9. VideoInv(video)'
  BY <1>1, <1>4
<1>10. AudioOK(audio, LastPlayed)'
  BY DEF IInv, VideoPacket, LastPlayed
<1>11. Bookkeeping'
  <2>1. owed' \in Int /\ packets' \in 0 .. Packets
    BY <1>2, <1>5, MediaAssumption DEF IInv, Bookkeeping, VideoPacket
  <2> QED
    BY <1>8, <2>1 DEF IInv, Bookkeeping, VideoPacket
<1>12. ReadsHold'
  BY <1>8 DEF IInv, ReadsHold, VideoPacket
<1>13. CountedOnce'
  <2>1. raced' = raced /\ owed' = owed + Added(v, p, unit) /\ owed \in Int
    BY <1>2 DEF VideoPacket, IInv, Bookkeeping
  <2>2. ~raced => owed = stats.gen + stats.seq + Counted(v)
    BY <1>2 DEF IInv, CountedOnce
  <2>3. ~raced => owed' = stats'.gen + stats'.seq + Counted(x)
    BY ONLY <1>5, <1>6, <1>8, <2>1, <2>2, g \in Nat
  <2> QED
    BY <1>1, <2>1, <2>3 DEF CountedOnce
<1> QED
  BY <1>9, <1>10, <1>11, <1>12, <1>13 DEF IInv

LEMMA AudioPacketStep ==
  ASSUME IInv, NEW p \in 1 .. AudioFrames, AudioPacket(p)
  PROVE  IInv'
<1>1. PICK a : a = audio
  OBVIOUS
<1>2. PICK last : last = LastPlayed
  OBVIOUS
<1>3. /\ AudioOK(a, last) /\ Near(p - AudioFec, last) /\ Near(p + AudioSource - 1, last)
      /\ p \in Int
  BY <1>1, <1>2 DEF IInv, AudioPacket
<1>4. PICK next \in Nat : AudioOK(Audio!AfterAudioPacket(a, p), next)
  BY ONLY <1>3, AudioPacketOK
<1>5. AudioOK(audio', LastPlayed')
  <2>1. PICK b : b = audio'
    OBVIOUS
  <2>2. AudioOK(b, next)
    BY <1>1, <1>4, <2>1 DEF AudioPacket
  <2>3. next = LastPlayed'
    BY <2>1, <2>2 DEF AudioOK, LastPlayed
  <2> QED
    BY <2>1, <2>2, <2>3
<1>6. Bookkeeping'
  <2>1. /\ stats \in [gen : Nat, seq : Nat, min : 0 .. M - 1, max : 0 .. M - 1]
        /\ stats.seq \in Nat /\ packets \in 0 .. Packets
    BY DEF IInv, Bookkeeping
  <2>2. takion' \in [at : {"idle", "loaded", "stored"}, loaded : Nat, num : 0 .. M - 1]
    BY <1>3, <2>1, IdxType DEF AudioPacket
  <2>3. packets' \in 0 .. Packets
    BY <2>1, MediaAssumption DEF AudioPacket
  <2> QED
    BY <2>2, <2>3 DEF IInv, Bookkeeping, AudioPacket
<1>7. VideoInv(video)' /\ ReadsHold' /\ CountedOnce'
  BY DEF IInv, ReadsHold, CountedOnce, AudioPacket
<1> QED
  BY <1>5, <1>6, <1>7 DEF IInv

LEMMA PushStoreStep == IInv /\ PushStore => IInv'
<1> SUFFICES ASSUME IInv, PushStore PROVE IInv'
  OBVIOUS
<1> USE DEF PushStore
<1>1. /\ stats \in [gen : Nat, seq : Nat, min : 0 .. M - 1, max : 0 .. M - 1]
      /\ takion \in [at : {"idle", "loaded", "stored"}, loaded : Nat, num : 0 .. M - 1]
      /\ takion.loaded \in Nat /\ stats.gen \in Nat /\ stats.seq \in Nat
      /\ owed \in Int /\ raced \in BOOLEAN /\ Counted(video) \in Nat
  BY CountedNat DEF IInv, Bookkeeping
<1>2. /\ stats' \in [gen : Nat, seq : Nat, min : 0 .. M - 1, max : 0 .. M - 1]
      /\ stats'.seq = takion.loaded + 1 /\ stats'.gen = stats.gen
      /\ takion' \in [at : {"idle", "loaded", "stored"}, loaded : Nat, num : 0 .. M - 1]
      /\ takion'.at = "stored"
  BY <1>1
<1>3. Bookkeeping'
  BY <1>1, <1>2 DEF IInv, Bookkeeping, Locked
<1>4. ReadsHold'
  BY <1>2 DEF ReadsHold, Locked
<1>5. CountedOnce'
  <2>1. ~raced => takion.loaded = stats.seq /\ owed = stats.gen + stats.seq + Counted(video)
    BY DEF IInv, ReadsHold, CountedOnce
  <2>2. ~raced => owed + 1 = stats.gen + (takion.loaded + 1) + Counted(video)
    BY ONLY <1>1, <2>1
  <2> QED
    BY <1>2, <2>2 DEF CountedOnce, Counted
<1>6. VideoInv(video)' /\ AudioOK(audio, LastPlayed)'
  BY DEF IInv, LastPlayed
<1> QED
  BY <1>3, <1>4, <1>5, <1>6 DEF IInv

LEMMA PushMaxStep == IInv /\ PushMax => IInv'
<1> SUFFICES ASSUME IInv, PushMax PROVE IInv'
  OBVIOUS
<1> USE DEF PushMax
<1>1. /\ stats \in [gen : Nat, seq : Nat, min : 0 .. M - 1, max : 0 .. M - 1]
      /\ takion.num \in 0 .. M - 1 /\ 0 \in 0 .. M - 1
  BY SizeFacts DEF IInv, Bookkeeping
<1>2. /\ stats' \in [gen : Nat, seq : Nat, min : 0 .. M - 1, max : 0 .. M - 1]
      /\ stats'.seq = stats.seq /\ stats'.gen = stats.gen
      /\ takion' \in [at : {"idle", "loaded", "stored"}, loaded : Nat, num : 0 .. M - 1]
      /\ takion'.at = "idle"
  BY <1>1
<1>3. Bookkeeping'
  BY <1>1, <1>2 DEF IInv, Bookkeeping
<1>4. ReadsHold' /\ CountedOnce'
  BY <1>2 DEF IInv, ReadsHold, CountedOnce, Counted
<1>5. VideoInv(video)' /\ AudioOK(audio, LastPlayed)'
  BY DEF IInv, LastPlayed
<1> QED
  BY <1>3, <1>4, <1>5 DEF IInv

LEMMA ReportReadStep == IInv /\ ReportRead => IInv'
<1> SUFFICES ASSUME IInv, ReportRead PROVE IInv'
  OBVIOUS
<1> USE DEF ReportRead, push
<1>1. stats.seq \in Nat /\ reports \in 0 .. Reports /\ Reports \in Nat
  BY MediaAssumption DEF IInv, Bookkeeping
<1>2. control' \in [at : {"idle", "read"}, seq : Nat] /\ control'.seq = stats.seq
      /\ reports' \in 0 .. Reports
  BY <1>1
<1>3. Bookkeeping'
  BY <1>2 DEF IInv, Bookkeeping
<1>4. ReadsHold' /\ CountedOnce'
  BY <1>2 DEF IInv, ReadsHold, CountedOnce, Counted
<1>5. VideoInv(video)' /\ AudioOK(audio, LastPlayed)'
  BY DEF IInv, LastPlayed
<1> QED
  BY <1>3, <1>4, <1>5 DEF IInv

LEMMA ReportResetStep == IInv /\ ReportReset => IInv'
<1> SUFFICES ASSUME IInv, ReportReset PROVE IInv'
  OBVIOUS
<1> USE DEF ReportReset, push
<1>1. /\ stats.gen \in Nat /\ stats.seq \in Nat /\ stats.max \in 0 .. M - 1
      /\ control.seq \in Nat /\ owed \in Int /\ raced \in BOOLEAN /\ Counted(video) \in Nat
  BY CountedNat DEF IInv, Bookkeeping
<1>2. /\ stats' \in [gen : Nat, seq : Nat, min : 0 .. M - 1, max : 0 .. M - 1]
      /\ stats'.gen = 0 /\ stats'.seq = 0
      /\ control' \in [at : {"idle", "read"}, seq : Nat] /\ control'.at = "idle"
  BY <1>1 DEF ResetStats
<1>3. Bookkeeping'
  BY <1>1, <1>2 DEF IInv, Bookkeeping
<1>4. ReadsHold'
  BY <1>2 DEF ReadsHold
<1>5. CountedOnce'
  <2>1. ~raced => control.seq = stats.seq /\ owed = stats.gen + stats.seq + Counted(video)
    BY DEF IInv, ReadsHold, CountedOnce
  <2>2. ~raced => owed - (stats.gen + control.seq) = 0 + 0 + Counted(video)
    BY ONLY <1>1, <2>1
  <2> QED
    BY <1>2, <2>2 DEF CountedOnce, Counted
<1>6. VideoInv(video)' /\ AudioOK(audio, LastPlayed)'
  BY DEF IInv, LastPlayed
<1> QED
  BY <1>3, <1>4, <1>5, <1>6 DEF IInv

LEMMA NextOK == IInv /\ [Next]_vars => IInv'
<1> SUFFICES ASSUME IInv, [Next]_vars PROVE IInv'
  OBVIOUS
<1>1. CASE UNCHANGED vars
  BY <1>1 DEF vars, push, IInv, LastPlayed, Bookkeeping, ReadsHold, CountedOnce, Counted
<1>2. CASE Next
  BY <1>2, StreamInfoStep, VideoPacketStep, AudioPacketStep, PushStoreStep, PushMaxStep,
     ReportReadStep, ReportResetStep DEF Next
<1> QED
  BY <1>1, <1>2

LEMMA AlwaysIInv == Spec => []IInv
BY InitOK, NextOK, PTL DEF Spec
-----------------------------------------------------------------------------
(* What it says of the system                                              *)

\* Every variable keeps its type; above all, the frame processor never writes
\* beyond its slots and counts no unit that is in none (what
\* chiaki_frame_processor_put_unit lets through, and alloc_frame before it).
THEOREM MediaTypeOK == Spec => []TypeOK
<1>1. ASSUME IInv
      PROVE  TypeOK
  <2>1. VideoInv(video) /\ video \in Receiver /\ FrameOK(video.fp)
    BY <1>1 DEF IInv, VideoInv, ReceiverOK
  <2>2. /\ video.profiles \in {0, Profiles} /\ video.profileCur \in -1 .. Profiles - 1
        /\ {video.cur, video.prev} \subseteq -1 .. M - 1 /\ video.complete \in 0 .. M - 1
        /\ video.refs \in [1 .. Refs -> -1 .. M - 1]
        /\ video.pos \in {0} \cup Positions /\ video.holds \subseteq Positions
        /\ video.shown \in Seq(Pictures)
    BY ONLY <2>1 DEF Receiver
  <2>3. /\ video.fp.slots \subseteq 0 .. SlotsSize(video.fp) - 1
        /\ {video.fp.sourceGot, video.fp.fecGot} \subseteq Nat
        /\ Counted(video) <= Cardinality(video.fp.slots)
    BY ONLY <2>1, FrameFacts DEF FrameOK, Counted
  <2>4. audio.prev \in 0 .. M - 1 /\ audio.startup \in BOOLEAN
    BY <1>1 DEF IInv, AudioOK
  <2>5. Bookkeeping
    BY <1>1 DEF IInv
  <2> QED
    BY ONLY <2>2, <2>3, <2>4, <2>5 DEF TypeOK, Bookkeeping
<1> QED
  BY <1>1, AlwaysIInv, PTL

\* Pictures reach the decoder, and sound frames the sink, in the order of the
\* stream and never twice, however late, mixed or repeated the packets come and
\* wherever the 16-bit numbers wrap (chiaki_video_receiver_av_packet,
\* chiaki_audio_receiver_frame).
THEOREM MediaInOrder == Spec => []InOrder
<1>1. ASSUME IInv
      PROVE  InOrder
  <2>1. PicturesInOrder
    <3>1. video.shown \in Seq(Pictures) /\ ShownOK(video)
      BY <1>1, ReceiverFacts DEF IInv, VideoInv, ReceiverOK
    <3>2. DOMAIN video.shown = 1 .. Len(video.shown)
      BY <3>1
    <3> QED
      BY ONLY <3>1, <3>2 DEF ShownOK, PicturesInOrder
  <2>2. SoundInOrder
    <3>1. audio.played \in Seq(Nat) /\ AudioOK(audio, LastPlayed)
      BY <1>1 DEF IInv, AudioOK
    <3>2. DOMAIN audio.played = 1 .. Len(audio.played)
      BY <3>1
    <3> QED
      BY ONLY <3>1, <3>2 DEF AudioOK, SoundInOrder
  <2> QED
    BY <2>1, <2>2 DEF InOrder
<1> QED
  BY <1>1, AlwaysIInv, PTL

\* The console hears of every frame before the current one whose picture the
\* decoder did not take, and of no picture it took: the reports a new frame and
\* a flush that fails send leave no gap, at no wrap and after no loss
\* (stream_connection_send_corrupt_frame in videoreceiver.c).
THEOREM MediaGapsReported == Spec => []GapsReported
<1>1. ASSUME IInv
      PROVE  GapsReported
  BY <1>1 DEF IInv, VideoInv, ReceiverOK, ReportsOK, GapsReported
<1> QED
  BY <1>1, AlwaysIInv, PTL

\* Every unit and every audio packet that was received is reported once, unless
\* a store of push_seq and a reset fall into each other (packetstats.c).
THEOREM MediaCountedOnce == Spec => []CountedOnce
<1>1. IInv => CountedOnce
  BY DEF IInv
<1> QED
  BY <1>1, AlwaysIInv, PTL

\* A picture is put together from units of its own frame only, and is handed
\* over while the decoder has the header of its own profile, although the next
\* profile's header goes out before the old frame is flushed
\* (chiaki_video_receiver_av_packet).
THEOREM PicturesOfOneFrame == Spec => [](OwnUnits /\ OwnHeader)
<1>1. ASSUME IInv
      PROVE  OwnUnits /\ OwnHeader
  <2>1. video.shown \in Seq(Pictures) /\ ShownOK(video) /\ video.holds \subseteq {video.pos}
    BY <1>1, ReceiverFacts DEF IInv, VideoInv, ReceiverOK
  <2>2. DOMAIN video.shown = 1 .. Len(video.shown)
    BY <2>1
  <2> QED
    BY ONLY <2>1, <2>2 DEF ShownOK, OwnUnits, OwnHeader
<1> QED
  BY <1>1, AlwaysIInv, PTL

LEMMA SubSeqOf ==
  ASSUME NEW shown \in Seq(Pictures), NEW n \in 0 .. Len(shown)
  PROVE  LET s == SubSeq(shown, 1, n)
         IN s \in Seq(Pictures) /\ Len(s) = n /\ \A x \in 1 .. n : s[x] = shown[x]
OBVIOUS

\* Until the frame numbers have gone round once, a picture that may need
\* another is handed over only after the decoder took that one, although the
\* code looks references up by number alone (have_ref_frame).  Afterwards a
\* reference that is M frames old may be taken for a recent one, if fewer than
\* Refs pictures were taken in between.
THEOREM PicturesIntactFirstRound == Frames <= M => (Spec => []PicturesIntact)
<1> SUFFICES ASSUME Frames <= M
             PROVE  Spec => []PicturesIntact
  OBVIOUS
<1>1. ASSUME IInv
      PROVE  PicturesIntact
  <2>1. /\ video.shown \in Seq(Pictures) /\ ShownOK(video) /\ RefsOK(video)
        /\ video.holds \subseteq {video.pos}
    BY <1>1, ReceiverFacts DEF IInv, VideoInv, ReceiverOK
  <2>2. PICK shown \in Seq(Pictures) : shown = video.shown
    BY <2>1
  <2>3. DOMAIN shown = 1 .. Len(shown) /\ Len(shown) \in Nat
    BY <2>1
  <2>4. OwnUnits /\ OwnHeader
    BY ONLY <2>1, <2>2, <2>3 DEF ShownOK, OwnUnits, OwnHeader
  <2>5. ASSUME NEW i \in 1 .. Len(shown), shown[i].needs # 0
        PROVE  shown[i].needs \in AcceptedIn(SubSeq(shown, 1, i - 1))
    <3>1. PICK j \in 1 .. i - 1 : RefersTo(shown, i, j)
      BY <2>1, <2>2, <2>5 DEF RefsOK
    <3>2. /\ j \in 1 .. Len(shown) /\ shown[j].pos \in Nat \ {0}
          /\ shown[i].needs \in Nat /\ shown[i].pos \in 1 .. Frames
      BY <2>3, PictureTypes DEF Positions
    <3>3. shown[j].pos = shown[i].needs
      <4>1. PICK a \in Int : a = shown[j].pos
        BY <3>2
      <4>2. PICK b \in Int : b = shown[i].needs
        BY <3>2
      <4>3. a <= b /\ a > 0 /\ b < shown[i].pos /\ Idx(a) = Idx(b)
        BY <3>1, <3>2, <4>1, <4>2 DEF RefersTo
      <4>4. a - b < M /\ b - a < M
        <5>1. PICK x \in 1 .. Frames : x = shown[i].pos
          BY <3>2
        <5>2. Frames \in Nat /\ M \in Nat
          BY VideoAssumption
        <5> QED
          BY ONLY <4>3, <5>1, <5>2, Frames <= M, a \in Int, b \in Int
      <4> QED
        BY <4>1, <4>2, <4>3, <4>4, IdxDistinct
    <3>4. PICK s \in Seq(Pictures) : /\ s = SubSeq(shown, 1, i - 1) /\ Len(s) = i - 1
                                     /\ \A x \in 1 .. i - 1 : s[x] = shown[x]
      <4>1. i - 1 \in 0 .. Len(shown)
        BY <2>3
      <4> QED
        BY <4>1, SubSeqOf
    <3>5. s[j].ok /\ s[j].pos = shown[i].needs
      BY <3>1, <3>3, <3>4 DEF RefersTo
    <3>6. shown[i].needs \in AcceptedIn(s)
      BY <3>4, <3>5, AcceptedIs
    <3> QED
      BY <3>4, <3>6
  <2> QED
    BY <2>2, <2>3, <2>4, <2>5 DEF PicturesIntact, Decodable
<1> QED
  BY <1>1, AlwaysIInv, PTL
=============================================================================
