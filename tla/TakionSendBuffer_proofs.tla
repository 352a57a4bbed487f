---------------------- MODULE TakionSendBuffer_proofs ----------------------
(***************************************************************************)
(* For any number of senders and messages and any size of buffer: every    *)
(* message has one owner, and none leaves the buffer before the console    *)
(* has acknowledged it, unless all its tries are used.                     *)
(***************************************************************************)
EXTENDS TakionSendBuffer, SeqNum_proofs, FiniteSetTheorems

\* The message of a sender is numbered, its own, and not in the buffer yet.
SenderInv ==
  /\ \A t \in Senders : /\ sender[t].at = "idle" <=> sender[t].msg = -1
                        /\ sender[t].msg < nextMsg
                        /\ sender[t].msg \notin Buffered
  /\ \A t, u \in Senders : t # u /\ sender[t].msg = sender[u].msg => sender[t].msg = -1

\* No two packets of the buffer are the same message.
SlotInv ==
  /\ \A i \in 1 .. count : slots[i].msg # -1 /\ slots[i].msg < nextMsg
  /\ \A i, j \in 1 .. count : i # j => slots[i].msg # slots[j].msg

Busy(m) == m >= nextMsg \/ \E t \in Senders : sender[t].msg = m

FreedInv == \A m \in Msgs : freed[m] = IF Busy(m) \/ m \in Buffered THEN 0 ELSE 1

ScanInv == rt.at \in {"gaveup", "victim"} => gaveUp = TRUE /\ rt.i <= BufSize

BufferInv == TypeOK /\ SenderInv /\ SlotInv /\ FreedInv /\ ScanInv

Slots == [1 .. BufSize -> [msg : Msgs \cup {-1}, tries : 0 .. TriesMax, age : 0 .. AgeMax]]

-----------------------------------------------------------------------------
(* Compaction keeps the packets it is to keep, each once. *)

\* The elements of a finite set of numbers by their rank, as Compacted finds them.
Ranked(keep, i) == CHOOSE k \in keep : Cardinality({j \in keep : j <= k}) = i

LEMMA RankedIsBijection ==
  ASSUME NEW n \in Nat, NEW keep \in SUBSET (1 .. n)
  PROVE  /\ Cardinality(keep) \in 0 .. n
         /\ \A i \in 1 .. Cardinality(keep) :
              Ranked(keep, i) \in keep
         /\ \A i, j \in 1 .. Cardinality(keep) :
              i # j => Ranked(keep, i) # Ranked(keep, j)
         /\ \A k \in keep : \E i \in 1 .. Cardinality(keep) : Ranked(keep, i) = k
<1> DEFINE c == Cardinality(keep)
           Below(k) == {j \in keep : j <= k}
           R(k) == Cardinality(Below(k))
<1>1. IsFiniteSet(keep) /\ c \in 0 .. n
  <2>1. IsFiniteSet(1 .. n) /\ Cardinality(1 .. n) = n
    BY FS_Interval
  <2>2. IsFiniteSet(keep) /\ c <= n
    BY <2>1, FS_Subset
  <2> QED
    BY <2>2, FS_CardinalityType
<1>2. \A k \in keep : IsFiniteSet(Below(k)) /\ R(k) \in 1 .. c
  <2> TAKE k \in keep
  <2>1. Below(k) \in SUBSET keep /\ k \in Below(k)
    OBVIOUS
  <2>2. IsFiniteSet(Below(k)) /\ R(k) <= c
    BY <1>1, <2>1, FS_Subset
  <2>3. R(k) \in Nat /\ R(k) # 0
    BY <2>1, <2>2, FS_CardinalityType, FS_EmptySet
  <2> QED
    BY <1>1, <2>2, <2>3
<1>3. \A k, l \in keep : k < l => R(k) < R(l)
  <2> SUFFICES ASSUME NEW k \in keep, NEW l \in keep, k < l PROVE R(k) < R(l)
    OBVIOUS
  <2>1. Below(k) \in SUBSET Below(l) /\ l \in Below(l) /\ l \notin Below(k)
    <3>1. \A j \in keep : j <= k => j <= l
      OBVIOUS
    <3>2. l <= l /\ ~(l <= k)
      OBVIOUS
    <3> QED
      BY ONLY <3>1, <3>2, l \in keep
  <2>2. Cardinality(Below(k)) <= Cardinality(Below(l))
        /\ Cardinality(Below(k)) # Cardinality(Below(l))
    BY <1>2, <2>1, FS_Subset
  <2> QED
    BY <1>1, <1>2, <2>2
<1>4. \A k, l \in keep : R(k) = R(l) => k = l
  <2> SUFFICES ASSUME NEW k \in keep, NEW l \in keep, k # l PROVE R(k) # R(l)
    OBVIOUS
  <2>1. k < l \/ l < k
    OBVIOUS
  <2>2. R(k) \in Int /\ R(l) \in Int
    BY <1>1, <1>2
  <2> HIDE DEF R
  <2> QED
    BY <1>3, <2>1, <2>2
\* An injection between sets of one size reaches every element.
<1>5. \A i \in 1 .. c : \E k \in keep : R(k) = i
  <2> DEFINE f == [k \in keep |-> R(k)]
  <2>1. f \in Injection(keep, 1 .. c)
    BY <1>2, <1>4 DEF Injection, IsInjective
  <2>2. IsFiniteSet(1 .. c) /\ Cardinality(1 .. c) = c
    BY <1>1, FS_Interval
  <2>3. f \in Surjection(keep, 1 .. c)
    BY <2>1, <2>2, FS_Injection
  <2> QED
    BY <2>3 DEF Surjection
<1>6. \A i \in 1 .. c : Ranked(keep, i) \in keep /\ R(Ranked(keep, i)) = i
  BY <1>5 DEF Ranked
<1>7. \A k \in keep : Ranked(keep, R(k)) = k
  BY <1>2, <1>4, <1>6
<1> QED
  BY <1>1, <1>2, <1>6, <1>7

\* The slots of S that hold message m.
Holding(S, m) == {i \in S : slots[i].msg = m}

\* Packets that are different messages count for at most one of each.
LEMMA OneOrNone ==
  ASSUME NEW I, NEW S \in SUBSET I,
         \A i, j \in I : i # j => slots[i].msg # slots[j].msg
  PROVE  \A m : Cardinality(Holding(S, m)) = IF \E i \in S : slots[i].msg = m THEN 1 ELSE 0
<1> SUFFICES ASSUME NEW m
             PROVE  Cardinality(Holding(S, m)) = IF \E i \in S : slots[i].msg = m THEN 1 ELSE 0
  OBVIOUS
<1>1. CASE \E i \in S : slots[i].msg = m
  <2>1. PICK i \in S : slots[i].msg = m
    BY <1>1
  <2>2. Holding(S, m) = {i}
    BY <2>1 DEF Holding
  <2> QED
    BY <1>1, <2>2, FS_Singleton
<1>2. CASE ~ \E i \in S : slots[i].msg = m
  <2>1. Holding(S, m) = {}
    BY <1>2 DEF Holding
  <2> QED
    BY <1>2, <2>1, FS_EmptySet
<1> QED
  BY <1>1, <1>2

Gone(a) == {i \in 1 .. count : Covered(slots[i].msg, a)}

LEMMA CompactedOK ==
  ASSUME count \in Nat, BufSize \in Nat, count <= BufSize, slots \in Slots,
         NEW keep \in SUBSET (1 .. count), NEW n, n = Cardinality(keep),
         NEW new, new = Compacted(keep)
  PROVE  /\ n \in 0 .. count /\ new \in Slots
         /\ \A i \in 1 .. n : \E k \in keep : new[i] = slots[k]
         /\ \A k \in keep : \E i \in 1 .. n : new[i] = slots[k]
         /\ (\A i, j \in 1 .. count : i # j => slots[i].msg # slots[j].msg)
              => \A i, j \in 1 .. n : i # j => new[i].msg # new[j].msg
<1>1. /\ n \in 0 .. count
      /\ \A i \in 1 .. n : Ranked(keep, i) \in keep
      /\ \A i, j \in 1 .. n : i # j => Ranked(keep, i) # Ranked(keep, j)
      /\ \A k \in keep : \E i \in 1 .. n : Ranked(keep, i) = k
  BY RankedIsBijection
<1>2. /\ \A i \in 1 .. BufSize : new[i] = IF i <= n THEN slots[Ranked(keep, i)]
                                          ELSE [Free EXCEPT !.msg = slots[i].msg]
      /\ new = [i \in 1 .. BufSize |-> new[i]]
  BY DEF Compacted, Ranked
<1>r. /\ n \in Nat /\ n <= BufSize
      /\ \A k \in keep : k \in 1 .. BufSize
  <2>1. n \in Nat /\ n <= BufSize
    BY <1>1
  <2>2. \A k \in 1 .. count : k \in 1 .. BufSize
    OBVIOUS
  <2> QED
    BY <2>1, <2>2
<1>3. \A i \in 1 .. n : i \in 1 .. BufSize /\ new[i] = slots[Ranked(keep, i)]
  <2> TAKE i \in 1 .. n
  <2>1. i \in 1 .. BufSize /\ i <= n
    BY ONLY <1>r, i \in 1 .. n, BufSize \in Nat
  <2> QED
    BY ONLY <1>2, <2>1
<1> DEFINE Packets == [msg : Msgs \cup {-1}, tries : 0 .. TriesMax, age : 0 .. AgeMax]
<1>4. \A i \in 1 .. BufSize : slots[i] \in Packets
  BY DEF Slots
<1>5. \A m \in Msgs \cup {-1} : [Free EXCEPT !.msg = m] \in Packets
  BY BufferAssumption DEF Free, AgeMax
<1>6. \A p \in Packets : p.msg \in Msgs \cup {-1}
  OBVIOUS
<1> HIDE DEF Packets
<1>7. \A i \in 1 .. BufSize : new[i] \in Packets
  <2> TAKE i \in 1 .. BufSize
  <2>1. CASE i <= n
    <3>1. i \in 1 .. n
      BY ONLY <1>r, <2>1, i \in 1 .. BufSize, BufSize \in Nat
    <3>2. Ranked(keep, i) \in 1 .. BufSize
      BY ONLY <1>1, <1>r, <3>1
    <3> QED
      BY <1>3, <1>4, <3>1, <3>2
  <2>2. CASE ~ (i <= n)
    <3>1. new[i] = [Free EXCEPT !.msg = slots[i].msg]
      BY <1>2, <2>2
    <3>2. slots[i].msg \in Msgs \cup {-1}
      BY <1>4, <1>6
    <3> QED
      BY ONLY <1>5, <3>1, <3>2
  <2> QED
    BY <2>1, <2>2
<1>8. new \in Slots
  BY <1>2, <1>7 DEF Slots, Packets
<1>9. (\A i, j \in 1 .. count : i # j => slots[i].msg # slots[j].msg)
        => \A i, j \in 1 .. n : i # j => new[i].msg # new[j].msg
  <2> SUFFICES ASSUME \A i, j \in 1 .. count : i # j => slots[i].msg # slots[j].msg,
                      NEW i \in 1 .. n, NEW j \in 1 .. n, i # j
               PROVE  new[i].msg # new[j].msg
    OBVIOUS
  <2>1. /\ Ranked(keep, i) \in 1 .. count /\ Ranked(keep, j) \in 1 .. count
        /\ Ranked(keep, i) # Ranked(keep, j)
    BY <1>1
  <2> QED
    BY <1>3, <2>1
<1>10. \A i \in 1 .. n : \E k \in keep : new[i] = slots[k]
  BY ONLY <1>1, <1>3
<1>11. \A k \in keep : \E i \in 1 .. n : new[i] = slots[k]
  BY ONLY <1>1, <1>3
<1> QED
  BY ONLY <1>1, <1>8, <1>9, <1>10, <1>11

\* What an acknowledgement, or giving a packet up, does to the buffer.
LEMMA AckEffect ==
  ASSUME TypeOK, SlotInv, NEW a, Ack(a)
  PROVE  /\ count' \in 0 .. count /\ slots' \in Slots /\ freed' \in [Msgs -> Nat]
         /\ \A i \in 1 .. count' : \E k \in (1 .. count) \ Gone(a) : slots'[i] = slots[k]
         /\ \A k \in (1 .. count) \ Gone(a) : \E i \in 1 .. count' : slots'[i] = slots[k]
         /\ \A i, j \in 1 .. count' : i # j => slots'[i].msg # slots'[j].msg
         /\ \A m \in Msgs : freed'[m] = freed[m]
              + (IF \E i \in Gone(a) : slots[i].msg = m THEN 1 ELSE 0)
<1>1. count \in Nat /\ count <= BufSize /\ BufSize \in Nat /\ slots \in Slots
      /\ freed \in [Msgs -> Nat]
  <2>1. BufSize \in Nat
    BY BufferAssumption
  <2>2. count \in 0 .. BufSize /\ slots \in Slots /\ freed \in [Msgs -> Nat]
    BY DEF TypeOK, Slots
  <2> QED
    BY ONLY <2>1, <2>2
<1>2. PICK gone \in SUBSET (1 .. count) : gone = Gone(a)
  BY DEF Gone
<1>3. PICK keep \in SUBSET (1 .. count) : keep = (1 .. count) \ gone
  OBVIOUS
<1>4. slots' = Compacted(keep) /\ count' = count - Cardinality(gone)
  BY <1>2, <1>3 DEF Ack, Gone
<1>f. freed' = [m \in Msgs |-> freed[m] + Cardinality(Holding(gone, m))]
  BY <1>2 DEF Ack, Gone, Holding
<1>5. count' = Cardinality(keep)
  <2>1. IsFiniteSet(1 .. count) /\ Cardinality(1 .. count) = count
    BY <1>1, FS_Interval
  <2>2. Cardinality(keep) = Cardinality(1 .. count) - Cardinality((1 .. count) \cap gone)
    BY <1>3, <2>1, FS_Difference
  <2>3. (1 .. count) \cap gone = gone
    OBVIOUS
  <2> QED
    BY <1>4, <2>1, <2>2, <2>3
<1>6. \A i, j \in 1 .. count : i # j => slots[i].msg # slots[j].msg
  BY DEF SlotInv
<1>7. /\ count' \in 0 .. count /\ slots' \in Slots
      /\ \A i \in 1 .. count' : \E k \in keep : slots'[i] = slots[k]
      /\ \A k \in keep : \E i \in 1 .. count' : slots'[i] = slots[k]
      /\ \A i, j \in 1 .. count' : i # j => slots'[i].msg # slots'[j].msg
  <2>1. \A n, new : n = Cardinality(keep) /\ new = Compacted(keep) =>
          /\ n \in 0 .. count /\ new \in Slots
          /\ \A i \in 1 .. n : \E k \in keep : new[i] = slots[k]
          /\ \A k \in keep : \E i \in 1 .. n : new[i] = slots[k]
          /\ \A i, j \in 1 .. n : i # j => new[i].msg # new[j].msg
    BY <1>1, <1>6, CompactedOK
  <2> QED
    BY ONLY <1>4, <1>5, <2>1
<1>8. \A m : Cardinality(Holding(gone, m)) = IF \E i \in gone : slots[i].msg = m THEN 1 ELSE 0
  <2> DEFINE I == 1 .. count
  <2>1. gone \in SUBSET I /\ \A i, j \in I : i # j => slots[i].msg # slots[j].msg
    BY <1>6
  <2> HIDE DEF I
  <2> QED
    BY ONLY <2>1, OneOrNone
<1>9. freed' \in [Msgs -> Nat]
      /\ \A m \in Msgs : freed'[m] = freed[m]
              + (IF \E i \in gone : slots[i].msg = m THEN 1 ELSE 0)
  <2>1. \A m \in Msgs : freed[m] \in Nat
    BY ONLY <1>1
  <2>2. \A m \in Msgs : /\ freed'[m] = freed[m] + Cardinality(Holding(gone, m))
                        /\ Cardinality(Holding(gone, m)) \in Nat
    BY ONLY <1>f, <1>8
  <2>3. freed' = [m \in Msgs |-> freed'[m]]
    BY ONLY <1>f
  <2>4. \A m \in Msgs : freed'[m] \in Nat
    BY ONLY <2>1, <2>2
  <2> QED
    BY ONLY <1>8, <2>2, <2>3, <2>4
<1> QED
  BY ONLY <1>2, <1>3, <1>7, <1>9

-----------------------------------------------------------------------------
(* Steps and the parts of the invariant they can disturb. *)

SenderStates == [at : {"idle", "send", "push"}, msg : Msgs \cup {-1}]
ThreadStates == [at : {"check", "commit", "asleep", "woken", "timed", "scan",
                       "gaveup", "victim", "acked", "done"},
                 i : 1 .. BufSize + 1, nowAge : 0 .. ScanMax, victim : Msgs \cup {-1}]

LEMMA BufferInitOK == Init => BufferInv
<1> SUFFICES ASSUME Init PROVE BufferInv
  OBVIOUS
<1>1. {Messages, M, Start, BufSize, TriesMax, Timeout, ScanMax} \subseteq Nat /\ BufSize > 0
  BY BufferAssumption
<1>2. sender \in [Senders -> SenderStates]
  BY DEF Init, SenderStates
<1>3. slots \in Slots
  BY <1>1 DEF Init, Slots, Free, AgeMax
<1>4. rt \in ThreadStates
  BY <1>1 DEF Init, ThreadStates
<1>5. shouldStop \in BOOLEAN /\ gaveUp \in BOOLEAN
  BY Zenon DEF Init
<1>6. /\ nextMsg \in 0 .. Messages /\ count \in 0 .. BufSize
      /\ fini \in {"no", "flagged", "joining", "freed"}
      /\ freed \in [Msgs -> Nat] /\ acked \subseteq Msgs
      /\ sent \subseteq Msgs /\ got \subseteq Msgs
  BY <1>1 DEF Init
<1>7. TypeOK
  BY <1>2, <1>3, <1>4, <1>5, <1>6 DEF TypeOK, SenderStates, Slots, ThreadStates
<1>8. Buffered = {} /\ nextMsg = 0 /\ count = 0
  BY DEF Init, Buffered
<1>9. SenderInv /\ SlotInv /\ ScanInv
  BY <1>8 DEF Init, SenderInv, SlotInv, ScanInv
<1>10. FreedInv
  BY <1>1, <1>8 DEF Init, FreedInv, Busy, Msgs
<1> QED
  BY <1>7, <1>9, <1>10 DEF BufferInv

\* A step that leaves the messages where they are.
LEMMA SameMessages ==
  ASSUME SenderInv, SlotInv, FreedInv, UNCHANGED <<nextMsg, sender, count, freed>>,
         \A i \in 1 .. count : slots'[i].msg = slots[i].msg
  PROVE  SenderInv' /\ SlotInv' /\ FreedInv' /\ Buffered' = Buffered
<1>1. Buffered' = Buffered
  BY DEF Buffered
<1>2. SenderInv'
  BY <1>1 DEF SenderInv
<1>3. SlotInv'
  BY DEF SlotInv
<1>4. FreedInv'
  BY <1>1 DEF FreedInv, Busy
<1> QED
  BY <1>1, <1>2, <1>3, <1>4

\* A packet that is acknowledged, or given up, leaves the buffer and is freed.
LEMMA AckKeeps ==
  ASSUME BufferInv, NEW a, Ack(a), UNCHANGED <<nextMsg, sender>>
  PROVE  /\ count' \in 0 .. BufSize /\ slots' \in Slots /\ freed' \in [Msgs -> Nat]
         /\ SenderInv' /\ SlotInv' /\ FreedInv'
         /\ \A m \in Buffered \ Buffered' : Covered(m, a)
<1>1. TypeOK /\ SenderInv /\ SlotInv /\ FreedInv
  BY DEF BufferInv
<1>2. /\ count' \in 0 .. count /\ slots' \in Slots /\ freed' \in [Msgs -> Nat]
      /\ \A i \in 1 .. count' : \E k \in (1 .. count) \ Gone(a) : slots'[i] = slots[k]
      /\ \A k \in (1 .. count) \ Gone(a) : \E i \in 1 .. count' : slots'[i] = slots[k]
      /\ \A i, j \in 1 .. count' : i # j => slots'[i].msg # slots'[j].msg
  BY <1>1, AckEffect
<1>3. \A m \in Msgs : freed'[m] = freed[m]
              + (IF \E i \in Gone(a) : slots[i].msg = m THEN 1 ELSE 0)
  BY <1>1, AckEffect
<1>4. count \in 0 .. BufSize /\ BufSize \in Nat /\ freed \in [Msgs -> Nat]
  BY <1>1, BufferAssumption DEF TypeOK
<1>5. Buffered' = {slots[k].msg : k \in (1 .. count) \ Gone(a)}
  BY <1>2 DEF Buffered
<1>6. Buffered' \subseteq Buffered
  BY <1>5 DEF Buffered
<1>7. SlotInv'
  BY <1>1, <1>2 DEF SlotInv
<1>8. SenderInv'
  BY <1>1, <1>6 DEF SenderInv
\* Messages are told apart by their slot, so what is gone is not also kept.
<1>9. \A m : m \in Buffered' <=> m \in Buffered /\ ~ \E i \in Gone(a) : slots[i].msg = m
  BY <1>1, <1>5 DEF SlotInv, Buffered, Gone
<1>10. \A i \in Gone(a) : slots[i].msg \in Buffered /\ Covered(slots[i].msg, a)
  BY DEF Gone, Buffered
<1>11. FreedInv'
  <2> SUFFICES ASSUME NEW m \in Msgs
               PROVE  freed'[m] = IF Busy(m) \/ m \in Buffered' THEN 0 ELSE 1
    BY DEF FreedInv, Busy
  <2>1. freed[m] = IF Busy(m) \/ m \in Buffered THEN 0 ELSE 1
    BY <1>1 DEF FreedInv
  <2>2. m \in Buffered => ~Busy(m)
    <3>1. m \in Buffered => m < nextMsg /\ nextMsg \in Int
      BY <1>1 DEF SlotInv, Buffered, TypeOK
    <3> QED
      BY <1>1, <3>1 DEF SenderInv, Busy, Msgs
  <2> QED
    BY <1>3, <1>9, <1>10, <2>1, <2>2
<1> QED
  BY <1>2, <1>4, <1>7, <1>8, <1>9, <1>10, <1>11

\* What the proofs of the steps read from the type invariant.
LEMMA TypeFacts ==
  ASSUME TypeOK
  PROVE  /\ {Messages, M, Start, BufSize, TriesMax, Timeout, ScanMax, AgeMax} \subseteq Nat
         /\ BufSize > 0 /\ ScanMax <= AgeMax
         /\ nextMsg \in 0 .. Messages /\ sender \in [Senders -> SenderStates]
         /\ count \in 0 .. BufSize /\ slots \in Slots
         /\ shouldStop \in BOOLEAN /\ rt \in ThreadStates
         /\ fini \in {"no", "flagged", "joining", "freed"}
         /\ freed \in [Msgs -> Nat] /\ gaveUp \in BOOLEAN
         /\ acked \subseteq Msgs /\ sent \subseteq Msgs /\ got \subseteq Msgs
         /\ rt.i \in 1 .. BufSize + 1 /\ rt.nowAge \in 0 .. ScanMax
         /\ \A i \in 1 .. BufSize : /\ slots[i].msg \in Msgs \cup {-1}
                                    /\ slots[i].tries \in 0 .. TriesMax
                                    /\ slots[i].age \in 0 .. AgeMax
<1>1. /\ {Messages, M, Start, BufSize, TriesMax, Timeout, ScanMax, AgeMax} \subseteq Nat
      /\ BufSize > 0 /\ ScanMax <= AgeMax
  BY BufferAssumption DEF AgeMax
<1>2. rt.i \in 1 .. BufSize + 1 /\ rt.nowAge \in 0 .. ScanMax
  BY DEF TypeOK
<1>3. \A i \in 1 .. BufSize : /\ slots[i].msg \in Msgs \cup {-1}
                              /\ slots[i].tries \in 0 .. TriesMax
                              /\ slots[i].age \in 0 .. AgeMax
  BY DEF TypeOK
<1> QED
  BY <1>1, <1>2, <1>3 DEF TypeOK, SenderStates, Slots, ThreadStates

\* The steps of a sender before the buffer gets its message.
LEMMA NumberKeeps ==
  ASSUME BufferInv, NEW t \in Senders, Number(t)
  PROVE  BufferInv'
<1>1. TypeOK /\ SenderInv /\ SlotInv /\ FreedInv /\ ScanInv
  BY DEF BufferInv
<1>2. /\ Messages \in Nat /\ nextMsg \in 0 .. Messages /\ nextMsg < Messages
      /\ sender \in [Senders -> SenderStates] /\ nextMsg' = nextMsg + 1
      /\ sender' = [sender EXCEPT ![t] = [at |-> "send", msg |-> nextMsg]]
      /\ sender[t].at = "idle"
      /\ UNCHANGED <<slots, count, shouldStop, rt, fini, freed, gaveUp, acked, sent, got>>
  BY <1>1, TypeFacts DEF Number, data, ghosts
<1>3. TypeOK'
  <2>1. [at |-> "send", msg |-> nextMsg] \in SenderStates
    BY <1>2 DEF SenderStates, Msgs
  <2>2. sender' \in [Senders -> SenderStates] /\ nextMsg' \in 0 .. Messages
    BY <1>2, <2>1
  <2> QED
    BY <1>1, <1>2, <2>2 DEF TypeOK, SenderStates
<1>4. Buffered' = Buffered /\ \A m \in Buffered : m < nextMsg
  BY <1>1, <1>2 DEF Buffered, SlotInv
<1>5. \A u \in Senders : sender'[u] = IF u = t THEN [at |-> "send", msg |-> nextMsg] ELSE sender[u]
  BY <1>2
<1>6. sender[t].msg = -1
  BY <1>1, <1>2 DEF SenderInv
<1>m. \A u \in Senders : sender[u].msg \in Int /\ sender[u].msg < nextMsg
  BY <1>1, <1>2 DEF SenderInv, SenderStates, Msgs
<1>7. SenderInv'
  <2>1. \A u \in Senders : /\ sender'[u].at = "idle" <=> sender'[u].msg = -1
                           /\ sender'[u].msg < nextMsg'
                           /\ sender'[u].msg \notin Buffered'
    <3> TAKE u \in Senders
    <3>1. CASE u = t
      BY <1>2, <1>4, <1>5, <3>1
    <3>2. CASE u # t
      BY <1>1, <1>2, <1>4, <1>5, <1>m, <3>2 DEF SenderInv
    <3> QED
      BY <3>1, <3>2
  <2>2. \A u, v \in Senders : u # v /\ sender'[u].msg = sender'[v].msg => sender'[u].msg = -1
    BY <1>1, <1>2, <1>5, <1>m DEF SenderInv
  <2> QED
    BY <2>1, <2>2 DEF SenderInv
<1>8. SlotInv'
  <2>1. \A i \in 1 .. count : slots[i].msg \in Int /\ slots[i].msg < nextMsg + 1
    <3> TAKE i \in 1 .. count
    <3>1. slots[i].msg \in Msgs \cup {-1} /\ slots[i].msg < nextMsg
      BY <1>1, TypeFacts DEF SlotInv
    <3> QED
      BY <1>2, <3>1 DEF Msgs
  <2> QED
    BY <1>1, <1>2, <2>1 DEF SlotInv
<1>9. FreedInv'
  <2> SUFFICES ASSUME NEW m \in Msgs PROVE Busy(m)' <=> Busy(m)
    BY <1>1, <1>2, <1>4 DEF FreedInv
  <2>1. m \in Int /\ m # -1
    BY <1>2 DEF Msgs
  <2> QED
    BY <1>2, <1>5, <1>6, <2>1 DEF Busy
<1>10. ScanInv'
  BY <1>1, <1>2 DEF ScanInv
<1> QED
  BY <1>3, <1>7, <1>8, <1>9, <1>10 DEF BufferInv

LEMMA SendNowKeeps ==
  ASSUME BufferInv, NEW t \in Senders, SendNow(t)
  PROVE  BufferInv'
<1>1. TypeOK /\ SenderInv /\ SlotInv /\ FreedInv /\ ScanInv
  BY DEF BufferInv
<1>2. /\ sender \in [Senders -> SenderStates] /\ sender[t].at = "send"
      /\ sender' = [sender EXCEPT ![t].at = "push"] /\ sent' = sent \cup {sender[t].msg}
      /\ UNCHANGED <<nextMsg, slots, count, shouldStop, rt, fini, freed, gaveUp, acked, got>>
  BY <1>1, TypeFacts DEF SendNow, data, ghosts
<1>3. sender[t].msg \in Msgs /\ sender[t].msg # -1
  BY <1>1, <1>2 DEF SenderInv, SenderStates
<1>4. sender' \in [Senders -> SenderStates]
      /\ \A u \in Senders : /\ sender'[u].msg = sender[u].msg
                            /\ sender'[u].at = IF u = t THEN "push" ELSE sender[u].at
  BY <1>2 DEF SenderStates
<1>5. TypeOK'
  BY <1>1, <1>2, <1>3, <1>4 DEF TypeOK, SenderStates
<1>6. Buffered' = Buffered
  BY <1>2 DEF Buffered
<1>7. SenderInv'
  BY <1>1, <1>2, <1>3, <1>4, <1>6 DEF SenderInv
<1>8. SlotInv' /\ ScanInv'
  BY <1>1, <1>2 DEF SlotInv, ScanInv
<1>9. FreedInv'
  BY <1>1, <1>2, <1>4, <1>6 DEF FreedInv, Busy
<1> QED
  BY <1>5, <1>7, <1>8, <1>9 DEF BufferInv

\* A sender that is done with its message: what it freed, or put into the buffer,
\* is accounted for.
LEMMA SenderDone ==
  ASSUME TypeOK, SenderInv, SlotInv, FreedInv, NEW t \in Senders,
         NEW m, m = sender[t].msg, m # -1,
         sender' = [sender EXCEPT ![t] = [at |-> "idle", msg |-> -1]],
         nextMsg' = nextMsg,
         \/ /\ freed' = [freed EXCEPT ![m] = @ + 1] /\ Buffered' = Buffered
         \/ /\ freed' = freed /\ Buffered' = Buffered \cup {m}
  PROVE  /\ sender' \in [Senders -> SenderStates] /\ freed' \in [Msgs -> Nat]
         /\ SenderInv' /\ FreedInv'
<1>1. /\ sender \in [Senders -> SenderStates] /\ freed \in [Msgs -> Nat]
      /\ nextMsg \in 0 .. Messages /\ Messages \in Nat
  BY TypeFacts
<1>2. m \in Msgs /\ m < nextMsg /\ m \notin Buffered /\ m \in Int
  BY <1>1 DEF SenderInv, SenderStates, Msgs
<1>3. \A u \in Senders : sender'[u] = IF u = t THEN [at |-> "idle", msg |-> -1] ELSE sender[u]
  BY <1>1
<1>4. sender' \in [Senders -> SenderStates]
  BY <1>1 DEF SenderStates
<1>5. freed[m] = 0
  BY <1>2 DEF FreedInv, Busy
<1>6. freed' \in [Msgs -> Nat]
      /\ \A x \in Msgs : x # m => freed'[x] = freed[x]
  BY <1>1, <1>2
<1>7. -1 \notin Buffered
  BY DEF SlotInv, Buffered
<1>8. SenderInv'
  <2>1. \A u \in Senders : /\ sender'[u].at = "idle" <=> sender'[u].msg = -1
                           /\ sender'[u].msg < nextMsg'
                           /\ sender'[u].msg \notin Buffered'
    <3> TAKE u \in Senders
    <3>1. CASE u = t
      BY <1>1, <1>2, <1>3, <1>7, <3>1
    <3>2. CASE u # t
      <4>1. sender[u].msg # m
        BY <3>2 DEF SenderInv
      <4> QED
        BY <1>3, <3>2, <4>1 DEF SenderInv
    <3> QED
      BY <3>1, <3>2
  <2>2. \A u, v \in Senders : u # v /\ sender'[u].msg = sender'[v].msg => sender'[u].msg = -1
    BY <1>3 DEF SenderInv
  <2> QED
    BY <2>1, <2>2 DEF SenderInv
<1>9. FreedInv'
  <2> SUFFICES ASSUME NEW x \in Msgs
               PROVE  freed'[x] = IF Busy(x)' \/ x \in Buffered' THEN 0 ELSE 1
    BY DEF FreedInv
  <2>1. CASE x = m
    <3>1. ~Busy(x)'
      <4>1. \A u \in Senders : sender'[u].msg # x
        BY <1>2, <1>3, <2>1 DEF SenderInv
      <4> QED
        BY <1>1, <1>2, <2>1, <4>1 DEF Busy
    <3> QED
      BY <1>1, <1>2, <1>5, <2>1, <3>1
  <2>2. CASE x # m
    <3>1. x # -1
      BY DEF Msgs
    <3>2. Busy(x)' <=> Busy(x)
      BY <1>3, <2>2, <3>1 DEF Busy
    <3>3. x \in Buffered' <=> x \in Buffered
      BY <2>2
    <3> QED
      BY <1>6, <2>2, <3>2, <3>3 DEF FreedInv
  <2> QED
    BY <2>1, <2>2
<1> QED
  BY <1>4, <1>6, <1>8, <1>9

LEMMA SendFailsKeeps ==
  ASSUME BufferInv, NEW t \in Senders, SendFails(t)
  PROVE  BufferInv'
<1>1. TypeOK /\ SenderInv /\ SlotInv /\ FreedInv /\ ScanInv
  BY DEF BufferInv
<1>2. /\ sender[t].at = "send" /\ sender' = [sender EXCEPT ![t] = [at |-> "idle", msg |-> -1]]
      /\ freed' = [freed EXCEPT ![sender[t].msg] = @ + 1]
      /\ UNCHANGED <<nextMsg, slots, count, shouldStop, rt, fini, gaveUp, acked, sent, got>>
  BY DEF SendFails, data
<1>3. sender[t].msg # -1 /\ Buffered' = Buffered
  BY <1>1, <1>2 DEF SenderInv, Buffered
<1>4. /\ sender' \in [Senders -> SenderStates] /\ freed' \in [Msgs -> Nat]
      /\ SenderInv' /\ FreedInv'
  BY <1>1, <1>2, <1>3, SenderDone
<1>5. TypeOK'
  BY <1>1, <1>2, <1>4 DEF TypeOK, SenderStates
<1>6. SlotInv' /\ ScanInv'
  BY <1>1, <1>2 DEF SlotInv, ScanInv
<1> QED
  BY <1>4, <1>5, <1>6 DEF BufferInv

LEMMA SignalledType ==
  TypeOK => /\ Signalled \in ThreadStates /\ Signalled.i = rt.i
            /\ Signalled.at = rt.at \/ Signalled.at = "woken"
<1> SUFFICES ASSUME rt \in ThreadStates
             PROVE  /\ Signalled \in ThreadStates
                    /\ Signalled.at = rt.at \/ Signalled.at = "woken"
                    /\ Signalled.i = rt.i
  BY TypeFacts
<1> QED
  BY DEF Signalled, ThreadStates

LEMMA PushKeeps ==
  ASSUME BufferInv, NEW t \in Senders, Push(t)
  PROVE  BufferInv' /\ Buffered \subseteq Buffered'
<1>1. TypeOK /\ SenderInv /\ SlotInv /\ FreedInv /\ ScanInv
  BY DEF BufferInv
<1> DEFINE m == sender[t].msg
<1>2. /\ sender[t].at = "push" /\ sender' = [sender EXCEPT ![t] = [at |-> "idle", msg |-> -1]]
      /\ UNCHANGED <<nextMsg, shouldStop, fini, gaveUp, acked, sent, got>>
  BY DEF Push
<1>3. /\ m # -1 /\ m \notin Buffered /\ m < nextMsg /\ m \in Msgs
      /\ count \in 0 .. BufSize /\ BufSize \in Nat /\ slots \in Slots
  <2>1. sender \in [Senders -> SenderStates] /\ count \in 0 .. BufSize /\ BufSize \in Nat
        /\ slots \in Slots
    BY <1>1, TypeFacts
  <2>2. m # -1 /\ m \notin Buffered /\ m < nextMsg
    BY <1>1, <1>2 DEF SenderInv
  <2> QED
    BY <2>1, <2>2 DEF SenderStates
<1>4. CASE Full
  <2>1. freed' = [freed EXCEPT ![m] = @ + 1] /\ UNCHANGED <<slots, count, rt>>
    BY <1>4 DEF Push, data
  <2>2. Buffered' = Buffered
    BY <2>1 DEF Buffered
  <2>3. /\ sender' \in [Senders -> SenderStates] /\ freed' \in [Msgs -> Nat]
        /\ SenderInv' /\ FreedInv'
    BY <1>1, <1>2, <1>3, <2>1, <2>2, SenderDone
  <2>4. TypeOK'
    BY <1>1, <1>2, <2>1, <2>3 DEF TypeOK, SenderStates
  <2>5. SlotInv' /\ ScanInv'
    BY <1>1, <1>2, <2>1 DEF SlotInv, ScanInv
  <2> QED
    BY <2>2, <2>3, <2>4, <2>5 DEF BufferInv
<1>5. CASE ~Full
  <2>1. /\ slots' = [slots EXCEPT ![count + 1] = [Free EXCEPT !.msg = m]]
        /\ count' = count + 1 /\ freed' = freed
        /\ rt' = IF count = 0 THEN Signalled ELSE rt
    BY <1>3, <1>5 DEF Push
  <2>2. count < BufSize /\ count + 1 \in 1 .. BufSize
    BY <1>3, <1>5 DEF Full
  <2>3. slots' \in Slots /\ count' \in 0 .. BufSize
    <3>1. [Free EXCEPT !.msg = m]
            \in [msg : Msgs \cup {-1}, tries : 0 .. TriesMax, age : 0 .. AgeMax]
      BY <1>1, <1>3, TypeFacts DEF Free
    <3> QED
      BY <1>3, <2>1, <2>2, <3>1 DEF Slots
  <2>4. \A i \in 1 .. count' : slots'[i].msg = IF i = count + 1 THEN m ELSE slots[i].msg
    <3>1. \A i \in 1 .. count' : i \in 1 .. BufSize
      BY <1>3, <2>1, <2>2
    <3>2. \A i \in 1 .. BufSize : slots'[i] = IF i = count + 1 THEN [Free EXCEPT !.msg = m]
                                              ELSE slots[i]
      BY <1>3, <2>1, <2>2 DEF Slots
    <3> QED
      BY <3>1, <3>2 DEF Free
  <2>5. \A i \in 1 .. count' : i # count + 1 => i \in 1 .. count
    BY <1>3, <2>1
  <2>6. \A i \in 1 .. count : i \in 1 .. count' /\ i # count + 1
    BY <1>3, <2>1
  <2>7. count + 1 \in 1 .. count'
    BY <1>3, <2>1
  <2>8. Buffered' = Buffered \cup {m}
    BY <2>4, <2>5, <2>6, <2>7 DEF Buffered
  <2>9. /\ sender' \in [Senders -> SenderStates] /\ freed' \in [Msgs -> Nat]
        /\ SenderInv' /\ FreedInv'
    BY <1>1, <1>2, <1>3, <2>1, <2>8, SenderDone
  <2>10. SlotInv'
    <3>1. \A i \in 1 .. count : slots[i].msg # m
      BY <1>3 DEF Buffered
    <3> QED
      BY <1>1, <1>2, <1>3, <2>4, <2>5, <3>1 DEF SlotInv
  <2>11. rt' \in ThreadStates /\ ScanInv'
    BY <1>1, <1>2, <2>1, TypeFacts, SignalledType DEF ScanInv
  <2>12. TypeOK'
    <3>1. TypeOK => nextMsg \in 0 .. Messages /\ shouldStop \in BOOLEAN
                    /\ fini \in {"no", "flagged", "joining", "freed"}
                    /\ gaveUp \in BOOLEAN /\ acked \subseteq Msgs /\ sent \subseteq Msgs
                    /\ got \subseteq Msgs
      BY DEF TypeOK
    <3> QED
      BY <1>1, <1>2, <2>3, <2>9, <2>11, <3>1 DEF TypeOK, SenderStates, Slots, ThreadStates
  <2> QED
    BY <2>8, <2>9, <2>10, <2>11, <2>12 DEF BufferInv
<1> QED
  BY <1>4, <1>5

LEMMA HandleAckKeeps ==
  ASSUME BufferInv, NEW a \in Msgs, HandleAck(a)
  PROVE  BufferInv' /\ \A m \in Buffered \ Buffered' : Covered(m, a)
<1>1. TypeOK /\ ScanInv
  BY DEF BufferInv
<1>2. /\ Ack(a) /\ acked' = acked \cup 0 .. a
      /\ UNCHANGED <<nextMsg, sender, shouldStop, rt, fini, gaveUp, sent, got>>
  BY DEF HandleAck
<1>3. /\ count' \in 0 .. BufSize /\ slots' \in Slots /\ freed' \in [Msgs -> Nat]
      /\ SenderInv' /\ SlotInv' /\ FreedInv'
      /\ \A m \in Buffered \ Buffered' : Covered(m, a)
  BY <1>2, AckKeeps
<1>4. acked' \subseteq Msgs
  <2>1. 0 .. a \subseteq Msgs /\ acked \subseteq Msgs
    BY <1>1, TypeFacts DEF Msgs
  <2> QED
    BY <1>2, <2>1
<1>5. TypeOK'
  BY <1>1, <1>2, <1>3, <1>4 DEF TypeOK, Slots
<1>6. ScanInv'
  BY <1>1, <1>2 DEF ScanInv
<1> QED
  BY <1>3, <1>5, <1>6 DEF BufferInv

\* The resend thread, but for the acknowledgement of a packet it gives up.
LEMMA ResendKeeps ==
  ASSUME BufferInv, ResendThread, ~AckVictim
  PROVE  BufferInv' /\ Buffered' = Buffered
<1>1. TypeOK /\ SenderInv /\ SlotInv /\ FreedInv /\ ScanInv
  BY DEF BufferInv
<1> USE DEF ResendThread, Check, Sleep, Woken, TimedWake, ScanSkips, ScanResends, ScanGivesUp,
            ScanEnds, ReadVictim, Relock, Others, Move, BeginScan, data, ghosts
<1>2. UNCHANGED <<nextMsg, sender, shouldStop, fini, got, count, freed, acked>>
  OBVIOUS
<1>3. /\ gaveUp' = gaveUp \/ gaveUp' = TRUE
      /\ rt'.at \in {"gaveup", "victim"} =>
           \/ gaveUp' = TRUE /\ rt'.i = rt.i /\ rt.i <= count
           \/ gaveUp' = gaveUp /\ rt'.i = rt.i /\ rt.at = "gaveup"
  BY <1>1, TypeFacts DEF ThreadStates
<1>4. /\ {BufSize, TriesMax, ScanMax, AgeMax} \subseteq Nat /\ BufSize > 0 /\ ScanMax <= AgeMax
      /\ count \in 0 .. BufSize /\ slots \in Slots /\ rt \in ThreadStates
      /\ rt.i \in 1 .. BufSize + 1 /\ rt.nowAge \in 0 .. ScanMax
      /\ \A i \in 1 .. BufSize : /\ slots[i].msg \in Msgs \cup {-1}
                                 /\ slots[i].tries \in 0 .. TriesMax
                                 /\ slots[i].age \in 0 .. AgeMax
      /\ gaveUp \in BOOLEAN /\ sent \subseteq Msgs
  BY <1>1, TypeFacts
<1>5. \/ slots' = slots /\ sent' = sent
      \/ /\ rt.i <= count /\ slots[rt.i].tries < TriesMax
         /\ slots' = [slots EXCEPT ![rt.i] = Retried(slots[rt.i])]
         /\ sent' = sent \cup {slots[rt.i].msg}
  OBVIOUS
<1>6. \/ rt' = rt
      \/ \E l \in {"check", "commit", "asleep", "woken", "timed", "scan", "done"} :
           rt' = [rt EXCEPT !.at = l]
      \/ rt' = [rt EXCEPT !.at = "scan", !.i = 1, !.nowAge = 0]
      \/ rt.i <= count /\ rt' = [rt EXCEPT !.i = rt.i + 1]
      \/ rt.i <= count /\ rt' = [rt EXCEPT !.at = "gaveup"]
      \/ rt.at = "gaveup" /\ rt' = [rt EXCEPT !.at = "victim", !.victim = slots[rt.i].msg]
      \/ rt' = [rt EXCEPT !.at = "check", !.i = 1, !.nowAge = 0]
      \/ rt' = [rt EXCEPT !.at = "scan", !.i = IF rt.i > 1 THEN rt.i ELSE 2]
  OBVIOUS
<1>7. rt' \in ThreadStates
  <2>1. rt.at = "gaveup" => slots[rt.i].msg \in Msgs \cup {-1}
    <3>1. rt.at = "gaveup" => rt.i \in 1 .. BufSize
      BY ONLY <1>1, <1>4 DEF ScanInv
    <3> QED
      BY ONLY <1>4, <3>1
  <2>2. rt.i <= count => rt.i + 1 \in 1 .. BufSize + 1
    BY ONLY <1>4
  <2>3. /\ 1 \in 1 .. BufSize + 1 /\ 0 \in 0 .. ScanMax
        /\ (IF rt.i > 1 THEN rt.i ELSE 2) \in 1 .. BufSize + 1
    BY ONLY <1>4
  <2> QED
    BY ONLY <1>4, <1>6, <2>1, <2>2, <2>3 DEF ThreadStates
<1>8. /\ slots' \in Slots /\ sent' \subseteq Msgs
      /\ \A i \in 1 .. count : slots'[i].msg = slots[i].msg
  <2>1. CASE slots' = slots /\ sent' = sent
    BY ONLY <1>4, <2>1
  <2>2. CASE /\ rt.i <= count /\ slots[rt.i].tries < TriesMax
             /\ slots' = [slots EXCEPT ![rt.i] = Retried(slots[rt.i])]
             /\ sent' = sent \cup {slots[rt.i].msg}
    <3>1. rt.i \in 1 .. count /\ rt.i \in 1 .. BufSize
      BY ONLY <1>4, <2>2
    <3>2. slots[rt.i].msg \in Msgs
      BY ONLY <1>1, <1>4, <3>1 DEF SlotInv
    <3>3. /\ slots[rt.i].tries + 1 \in 0 .. TriesMax /\ rt.nowAge \in 0 .. AgeMax
      BY ONLY <1>4, <2>2, <3>1
    <3>4. \A p \in [msg : Msgs \cup {-1}, tries : 0 .. TriesMax, age : 0 .. AgeMax] :
            p.tries + 1 \in 0 .. TriesMax =>
              /\ Retried(p) \in [msg : Msgs \cup {-1}, tries : 0 .. TriesMax, age : 0 .. AgeMax]
              /\ Retried(p).msg = p.msg
      BY ONLY <3>3 DEF Retried
    <3>5. /\ slots' \in Slots
          /\ \A i \in 1 .. BufSize : slots'[i].msg = slots[i].msg
      BY ONLY <1>4, <2>2, <3>1, <3>3, <3>4 DEF Slots
    <3> QED
      BY ONLY <1>4, <2>2, <3>2, <3>5
  <2> QED
    BY ONLY <1>5, <2>1, <2>2
<1>9. gaveUp' \in BOOLEAN
  BY ONLY <1>3, <1>4, Zenon
<1>10. TypeOK'
  <2>1. /\ nextMsg \in 0 .. Messages /\ sender \in [Senders -> SenderStates]
        /\ shouldStop \in BOOLEAN /\ fini \in {"no", "flagged", "joining", "freed"}
        /\ freed \in [Msgs -> Nat] /\ acked \subseteq Msgs /\ got \subseteq Msgs
    BY <1>1, TypeFacts
  <2> QED
    BY ONLY <1>2, <1>4, <1>7, <1>8, <1>9, <2>1 DEF TypeOK, SenderStates, Slots, ThreadStates
<1>11. SenderInv' /\ SlotInv' /\ FreedInv' /\ Buffered' = Buffered
  BY ONLY <1>1, <1>2, <1>8, SameMessages
<1>12. ScanInv'
  BY ONLY <1>1, <1>3, <1>4 DEF ScanInv
<1> QED
  BY ONLY <1>10, <1>11, <1>12 DEF BufferInv

LEMMA AckVictimKeeps ==
  ASSUME BufferInv, AckVictim
  PROVE  BufferInv' /\ gaveUp = TRUE /\ gaveUp' = TRUE
<1>1. TypeOK /\ ScanInv
  BY DEF BufferInv
<1>2. /\ rt.at = "victim" /\ Ack(rt.victim)
      /\ rt' = [rt EXCEPT !.at = "acked", !.victim = -1]
      /\ UNCHANGED <<nextMsg, sender, shouldStop, fini, got, gaveUp, acked, sent>>
  BY DEF AckVictim, Others
<1>3. /\ count' \in 0 .. BufSize /\ slots' \in Slots /\ freed' \in [Msgs -> Nat]
      /\ SenderInv' /\ SlotInv' /\ FreedInv'
  BY <1>2, AckKeeps
<1>4. rt' \in ThreadStates /\ rt'.at = "acked"
  <2>1. rt \in ThreadStates
    BY <1>1, TypeFacts
  <2> QED
    BY <1>2, <2>1 DEF ThreadStates
<1>5. TypeOK'
  BY <1>1, <1>2, <1>3, <1>4 DEF TypeOK, Slots, ThreadStates
<1>6. ScanInv' /\ gaveUp = TRUE
  BY <1>1, <1>2, <1>4 DEF ScanInv
<1> QED
  BY <1>2, <1>3, <1>5, <1>6 DEF BufferInv

LEMMA TickKeeps ==
  ASSUME BufferInv, Tick
  PROVE  BufferInv' /\ Buffered' = Buffered
<1>1. TypeOK /\ SenderInv /\ SlotInv /\ FreedInv /\ ScanInv
  BY DEF BufferInv
<1>2. /\ {BufSize, ScanMax, AgeMax} \subseteq Nat
      /\ count \in 0 .. BufSize /\ slots \in Slots /\ rt \in ThreadStates
      /\ rt.nowAge \in 0 .. ScanMax
      /\ \A i \in 1 .. BufSize : slots[i].age \in 0 .. AgeMax
  BY <1>1, TypeFacts
<1>3. /\ slots' = [i \in DOMAIN slots |-> [slots[i] EXCEPT !.age =
                     IF i <= count /\ slots[i].age < AgeMax THEN slots[i].age + 1
                     ELSE slots[i].age]]
      /\ UNCHANGED <<nextMsg, sender, shouldStop, fini, got, count, freed, gaveUp, acked, sent>>
      /\ \/ rt' = rt
         \/ rt.nowAge < ScanMax /\ rt' = [rt EXCEPT !.nowAge = rt.nowAge + 1]
  BY DEF Tick, Others, ghosts
<1>4. rt' \in ThreadStates /\ rt'.at = rt.at /\ rt'.i = rt.i
  <2>1. rt.nowAge < ScanMax => rt.nowAge + 1 \in 0 .. ScanMax
    BY <1>2
  <2> QED
    BY <1>2, <1>3, <2>1 DEF ThreadStates
<1>5. slots' \in Slots /\ \A i \in 1 .. BufSize : slots'[i].msg = slots[i].msg
  <2>1. \A i \in 1 .. BufSize :
          (IF i <= count /\ slots[i].age < AgeMax THEN slots[i].age + 1 ELSE slots[i].age)
            \in 0 .. AgeMax
    BY <1>2
  <2>2. \A p \in [msg : Msgs \cup {-1}, tries : 0 .. TriesMax, age : 0 .. AgeMax] :
          \A n \in 0 .. AgeMax :
            /\ [p EXCEPT !.age = n] \in [msg : Msgs \cup {-1}, tries : 0 .. TriesMax,
                                         age : 0 .. AgeMax]
            /\ [p EXCEPT !.age = n].msg = p.msg
    OBVIOUS
  <2>3. DOMAIN slots = 1 .. BufSize
    BY <1>2 DEF Slots
  <2> QED
    BY <1>2, <1>3, <2>1, <2>2, <2>3 DEF Slots
<1>6. TypeOK'
  BY <1>1, <1>3, <1>4, <1>5 DEF TypeOK, Slots, ThreadStates
<1>7. SenderInv' /\ SlotInv' /\ FreedInv' /\ Buffered' = Buffered
  <2>1. \A i \in 1 .. count : slots'[i].msg = slots[i].msg
    BY <1>2, <1>5
  <2> QED
    BY <1>1, <1>3, <2>1, SameMessages
<1>8. ScanInv'
  BY <1>1, <1>3, <1>4 DEF ScanInv
<1> QED
  BY <1>6, <1>7, <1>8 DEF BufferInv

LEMMA FiniKeeps ==
  ASSUME BufferInv, FiniFlag \/ FiniSignal \/ FiniFree \/ \E m \in Msgs : Arrives(m)
  PROVE  BufferInv' /\ (fini' # "freed" => Buffered' = Buffered)
<1>1. TypeOK /\ SenderInv /\ SlotInv /\ FreedInv /\ ScanInv
  BY DEF BufferInv
<1>2. CASE FiniFlag \/ FiniSignal \/ \E m \in Msgs : Arrives(m)
  <2>1. /\ UNCHANGED <<nextMsg, sender, slots, count, freed, gaveUp, acked, sent>>
        /\ shouldStop' = shouldStop \/ shouldStop' = TRUE
        /\ fini' \in {fini, "flagged", "joining"}
        /\ rt' = rt \/ rt' = Signalled
        /\ got' = got \/ \E m \in Msgs : got' = got \cup {m}
    BY <1>2 DEF FiniFlag, FiniSignal, Arrives, data, ghosts
  <2>2. rt' \in ThreadStates /\ ScanInv'
    BY <1>1, <2>1, TypeFacts, SignalledType DEF ScanInv
  <2>3. shouldStop' \in BOOLEAN
    <3>1. shouldStop \in BOOLEAN
      BY <1>1, TypeFacts
    <3> QED
      BY ONLY <2>1, <3>1, Zenon
  <2>4. got' \subseteq Msgs /\ fini' \in {"no", "flagged", "joining", "freed"}
    BY <1>1, <2>1, TypeFacts
  <2>5. TypeOK'
    BY <1>1, <2>1, <2>2, <2>3, <2>4 DEF TypeOK, ThreadStates
  <2>6. SenderInv' /\ SlotInv' /\ FreedInv' /\ Buffered' = Buffered
    BY <1>1, <2>1, SameMessages
  <2> QED
    BY <2>2, <2>5, <2>6 DEF BufferInv
<1>3. CASE FiniFree
  <2>1. /\ fini' = "freed" /\ count' = 0
        /\ freed' = [m \in Msgs |-> freed[m] + Cardinality(Holding(1 .. count, m))]
        /\ UNCHANGED <<nextMsg, sender, slots, shouldStop, rt, gaveUp, acked, sent, got>>
    BY <1>3 DEF FiniFree, Holding
  <2>2. \A m : Cardinality(Holding(1 .. count, m)) = IF m \in Buffered THEN 1 ELSE 0
    <3> DEFINE I == 1 .. count
    <3>1. \A i, j \in I : i # j => slots[i].msg # slots[j].msg
      BY <1>1 DEF SlotInv
    <3>2. \A m : m \in Buffered <=> \E i \in I : slots[i].msg = m
      BY DEF Buffered
    <3> HIDE DEF I
    <3>3. \A m : Cardinality(Holding(I, m)) = IF \E i \in I : slots[i].msg = m THEN 1 ELSE 0
      BY ONLY <3>1, OneOrNone
    <3> QED
      BY ONLY <3>2, <3>3 DEF I
  <2>3. freed \in [Msgs -> Nat] /\ BufSize \in Nat
    BY <1>1, TypeFacts
  <2>4. freed' \in [Msgs -> Nat]
        /\ \A m \in Msgs : freed'[m] = freed[m] + (IF m \in Buffered THEN 1 ELSE 0)
    <3>1. \A m \in Msgs : /\ freed[m] \in Nat
                          /\ freed'[m] = freed[m] + (IF m \in Buffered THEN 1 ELSE 0)
      BY <2>1, <2>2, <2>3
    <3>2. freed' = [m \in Msgs |-> freed'[m]]
      BY <2>1
    <3>3. \A m \in Msgs : freed'[m] \in Nat
      BY ONLY <3>1
    <3> QED
      BY ONLY <3>1, <3>2, <3>3
  <2>5. Buffered' = {}
    BY <2>1 DEF Buffered
  <2>6. TypeOK'
    <3>1. count' \in 0 .. BufSize
      BY ONLY <2>1, <2>3
    <3>2. /\ nextMsg \in 0 .. Messages /\ sender \in [Senders -> SenderStates]
          /\ slots \in Slots /\ shouldStop \in BOOLEAN /\ rt \in ThreadStates
          /\ gaveUp \in BOOLEAN
          /\ acked \subseteq Msgs /\ sent \subseteq Msgs /\ got \subseteq Msgs
      BY <1>1, TypeFacts
    <3> QED
      BY ONLY <2>1, <2>4, <3>1, <3>2 DEF TypeOK, SenderStates, Slots, ThreadStates
  <2>7. SenderInv' /\ SlotInv' /\ ScanInv'
    BY <1>1, <2>1, <2>5 DEF SenderInv, SlotInv, ScanInv
  <2>8. FreedInv'
    <3> SUFFICES ASSUME NEW m \in Msgs PROVE freed'[m] = IF Busy(m) THEN 0 ELSE 1
      BY <2>1, <2>5 DEF FreedInv, Busy
    <3>1. m \in Buffered => ~Busy(m)
      <4>1. m \in Buffered => m < nextMsg /\ nextMsg \in Int
        BY <1>1, TypeFacts DEF SlotInv, Buffered
      <4> QED
        BY <1>1, <4>1 DEF SenderInv, Busy, Msgs
    <3> QED
      BY <1>1, <2>4, <3>1 DEF FreedInv
  <2> QED
    BY <2>1, <2>6, <2>7, <2>8 DEF BufferInv
<1> QED
  BY <1>2, <1>3

\* The numbers on the wire order the messages as the client numbered them: fewer
\* than half of the numbers are in use.
LEMMA CoveredMeansEarlier ==
  ASSUME NEW m \in Msgs, NEW a \in Msgs
  PROVE  Covered(m, a) <=> m <= a
<1>1. /\ M \in Nat \ {0} /\ M % 2 = 0 /\ Start \in Int /\ Messages \in Nat
      /\ Messages < M \div 2
  BY BufferAssumption
<1>2. /\ Start + m \in Int /\ Start + a \in Int /\ m \in Int /\ a \in Int
      /\ (Start + a) - (Start + m) < M \div 2 /\ (Start + m) - (Start + a) < M \div 2
  BY <1>1 DEF Msgs
<1>3. SeqLe(M, (Start + m) % M, (Start + a) % M) <=> Start + m <= Start + a
  BY <1>1, <1>2, SeqCompare
<1> QED
  BY <1>1, <1>2, <1>3 DEF Covered, SeqOf, SeqAdd

\* A step keeps the invariant, and what leaves the buffer was acknowledged.
LEMMA BufferStep ==
  ASSUME BufferInv, [Next]_vars
  PROVE  /\ BufferInv'
         /\ (~gaveUp' /\ fini' # "freed") => Buffered \ acked' \subseteq Buffered'
<1>1. CASE UNCHANGED vars
  <2>1. UNCHANGED <<nextMsg, sender, slots, count, shouldStop, rt, fini, freed, gaveUp, acked,
                    sent, got>>
    BY <1>1 DEF vars, data, ghosts
  <2>2. TypeOK' /\ ScanInv'
    BY <2>1 DEF BufferInv, TypeOK, ScanInv
  <2>3. SenderInv' /\ SlotInv' /\ FreedInv' /\ Buffered' = Buffered
    BY <2>1, SameMessages DEF BufferInv
  <2> QED
    BY <2>2, <2>3 DEF BufferInv
<1>2. ASSUME NEW t \in Senders, Number(t) \/ SendNow(t) \/ SendFails(t)
      PROVE  BufferInv' /\ Buffered' = Buffered
  <2>1. BufferInv'
    BY <1>2, NumberKeeps, SendNowKeeps, SendFailsKeeps
  <2>2. Buffered' = Buffered
    BY <1>2 DEF Number, SendNow, SendFails, data, Buffered
  <2> QED
    BY <2>1, <2>2
<1>3. ASSUME NEW t \in Senders, Push(t) PROVE BufferInv' /\ Buffered \subseteq Buffered'
  BY <1>3, PushKeeps
<1>4. ASSUME NEW a \in Msgs, HandleAck(a)
      PROVE  BufferInv' /\ Buffered \ acked' \subseteq Buffered'
  <2>1. BufferInv' /\ \A m \in Buffered \ Buffered' : Covered(m, a)
    BY <1>4, HandleAckKeeps
  <2>2. Buffered \subseteq Msgs
    <3>1. \A i \in 1 .. count : slots[i].msg \in Msgs
      BY TypeFacts DEF BufferInv, SlotInv
    <3> QED
      BY <3>1 DEF Buffered
  <2>3. \A m \in Buffered \ Buffered' : m \in 0 .. a
    <3>1. \A m \in Buffered \ Buffered' : m <= a
      BY <2>1, <2>2, CoveredMeansEarlier
    <3> QED
      BY <2>2, <3>1 DEF Msgs
  <2>4. 0 .. a \subseteq acked'
    BY <1>4 DEF HandleAck
  <2> QED
    BY <2>1, <2>3, <2>4
<1>5. CASE ResendThread /\ ~AckVictim
  BY <1>5, ResendKeeps
<1>6. CASE AckVictim
  BY <1>6, AckVictimKeeps
<1>7. CASE FiniFlag \/ FiniSignal \/ FiniFree \/ \E m \in Msgs : Arrives(m)
  BY <1>7, FiniKeeps
<1>8. CASE Tick
  BY <1>8, TickKeeps
<1> QED
  BY <1>1, <1>2, <1>3, <1>4, <1>5, <1>6, <1>7, <1>8 DEF Next

LEMMA BufferAlways == Spec => []BufferInv
<1>1. BufferInv /\ [Next]_vars => BufferInv'
  BY BufferStep
<1> QED
  BY BufferInitOK, <1>1, PTL DEF Spec

-----------------------------------------------------------------------------
\* The buffer, its threads and its counters hold only what they are meant to.
THEOREM BufferTypeOK == Spec => []TypeOK
<1>1. BufferInv => TypeOK
  BY DEF BufferInv
<1> QED
  BY <1>1, BufferAlways, PTL

\* Every message a sender is done with is in one slot or was freed once, whatever
\* senders, acknowledgements, resends and fini do (takionsendbuffer.c:117-324).
THEOREM BufferOwnedOnce == Spec => []OwnedOnce
<1>1. BufferInv => OwnedOnce
  <2> SUFFICES ASSUME BufferInv, NEW m \in Msgs
               PROVE  freed[m] + Cardinality(Holding(1 .. count, m)) = IF Busy(m) THEN 0 ELSE 1
    BY DEF OwnedOnce, Holding, Busy
  <2>1. TypeOK /\ SenderInv /\ SlotInv /\ FreedInv
    BY DEF BufferInv
  <2>2. Cardinality(Holding(1 .. count, m)) = IF m \in Buffered THEN 1 ELSE 0
    <3> DEFINE I == 1 .. count
    <3>1. \A i, j \in I : i # j => slots[i].msg # slots[j].msg
      BY <2>1 DEF SlotInv
    <3>2. m \in Buffered <=> \E i \in I : slots[i].msg = m
      BY DEF Buffered
    <3> HIDE DEF I
    <3>3. Cardinality(Holding(I, m)) = IF \E i \in I : slots[i].msg = m THEN 1 ELSE 0
      BY ONLY <3>1, OneOrNone
    <3> QED
      BY ONLY <3>2, <3>3 DEF I
  <2>3. m \in Buffered => ~Busy(m)
    <3>1. m \in Buffered => m < nextMsg /\ nextMsg \in Int
      BY <2>1, TypeFacts DEF SlotInv, Buffered
    <3> QED
      BY <2>1, <3>1 DEF SenderInv, Busy, Msgs
  <2> QED
    BY <2>1, <2>2, <2>3 DEF FreedInv
<1> QED
  BY <1>1, BufferAlways, PTL

\* While no packet has used its tries, a message leaves the buffer only after an
\* acknowledgement that covers it, for any width of the wrapping numbers
\* (takionsendbuffer.c:170-228, seqnum.h).
THEOREM BufferKeptUntilAcked == Spec => KeptUntilAcked
<1>1. ASSUME BufferInv, [Next]_vars
      PROVE  [(~gaveUp' /\ fini' # "freed") => Buffered \ acked' \subseteq Buffered']_vars
  BY <1>1, BufferStep
<1> QED
  BY <1>1, BufferAlways, PTL DEF Spec, KeptUntilAcked
=============================================================================
