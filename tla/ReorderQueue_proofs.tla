------------------------ MODULE ReorderQueue_proofs ------------------------
(***************************************************************************)
(* The ring of chiaki/src/reorderqueue.c, with numbers that wrap, does     *)
(* what the window with positions that do not wrap does: for every number  *)
(* of slots, every even number of sequence numbers it divides, and a       *)
(* network that delays packets by less than half of them.                  *)
(*                                                                         *)
(* The proofs speak of the ring by position: At(p) is the slot that stands *)
(* for position p.  Two positions less than Size apart never share a slot, *)
(* and that is all that is used of the remainder.                          *)
(***************************************************************************)
EXTENDS ReorderQueue, SeqNum_proofs, FiniteSetTheorems

Cell(p) == p % Size
At(p) == queue[Cell(p)]

\* begin is the number of the position the window begins at.
RingOK == TypeOK /\ begin = base % M

\* What is set inside the window holds the packet of its position.
Match == \A p \in base .. base + count - 1 : At(p).set => At(p).user.pos = p

PulledOnce == \A i, j \in 1 .. Len(pulled) : pulled[i] = pulled[j] => i = j

Owned == /\ given = dropped \cup Pulled \cup Held
         /\ dropped \cap (Pulled \cup Held) = {}
         /\ Pulled \cap Held = {}

QueueInv == RingOK /\ Match /\ PulledOnce /\ Owned
-----------------------------------------------------------------------------
\* Numbers of M wrapped once more at a divisor of M.
LEMMA ModMod ==
  ASSUME NEW m \in Nat \ {0}, NEW d \in Nat \ {0}, m % d = 0, NEW a \in Int
  PROVE  (a % m) % d = a % d
<1> DEFINE x == a % m
           t == x % d
<1>1. x \in Int
  BY ModWitness
<1>2. PICK p \in Int : a = m * p + x
  BY ModWitness
<1>3. m \in Int /\ m % d = 0
  OBVIOUS
<1>4. PICK q \in Int : m = d * q + (m % d)
  BY <1>3, ModWitness
<1>5. m = d * q
  BY <1>3, <1>4
<1> HIDE DEF x
<1>6. PICK r \in Int : x = d * r + t
  BY <1>1, ModWitness
<1>7. t \in 0 .. d - 1
  BY <1>1, ModWitness
<1> HIDE DEF t
<1>8. a = d * (q * p + r) + t /\ q * p + r \in Int
  <2>1. a = d * q * p + d * r + t
    BY <1>2, <1>5, <1>6, <1>7
  <2> QED
    BY <2>1, <1>7
<1>9. a % d = t
  BY <1>7, <1>8, ModUnique
<1> QED
  BY <1>9 DEF t, x

\* What the assumption says of the sizes, and the types of the window.
LEMMA SizeFacts ==
  /\ Size \in Nat \ {0} /\ M \in Nat \ {0} /\ M % 2 = 0 /\ M % Size = 0
  /\ Size < M /\ Lag \in Nat /\ Lead \in Nat /\ MaxPos \in Nat
BY QueueAssumption

LEMMA RingFacts ==
  ASSUME RingOK
  PROVE  base \in Nat /\ count \in Nat /\ count <= Size /\ begin = base % M
BY SizeFacts DEF RingOK, TypeOK

LEMMA PositionFacts == \A e \in Element : e.pos \in Nat
BY SizeFacts DEF Element

\* The slots of the ring, and when two positions use different ones.
LEMMA CellFacts ==
  /\ \A p \in Int : Cell(p) \in 0 .. Size - 1
  /\ \A p, q \in Int : p # q /\ p - q < Size /\ q - p < Size => Cell(p) # Cell(q)
  /\ \A p \in Int : idx(p % M) = Cell(p)
<1>1. /\ Size \in Nat \ {0} /\ M \in Nat \ {0} /\ M % Size = 0
  BY QueueAssumption
<1>2. \A p \in Int : Cell(p) \in 0 .. Size - 1
  BY <1>1, ModWitness DEF Cell
<1>3. \A p, q \in Int : p # q /\ p - q < Size /\ q - p < Size => Cell(p) # Cell(q)
  BY <1>1, ModDistinct DEF Cell
<1>4. \A p \in Int : idx(p % M) = Cell(p)
  BY <1>1, ModMod DEF Cell, idx
<1> QED
  BY <1>2, <1>3, <1>4

\* The slot k places into the window is the one of position base + k.
LEMMA SlotIsAt ==
  ASSUME RingOK
  PROVE  \A k \in Int : SeqAdd(M, begin, k) = (base + k) % M /\ Slot(k) = At(base + k)
<1> TAKE k \in Int
<1>1. /\ base \in Int /\ begin = base % M /\ M \in Nat \ {0} /\ base + k \in Int
  BY QueueAssumption DEF RingOK, TypeOK
<1>2. SeqAdd(M, begin, k) = (base + k) % M
  BY <1>1, ModAdd DEF SeqAdd
<1>3. idx((base + k) % M) = Cell(base + k)
  BY <1>1, CellFacts
<1> QED
  BY <1>2, <1>3 DEF Slot, At

\* What the window holds, by position.
HeldByPosition == \A x : x \in Held <=> \E p \in base .. base + count - 1 :
                                           queue[Cell(p)].set /\ x = queue[Cell(p)].user

LEMMA HeldIs == RingOK => HeldByPosition
<1> SUFFICES ASSUME RingOK
             PROVE  \A x : x \in Held <=> \E p \in base .. base + count - 1 :
                                            At(p).set /\ x = At(p).user
  BY DEF HeldByPosition, At
<1> TAKE x
<1>1. base \in Int /\ count \in Int
  BY QueueAssumption DEF RingOK, TypeOK
<1>2. ASSUME x \in Held
      PROVE  \E p \in base .. base + count - 1 : At(p).set /\ x = At(p).user
  <2>1. PICK k \in 0 .. count - 1 : Slot(k).set /\ x = Slot(k).user
    BY <1>2 DEF Held
  <2>2. Slot(k) = At(base + k) /\ base + k \in base .. base + count - 1
    BY <1>1, SlotIsAt
  <2> QED
    BY <2>1, <2>2
<1>3. ASSUME NEW p \in base .. base + count - 1, At(p).set, x = At(p).user
      PROVE  x \in Held
  <2>1. /\ p - base \in 0 .. count - 1 /\ p - base \in Int /\ base + (p - base) = p
    BY <1>1
  <2>2. Slot(p - base) = At(p)
    BY <2>1, SlotIsAt
  <2> QED
    BY <1>3, <2>1, <2>2 DEF Held
<1> QED
  BY <1>2, <1>3

\* The same after a step.
LEMMA HeldIsNext ==
  ASSUME RingOK'
  PROVE  \A x : x \in Held' <=>
           \E p \in base' .. base' + count' - 1 :
             queue'[Cell(p)].set /\ x = queue'[Cell(p)].user
<1>1. RingOK' => HeldByPosition'
  BY HeldIs, PTL
<1> QED
  BY <1>1 DEF HeldByPosition, Cell

\* The arrivals push is asked to take are within half of the numbers of the
\* window, so the comparisons of the code say where they are.
LEMMA Numbers ==
  ASSUME RingOK, NEW e \in Element, e.pos >= base - Lag, e.pos < base + Size + Lead
  PROVE  /\ SeqLt(M, e.pos % M, begin) <=> e.pos < base
         /\ InQueue(e.pos % M) <=> base <= e.pos /\ e.pos < base + count
         /\ e.pos >= base + count =>
              \A k \in 0 .. count :
                Overrun(SeqAdd(M, begin, k), e.pos % M) <=> e.pos >= base + k + Size
<1>1. /\ M \in Nat \ {0} /\ M % 2 = 0 /\ Size \in Nat \ {0} /\ Lag \in Nat /\ Lead \in Nat
      /\ Lag < M \div 2 /\ Size + Lead < M \div 2 /\ MaxPos \in Nat
  BY QueueAssumption
<1>2. /\ base \in Nat /\ begin = base % M /\ count \in Nat /\ count <= Size
  BY <1>1 DEF RingOK, TypeOK
<1>3. e.pos \in Int
  BY <1>1 DEF Element
<1> DEFINE p == e.pos
           h == M \div 2
           W(a) == a % M
<1>4. h \in Int /\ p \in Int /\ Lag < h /\ Size + Lead < h
  BY <1>1, <1>3
<1>5. /\ begin = W(base) /\ \A k \in Int : SeqAdd(M, begin, k) = W(base + k)
      /\ end = W(base + count)
  BY <1>2, SlotIsAt DEF end
<1>6. \A a, b \in Int : b - a < h /\ a - b < h =>
         /\ SeqLt(M, W(a), W(b)) <=> a < b
         /\ SeqGe(M, W(a), W(b)) <=> a >= b
  BY <1>1, SeqCompare
<1>7. \A a, b \in Int : SeqAdd(M, W(a), b) = W(a + b)
  BY <1>1, ModAdd DEF SeqAdd
<1>8. p >= base - Lag /\ p < base + Size + Lead
  OBVIOUS
<1> HIDE DEF h, W, p
<1>9. SeqLt(M, W(p), begin) <=> p < base
  <2>1. base - p < h /\ p - base < h
    BY <1>1, <1>2, <1>4, <1>8
  <2> QED
    BY <1>2, <1>4, <1>5, <1>6, <2>1
<1>10. SeqGe(M, W(p), begin) <=> p >= base
  <2>1. base - p < h /\ p - base < h
    BY <1>1, <1>2, <1>4, <1>8
  <2> QED
    BY <1>2, <1>4, <1>5, <1>6, <2>1
<1>11. p >= base => (SeqLt(M, W(p), end) <=> p < base + count)
  <2> SUFFICES ASSUME p >= base
               PROVE  SeqLt(M, W(p), end) <=> p < base + count
    OBVIOUS
  <2>1. PICK t \in Int : t = base + count
    BY <1>2
  <2>2. t - p < h /\ p - t < h
    BY <1>1, <1>2, <1>4, <1>8, <2>1
  <2>3. SeqLt(M, W(p), W(t)) <=> p < t
    BY <1>4, <1>6, <2>2
  <2> QED
    BY <1>5, <2>1, <2>3
<1>12. ASSUME p >= base + count, NEW k \in 0 .. count
       PROVE  Overrun(SeqAdd(M, begin, k), W(p)) <=> p >= base + k + Size
  <2>1. base + k \in Int /\ SeqAdd(M, begin, k) = W(base + k)
    BY <1>2, <1>5
  <2>2. /\ SeqAdd(M, W(base + k), Size) = W(base + k + Size)
        /\ SeqAdd(M, W(p), 1) = W(p + 1)
    <3>1. \A b \in Int : SeqAdd(M, W(base + k), b) = W(base + k + b)
      BY <1>7, <2>1
    <3>2. \A b \in Int : SeqAdd(M, W(p), b) = W(p + b)
      BY <1>4, <1>7
    <3> QED
      BY <1>1, <3>1, <3>2
  <2>3. /\ base + k + Size \in Int /\ p + 1 \in Int
        /\ (p + 1) - (base + k + Size) < h /\ (base + k + Size) - (p + 1) < h
    BY <1>1, <1>2, <1>4, <1>8, <1>12
  <2>4. SeqLt(M, W(base + k + Size), W(p + 1)) <=> base + k + Size < p + 1
    BY <1>6, <2>3
  <2>5. base + k + Size < p + 1 <=> p >= base + k + Size
    BY <1>4, <2>3
  <2> QED
    BY <2>1, <2>2, <2>4, <2>5 DEF Overrun
<1>13. InQueue(W(p)) <=> base <= p /\ p < base + count
  BY <1>2, <1>4, <1>10, <1>11 DEF InQueue
<1> QED
  BY <1>9, <1>12, <1>13 DEF W, p
-----------------------------------------------------------------------------
\* The three things push does, in positions.  n is where the window begins
\* once there is room.
Fill(e) == /\ base <= e.pos /\ e.pos < base + count /\ ~At(e.pos).set
           /\ queue' = [queue EXCEPT ![Cell(e.pos)] = [set |-> TRUE, user |-> e]]
           /\ UNCHANGED <<begin, count, base, dropped>>

Refuse(e) == /\ dropped' = dropped \cup {e}
             /\ UNCHANGED <<begin, count, queue, base>>

Front(n) == {p \in base .. base + count - 1 : p < n /\ At(p).set}

Extend(e, n) ==
  /\ e.pos >= base + count /\ n \in base .. e.pos /\ e.pos < n + Size
  /\ n # base => strategy = "begin" /\ e.pos >= base + Size
  /\ begin' = n % M /\ count' = e.pos + 1 - n /\ base' = n
  /\ \E taken \in SUBSET (0 .. Size - 1) :
       /\ \A c : c \in taken <=> \E p \in base + count .. e.pos : p >= n /\ c = Cell(p)
       /\ queue' = [Emptied(queue, taken) EXCEPT ![Cell(e.pos)] = [set |-> TRUE, user |-> e]]
  /\ \A x : x \in dropped' <=> x \in dropped \/ \E p \in Front(n) : x = At(p).user

Arrives(e) == /\ e \in Element /\ e \notin given
              /\ given' = given \cup {e}
              /\ UNCHANGED <<strategy, pulled, cut>>

\* The loop that makes room, and the wrapped numbers it leaves behind.
LEMMA ExtendUnwrapped ==
  ASSUME RingOK, NEW e \in Element, e.pos >= base - Lag, e.pos < base + Size + Lead,
         PushExtend(e, e.pos % M)
  PROVE  \E n \in base .. e.pos : Extend(e, n)
<1> DEFINE s == e.pos % M
           over(k) == Overrun(SeqAdd(M, begin, k), s)
           enough(k) == k = count \/ ~over(k)
           k == CHOOSE n \in 0 .. count : enough(n) /\ \A j \in 0 .. n - 1 : ~enough(j)
           drained == k = count /\ Overrun(begin, s)
           b == IF drained THEN s ELSE SeqAdd(M, begin, k)
           n == IF drained THEN e.pos ELSE base + k
           c == SeqAdd(M, s, 1 - b + M)
           taken == {idx(SeqAdd(M, b, j)) : j \in count - k .. c - 1}
<1>1. /\ ~InQueue(s) /\ ~SeqLt(M, s, begin)
      /\ Overrun(begin, s) => MakesRoom
      /\ begin' = b /\ count' = c /\ base' = n
      /\ queue' = [Emptied(queue, taken) EXCEPT ![idx(s)] = [set |-> TRUE, user |-> e]]
      /\ dropped' = dropped \cup {Slot(j).user : j \in {i \in 0 .. k - 1 : Slot(i).set}}
  BY DEF PushExtend
<1>2. /\ base \in Nat /\ count \in Nat /\ count <= Size /\ e.pos \in Int /\ M \in Nat \ {0}
      /\ Size \in Nat \ {0} /\ begin = base % M /\ Size < M /\ Lead \in Nat
  BY SizeFacts, RingFacts, PositionFacts
<1>2a. \A a, d \in Int : SeqAdd(M, a % M, d) = (a + d) % M
  <2> TAKE a, d \in Int
  <2>1. M \in Nat \ {0}
    BY ONLY <1>2
  <2>2. ((a % M) + d) % M = (a + d) % M
    BY ONLY <2>1, ModAdd, a \in Int, d \in Int
  <2> QED
    BY ONLY <2>2 DEF SeqAdd
<1>2b. \A a \in Int : a % M \in Int /\ \E q \in Int : a = M * q + (a % M)
  <2> TAKE a \in Int
  <2>1. a % M \in 0 .. M - 1 /\ \E q \in Int : a = M * q + (a % M)
    BY <1>2, ModWitness
  <2>2. a % M \in Int
    BY <1>2, <2>1
  <2> QED
    BY ONLY <2>1, <2>2
<1>3. e.pos >= base + count
  <2>1. /\ SeqLt(M, s, begin) <=> e.pos < base
        /\ InQueue(s) <=> base <= e.pos /\ e.pos < base + count
    BY Numbers
  <2>2. ~InQueue(s) /\ ~SeqLt(M, s, begin)
    BY ONLY <1>1
  <2>3. e.pos >= base /\ ~ (base <= e.pos /\ e.pos < base + count)
    BY ONLY <1>2, <2>1, <2>2
  <2> QED
    BY ONLY <1>2, <2>3
<1>4. \A i \in 0 .. count : over(i) <=> e.pos >= base + i + Size
  BY <1>3, Numbers
<1>5. over(0) <=> Overrun(begin, s)
  <2>1. SeqAdd(M, begin, 0) = begin
    BY <1>2, SlotIsAt
  <2> QED
    BY <2>1
<1>6. /\ k \in 0 .. count /\ enough(k)
      /\ \A j \in 0 .. k - 1 : ~enough(j)
  <2> HIDE DEF over
  <2>1. PICK m \in 0 .. count : enough(m) /\ \A j \in 0 .. m - 1 : ~enough(j)
    <3>1. CASE \A i \in 0 .. count : over(i)
      BY <1>2, <3>1
    <3>2. CASE e.pos < base + count + Size
      <4>1. CASE e.pos < base + Size
        BY <1>2, <1>4, <4>1
      <4>2. CASE e.pos >= base + Size
        <5>1. e.pos - base - Size + 1 \in 0 .. count
          BY <1>2, <3>2, <4>2
        <5> QED
          BY <1>2, <1>4, <5>1
      <4> QED
        BY <1>2, <4>1, <4>2
    <3> QED
      BY <1>2, <1>4, <3>1, <3>2
  <2> QED
    BY <2>1
<1> HIDE DEF k, over
<1>7. Overrun(begin, s) <=> e.pos >= base + Size
  BY <1>2, <1>4, <1>5
<1>8. /\ n \in base .. e.pos /\ e.pos < n + Size
      /\ n # base => Overrun(begin, s)
      /\ drained => k = count
      /\ ~drained => n = base + k /\ k \in 0 .. count
  <2>1. CASE drained
    BY <1>2, <1>3, <1>7, <2>1
  <2>2. CASE ~drained
    <3>1. k = count => k = 0
      BY <1>2, <1>4, <1>5, <1>6, <2>2
    <3>2. e.pos < base + k + Size
      <4>1. ~over(k)
        BY <1>2, <1>5, <1>6, <2>2, <3>1
      <4>2. ~(e.pos >= base + k + Size)
        BY <1>4, <1>6, <4>1
      <4> QED
        BY <1>2, <1>6, <4>2
    <3>3. k # 0 => over(0)
      BY <1>2, <1>6
    <3> QED
      BY <1>2, <1>3, <1>5, <1>6, <2>2, <3>2, <3>3
  <2> QED
    BY <2>1, <2>2
<1> HIDE DEF n
<1>9. b = n % M
  <2>1. CASE drained
    BY <2>1 DEF n
  <2>2. CASE ~drained
    BY <1>8, <2>2, SlotIsAt
  <2> QED
    BY <2>1, <2>2
<1>10. n \in Nat /\ e.pos + 1 - n \in 1 .. Size
  BY <1>2, <1>8
<1> HIDE DEF b, taken, drained, enough
<1>11. c = e.pos + 1 - n
  <2>1. PICK q \in Int : n = M * q + b
    BY <1>9, <1>10, <1>2b
  <2>2. b \in Int
    BY <1>9, <1>10, <1>2b
  <2>3. c = (e.pos + (1 - b + M)) % M
    <3>1. PICK d \in Int : d = 1 - b + M
      BY <1>2, <2>2
    <3>2. c = SeqAdd(M, e.pos % M, d)
      BY <3>1
    <3>3. c = (e.pos + d) % M
      BY <1>2, <1>2a, <3>2
    <3> QED
      BY <3>1, <3>3
  <2>4. e.pos + (1 - b + M) = M * (q + 1) + (e.pos + 1 - n)
    BY <1>2, <1>10, <2>1, <2>2
  <2>5. e.pos + 1 - n \in 0 .. M - 1 /\ q + 1 \in Int /\ e.pos + (1 - b + M) \in Int
    BY <1>2, <1>10, <2>2
  <2>6. (e.pos + (1 - b + M)) % M = e.pos + 1 - n
    BY <1>2, <2>4, <2>5, ModUnique
  <2> QED
    BY <2>3, <2>6
<1> HIDE DEF c
<1>12. \A j \in Int : idx(SeqAdd(M, b, j)) = Cell(n + j)
  <2> TAKE j \in Int
  <2>1. SeqAdd(M, b, j) = (n + j) % M
    BY <1>9, <1>10, <1>2a
  <2>2. n + j \in Int
    BY <1>10
  <2> QED
    BY <2>1, <2>2, CellFacts
<1>13. \A x : x \in taken <=> \E p \in base + count .. e.pos : p >= n /\ x = Cell(p)
  <2> TAKE x
  <2>1. ASSUME x \in taken
        PROVE  \E p \in base + count .. e.pos : p >= n /\ x = Cell(p)
    <3>1. PICK j \in count - k .. c - 1 : x = idx(SeqAdd(M, b, j))
      BY <2>1 DEF taken
    <3>2. x = Cell(n + j)
      BY <1>2, <1>6, <1>10, <1>11, <1>12, <3>1
    <3>3. n + j \in base + count .. e.pos /\ n + j >= n
      BY <1>2, <1>6, <1>8, <1>10, <1>11, <1>3 DEF n, drained
    <3> QED
      BY <3>2, <3>3
  <2>2. ASSUME NEW p \in base + count .. e.pos, p >= n, x = Cell(p)
        PROVE  x \in taken
    <3>1. PICK j \in Int : j = p - n
      BY <1>2, <1>10
    <3>2. j \in count - k .. c - 1
      BY <1>2, <1>6, <1>8, <1>10, <1>11, <2>2, <3>1 DEF n, drained
    <3>3. n + j = p
      BY <1>2, <1>10, <3>1
    <3>4. x = idx(SeqAdd(M, b, j))
      BY <1>12, <2>2, <3>3
    <3> QED
      BY <3>2, <3>4 DEF taken
  <2> QED
    BY <2>1, <2>2
<1>14. taken \in SUBSET (0 .. Size - 1)
  <2>1. \A p \in base + count .. e.pos : Cell(p) \in 0 .. Size - 1
    <3>1. \A p \in base + count .. e.pos : p \in Int
      BY <1>2
    <3> QED
      BY <3>1, CellFacts
  <2> QED
    BY <1>13, <2>1
<1>15. \A x : x \in dropped' <=> x \in dropped \/ \E p \in Front(n) : x = At(p).user
  <2> TAKE x
  <2>1. \A i \in Int : Slot(i) = At(base + i)
    BY SlotIsAt
  <2>2. \A p \in base .. base + count - 1 : p < n <=> p - base \in 0 .. k - 1
    BY <1>2, <1>3, <1>6, <1>8 DEF n, drained
  <2>3. ASSUME NEW j \in 0 .. k - 1, Slot(j).set, x = Slot(j).user
        PROVE  \E p \in Front(n) : x = At(p).user
    <3>1. /\ base + j \in base .. base + count - 1 /\ (base + j) - base = j
          /\ Slot(j) = At(base + j)
      BY <1>2, <1>6, <2>1
    <3>2. base + j \in Front(n)
      BY <2>2, <2>3, <3>1 DEF Front
    <3> QED
      BY <2>3, <3>1, <3>2
  <2>4. ASSUME NEW p \in Front(n), x = At(p).user
        PROVE  \E j \in 0 .. k - 1 : Slot(j).set /\ x = Slot(j).user
    <3>1. /\ p \in base .. base + count - 1 /\ p < n /\ At(p).set
      BY <2>4 DEF Front
    <3>2. p - base \in 0 .. k - 1 /\ base + (p - base) = p /\ p - base \in Int
      BY <1>2, <2>2, <3>1
    <3> QED
      BY <2>1, <2>4, <3>1, <3>2
  <2>5. x \in {Slot(j).user : j \in {i \in 0 .. k - 1 : Slot(i).set}}
          <=> \E j \in 0 .. k - 1 : Slot(j).set /\ x = Slot(j).user
    OBVIOUS
  <2> QED
    BY <1>1, <2>3, <2>4, <2>5
<1>16. idx(s) = Cell(e.pos)
  BY <1>2, CellFacts
<1>17. n # base => strategy = "begin" /\ e.pos >= base + Size
  BY <1>1, <1>7, <1>8 DEF MakesRoom
<1>18. /\ begin' = n % M /\ count' = e.pos + 1 - n /\ base' = n
       /\ queue' = [Emptied(queue, taken) EXCEPT ![Cell(e.pos)] = [set |-> TRUE, user |-> e]]
  BY <1>1, <1>9, <1>11, <1>16
<1> HIDE DEF s
<1>19. Extend(e, n)
  BY <1>3, <1>8, <1>13, <1>14, <1>15, <1>17, <1>18 DEF Extend
<1> QED
  BY <1>8, <1>19

\* Every push is one of the three.
LEMMA PushUnwrapped ==
  ASSUME RingOK, NEW e \in Element, Push(e)
  PROVE  Arrives(e) /\ (Fill(e) \/ Refuse(e) \/ \E n \in base .. e.pos : Extend(e, n))
<1> DEFINE s == e.pos % M
<1>1. /\ e.pos >= base - Lag /\ e.pos < base + Size + Lead
      /\ PushFill(e, s) \/ PushRefuse(e, s) \/ PushExtend(e, s)
  BY DEF Push
<1>2. idx(s) = Cell(e.pos)
  BY CellFacts, QueueAssumption DEF Element
<1>3. PushFill(e, s) => Fill(e)
  BY <1>1, <1>2, Numbers DEF PushFill, Fill, At
<1>4. PushRefuse(e, s) => Refuse(e)
  BY DEF PushRefuse, Refuse
<1>5. Arrives(e)
  BY DEF Push, Arrives
<1> QED
  BY <1>1, <1>3, <1>4, <1>5, ExtendUnwrapped
-----------------------------------------------------------------------------
Ahead(n) == {x \in Held : x.pos >= n}
Behind(n) == {x \in Held : x.pos < n}

\* What the window holds are elements, one for a position, each in its slot.
LEMMA HeldFacts ==
  ASSUME RingOK, Match
  PROVE  /\ \A p \in base .. base + count - 1 :
              At(p).set => At(p).user \in Held /\ At(p).user \in Element /\ At(p).user.pos = p
         /\ \A x \in Held : /\ x \in Element /\ x.pos \in base .. base + count - 1
                            /\ At(x.pos).set /\ At(x.pos).user = x
<1>1. ASSUME NEW p \in base .. base + count - 1, At(p).set
      PROVE  At(p).user \in Held /\ At(p).user \in Element /\ At(p).user.pos = p
  <2>1. /\ base \in Nat /\ count \in Nat /\ p \in Int /\ p >= 0
    BY QueueAssumption DEF RingOK, TypeOK
  <2>2. At(p) \in [set : BOOLEAN, user : Element \cup {None}]
    BY <2>1, CellFacts DEF At, RingOK, TypeOK
  <2>3. At(p).user.pos = p
    BY <1>1 DEF Match
  <2>4. At(p).user \in Element
    BY <2>1, <2>2, <2>3 DEF None
  <2>5. At(p).user \in Held
    BY <1>1, HeldIs DEF HeldByPosition, At
  <2> QED
    BY <2>3, <2>4, <2>5
<1>2. ASSUME NEW x \in Held
      PROVE  /\ x \in Element /\ x.pos \in base .. base + count - 1
             /\ At(x.pos).set /\ At(x.pos).user = x
  <2>1. PICK p \in base .. base + count - 1 : At(p).set /\ x = At(p).user
    BY HeldIs DEF HeldByPosition, At
  <2> QED
    BY <1>1, <2>1
<1> QED
  BY <1>1, <1>2

\* An element that fits goes to the slot of its position and to no other.
LEMMA FillEffect ==
  ASSUME RingOK, Match, NEW e, Arrives(e), Fill(e)
  PROVE  /\ RingOK' /\ Match' /\ Held' = Held \cup {e} /\ dropped' = dropped
         /\ e.pos >= base /\ e.pos < base + Size /\ \A x \in Held : x.pos # e.pos
         /\ base' = base
<1>1. /\ base \in Nat /\ count \in Nat /\ count <= Size /\ Size \in Nat \ {0}
      /\ e.pos \in Nat /\ e \in Element
  BY SizeFacts, RingFacts, PositionFacts DEF Arrives
<1>2. /\ e.pos \in base .. base + count - 1 /\ ~At(e.pos).set
      /\ queue' = [queue EXCEPT ![Cell(e.pos)] = [set |-> TRUE, user |-> e]]
      /\ begin' = begin /\ count' = count /\ base' = base /\ dropped' = dropped
  BY <1>1 DEF Fill
<1>3. queue \in [0 .. Size - 1 -> [set : BOOLEAN, user : Element \cup {None}]]
  BY DEF RingOK, TypeOK
<1>4. Cell(e.pos) \in 0 .. Size - 1
  BY <1>1, CellFacts
<1>5. \A p \in base .. base + count - 1 :
         queue'[Cell(p)] = IF p = e.pos THEN [set |-> TRUE, user |-> e] ELSE At(p)
  <2> TAKE p \in base .. base + count - 1
  <2>1. /\ p \in Int /\ e.pos \in Int /\ p - e.pos < Size /\ e.pos - p < Size
    BY <1>1, <1>2
  <2>2. p # e.pos => Cell(p) # Cell(e.pos)
    BY <2>1, CellFacts
  <2>3. Cell(p) \in 0 .. Size - 1
    BY <2>1, CellFacts
  <2> QED
    BY <1>2, <1>3, <1>4, <2>2, <2>3 DEF At
<1>6. RingOK'
  <2>1. queue' \in [0 .. Size - 1 -> [set : BOOLEAN, user : Element \cup {None}]]
    BY <1>1, <1>2, <1>3
  <2> QED
    BY <1>1, <1>2, <2>1 DEF RingOK, TypeOK, Arrives
<1>7. Match'
  BY <1>2, <1>5 DEF Match, At, Cell
<1>8. \A x : x \in Held' <=> x \in Held \/ x = e
  <2> TAKE x
  <2>1. x \in Held' <=> \E p \in base .. base + count - 1 :
                          queue'[Cell(p)].set /\ x = queue'[Cell(p)].user
    BY <1>2, <1>6, HeldIsNext
  <2>2. x \in Held <=> \E p \in base .. base + count - 1 : At(p).set /\ x = At(p).user
    BY HeldIs DEF HeldByPosition, At
  <2> QED
    BY <1>2, <1>5, <2>1, <2>2
<1>9. \A x \in Held : x.pos # e.pos
  BY <1>2, HeldFacts
<1> QED
  BY <1>1, <1>2, <1>6, <1>7, <1>8, <1>9

\* Moving the end keeps what is at or past the new front, gives back the rest
\* and takes the element in; the slots in between are empty.
LEMMA ExtendEffect ==
  ASSUME RingOK, Match, NEW e, Arrives(e), NEW n \in base .. e.pos, Extend(e, n)
  PROVE  /\ RingOK' /\ Match' /\ Held' = Ahead(n) \cup {e} /\ dropped' = dropped \cup Behind(n)
         /\ \A x \in Held : x.pos # e.pos
         /\ e.pos < n + Size
         /\ n # base => strategy = "begin" /\ e.pos >= base + Size
         /\ base' = n
<1>1. /\ base \in Nat /\ count \in Nat /\ count <= Size /\ Size \in Nat \ {0} /\ M \in Nat \ {0}
      /\ e.pos \in Nat /\ n \in Nat /\ e \in Element /\ n >= base /\ n <= e.pos
  <2>1. e \in Element
    BY DEF Arrives
  <2> QED
    BY <2>1, SizeFacts, RingFacts, PositionFacts
<1>2. /\ e.pos >= base + count /\ e.pos < n + Size
      /\ n # base => strategy = "begin" /\ e.pos >= base + Size
      /\ begin' = n % M /\ count' = e.pos + 1 - n /\ base' = n
  BY DEF Extend
<1>3. PICK taken \in SUBSET (0 .. Size - 1) :
        /\ \A c : c \in taken <=> \E p \in base + count .. e.pos : p >= n /\ c = Cell(p)
        /\ queue' = [Emptied(queue, taken) EXCEPT ![Cell(e.pos)] = [set |-> TRUE, user |-> e]]
  BY DEF Extend
<1>4. \A x : x \in dropped' <=> x \in dropped \/ \E p \in Front(n) : x = At(p).user
  BY DEF Extend
<1>5. queue \in [0 .. Size - 1 -> [set : BOOLEAN, user : Element \cup {None}]]
  BY DEF RingOK, TypeOK
<1>6. /\ Emptied(queue, taken) \in [0 .. Size - 1 -> [set : BOOLEAN, user : Element \cup {None}]]
      /\ \A c \in 0 .. Size - 1 : c \notin taken => Emptied(queue, taken)[c] = queue[c]
      /\ \A c \in taken : ~Emptied(queue, taken)[c].set
  BY <1>5 DEF Emptied
<1>7. \A p \in n .. e.pos :
        /\ p = e.pos => queue'[Cell(p)] = [set |-> TRUE, user |-> e]
        /\ p # e.pos /\ p < base + count => queue'[Cell(p)] = At(p)
        /\ p # e.pos /\ p >= base + count => ~queue'[Cell(p)].set
  <2> TAKE p \in n .. e.pos
  <2>1. p \in Int /\ e.pos \in Int /\ p - e.pos < Size /\ e.pos - p < Size /\ p >= n /\ p >= base
    BY <1>1, <1>2
  <2>2. p # e.pos => Cell(p) # Cell(e.pos)
    BY <2>1, CellFacts
  <2>3. Cell(p) \in 0 .. Size - 1 /\ Cell(e.pos) \in 0 .. Size - 1
    BY <2>1, CellFacts
  <2>4. /\ queue'[Cell(e.pos)] = [set |-> TRUE, user |-> e]
        /\ p # e.pos => queue'[Cell(p)] = Emptied(queue, taken)[Cell(p)]
    BY <1>3, <1>6, <2>2, <2>3
  <2>5. CASE p < base + count
    <3>1. \A q \in base + count .. e.pos : q >= n => Cell(q) # Cell(p)
      <4> SUFFICES ASSUME NEW q \in base + count .. e.pos, q >= n
                   PROVE  Cell(q) # Cell(p)
        OBVIOUS
      <4>1. q \in Int /\ q # p /\ q - p < Size /\ p - q < Size
        BY <1>1, <1>2, <2>1, <2>5
      <4> QED
        BY <2>1, <4>1, CellFacts
    <3>2. Cell(p) \notin taken
      BY <1>3, <3>1
    <3>3. p # e.pos => queue'[Cell(p)] = At(p)
      BY <1>6, <2>3, <2>4, <3>2 DEF At
    <3>4. p # e.pos
      BY <1>2, <1>1, <2>1, <2>5
    <3>5. ~(p >= base + count)
      BY <1>1, <2>1, <2>5
    <3> QED
      BY <3>3, <3>4, <3>5
  <2>6. CASE p >= base + count
    <3>1. Cell(p) \in taken
      BY <1>1, <1>3, <2>1, <2>6
    <3>2. p # e.pos => ~queue'[Cell(p)].set
      BY <1>6, <2>4, <3>1
    <3>3. p = e.pos => queue'[Cell(p)] = [set |-> TRUE, user |-> e]
      BY <2>4
    <3>4. ~(p < base + count)
      BY <1>1, <2>1, <2>6
    <3> QED
      BY <3>2, <3>3, <3>4
  <2> QED
    BY <1>1, <2>1, <2>5, <2>6
<1>8. \A x \in Held : x.pos # e.pos
  BY <1>1, <1>2, HeldFacts
<1>9. \A x : (\E p \in Front(n) : x = At(p).user) <=> x \in Behind(n)
  BY <1>1, HeldFacts DEF Front, Behind
<1>10. RingOK'
  <2>1. queue' \in [0 .. Size - 1 -> [set : BOOLEAN, user : Element \cup {None}]]
    BY <1>1, <1>3, <1>6
  <2>2. begin' \in Seqs /\ count' \in 0 .. Size /\ begin' = base' % M /\ base' \in Nat
    <3>1. n % M \in 0 .. M - 1
      BY <1>1, ModWitness
    <3>2. e.pos + 1 - n \in 0 .. Size
      BY <1>1, <1>2
    <3> QED
      BY <1>1, <1>2, <3>1, <3>2 DEF Seqs
  <2>3. dropped' \in SUBSET Element
    <3>1. dropped \in SUBSET Element
      BY DEF RingOK, TypeOK
    <3>2. Behind(n) \in SUBSET Element
      BY HeldFacts DEF Behind
    <3> QED
      BY <1>4, <1>9, <3>1, <3>2
  <2>4. /\ strategy' \in {"begin", "end"} /\ pulled' \in Seq(Element)
        /\ given' \in SUBSET Element /\ cut' \in SUBSET Element
    BY <1>1 DEF RingOK, TypeOK, Arrives
  <2> QED
    BY <2>1, <2>2, <2>3, <2>4 DEF RingOK, TypeOK
<1>11. \A p : p \in base' .. base' + count' - 1 <=> p \in n .. e.pos
  BY <1>1, <1>2
<1>12. Match'
  <2> SUFFICES ASSUME NEW p \in n .. e.pos, queue'[Cell(p)].set
               PROVE  queue'[Cell(p)].user.pos = p
    BY <1>11 DEF Match, At, Cell
  <2>1. CASE p = e.pos
    BY <1>7, <2>1
  <2>2. CASE p # e.pos
    <3>1. p \in base .. base + count - 1 /\ queue'[Cell(p)] = At(p)
      BY <1>1, <1>7, <2>2
    <3> QED
      BY <3>1 DEF Match
  <2> QED
    BY <2>1, <2>2
<1>13. \A x : x \in Held' <=> x \in Ahead(n) \/ x = e
  <2> TAKE x
  <2>1. x \in Held' <=> \E p \in n .. e.pos : queue'[Cell(p)].set /\ x = queue'[Cell(p)].user
    BY <1>10, <1>11, HeldIsNext
  <2>2. ASSUME NEW p \in n .. e.pos, queue'[Cell(p)].set, x = queue'[Cell(p)].user
        PROVE  x \in Ahead(n) \/ x = e
    <3>1. CASE p = e.pos
      BY <1>7, <2>2, <3>1
    <3>2. CASE p # e.pos
      <4>1. p \in base .. base + count - 1 /\ queue'[Cell(p)] = At(p)
        BY <1>1, <1>7, <2>2, <3>2
      <4> QED
        BY <1>1, <2>2, <4>1, HeldFacts DEF Ahead
    <3> QED
      BY <3>1, <3>2
  <2>3. ASSUME x \in Ahead(n)
        PROVE  x \in Held'
    <3>1. /\ x \in Held /\ x.pos >= n /\ x.pos \in base .. base + count - 1
          /\ At(x.pos).set /\ At(x.pos).user = x
      BY <2>3, HeldFacts DEF Ahead
    <3>2. x.pos \in n .. e.pos /\ x.pos # e.pos /\ x.pos < base + count
      BY <1>1, <1>2, <3>1
    <3> QED
      BY <1>7, <2>1, <3>1, <3>2
  <2>4. ASSUME x = e
        PROVE  x \in Held'
    <3>1. e.pos \in n .. e.pos
      BY <1>1
    <3> QED
      BY <1>7, <2>1, <2>4, <3>1
  <2> QED
    BY <2>1, <2>2, <2>3, <2>4
<1> QED
  BY <1>2, <1>4, <1>8, <1>9, <1>10, <1>12, <1>13

\* Pull takes the element at the front and moves the front past it.
LEMMA PullEffect ==
  ASSUME RingOK, Match, Pull
  PROVE  /\ RingOK' /\ Match'
         /\ \E x \in Held : /\ x.pos = base /\ pulled' = Append(pulled, x)
                            /\ Held' = Held \ {x}
         /\ base' = base + 1
<1>1. /\ base \in Nat /\ count \in Nat /\ count <= Size /\ Size \in Nat \ {0} /\ M \in Nat \ {0}
      /\ pulled \in Seq(Element)
  BY QueueAssumption DEF RingOK, TypeOK
<1>2. /\ count > 0 /\ Slot(0).set /\ pulled' = Append(pulled, Slot(0).user)
      /\ begin' = SeqAdd(M, begin, 1) /\ count' = count - 1 /\ base' = base + 1
      /\ UNCHANGED <<queue, strategy, given, dropped, cut>>
  BY DEF Pull
<1>3. /\ SeqAdd(M, begin, 1) = (base + 1) % M /\ Slot(0) = At(base)
  <2>1. \A k \in Int : SeqAdd(M, begin, k) = (base + k) % M /\ Slot(k) = At(base + k)
    BY SlotIsAt
  <2>2. base + 0 = base
    BY <1>1
  <2>3. Slot(0) = At(base + 0)
    BY <2>1
  <2> QED
    BY <2>1, <2>2, <2>3
<1> DEFINE x == At(base).user
<1>4. base \in base .. base + count - 1 /\ At(base).set
  BY <1>1, <1>2, <1>3
<1>5. x \in Held /\ x \in Element /\ x.pos = base
  BY <1>4, HeldFacts
<1>6. RingOK'
  <2>1. begin' \in Seqs /\ begin' = base' % M
    <3>1. PICK t \in Int : t = base + 1
      BY <1>1
    <3>2. t % M \in 0 .. M - 1
      BY <1>1, ModWitness
    <3> QED
      BY <1>2, <1>3, <3>1, <3>2 DEF Seqs
  <2>2. pulled' \in Seq(Element) /\ count' \in 0 .. Size /\ base' \in Nat
    BY <1>1, <1>2, <1>3, <1>5
  <2> QED
    BY <1>2, <2>1, <2>2 DEF RingOK, TypeOK
<1>7. \A p : p \in base' .. base' + count' - 1 <=> p \in base .. base + count - 1 /\ p # base
  BY <1>1, <1>2
<1>8. Match'
  BY <1>2, <1>7 DEF Match, At, Cell
<1>9. \A y : y \in Held' <=> y \in Held /\ y # x
  <2> TAKE y
  <2>1. y \in Held' <=> \E p \in base' .. base' + count' - 1 :
                          queue'[Cell(p)].set /\ y = queue'[Cell(p)].user
    BY <1>6, HeldIsNext
  <2>2. ASSUME NEW p \in base .. base + count - 1, p # base, At(p).set, y = At(p).user
        PROVE  y \in Held /\ y # x
    BY <1>5, <2>2, HeldFacts
  <2>3. ASSUME y \in Held, y # x
        PROVE  \E p \in base .. base + count - 1 : p # base /\ At(p).set /\ y = At(p).user
    <3>1. /\ y.pos \in base .. base + count - 1 /\ At(y.pos).set /\ At(y.pos).user = y
      BY <2>3, HeldFacts
    <3>2. y.pos # base
      BY <2>3, <3>1
    <3> QED
      BY <3>1, <3>2
  <2> QED
    BY <1>2, <1>7, <2>1, <2>2, <2>3 DEF At
<1>10. Held' = Held \ {x}
  BY <1>9
<1> QED
  BY <1>2, <1>3, <1>5, <1>6, <1>8, <1>10
-----------------------------------------------------------------------------
\* One more element pulled.
LEMMA PulledGrows ==
  ASSUME pulled \in Seq(Element), NEW x \in Element, pulled' = Append(pulled, x)
  PROVE  /\ Pulled' = Pulled \cup {x}
         /\ PulledOnce /\ x \notin Pulled => PulledOnce'
<1> DEFINE n == Len(pulled)
<1>1. /\ n \in Nat /\ DOMAIN pulled = 1 .. n /\ DOMAIN pulled' = 1 .. n + 1 /\ Len(pulled') = n + 1
      /\ \A i \in 1 .. n : pulled'[i] = pulled[i]
      /\ pulled'[n + 1] = x
  OBVIOUS
<1> HIDE DEF n
<1>2. \A y : y \in Pulled' <=> y \in Pulled \/ y = x
  <2> TAKE y
  <2>1. y \in Pulled' <=> \E i \in 1 .. n + 1 : y = pulled'[i]
    BY <1>1 DEF Pulled
  <2>2. y \in Pulled <=> \E i \in 1 .. n : y = pulled[i]
    BY <1>1 DEF Pulled
  <2>3. \A i : i \in 1 .. n + 1 <=> i \in 1 .. n \/ i = n + 1
    BY <1>1
  <2> QED
    BY <1>1, <2>1, <2>2, <2>3
<1>3. ASSUME PulledOnce, x \notin Pulled
      PROVE  PulledOnce'
  <2>1. \A i \in 1 .. n : pulled[i] # x
    BY <1>1, <1>3 DEF Pulled
  <2>2. \A i : i \in 1 .. n + 1 <=> i \in 1 .. n \/ i = n + 1
    BY <1>1
  <2>3. \A i, j \in 1 .. n : pulled[i] = pulled[j] => i = j
    BY <1>3 DEF PulledOnce, n
  <2>4. \A i, j \in 1 .. n + 1 : pulled'[i] = pulled'[j] => i = j
    BY <1>1, <2>1, <2>2, <2>3
  <2> QED
    BY <1>1, <2>4 DEF PulledOnce
<1> QED
  BY <1>2, <1>3

\* Nothing pulled twice: as many elements as pulls.
LEMMA PulledCount ==
  ASSUME pulled \in Seq(Element), PulledOnce
  PROVE  Cardinality(Pulled) = Len(pulled)
<1> DEFINE n == Len(pulled)
<1>1. n \in Nat /\ DOMAIN pulled = 1 .. n
  OBVIOUS
<1> DEFINE f == [i \in 1 .. n |-> pulled[i]]
<1>2. f \in Bijection(1 .. n, Pulled)
  BY <1>1 DEF Bijection, Injection, IsInjective, Surjection, Pulled, PulledOnce
<1>3. IsFiniteSet(1 .. n) /\ Cardinality(1 .. n) = n
  BY <1>1, FS_Interval
<1> HIDE DEF f
<1>4. ExistsBijection(1 .. n, Pulled)
  BY <1>2 DEF ExistsBijection
<1> QED
  BY <1>3, <1>4, FS_Bijection

\* An element no one has seen yet is taken in or refused, and what makes room
\* for it is given back once.
LEMMA PushOK ==
  ASSUME QueueInv, NEW e \in Element, Push(e)
  PROVE  QueueInv'
<1>1. /\ RingOK /\ Match /\ PulledOnce /\ Owned /\ Arrives(e)
      /\ Fill(e) \/ Refuse(e) \/ \E n \in base .. e.pos : Extend(e, n)
  BY PushUnwrapped DEF QueueInv
<1>2. /\ given' = given \cup {e} /\ e \notin given /\ Pulled' = Pulled /\ PulledOnce'
  BY <1>1 DEF Arrives, Pulled, PulledOnce
<1>3. CASE Fill(e)
  <2>1. RingOK' /\ Match' /\ Held' = Held \cup {e} /\ dropped' = dropped
    BY <1>1, <1>3, FillEffect
  <2> QED
    BY <1>1, <1>2, <2>1 DEF QueueInv, Owned
<1>4. CASE Refuse(e)
  <2>1. RingOK' /\ Match' /\ Held' = Held
    BY <1>1, <1>4 DEF Refuse, Arrives, RingOK, TypeOK, Match, At, Cell, Held, Slot
  <2> QED
    BY <1>1, <1>2, <1>4, <2>1 DEF QueueInv, Owned, Refuse
<1>5. ASSUME NEW n \in base .. e.pos, Extend(e, n)
      PROVE  QueueInv'
  <2>1. RingOK' /\ Match' /\ Held' = Ahead(n) \cup {e} /\ dropped' = dropped \cup Behind(n)
    BY <1>1, <1>5, ExtendEffect
  <2>2. Held = Ahead(n) \cup Behind(n) /\ Ahead(n) \cap Behind(n) = {}
    <3>1. \A x \in Held : x.pos \in base .. base + count - 1
      BY <1>1, HeldFacts
    <3>2. base \in Int /\ n \in Int
      BY <1>1 DEF RingOK, TypeOK
    <3>3. \A x \in Held : x.pos >= n <=> ~(x.pos < n)
      BY <3>1, <3>2
    <3> QED
      BY <3>3 DEF Ahead, Behind
  <2> QED
    BY <1>1, <1>2, <2>1, <2>2 DEF QueueInv, Owned
<1> QED
  BY <1>1, <1>3, <1>4, <1>5

\* The element pulled leaves the ring for good.
LEMMA PullOK ==
  ASSUME QueueInv, Pull
  PROVE  QueueInv'
<1>1. RingOK /\ Match /\ PulledOnce /\ Owned
  BY DEF QueueInv
<1>2. RingOK' /\ Match'
  BY <1>1, PullEffect
<1>3. PICK x \in Held : pulled' = Append(pulled, x) /\ Held' = Held \ {x}
  BY <1>1, PullEffect
<1>4. x \in Element /\ pulled \in Seq(Element)
  BY <1>1, HeldFacts DEF RingOK, TypeOK
<1>5. x \notin Pulled
  BY <1>1 DEF Owned
<1>6. Pulled' = Pulled \cup {x} /\ PulledOnce'
  BY <1>1, <1>3, <1>4, <1>5, PulledGrows
<1>7. given' = given /\ dropped' = dropped
  BY DEF Pull
<1> QED
  BY <1>1, <1>2, <1>3, <1>6, <1>7 DEF QueueInv, Owned

\* The callback of drop changes nothing in the ring.
LEMMA DropOK ==
  ASSUME QueueInv, NEW k \in 0 .. Size - 1, Drop(k)
  PROVE  QueueInv'
<1>1. RingOK /\ Match
  BY DEF QueueInv
<1>2. /\ k \in 0 .. count - 1 /\ Slot(k).set /\ k \in Int
      /\ cut' = cut \cup {Slot(k).user}
      /\ UNCHANGED <<begin, count, queue, strategy, given, dropped, pulled, base>>
  BY <1>1, QueueAssumption DEF Drop, RingOK, TypeOK
<1>3. Slot(k).user \in Element
  <2>1. Slot(k).user \in Held
    BY <1>2 DEF Held
  <2> QED
    BY <1>1, <2>1, HeldFacts
<1>4. RingOK'
  BY <1>1, <1>2, <1>3 DEF RingOK, TypeOK
<1>5. Match' /\ PulledOnce' /\ Owned'
  BY <1>2 DEF QueueInv, Match, At, Cell, PulledOnce, Owned, Held, Slot, Pulled
<1> QED
  BY <1>4, <1>5 DEF QueueInv

\* A fresh queue satisfies the invariant, and every step keeps it.
LEMMA QueueInitOK == Init => QueueInv
<1> SUFFICES ASSUME Init
             PROVE  QueueInv
  OBVIOUS
<1>1. /\ M \in Nat \ {0} /\ Size \in Nat \ {0} /\ Starts \subseteq 0 .. M - 1
      /\ base \in Starts /\ begin = base /\ count = 0 /\ pulled = << >>
      /\ given = {} /\ dropped = {} /\ cut = {}
  BY QueueAssumption DEF Init
<1>2. begin = base % M /\ begin \in Seqs /\ base \in Nat
  BY <1>1, ModSmall DEF Seqs
<1>3. TypeOK
  <2>1. queue \in [0 .. Size - 1 -> [set : BOOLEAN, user : Element \cup {None}]]
    BY DEF Init
  <2>2. pulled \in Seq(Element) /\ count \in 0 .. Size /\ strategy \in {"begin", "end"}
    BY <1>1 DEF Init
  <2> QED
    BY <1>1, <1>2, <2>1, <2>2 DEF TypeOK
<1>4. Held = {} /\ Pulled = {} /\ PulledOnce
  BY <1>1 DEF Held, Pulled, PulledOnce
<1>5. Match
  BY <1>1, <1>2 DEF Match
<1> QED
  BY <1>1, <1>2, <1>3, <1>4, <1>5 DEF QueueInv, RingOK, Owned

LEMMA QueueStepOK == QueueInv /\ [Next]_vars => QueueInv'
<1> SUFFICES ASSUME QueueInv, [Next]_vars
             PROVE  QueueInv'
  OBVIOUS
<1>1. CASE \E e \in Element : Push(e)
  BY <1>1, PushOK
<1>2. CASE Pull
  BY <1>2, PullOK
<1>3. CASE \E k \in 0 .. Size - 1 : Drop(k)
  BY <1>3, DropOK
<1>4. CASE UNCHANGED vars
  <2>1. UNCHANGED <<begin, count, queue, strategy, given, dropped, pulled, base, cut>>
    BY <1>4 DEF vars
  <2>2. RingOK' /\ Match'
    BY <2>1 DEF QueueInv, RingOK, TypeOK, Match, At, Cell
  <2>3. Held' = Held /\ Pulled' = Pulled /\ PulledOnce'
    BY <2>1 DEF QueueInv, Held, Slot, Pulled, PulledOnce
  <2> QED
    BY <2>1, <2>2, <2>3 DEF QueueInv, Owned
<1> QED
  BY <1>1, <1>2, <1>3, <1>4 DEF Next

\* The inductive invariant: begin is the number of the window's position, what
\* is set in the window sits in the slot of its position, nothing was pulled
\* twice, and each element given is in exactly one of dropped, Pulled and Held.
THEOREM QueueInvariant == Spec => []QueueInv
BY QueueInitOK, QueueStepOK, PTL DEF Spec
-----------------------------------------------------------------------------
\* The window never grows beyond the ring and every slot stays an element and
\* a flag.
THEOREM QueueTypeOK == Spec => []TypeOK
<1>1. QueueInv => TypeOK
  BY DEF QueueInv, RingOK
<1> QED
  BY <1>1, QueueInvariant, PTL

\* A slot the ring says is set holds the packet of the sequence number its
\* place stands for, however often the numbers and the ring have wrapped.
THEOREM QueueSlotsMatch == Spec => []SlotsMatch
<1>1. QueueInv => SlotsMatch
  <2> SUFFICES ASSUME QueueInv, NEW k \in 0 .. count - 1, Slot(k).set
               PROVE  Slot(k).user.pos = base + k
    BY DEF SlotsMatch
  <2>1. RingOK /\ Match /\ base \in Int /\ count \in Int /\ k \in Int
    BY RingFacts DEF QueueInv
  <2>2. Slot(k) = At(base + k) /\ base + k \in base .. base + count - 1
    BY <2>1, SlotIsAt
  <2> QED
    BY <2>1, <2>2 DEF Match
<1> QED
  BY <1>1, QueueInvariant, PTL

\* No element pushed is lost, and none is handed back twice: takion frees each
\* message exactly once.
THEOREM QueueHandedOverOnce == Spec => []HandedOverOnce
<1>1. QueueInv => HandedOverOnce
  <2> SUFFICES ASSUME QueueInv
               PROVE  HandedOverOnce
    OBVIOUS
  <2>1. Cardinality(Pulled) = Len(pulled)
    BY PulledCount DEF QueueInv, RingOK, TypeOK
  <2> QED
    BY <2>1 DEF QueueInv, Owned, HandedOverOnce
<1> QED
  BY <1>1, QueueInvariant, PTL

\* Without eviction the queue keeps what it has taken in until it is pulled.
THEOREM QueueAcceptedStays == Spec => AcceptedStays
<1>1. QueueInv /\ [Next]_vars =>
        [strategy = "end" => Held \subseteq (Held' \cup Pulled')]_vars
  <2> SUFFICES ASSUME QueueInv, Next, strategy = "end"
               PROVE  Held \subseteq (Held' \cup Pulled')
    OBVIOUS
  <2>1. RingOK /\ Match /\ base \in Int /\ pulled \in Seq(Element)
    BY DEF QueueInv, RingOK, TypeOK
  <2>2. ASSUME NEW e \in Element, Push(e)
        PROVE  Held \subseteq Held'
    <3>1. Arrives(e) /\ (Fill(e) \/ Refuse(e) \/ \E n \in base .. e.pos : Extend(e, n))
      BY <2>1, <2>2, PushUnwrapped
    <3>2. Fill(e) => Held' = Held \cup {e}
      BY <2>1, <3>1, FillEffect
    <3>3. Refuse(e) => Held' = Held
      BY DEF Refuse, Held, Slot
    <3>4. ASSUME NEW n \in base .. e.pos, Extend(e, n)
          PROVE  Held \subseteq Held'
      <4>1. n = base /\ Held' = Ahead(n) \cup {e}
        BY <2>1, <3>1, <3>4, ExtendEffect
      <4>2. \A x \in Held : x.pos \in base .. base + count - 1
        BY <2>1, HeldFacts
      <4>3. \A x \in Held : x.pos >= n
        BY <2>1, <4>1, <4>2
      <4> QED
        BY <4>1, <4>3 DEF Ahead
    <3> QED
      BY <3>1, <3>2, <3>3, <3>4
  <2>3. CASE Pull
    <3>1. PICK x \in Held : pulled' = Append(pulled, x) /\ Held' = Held \ {x}
      BY <2>1, <2>3, PullEffect
    <3>2. Pulled' = Pulled \cup {x}
      BY <2>1, <3>1, HeldFacts, PulledGrows
    <3> QED
      BY <3>1, <3>2
  <2>4. ASSUME NEW k \in 0 .. Size - 1, Drop(k)
        PROVE  Held' = Held
    BY <2>4 DEF Drop, Held, Slot
  <2> QED
    BY <2>2, <2>3, <2>4 DEF Next
<1> QED
  BY <1>1, QueueInvariant, PTL DEF Spec, AcceptedStays
-----------------------------------------------------------------------------
\* The positions the window holds, as ReorderWindow sees them.
Have == {x.pos : x \in Held}
Delivered == [i \in DOMAIN pulled |-> pulled[i].pos]

\* An element taken in where the window is: Accept.
LEMMA AcceptStep ==
  ASSUME QueueInv, NEW e \in Element, Arrives(e), Fill(e) \/ Extend(e, base)
  PROVE  Abstract!Accept(e.pos)
<1>1. RingOK /\ Match /\ base \in Int /\ e.pos \in Int /\ e.pos >= base
  <2>1. RingOK /\ Match /\ base \in Nat /\ count \in Nat
    BY RingFacts DEF QueueInv
  <2>2. e.pos \in Int
    BY PositionFacts
  <2>3. Fill(e) => e.pos >= base
    BY <2>1, <2>2 DEF Fill
  <2>4. Extend(e, base) => e.pos >= base
    BY <2>1, <2>2 DEF Extend
  <2> QED
    BY <2>1, <2>2, <2>3, <2>4
<1>2. /\ Held' = Held \cup {e} /\ \A x \in Held : x.pos # e.pos
      /\ e.pos < base + Size /\ base' = base
  <2>1. CASE Fill(e)
    BY <1>1, <2>1, FillEffect
  <2>2. CASE Extend(e, base)
    <3>1. /\ Held' = Ahead(base) \cup {e} /\ \A x \in Held : x.pos # e.pos
          /\ e.pos < base + Size /\ base' = base
      BY <1>1, <2>2, base \in base .. e.pos, ExtendEffect
    <3>2. \A x \in Held : x.pos >= base
      BY <1>1, HeldFacts
    <3>3. Ahead(base) = Held
      BY <3>2 DEF Ahead
    <3> QED
      BY <3>1, <3>3
  <2> QED
    BY <2>1, <2>2
<1>3. Have' = Have \cup {e.pos} /\ e.pos \notin Have
  BY <1>2 DEF Have
<1>4. strategy' = strategy /\ Delivered' = Delivered
  BY DEF Arrives, Delivered
<1>5. e.pos \in base .. base + Size - 1
  BY <1>1, <1>2, QueueAssumption
<1> QED
  BY <1>2, <1>3, <1>4, <1>5 DEF Abstract!Accept, Abstract!Window, Have, Delivered

\* An element that needs the window moved: Evict.
LEMMA EvictStep ==
  ASSUME QueueInv, NEW e \in Element, Arrives(e), NEW n \in base .. e.pos, n # base,
         Extend(e, n)
  PROVE  Abstract!Evict(e.pos)
<1>1. RingOK /\ Match /\ base \in Int /\ e.pos \in Int
  <2>1. RingOK /\ Match /\ base \in Nat
    BY RingFacts DEF QueueInv
  <2>2. e.pos \in Int
    BY PositionFacts
  <2> QED
    BY <2>1, <2>2
<1>2. /\ Held' = Ahead(n) \cup {e} /\ e.pos < n + Size /\ base' = n
      /\ strategy = "begin" /\ e.pos >= base + Size
  BY <1>1, ExtendEffect
<1>3. Have' = {q \in Have : q >= n} \cup {e.pos}
  BY <1>2 DEF Have, Ahead
<1>4. strategy' = strategy /\ Delivered' = Delivered
  BY DEF Arrives, Delivered
<1>5. n \in base + 1 .. e.pos
  BY <1>1
<1> QED
  BY <1>2, <1>3, <1>4, <1>5 DEF Abstract!Evict, Have, Delivered

\* A pull: Deliver.
LEMMA DeliverStep ==
  ASSUME QueueInv, Pull
  PROVE  Abstract!Deliver
<1>1. RingOK /\ Match /\ base \in Int /\ pulled \in Seq(Element)
  BY DEF QueueInv, RingOK, TypeOK
<1>2. PICK x \in Held : /\ x.pos = base /\ pulled' = Append(pulled, x)
                        /\ Held' = Held \ {x}
  BY <1>1, PullEffect
<1>3. base' = base + 1 /\ strategy' = strategy
  BY DEF Pull
<1>4. \A y \in Held : y.pos = base => y = x
  BY <1>1, <1>2, HeldFacts
<1>5. Have' = Have \ {base} /\ base \in Have
  BY <1>2, <1>4 DEF Have
<1>6. Delivered' = Append(Delivered, base)
  <2>1. x \in Element
    BY <1>1, HeldFacts
  <2>2. /\ DOMAIN pulled' = 1 .. Len(pulled) + 1 /\ DOMAIN pulled = 1 .. Len(pulled)
        /\ Len(pulled) \in Nat
        /\ \A i \in 1 .. Len(pulled) : pulled'[i] = pulled[i]
        /\ pulled'[Len(pulled) + 1] = x
    BY <1>1, <1>2, <2>1
  <2> QED
    BY <1>2, <2>2 DEF Delivered
<1> QED
  BY <1>3, <1>5, <1>6 DEF Abstract!Deliver, Have, Delivered

\* The ring with wrapped numbers implements the window: every push is an
\* Accept, an Evict or nothing, every pull a Deliver, and drop is nothing.
THEOREM QueueRefines == Spec => Refines
<1>1. Init => Abstract!WindowInit
  <2> SUFFICES ASSUME Init
               PROVE  Abstract!WindowInit
    OBVIOUS
  <2>1. base \in Nat /\ Held = {} /\ pulled = << >>
    BY QueueAssumption DEF Init, Held
  <2>2. {x.pos : x \in Held} = {} /\ [i \in DOMAIN pulled |-> pulled[i].pos] = << >>
    BY <2>1
  <2> QED
    BY <2>1, <2>2 DEF Abstract!WindowInit
<1>2. QueueInv /\ [Next]_vars => [Abstract!WindowNext]_(Abstract!windowVars)
  <2> SUFFICES ASSUME QueueInv, [Next]_vars
               PROVE  [Abstract!WindowNext]_(Abstract!windowVars)
    OBVIOUS
  <2>1. ASSUME NEW e \in Element, Push(e)
        PROVE  [Abstract!WindowNext]_(Abstract!windowVars)
    <3>1. Arrives(e) /\ (Fill(e) \/ Refuse(e) \/ \E n \in base .. e.pos : Extend(e, n))
      BY <2>1, PushUnwrapped DEF QueueInv
    <3>2. e.pos \in 0 .. MaxPos
      BY DEF Element
    <3>3. CASE Fill(e) \/ Extend(e, base)
      BY <3>1, <3>2, <3>3, AcceptStep DEF Abstract!WindowNext
    <3>4. ASSUME NEW n \in base .. e.pos, n # base, Extend(e, n)
          PROVE  Abstract!WindowNext
      BY <3>1, <3>2, <3>4, EvictStep DEF Abstract!WindowNext
    <3>5. CASE Refuse(e)
      BY <3>1, <3>5 DEF Arrives, Refuse, Abstract!windowVars, Held, Slot
    <3> QED
      BY <3>1, <3>3, <3>4, <3>5
  <2>2. CASE Pull
    BY <2>2, DeliverStep DEF Abstract!WindowNext
  <2>3. CASE \E k \in 0 .. Size - 1 : Drop(k)
    BY <2>3 DEF Drop, Abstract!windowVars, Held, Slot
  <2>4. CASE UNCHANGED vars
    BY <2>4 DEF vars, Abstract!windowVars, Held, Slot
  <2> QED
    BY <2>1, <2>2, <2>3, <2>4 DEF Next
<1> QED
  BY <1>1, <1>2, QueueInvariant, PTL DEF Spec, Refines, Abstract!WindowSpec
-----------------------------------------------------------------------------
(* The order of what is pulled.                                            *)

PulledInOrder ==
  \A i, j \in 1 .. Len(pulled) : i < j => pulled[i].pos < pulled[j].pos

PulledWithoutGap ==
  strategy = "end" =>
    \A i \in 1 .. Len(pulled) : pulled[i].pos = base - Len(pulled) + i - 1

PulledBefore == \A i \in 1 .. Len(pulled) : pulled[i].pos < base

Ordered == PulledBefore /\ PulledInOrder /\ PulledWithoutGap

\* A push may move the window forward, and only where it may evict.
LEMMA PushKeepsOrder ==
  ASSUME QueueInv, Ordered, NEW e \in Element, Push(e)
  PROVE  Ordered'
<1>1. Arrives(e) /\ (Fill(e) \/ Refuse(e) \/ \E n \in base .. e.pos : Extend(e, n))
  BY PushUnwrapped DEF QueueInv
<1>2. /\ pulled' = pulled /\ strategy' = strategy
      /\ base \in Int /\ e.pos \in Int
      /\ \A i \in 1 .. Len(pulled) : pulled[i].pos \in Int
  <2>1. pulled' = pulled /\ strategy' = strategy
    BY <1>1 DEF Arrives
  <2>2. base \in Int /\ e.pos \in Int /\ pulled \in Seq(Element)
    BY PositionFacts DEF QueueInv, RingOK, TypeOK
  <2>3. \A i \in 1 .. Len(pulled) : pulled[i].pos \in Int
    <3>1. \A i \in 1 .. Len(pulled) : pulled[i] \in Element
      BY <2>2
    <3> QED
      BY <3>1, PositionFacts
  <2> QED
    BY <2>1, <2>2, <2>3
<1>3. base' \in Int /\ base' >= base /\ (strategy = "end" => base' = base)
  BY <1>1, <1>2 DEF Fill, Refuse, Extend
<1> QED
  BY <1>2, <1>3 DEF Ordered, PulledBefore, PulledInOrder, PulledWithoutGap

\* Pull hands over the element of the position the window begins at.
LEMMA PullKeepsOrder ==
  ASSUME QueueInv, Ordered, Pull
  PROVE  Ordered'
<1>1. RingOK /\ Match /\ base \in Int /\ pulled \in Seq(Element)
  BY DEF QueueInv, RingOK, TypeOK
<1>2. PICK x \in Held : x.pos = base /\ pulled' = Append(pulled, x)
  BY <1>1, PullEffect
<1>3. base' = base + 1 /\ strategy' = strategy
  BY DEF Pull
<1>4. /\ Len(pulled) \in Nat /\ Len(pulled') = Len(pulled) + 1
      /\ \A i \in 1 .. Len(pulled) : pulled'[i] = pulled[i]
      /\ pulled'[Len(pulled) + 1] = x
  <2>1. x \in Element
    BY <1>1, HeldFacts
  <2> QED
    BY <1>1, <1>2, <2>1
<1>5. \A i \in 1 .. Len(pulled') :
        \/ i \in 1 .. Len(pulled)
        \/ i = Len(pulled) + 1 /\ pulled'[i].pos = base
  BY <1>2, <1>4
<1>6. \A i \in 1 .. Len(pulled) : pulled[i].pos \in Int /\ pulled[i].pos < base
  <2>1. \A i \in 1 .. Len(pulled) : pulled[i] \in Element
    BY <1>1
  <2> QED
    BY <2>1, PositionFacts DEF Ordered, PulledBefore
<1>7. PulledBefore'
  BY <1>1, <1>3, <1>4, <1>5, <1>6 DEF PulledBefore
<1>8. PulledInOrder'
  <2> SUFFICES ASSUME NEW i \in 1 .. Len(pulled'), NEW j \in 1 .. Len(pulled'), i < j
               PROVE  pulled'[i].pos < pulled'[j].pos
    BY DEF PulledInOrder
  <2>1. i \in 1 .. Len(pulled)
    BY <1>4
  <2>2. CASE j \in 1 .. Len(pulled)
    BY <1>4, <2>1, <2>2 DEF Ordered, PulledInOrder
  <2>3. CASE j = Len(pulled) + 1 /\ pulled'[j].pos = base
    BY <1>4, <1>6, <2>1, <2>3
  <2> QED
    BY <1>5, <2>2, <2>3
<1>9. PulledWithoutGap'
  BY <1>1, <1>2, <1>3, <1>4, <1>5 DEF Ordered, PulledWithoutGap
<1> QED
  BY <1>7, <1>8, <1>9 DEF Ordered

\* What takion pulls comes in the order the console numbered it, and under
\* DROP_STRATEGY_END no number is skipped, though the numbers wrap and the
\* network reorders, repeats and delays.
THEOREM QueuePullsInOrder == Spec => [](PulledInOrder /\ PulledWithoutGap)
<1>1. Init => Ordered
  BY DEF Init, Ordered, PulledBefore, PulledInOrder, PulledWithoutGap
<1>2. QueueInv /\ Ordered /\ [Next]_vars => Ordered'
  <2> SUFFICES ASSUME QueueInv, Ordered, [Next]_vars
               PROVE  Ordered'
    OBVIOUS
  <2>1. CASE Next
    <3>1. CASE \E k \in 0 .. Size - 1 : Drop(k)
      BY <3>1 DEF Drop, Ordered, PulledBefore, PulledInOrder, PulledWithoutGap
    <3> QED
      BY <2>1, <3>1, PushKeepsOrder, PullKeepsOrder DEF Next
  <2>2. CASE UNCHANGED vars
    BY <2>2 DEF vars, Ordered, PulledBefore, PulledInOrder, PulledWithoutGap
  <2> QED
    BY <2>1, <2>2
<1>3. Ordered => PulledInOrder /\ PulledWithoutGap
  BY DEF Ordered
<1> QED
  BY <1>1, <1>2, <1>3, QueueInvariant, PTL DEF Spec
=============================================================================
