--------------------------- MODULE SeqNum_proofs ---------------------------
(***************************************************************************)
(* What the comparisons of chiaki/seqnum.h mean for numbers that do not    *)
(* wrap: taken modulo M, they say how a and b are ordered as long as the   *)
(* two are less than half of M apart.                                      *)
(***************************************************************************)
EXTENDS Integers, SeqNum, TLAPS

\* A remainder is a remainder of some multiple ...
LEMMA ModWitness ==
  ASSUME NEW M \in Nat \ {0}, NEW a \in Int
  PROVE  a % M \in 0 .. M - 1 /\ \E q \in Int : a = M * q + (a % M)
<1>1. a % M \in 0 .. M - 1
  OBVIOUS
<1>2. \A r \in 0 .. M - 1 : a % M = r => \E q \in Int : a = M * q + r
  OBVIOUS
<1> QED
  BY <1>1, <1>2

\* ... and the only one of its size.
LEMMA ModUnique ==
  ASSUME NEW M \in Nat \ {0}, NEW a \in Int, NEW q \in Int, NEW r \in 0 .. M - 1,
         a = M * q + r
  PROVE  a % M = r
OBVIOUS

LEMMA ModSmall ==
  ASSUME NEW M \in Nat \ {0}, NEW a \in 0 .. M - 1
  PROVE  a % M = a
<1>1. a = M * 0 + a
  OBVIOUS
<1> QED
  BY <1>1, ModUnique

\* Going on by less than M passes the wrap at most once, in either direction.
LEMMA ModStep ==
  ASSUME NEW M \in Nat \ {0}, NEW a \in Int, NEW d \in Int, - M < d, d < M
  PROVE  (a + d) % M = IF (a % M) + d < 0 THEN (a % M) + d + M
                       ELSE IF (a % M) + d < M THEN (a % M) + d ELSE (a % M) + d - M
<1> DEFINE x == a % M
<1>1. x \in 0 .. M - 1
  BY ModWitness
<1>2. PICK q \in Int : a = M * q + x
  BY ModWitness
<1> HIDE DEF x
<1>3. CASE x + d < 0
  <2>1. a + d = M * (q - 1) + (x + d + M) /\ q - 1 \in Int /\ x + d + M \in 0 .. M - 1
    BY <1>1, <1>2, <1>3
  <2>2. (a + d) % M = x + d + M
    BY ONLY <2>1, ModUnique, a + d \in Int, M \in Nat \ {0}
  <2> QED
    BY <1>3, <2>2 DEF x
<1>4. CASE x + d >= 0 /\ x + d < M
  <2>1. a + d = M * q + (x + d) /\ x + d \in 0 .. M - 1
    BY <1>1, <1>2, <1>4
  <2>2. (a + d) % M = x + d
    BY ONLY <2>1, ModUnique, a + d \in Int, M \in Nat \ {0}, q \in Int
  <2> QED
    BY <1>1, <1>4, <2>2 DEF x
<1>5. CASE x + d >= M
  <2>1. a + d = M * (q + 1) + (x + d - M) /\ q + 1 \in Int /\ x + d - M \in 0 .. M - 1
    BY <1>1, <1>2, <1>5
  <2>2. (a + d) % M = x + d - M
    BY ONLY <2>1, ModUnique, a + d \in Int, M \in Nat \ {0}
  <2> QED
    BY <1>1, <1>5, <2>2 DEF x
<1> QED
  BY <1>1, <1>3, <1>4, <1>5

\* Adding to a wrapped number is adding to the number, wrapped.
LEMMA ModAdd ==
  ASSUME NEW M \in Nat \ {0}, NEW a \in Int, NEW b \in Int
  PROVE  ((a % M) + b) % M = (a + b) % M
<1>1. PICK q \in Int : a = M * q + (a % M)
  BY ModWitness
<1>2. a % M \in Int /\ (a % M) + b \in Int
  BY ModWitness
<1>3. PICK p \in Int : (a % M) + b = M * p + (((a % M) + b) % M)
  BY <1>2, ModWitness
<1>4. ((a % M) + b) % M \in 0 .. M - 1
  BY <1>2, ModWitness
<1> DEFINE r == ((a % M) + b) % M
           x == a % M
<1>5. r \in 0 .. M - 1 /\ a + b = M * (q + p) + r
  <2>1. a = M * q + x /\ x + b = M * p + r /\ r \in 0 .. M - 1 /\ x \in Int
    BY <1>1, <1>2, <1>3, <1>4
  <2> HIDE DEF r, x
  <2>2. a + b = M * q + M * p + r
    BY <2>1
  <2> QED
    BY <2>1, <2>2
<1> HIDE DEF r, x
<1>6. (a + b) % M = r
  BY <1>5, ModUnique, q + p \in Int, a + b \in Int
<1> QED
  BY <1>6 DEF r, x

\* Numbers less than M apart are told apart by their remainders.
LEMMA ModDistinct ==
  ASSUME NEW M \in Nat \ {0}, NEW a \in Int, NEW b \in Int, a # b, b - a < M, a - b < M
  PROVE  a % M # b % M
<1> DEFINE d == b - a
           x == a % M
<1>1. x \in 0 .. M - 1
  BY ModWitness
<1>2. b = a + d /\ d # 0 /\ - M < d /\ d < M /\ d \in Int
  OBVIOUS
<1> HIDE DEF d
<1>3. (a + d) % M = IF x + d < 0 THEN x + d + M ELSE IF x + d < M THEN x + d ELSE x + d - M
  BY <1>2, ModStep
<1> HIDE DEF x
<1>4. (a + d) % M # x
  BY <1>1, <1>2, <1>3
<1> QED
  BY <1>2, <1>4 DEF x

\* The comparisons of chiaki/seqnum.h within half of the numbers.
THEOREM SeqCompare ==
  ASSUME NEW M \in Nat \ {0}, M % 2 = 0, NEW a \in Int, NEW b \in Int,
         b - a < M \div 2, a - b < M \div 2
  PROVE  /\ SeqLt(M, a % M, b % M) <=> a < b
         /\ SeqGt(M, a % M, b % M) <=> a > b
         /\ SeqLe(M, a % M, b % M) <=> a <= b
         /\ SeqGe(M, a % M, b % M) <=> a >= b
<1> DEFINE x == a % M
           y == b % M
           h == M \div 2
           d == b - a
<1>1. h \in Nat /\ M = 2 * h
  OBVIOUS
<1>2. x \in 0 .. M - 1 /\ y \in 0 .. M - 1
  BY ModWitness
<1>3. y = IF x + d < 0 THEN x + d + M ELSE IF x + d < M THEN x + d ELSE x + d - M
  <2>1. b = a + d /\ d \in Int /\ - M < d /\ d < M
    BY <1>1
  <2>2. (a + d) % M = y
    BY <2>1
  <2> HIDE DEF d, h
  <2> QED
    BY <2>1, <2>2, ModStep
<1>4. d \in Int /\ d < h /\ - d < h /\ (d > 0 <=> a < b) /\ (d < 0 <=> a > b)
  OBVIOUS
<1> HIDE DEF x, y, h, d
<1>5. /\ (x < y /\ y - x < h) \/ (x > y /\ x - y > h) <=> d > 0
      /\ (x < y /\ y - x > h) \/ (x > y /\ x - y < h) <=> d < 0
      /\ x = y <=> d = 0
  BY <1>1, <1>2, <1>3, <1>4
<1>6. /\ SeqLt(M, x, y) <=> a < b
      /\ SeqGt(M, x, y) <=> a > b
  BY <1>4, <1>5 DEF SeqLt, SeqGt, h
<1>7. x = y <=> a = b
  BY <1>4, <1>5 DEF d
<1> QED
  BY <1>6, <1>7 DEF SeqLe, SeqGe, x, y
=============================================================================
