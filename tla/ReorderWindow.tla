--------------------------- MODULE ReorderWindow ----------------------------
(***************************************************************************)
(* What chiaki_reorder_queue promises its user, with positions that never  *)
(* wrap: a window of Size positions beginning at `next', the position to   *)
(* be pulled next.  Elements may arrive in any order inside the window and *)
(* are delivered in order.  Everything the queue does with an element it   *)
(* does not keep (duplicates, old ones, ones beyond the window) is a       *)
(* stuttering step here.  ReorderQueue.tla is the ring buffer with wrapped *)
(* sequence numbers that implements this; Takion.tla is its user.          *)
(***************************************************************************)
EXTENDS Integers, Sequences

CONSTANTS Size,       \* slots of the queue, 1 << size_exp
          Positions   \* positions an element may arrive with

ASSUME WindowAssumption == Size \in Nat \ {0} /\ Positions \subseteq Nat

VARIABLES evicting,  \* TRUE for DROP_STRATEGY_BEGIN, FALSE for ..._END
          next,      \* position of the next element to pull
          have,      \* positions held in the window
          delivered  \* positions pulled so far, in the order they were pulled

windowVars == <<evicting, next, have, delivered>>

Window == next .. next + Size - 1

WindowInit == /\ evicting \in BOOLEAN
              /\ next \in Nat
              /\ have = {}
              /\ delivered = << >>

\* An element that fits is kept once.
Accept(p) == /\ p \in Window \ have
             /\ have' = have \cup {p}
             /\ UNCHANGED <<evicting, next, delivered>>

\* An element beyond the window moves it, at the cost of the lowest elements
\* (DROP_STRATEGY_BEGIN only).
Evict(p) == /\ evicting
            /\ p >= next + Size
            /\ \E n \in next + 1 .. p :
                 /\ p < n + Size
                 /\ next' = n
                 /\ have' = {q \in have : q >= n} \cup {p}
            /\ UNCHANGED <<evicting, delivered>>

\* Mutant of Deliver: the element goes, the window stays where it is
DeliverStill == /\ next \in have
                /\ delivered' = Append(delivered, next)
                /\ have' = have \ {next}
                /\ UNCHANGED <<evicting, next>>

Deliver == /\ next \in have
           /\ delivered' = Append(delivered, next)
           /\ have' = have \ {next}
           /\ next' = next + 1
           /\ UNCHANGED evicting

WindowNext == \/ \E p \in Positions : Accept(p) \/ Evict(p)
              \/ Deliver

WindowSpec == WindowInit /\ [][WindowNext]_windowVars
-----------------------------------------------------------------------------
WindowTypeOK == /\ evicting \in BOOLEAN
                /\ next \in Nat
                /\ have \subseteq Window
                /\ delivered \in Seq(Nat)

\* Elements come out in increasing order, so none comes out twice, and the
\* window has always moved past everything that came out:
\* takion_flush_data_queue hands messages to the connection in the order the
\* console numbered them.
InOrder == /\ \A i \in 1 .. Len(delivered) : delivered[i] < next
           /\ \A i, j \in 1 .. Len(delivered) : i < j => delivered[i] < delivered[j]

\* Without eviction nothing is ever skipped: what came out is a run of
\* consecutive positions that ends just before the window.
NoGap == ~evicting =>
           \A i \in 1 .. Len(delivered) : delivered[i] = next - Len(delivered) + i - 1
=============================================================================
