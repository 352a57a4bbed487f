---------------------------- MODULE ReorderQueue ----------------------------
(***************************************************************************)
(* chiaki/src/reorderqueue.c: a ring of Size slots indexed by the low bits *)
(* of a wrapping sequence number.  Takion puts the control messages it     *)
(* receives through one of these.                                          *)
(*                                                                         *)
(* An element the user pushes is a record [pos, copy]: the position of the *)
(* packet in the sender's stream, which does not wrap, and which arrival   *)
(* of that packet it is.  The code only sees pos % M.  A network that      *)
(* delays packets by less than half the number space is assumed (Lag and   *)
(* Lead): serial-number arithmetic has no meaning beyond it.               *)
(***************************************************************************)
EXTENDS Integers, Sequences, FiniteSets, SeqNum

CONSTANTS M,        \* number of sequence numbers, 2^bits in the code
          Size,     \* slots, 1 << size_exp; divides M
          MaxPos,   \* bound: highest position the sender uses
          Copies,   \* arrivals of one packet, a set
          Starts,   \* positions the stream may begin at
          Lag,      \* bound: how far behind the window a packet may arrive
          Lead      \* bound: how far past the end of the window

ASSUME QueueAssumption ==
  /\ {M, Size} \subseteq Nat \ {0} /\ M % 2 = 0 /\ M % Size = 0
  /\ {MaxPos, Lag, Lead} \subseteq Nat /\ Starts \subseteq 0 .. M - 1
  /\ Lag < M \div 2 /\ Size + Lead < M \div 2

VARIABLES begin, count,  \* the window, in wrapped sequence numbers
          queue,         \* the ring: slot -> [set, user]
          strategy,      \* drop_strategy
          given,         \* ghost: elements pushed so far
          dropped,       \* ghost: elements handed to drop_cb by push
          pulled,        \* ghost: elements pull returned, in order
          base,          \* ghost: the position `begin' stands for
          cut            \* ghost: elements handed to drop_cb by drop

vars == <<begin, count, queue, strategy, given, dropped, pulled, base, cut>>

Element == [pos : 0 .. MaxPos, copy : Copies]
None == [pos |-> -1, copy |-> "none"]   \* a slot the code has not written yet

Seqs == 0 .. M - 1
idx(s) == s % Size
end == SeqAdd(M, begin, count)
Slot(k) == queue[idx(SeqAdd(M, begin, k))]

Pulled == {pulled[i] : i \in DOMAIN pulled}
Held == {Slot(k).user : k \in {j \in 0 .. count - 1 : Slot(j).set}}

Init == /\ strategy \in {"begin", "end"}
        /\ base \in Starts
        /\ begin = base
        /\ count = 0
        /\ queue = [i \in 0 .. Size - 1 |-> [set |-> FALSE, user |-> None]]
        /\ given = {} /\ dropped = {} /\ cut = {} /\ pulled = << >>
-----------------------------------------------------------------------------
InQueue(s) == SeqGe(M, s, begin) /\ SeqLt(M, s, end)

\* Mutant of Overrun: new_end taken as s instead of s + 1
OverrunLate(b, s) == SeqLt(M, SeqAdd(M, b, Size), s)

\* total_end is before new_end when the window begins at b
Overrun(b, s) == SeqLt(M, SeqAdd(M, b, Size), SeqAdd(M, s, 1))

\* Mutant of MakesRoom: the strategy is not asked
MakesRoomAlways == TRUE

MakesRoom == strategy = "begin"

\* Mutant of Emptied: slots keep what they held on the previous trip
EmptiedNot(q, slots) == q

Emptied(q, slots) == [i \in DOMAIN q |->
                        IF i \in slots THEN [q[i] EXCEPT !.set = FALSE] ELSE q[i]]

\* Mutant of PushFill: no test for an element received twice
PushFillTwice(e, s) ==
  /\ InQueue(s)
  /\ queue' = [queue EXCEPT ![idx(s)] = [set |-> TRUE, user |-> e]]
  /\ UNCHANGED <<begin, count, base, dropped>>

\* push, line 68: the slot is inside the window and still empty
PushFill(e, s) ==
  /\ InQueue(s) /\ ~queue[idx(s)].set
  /\ queue' = [queue EXCEPT ![idx(s)] = [set |-> TRUE, user |-> e]]
  /\ UNCHANGED <<begin, count, base, dropped>>

\* push, drop_it: received twice, older than the window, or too far ahead
PushRefuse(e, s) ==
  /\ \/ InQueue(s) /\ queue[idx(s)].set
     \/ ~InQueue(s) /\ SeqLt(M, s, begin)
     \/ ~InQueue(s) /\ ~SeqLt(M, s, begin) /\ Overrun(begin, s) /\ ~MakesRoom
  /\ dropped' = dropped \cup {e}
  /\ UNCHANGED <<begin, count, queue, base>>

\* push, lines 92-121: make room at the front if the strategy says so, then
\* move the end until it is past s, emptying every slot taken in
PushExtend(e, s) ==
  /\ ~InQueue(s) /\ ~SeqLt(M, s, begin)
  /\ Overrun(begin, s) => MakesRoom
  /\ LET enough(k) == k = count \/ ~Overrun(SeqAdd(M, begin, k), s)
         k == CHOOSE n \in 0 .. count :
                enough(n) /\ \A j \in 0 .. n - 1 : ~enough(j)
         drained == k = count /\ Overrun(begin, s)
         b == IF drained THEN s ELSE SeqAdd(M, begin, k)
         c == SeqAdd(M, s, 1 - b + M)
         taken == {idx(SeqAdd(M, b, j)) : j \in count - k .. c - 1}
     IN /\ begin' = b /\ count' = c
        /\ base' = IF drained THEN e.pos ELSE base + k
        /\ queue' = [Emptied(queue, taken) EXCEPT ![idx(s)] = [set |-> TRUE, user |-> e]]
        /\ dropped' = dropped \cup {Slot(j).user : j \in {i \in 0 .. k - 1 : Slot(i).set}}

\* chiaki_reorder_queue_push, by a user that received packet e
Push(e) == /\ e \notin given
           /\ e.pos >= base - Lag /\ e.pos < base + Size + Lead
           /\ LET s == e.pos % M
              IN PushFill(e, s) \/ PushRefuse(e, s) \/ PushExtend(e, s)
           /\ given' = given \cup {e}
           /\ UNCHANGED <<strategy, pulled, cut>>

\* chiaki_reorder_queue_pull
Pull == /\ count > 0 /\ Slot(0).set
        /\ pulled' = Append(pulled, Slot(0).user)
        /\ begin' = SeqAdd(M, begin, 1)
        /\ count' = count - 1
        /\ base' = base + 1
        /\ UNCHANGED <<queue, strategy, given, dropped, cut>>

\* chiaki_reorder_queue_drop: the callback is called; the entry stays set, so
\* the loop that would shrink the window never runs
Drop(k) == /\ k < count /\ Slot(k).set
           /\ cut' = cut \cup {Slot(k).user}
           /\ UNCHANGED <<begin, count, queue, strategy, given, dropped, pulled, base>>

Next == \/ \E e \in Element : Push(e)
        \/ Pull
        \/ \E k \in 0 .. Size - 1 : Drop(k)

Spec == Init /\ [][Next]_vars
-----------------------------------------------------------------------------
TypeOK == /\ begin \in Seqs /\ count \in 0 .. Size
          /\ queue \in [0 .. Size - 1 -> [set : BOOLEAN, user : Element \cup {None}]]
          /\ strategy \in {"begin", "end"}
          /\ {dropped, cut, given} \subseteq SUBSET Element
          /\ pulled \in Seq(Element)
          /\ base \in Nat

\* An entry the ring says is set belongs to the sequence number its place in
\* the window stands for.  A slot left over from the previous trip round the
\* ring, or not emptied when the end moves over it, would break this.
SlotsMatch == \A k \in 0 .. count - 1 : Slot(k).set => Slot(k).user.pos = base + k

\* Every element the user gave away comes back through exactly one of pull and
\* the callback of push: takion frees it in takion_flush_data_queue or in
\* takion_data_drop, so an element in two of these sets is freed twice and one
\* in none is leaked (Held is what fini releases).
HandedOverOnce == /\ given = dropped \cup Pulled \cup Held
                  /\ dropped \cap (Pulled \cup Held) = {}
                  /\ Pulled \cap Held = {}
                  /\ Cardinality(Pulled) = Len(pulled)

\* Under DROP_STRATEGY_END, what the queue has accepted stays in it until it is
\* pulled, whatever arrives later.
AcceptedStays == [][strategy = "end" => Held \subseteq (Held' \cup Pulled')]_vars

\* reorderqueue.h:121: "Drop a specific element from the queue".
DroppedIsGone == cut \cap (Held \cup Pulled) = {}

\* The ring with wrapped numbers implements the unwrapped window.
Abstract == INSTANCE ReorderWindow WITH
              Positions <- 0 .. MaxPos,
              evicting <- strategy = "begin",
              next <- base,
              have <- {e.pos : e \in Held},
              delivered <- [i \in DOMAIN pulled |-> pulled[i].pos]

\* What the window promises holds of the ring: push keeps, moves or refuses as
\* Accept, Evict or a stuttering step do, and pull delivers.
Refines == Abstract!WindowSpec
=============================================================================
