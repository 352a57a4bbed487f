--------------------------- MODULE Takion_proofs ----------------------------
(***************************************************************************)
(* For every window size, number of messages, and room in the network: the *)
(* reorder window delivers in order, at most once and, without eviction,   *)
(* without a gap; and the Takion thread that uses it delivers in order and *)
(* acknowledges only what it has delivered.                                *)
(***************************************************************************)
EXTENDS Takion, TLAPS

-----------------------------------------------------------------------------
(* The window, whoever uses it                                             *)

WindowInv == WindowTypeOK /\ InOrder /\ NoGap

\* The invariant holds of a fresh queue.
LEMMA WindowInitOK == WindowInit => WindowInv
BY WindowAssumption DEF WindowInit, WindowInv, WindowTypeOK, Window, InOrder, NoGap

\* Taking an element in leaves the order of what came out alone.
LEMMA AcceptOK ==
  ASSUME WindowInv, NEW p \in Positions, Accept(p)
  PROVE  WindowInv'
BY WindowAssumption DEF Accept, WindowInv, WindowTypeOK, Window, InOrder, NoGap

\* Moving the window forward keeps it past everything that came out.
LEMMA EvictOK ==
  ASSUME WindowInv, NEW p \in Positions, Evict(p)
  PROVE  WindowInv'
<1>1. PICK n \in next + 1 .. p : /\ p < n + Size
                                 /\ next' = n
                                 /\ have' = {q \in have : q >= n} \cup {p}
  BY DEF Evict
<1>2. /\ p \in Nat /\ next \in Nat /\ n \in Nat /\ n > next
      /\ evicting /\ evicting' = evicting /\ delivered' = delivered
  BY WindowAssumption DEF Evict, WindowInv, WindowTypeOK
<1>3. WindowTypeOK'
  <2>1. \A q \in have' : q \in n .. n + Size - 1
    BY <1>1, <1>2, WindowAssumption DEF WindowInv, WindowTypeOK, Window
  <2> QED
    BY <2>1, <1>1, <1>2 DEF WindowInv, WindowTypeOK, Window
<1>4. InOrder'
  BY <1>1, <1>2 DEF WindowInv, WindowTypeOK, InOrder
<1>5. NoGap'
  BY <1>2 DEF NoGap
<1> QED
  BY <1>3, <1>4, <1>5 DEF WindowInv

\* Delivery appends the position the window began at and moves past it.
LEMMA DeliverOK ==
  ASSUME WindowInv, Deliver
  PROVE  WindowInv'
<1>1. /\ next \in Nat /\ next \in have /\ have \subseteq Window
      /\ delivered \in Seq(Nat) /\ delivered' = Append(delivered, next)
      /\ have' = have \ {next} /\ next' = next + 1 /\ evicting' = evicting
      /\ evicting \in BOOLEAN
  BY DEF Deliver, WindowInv, WindowTypeOK
<1>2. /\ Len(delivered') = Len(delivered) + 1 /\ Len(delivered) \in Nat
      /\ \A i \in 1 .. Len(delivered) : delivered'[i] = delivered[i] /\ delivered[i] \in Nat
      /\ delivered'[Len(delivered) + 1] = next
  BY <1>1
<1>3. WindowTypeOK'
  <2>1. \A q \in have' : q \in next' .. next' + Size - 1
    BY <1>1, WindowAssumption DEF Window
  <2> QED
    BY <2>1, <1>1 DEF WindowTypeOK, Window
<1>4. InOrder'
  <2>1. \A i \in 1 .. Len(delivered') : delivered'[i] < next'
    BY <1>1, <1>2 DEF WindowInv, InOrder
  <2>2. \A i, j \in 1 .. Len(delivered') : i < j => delivered'[i] < delivered'[j]
    <3> SUFFICES ASSUME NEW i \in 1 .. Len(delivered'), NEW j \in 1 .. Len(delivered'), i < j
                 PROVE  delivered'[i] < delivered'[j]
      OBVIOUS
    <3>1. CASE j = Len(delivered) + 1
      BY <3>1, <1>2 DEF WindowInv, InOrder
    <3>2. CASE j \in 1 .. Len(delivered)
      BY <3>2, <1>2 DEF WindowInv, InOrder
    <3> QED
      BY <3>1, <3>2, <1>2
  <2> QED
    BY <2>1, <2>2 DEF InOrder
<1>5. NoGap'
  BY <1>1, <1>2 DEF WindowInv, NoGap
<1> QED
  BY <1>3, <1>4, <1>5 DEF WindowInv

\* Every step of the window, taken by whatever system uses it, keeps the
\* invariant.
LEMMA WindowStepOK ==
  ASSUME WindowInv, [WindowNext]_windowVars
  PROVE  WindowInv'
<1>1. CASE \E p \in Positions : Accept(p)
  BY <1>1, AcceptOK
<1>2. CASE \E p \in Positions : Evict(p)
  BY <1>2, EvictOK
<1>3. CASE Deliver
  BY <1>3, DeliverOK
<1>4. CASE UNCHANGED windowVars
  BY <1>4 DEF windowVars, WindowInv, WindowTypeOK, Window, InOrder, NoGap
<1> QED
  BY <1>1, <1>2, <1>3, <1>4 DEF WindowNext

\* The reorder queue hands its elements over in stream order, each at most
\* once, and skips none unless it evicts.
THEOREM WindowCorrect == WindowSpec => [](WindowTypeOK /\ InOrder /\ NoGap)
<1>1. WindowInv /\ [WindowNext]_windowVars => WindowInv'
  BY WindowStepOK
<1> QED
  BY WindowInitOK, <1>1, PTL DEF WindowSpec, WindowInv
-----------------------------------------------------------------------------
(* The Takion thread                                                       *)

\* What the acknowledgements rest on: the stream was delivered from its first
\* message up to the window, and no number the thread, the network or the
\* console holds reaches past that.
AckInv == /\ ~evicting /\ have \subseteq Positions
          /\ Len(delivered) = next
          /\ last < next
          /\ \A a \in acks : a < next
          /\ console.acked <= next

TakionInv == TypeOK /\ WindowInv /\ AckInv

\* The thread only touches the queue through push and pull.
LEMMA StepsTheWindow ==
  ASSUME TypeOK, [Next]_vars
  PROVE  [WindowNext]_windowVars
<1>1. CASE Stop
  BY <1>1 DEF Stop
<1>2. CASE Outside
  BY <1>2 DEF Outside, ConsoleShakes, ConsoleSends, ConsoleResends, ConsoleStreams,
              ConsoleAcked, Damage, Lose
<1>3. CASE Thread
  <2>1. CASE \E p \in net : Recv(p)
    <3>1. PICK p \in net : Recv(p)
      BY <2>1
    <3>2. CASE RecvData(p)
      BY <3>2 DEF RecvData, Data, WindowNext
    <3>3. CASE RecvAV(p) \/ RecvOther(p)
      BY <3>3 DEF RecvAV, RecvOther
    <3> QED
      BY <3>1, <3>2, <3>3 DEF Recv
  <2>2. CASE \E p \in net : RecvInitAck(p) \/ RecvCookieAck(p)
    BY <2>2 DEF RecvInitAck, RecvCookieAck
  <2>3. CASE Flush
    BY <2>3 DEF Flush, WindowNext
  <2>4. CASE SendInit \/ HandshakeGivesUp \/ RecheckCrashes \/ Top \/ FlushEnd
             \/ RecvEnds \/ RecvFails \/ SendBufferFini \/ WokenByPush \/ Beach
    BY <2>4 DEF SendInit, HandshakeGivesUp, RecheckCrashes, Top, FlushEnd,
                RecvEnds, RecvFails, SendBufferFini, WokenByPush, Beach
  <2> QED
    BY <1>3, <2>1, <2>2, <2>3, <2>4 DEF Thread
<1>4. CASE UNCHANGED vars
  BY <1>4 DEF vars
<1> QED
  BY <1>1, <1>2, <1>3, <1>4 DEF Next

LEMMA TakionInitOK == Init => TakionInv
<1> SUFFICES ASSUME Init PROVE TakionInv
  OBVIOUS
<1>1. WindowInit /\ ~evicting
  BY DEF Init, WindowInit
<1>2. WindowInv
  BY <1>1, WindowInitOK
<1>3. TypeOK
  <2>1. postponed \in Seq(AV) /\ Len(postponed) <= PostponeMax
    BY TakionAssumption DEF Init
  <2>2. console \in [up : BOOLEAN, sent : Nat, acked : Nat]
    BY DEF Init
  <2> QED
    BY <1>2, <2>1, <2>2 DEF Init, TypeOK, WindowInv
<1>4. AckInv
  BY <1>1 DEF Init, AckInv
<1> QED
  BY <1>2, <1>3, <1>4 DEF TakionInv

\* A packet handled in the receive loop.
LEMMA RecvOK ==
  ASSUME TakionInv, WindowInv', NEW p \in net, Recv(p)
  PROVE  TypeOK' /\ AckInv'
<1> USE DEF TakionInv
<1>0. /\ net' = net /\ toConsole' = toConsole /\ acks' = acks /\ console' = console
      /\ pc = "recv"
  BY DEF Recv, outside
<1>1. CASE RecvData(p)
  <2>1. /\ pc' = "flush" /\ last' = -1 /\ next' = next /\ delivered' = delivered
        /\ evicting' = evicting /\ have' \subseteq have \cup {p.id} /\ p.id \in Positions
        /\ UNCHANGED <<crypt, cryptAvail, postponed, stop, avSeen>>
    BY <1>1 DEF RecvData, Accept, Data, windowVars
  <2> QED
    BY <1>0, <2>1 DEF TypeOK, AckInv, WindowInv, WindowTypeOK
<1>2. CASE RecvAV(p)
  <2>1. /\ p \in AV /\ UNCHANGED windowVars /\ pc' = "top"
        /\ UNCHANGED <<crypt, cryptAvail, last, stop>>
    BY <1>2 DEF RecvAV
  <2>2. avSeen' \subseteq AV
    BY <1>2, <2>1 DEF RecvAV, TypeOK
  <2>3. postponed' \in Seq(AV) /\ Len(postponed') <= PostponeMax
    <3>1. CASE postponed' = Append(postponed, p) /\ Len(postponed) < PostponeMax
      BY <3>1, <2>1, TakionAssumption DEF TypeOK
    <3>2. CASE postponed' = postponed
      BY <3>2 DEF TypeOK
    <3> QED
      BY <1>2, <3>1, <3>2 DEF RecvAV, HasRoom
  <2> QED
    BY <1>0, <2>1, <2>2, <2>3 DEF TypeOK, AckInv, WindowInv, windowVars
<1>3. CASE RecvOther(p)
  BY <1>0, <1>3 DEF RecvOther, Goto, TypeOK, AckInv, WindowInv, windowVars
<1> QED
  BY <1>1, <1>2, <1>3 DEF Recv

\* The other steps of the Takion thread.
LEMMA ThreadOK ==
  ASSUME TakionInv, WindowInv', Thread
  PROVE  TypeOK' /\ AckInv'
<1> USE DEF TakionInv
<1>1. CASE \E p \in net : Recv(p)
  BY <1>1, RecvOK
<1>2. CASE \E p \in net : RecvInitAck(p) \/ RecvCookieAck(p)
  BY <1>2 DEF RecvInitAck, RecvCookieAck, Goto, outside, windowVars, TypeOK, AckInv, WindowInv
<1>3. CASE \/ SendInit \/ HandshakeGivesUp \/ RecvEnds \/ RecvFails
           \/ SendBufferFini \/ WokenByPush \/ Beach
  <2>1. /\ UNCHANGED <<windowVars, crypt, cryptAvail, postponed, last, stop, avSeen>>
        /\ UNCHANGED <<net, acks, console>>
        /\ pc' \in {"init_ack", "fini", "signal_lost", "beach", "ended"}
        /\ toConsole' \subseteq toConsole \cup {"init"}
    BY <1>3 DEF SendInit, HandshakeGivesUp, RecvEnds, RecvFails, SendBufferFini,
                WokenByPush, Beach, Goto, outside
  <2> QED
    BY <2>1 DEF windowVars, TypeOK, AckInv, WindowInv
<1>4. CASE RecheckCrashes
  BY <1>4 DEF RecheckCrashes, outside, windowVars, TypeOK, AckInv, WindowInv
<1>5. CASE Top
  <2>1. /\ UNCHANGED <<windowVars, crypt, last, stop, outside>> /\ pc' = "recv"
        /\ cryptAvail' = (cryptAvail \/ Recheck)
    BY <1>5 DEF Top
  <2>2. avSeen' \subseteq AV /\ postponed' \in Seq(AV) /\ Len(postponed') <= PostponeMax
    <3>1. \A i \in DOMAIN postponed : postponed[i] \in AV
      BY DEF TypeOK
    <3>2. CASE crypt
      <4>1. /\ postponed' = << >>
            /\ \A q \in avSeen' : q \in avSeen \/ \E i \in DOMAIN postponed : q = postponed[i]
        BY <1>5, <3>2 DEF Top
      <4> QED
        BY <4>1, <3>1, TakionAssumption DEF TypeOK
    <3>3. CASE ~crypt
      BY <1>5, <3>3 DEF Top, TypeOK
    <3> QED
      BY <3>2, <3>3
  <2>3. cryptAvail' \in BOOLEAN
    BY <2>1 DEF Recheck, TypeOK
  <2> QED
    BY <2>1, <2>2, <2>3 DEF outside, windowVars, TypeOK, AckInv, WindowInv
<1>6. CASE Flush
  <2>1. /\ UNCHANGED <<pc, cryptAvail, postponed, stop, avSeen, net, toConsole, acks, console>>
        /\ last' = next /\ next \in have /\ next' = next + 1 /\ have' = have \ {next}
        /\ delivered' = Append(delivered, next) /\ evicting' = evicting
        /\ crypt' = (crypt \/ (EnableCrypt /\ next = KeyPos))
    BY <1>6 DEF Flush, Deliver, outside
  <2>2. next \in Nat /\ delivered \in Seq(Nat) /\ Len(delivered') = Len(delivered) + 1
    BY <2>1 DEF WindowInv, WindowTypeOK
  <2>3. next \in Positions
    BY <2>1 DEF AckInv
  <2>4. crypt' \in BOOLEAN
    BY <2>1, TakionAssumption DEF TypeOK
  <2>5. TypeOK'
    BY <2>1, <2>3, <2>4 DEF TypeOK, WindowInv
  <2>6. AckInv'
    <3>1. \A a \in acks : a < next' 
      BY <2>1, <2>2, WindowAssumption DEF AckInv, TypeOK
    <3> QED
      BY <3>1, <2>1, <2>2 DEF AckInv, TypeOK
  <2> QED
    BY <2>5, <2>6
<1>7. CASE FlushEnd
  <2>1. /\ UNCHANGED <<windowVars, net, toConsole, console>>
        /\ UNCHANGED <<crypt, cryptAvail, postponed, last, stop, avSeen>> /\ pc' = "top"
        /\ \A a \in acks' : a \in acks \/ (a = last /\ last # -1)
    BY <1>7 DEF FlushEnd, Goto, AckSeq
  <2> QED
    BY <2>1 DEF windowVars, TypeOK, AckInv, WindowInv
<1> QED
  BY <1>1, <1>2, <1>3, <1>4, <1>5, <1>6, <1>7 DEF Thread

\* What the console sends is a packet.
LEMMA SentIsPacket ==
  /\ \A q \in Positions : [kind |-> "data", id |-> q, good |-> TRUE] \in Packet
  /\ \A a \in AVs : [kind |-> "av", id |-> a, good |-> TRUE] \in Packet
<1>1. ASSUME NEW q \in Positions
      PROVE  [kind |-> "data", id |-> q, good |-> TRUE] \in Data
  <2>1. TRUE \in BOOLEAN /\ "data" \in {"data"}
    OBVIOUS
  <2> QED
    BY <2>1, Zenon DEF Data
<1>2. ASSUME NEW a \in AVs
      PROVE  [kind |-> "av", id |-> a, good |-> TRUE] \in AV
  <2>1. TRUE \in BOOLEAN /\ "av" \in {"av"}
    OBVIOUS
  <2> QED
    BY <2>1, Zenon DEF AV
<1> QED
  BY <1>1, <1>2 DEF Packet

\* What the console and the network do.
LEMMA OutsideOK ==
  ASSUME TakionInv, WindowInv', Outside
  PROVE  TypeOK' /\ AckInv'
<1> USE DEF TakionInv
<1>1. CASE ConsoleShakes
  <2>1. /\ UNCHANGED <<windowVars, thread, toConsole, acks>>
        /\ net' \subseteq net \cup {Control("init_ack"), Control("cookie_ack")}
        /\ console' \in {console, [console EXCEPT !.up = TRUE]}
    BY <1>1 DEF ConsoleShakes, Send
  <2> QED
    BY <2>1 DEF windowVars, thread, TypeOK, AckInv, WindowInv, Packet
<1>2. CASE ConsoleSends
  <2>1. /\ UNCHANGED <<windowVars, thread, toConsole, acks>>
        /\ console.sent \in Positions
        /\ net' \subseteq net \cup {[kind |-> "data", id |-> console.sent, good |-> TRUE]}
        /\ console' = [console EXCEPT !.sent = @ + 1]
    BY <1>2 DEF ConsoleSends, Send
  <2>2. net' \subseteq Packet
    BY <2>1, SentIsPacket DEF TypeOK
  <2>3. console' \in [up : BOOLEAN, sent : Nat, acked : Nat] /\ console'.acked = console.acked
    BY <2>1, WindowAssumption DEF TypeOK
  <2> QED
    BY <2>1, <2>2, <2>3 DEF windowVars, thread, TypeOK, AckInv, WindowInv
<1>3. CASE \E q \in Positions : ConsoleResends(q)
  <2>1. PICK q \in Positions : ConsoleResends(q)
    BY <1>3
  <2>2. /\ UNCHANGED <<windowVars, thread, toConsole, acks, console>>
        /\ net' \subseteq net \cup {[kind |-> "data", id |-> q, good |-> TRUE]}
    BY <2>1 DEF ConsoleResends, Send
  <2>3. net' \subseteq Packet
    BY <2>2, SentIsPacket DEF TypeOK
  <2> QED
    BY <2>2, <2>3 DEF windowVars, thread, TypeOK, AckInv, WindowInv
<1>4. CASE \E a \in AVs : ConsoleStreams(a)
  <2>1. PICK a \in AVs : ConsoleStreams(a)
    BY <1>4
  <2>2. /\ UNCHANGED <<windowVars, thread, toConsole, acks, console>>
        /\ net' \subseteq net \cup {[kind |-> "av", id |-> a, good |-> TRUE]}
    BY <2>1 DEF ConsoleStreams, Send
  <2>3. net' \subseteq Packet
    BY <2>2, SentIsPacket DEF TypeOK
  <2> QED
    BY <2>2, <2>3 DEF windowVars, thread, TypeOK, AckInv, WindowInv
<1>5. CASE \E a \in Positions : ConsoleAcked(a)
  <2>1. PICK a \in Positions : ConsoleAcked(a)
    BY <1>5
  <2>2. /\ UNCHANGED <<windowVars, thread, net, toConsole>> /\ acks' = acks \ {a}
        /\ a \in acks /\ a \in Nat
        /\ console' \in {console, [console EXCEPT !.acked = a + 1]}
    BY <2>1, WindowAssumption DEF ConsoleAcked, TypeOK
  <2>3. a + 1 \in Nat /\ a + 1 <= next
    BY <2>2 DEF AckInv, WindowInv, WindowTypeOK
  <2> QED
    BY <2>2, <2>3 DEF windowVars, thread, TypeOK, AckInv, WindowInv
<1>6. CASE \E p \in net : Damage(p)
  <2>1. PICK p \in net : Damage(p)
    BY <1>6
  <2>2. /\ UNCHANGED <<windowVars, thread, toConsole, acks, console>>
        /\ p \in Data \cup AV
        /\ net' \subseteq net \cup {[p EXCEPT !.good = FALSE]}
    BY <2>1 DEF Damage
  <2>3. [p EXCEPT !.good = FALSE] \in Packet
    BY <2>2 DEF Packet, Data, AV
  <2> QED
    BY <2>2, <2>3 DEF windowVars, thread, TypeOK, AckInv, WindowInv
<1>7. CASE Lose
  <2>1. /\ UNCHANGED <<windowVars, thread, toConsole, console>>
        /\ net' \subseteq net /\ acks' \subseteq acks
    BY <1>7 DEF Lose
  <2> QED
    BY <2>1 DEF windowVars, thread, TypeOK, AckInv, WindowInv
<1> QED
  BY <1>1, <1>2, <1>3, <1>4, <1>5, <1>6, <1>7 DEF Outside

LEMMA TakionStepOK == TakionInv /\ [Next]_vars => TakionInv'
<1> SUFFICES ASSUME TakionInv, [Next]_vars
             PROVE  TakionInv'
  OBVIOUS
<1>1. WindowInv'
  BY StepsTheWindow, WindowStepOK DEF TakionInv
<1>2. TypeOK' /\ AckInv'
  <2>1. CASE Thread
    BY <1>1, <2>1, ThreadOK
  <2>2. CASE Stop
    BY <1>1, <2>2 DEF TakionInv, Stop, outside, windowVars, TypeOK, AckInv, WindowInv
  <2>3. CASE Outside
    BY <1>1, <2>3, OutsideOK
  <2>4. CASE UNCHANGED vars
    BY <1>1, <2>4 DEF TakionInv, vars, thread, outside, windowVars, TypeOK, AckInv, WindowInv
  <2> QED
    BY <2>1, <2>2, <2>3, <2>4 DEF Next
<1> QED
  BY <1>1, <1>2 DEF TakionInv

\* A number below the window was delivered: the stream begins at 0 and has no
\* gap.
LEMMA BelowWindowDelivered ==
  ASSUME TakionInv, NEW q \in Nat, q < next
  PROVE  q \in Delivered
<1>1. /\ delivered \in Seq(Nat) /\ Len(delivered) = next /\ next \in Nat
      /\ \A i \in 1 .. Len(delivered) : delivered[i] = next - Len(delivered) + i - 1
  BY DEF TakionInv, WindowInv, WindowTypeOK, AckInv, NoGap
<1>2. q + 1 \in DOMAIN delivered /\ delivered[q + 1] = q
  BY <1>1
<1> QED
  BY <1>2 DEF Delivered

LEMMA AckedFromInv == TakionInv => AckedWasDelivered
<1> SUFFICES ASSUME TakionInv PROVE AckedWasDelivered
  OBVIOUS
<1>1. next \in Nat /\ acks \subseteq Nat /\ console.acked \in Nat
  BY WindowAssumption DEF TakionInv, TypeOK, WindowTypeOK
<1>2. ASSUME NEW a \in acks, NEW q \in 0 .. a
      PROVE  q \in Delivered
  BY <1>1, BelowWindowDelivered DEF TakionInv, AckInv
<1>3. ASSUME NEW q \in 0 .. console.acked - 1
      PROVE  q \in Delivered
  BY <1>1, BelowWindowDelivered DEF TakionInv, AckInv
<1> QED
  BY <1>2, <1>3 DEF AckedWasDelivered

\* The thread's state keeps its shape, whatever arrives and in whatever order.
THEOREM TakionTypeOK == Spec => []TypeOK
<1> QED
  BY TakionInitOK, TakionStepOK, PTL DEF Spec, TakionInv

\* Messages reach the connection in the order the console numbered them, each
\* once and none left out.
THEOREM TakionDeliversInOrder == Spec => []DeliveredInOrder
<1>1. TakionInv => DeliveredInOrder
  BY DEF TakionInv, WindowInv, DeliveredInOrder
<1> QED
  BY <1>1, TakionInitOK, TakionStepOK, PTL DEF Spec

\* An acknowledgement, under way or received, only covers delivered messages.
THEOREM TakionAcksDelivered == Spec => []AckedWasDelivered
<1> QED
  BY AckedFromInv, TakionInitOK, TakionStepOK, PTL DEF Spec

LEMMA AVStepOK == AVChecked /\ [Next]_vars => AVChecked'
<1> SUFFICES ASSUME AVChecked, [Next]_vars, EnableCrypt, NEW p \in avSeen', p \notin avSeen
             PROVE  p.good
  BY DEF AVChecked
<1>1. CASE Top
  <2>1. crypt /\ p \in {postponed[i] : i \in {j \in DOMAIN postponed : MacOK(postponed[j])}}
    BY <1>1 DEF Top
  <2> QED
    BY <2>1 DEF MacOK
<1>2. CASE \E q \in net : Recv(q)
  <2>1. PICK q \in net : Recv(q)
    BY <1>2
  <2>2. CASE RecvAV(q)
    BY <2>2 DEF RecvAV, MustPostpone, MacOK
  <2>3. CASE RecvData(q) \/ RecvOther(q)
    BY <2>3 DEF RecvData, RecvOther, Goto
  <2> QED
    BY <2>1, <2>2, <2>3 DEF Recv
<1>3. CASE Thread /\ ~Top /\ ~(\E q \in net : Recv(q))
  BY <1>3 DEF Thread, Goto, SendInit, RecvInitAck, RecvCookieAck, HandshakeGivesUp,
              RecheckCrashes, Flush, FlushEnd, RecvEnds, RecvFails, SendBufferFini,
              WokenByPush, Beach
<1>4. CASE Outside
  BY <1>4 DEF Outside, thread, ConsoleShakes, ConsoleSends, ConsoleResends, ConsoleStreams,
              ConsoleAcked, Damage, Lose
<1>5. CASE Stop \/ UNCHANGED vars
  BY <1>5 DEF Stop, vars, thread
<1> QED
  BY <1>1, <1>2, <1>3, <1>4, <1>5 DEF Next

\* With encryption on, only packets with a valid MAC reach the connection.
THEOREM TakionChecksAV == Spec => []AVChecked
<1>1. Init => AVChecked
  BY DEF Init, AVChecked
<1> QED
  BY <1>1, AVStepOK, PTL DEF Spec
=============================================================================
