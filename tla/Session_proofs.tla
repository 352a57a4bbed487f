--------------------------- MODULE Session_proofs ---------------------------
(***************************************************************************)
(* For any number of PINs, messages and words of the console: what the     *)
(* session and the ctrl thread hand to each other arrives in order and     *)
(* once, and the reason a session ends with is final.                      *)
(***************************************************************************)
EXTENDS Session, SequenceTheorems, TLAPS

\* Where the threads can be: ctrl runs between its start and its join, and
\* rests before a message only if there is one.
PlaceInv ==
  /\ cat = "handle" => ctrl.inbox # << >>
  /\ sat = "give_pin" => session.pin # 0
  /\ sat \in {"new", "requesting"} => cat = "none"
  /\ sat \in {"quit", "done"} => cat \in {"none", "ended"}
  /\ signal => made.messages > 0

\* No PIN is newer than the last one entered.
PinInv ==
  /\ session.pin <= made.pins /\ ctrl.pin <= made.pins
  /\ \A i \in DOMAIN sent.pins : sent.pins[i] <= made.pins

SessionInv == TypeOK /\ PlaceInv /\ PinInv /\ SentInOrder /\ PipeMeansWork

LEMMA SessionInitOK == Init => SessionInv
<1> SUFFICES ASSUME Init PROVE SessionInv
  OBVIOUS
<1>1. TypeOK
  <2>1. session \in SessionFields /\ sat \in SessionPlaces /\ cat \in CtrlPlaces
    BY SessionAssumption DEF Init, SessionFields, SessionPlaces, CtrlPlaces, Reasons
  <2>2. ctrl \in CtrlFields
    BY SessionAssumption DEF Init, CtrlFields
  <2>3. made \in [pins : 0 .. PinsMax, messages : 0 .. MessagesMax, console : 0 .. ConsoleMax]
    BY SessionAssumption DEF Init
  <2>4. sent \in [pins : Seq(1 .. PinsMax), messages : Seq(1 .. MessagesMax)]
    BY DEF Init
  <2>5. wire \in Seq(Kinds)
    BY EmptySeq DEF Init
  <2>6. pipe \in BOOLEAN /\ signal \in BOOLEAN
    BY Zenon DEF Init
  <2>7. prompt \in {"none", "first", "incorrect"}
    BY DEF Init
  <2> QED
    BY <2>1, <2>2, <2>3, <2>4, <2>5, <2>6, <2>7 DEF TypeOK
<1>2. PlaceInv /\ PinInv /\ PipeMeansWork
  BY DEF Init, PlaceInv, PinInv, PipeMeansWork
<1>3. SentInOrder
  <2>1. << >> \o << >> = [i \in 1 .. 0 |-> i]
    OBVIOUS
  <2> QED
    BY <2>1 DEF Init, SentInOrder
<1> QED
  BY <1>1, <1>2, <1>3 DEF SessionInv

\* The fields the session thread changes keep their types.
LEMMA SessionThreadType ==
  ASSUME TypeOK, SessionThread
  PROVE  TypeOK'
<1>1. /\ session \in SessionFields /\ ctrl \in CtrlFields
      /\ session.reason \in Reasons /\ session.pin \in 0 .. PinsMax
      /\ session.id \in {"none", "console", "fallback"}
  BY DEF TypeOK, SessionFields
<1>2. /\ sat' \in SessionPlaces /\ cat' \in CtrlPlaces
      /\ prompt' \in {"none", "first", "incorrect"} /\ pipe' \in BOOLEAN
      /\ UNCHANGED <<signal, wire, sent, made>>
  BY DEF SessionThread, Start, RequestFails, RequestDone, WaitCtrl, WaitPin, GivePin, WaitId,
         Fallback, FallbackFails, Senkusha, SetupFails,
         SenkushaHangs, StreamHangs, StreamEnds, QuitCtrl, JoinCtrl, Quit,
         PinLoop, QuitTo, Elsewhere, app, TypeOK, SessionPlaces, CtrlPlaces
<1>3. ctrl' \in CtrlFields
  <2>1. \/ ctrl' = ctrl
        \/ ctrl' = [ctrl EXCEPT !.pin = session.pin]
        \/ ctrl' = [ctrl EXCEPT !.shouldStop = TRUE]
    BY DEF SessionThread, Start, RequestFails, RequestDone, WaitCtrl, WaitPin, GivePin, WaitId,
           Fallback, FallbackFails, Senkusha, SetupFails,
           SenkushaHangs, StreamHangs, StreamEnds, QuitCtrl, JoinCtrl, Quit,
           Elsewhere
  <2> QED
    BY <1>1, <2>1 DEF CtrlFields
<1>4. session' \in SessionFields
  <2>1. \/ session' = session
        \/ \E r \in Reasons : session' = [session EXCEPT !.reason = r]
        \/ session' = [session EXCEPT !.pinRequested = FALSE]
        \/ session' = [session EXCEPT !.pin = 0]
        \/ session' = [session EXCEPT !.id = FallbackId]
    BY <1>1 DEF SessionThread, Start, RequestFails, RequestDone, WaitCtrl, WaitPin, GivePin, WaitId,
           Fallback, FallbackFails, Senkusha, SetupFails,
           SenkushaHangs, StreamHangs, StreamEnds, QuitCtrl, JoinCtrl, Quit,
           PinLoop, QuitTo, ForgetPin, CtrlFailed, Reasons
  <2>2. FallbackId \in {"none", "console", "fallback"}
    BY <1>1 DEF FallbackId
  <2>3. 0 \in 0 .. PinsMax
    BY SessionAssumption
  <2> QED
    BY <1>1, <2>1, <2>2, <2>3 DEF SessionFields
<1> QED
  BY <1>2, <1>3, <1>4 DEF TypeOK

\* What a step of the ctrl thread does to each part of the state.
LEMMA CtrlThreadEffect ==
  ASSUME TypeOK, CtrlThread
  PROVE  /\ cat' \in CtrlPlaces
         /\ wire' = wire \/ wire' = << >>
         /\ UNCHANGED <<sat, prompt, signal, made>>
         /\ pipe' \in BOOLEAN
         /\ \/ session' = session
            \/ \E r \in Reasons : session' = [session EXCEPT !.ctrlFailed = TRUE, !.reason = r]
            \/ session' = [session EXCEPT !.pinRequested = TRUE]
            \/ \E id \in {"none", "console", "fallback"} : session' = [session EXCEPT !.id = id]
         /\ \/ ctrl' = ctrl
            \/ \E b \in BOOLEAN : ctrl' = [ctrl EXCEPT !.open = b]
            \/ ctrl' = [ctrl EXCEPT !.inbox = wire]
            \/ /\ cat = "handle"
               /\ \E b \in BOOLEAN : ctrl' = [ctrl EXCEPT !.inbox = Rest, !.pinRequested = b]
            \/ cat = "handle" /\ ctrl' = [ctrl EXCEPT !.inbox = Rest]
            \/ ctrl' = [ctrl EXCEPT !.inbox = << >>, !.open = FALSE]
            \/ ctrl' = [ctrl EXCEPT !.queue = << >>, !.pin = 0]
            \/ \E b \in BOOLEAN : ctrl' = [ctrl EXCEPT !.queue = << >>, !.open = b]
         /\ \/ sent' = sent
            \/ sent' = [sent EXCEPT !.messages = AllSent]
            \/ /\ ctrl.pin # 0
               /\ sent' = [pins |-> Append(sent.pins, ctrl.pin), messages |-> AllSent]
<1>0. /\ ctrl.open \in BOOLEAN /\ session.id \in {"none", "console", "fallback"}
      /\ pipe \in BOOLEAN /\ cat \in CtrlPlaces
  BY DEF TypeOK, SessionFields, CtrlFields
<1> USE <1>0 DEF CtrlThread, CtrlProgress, CtrlConnectFails, CtrlRefused, CtrlConnected,
        CtrlHeader, CtrlHeaderUnsent, CtrlFail, HandleMessage, SessionIdMessage,
        PinReqMessage, PinIncorrectMessage, PinSuccessMessage, TooLargeMessage,
        SetSessionId, Canceled, Recv, RecvFails, RecvCloses, SelectFails, Message, Handled,
        Fill, CtrlEnd, NotSession, OutsideCtrl
<1>1. cat' \in CtrlPlaces
  BY DEF LoopWith, CtrlPlaces, Failing
<1>2. (wire' = wire \/ wire' = << >>) /\ UNCHANGED <<sat, prompt, signal, made>>
  BY DEF app
<1>3. pipe' \in BOOLEAN
  BY DEF PinDrains
<1>4. \/ session' = session
      \/ \E r \in Reasons : session' = [session EXCEPT !.ctrlFailed = TRUE, !.reason = r]
      \/ session' = [session EXCEPT !.pinRequested = TRUE]
      \/ \E id \in {"none", "console", "fallback"} : session' = [session EXCEPT !.id = id]
  BY DEF FallbackId, Reasons
<1>5. \/ ctrl' = ctrl
      \/ \E b \in BOOLEAN : ctrl' = [ctrl EXCEPT !.open = b]
      \/ ctrl' = [ctrl EXCEPT !.inbox = wire]
      \/ /\ cat = "handle"
         /\ \E b \in BOOLEAN : ctrl' = [ctrl EXCEPT !.inbox = Rest, !.pinRequested = b]
      \/ cat = "handle" /\ ctrl' = [ctrl EXCEPT !.inbox = Rest]
      \/ ctrl' = [ctrl EXCEPT !.inbox = << >>, !.open = FALSE]
      \/ ctrl' = [ctrl EXCEPT !.queue = << >>, !.pin = 0]
      \/ \E b \in BOOLEAN : ctrl' = [ctrl EXCEPT !.queue = << >>, !.open = b]
  OBVIOUS
<1>6. \/ sent' = sent
      \/ sent' = [sent EXCEPT !.messages = AllSent]
      \/ /\ ctrl.pin # 0
         /\ sent' = [pins |-> Append(sent.pins, ctrl.pin), messages |-> AllSent]
  OBVIOUS
<1> QED
  BY ONLY <1>1, <1>2, <1>3, <1>4, <1>5, <1>6

\* The fields the ctrl thread changes keep their types.
LEMMA CtrlThreadType ==
  ASSUME TypeOK, PlaceInv, CtrlThread
  PROVE  TypeOK'
<1>1. /\ session \in SessionFields /\ ctrl \in CtrlFields
      /\ ctrl.queue \in Seq(1 .. MessagesMax) /\ ctrl.inbox \in Seq(Kinds)
      /\ ctrl.pin \in 0 .. PinsMax
      /\ sent \in [pins : Seq(1 .. PinsMax), messages : Seq(1 .. MessagesMax)]
      /\ wire \in Seq(Kinds)
  BY DEF TypeOK, CtrlFields
<1>2. ctrl' \in CtrlFields
  <2>1. cat = "handle" => Rest \in Seq(Kinds)
    BY <1>1 DEF PlaceInv, Rest
  <2>2. 0 \in 0 .. PinsMax /\ << >> \in Seq(Kinds) /\ << >> \in Seq(1 .. MessagesMax)
    BY SessionAssumption
  <2> QED
    BY <1>1, <2>1, <2>2, CtrlThreadEffect, ZenonT(60) DEF CtrlFields
<1>3. session' \in SessionFields
  <2>1. \/ session' = session
        \/ \E r \in Reasons : session' = [session EXCEPT !.ctrlFailed = TRUE, !.reason = r]
        \/ session' = [session EXCEPT !.pinRequested = TRUE]
        \/ \E id \in {"none", "console", "fallback"} : session' = [session EXCEPT !.id = id]
    BY CtrlThreadEffect
  <2> QED
    BY ONLY <1>1, <2>1 DEF SessionFields
<1>4. sent' \in [pins : Seq(1 .. PinsMax), messages : Seq(1 .. MessagesMax)]
  <2>1. AllSent \in Seq(1 .. MessagesMax)
    BY <1>1 DEF AllSent
  <2>2. ctrl.pin # 0 => Append(sent.pins, ctrl.pin) \in Seq(1 .. PinsMax)
    BY <1>1, SessionAssumption
  <2>3. \/ sent' = sent
        \/ sent' = [sent EXCEPT !.messages = AllSent]
        \/ /\ ctrl.pin # 0
           /\ sent' = [pins |-> Append(sent.pins, ctrl.pin), messages |-> AllSent]
    BY CtrlThreadEffect
  <2>4. CASE sent' = sent
    BY <1>1, <2>4
  <2>5. CASE sent' = [sent EXCEPT !.messages = AllSent]
    BY <1>1, <2>1, <2>5
  <2>6. CASE /\ ctrl.pin # 0
             /\ sent' = [pins |-> Append(sent.pins, ctrl.pin), messages |-> AllSent]
    <3>1. Append(sent.pins, ctrl.pin) \in Seq(1 .. PinsMax)
      BY <2>2, <2>6
    <3> QED
      BY <3>1, <2>1, <2>6
  <2> QED
    BY <2>3, <2>4, <2>5, <2>6
<1>5. wire' \in Seq(Kinds)
  <2>1. wire' = wire \/ wire' = << >>
    BY CtrlThreadEffect
  <2> QED
    BY <1>1, <2>1, EmptySeq
<1> QED
  BY <1>2, <1>3, <1>4, <1>5, CtrlThreadEffect DEF TypeOK

\* The fields the application and the console change keep their types.
LEMMA OutsideType ==
  ASSUME TypeOK, Outside
  PROVE  TypeOK'
<1>1. /\ session \in SessionFields /\ ctrl \in CtrlFields
      /\ ctrl.queue \in Seq(1 .. MessagesMax) /\ wire \in Seq(Kinds)
      /\ made \in [pins : 0 .. PinsMax, messages : 0 .. MessagesMax, console : 0 .. ConsoleMax]
      /\ made.pins \in 0 .. PinsMax /\ made.messages \in 0 .. MessagesMax
      /\ made.console \in 0 .. ConsoleMax
      /\ {PinsMax, MessagesMax, ConsoleMax} \subseteq Nat
  BY SessionAssumption DEF TypeOK, CtrlFields
<1>3. pipe' \in BOOLEAN /\ signal' \in BOOLEAN
  <2>1. /\ pipe' = pipe \/ pipe' = TRUE
        /\ signal' = signal \/ signal' = TRUE \/ signal' = FALSE
    BY DEF Outside, Stop, SetLoginPin, SendMessage, SendSignals, ConsoleSends, app
  <2>2. pipe \in BOOLEAN /\ signal \in BOOLEAN
    BY DEF TypeOK
  <2> QED
    BY ONLY <2>1, <2>2, Zenon
<1>6. wire' \in Seq(Kinds)
  <2>1. wire' = wire \/ \E k \in Kinds : wire' = Append(wire, k)
    BY DEF Outside, Stop, SetLoginPin, SendMessage, SendSignals, ConsoleSends
  <2>2. wire \in Seq(Kinds)
    BY <1>1
  <2>3. ASSUME NEW k \in Kinds, wire' = Append(wire, k) PROVE wire' \in Seq(Kinds)
    BY ONLY <2>2, <2>3
  <2> QED
    BY <2>1, <2>2, <2>3
<1> USE DEF Outside, Stop, SetLoginPin, SendMessage, SendSignals, ConsoleSends, threads, app
<1>2. UNCHANGED <<sat, prompt, cat, sent>>
  OBVIOUS
<1>4. session' \in SessionFields
  <2>1. \/ session' = session
        \/ session' = [session EXCEPT !.shouldStop = TRUE]
        \/ made.pins < PinsMax /\ session' = [session EXCEPT !.pin = made.pins + 1]
    OBVIOUS
  <2>2. made.pins < PinsMax => made.pins + 1 \in 0 .. PinsMax
    BY <1>1
  <2> QED
    BY ONLY <1>1, <2>1, <2>2 DEF SessionFields
<1>5. ctrl' \in CtrlFields
  <2>1. \/ ctrl' = ctrl
        \/ /\ made.messages < MessagesMax
           /\ ctrl' = [ctrl EXCEPT !.queue = Append(ctrl.queue, made.messages + 1)]
    OBVIOUS
  <2>2. made.messages < MessagesMax
          => Append(ctrl.queue, made.messages + 1) \in Seq(1 .. MessagesMax)
    BY <1>1
  <2> QED
    BY ONLY <1>1, <2>1, <2>2 DEF CtrlFields
<1>7. made' \in [pins : 0 .. PinsMax, messages : 0 .. MessagesMax, console : 0 .. ConsoleMax]
  <2>1. \/ made' = made
        \/ made.pins < PinsMax /\ made' = [made EXCEPT !.pins = made.pins + 1]
        \/ made.messages < MessagesMax /\ made' = [made EXCEPT !.messages = made.messages + 1]
        \/ made.console < ConsoleMax /\ made' = [made EXCEPT !.console = made.console + 1]
    OBVIOUS
  <2>2. /\ made.pins < PinsMax => made.pins + 1 \in 0 .. PinsMax
        /\ made.messages < MessagesMax => made.messages + 1 \in 0 .. MessagesMax
        /\ made.console < ConsoleMax => made.console + 1 \in 0 .. ConsoleMax
    BY ONLY <1>1
  <2> QED
    BY ONLY <1>1, <2>1, <2>2
<1> QED
  BY ONLY TypeOK, <1>2, <1>3, <1>4, <1>5, <1>6, <1>7 DEF TypeOK

-----------------------------------------------------------------------------
(* What each thread does to the PINs, the queue and the pipe. *)

LEMMA SessionThreadEffect ==
  ASSUME TypeOK, PlaceInv, SessionThread
  PROVE  /\ UNCHANGED <<sent, made, signal, wire>>
         /\ ctrl'.queue = ctrl.queue /\ ctrl'.inbox = ctrl.inbox
         /\ cat' = cat \/ (sat' = "wait_ctrl" /\ cat' = "connect")
         /\ sat' \in {"new", "requesting"} => cat = "none" /\ cat' = cat
         /\ sat' \in {"quit", "done"} => cat \in {"none", "ended"} /\ cat' = cat
         /\ \/ /\ session'.pin = session.pin /\ ctrl'.pin = ctrl.pin
               /\ sat' = "give_pin" => session.pin # 0
               /\ \/ pipe' = pipe /\ ctrl'.shouldStop = ctrl.shouldStop
                  \/ pipe' = TRUE /\ ctrl'.shouldStop = TRUE
            \/ /\ session.pin # 0 /\ session'.pin = 0 /\ ctrl'.pin = session.pin
               /\ sat' = "wait_id" /\ pipe' = TRUE
               /\ ctrl'.shouldStop = ctrl.shouldStop
<1>1. session \in SessionFields /\ ctrl \in CtrlFields
  BY DEF TypeOK
<1>2. PICK r \in Reasons : TRUE
  BY DEF Reasons
<1> USE <1>1 DEF SessionThread, Start, RequestFails, RequestDone, WaitCtrl, WaitPin, GivePin,
      WaitId, Fallback, FallbackFails, Senkusha, SetupFails,
      SenkushaHangs, StreamHangs, StreamEnds, QuitCtrl, JoinCtrl,
      Quit, PinLoop, QuitTo, Elsewhere
<1>3. /\ UNCHANGED <<sent, made, signal, wire>>
      /\ cat' = cat \/ (sat' = "wait_ctrl" /\ cat' = "connect")
  BY DEF app
<1>4. /\ sat' \in {"new", "requesting"} => cat = "none" /\ cat' = cat
      /\ sat' \in {"quit", "done"} => cat \in {"none", "ended"} /\ cat' = cat
  BY DEF PlaceInv
<1>5. ctrl'.queue = ctrl.queue /\ ctrl'.inbox = ctrl.inbox
  BY DEF CtrlFields
<1>6. CASE GivePin
  <2>1. /\ session.pin # 0 /\ session' = [session EXCEPT !.pin = 0]
        /\ ctrl' = [ctrl EXCEPT !.pin = session.pin]
        /\ sat' = "wait_id" /\ pipe' = TRUE
    BY <1>6 DEF PlaceInv, ForgetPin
  <2> QED
    BY ONLY <2>1, <1>1, <1>3, <1>4, <1>5 DEF SessionFields, CtrlFields
<1>7. CASE ~GivePin
  <2>1. /\ \/ session' = session
           \/ \E x \in Reasons : session' = [session EXCEPT !.reason = x]
           \/ session' = [session EXCEPT !.pinRequested = FALSE]
           \/ session' = [session EXCEPT !.id = FallbackId]
    BY <1>7 DEF CtrlFailed, Reasons, SessionFields
  <2>2. session'.pin = session.pin
    BY ONLY <1>1, <2>1 DEF SessionFields
  <2>3. sat' = "give_pin" => session.pin # 0
    BY <1>7
  <2>4. \/ ctrl' = ctrl /\ pipe' = pipe
        \/ ctrl' = [ctrl EXCEPT !.shouldStop = TRUE] /\ pipe' = TRUE
    BY <1>7
  <2>5. /\ ctrl'.pin = ctrl.pin
        /\ \/ pipe' = pipe /\ ctrl'.shouldStop = ctrl.shouldStop
           \/ pipe' = TRUE /\ ctrl'.shouldStop = TRUE
    BY ONLY <1>1, <2>4 DEF CtrlFields
  <2> QED
    BY ONLY <2>2, <2>3, <2>5, <1>3, <1>4, <1>5
<1> QED
  BY ONLY <1>6, <1>7

LEMMA CtrlThreadSends ==
  ASSUME TypeOK, CtrlThread
  PROVE  /\ UNCHANGED <<sat, made, signal>> /\ cat \notin {"none", "ended"}
         /\ session'.pin = session.pin /\ ctrl'.shouldStop = ctrl.shouldStop
         /\ cat' = "handle" => ctrl'.inbox # << >>
         /\ \/ /\ UNCHANGED <<sent, pipe>>
               /\ ctrl'.queue = ctrl.queue /\ ctrl'.pin = ctrl.pin
            \/ /\ ctrl.pin # 0 /\ pipe' = FALSE
               /\ sent' = [pins |-> Append(sent.pins, ctrl.pin), messages |-> AllSent]
               /\ ctrl'.queue = << >> /\ ctrl'.pin = 0
            \/ /\ pipe
               /\ sent' = [sent EXCEPT !.messages = AllSent]
               /\ ctrl'.queue = << >> /\ ctrl'.pin = ctrl.pin
<1>1. /\ session \in SessionFields /\ ctrl \in CtrlFields
  BY DEF TypeOK
<1>2. session'.pin = session.pin
  BY <1>1, CtrlThreadEffect DEF SessionFields
<1> USE DEF CtrlThread, CtrlProgress, CtrlConnectFails, CtrlRefused, CtrlConnected,
        CtrlHeader, CtrlHeaderUnsent, CtrlFail, HandleMessage, SessionIdMessage,
        PinReqMessage, PinIncorrectMessage, PinSuccessMessage, TooLargeMessage,
        SetSessionId, Canceled, Recv, RecvFails, RecvCloses, SelectFails, Message, Handled,
        Fill, CtrlEnd, NotSession, OutsideCtrl
<1>3. /\ UNCHANGED <<sat, made, signal>> /\ cat \notin {"none", "ended"}
  BY DEF app, Failing, Selected
<1>4. ctrl'.shouldStop = ctrl.shouldStop
  BY <1>1, CtrlThreadEffect DEF CtrlFields
<1>5. cat' = "handle" => ctrl'.inbox # << >>
  BY <1>1 DEF LoopWith, CtrlFields, Failing
<1>6. CASE Canceled /\ ctrl.pin # 0
  BY <1>1, <1>6, <1>2, <1>3, <1>4, <1>5 DEF PinDrains, CtrlFields
<1>7. CASE Canceled /\ ctrl.pin = 0
  BY <1>1, <1>7, <1>2, <1>3, <1>4, <1>5 DEF CtrlFields
<1>8. CASE ~Canceled
  <2>1. UNCHANGED <<sent, pipe>> /\ ctrl'.queue = ctrl.queue /\ ctrl'.pin = ctrl.pin
    BY <1>1, <1>8 DEF CtrlFields
  <2> QED
    BY ONLY <2>1, <1>2, <1>3, <1>4, <1>5
<1> QED
  BY ONLY <1>6, <1>7, <1>8

LEMMA AppendToQueue ==
  ASSUME NEW T, NEW s \in Seq(T), NEW q \in Seq(T), NEW x \in T
  PROVE  s \o Append(q, x) = Append(s \o q, x)
<1>1. Len(s \o Append(q, x)) = Len(Append(s \o q, x))
  OBVIOUS
<1>2. \A i \in 1 .. Len(s \o Append(q, x)) : (s \o Append(q, x))[i] = Append(s \o q, x)[i]
  OBVIOUS
<1>3. s \o Append(q, x) \in Seq(T) /\ Append(s \o q, x) \in Seq(T)
  OBVIOUS
<1> QED
  BY <1>1, <1>2, <1>3

\* A message of the application is the next one of the queue.
LEMMA CountedUp ==
  ASSUME NEW n \in Nat
  PROVE  Append([i \in 1 .. n |-> i], n + 1) = [i \in 1 .. n + 1 |-> i]
OBVIOUS

\* An entry of a sequence is what its entries are.
LEMMA InRange ==
  ASSUME NEW S, NEW q \in Seq(S), NEW i \in 1 .. Len(q)
  PROVE  q[i] \in S
OBVIOUS

\* What the type invariant says of the fields the threads share.
LEMMA SharedFieldTypes ==
  ASSUME TypeOK
  PROVE  /\ PinsMax \in Nat /\ MessagesMax \in Nat
         /\ session \in SessionFields /\ ctrl \in CtrlFields
         /\ session.pin \in 0 .. PinsMax /\ ctrl.pin \in 0 .. PinsMax
         /\ ctrl.shouldStop \in BOOLEAN /\ ctrl.queue \in Seq(1 .. MessagesMax)
         /\ made \in [pins : 0 .. PinsMax, messages : 0 .. MessagesMax, console : 0 .. ConsoleMax]
         /\ made.pins \in 0 .. PinsMax /\ made.messages \in 0 .. MessagesMax
         /\ sent \in [pins : Seq(1 .. PinsMax), messages : Seq(1 .. MessagesMax)]
         /\ sent.pins \in Seq(1 .. PinsMax) /\ sent.messages \in Seq(1 .. MessagesMax)
         /\ \A i \in DOMAIN sent.pins : sent.pins[i] \in 1 .. PinsMax
<1>1. PinsMax \in Nat /\ MessagesMax \in Nat
  BY SessionAssumption
<1>2. /\ session \in SessionFields /\ ctrl \in CtrlFields
      /\ made \in [pins : 0 .. PinsMax, messages : 0 .. MessagesMax, console : 0 .. ConsoleMax]
      /\ sent \in [pins : Seq(1 .. PinsMax), messages : Seq(1 .. MessagesMax)]
  BY DEF TypeOK
<1>3. session.pin \in 0 .. PinsMax
  BY ONLY <1>2 DEF SessionFields
<1>4. /\ ctrl.pin \in 0 .. PinsMax /\ ctrl.shouldStop \in BOOLEAN
      /\ ctrl.queue \in Seq(1 .. MessagesMax)
  BY ONLY <1>2 DEF CtrlFields
<1>5. made.pins \in 0 .. PinsMax /\ made.messages \in 0 .. MessagesMax
  BY ONLY <1>2
<1>6. sent.pins \in Seq(1 .. PinsMax) /\ sent.messages \in Seq(1 .. MessagesMax)
  BY ONLY <1>2
<1>7. \A i \in DOMAIN sent.pins : sent.pins[i] \in 1 .. PinsMax
  <2> SUFFICES ASSUME NEW i \in DOMAIN sent.pins
               PROVE  sent.pins[i] \in 1 .. PinsMax
    OBVIOUS
  <2>1. PICK q \in Seq(1 .. PinsMax) : q = sent.pins
    BY ONLY <1>6
  <2>2. Len(q) \in Nat /\ DOMAIN q = 1 .. Len(q)
    BY ONLY <2>1
  <2>3. i \in 1 .. Len(q)
    BY ONLY <2>1, <2>2, i \in DOMAIN sent.pins
  <2>4. q[i] \in 1 .. PinsMax
    BY ONLY <2>3, InRange
  <2> QED
    BY ONLY <2>1, <2>4
<1> QED
  BY ONLY <1>1, <1>2, <1>3, <1>4, <1>5, <1>6, <1>7

-----------------------------------------------------------------------------
(* A step of each thread keeps the invariant. *)

LEMMA SessionThreadKeeps ==
  ASSUME SessionInv, SessionThread
  PROVE  SessionInv'
<1>1. TypeOK /\ PlaceInv /\ PinInv /\ SentInOrder /\ PipeMeansWork
  BY DEF SessionInv
<1>2. /\ session.pin \in 0 .. PinsMax /\ ctrl.pin \in 0 .. PinsMax
      /\ ctrl.shouldStop \in BOOLEAN /\ made.pins \in 0 .. PinsMax
      /\ PinsMax \in Nat
      /\ \A i \in DOMAIN sent.pins : sent.pins[i] \in 1 .. PinsMax
  BY ONLY <1>1, SharedFieldTypes
<1>3. /\ UNCHANGED <<sent, made, signal, wire>>
      /\ ctrl'.queue = ctrl.queue /\ ctrl'.inbox = ctrl.inbox
      /\ cat' = cat \/ (sat' = "wait_ctrl" /\ cat' = "connect")
      /\ sat' \in {"new", "requesting"} => cat = "none" /\ cat' = cat
      /\ sat' \in {"quit", "done"} => cat \in {"none", "ended"} /\ cat' = cat
  BY <1>1, SessionThreadEffect
<1>4. \/ /\ session'.pin = session.pin /\ ctrl'.pin = ctrl.pin
         /\ sat' = "give_pin" => session.pin # 0
         /\ \/ pipe' = pipe /\ ctrl'.shouldStop = ctrl.shouldStop
            \/ pipe' = TRUE /\ ctrl'.shouldStop = TRUE
      \/ /\ session.pin # 0 /\ session'.pin = 0 /\ ctrl'.pin = session.pin
         /\ sat' = "wait_id" /\ pipe' = TRUE
         /\ ctrl'.shouldStop = ctrl.shouldStop
  BY <1>1, SessionThreadEffect
<1>5. TypeOK'
  BY <1>1, SessionThreadType
<1>6. PlaceInv'
  BY <1>1, <1>3, <1>4 DEF PlaceInv
<1>7. PinInv'
  BY <1>1, <1>2, <1>3, <1>4 DEF PinInv
<1>8. SentInOrder'
  BY <1>1, <1>2, <1>3, <1>4 DEF SentInOrder
<1>9. PipeMeansWork'
  BY <1>1, <1>2, <1>3, <1>4 DEF PipeMeansWork
<1> QED
  BY <1>5, <1>6, <1>7, <1>8, <1>9 DEF SessionInv

LEMMA CtrlThreadKeeps ==
  ASSUME SessionInv, CtrlThread
  PROVE  SessionInv'
<1>1. TypeOK /\ PlaceInv /\ PinInv /\ SentInOrder /\ PipeMeansWork
  BY DEF SessionInv
<1>2. /\ session.pin \in 0 .. PinsMax /\ ctrl.pin \in 0 .. PinsMax
      /\ ctrl.shouldStop \in BOOLEAN /\ made.pins \in 0 .. PinsMax
      /\ PinsMax \in Nat
      /\ sent \in [pins : Seq(1 .. PinsMax), messages : Seq(1 .. MessagesMax)]
      /\ sent.pins \in Seq(1 .. PinsMax)
      /\ \A i \in DOMAIN sent.pins : sent.pins[i] \in 1 .. PinsMax
  BY ONLY <1>1, SharedFieldTypes
<1>3. /\ UNCHANGED <<sat, made, signal>> /\ cat \notin {"none", "ended"}
      /\ session'.pin = session.pin /\ ctrl'.shouldStop = ctrl.shouldStop
      /\ cat' = "handle" => ctrl'.inbox # << >>
  BY <1>1, CtrlThreadSends
<1>4. \/ /\ UNCHANGED <<sent, pipe>>
         /\ ctrl'.queue = ctrl.queue /\ ctrl'.pin = ctrl.pin
      \/ /\ ctrl.pin # 0 /\ pipe' = FALSE
         /\ sent' = [pins |-> Append(sent.pins, ctrl.pin), messages |-> AllSent]
         /\ ctrl'.queue = << >> /\ ctrl'.pin = 0
      \/ /\ pipe
         /\ sent' = [sent EXCEPT !.messages = AllSent]
         /\ ctrl'.queue = << >> /\ ctrl'.pin = ctrl.pin
  BY <1>1, CtrlThreadSends
<1>5. TypeOK'
  BY <1>1, CtrlThreadType
<1>6. PlaceInv'
  BY <1>1, <1>3 DEF PlaceInv
\* The messages sent and the queue together stay what they were.
<1>7. sent'.messages \o ctrl'.queue = sent.messages \o ctrl.queue
  <2>1. AllSent \o << >> = AllSent
    <3>1. sent.messages \in Seq(1 .. MessagesMax) /\ ctrl.queue \in Seq(1 .. MessagesMax)
      BY <1>1 DEF TypeOK, CtrlFields
    <3>2. AllSent \in Seq(1 .. MessagesMax)
      BY <3>1 DEF AllSent
    <3> QED
      BY ONLY <3>2
  <2>2. \/ sent'.messages = sent.messages /\ ctrl'.queue = ctrl.queue
        \/ sent'.messages = AllSent /\ ctrl'.queue = << >>
    BY <1>2, <1>4
  <2>3. CASE sent'.messages = sent.messages /\ ctrl'.queue = ctrl.queue
    BY ONLY <2>3
  <2>4. CASE sent'.messages = AllSent /\ ctrl'.queue = << >>
    BY ONLY <2>1, <2>4 DEF AllSent
  <2> QED
    BY ONLY <2>2, <2>3, <2>4
\* A PIN that is sent is the last of those sent.
<1>8. \/ sent'.pins = sent.pins /\ ctrl'.pin = ctrl.pin
      \/ /\ ctrl.pin # 0 /\ ctrl'.pin = 0
         /\ sent'.pins = Append(sent.pins, ctrl.pin)
  BY <1>2, <1>4
<1>n. \A i \in DOMAIN Append(sent.pins, ctrl.pin) :
        \/ /\ i \in DOMAIN sent.pins
           /\ Append(sent.pins, ctrl.pin)[i] = sent.pins[i]
        \/ /\ Append(sent.pins, ctrl.pin)[i] = ctrl.pin
           /\ DOMAIN sent.pins = 1 .. i - 1
  BY <1>2
<1>9. PinInv'
  <2>1. CASE sent'.pins = sent.pins /\ ctrl'.pin = ctrl.pin
    BY <1>1, <1>2, <1>3, <2>1 DEF PinInv
  <2>2. CASE /\ ctrl.pin # 0 /\ ctrl'.pin = 0
             /\ sent'.pins = Append(sent.pins, ctrl.pin)
    <3>1. session.pin <= made.pins /\ ctrl.pin <= made.pins
      BY <1>1 DEF PinInv
    <3>2. \A i \in DOMAIN sent'.pins : sent'.pins[i] <= made.pins
      BY <1>1, <1>n, <2>2, <3>1 DEF PinInv
    <3> QED
      BY <1>2, <1>3, <2>2, <3>1, <3>2 DEF PinInv
  <2> QED
    BY <1>8, <2>1, <2>2
<1>10. SentInOrder'
  <2>1. /\ \A i \in DOMAIN sent.pins : /\ sent.pins[i] < ctrl.pin \/ ctrl.pin = 0
                                       /\ sent.pins[i] < session.pin \/ session.pin = 0
                                       /\ \A j \in 1 .. i - 1 : sent.pins[j] < sent.pins[i]
        /\ session.pin # 0 => ctrl.pin < session.pin
        /\ sent.messages \o ctrl.queue = [i \in 1 .. made.messages |-> i]
    BY <1>1 DEF SentInOrder
  <2>2. /\ session'.pin # 0 => ctrl'.pin < session'.pin
        /\ sent'.messages \o ctrl'.queue = [i \in 1 .. made'.messages |-> i]
    BY <1>2, <1>3, <1>7, <1>8, <2>1
  <2>3. \A i \in DOMAIN sent'.pins :
          /\ sent'.pins[i] < ctrl'.pin \/ ctrl'.pin = 0
          /\ sent'.pins[i] < session'.pin \/ session'.pin = 0
          /\ \A j \in 1 .. i - 1 : sent'.pins[j] < sent'.pins[i]
    <3>1. CASE sent'.pins = sent.pins /\ ctrl'.pin = ctrl.pin
      BY <1>3, <2>1, <3>1
    <3>2. CASE /\ ctrl.pin # 0 /\ ctrl'.pin = 0
                 /\ sent'.pins = Append(sent.pins, ctrl.pin)
      <4> SUFFICES ASSUME NEW i \in DOMAIN sent'.pins
                   PROVE  /\ sent'.pins[i] < session.pin \/ session.pin = 0
                          /\ \A j \in 1 .. i - 1 : sent'.pins[j] < sent'.pins[i]
        BY <1>3, <3>2
      <4>1. CASE i \in DOMAIN sent.pins /\ sent'.pins[i] = sent.pins[i]
        <5>1. \A j \in 1 .. i - 1 : j \in DOMAIN sent.pins /\ sent'.pins[j] = sent.pins[j]
          BY ONLY <1>2, <3>2, <4>1, SMTT(30)
        <5> QED
          BY ONLY <2>1, <4>1, <5>1
      <4>2. CASE sent'.pins[i] = ctrl.pin /\ DOMAIN sent.pins = 1 .. i - 1
        <5>1. \A j \in 1 .. i - 1 : j \in DOMAIN sent.pins /\ sent'.pins[j] = sent.pins[j]
          BY <1>2, <3>2, <4>2
        <5> QED
          BY <2>1, <3>2, <4>2, <5>1
      <4> QED
        BY <1>n, <3>2, <4>1, <4>2
    <3> QED
      BY <1>8, <3>1, <3>2
  <2> QED
    BY <2>2, <2>3 DEF SentInOrder
<1>11. PipeMeansWork'
  BY <1>1, <1>3, <1>4 DEF PipeMeansWork
<1> QED
  BY <1>5, <1>6, <1>9, <1>10, <1>11 DEF SessionInv

LEMMA OutsideKeeps ==
  ASSUME SessionInv, Outside
  PROVE  SessionInv'
<1>1. TypeOK /\ PlaceInv /\ PinInv /\ SentInOrder /\ PipeMeansWork
  BY DEF SessionInv
<1>2. /\ session \in SessionFields /\ ctrl \in CtrlFields
      /\ session.pin \in 0 .. PinsMax /\ ctrl.pin \in 0 .. PinsMax
      /\ ctrl.shouldStop \in BOOLEAN
      /\ made \in [pins : 0 .. PinsMax, messages : 0 .. MessagesMax, console : 0 .. ConsoleMax]
      /\ made.pins \in 0 .. PinsMax /\ made.messages \in 0 .. MessagesMax
      /\ PinsMax \in Nat /\ MessagesMax \in Nat
      /\ ctrl.queue \in Seq(1 .. MessagesMax) /\ sent.messages \in Seq(1 .. MessagesMax)
      /\ \A i \in DOMAIN sent.pins : sent.pins[i] \in 1 .. PinsMax
  BY ONLY <1>1, SharedFieldTypes
<1>3. TypeOK'
  BY <1>1, OutsideType
<1>4. CASE Stop \/ \E k \in Kinds : ConsoleSends(k)
  <2>1. /\ UNCHANGED <<sat, cat, ctrl, pipe, signal, sent>>
        /\ session'.pin = session.pin
        /\ made'.pins = made.pins /\ made'.messages = made.messages
    BY <1>2, <1>4 DEF Stop, ConsoleSends, threads, app, SessionFields
  <2> QED
    BY <1>1, <1>3, <2>1 DEF SessionInv, PlaceInv, PinInv, SentInOrder, PipeMeansWork
<1>5. CASE SetLoginPin
  <2>1. /\ UNCHANGED <<sat, cat, ctrl, pipe, signal, sent>>
        /\ session'.pin = made.pins + 1
        /\ made'.pins = made.pins + 1 /\ made'.messages = made.messages
    BY <1>2, <1>5 DEF SetLoginPin, SessionFields
  <2>2. PlaceInv' /\ PinInv'
    BY <1>1, <1>2, <2>1 DEF PlaceInv, PinInv
  <2>3. SentInOrder'
    <3>1. /\ ctrl.pin < session'.pin
          /\ \A i \in DOMAIN sent.pins : sent.pins[i] < session'.pin
      BY <1>1, <1>2, <2>1 DEF PinInv
    <3> QED
      BY <1>1, <2>1, <3>1 DEF SentInOrder
  <2>4. PipeMeansWork'
    BY <1>1, <2>1 DEF PipeMeansWork
  <2> QED
    BY <1>3, <2>2, <2>3, <2>4 DEF SessionInv
<1>6. CASE SendMessage
  <2>1. /\ UNCHANGED <<sat, session, cat, pipe, sent>>
        /\ made.messages < MessagesMax
        /\ made'.pins = made.pins /\ made'.messages = made.messages + 1
        /\ ctrl'.pin = ctrl.pin /\ ctrl'.shouldStop = ctrl.shouldStop
        /\ ctrl'.inbox = ctrl.inbox
        /\ ctrl'.queue = Append(ctrl.queue, made.messages + 1)
    BY <1>2, <1>6 DEF SendMessage, threads, CtrlFields
  <2>2. PlaceInv' /\ PinInv' /\ PipeMeansWork'
    BY <1>1, <1>2, <2>1 DEF PlaceInv, PinInv, PipeMeansWork
  <2>3. sent'.messages \o ctrl'.queue = [i \in 1 .. made'.messages |-> i]
    <3>1. sent.messages \o ctrl.queue = [i \in 1 .. made.messages |-> i]
      BY <1>1 DEF SentInOrder
    <3>2. sent.messages \o Append(ctrl.queue, made.messages + 1)
            = [i \in 1 .. made.messages + 1 |-> i]
      <4> DEFINE T == 1 .. MessagesMax
      <4>1. /\ made.messages \in Nat /\ made.messages + 1 \in T
            /\ ctrl.queue \in Seq(T) /\ sent.messages \in Seq(T)
        BY <1>2, <2>1
      <4> HIDE DEF T
      <4>2. \A s, q \in Seq(T) : \A x \in T : s \o Append(q, x) = Append(s \o q, x)
        BY AppendToQueue
      <4>3. sent.messages \o Append(ctrl.queue, made.messages + 1)
              = Append(sent.messages \o ctrl.queue, made.messages + 1)
        BY ONLY <4>1, <4>2
      <4>4. Append([i \in 1 .. made.messages |-> i], made.messages + 1)
              = [i \in 1 .. made.messages + 1 |-> i]
        BY ONLY <4>1, CountedUp
      <4> QED
        BY ONLY <3>1, <4>3, <4>4
    <3> QED
      BY <2>1, <3>2
  <2>4. SentInOrder'
    BY <1>1, <2>1, <2>3 DEF SentInOrder
  <2> QED
    BY <1>3, <2>2, <2>4 DEF SessionInv
<1>7. CASE SendSignals
  <2>1. UNCHANGED <<sat, session, cat, ctrl, made, sent>> /\ signal /\ signal' = FALSE
    BY <1>7 DEF SendSignals, threads
  <2> QED
    BY <1>1, <1>2, <1>3, <2>1 DEF SessionInv, PlaceInv, PinInv, SentInOrder, PipeMeansWork
<1> QED
  BY <1>4, <1>5, <1>6, <1>7 DEF Outside

LEMMA SessionInductive ==
  ASSUME SessionInv, [Next]_vars
  PROVE  SessionInv'
<1>1. CASE UNCHANGED vars
  BY <1>1 DEF SessionInv, TypeOK, PlaceInv, PinInv, SentInOrder, PipeMeansWork, vars,
              threads, app
<1> QED
  BY <1>1, SessionThreadKeeps, CtrlThreadKeeps, OutsideKeeps DEF Next

LEMMA SessionAlways == Spec => []SessionInv
<1> QED
  BY SessionInitOK, SessionInductive, PTL DEF Spec

\* TypeOK holds in every reachable state, for any bounds.
THEOREM SessionTypeOK == Spec => []TypeOK
<1>1. SessionInv => TypeOK
  BY DEF SessionInv
<1> QED
  BY <1>1, SessionAlways, PTL

\* However many PINs and messages the application gives, and however it, the
\* session thread and the ctrl thread interleave, each PIN reaches the console at
\* most once and in order, and the messages in order and without loss
\* (session.c:549-556, ctrl.c:220-231, 364-384).
THEOREM SessionSentInOrder == Spec => []SentInOrder
<1>1. SessionInv => SentInOrder
  BY DEF SessionInv
<1> QED
  BY <1>1, SessionAlways, PTL

\* In a session without messages a readable pipe means a PIN to send or a stop:
\* the ctrl thread does not spin (ctrl.c:361-398).
THEOREM SessionPipeMeansWork == Spec => []PipeMeansWork
<1>1. SessionInv => PipeMeansWork
  BY DEF SessionInv
<1> QED
  BY <1>1, SessionAlways, PTL

\* Two threads may set the session id, yet the console's own id, once taken, is
\* never replaced (ctrl.c:669-680, 821-827).
THEOREM SessionConsoleIdKept == Spec => ConsoleIdKept
<1>1. ASSUME SessionInv, [Next]_vars
      PROVE  [session.id = "console" => session'.id = "console"]_vars
  <2> SUFFICES ASSUME session.id = "console", Next PROVE session'.id = "console"
    BY <1>1
  <2>1. TypeOK /\ session \in SessionFields /\ FallbackId = "console"
    BY <1>1 DEF SessionInv, TypeOK, FallbackId
  <2>2. CASE SessionThread
    <3>1. \/ session' = session
          \/ \E r \in Reasons : session' = [session EXCEPT !.reason = r]
          \/ session' = [session EXCEPT !.pinRequested = FALSE]
          \/ session' = [session EXCEPT !.pin = 0]
          \/ session' = [session EXCEPT !.id = "console"]
      BY <2>1, <2>2 DEF SessionThread, Start, RequestFails, RequestDone, WaitCtrl, WaitPin,
           GivePin, WaitId, Fallback, FallbackFails, Senkusha, SetupFails,
           SenkushaHangs, StreamHangs, StreamEnds, QuitCtrl,
           JoinCtrl, Quit, PinLoop, QuitTo, ForgetPin, CtrlFailed, Reasons, SessionFields
    <3> QED
      BY <2>1, <3>1 DEF SessionFields
  <2>3. CASE CtrlThread
    <3>1. \/ session' = session
          \/ \E r \in Reasons : session' = [session EXCEPT !.ctrlFailed = TRUE, !.reason = r]
          \/ session' = [session EXCEPT !.pinRequested = TRUE]
          \/ session' = [session EXCEPT !.id = "console"]
      BY <2>1, <2>3 DEF CtrlThread, CtrlProgress, CtrlConnectFails, CtrlRefused, CtrlConnected,
           CtrlHeader, CtrlHeaderUnsent, CtrlFail, HandleMessage, SessionIdMessage,
           PinReqMessage, PinIncorrectMessage, PinSuccessMessage, TooLargeMessage,
           SetSessionId, Canceled, Recv, RecvFails, RecvCloses, SelectFails, Message, Handled,
           Fill, CtrlEnd, NotSession, OutsideCtrl, Reasons
    <3> QED
      BY <2>1, <3>1 DEF SessionFields
  <2>4. CASE Outside
    BY <2>1, <2>4 DEF Outside, Stop, SetLoginPin, SendMessage, SendSignals, ConsoleSends,
          threads, SessionFields
  <2> QED
    BY <2>2, <2>3, <2>4 DEF Next
<1> QED
  BY <1>1, SessionAlways, PTL DEF Spec, ConsoleIdKept

\* The reason in the QUIT event is final: the ctrl thread, which may still fail,
\* was joined before (session.c:694-708, ctrl.c:297-305).
THEOREM SessionReasonFinal == Spec => ReasonFinal
<1>1. ASSUME SessionInv, [Next]_vars
      PROVE  [(sat = "quit" \/ sat = "done") => UNCHANGED session.reason]_vars
  <2> SUFFICES ASSUME sat \in {"quit", "done"}, Next PROVE session'.reason = session.reason
    BY <1>1
  <2>1. TypeOK /\ PlaceInv /\ session \in SessionFields
    BY <1>1 DEF SessionInv, TypeOK
  <2>2. CASE SessionThread
    <3>1. session' = [session EXCEPT !.reason = session.reason]
      BY <2>2 DEF SessionThread, Start, RequestFails, RequestDone, WaitCtrl, WaitPin,
           GivePin, WaitId, Fallback, FallbackFails, Senkusha, SetupFails,
           SenkushaHangs, StreamHangs, StreamEnds, QuitCtrl,
           JoinCtrl, Quit, QuitTo
    <3> QED
      BY <2>1, <3>1 DEF SessionFields
  <2>3. CASE CtrlThread
    BY <2>1, <2>3, CtrlThreadSends DEF PlaceInv
  <2>4. CASE Outside
    BY <2>1, <2>4 DEF Outside, Stop, SetLoginPin, SendMessage, SendSignals, ConsoleSends,
          threads, SessionFields
  <2> QED
    BY <2>2, <2>3, <2>4 DEF Next
<1> QED
  BY <1>1, SessionAlways, PTL DEF Spec, ReasonFinal
=============================================================================
