-------------------------- MODULE Holepunch_proofs --------------------------
(***************************************************************************)
(* For every bound of the notification queue: fini frees the session only  *)
(* when the websocket thread is done, and a cancel is heard.               *)
(***************************************************************************)
EXTENDS Holepunch, SequenceTheorems, TLAPS

\* Where main can be, and what a check leads to.  A wait for a session message
\* is followed by handling it, and no step begins once all have succeeded.
MainInv ==
  /\ main.next \in {"idle", "wait", "spawn", "post", "created", "joined", "message",
                    "answer", "establish", "respond"}
  /\ At("check") => main.next # "idle"
  /\ At("message") \/ (At("check") /\ main.next = "message") => main.for \in DOMAIN Action
  /\ ~At("idle") /\ ~At("over") /\ main.step # "fini" => done < Len(StepAt)
  /\ freed => At("over")

\* ws_open is set from before main is told of the websocket until the thread is
\* past its last use of the session; until main is told, it waits to be.
WsInv ==
  /\ ws.at \in {"opened", "lock", "continue", "receive", "select", "note", "enqueue",
                "after"} => wsOpen
  /\ ws.at \in {"connect", "cleanup"} => wsOpen \/ At("opening")
  /\ "wsOpen" \in bits => ws.at \notin {"none", "connect"} /\ (ws.at = "cleanup" => wsOpen)
  /\ \/ At("spawn") \/ main.next = "spawn"
     \/ At("idle") /\ result = "ok" /\ done = 0
     => ws.at = "none"
  /\ At("free") \/ freed => ws.at \in {"none", "done"}
  /\ ws.at \in {"note", "enqueue"} => Len(queue) < QueueMax

\* A step that began after a cancel has not come past its first check.
CancelInv ==
  begun => flag /\ main.step # "fini" /\ (At("check") \/ (At("wait") /\ main.for = "offer"))

HolepunchInv == TypeOK /\ MainInv /\ WsInv /\ CancelInv

LEMMA HolepunchInitOK == Init => HolepunchInv
<1> SUFFICES ASSUME Init PROVE HolepunchInv
  OBVIOUS
<1>1. TypeOK
  <2>1. Idle \in Main /\ Idle.sleep = "no"
    BY QueueAssumption DEF Idle, Main, Steps, Places, Waits
  <2>2. WsIdle \in [at : WsPlaces, note : Kinds, stale : BOOLEAN]
    BY DEF WsIdle, WsPlaces, Kinds
  <2>3. queue \in Seq(Kinds) /\ Len(queue) <= QueueMax
    BY QueueAssumption DEF Init
  <2>4. done \in 0 .. Len(StepAt)
    BY DEF Init, StepAt
  <2> QED
    BY <2>1, <2>2, <2>3, <2>4 DEF Init, TypeOK
<1>2. MainInv /\ WsInv /\ CancelInv
  BY DEF Init, MainInv, WsInv, CancelInv, Idle, WsIdle, At, StepAt
<1> QED
  BY <1>1, <1>2 DEF HolepunchInv

\* What remains of the queue when a notification is cleared.
LEMMA ClearedType ==
  ASSUME TypeOK
  PROVE  Cleared \in Seq(Kinds) /\ Len(Cleared) <= Len(queue)
<1>1. main.found \in 0 .. QueueMax /\ queue \in Seq(Kinds)
  BY DEF TypeOK, Main
<1>0. main.found \in Nat /\ Len(queue) \in Nat
  BY <1>1, QueueAssumption
<1>2. \A i \in main.found + 1 .. Len(queue) : queue[i] \in Kinds
  BY <1>1, <1>0
<1> DEFINE rest == SubSeq(queue, main.found + 1, Len(queue))
<1>3. /\ rest \in Seq(Kinds)
      /\ Len(rest) = IF main.found + 1 <= Len(queue)
                     THEN Len(queue) - (main.found + 1) + 1 ELSE 0
  BY <1>0, <1>2, SubSeqProperties
<1>4. Len(rest) <= Len(queue)
  <2> HIDE DEF rest
  <2> QED
    BY <1>0, <1>3
<1> QED
  BY <1>3, <1>4 DEF Cleared

\* The ways a step of main ends or goes on.
LEMMA ReturnOK ==
  ASSUME HolepunchInv, NEW r \in {"ok", "error", "canceled"}, Return(r),
         ~At("idle"), ~At("over")
  PROVE  /\ main' \in Main
         /\ main'.sleep = "no" /\ main'.at \in {"idle", "stop"}
         /\ main'.next \in {"idle", main.next}
         /\ main'.at = "stop" => main'.step = "fini"
         /\ begun' = FALSE /\ freed' = freed
         /\ result' \in {"ok", "error", "canceled"} /\ done' \in 0 .. Len(StepAt)
         /\ main'.at = "idle" => result' = r /\ (r = "ok" => done' > 0)
         /\ main.step # "fini" => result' = r
         /\ done' > done => r = "ok"
<1> USE DEF HolepunchInv
<1>1. CASE main.step = "fini"
  <2>1. main' = [main EXCEPT !.at = "stop", !.sleep = "no"] /\ UNCHANGED outcome
    BY <1>1 DEF Return
  <2>2. main' \in Main /\ main'.next = main.next /\ main'.step = main.step
        /\ main'.at = "stop" /\ main'.sleep = "no"
    BY <2>1, ZenonT(60) DEF TypeOK, Main, Places
  <2> QED
    BY <1>1, <2>1, <2>2 DEF TypeOK, CancelInv, outcome
<1>2. CASE main.step # "fini"
  BY <1>2, QueueAssumption DEF Return, TypeOK, Main, MainInv, Idle, StepAt, At, Steps, Places, Waits
<1> QED
  BY <1>1, <1>2

LEMMA MovesOK ==
  ASSUME TypeOK,
         NEW l \in Places, NEW f \in Waits
  PROVE  /\ Goto(l) => /\ main' \in Main /\ main'.at = l /\ main'.next = "idle"
                       /\ main'.for = main.for /\ main'.sleep = main.sleep
                       /\ main'.step = main.step /\ UNCHANGED outcome
         /\ CheckThen(l) => /\ main' \in Main /\ main'.at = "check" /\ main'.next = l
                            /\ main'.for = main.for /\ main'.sleep = main.sleep
                            /\ main'.step = main.step /\ UNCHANGED outcome
         /\ CheckThenWait(f) =>
              /\ main' \in Main /\ main'.at = "check" /\ main'.next = "wait"
              /\ main'.for = f /\ main'.sleep = main.sleep
              /\ main'.step = main.step /\ UNCHANGED outcome
         /\ WaitFor(f) =>
              /\ main' \in Main /\ main'.at = "wait" /\ main'.next = main.next
              /\ main'.for = f /\ main'.sleep = "no"
              /\ main'.step = main.step /\ UNCHANGED outcome
<1>1. 0 \in 0 .. QueueMax
  BY QueueAssumption
<1>2. "idle" \in Places /\ "check" \in Places /\ "wait" \in Places
  BY DEF Places
<1>3. Goto(l) => /\ main' \in Main /\ main'.at = l /\ main'.next = "idle"
                 /\ main'.for = main.for /\ main'.sleep = main.sleep
                 /\ main'.step = main.step /\ UNCHANGED outcome
  BY <1>1, <1>2 DEF TypeOK, Main, Goto
<1>4. CheckThen(l) => /\ main' \in Main /\ main'.at = "check" /\ main'.next = l
                      /\ main'.for = main.for /\ main'.sleep = main.sleep
                      /\ main'.step = main.step /\ UNCHANGED outcome
  BY <1>1, <1>2 DEF TypeOK, Main, CheckThen
<1>5. CheckThenWait(f) => /\ main' \in Main /\ main'.at = "check" /\ main'.next = "wait"
                          /\ main'.for = f /\ main'.sleep = main.sleep
                          /\ main'.step = main.step /\ UNCHANGED outcome
  BY <1>1, <1>2, ZenonT(60) DEF TypeOK, Main, CheckThenWait
<1>6. WaitFor(f) => /\ main' \in Main /\ main'.at = "wait" /\ main'.next = main.next
                    /\ main'.for = f /\ main'.sleep = "no"
                    /\ main'.step = main.step /\ UNCHANGED outcome
  BY <1>1, <1>2, ZenonT(60) DEF TypeOK, Main, WaitFor
<1> QED
  BY <1>3, <1>4, <1>5, <1>6

\* What a step of main leaves of everything but main and the outcome.
Rest ==
  /\ ws' \in [at : WsPlaces, note : Kinds, stale : BOOLEAN] /\ ws'.at = ws.at
  /\ queue' \in Seq(Kinds) /\ Len(queue') <= Len(queue)
  /\ bits' \subseteq Bits /\ ("wsOpen" \in bits' => "wsOpen" \in bits)
  /\ state' \in {"free", "main", "kept"} /\ stop' \in {"free", "kept"}
  /\ flag' \in BOOLEAN /\ wsStop' \in BOOLEAN /\ pipe' \in BOOLEAN
  /\ wsOpen' = wsOpen /\ canceler' = canceler

LEMMA QueueShrinks ==
  ASSUME HolepunchInv, Rest
  PROVE  /\ Len(queue') <= QueueMax
         /\ Len(queue) < QueueMax => Len(queue') < QueueMax
<1>1. /\ queue \in Seq(Kinds) /\ Len(queue) <= QueueMax
      /\ queue' \in Seq(Kinds) /\ Len(queue') <= Len(queue)
  BY DEF HolepunchInv, TypeOK, Rest
<1>2. Len(queue) \in Nat /\ Len(queue') \in Nat /\ QueueMax \in Nat
  BY <1>1, QueueAssumption
<1> QED
  BY <1>1, <1>2

\* A step of main that the next lemmas take for granted is under way.
Underway == ~At("idle") /\ ~At("over") /\ (At("opening") => "wsOpen" \in bits)

LEMMA ReturnsOK ==
  ASSUME HolepunchInv, Rest, Underway,
         NEW r \in {"ok", "error", "canceled"}, Return(r)
  PROVE  HolepunchInv'
<1>1. /\ main' \in Main /\ main'.sleep = "no" /\ main'.at \in {"idle", "stop"}
      /\ main'.next \in {"idle", main.next}
      /\ main'.at = "stop" => main'.step = "fini"
      /\ begun' = FALSE /\ freed' = freed
      /\ result' \in {"ok", "error", "canceled"} /\ done' \in 0 .. Len(StepAt)
      /\ main'.at = "idle" => result' = r /\ (r = "ok" => done' > 0)
  BY ReturnOK DEF Underway
<1>6. /\ Len(queue') <= QueueMax
      /\ Len(queue) < QueueMax => Len(queue') < QueueMax
  BY QueueShrinks
<1> USE DEF HolepunchInv, At
<1>2. TypeOK'
  BY <1>1, <1>6 DEF TypeOK, Rest
<1>3. MainInv'
  BY <1>1 DEF MainInv, Underway
<1>4. WsInv'
  <2>1. result' = "ok" /\ main'.at = "idle" => done' # 0
    BY <1>1 DEF StepAt
  <2> QED
    BY <1>1, <1>6, <2>1 DEF WsInv, MainInv, Underway, Rest
<1>5. CancelInv'
  BY <1>1 DEF CancelInv
<1> QED
  BY <1>2, <1>3, <1>4, <1>5

\* A step of main within a step of the session: where it goes depends on nothing
\* the invariant does not already say.
LEMMA GoesOnOK ==
  ASSUME HolepunchInv, Rest, Underway, CancelInv',
         main' \in Main, UNCHANGED outcome,
         main'.step = main.step,
         main'.sleep # "no" => main'.at = "wait",
         main'.at \notin {"idle", "over", "opening", "spawn"},
         main'.at = "free" => ws.at \in {"none", "done"},
         main'.next \in {"idle", "wait", "post", "created", "joined", "message",
                        "answer", "establish", "respond", main.next},
         main'.at = "check" => main'.next # "idle",
         main'.at = "message" \/ (main'.at = "check" /\ main'.next = "message")
           => main'.for \in DOMAIN Action
  PROVE  HolepunchInv'
<1>1. /\ Len(queue') <= QueueMax
      /\ Len(queue) < QueueMax => Len(queue') < QueueMax
  BY QueueShrinks
<1> USE DEF HolepunchInv, At, outcome
<1>2. TypeOK'
  BY <1>1 DEF TypeOK, Rest
<1>3. MainInv'
  BY DEF MainInv, Underway
<1>4. WsInv'
  BY <1>1 DEF WsInv, MainInv, Underway, Rest
<1> QED
  BY <1>2, <1>3, <1>4

\* The same for the ways the code goes on.
LEMMA MovesOn ==
  ASSUME HolepunchInv, Rest, Underway, ~At("check"), ~At("wait")
  PROVE  /\ \A l \in {"got", "offer", "ack", "accept", "candidates", "stop", "join"} :
              Goto(l) => HolepunchInv'
         /\ Goto("free") /\ ws.at = "done" => HolepunchInv'
         /\ \A l \in {"post", "created", "joined", "answer", "establish", "respond"} :
              CheckThen(l) => HolepunchInv'
         /\ \A f \in Waits : CheckThenWait(f) \/ WaitFor(f) => HolepunchInv'
<1>0. TypeOK /\ ~begun /\ main.sleep = "no"
  BY DEF HolepunchInv, CancelInv, TypeOK
<1>1. ASSUME NEW l \in {"got", "offer", "ack", "accept", "candidates", "stop", "join"},
             Goto(l)
      PROVE  HolepunchInv'
  <2>1. l \in Places /\ "created" \in Waits
    BY DEF Places, Waits
  <2> QED
    BY <1>0, <1>1, <2>1, MovesOK, GoesOnOK DEF CancelInv, outcome
<1>2. ASSUME Goto("free"), ws.at = "done" PROVE HolepunchInv'
  <2>1. "free" \in Places /\ "created" \in Waits
    BY DEF Places, Waits
  <2> QED
    BY <1>0, <1>2, <2>1, MovesOK, GoesOnOK DEF CancelInv, outcome
<1>3. ASSUME NEW l \in {"post", "created", "joined", "answer", "establish", "respond"},
             CheckThen(l)
      PROVE  HolepunchInv'
  <2>1. l \in Places /\ "created" \in Waits
    BY DEF Places, Waits
  <2> QED
    BY <1>0, <1>3, <2>1, MovesOK, GoesOnOK DEF CancelInv, outcome
<1>4. ASSUME NEW f \in Waits, CheckThenWait(f) \/ WaitFor(f) PROVE HolepunchInv'
  <2>1. "idle" \in Places
    BY DEF Places
  <2> QED
    BY <1>0, <1>4, <2>1, MovesOK, GoesOnOK DEF CancelInv, outcome
<1> QED
  BY <1>1, <1>2, <1>3, <1>4

LEMMA RestOK ==
  ASSUME HolepunchInv
  PROVE  /\ Settled => Rest
         /\ Elsewhere \/ (Clear /\ UNCHANGED <<wsOpen, canceler>>) =>
              /\ ws' \in [at : WsPlaces, note : Kinds, stale : BOOLEAN] /\ ws'.at = ws.at
              /\ queue' \in Seq(Kinds) /\ Len(queue') <= Len(queue)
              /\ wsOpen' = wsOpen /\ canceler' = canceler
<1>1. ASSUME Elsewhere \/ (Clear /\ UNCHANGED <<wsOpen, canceler>>)
      PROVE  /\ ws' \in [at : WsPlaces, note : Kinds, stale : BOOLEAN] /\ ws'.at = ws.at
             /\ queue' \in Seq(Kinds) /\ Len(queue') <= Len(queue)
             /\ wsOpen' = wsOpen /\ canceler' = canceler
  <2>1. /\ ws \in [at : WsPlaces, note : Kinds, stale : BOOLEAN]
        /\ queue \in Seq(Kinds) /\ Len(queue) \in Nat
    BY DEF HolepunchInv, TypeOK
  <2>2. CASE Elsewhere
    BY <2>1, <2>2 DEF Elsewhere
  <2>3. CASE Clear /\ UNCHANGED <<wsOpen, canceler>>
    <3>1. queue' \in Seq(Kinds) /\ Len(queue') <= Len(queue)
      BY <2>3, ClearedType DEF Clear, HolepunchInv
    <3>2. (ws.stale \/ (ws.at = "after" /\ Cleared = <<>>)) \in BOOLEAN
      BY <2>1
    <3>3. ws' = [ws EXCEPT !.stale = ws.stale \/ (ws.at = "after" /\ Cleared = <<>>)]
      BY <2>3 DEF Clear
    <3>4. ws' \in [at : WsPlaces, note : Kinds, stale : BOOLEAN] /\ ws'.at = ws.at
      BY <2>1, <3>2, <3>3
    <3> QED
      BY <2>3, <3>1, <3>4
  <2> QED
    BY <1>1, <2>2, <2>3
<1>2. Settled => Rest
  BY <1>1 DEF Settled, Rest, HolepunchInv, TypeOK, flags
<1> QED
  BY <1>1, <1>2

\* Steps of session_create, after the websocket thread is there.
LEMMA CreateOK ==
  ASSUME HolepunchInv,
         Opened \/ Post \/ GotCreated \/ Created
  PROVE  HolepunchInv'
<1> USE DEF At, Underway
<1>1. CASE Opened
  <2>1. Rest /\ Underway
    BY <1>1, RestOK DEF Opened
  <2> QED
    BY <1>1, <2>1, MovesOn DEF Opened
<1>2. CASE Post
  <2>1. Rest /\ Underway
    BY <1>2, RestOK DEF Post
  <2> QED
    BY <1>2, <2>1, ReturnsOK, MovesOn DEF Post, Waits
<1>3. CASE GotCreated
  <2>1. bits' \subseteq Bits /\ ("wsOpen" \in bits' => "wsOpen" \in bits)
    BY <1>3 DEF GotCreated, HolepunchInv, TypeOK, Bits
  <2>2. Rest /\ Underway
    BY <1>3, <2>1, RestOK DEF GotCreated, Rest, HolepunchInv, TypeOK, flags
  <2> QED
    BY <1>3, <2>2, ReturnsOK, MovesOn DEF GotCreated
<1>4. CASE Created
  <2>1. Rest /\ Underway
    BY <1>4, RestOK DEF Created, Rest, HolepunchInv, TypeOK, flags
  <2> QED
    BY <1>4, <2>1, ReturnsOK, MovesOn DEF Created, Waits
<1> QED
  BY <1>1, <1>2, <1>3, <1>4

\* Steps of session_start.
LEMMA StartOK ==
  ASSUME HolepunchInv, GotJoined \/ Joined
  PROVE  HolepunchInv'
<1> USE DEF At, Underway
<1>1. CASE GotJoined
  <2>1. bits' \subseteq Bits /\ ("wsOpen" \in bits' => "wsOpen" \in bits)
    BY <1>1 DEF GotJoined, HolepunchInv, TypeOK, Bits
  <2>2. Rest /\ Underway
    BY <1>1, <2>1, RestOK DEF GotJoined, Rest, HolepunchInv, TypeOK, flags, Elsewhere
  <2> QED
    BY <1>1, <2>2, ReturnsOK, MovesOn DEF GotJoined
<1>2. CASE Joined
  <2>1. Rest /\ Underway
    BY <1>2, RestOK DEF Joined, Rest, HolepunchInv, TypeOK, flags
  <2> QED
    BY <1>2, <2>1, ReturnsOK, MovesOn DEF Joined, Waits
<1> QED
  BY <1>1, <1>2

\* Steps of session_punch_hole, after its first wait.
LEMMA PunchOK ==
  ASSUME HolepunchInv,
         Message \/ Offer \/ Ack \/ Candidates \/ Answer \/ Accept \/ Establish \/ Respond
  PROVE  HolepunchInv'
<1> USE DEF At, Underway
<1>1. CASE Message
  <2>1. Rest /\ Underway
    BY <1>1, RestOK DEF Message, Rest, HolepunchInv, TypeOK, flags, Locks, Elsewhere
  <2>2. main.for \in Waits /\ main.for \in {"offer", "ack", "accept"}
    BY <1>1 DEF Message, HolepunchInv, MainInv, Action, Waits
  <2> QED
    BY <1>1, <2>1, <2>2, ReturnsOK, MovesOn DEF Message
<1>2. CASE Offer
  <2>1. bits' \subseteq Bits /\ ("wsOpen" \in bits' => "wsOpen" \in bits)
    BY <1>2 DEF Offer, Bit, HolepunchInv, TypeOK, Bits
  <2>2. Rest /\ Underway
    BY <1>2, <2>1, RestOK DEF Offer, Rest, HolepunchInv, TypeOK, flags, Locks
  <2> QED
    BY <1>2, <2>2, ReturnsOK, MovesOn DEF Offer, Waits
<1>3. CASE Ack
  <2>1. Rest /\ Underway
    BY <1>3, RestOK DEF Ack, Rest, HolepunchInv, TypeOK
  <2> QED
    BY <1>3, <2>1, ReturnsOK, MovesOn DEF Ack, Waits
<1>4. CASE Candidates
  <2>1. Rest /\ Underway
    BY <1>4, RestOK DEF Candidates
  <2> QED
    BY <1>4, <2>1, ReturnsOK, MovesOn DEF Candidates
<1>5. CASE Answer
  <2>1. Rest /\ Underway
    BY <1>5, RestOK DEF Answer
  <2> QED
    BY <1>5, <2>1, ReturnsOK, MovesOn DEF Answer, Waits
<1>6. CASE Accept
  <2>1. Rest /\ Underway
    BY <1>6, RestOK DEF Accept
  <2> QED
    BY <1>6, <2>1, ReturnsOK, MovesOn DEF Accept
<1>7. CASE Establish
  <2>1. bits' \subseteq Bits /\ ("wsOpen" \in bits' => "wsOpen" \in bits)
    BY <1>7 DEF Establish, Bit, HolepunchInv, TypeOK, Bits
  <2>2. Rest /\ Underway
    BY <1>7, <2>1, RestOK DEF Establish, Rest, HolepunchInv, TypeOK, flags, Locks
  <2> QED
    BY <1>7, <2>2, MovesOn DEF Establish
<1>8. CASE Respond
  <2>1. Rest /\ Underway
    BY <1>8, RestOK DEF Respond
  <2> QED
    BY <1>8, <2>1, ReturnsOK DEF Respond
<1> QED
  BY <1>1, <1>2, <1>3, <1>4, <1>5, <1>6, <1>7, <1>8

\* The checks of main_should_stop, and the wait for a notification.
LEMMA WaitOK ==
  ASSUME HolepunchInv, StopCheck \/ Wait \/ WokenCheck \/ TimedOut
  PROVE  HolepunchInv'
<1> USE DEF At, Underway
<1>1. CASE StopCheck
  <2>1. Rest /\ Underway
    BY <1>1, RestOK DEF StopCheck, Rest, HolepunchInv, TypeOK, Keeps
  <2>2. CASE flag
    BY <1>1, <2>1, <2>2, ReturnsOK DEF StopCheck
  <2>3. CASE ~flag
    <3>1. /\ Goto(main.next) /\ ~begun /\ main.sleep = "no"
          /\ main.next \in Places \ {"idle", "over", "opening", "free", "check"}
          /\ TypeOK
      BY <1>1, <2>3 DEF StopCheck, HolepunchInv, CancelInv, TypeOK, MainInv, Places
    <3>2. /\ main' \in Main /\ main'.at = main.next /\ main'.next = "idle"
          /\ main'.for = main.for /\ main'.sleep = main.sleep
          /\ main'.step = main.step /\ UNCHANGED outcome
      <4>1. "created" \in Waits
        BY DEF Waits
      <4> QED
        BY <3>1, <4>1, MovesOK
    <3>3. CASE main.next # "spawn"
      <4>1. main'.at = "message" => main'.for \in DOMAIN Action
        BY <1>1, <3>2 DEF StopCheck, HolepunchInv, MainInv
      <4> QED
        BY <2>1, <3>1, <3>2, <3>3, <4>1, GoesOnOK DEF CancelInv, outcome
    <3>4. CASE main.next = "spawn"
      <4>1. /\ Len(queue') <= QueueMax
            /\ Len(queue) < QueueMax => Len(queue') < QueueMax
        BY <2>1, QueueShrinks
      <4>2. TypeOK'
        BY <2>1, <3>1, <3>2, <4>1 DEF TypeOK, Rest, outcome
      <4>3. MainInv'
        BY <1>1, <3>2, <3>4 DEF StopCheck, HolepunchInv, MainInv, outcome
      <4>4. WsInv'
        BY <1>1, <2>1, <3>2, <3>4, <4>1 DEF StopCheck, HolepunchInv, WsInv, MainInv, Rest, outcome
      <4>5. CancelInv'
        BY <3>1, <3>2 DEF CancelInv, outcome
      <4> QED
        BY <4>2, <4>3, <4>4, <4>5 DEF HolepunchInv
    <3> QED
      BY <3>3, <3>4
  <2> QED
    BY <2>2, <2>3
<1>2. CASE Wait
  <2>1. Rest /\ Underway
    BY <1>2, RestOK DEF Wait
  <2>2. main \in Main /\ Len(queue) \in 0 .. QueueMax /\ 0 \in 0 .. QueueMax
        /\ Seen \subseteq 0 .. QueueMax
    <3>1. main \in Main /\ Len(queue) \in Nat /\ Len(queue) <= QueueMax
      BY DEF HolepunchInv, TypeOK
    <3>2. main.scanned \in Nat
      BY <3>1, QueueAssumption DEF Main
    <3> QED
      BY <3>1, <3>2, QueueAssumption DEF Seen
  <2>3. CASE Hits = {} /\ main' = [main EXCEPT !.scanned = Len(queue), !.sleep = "asleep"]
    <3>1. main' \in Main /\ main'.at = "wait" /\ main'.next = main.next
          /\ main'.for = main.for /\ main'.step = main.step
      BY <1>2, <2>2, <2>3 DEF Wait, Main
    <3>2. CancelInv'
      BY <1>2, <3>1 DEF Wait, HolepunchInv, CancelInv, outcome, Settled, flags
    <3> QED
      BY <1>2, <2>1, <3>1, <3>2, GoesOnOK DEF Wait
  <2>4. CASE \E i \in Hits :
               main' = [main EXCEPT !.at = IF main.for \in DOMAIN Action THEN "check" ELSE "got",
                                    !.next = "message", !.scanned = 0, !.found = i]
    <3>1. PICK i \in Hits :
            main' = [main EXCEPT !.at = IF main.for \in DOMAIN Action THEN "check" ELSE "got",
                                 !.next = "message", !.scanned = 0, !.found = i]
      BY <2>4
    <3>2. i \in 0 .. QueueMax
      BY <2>2 DEF Hits
    <3>3. main' \in Main /\ main'.at = (IF main.for \in DOMAIN Action THEN "check" ELSE "got")
          /\ main'.next = "message" /\ main'.sleep = "no"
          /\ main'.for = main.for /\ main'.step = main.step
      BY <1>2, <2>2, <3>1, <3>2 DEF Wait, Main, Places
    <3>4. CancelInv'
      BY <1>2, <3>3 DEF Wait, HolepunchInv, CancelInv, outcome, Settled, flags, Action
    <3> QED
      BY <1>2, <2>1, <3>3, <3>4, GoesOnOK DEF Wait
  <2> QED
    BY <1>2, <2>3, <2>4 DEF Wait
<1>3. CASE WokenCheck
  <2>1. Rest /\ Underway
    BY <1>3, RestOK DEF WokenCheck, Rest, HolepunchInv, TypeOK, Locks
  <2>2. CASE flag
    BY <1>3, <2>1, <2>2, ReturnsOK DEF WokenCheck
  <2>3. CASE ~flag
    <3>1. /\ main' = [main EXCEPT !.sleep = IF Seen = {} THEN "asleep" ELSE "no"]
          /\ ~begun /\ main \in Main /\ UNCHANGED outcome
      BY <1>3, <2>3 DEF WokenCheck, HolepunchInv, CancelInv, TypeOK
    <3>2. main' \in Main /\ main'.at = "wait" /\ main'.next = main.next
          /\ main'.for = main.for /\ main'.step = main.step
      BY <1>3, <3>1 DEF WokenCheck, Main
    <3> QED
      BY <2>1, <3>1, <3>2, GoesOnOK DEF CancelInv, outcome
  <2> QED
    BY <2>2, <2>3
<1>4. CASE TimedOut
  <2>1. Rest /\ Underway
    BY <1>4, RestOK DEF TimedOut
  <2> QED
    BY <1>4, <2>1, ReturnsOK DEF TimedOut
<1> QED
  BY <1>1, <1>2, <1>3, <1>4

\* session_fini: at its end the websocket thread is done.
LEMMA FiniOK ==
  ASSUME HolepunchInv, GotDeleted \/ Stop \/ Join \/ Free
  PROVE  HolepunchInv'
<1> USE DEF At, Underway
<1>1. CASE GotDeleted
  <2>1. bits' \subseteq Bits /\ ("wsOpen" \in bits' => "wsOpen" \in bits)
    BY <1>1 DEF GotDeleted, HolepunchInv, TypeOK, Bits
  <2>2. Rest /\ Underway
    BY <1>1, <2>1, RestOK DEF GotDeleted, Rest, HolepunchInv, TypeOK, flags, Locks
  <2> QED
    BY <1>1, <2>2, MovesOn DEF GotDeleted
<1>2. CASE Stop
  <2>1. Rest /\ Underway
    BY <1>2, RestOK DEF Stop, Rest, HolepunchInv, TypeOK, Locks
  <2> QED
    BY <1>2, <2>1, MovesOn DEF Stop
<1>3. CASE Join
  <2>1. Rest /\ Underway
    BY <1>3, RestOK DEF Join
  <2> QED
    BY <1>3, <2>1, MovesOn DEF Join
<1>4. CASE Free
  <2>1. Rest
    BY <1>4, RestOK DEF Free
  <2>2. Idle \in Main
    BY QueueAssumption DEF Idle, Main, Steps, Places, Waits
  <2>3. /\ main' = [Idle EXCEPT !.at = "over"] /\ freed' = TRUE
        /\ UNCHANGED <<result, done, begun, bits, wsOpen, flag, queue, ws>>
    BY <1>4 DEF Free, Settled, flags, Elsewhere
  <2>4. main' \in Main /\ main'.at = "over" /\ main'.next = "idle" /\ main'.sleep = "no"
    BY <2>2, <2>3 DEF Main, Places, Idle
  <2>5. TypeOK'
    BY <2>1, <2>3, <2>4 DEF Rest, HolepunchInv, TypeOK
  <2>6. MainInv' /\ WsInv' /\ CancelInv'
    BY <1>4, <2>3, <2>4 DEF Free, HolepunchInv, MainInv, WsInv, CancelInv
  <2> QED
    BY <2>5, <2>6 DEF HolepunchInv
<1> QED
  BY <1>1, <1>2, <1>3, <1>4

\* The websocket thread is created once, by the step that has waited for nothing.
LEMMA SpawnOK ==
  ASSUME HolepunchInv, Spawn
  PROVE  HolepunchInv'
<1> USE DEF At
<1>1. CASE Return("error") /\ UNCHANGED ws
  <2>1. Rest /\ Underway
    BY <1>1 DEF Spawn, Rest, Underway, Locks, flags, HolepunchInv, TypeOK
  <2> QED
    BY <1>1, <2>1, ReturnsOK
<1>2. CASE Goto("opening") /\ ws' = [ws EXCEPT !.at = "connect"]
  <2>1. TypeOK
    BY DEF HolepunchInv
  <2>2. /\ main' \in Main /\ main'.at = "opening" /\ main'.next = "idle"
        /\ main'.sleep = main.sleep /\ main'.step = main.step /\ UNCHANGED outcome
    <3>1. "opening" \in Places /\ "created" \in Waits
      BY DEF Places, Waits
    <3> QED
      BY <1>2, <2>1, <3>1, MovesOK
  <2>3. /\ ws' \in [at : WsPlaces, note : Kinds, stale : BOOLEAN] /\ ws'.at = "connect"
    BY <1>2, <2>1 DEF TypeOK, WsPlaces
  <2>4. TypeOK'
    BY <2>1, <2>2, <2>3 DEF Spawn, TypeOK, Locks, flags, outcome
  <2>5. MainInv'
    BY <2>2 DEF Spawn, HolepunchInv, MainInv, outcome
  <2>6. WsInv' /\ CancelInv'
    BY <2>2, <2>3 DEF Spawn, HolepunchInv, MainInv, WsInv, CancelInv, outcome
  <2> QED
    BY <2>4, <2>5, <2>6 DEF HolepunchInv
<1> QED
  BY <1>1, <1>2 DEF Spawn

\* The calls of the session's user.
LEMMA BeginsOK ==
  ASSUME HolepunchInv,
         \/ BeginCreate \/ BeginStart \/ BeginFails \/ BeginFini
         \/ \E port \in {"ctrl", "data"} : BeginPunch(port)
  PROVE  HolepunchInv'
<1> USE DEF At
<1>0. Idle \in Main
  BY QueueAssumption DEF Idle, Main, Steps, Places, Waits
<1>1. Rest
  <2>1. Settled
    BY DEF BeginCreate, BeginStart, BeginFails, BeginFini, BeginPunch
  <2> QED
    BY <2>1, RestOK
<1>2. /\ main.at = "idle" /\ begun = FALSE /\ freed = FALSE /\ wsOpen \in BOOLEAN
      /\ flag \in BOOLEAN /\ flag' = flag /\ bits' = bits /\ queue' = queue /\ ws' = ws
  BY DEF BeginCreate, BeginStart, BeginFails, BeginFini, BeginPunch, Begin,
         HolepunchInv, TypeOK, MainInv, CancelInv, Settled, flags, Elsewhere
<1>3. CASE BeginFails
  <2>1. TypeOK'
    BY <1>1, <1>2, <1>3 DEF BeginFails, Rest, HolepunchInv, TypeOK
  <2>2. MainInv' /\ WsInv' /\ CancelInv'
    BY <1>1, <1>2, <1>3 DEF BeginFails, Rest, HolepunchInv, MainInv, WsInv, CancelInv
  <2> QED
    BY <2>1, <2>2 DEF HolepunchInv
<1>4. CASE BeginFini
  <2>1. main' = [Idle EXCEPT !.step = "fini", !.for = "deleted",
                              !.at = IF wsOpen THEN "wait" ELSE "free"]
        /\ UNCHANGED <<begun, freed>> /\ result' = "ok" /\ done' = Len(StepAt)
    BY <1>4 DEF BeginFini
  <2>2. main' \in Main /\ main'.step = "fini" /\ main'.sleep = "no" /\ main'.next = "idle"
        /\ main'.at = (IF wsOpen THEN "wait" ELSE "free")
    BY <1>0, <1>2, <2>1 DEF Main, Steps, Places, Waits, Idle
  <2>3. TypeOK'
    BY <1>1, <1>2, <2>1, <2>2 DEF Rest, HolepunchInv, TypeOK, StepAt
  <2>4. MainInv' /\ CancelInv'
    BY <1>2, <2>1, <2>2 DEF HolepunchInv, MainInv, CancelInv
  <2>5. WsInv'
    <3>1. ws.at \in WsPlaces /\ wsOpen' = wsOpen
      BY <1>1 DEF Rest, HolepunchInv, TypeOK
    <3> QED
      BY <1>2, <2>1, <2>2, <3>1 DEF HolepunchInv, WsInv, WsPlaces
  <2> QED
    BY <2>3, <2>4, <2>5 DEF HolepunchInv
<1>5. ASSUME NEW s \in {"create", "start", "ctrl", "data"}, NEW part \in Main, Begin(s, part),
             part.at \in {"check", "wait"}, part.sleep = "no",
             part.at = "check" => part.next \in {"wait", "spawn"},
             part.at = "wait" => part.for = "offer" /\ part.next = "idle",
             part.next = "spawn" => s = "create"
      PROVE  HolepunchInv'
  <2>1. /\ main' = [part EXCEPT !.step = s] /\ begun' = flag
        /\ result = "ok" /\ done < Len(StepAt) /\ StepAt[done + 1] = s
        /\ UNCHANGED <<result, done, freed>>
    BY <1>5 DEF Begin
  <2>2. main' \in Main /\ main'.step = s /\ main'.at = part.at /\ main'.next = part.next
        /\ main'.for = part.for /\ main'.sleep = "no"
    BY <1>5, <2>1 DEF Main, Steps
  <2>3. done \in 0 .. 4 /\ (s = "create" => done = 0)
    <3>1. done \in 0 .. 4
      BY DEF HolepunchInv, TypeOK, StepAt
    <3> QED
      BY <2>1, <3>1 DEF StepAt
  <2>4. TypeOK'
    BY <1>1, <1>2, <1>5, <2>1, <2>2 DEF Rest, HolepunchInv, TypeOK
  <2>5. MainInv'
    BY <1>2, <1>5, <2>1, <2>2 DEF HolepunchInv, MainInv
  <2>6. WsInv'
    BY <1>1, <1>2, <1>5, <2>1, <2>2, <2>3 DEF Rest, HolepunchInv, WsInv
  <2>7. CancelInv'
    BY <1>2, <1>5, <2>1, <2>2 DEF CancelInv
  <2> QED
    BY <2>4, <2>5, <2>6, <2>7 DEF HolepunchInv
<1>6. CASE BeginCreate
  <2> DEFINE part == [Idle EXCEPT !.at = "check", !.next = "spawn"]
  <2>1. part \in Main /\ part.at = "check" /\ part.next = "spawn" /\ part.sleep = "no"
    BY <1>0 DEF Main, Idle, Places
  <2>2. Begin("create", part)
    BY <1>6 DEF BeginCreate
  <2> HIDE DEF part
  <2> QED
    BY <1>5, <2>1, <2>2
<1>7. CASE BeginStart
  <2> DEFINE part == [Idle EXCEPT !.at = "check", !.next = "wait", !.for = "joined"]
  <2>1. part \in Main /\ part.at = "check" /\ part.next = "wait" /\ part.sleep = "no"
    BY <1>0 DEF Main, Idle, Places, Waits
  <2>2. Begin("start", part)
    BY <1>7 DEF BeginStart
  <2> HIDE DEF part
  <2> QED
    BY <1>5, <2>1, <2>2
<1>8. ASSUME NEW port \in {"ctrl", "data"}, BeginPunch(port) PROVE HolepunchInv'
  <2> DEFINE part == [Idle EXCEPT !.at = "wait", !.for = "offer"]
  <2>1. part \in Main /\ part.at = "wait" /\ part.for = "offer" /\ part.next = "idle"
        /\ part.sleep = "no"
    BY <1>0 DEF Main, Idle, Places, Waits
  <2>2. Begin(port, part)
    BY <1>8 DEF BeginPunch
  <2> HIDE DEF part
  <2> QED
    BY <1>5, <2>1, <2>2
<1> QED
  BY <1>3, <1>4, <1>6, <1>7, <1>8

\* A signal only wakes a main thread that sleeps.
LEMMA SignalledOK ==
  ASSUME TypeOK, main' = Signalled
  PROVE  /\ main' \in Main /\ (main'.sleep # "no" => main.at = "wait")
         /\ main'.at = main.at /\ main'.next = main.next /\ main'.for = main.for
         /\ main'.step = main.step
  BY DEF Signalled, TypeOK, Main, At

\* Steps of the websocket thread that leave main and the queue alone.
LEMMA WsMovesOK ==
  ASSUME HolepunchInv, WsThread, ~Enqueue
  PROVE  HolepunchInv'
<1> USE DEF WsAt, WsGoto, WsDrop
<1>1. /\ UNCHANGED <<main, queue, state, flag, wsStop, pipe, canceler>> /\ UNCHANGED outcome
      /\ stop' \in {"free", "kept"}
  BY DEF WsThread, Connect, Open, LoopHead, LoopHeadUnlocked, Receive, Select, Note, After,
         Cleanup, WsElse, flags, HolepunchInv, TypeOK
<1>2. MainInv' /\ CancelInv'
  BY <1>1 DEF HolepunchInv, MainInv, CancelInv, At, outcome
<1>3. ws \in [at : WsPlaces, note : Kinds, stale : BOOLEAN]
  BY DEF HolepunchInv, TypeOK
<1>4. ASSUME ws' \in [at : WsPlaces, note : Kinds, stale : BOOLEAN], wsOpen' \in BOOLEAN,
             bits' \subseteq Bits, WsInv'
      PROVE  HolepunchInv'
  BY <1>1, <1>2, <1>4 DEF HolepunchInv, TypeOK, At, outcome
<1>5. ASSUME NEW l \in WsPlaces, WsGoto(l) \/ WsDrop(l)
      PROVE  ws' \in [at : WsPlaces, note : Kinds, stale : BOOLEAN] /\ ws'.at = l
  BY <1>3, <1>5 DEF WsIdle, Kinds
<1>6. CASE Connect
  <2>1. ws'.at \in {"opened", "cleanup"} /\ (ws'.at = "opened" => wsOpen' = TRUE)
        /\ (ws'.at = "cleanup" => wsOpen' = wsOpen) /\ bits' = bits
        /\ ws' \in [at : WsPlaces, note : Kinds, stale : BOOLEAN]
    BY <1>5, <1>6 DEF Connect, WsPlaces
  <2>2. WsInv'
    BY <1>1, <1>6, <2>1 DEF Connect, HolepunchInv, WsInv, MainInv, At, outcome
  <2> QED
    BY <1>4, <2>1, <2>2 DEF HolepunchInv, TypeOK
<1>7. CASE Open
  <2>1. ws'.at \in {"lock", "cleanup"} /\ wsOpen' = wsOpen /\ bits' = bits \cup {"wsOpen"}
        /\ ws' \in [at : WsPlaces, note : Kinds, stale : BOOLEAN] /\ bits' \subseteq Bits
    BY <1>5, <1>7 DEF Open, WsPlaces, Bits, HolepunchInv, TypeOK
  <2>2. WsInv'
    BY <1>1, <1>7, <2>1 DEF Open, HolepunchInv, WsInv, At, outcome
  <2> QED
    BY <1>4, <2>1, <2>2 DEF HolepunchInv, TypeOK
<1>8. CASE LoopHead \/ LoopHeadUnlocked \/ Receive \/ Select \/ Note \/ After
  <2>1. /\ ws.at \in {"lock", "continue", "receive", "select", "note", "after"}
        /\ ws'.at \in {"cleanup", "receive", "select", "lock", "continue", "note", "enqueue"}
        /\ ws'.at = "note" => Len(queue) < QueueMax
        /\ ws'.at = "enqueue" => ws.at = "note"
        /\ wsOpen' = wsOpen /\ bits' = bits
        /\ ws' \in [at : WsPlaces, note : Kinds, stale : BOOLEAN]
    <3>1. CASE LoopHead \/ LoopHeadUnlocked
      BY <1>5, <3>1 DEF LoopHead, LoopHeadUnlocked, WsPlaces
    <3>2. CASE Receive
      <4>1. /\ ws.at = "receive" /\ UNCHANGED <<bits, wsOpen>>
            /\ \/ \E l \in {"select", "lock", "continue", "cleanup"} : WsGoto(l)
               \/ /\ Len(queue) < QueueMax
                  /\ \E k \in Kinds : ws' = [at |-> "note", note |-> k, stale |-> FALSE]
        BY <3>2 DEF Receive
      <4>2. CASE \E l \in {"select", "lock", "continue", "cleanup"} : WsGoto(l)
        BY <1>5, <4>1, <4>2 DEF WsPlaces
      <4>3. CASE /\ Len(queue) < QueueMax
                 /\ \E k \in Kinds : ws' = [at |-> "note", note |-> k, stale |-> FALSE]
        BY <4>1, <4>3 DEF WsPlaces
      <4> QED
        BY <4>1, <4>2, <4>3
    <3>3. CASE Select
      BY <1>5, <3>3 DEF Select, WsPlaces
    <3>4. CASE Note
      BY <1>5, <3>4 DEF Note, WsPlaces
    <3>5. CASE After
      BY <1>5, <3>5 DEF After, WsPlaces
    <3> QED
      BY <1>8, <3>1, <3>2, <3>3, <3>4, <3>5
  <2>2. WsInv'
    BY <1>1, <2>1 DEF HolepunchInv, WsInv, At, outcome
  <2> QED
    BY <1>4, <2>1, <2>2 DEF HolepunchInv, TypeOK
<1>9. CASE Cleanup
  <2>1. ws'.at = "done" /\ wsOpen' = FALSE /\ bits' = bits
        /\ ws' \in [at : WsPlaces, note : Kinds, stale : BOOLEAN]
    BY <1>5, <1>9 DEF Cleanup, WsPlaces
  <2>2. WsInv'
    BY <1>1, <1>9, <2>1 DEF Cleanup, HolepunchInv, WsInv, At, outcome
  <2> QED
    BY <1>4, <2>1, <2>2 DEF HolepunchInv, TypeOK
<1> QED
  BY <1>6, <1>7, <1>8, <1>9 DEF WsThread

\* A notification is queued, and main woken.
LEMMA EnqueueOK ==
  ASSUME HolepunchInv, Enqueue
  PROVE  HolepunchInv'
<1>1. /\ main' \in Main /\ (main'.sleep # "no" => main.at = "wait")
      /\ main'.at = main.at /\ main'.next = main.next /\ main'.for = main.for
      /\ main'.step = main.step
  BY SignalledOK DEF Enqueue, HolepunchInv
<1>2. queue' \in Seq(Kinds) /\ Len(queue') <= QueueMax
  <2>1. /\ queue \in Seq(Kinds) /\ ws.note \in Kinds /\ Len(queue) < QueueMax
        /\ queue' = Append(queue, ws.note)
    BY DEF Enqueue, WsAt, HolepunchInv, TypeOK, WsInv
  <2> QED
    BY <2>1, QueueAssumption
<1>3. /\ ws' \in [at : WsPlaces, note : Kinds, stale : BOOLEAN]
      /\ ws.at = "enqueue" /\ ws'.at = "after"
      /\ UNCHANGED <<bits, stop, wsOpen, state, flag, wsStop, pipe, canceler>> /\ UNCHANGED outcome
  BY DEF Enqueue, WsAt, WsGoto, WsElse, flags, WsPlaces, HolepunchInv, TypeOK
<1>4. TypeOK'
  BY <1>1, <1>2, <1>3 DEF HolepunchInv, TypeOK, At, outcome
<1>5. MainInv' /\ CancelInv'
  BY <1>1, <1>3 DEF HolepunchInv, MainInv, CancelInv, At, outcome
<1>6. WsInv'
  BY <1>1, <1>3 DEF HolepunchInv, WsInv, At, outcome
<1> QED
  BY <1>4, <1>5, <1>6 DEF HolepunchInv

\* A cancel.
LEMMA CancelOK ==
  ASSUME HolepunchInv, CancelSignal \/ \E b \in BOOLEAN : Cancel(b)
  PROVE  HolepunchInv'
<1>1. CASE CancelSignal
  <2>1. /\ main' \in Main /\ (main'.sleep # "no" => main.at = "wait")
        /\ main'.at = main.at /\ main'.next = main.next /\ main'.for = main.for
        /\ main'.step = main.step
    BY <1>1, SignalledOK DEF CancelSignal, HolepunchInv
  <2>2. TypeOK'
    BY <1>1, <2>1 DEF CancelSignal, HolepunchInv, TypeOK, At, outcome, flags, Locks
  <2>3. MainInv' /\ WsInv' /\ CancelInv'
    BY <1>1, <2>1 DEF CancelSignal, HolepunchInv, MainInv, WsInv, CancelInv, At, outcome, flags
  <2> QED
    BY <2>2, <2>3 DEF HolepunchInv
<1>2. ASSUME NEW b \in BOOLEAN, Cancel(b) PROVE HolepunchInv'
  <2>1. TypeOK'
    BY <1>2 DEF Cancel, HolepunchInv, TypeOK, At, outcome, Locks
  <2>2. MainInv' /\ WsInv' /\ CancelInv'
    BY <1>2 DEF Cancel, HolepunchInv, MainInv, WsInv, CancelInv, At, outcome
  <2> QED
    BY <2>1, <2>2 DEF HolepunchInv
<1> QED
  BY <1>1, <1>2

LEMMA HolepunchInvIsInductive == HolepunchInv /\ [Next]_vars => HolepunchInv'
<1> SUFFICES ASSUME HolepunchInv, [Next]_vars PROVE HolepunchInv'
  OBVIOUS
<1>1. CASE Running
  BY <1>1, WaitOK, SpawnOK, CreateOK, StartOK, PunchOK, FiniOK DEF Running
<1>2. CASE WsThread
  BY <1>2, WsMovesOK, EnqueueOK
<1>3. CASE CancelSignal \/ \E b \in BOOLEAN : Cancel(b)
  BY <1>3, CancelOK
<1>4. CASE \/ BeginCreate \/ BeginStart \/ BeginFails \/ BeginFini
           \/ \E port \in {"ctrl", "data"} : BeginPunch(port)
  BY <1>4, BeginsOK
<1>5. CASE UNCHANGED vars
  BY <1>5 DEF vars, flags, outcome, HolepunchInv, TypeOK, MainInv, WsInv, CancelInv, At
<1> QED
  BY <1>1, <1>2, <1>3, <1>4, <1>5 DEF Next

LEMMA HolepunchInvHolds == Spec => []HolepunchInv
  BY HolepunchInitOK, HolepunchInvIsInductive, PTL DEF Spec

\* The threads and the session keep to their types, and the queue to its bound.
THEOREM HolepunchTypeOK == Spec => []TypeOK
<1>1. HolepunchInv => TypeOK
  BY DEF HolepunchInv
<1> QED
  BY <1>1, HolepunchInvHolds, PTL

\* fini frees the session only when the websocket thread has ended or was never
\* created.  It joins that thread only if it reads ws_open: a thread that has not
\* set it yet is one that main still waits for in session_create.
THEOREM HolepunchFreedAfterWs == Spec => []FreedAfterWs
<1>1. HolepunchInv => FreedAfterWs
  BY DEF HolepunchInv, WsInv, FreedAfterWs
<1> QED
  BY <1>1, HolepunchInvHolds, PTL

\* A cancel is taken note of once, by the step that ends with CANCELED.
LEMMA FlagIsHeard ==
  ASSUME HolepunchInv, Next, flag, ~flag'
  PROVE  main.step = "fini" \/ result' = "canceled"
<1>1. CASE StopCheck \/ WokenCheck \/ Ack
  <2>1. Return("canceled")
    BY <1>1 DEF StopCheck, WokenCheck, Ack
  <2> QED
    BY <2>1 DEF Return
<1>2. CASE Running /\ ~(StopCheck \/ WokenCheck \/ Ack)
  BY <1>2 DEF Running, Wait, TimedOut, Spawn, Opened, Post, GotCreated, Created, GotJoined,
     Joined, Message, Offer, Candidates, Answer, Accept, Establish, Respond, GotDeleted,
     Stop, Join, Free, Settled, flags
<1>3. CASE WsThread
  BY <1>3 DEF WsThread, Connect, Open, LoopHead, LoopHeadUnlocked, Receive, Select, Note,
     Enqueue, After, Cleanup, WsElse, flags
<1>4. CASE CancelSignal \/ \E b \in BOOLEAN : Cancel(b)
  BY <1>4 DEF CancelSignal, Cancel, flags
<1>5. CASE \/ BeginCreate \/ BeginStart \/ BeginFails \/ BeginFini
           \/ \E port \in {"ctrl", "data"} : BeginPunch(port)
  BY <1>5 DEF BeginCreate, BeginStart, BeginFails, BeginFini, BeginPunch, Settled, flags
<1> QED
  BY <1>1, <1>2, <1>3, <1>4, <1>5 DEF Next

\* A step that began after a cancel does not get past its first check.
LEMMA BegunFails ==
  ASSUME HolepunchInv, Next, begun
  PROVE  done' = done
<1>1. flag /\ main.step # "fini" /\ (main.at = "check" \/ main.at = "wait")
  BY DEF HolepunchInv, CancelInv, At
<1>2. CASE StopCheck \/ WokenCheck \/ TimedOut
  <2>1. Return("canceled") \/ Return("error")
    BY <1>1, <1>2 DEF StopCheck, WokenCheck, TimedOut
  <2> QED
    BY <1>1, <2>1 DEF Return
<1>3. CASE Wait
  BY <1>3 DEF Wait, outcome
<1>4. CASE Running /\ ~(StopCheck \/ WokenCheck \/ TimedOut \/ Wait)
  BY <1>1, <1>4 DEF Running, Spawn, Opened, Post, GotCreated, Created, GotJoined,
     Joined, Message, Offer, Ack, Candidates, Answer, Accept, Establish, Respond, GotDeleted,
     Stop, Join, Free, At
<1>5. CASE WsThread
  BY <1>5 DEF WsThread, Connect, Open, LoopHead, LoopHeadUnlocked, Receive, Select, Note,
     Enqueue, After, Cleanup, WsElse, outcome
<1>6. CASE CancelSignal \/ \E b \in BOOLEAN : Cancel(b)
  BY <1>6 DEF CancelSignal, Cancel, outcome
<1>7. CASE \/ BeginCreate \/ BeginStart \/ BeginFails \/ BeginFini
           \/ \E port \in {"ctrl", "data"} : BeginPunch(port)
  BY <1>1, <1>7 DEF BeginCreate, BeginStart, BeginFails, BeginFini, BeginPunch, Begin, At
<1> QED
  BY <1>2, <1>3, <1>4, <1>5, <1>6, <1>7 DEF Next

\* A cancel is taken note of by the step that returns CANCELED for it or by fini,
\* and a step that begins after a cancel does not succeed.
THEOREM HolepunchCancelHeard == Spec => CancelHeard
<1> DEFINE Heard == /\ flag /\ ~flag' => main.step = "fini" \/ result' = "canceled"
                    /\ done' > done => ~begun
<1>1. HolepunchInv /\ [Next]_vars => [Heard]_vars
  <2> SUFFICES ASSUME HolepunchInv, Next PROVE Heard
    OBVIOUS
  <2>1. done \in Nat
    BY DEF HolepunchInv, TypeOK, StepAt
  <2> QED
    BY <2>1, FlagIsHeard, BegunFails
<1> QED
  BY <1>1, HolepunchInvHolds, PTL DEF Spec, CancelHeard
=============================================================================
