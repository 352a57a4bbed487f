----------------------------- MODULE Holepunch -----------------------------
(***************************************************************************)
(* chiaki/src/remote/holepunch.c: setting up a connection over PSN.  The   *)
(* main thread runs the steps of remote/holepunch.h one after another      *)
(* (create, start, punch_hole for the control and the data port, fini); a  *)
(* thread of the session reads the websocket and queues notifications; any *)
(* other thread may cancel.                                                *)
(*                                                                         *)
(* Three mutexes: state_mutex and stop_mutex are kept across calls on some *)
(* paths, so they are variables.  notif_mutex is held across steps only by *)
(* a waiting main thread that was woken; any other section under a mutex   *)
(* is one step.  Unlocking a mutex another thread holds releases it, as    *)
(* the default mutexes of the platforms do, and unlocking a free one has   *)
(* no effect.  HTTP requests, parsing, sockets and candidates are outcomes.*)
(* create_offer, which keeps sockets and addresses, is left out.           *)
(***************************************************************************)
EXTENDS Integers, Sequences, FiniteSets

CONSTANTS QueueMax   \* bound: notifications that wait in the queue

ASSUME QueueAssumption == QueueMax \in Nat \ {0}

VARIABLES main,     \* main thread: [step, at, next, for, scanned, sleep, found]
          ws,       \* websocket_thread_func: [at, note, stale]
          queue,    \* ws_notification_queue
          bits,     \* state
          state,    \* state_mutex: "free", held by "main", or "kept" after a return
          stop,     \* stop_mutex: "free", or "kept" after wait_for_session_message_ack
          flag, wsStop, pipe, \* main_should_stop, ws_thread_should_stop, select_pipe
          wsOpen,   \* ws_open
          canceler, \* chiaki_holepunch_main_thread_cancel: "idle" or "signal"
          result, done, \* of the last step, and how many succeeded
          begun,    \* ghost: main_should_stop when the step began
          freed     \* fini has freed what the session holds

flags == <<flag, wsStop, pipe>>
outcome == <<result, done, begun, freed>>
vars == <<main, ws, queue, bits, state, stop, flags, wsOpen, canceler, outcome>>

Messages == {"offer", "result", "otherResult", "accept", "terminate"}
Kinds == Messages \cup {"created", "member", "data1", "deleted"}
StepAt == <<"create", "start", "ctrl", "data">>

\* what the wait main is in, or was in last, looks for
Wanted == [created |-> {"created", "member"}, joined |-> {"member", "data1"},
           offer |-> Messages, ack |-> Messages, accept |-> Messages,
           deleted |-> {"deleted"}]
Action == [offer |-> {"offer"}, ack |-> {"result", "otherResult"}, accept |-> {"accept"}]

Idle == [step |-> "none", at |-> "idle", next |-> "idle", for |-> "created",
         scanned |-> 0, sleep |-> "no", found |-> 0]

WsIdle == [at |-> "none", note |-> "created", stale |-> FALSE]

\* chiaki_holepunch_session_init
Init == /\ main = Idle
        /\ ws = WsIdle
        /\ queue = <<>> /\ bits = {} /\ state = "free" /\ stop = "free"
        /\ flag = FALSE /\ wsStop = FALSE /\ pipe = FALSE /\ wsOpen = FALSE
        /\ canceler = "idle" /\ result = "ok" /\ done = 0 /\ begun = FALSE
        /\ freed = FALSE
-----------------------------------------------------------------------------
(* Moves of the main thread                                                *)

At(l) == main.at = l
Goto(l) == main' = [main EXCEPT !.at = l, !.next = "idle"] /\ UNCHANGED outcome
\* go through a check of main_should_stop first
CheckThen(l) == main' = [main EXCEPT !.at = "check", !.next = l] /\ UNCHANGED outcome
CheckThenWait(f) ==
  /\ main' = [main EXCEPT !.at = "check", !.next = "wait", !.for = f,
                          !.scanned = 0, !.found = 0]
  /\ UNCHANGED outcome
WaitFor(f) == /\ main' = [main EXCEPT !.at = "wait", !.for = f, !.scanned = 0,
                                      !.sleep = "no", !.found = 0]
              /\ UNCHANGED outcome

\* the step returns; a wait of fini only ends
Return(r) ==
  IF main.step = "fini"
  THEN main' = [main EXCEPT !.at = "stop", !.sleep = "no"] /\ UNCHANGED outcome
  ELSE /\ main' = Idle /\ result' = r
       /\ done' = IF r = "ok" THEN done + 1 ELSE done
       /\ begun' = FALSE /\ UNCHANGED freed

\* clear_notification: this one goes, and every one before it
Cleared == SubSeq(queue, main.found + 1, Len(queue))
Clear == /\ queue' = Cleared
         /\ ws' = [ws EXCEPT !.stale = @ \/ (ws.at = "after" /\ Cleared = <<>>)]
Found == queue[main.found]

Elsewhere == UNCHANGED <<ws, queue, wsOpen, canceler>>
Locks == UNCHANGED <<state, stop>>
Settled == UNCHANGED <<bits, state, stop, flags>> /\ Elsewhere

\* a mutex main holds when the step returns
Keeps(mutex) == IF mutex = "main" THEN "kept" ELSE mutex

\* Mutant of StopCheck: the flag is cleared and the step goes on
StopCheckGoesOn == /\ At("check") /\ stop = "free"
                   /\ Goto(main.next) /\ flag' = FALSE
                   /\ UNCHANGED <<bits, state, stop, wsStop, pipe>> /\ Elsewhere

\* The checks of main_should_stop between the parts of a step: a cancel is taken
\* note of once, and the step ends.
StopCheck ==
  /\ At("check") /\ stop = "free"
  /\ IF flag THEN /\ Return("canceled") /\ flag' = FALSE /\ state' = Keeps(state)
             ELSE /\ Goto(main.next) /\ UNCHANGED <<flag, state>>
  /\ UNCHANGED <<bits, stop, wsStop, pipe>> /\ Elsewhere

Begin(s, part) ==
  /\ At("idle") /\ result = "ok" /\ done < Len(StepAt) /\ StepAt[done + 1] = s
  /\ main' = [part EXCEPT !.step = s]
  /\ begun' = flag /\ UNCHANGED <<result, done, freed>>

\* a step fails before it gets anywhere
BeginFails == /\ At("idle") /\ result = "ok" /\ done < Len(StepAt)
              /\ result' = "error" /\ UNCHANGED <<main, done, begun, freed>>
              /\ Settled
-----------------------------------------------------------------------------
(* wait_for_notification                                                   *)

Seen == main.scanned + 1 .. Len(queue)
Hits == {i \in Seen : queue[i] \in Wanted[main.for]}

\* the queue is searched; if there is nothing, main sleeps and the mutex is free
Wait ==
  /\ At("wait") /\ main.sleep = "no"
  /\ \/ \E i \in Hits :
          /\ \A j \in Hits : i <= j
          /\ main' = [main EXCEPT !.at = IF main.for \in DOMAIN Action THEN "check" ELSE "got",
                                 !.next = "message", !.scanned = 0, !.found = i]
     \/ /\ Hits = {}
        /\ main' = [main EXCEPT !.scanned = Len(queue), !.sleep = "asleep"]
  /\ UNCHANGED outcome /\ Settled

\* woken, with notif_mutex: a cancel is looked for
WokenCheck ==
  /\ At("wait") /\ main.sleep = "woken" /\ stop = "free"
  /\ IF flag THEN /\ Return("canceled") /\ flag' = FALSE
             ELSE /\ main' = [main EXCEPT !.sleep = IF Seen = {} THEN "asleep" ELSE "no"]
                  /\ UNCHANGED <<outcome, flag>>
  /\ UNCHANGED <<bits, wsStop, pipe>> /\ Locks /\ Elsewhere

\* Mutant of TimedOut: the wait has no timeout
TimedOutNever == At("timeout") /\ Return("error") /\ Settled

TimedOut == At("wait") /\ main.sleep = "asleep" /\ Return("error") /\ Settled

\* Mutant of Signalled: a signal is kept for a thread that does not wait
SignalledEvent == [main EXCEPT !.sleep = "woken"]

\* chiaki_cond_signal(&notif_cond)
Signalled == IF main.sleep = "asleep" THEN [main EXCEPT !.sleep = "woken"] ELSE main
-----------------------------------------------------------------------------
(* chiaki_holepunch_session_create                                         *)

BeginCreate == Begin("create", [Idle EXCEPT !.at = "check", !.next = "spawn"]) /\ Settled

\* the websocket thread is created
Spawn == /\ At("spawn")
         /\ \/ Goto("opening") /\ ws' = [ws EXCEPT !.at = "connect"]
            \/ Return("error") /\ UNCHANGED ws
         /\ UNCHANGED <<queue, bits, flags, wsOpen, canceler>> /\ Locks

\* waits for the websocket, without a timeout and whatever main_should_stop says
Opened == At("opening") /\ "wsOpen" \in bits /\ state = "free" /\ CheckThen("post") /\ Settled

Post == At("post") /\ (Return("error") \/ CheckThenWait("created")) /\ Settled

\* SESSION_CREATED or MEMBER_CREATED; a notification that is not as it should be
\* ends the step with state_mutex locked
GotCreated ==
  /\ At("got") /\ main.for = "created" /\ state = "free"
  /\ bits' = bits \cup {IF Found = "created" THEN "created" ELSE "clientJoined"}
  /\ \/ Found = "created" /\ Return("error") /\ state' = "kept"
     \/ CheckThen("created") /\ state' = "main"
  /\ UNCHANGED <<stop, flags>> /\ Elsewhere

Created == /\ At("created") /\ state' = "free" /\ Clear
           /\ IF {"created", "clientJoined"} \subseteq bits THEN Return("ok")
                                                           ELSE WaitFor("created")
           /\ UNCHANGED <<bits, stop, flags, wsOpen, canceler>>
-----------------------------------------------------------------------------
(* chiaki_holepunch_session_start                                          *)

BeginStart == /\ state = "free" /\ "created" \in bits
              /\ Begin("start", [Idle EXCEPT !.at = "check", !.next = "wait", !.for = "joined"])
              /\ Settled

\* MEMBER_CREATED of the console or CUSTOM_DATA1_UPDATED; an unfit one ends the
\* step, and here the mutex is unlocked.  For a member that is not the console
\* the error is set in a variable of the inner block: the step succeeds.
GotJoined ==
  /\ At("got") /\ main.for = "joined" /\ state = "free"
  /\ \/ /\ Return("error") \/ (Found = "member" /\ Return("ok"))
        /\ UNCHANGED <<bits, state, ws, queue>>
     \/ /\ bits' = bits \cup {IF Found = "member" THEN "consoleJoined" ELSE "data1"}
        /\ Clear /\ CheckThen("joined") /\ state' = "main"
  /\ UNCHANGED <<stop, flags, wsOpen, canceler>>

Joined == /\ At("joined") /\ state' = "free"
          /\ IF {"consoleJoined", "data1"} \subseteq bits THEN Return("ok")
                                                          ELSE WaitFor("joined")
          /\ UNCHANGED <<bits, stop, flags>> /\ Elsewhere
-----------------------------------------------------------------------------
(* chiaki_holepunch_session_punch_hole, for the port main.step             *)

Bit(ofCtrl, ofData) == IF main.step = "ctrl" THEN ofCtrl ELSE ofData

BeginPunch(port) ==
  /\ state = "free" /\ (IF port = "ctrl" THEN "data1" ELSE "ctrlEstablished") \in bits
  /\ Begin(port, [Idle EXCEPT !.at = "wait", !.for = "offer"]) /\ Settled

\* wait_for_session_message has a notification, and has checked for a cancel.
\* One that is wanted stays in the queue.
Message ==
  /\ At("message")
  /\ \/ Return("error") /\ UNCHANGED <<queue, ws>>
     \/ Found = "terminate" /\ Return("canceled") /\ UNCHANGED <<queue, ws>>
     \/ /\ Found \notin Action[main.for] \cup {"terminate"}
        /\ Clear /\ WaitFor(main.for)
     \/ /\ Found \in Action[main.for] /\ Goto(main.for) /\ UNCHANGED <<queue, ws>>
  /\ UNCHANGED <<bits, flags, wsOpen, canceler>> /\ Locks

\* the console's OFFER: acknowledged, and our own one sent
Offer == /\ At("offer") /\ state = "free"
         /\ bits' = bits \cup {Bit("ctrlOfferReceived", "dataOfferReceived")}
         /\ Return("error") \/ CheckThenWait("ack")
         /\ UNCHANGED flags /\ Locks /\ Elsewhere

\* wait_for_session_message_ack has found an answer and returns with stop_mutex;
\* the answer to another request is not cleared and found again
Ack == /\ At("ack") /\ stop = "free"
       /\ IF flag THEN Return("canceled") /\ flag' = FALSE /\ UNCHANGED stop
          ELSE /\ stop' = "kept" /\ UNCHANGED flag
               /\ IF Found = "result" THEN Goto("candidates") ELSE WaitFor("ack")
       /\ UNCHANGED <<bits, state, wsStop, pipe>> /\ Elsewhere

\* check_candidates, send_accept
Candidates == At("candidates") /\ (Return("error") \/ CheckThen("answer")) /\ Settled
Answer == At("answer") /\ (Return("error") \/ CheckThenWait("accept")) /\ Settled

\* the console's ACCEPT is acknowledged
Accept == At("accept") /\ (Return("error") \/ CheckThen("establish")) /\ Settled

Establish == /\ At("establish") /\ state = "free"
             /\ bits' = bits \cup {Bit("ctrlEstablished", "dataEstablished")}
             /\ CheckThen("respond")
             /\ UNCHANGED flags /\ Locks /\ Elsewhere

\* receive_request_send_response_ps
Respond == At("respond") /\ (Return("error") \/ Return("ok")) /\ Settled
-----------------------------------------------------------------------------
(* chiaki_holepunch_session_fini, once the steps are over, well or not.    *)
(* Nothing may be left that cancels.                                       *)

BeginFini == /\ At("idle") /\ canceler = "idle"
             /\ main' = [Idle EXCEPT !.step = "fini", !.for = "deleted",
                                     !.at = IF wsOpen THEN "wait" ELSE "free"]
             /\ result' = "ok" /\ done' = Len(StepAt)   \* no step can follow
             /\ UNCHANGED <<begun, freed>> /\ Settled

GotDeleted == /\ At("got") /\ main.for = "deleted" /\ state = "free"
              /\ bits' = bits \cup {"deleted"}
              /\ Clear /\ Goto("stop")
              /\ UNCHANGED <<flags, wsOpen, canceler>> /\ Locks

Stop == /\ At("stop") /\ stop = "free"
        /\ wsStop' = TRUE /\ pipe' = TRUE
        /\ Goto("join")
        /\ UNCHANGED <<bits, flag>> /\ Locks /\ Elsewhere

Join == At("join") /\ ws.at = "done" /\ Goto("free") /\ Settled

Free == /\ At("free") /\ freed' = TRUE
        /\ main' = [Idle EXCEPT !.at = "over"]
        /\ UNCHANGED <<result, done, begun>> /\ Settled
-----------------------------------------------------------------------------
(* websocket_thread_func                                                   *)

WsAt(l) == ws.at = l
WsGoto(l) == ws' = [ws EXCEPT !.at = l]
WsDrop(l) == ws' = [WsIdle EXCEPT !.at = l]
WsElse == UNCHANGED <<state, flags, canceler, outcome>>

\* Mutant of Connect: ws_open is set after main was told
ConnectLate == /\ WsAt("connect") /\ (WsGoto("opened") \/ WsGoto("cleanup"))
               /\ UNCHANGED <<main, queue, bits, stop, wsOpen>> /\ WsElse

\* the websocket opens, or the thread ends without a word to main
Connect == /\ WsAt("connect")
           /\ \/ WsGoto("opened") /\ wsOpen' = TRUE
              \/ WsGoto("cleanup") /\ UNCHANGED wsOpen
           /\ UNCHANGED <<main, queue, bits, stop>> /\ WsElse

Open == /\ WsAt("opened") /\ state = "free"
        /\ bits' = bits \cup {"wsOpen"}
        /\ WsGoto("lock") \/ WsGoto("cleanup")
        /\ UNCHANGED <<main, queue, stop, wsOpen>> /\ WsElse

\* head of the loop: with stop_mutex, ws_thread_should_stop is read
LoopHead == /\ WsAt("lock") /\ stop = "free"
        /\ WsGoto(IF wsStop THEN "cleanup" ELSE "receive")
        /\ UNCHANGED <<main, queue, bits, stop, wsOpen>> /\ WsElse

\* head of the loop after a `continue': read without it, and unlocked all the
\* same, whoever holds it
LoopHeadUnlocked == /\ WsAt("continue")
                /\ WsGoto(IF wsStop THEN "cleanup" ELSE "receive")
                /\ stop' = "free"
                /\ UNCHANGED <<main, queue, bits, wsOpen>> /\ WsElse

\* curl_ws_recv: nothing yet, a PING or PONG, a text that cannot be parsed, the
\* end of the connection (which also unlocks stop_mutex), or a notification
Receive == /\ WsAt("receive")
           /\ \/ \E l \in {"select", "lock", "continue"} : WsGoto(l) /\ UNCHANGED stop
              \/ WsGoto("cleanup") /\ stop' = "free"
              \/ /\ Len(queue) < QueueMax
                 /\ \E k \in Kinds : ws' = [at |-> "note", note |-> k, stale |-> FALSE]
                 /\ UNCHANGED stop
           /\ UNCHANGED <<main, queue, bits, wsOpen>> /\ WsElse

Notified == WsAt("receive") /\ ws'.at = "note"

\* chiaki_stop_pipe_select_single, which a stop ends
Select == /\ WsAt("select")
          /\ IF pipe THEN WsGoto("cleanup") /\ stop' = "free"
                     ELSE WsGoto("continue") /\ UNCHANGED stop
          /\ UNCHANGED <<main, queue, bits, wsOpen>> /\ WsElse

\* OFFERs nobody waits for are acknowledged here
ShouldAckOffers == \/ "ctrlOfferReceived" \in bits /\ "ctrlEstablished" \notin bits
                   \/ "dataOfferReceived" \in bits

\* a notification, dropped if it cannot be parsed when it has to be
Note == /\ WsAt("note") /\ state = "free"
        /\ \/ WsGoto("enqueue")
           \/ ShouldAckOffers /\ ws.note \in Messages /\ WsDrop("continue")
        /\ UNCHANGED <<main, queue, bits, stop, wsOpen>> /\ WsElse

Enqueue == /\ WsAt("enqueue") /\ main.sleep # "woken"
           /\ queue' = Append(queue, ws.note)
           /\ main' = Signalled
           /\ WsGoto("after")
           /\ UNCHANGED <<bits, stop, wsOpen>> /\ WsElse

\* SESSION_DELETED ends the thread ("deleted" is also MEMBER_DELETED).  The type
\* is read again although main may have freed the notification: then it may be
\* any.
After == /\ WsAt("after")
         /\ \/ /\ ws.stale \/ ws.note = "deleted"
               /\ WsDrop("cleanup") /\ stop' = "free"
            \/ WsDrop("lock") /\ UNCHANGED stop
         /\ UNCHANGED <<main, queue, bits, wsOpen>> /\ WsElse

Cleanup == /\ WsAt("cleanup") /\ wsOpen' = FALSE /\ WsGoto("done")
           /\ UNCHANGED <<main, queue, bits, stop>> /\ WsElse

WsThread == \/ Connect \/ Open \/ LoopHead \/ LoopHeadUnlocked \/ Receive \/ Select
            \/ Note \/ Enqueue \/ After \/ Cleanup
-----------------------------------------------------------------------------
(* chiaki_holepunch_main_thread_cancel, by a thread that knows that the    *)
(* session is not being freed                                              *)

Cancel(stopThread) ==
  /\ canceler = "idle" /\ main.step # "fini" /\ ~freed /\ stop = "free"
  /\ flag' = TRUE /\ wsStop' = (wsStop \/ stopThread) /\ pipe' = (pipe \/ stopThread)
  /\ canceler' = "signal"
  /\ UNCHANGED <<main, ws, queue, bits, wsOpen, outcome>> /\ Locks

\* without notif_mutex: a main thread that is about to sleep does not notice
CancelSignal == /\ canceler = "signal" /\ canceler' = "idle"
                /\ main' = Signalled
                /\ UNCHANGED <<ws, queue, bits, flags, wsOpen, outcome>> /\ Locks

Running == \/ StopCheck \/ Wait \/ WokenCheck \/ TimedOut
           \/ Spawn \/ Opened \/ Post \/ GotCreated \/ Created
           \/ GotJoined \/ Joined
           \/ Message \/ Offer \/ Ack \/ Candidates \/ Answer \/ Accept
           \/ Establish \/ Respond
           \/ GotDeleted \/ Stop \/ Join \/ Free

Next == \/ BeginCreate \/ BeginStart \/ BeginFails \/ BeginFini
        \/ \E port \in {"ctrl", "data"} : BeginPunch(port)
        \/ Running \/ WsThread
        \/ \E b \in BOOLEAN : Cancel(b)
        \/ CancelSignal

Spec == Init /\ [][Next]_vars

\* The threads run, a wait times out, and PSN does not send for ever.  Nothing
\* makes the websocket connect, or fail to: the timeout of that request is set to
\* none.  Nothing makes the caller begin a step or cancel one.
FairSpec == Spec /\ WF_vars(Running) /\ WF_vars(WsThread /\ ~WsAt("connect"))
                 /\ WF_vars(CancelSignal)
                 /\ <>[][~Notified]_vars
-----------------------------------------------------------------------------
Steps == {"none", "create", "start", "ctrl", "data", "fini"}
Places == {"idle", "check", "wait", "got", "spawn", "opening", "post", "created", "joined",
           "message", "offer", "ack", "candidates", "answer", "accept", "establish",
           "respond", "stop", "join", "free", "over"}
Waits == {"created", "joined", "offer", "ack", "accept", "deleted"}
WsPlaces == {"none", "connect", "opened", "lock", "continue", "receive", "select",
             "note", "enqueue", "after", "cleanup", "done"}
Bits == {"wsOpen", "created", "clientJoined", "consoleJoined", "data1", "ctrlOfferReceived",
         "ctrlEstablished", "dataOfferReceived", "dataEstablished", "deleted"}

Main == [step : Steps, at : Places, next : Places, for : Waits,
         scanned : 0 .. QueueMax, sleep : {"no", "asleep", "woken"}, found : 0 .. QueueMax]

TypeOK ==
  /\ main \in Main
  /\ main.sleep # "no" => At("wait")
  /\ ws \in [at : WsPlaces, note : Kinds, stale : BOOLEAN]
  /\ queue \in Seq(Kinds) /\ Len(queue) <= QueueMax
  /\ bits \subseteq Bits
  /\ state \in {"free", "main", "kept"} /\ stop \in {"free", "kept"}
  /\ flag \in BOOLEAN /\ wsStop \in BOOLEAN /\ pipe \in BOOLEAN
  /\ wsOpen \in BOOLEAN /\ begun \in BOOLEAN /\ freed \in BOOLEAN
  /\ canceler \in {"idle", "signal"}
  /\ result \in {"ok", "error", "canceled"} /\ done \in 0 .. Len(StepAt)

\* What fini frees, and the condition variables it destroys, the websocket
\* thread no longer uses, although fini joins it only if it reads ws_open, which
\* that thread writes without a lock.
FreedAfterWs == freed => ws.at \in {"none", "done"}

\* A cancel is taken note of by the step that returns CANCELED for it or by
\* fini, and a step that begins after a cancel does not succeed.
CancelHeard ==
  [][/\ flag /\ ~flag' => main.step = "fini" \/ result' = "canceled"
     /\ done' > done => ~begun]_vars

\* A start that returns success has seen the requested console join and has its
\* customData1.
StartComplete ==
  [][main.step = "start" /\ done' > done => {"consoleJoined", "data1"} \subseteq bits]_vars

\* The ways a step never returns.  The websocket does not open, or its server
\* never answers (holepunch.c:2011), while main waits without a timeout:
NeverOpens == At("opening") /\ ws.at \in {"connect", "done"} /\ "wsOpen" \notin bits
\* main has kept stop_mutex, and the websocket thread does not unlock it:
NeedsStop == At("check") \/ At("ack") \/ At("stop") \/ main.sleep = "woken"
KeptStop == /\ stop = "kept" /\ NeedsStop
            /\ \/ ws.at \in {"lock", "done"}
               \/ ws.at = "enqueue" /\ main.sleep = "woken"
\* main has kept state_mutex, or the thread it joins waits for it:
KeptState == state = "kept" /\ (At("got") \/ (At("join") /\ ws.at \in {"opened", "note"}))
\* the answer to another request is found over and over:
OtherAnswer == At("ack") /\ Found = "otherResult"
Hangs == NeverOpens \/ KeptStop \/ KeptState \/ OtherAnswer

\* A step that was begun returns, whatever PSN, the console, the network and
\* cancelling threads do, unless it hangs in one of these ways.  The websocket that
\* is connecting for now excuses no step for good: the leads-to starts anew in the
\* states after it.
StepReturns == main.step # "none" ~> main.step = "none" \/ Hangs
=============================================================================
