------------------------------ MODULE Session ------------------------------
(***************************************************************************)
(* chiaki/src/session.c with chiaki/src/ctrl.c: the session thread asks    *)
(* the console for a session, starts the ctrl thread, forwards login PINs, *)
(* waits for the session id, runs the stream and quits; the ctrl thread    *)
(* talks to the console over TCP.  The application stops the session,      *)
(* enters PINs and queues messages from threads of its own.                *)
(*                                                                         *)
(* session.state_mutex is free unless the session thread rests holding it  *)
(* (SessionHolds); a timed wait releases it.  ctrl.notif_mutex is free     *)
(* unless the ctrl thread rests holding it (CtrlHolds).  Shorter critical  *)
(* sections are single steps.  ctrl's pipe holds a byte or none: it wins   *)
(* over the socket in every select, and stays readable until drained.      *)
(* The run without PSN is modelled (session.rudp is NULL).  The stream run *)
(* is one step here and module StreamConnection in full; senkusha is one   *)
(* step with the mutex held; each may hang in the end of its Takion.  The  *)
(* console and the wire are external.                                      *)
(***************************************************************************)
EXTENDS Integers, Sequences

CONSTANTS PinsMax, MessagesMax, ConsoleMax   \* bounds: PINs, queued messages, console messages

ASSUME SessionAssumption == {PinsMax, MessagesMax, ConsoleMax} \subseteq Nat

VARIABLES sat,      \* where session_thread_func is
          session,  \* the fields under state_mutex
          prompt,   \* the last CHIAKI_EVENT_LOGIN_PIN_REQUEST: "none", "first", "incorrect"
          cat,      \* where ctrl_thread_func is
          ctrl,     \* the fields under notif_mutex, and recv_buf as a sequence
          pipe,     \* notif_pipe is readable
          signal,   \* the application is between ctrl.c:231 and 232
          wire,     \* external: what the console sent and ctrl has not read
          sent,     \* what ctrl handed to send: [pins, messages]
          made      \* counters of PINs, queued messages, console messages

threads == <<sat, session, prompt, cat>>
app == <<signal, made>>
vars == <<threads, ctrl, pipe, app, wire, sent>>

Kinds == {"session_id", "bad_session_id", "pin_req", "pin_incorrect", "pin_success", "too_large"}

SessionHolds == sat \in {"give_pin", "senkusha", "senkusha_lost"}
Failing == {"refuse", "connect_refused", "connect_failed", "failed"}   \* in ctrl_failed
CtrlHolds == cat \in {"header", "handle", "set_id", "set_fallback"} \union Failing

Init == /\ sat = "new" /\ prompt = "none"
        /\ session = [shouldStop |-> FALSE, ctrlFailed |-> FALSE, id |-> "none",
                      pinRequested |-> FALSE, pin |-> 0, reason |-> "none"]
        /\ cat = "none"
        /\ ctrl = [shouldStop |-> FALSE, pinRequested |-> FALSE, pin |-> 0,
                   queue |-> << >>, inbox |-> << >>, open |-> FALSE]
        /\ pipe = FALSE /\ signal = FALSE
        /\ wire = << >>
        /\ sent = [pins |-> << >>, messages |-> << >>]
        /\ made = [pins |-> 0, messages |-> 0, console |-> 0]

-----------------------------------------------------------------------------
(* The session thread. *)

Elsewhere == UNCHANGED <<cat, ctrl, pipe, app, wire, sent>>

\* Mutant: label and reason swapped.
QuitToSwapped(label, reason) == /\ sat' = reason
                                /\ session' = [session EXCEPT !.reason = label]
                                /\ UNCHANGED prompt
\* QUIT: on to the label with this quit_reason.
QuitTo(label, reason) == /\ sat' = label
                         /\ session' = [session EXCEPT !.reason = reason]
                         /\ UNCHANGED prompt

\* quit_reason at the label ctrl_failed.
CtrlFailed == IF session.reason = "none" THEN "ctrl" ELSE session.reason

Start == /\ sat = "new"
         /\ \/ session.shouldStop /\ QuitTo("quit", "stopped")
            \/ ~session.shouldStop /\ QuitTo("requesting", session.reason)
         /\ Elsewhere

\* Once the stop pipe is written the request's connect and receive may be canceled.
RequestFails == /\ sat = "requesting"
                /\ \/ QuitTo("quit", "request")
                   \/ session.shouldStop /\ QuitTo("quit", "stopped")
                /\ Elsewhere

\* An address that refused before the next one answered leaves its reason behind.
RequestDone == /\ sat = "requesting"
               /\ \E r \in {session.reason, "request"} :
                    \/ QuitTo("wait_ctrl", r) /\ cat' = "connect"
                    \/ QuitTo("quit", r) /\ UNCHANGED cat      \* chiaki_ctrl_start failed
               /\ UNCHANGED <<ctrl, pipe, app, wire, sent>>

\* The head of the PIN loop and what follows the loop, with the mutex held.
PinLoop ==
  \/ /\ session.pinRequested
     /\ session' = [session EXCEPT !.pinRequested = FALSE]
     /\ prompt' = IF prompt = "none" THEN "first" ELSE "incorrect"
     /\ sat' = "wait_pin"
  \/ /\ ~session.pinRequested
     /\ sat' = IF session.id = "none" THEN "no_id" ELSE "senkusha"
     /\ UNCHANGED <<session, prompt>>

\* The wait for ctrl's first word, which may also time out.
WaitCtrl ==
  /\ sat = "wait_ctrl"
  /\ \/ session.shouldStop /\ QuitTo("quit_ctrl", "stopped")
     \/ ~session.shouldStop /\ session.ctrlFailed /\ QuitTo("quit_ctrl", CtrlFailed)
     \/ ~session.shouldStop /\ ~session.ctrlFailed /\ PinLoop
  /\ Elsewhere

\* Mutant: session_check_state_pred_pin without should_stop.
WaitPinUnstoppable ==
  /\ sat = "wait_pin"
  /\ \/ session.ctrlFailed /\ QuitTo("quit_ctrl", CtrlFailed)
     \/ ~session.ctrlFailed /\ session.pin # 0 /\ QuitTo("give_pin", session.reason)
  /\ Elsewhere

\* The wait for a PIN has no timeout.
WaitPin ==
  /\ sat = "wait_pin"
  /\ \/ session.shouldStop /\ QuitTo("quit_ctrl", "stopped")
     \/ ~session.shouldStop /\ session.ctrlFailed /\ QuitTo("quit_ctrl", CtrlFailed)
     \/ /\ ~session.shouldStop /\ ~session.ctrlFailed /\ session.pin # 0
        /\ QuitTo("give_pin", session.reason)
  /\ Elsewhere

\* Mutant: the PIN stays entered after it was forwarded.
ForgetPinNot == session
ForgetPin == [session EXCEPT !.pin = 0]

\* Mutant: the PIN is left for ctrl without a byte in its pipe.
GivePinSilent == /\ sat = "give_pin" /\ ~CtrlHolds
                 /\ ctrl' = [ctrl EXCEPT !.pin = session.pin]
                 /\ session' = ForgetPin /\ sat' = "wait_id"
                 /\ UNCHANGED <<prompt, cat, pipe, app, wire, sent>>

\* chiaki_ctrl_set_login_pin with state_mutex still held, then login_pin is cleared.
GivePin == /\ sat = "give_pin" /\ ~CtrlHolds
           /\ ctrl' = [ctrl EXCEPT !.pin = session.pin]
           /\ pipe' = TRUE
           /\ session' = ForgetPin
           /\ sat' = "wait_id"
           /\ UNCHANGED <<prompt, cat, app, wire, sent>>

\* The wait for the session id or another request: ctrl_failed is not looked at.
WaitId == /\ sat = "wait_id"
          /\ \/ session.shouldStop /\ QuitTo("quit_ctrl", "stopped")
             \/ ~session.shouldStop /\ PinLoop
          /\ Elsewhere

\* Mutant: the fallback id is set without looking again.
FallbackIdAlways == "fallback"
\* The id ctrl_message_set_fallback_session_id leaves, under state_mutex.
FallbackId == IF session.id = "none" THEN "fallback" ELSE session.id

Fallback == /\ sat = "no_id"
            /\ session' = [session EXCEPT !.id = FallbackId]
            /\ sat' = "senkusha" /\ UNCHANGED prompt
            /\ Elsewhere
FallbackFails == sat = "no_id" /\ QuitTo("quit_ctrl", CtrlFailed) /\ Elsewhere

Senkusha == sat = "senkusha" /\ QuitTo("streaming", session.reason) /\ Elsewhere
\* chiaki_senkusha_init, the handshake key or chiaki_ecdh_init fails.
SetupFails == sat = "senkusha" /\ QuitTo("quit_ctrl", session.reason) /\ Elsewhere

\* chiaki_takion_close joins a Takion thread that has lost the signal to its send
\* buffer (Takion!SendBufferFini): in senkusha nobody is left to wake it.
SenkushaHangs == sat = "senkusha" /\ QuitTo("senkusha_lost", session.reason) /\ Elsewhere
StreamHangs == sat = "streaming" /\ QuitTo("stream_lost", session.reason) /\ Elsewhere

\* chiaki_stream_connection_run returns: see ResultTrue and StopReturns there.
StreamEnds == /\ sat \in {"streaming", "stream_lost"}
              /\ \/ QuitTo("quit_ctrl", "stream")
                 \/ session.shouldStop /\ QuitTo("quit_ctrl", "stopped")
              /\ Elsewhere

\* chiaki_ctrl_stop.
QuitCtrl == /\ sat = "quit_ctrl" /\ ~CtrlHolds
            /\ ctrl' = [ctrl EXCEPT !.shouldStop = TRUE] /\ pipe' = TRUE
            /\ QuitTo("join_ctrl", session.reason)
            /\ UNCHANGED <<cat, app, wire, sent>>

\* Mutant: chiaki_ctrl_join does not wait.
JoinCtrlNot == sat = "join_ctrl" /\ QuitTo("quit", session.reason) /\ Elsewhere
JoinCtrl == sat = "join_ctrl" /\ cat = "ended" /\ QuitTo("quit", session.reason) /\ Elsewhere
Quit == sat = "quit" /\ QuitTo("done", session.reason) /\ Elsewhere

SessionThread == \/ Start \/ RequestFails \/ RequestDone \/ WaitCtrl \/ WaitPin \/ GivePin
                 \/ WaitId \/ Fallback \/ FallbackFails \/ Senkusha \/ SetupFails
                 \/ SenkushaHangs \/ StreamHangs \/ StreamEnds \/ QuitCtrl \/ JoinCtrl \/ Quit

-----------------------------------------------------------------------------
(* The ctrl thread.  "handle" rests before a message of recv_buf and        *)
(* Failing in ctrl_failed, both with notif_mutex held; "select" without it. *)

NotSession == UNCHANGED <<sat, session, prompt>>
OutsideCtrl == UNCHANGED <<pipe, app, sent>>
\* The socket is closed and what it had not delivered is gone.
CtrlEnd(label) == /\ ctrl' = [ctrl EXCEPT !.open = FALSE] /\ wire' = << >>
                  /\ cat' = label
                  /\ NotSession /\ OutsideCtrl

\* Out of memory, a bad response, or canceled by the pipe, whoever wrote to it.
CtrlConnectFails == cat \in {"connect", "header"} /\ CtrlEnd("connect_failed")
\* No socket or no connection: ctrl_connect reports it, then its caller does.
CtrlRefused == cat = "connect" /\ CtrlEnd("connect_refused")
\* goto error with err still CHIAKI_ERR_SUCCESS: no socket, and the loop starts.
CtrlHeaderUnsent == cat = "header" /\ CtrlEnd("select")

CtrlConnected == /\ cat = "connect" /\ cat' = "header"
                 /\ ctrl' = [ctrl EXCEPT !.open = TRUE]
                 /\ NotSession /\ OutsideCtrl /\ UNCHANGED wire

\* Back to the head of the loop: the next message, or the mutex is released.
LoopWith(inbox) == IF inbox = << >> THEN "select" ELSE "handle"
Fill == /\ ctrl' = [ctrl EXCEPT !.inbox = wire] /\ wire' = << >>
        /\ cat' = LoopWith(wire)
        /\ NotSession /\ OutsideCtrl

\* The response, and what follows it in the same buffer.
CtrlHeader == cat = "header" /\ Fill

\* ctrl_failed: the thread ends, but after a PIN request it goes on and after a
\* refused connect it calls ctrl_failed again.
CtrlFail ==
  /\ cat \in Failing /\ ~SessionHolds
  /\ session' = [session EXCEPT !.ctrlFailed = TRUE,
                    !.reason = IF cat = "connect_failed" THEN "ctrl_connect" ELSE "ctrl"]
  /\ cat' = (CASE cat = "refuse" -> LoopWith(ctrl.inbox)
               [] cat = "connect_refused" -> "connect_failed"
               [] OTHER -> "ended")
  /\ UNCHANGED <<sat, prompt, ctrl, pipe, app, wire, sent>>

Message(kind) == /\ cat = "handle" /\ Head(ctrl.inbox) = kind
                 /\ UNCHANGED <<sat, prompt, pipe, app, wire, sent>>
Rest == Tail(ctrl.inbox)
Handled == ctrl' = [ctrl EXCEPT !.inbox = Rest]

\* The first look at the id; it is set in a second critical section, a fallback
\* unless its random bytes or encoding fail.
SessionIdMessage(kind) ==
  /\ Message(kind) /\ ~SessionHolds /\ Handled /\ UNCHANGED session
  /\ cat' = (CASE session.id # "none" -> LoopWith(Rest)
               [] session.id = "none" /\ kind = "session_id" -> "set_id"
               [] OTHER -> "set_fallback")

SetSessionId == /\ cat \in {"set_id", "set_fallback"} /\ ~SessionHolds
                /\ \E id \in IF cat = "set_id" THEN {"console"} ELSE {session.id, FallbackId} :
                     session' = [session EXCEPT !.id = id]
                /\ cat' = LoopWith(ctrl.inbox)
                /\ UNCHANGED <<sat, prompt, ctrl, pipe, app, wire, sent>>

\* A request in a session that has its id ends the session.
PinReqMessage ==
  /\ Message("pin_req") /\ ~SessionHolds
  /\ ctrl' = [ctrl EXCEPT !.inbox = Rest, !.pinRequested = TRUE]
  /\ \/ /\ session.id = "none" /\ session' = [session EXCEPT !.pinRequested = TRUE]
        /\ cat' = LoopWith(Rest)
     \/ session.id # "none" /\ UNCHANGED session /\ cat' = "refuse"

PinIncorrectMessage ==
  /\ Message("pin_incorrect") /\ Handled /\ cat' = LoopWith(Rest)
  /\ \/ /\ ctrl.pinRequested /\ ~SessionHolds
        /\ session' = [session EXCEPT !.pinRequested = TRUE]
     \/ ~ctrl.pinRequested /\ UNCHANGED session

PinSuccessMessage == /\ Message("pin_success") /\ cat' = LoopWith(Rest)
                     /\ ctrl' = [ctrl EXCEPT !.inbox = Rest, !.pinRequested = FALSE]
                     /\ UNCHANGED session

\* A length recv_buf cannot hold.
TooLargeMessage == /\ Message("too_large") /\ cat' = "failed"
                   /\ ctrl' = [ctrl EXCEPT !.inbox = << >>, !.open = FALSE]
                   /\ UNCHANGED session

HandleMessage == \/ \E k \in {"session_id", "bad_session_id"} : SessionIdMessage(k)
                 \/ PinReqMessage \/ PinIncorrectMessage \/ PinSuccessMessage
                 \/ TooLargeMessage

\* Mutant: no chiaki_stop_pipe_reset after a PIN.
PinDrainsNot == pipe
PinDrains == FALSE

\* The whole queue is handed to send, whose result is ignored.
AllSent == sent.messages \o ctrl.queue

\* select returned CHIAKI_ERR_CANCELED: the queue first, then a PIN, then the stop.
Canceled ==
  /\ cat = "select" /\ pipe
  /\ IF ctrl.pin # 0
     THEN /\ sent' = [pins |-> Append(sent.pins, ctrl.pin), messages |-> AllSent]
          /\ ctrl' = [ctrl EXCEPT !.queue = << >>, !.pin = 0]
          /\ pipe' = PinDrains /\ UNCHANGED cat
     ELSE /\ sent' = [sent EXCEPT !.messages = AllSent]
          /\ ctrl' = [ctrl EXCEPT !.queue = << >>, !.open = @ /\ ~ctrl.shouldStop]
          /\ pipe' = (ctrl.shouldStop \/ ctrl.queue = << >>)
          /\ cat' = (IF ctrl.shouldStop THEN "ended" ELSE cat)
  /\ NotSession /\ UNCHANGED <<app, wire>>

\* select saw the socket and no byte in the pipe.
Selected == cat = "select" /\ ~pipe /\ ctrl.open
Recv == Selected /\ wire # << >> /\ Fill
RecvFails == Selected /\ CtrlEnd("failed")
\* The console closed the connection: the thread ends and tells nobody.
RecvCloses == Selected /\ CtrlEnd("ended")
SelectFails == cat = "select" /\ ~pipe /\ CtrlEnd("ended")

CtrlProgress == \/ CtrlConnectFails \/ CtrlRefused \/ CtrlConnected \/ CtrlHeader
                \/ CtrlHeaderUnsent \/ CtrlFail \/ HandleMessage \/ SetSessionId
                \/ Canceled \/ Recv
CtrlThread == CtrlProgress \/ RecvFails \/ RecvCloses \/ SelectFails

-----------------------------------------------------------------------------
(* The application and the console. *)

\* chiaki_session_stop (its call into the stream is in StreamConnection).
Stop == /\ ~SessionHolds /\ ~session.shouldStop /\ sat # "done"
        /\ session' = [session EXCEPT !.shouldStop = TRUE]
        /\ UNCHANGED <<sat, prompt, cat, ctrl, pipe, app, wire, sent>>

\* chiaki_session_set_login_pin replaces a PIN not yet taken.
SetLoginPin == /\ ~SessionHolds /\ made.pins < PinsMax /\ sat # "done"
               /\ made' = [made EXCEPT !.pins = @ + 1]
               /\ session' = [session EXCEPT !.pin = made.pins + 1]
               /\ UNCHANGED <<sat, prompt, cat, ctrl, pipe, signal, wire, sent>>

\* chiaki_ctrl_send_message: queued under the mutex, signalled after its release.
SendMessage == /\ ~CtrlHolds /\ ~signal /\ made.messages < MessagesMax /\ sat # "done"
               /\ made' = [made EXCEPT !.messages = @ + 1]
               /\ ctrl' = [ctrl EXCEPT !.queue = Append(@, made.messages + 1)]
               /\ signal' = TRUE
               /\ UNCHANGED <<threads, pipe, wire, sent>>
SendSignals == /\ signal /\ signal' = FALSE /\ pipe' = TRUE
               /\ UNCHANGED <<threads, ctrl, made, wire, sent>>

ConsoleSends(k) == /\ ctrl.open /\ made.console < ConsoleMax
                   /\ wire' = Append(wire, k)
                   /\ made' = [made EXCEPT !.console = @ + 1]
                   /\ UNCHANGED <<threads, ctrl, pipe, signal, sent>>

Outside == \/ Stop \/ SetLoginPin \/ SendMessage \/ SendSignals
           \/ \E k \in Kinds : ConsoleSends(k)

Next == SessionThread \/ CtrlThread \/ Outside

Spec == Init /\ [][Next]_vars

-----------------------------------------------------------------------------
(* Fairness: both threads run; a mutex that is free again and again is     *)
(* eventually got (QuitCtrl, GivePin); waits with a timeout end; the       *)
(* stream returns once stopped or hangs (StreamConnection!StopReturns) and *)
(* nothing wakes one that hangs; a message sender reaches its signal.      *)
(* Nothing is assumed of the user, the console or of errors.               *)

FairSpec == /\ Spec
            /\ WF_vars(/\ SessionThread /\ sat # "stream_lost"
                       /\ sat = "streaming" => session.shouldStop)
            /\ SF_vars(GivePin) /\ SF_vars(QuitCtrl)
            /\ WF_vars(CtrlProgress) /\ WF_vars(SendSignals)

(* Properties. *)

Reasons == {"none", "request", "stopped", "ctrl_connect", "ctrl", "stream"}

SessionPlaces == {"new", "requesting", "wait_ctrl", "wait_pin", "give_pin", "wait_id", "no_id",
                  "senkusha", "senkusha_lost", "streaming", "stream_lost", "quit_ctrl",
                  "join_ctrl", "quit", "done"}
CtrlPlaces == {"none", "connect", "header", "handle", "set_id", "set_fallback", "select",
               "ended"} \union Failing
SessionFields == [shouldStop : BOOLEAN, ctrlFailed : BOOLEAN,
                  id : {"none", "console", "fallback"}, pinRequested : BOOLEAN,
                  pin : 0 .. PinsMax, reason : Reasons]
CtrlFields == [shouldStop : BOOLEAN, pinRequested : BOOLEAN, pin : 0 .. PinsMax,
               queue : Seq(1 .. MessagesMax), inbox : Seq(Kinds), open : BOOLEAN]

TypeOK ==
  /\ sat \in SessionPlaces /\ cat \in CtrlPlaces
  /\ session \in SessionFields /\ ctrl \in CtrlFields
  /\ prompt \in {"none", "first", "incorrect"}
  /\ pipe \in BOOLEAN /\ signal \in BOOLEAN
  /\ wire \in Seq(Kinds)
  /\ sent \in [pins : Seq(1 .. PinsMax), messages : Seq(1 .. MessagesMax)]
  /\ made \in [pins : 0 .. PinsMax, messages : 0 .. MessagesMax, console : 0 .. ConsoleMax]

\* A PIN reaches the console at most once and PINs in the order they were
\* entered, however the user, the session thread and the ctrl thread interleave
\* (session.c:549-556, ctrl.c:373-384); queued messages are sent in order and
\* none is lost or doubled while it is queued (ctrl.c:220-231, 364-371).
SentInOrder ==
  /\ \A i \in DOMAIN sent.pins : /\ sent.pins[i] < ctrl.pin \/ ctrl.pin = 0
                                 /\ sent.pins[i] < session.pin \/ session.pin = 0
                                 /\ \A j \in 1 .. i - 1 : sent.pins[j] < sent.pins[i]
  /\ session.pin # 0 => ctrl.pin < session.pin
  /\ sent.messages \o ctrl.queue = [i \in 1 .. made.messages |-> i]

\* The id the console gave is never replaced by a fallback id, though two
\* threads may set one (ctrl.c:669-680, 821-827).
ConsoleIdKept == [][session.id = "console" => session'.id = "console"]_vars

\* The reason carried by the QUIT event is final: no ctrl_failed of the ctrl
\* thread comes after it (session.c:694-708, ctrl.c:297-305).
ReasonFinal == [][(sat = "quit" \/ sat = "done") => UNCHANGED session.reason]_vars

\* The ctrl thread never spins on its pipe in a session whose application queues
\* no messages: a readable pipe means a PIN to send or a stop (ctrl.c:361-398).
\* With messages the byte of ctrl.c:232 may come after the queue was sent.
PipeMeansWork == pipe => ctrl.pin # 0 \/ ctrl.shouldStop \/ made.messages > 0

\* Each thread holds the mutex the other needs: session.c:551 under state_mutex
\* against a handler of ctrl.c:684-935 under notif_mutex.
CtrlNeedsSession ==
  \/ cat \in {"set_id", "set_fallback"} \union Failing
  \/ /\ cat = "handle"
     /\ \/ Head(ctrl.inbox) \in {"session_id", "bad_session_id", "pin_req"}
        \/ Head(ctrl.inbox) = "pin_incorrect" /\ ctrl.pinRequested
Embraced == sat = "give_pin" /\ CtrlNeedsSession

\* The byte of chiaki_ctrl_stop was drained with that of a PIN (ctrl.c:382).
StopDrained == ctrl.shouldStop /\ ~pipe

\* Senkusha or the stream joins a Takion thread that joins for ever (takion.c:975).
TakionHangs == sat \in {"senkusha_lost", "stream_lost"}

\* A stopped session ends with its QUIT event, but for the three cases above.
StopQuits == session.shouldStop ~> (sat = "done" \/ Embraced \/ StopDrained \/ TakionHangs)

\* What is queued for the ctrl thread, a PIN or a message, is sent unless the
\* thread has ended or waits for the mutex of a session that is stuck with it: no
\* byte that announces it is lost (ctrl.c:198-252, 361-398).
Work == ctrl.pin # 0 \/ ctrl.queue # << >>
WorkDone == Work ~> (~Work \/ cat = "ended" \/ sat = "done" \/ Embraced
                         \/ sat = "senkusha_lost")
=============================================================================
