-------------------------- MODULE StreamConnection --------------------------
(***************************************************************************)
(* chiaki/src/streamconnection.c: the thread in                            *)
(* chiaki_stream_connection_run takes the connection from the Takion       *)
(* handshake over BANG and STREAMINFO to streaming and down again, while   *)
(* the Takion thread calls it back, a congestion control thread and a      *)
(* feedback sender thread use the same Takion, application threads set the *)
(* controller state, and the user may stop at any time.                    *)
(*                                                                         *)
(* The Takion thread is the one of Takion.tla, reduced to what it calls.   *)
(* A callback holds state_mutex from end to end, so it is one step, taken  *)
(* when the run thread is where it does not hold the mutex.  All waits of  *)
(* the run thread are timed, so a signal only decides how early one ends.  *)
(* state_failed is left out: it is assigned and never read.                *)
(***************************************************************************)

CONSTANT Apps   \* threads that call chiaki_session_set_controller_state

VARIABLES at,         \* where chiaki_stream_connection_run is
          state, finished, shouldStop, remoteDisc, earlyBuf,
          err,        \* the result of run so far
          receivers,  \* the video and audio receivers are allocated
          crypt,      \* gkcrypt_local and gkcrypt_remote are set
          fbActive, fs, fsStop,  \* feedback_sender_active, the sender and its thread
          cc, ccStop, \* congestion control thread, stop_cond
          tk, tkStop, \* Takion thread, its stop pipe
          inCall,     \* threads in chiaki_feedback_sender_set_controller_state
          bang, info  \* external: what the console sent (good or bad)

conn == <<state, finished, shouldStop, remoteDisc, earlyBuf, err, receivers, crypt>>
feedback == <<fbActive, fs, fsStop>>
console == <<bang, info>>
vars == <<at, conn, feedback, cc, ccStop, tk, tkStop, inCall, console>>

\* where the run thread does not hold state_mutex
StateMutexFree == at \in {"start", "asleep", "event", "close", "tk_join", "free",
                          "returned", "fini", "done"}
\* feedback_sender_mutex is held by nobody
FbMutexFree == inCall = {} /\ at # "fb_join"

Init == /\ at = "start"
        /\ state = "idle" /\ finished = FALSE
        /\ shouldStop = FALSE /\ remoteDisc = FALSE
        /\ earlyBuf = "none" /\ err = "success"
        /\ receivers = FALSE /\ crypt = FALSE
        /\ fbActive = FALSE /\ fs = "none" /\ fsStop = FALSE
        /\ cc = "none" /\ ccStop = FALSE
        /\ tk = "none" /\ tkStop = FALSE
        /\ inCall = {}
        /\ bang = "unasked" /\ info = "none"
-----------------------------------------------------------------------------
(* chiaki_stream_connection_run                                            *)

\* Mutant: the wait does not look at should_stop
CondCheckNoStop == finished \/ remoteDisc

\* state_finished_cond_check
CondCheck == finished \/ shouldStop \/ remoteDisc

Connect ==
  /\ at = "start"
  /\ state' = "connect" /\ finished' = FALSE
  /\ at' = "cc" /\ receivers' = TRUE /\ tk' = "handshake"
  /\ UNCHANGED <<shouldStop, remoteDisc, earlyBuf, err, crypt, feedback, cc, ccStop,
                 tkStop, inCall, console>>

\* no memory for a receiver, or takion_connect fails: all is freed again
ConnectFails ==
  /\ at = "start"
  /\ state' = "connect" /\ finished' = FALSE
  /\ at' = "returned" /\ err' = "failed"
  /\ UNCHANGED <<shouldStop, remoteDisc, earlyBuf, receivers, crypt, feedback, cc, ccStop,
                 tk, tkStop, inCall, console>>

CongestionStart ==
  /\ at = "cc"
  /\ \/ at' = "enter" /\ cc' = "waiting" /\ UNCHANGED err
     \/ at' = "close" /\ err' = "failed" /\ UNCHANGED cc   \* it fails
  /\ UNCHANGED <<state, finished, shouldStop, remoteDisc, earlyBuf, receivers, crypt,
                 feedback, ccStop, tk, tkStop, inCall, console>>

\* chiaki_cond_timedwait_pred: the predicate is false on entry
Sleep == /\ at = "enter" /\ ~CondCheck
         /\ at' = "asleep"
         /\ UNCHANGED <<conn, feedback, cc, ccStop, tk, tkStop, inCall, console>>

\* ... it returns e.  A wait that is over in time returns "timeout" whatever the
\* predicate says by then.
WaitReturns(e) == \/ at \in {"enter", "asleep"} /\ CondCheck /\ e = "success"
                  \/ at = "asleep" /\ e = "timeout"

\* Mutant: state_finished keeps its value from the stage before
ExpectKeeping(s) == state' = s /\ UNCHANGED finished

Expect(s) == state' = s /\ finished' = FALSE

\* Mutant: every CHECK_STOP skips congestion_control_stop
StopAtClose(label) == "close"

\* CHECK_STOP(label)
StopAt(label) == label

AfterConnect(e) ==
  /\ state = "connect" /\ WaitReturns(e)
  /\ \/ shouldStop /\ at' = StopAt("close") /\ err' = e
        /\ UNCHANGED <<state, finished, bang>>
     \/ ~shouldStop /\ e = "timeout" /\ at' = "cc_stop" /\ err' = e
        /\ UNCHANGED <<state, finished, bang>>
     \/ ~shouldStop /\ e = "success" /\ Expect("bang")
        /\ \/ at' = "enter" /\ bang' = "due" /\ UNCHANGED err
           \/ at' = "disconnect" /\ err' = "failed" /\ UNCHANGED bang  \* send_big fails
  /\ UNCHANGED <<shouldStop, remoteDisc, earlyBuf, receivers, crypt, feedback, cc, ccStop,
                 tk, tkStop, inCall, info>>

\* a STREAMINFO that came early is handled now
AfterBang(e) ==
  /\ state = "bang" /\ WaitReturns(e)
  /\ \/ shouldStop /\ at' = StopAt("disconnect") /\ err' = e
        /\ UNCHANGED <<state, finished, earlyBuf>>
     \/ ~shouldStop /\ ~finished /\ at' = "disconnect" /\ err' = "failed"
        /\ UNCHANGED <<state, finished, earlyBuf>>
     \/ ~shouldStop /\ finished /\ at' = "enter" /\ UNCHANGED err
        /\ state' = "info" /\ finished' = (earlyBuf = "good") /\ earlyBuf' = "none"
  /\ UNCHANGED <<shouldStop, remoteDisc, receivers, crypt, feedback, cc, ccStop,
                 tk, tkStop, inCall, console>>

AfterInfo(e) ==
  /\ state = "info" /\ WaitReturns(e)
  /\ \/ shouldStop /\ at' = StopAt("disconnect") /\ err' = e
     \/ ~shouldStop /\ ~finished /\ at' = "disconnect" /\ err' = "failed"
     \/ ~shouldStop /\ finished /\ at' = "fb_init" /\ UNCHANGED err
  /\ UNCHANGED <<state, finished, shouldStop, remoteDisc, earlyBuf, receivers, crypt,
                 feedback, cc, ccStop, tk, tkStop, inCall, console>>

\* with both mutexes
FeedbackInit ==
  /\ at = "fb_init" /\ FbMutexFree
  /\ \/ /\ fs' = "waiting" /\ fbActive' = TRUE
        /\ Expect("idle")
        /\ at' = "event" /\ UNCHANGED err
     \/ /\ at' = "disconnect" /\ err' = "failed"   \* it fails
        /\ UNCHANGED <<fs, fbActive, state, finished>>
  /\ UNCHANGED <<shouldStop, remoteDisc, earlyBuf, receivers, crypt, fsStop, cc, ccStop,
                 tk, tkStop, inCall, console>>

\* the CONNECTED event is over
Streaming == /\ at = "event" /\ at' = "enter"
             /\ UNCHANGED <<conn, feedback, cc, ccStop, tk, tkStop, inCall, console>>

AfterIdle(e) == /\ state = "idle" /\ WaitReturns(e)
                /\ at' = IF e = "timeout" THEN "heartbeat" ELSE "fb_fini"
                /\ UNCHANGED <<conn, feedback, cc, ccStop, tk, tkStop, inCall, console>>

Heartbeat == /\ at = "heartbeat" /\ at' = "enter"
             /\ UNCHANGED <<conn, feedback, cc, ccStop, tk, tkStop, inCall, console>>

\* the feedback sender's thread has the sender's own mutex while it sends
FeedbackFini ==
  /\ at = "fb_fini" /\ FbMutexFree /\ fs # "sending"
  /\ fbActive' = FALSE /\ fsStop' = TRUE
  /\ at' = "fb_join"
  /\ UNCHANGED <<conn, fs, cc, ccStop, tk, tkStop, inCall, console>>

FeedbackJoin ==
  /\ at = "fb_join" /\ fs = "ended"
  /\ fs' = "freed" /\ err' = "success"
  /\ at' = "disconnect"
  /\ UNCHANGED <<state, finished, shouldStop, remoteDisc, earlyBuf, receivers, crypt,
                 fbActive, fsStop, cc, ccStop, tk, tkStop, inCall, console>>

\* send_disconnect, and what the result is
Disconnect ==
  /\ at = "disconnect"
  /\ earlyBuf' = "none"
  /\ err' = CASE shouldStop -> "canceled"
              [] ~shouldStop /\ remoteDisc -> "disconnected"
              [] OTHER -> err
  /\ at' = "cc_stop"
  /\ UNCHANGED <<state, finished, shouldStop, remoteDisc, receivers, crypt, feedback,
                 cc, ccStop, tk, tkStop, inCall, console>>

\* Mutant of CongestionStop: its thread is joined without being told
CongestionStopSilent ==
  /\ at = "cc_stop" /\ cc # "sending" /\ at' = "cc_join"
  /\ UNCHANGED <<conn, feedback, cc, ccStop, tk, tkStop, inCall, console>>

\* chiaki_congestion_control_stop, still with state_mutex; its thread has the
\* mutex of stop_cond while it sends
CongestionStop ==
  /\ at = "cc_stop" /\ cc # "sending"
  /\ ccStop' = TRUE /\ at' = "cc_join"
  /\ UNCHANGED <<conn, feedback, cc, tk, tkStop, inCall, console>>

CongestionJoin ==
  /\ at = "cc_join" /\ cc = "ended"
  /\ cc' = "joined" /\ at' = "close"
  /\ UNCHANGED <<conn, feedback, ccStop, tk, tkStop, inCall, console>>

\* Mutant of Close: chiaki_takion_close does not join the thread
CloseNoJoin ==
  /\ at = "close" /\ tkStop' = TRUE /\ at' = "free"
  /\ UNCHANGED <<conn, feedback, cc, ccStop, tk, inCall, console>>

\* chiaki_takion_close
Close == /\ at = "close"
         /\ tkStop' = TRUE /\ at' = "tk_join"
         /\ UNCHANGED <<conn, feedback, cc, ccStop, tk, inCall, console>>

TakionJoin == /\ at = "tk_join" /\ tk = "ended"
              /\ tk' = "closed" /\ at' = "free"
              /\ UNCHANGED <<conn, feedback, cc, ccStop, tkStop, inCall, console>>

Free == /\ at = "free"
        /\ receivers' = FALSE /\ at' = "returned"
        /\ UNCHANGED <<state, finished, shouldStop, remoteDisc, earlyBuf, err, crypt,
                       feedback, cc, ccStop, tk, tkStop, inCall, console>>

\* chiaki_stream_connection_fini, after the session thread was joined: the keys
\* are freed, then a congestion control that still runs is stopped
Fini == /\ at = "returned" /\ at' = "fini"
        /\ UNCHANGED <<conn, feedback, cc, ccStop, tk, tkStop, inCall, console>>

FiniStop == /\ at = "fini" /\ cc \in {"waiting", "ended"}
            /\ IF cc = "ended" THEN cc' = "joined" /\ UNCHANGED ccStop
               ELSE ccStop' = TRUE /\ UNCHANGED cc
            /\ UNCHANGED <<at, conn, feedback, tk, tkStop, inCall, console>>

FiniDone == /\ at = "fini" /\ cc \in {"none", "joined"} /\ at' = "done"
            /\ UNCHANGED <<conn, feedback, cc, ccStop, tk, tkStop, inCall, console>>

RunThread ==
  \/ Connect \/ ConnectFails \/ CongestionStart \/ Sleep
  \/ \E e \in {"success", "timeout"} : AfterConnect(e) \/ AfterBang(e) \/ AfterInfo(e)
                                       \/ AfterIdle(e)
  \/ FeedbackInit \/ Streaming \/ Heartbeat \/ FeedbackFini \/ FeedbackJoin
  \/ Disconnect \/ CongestionStop \/ CongestionJoin
  \/ Close \/ TakionJoin \/ Free \/ Fini \/ FiniStop \/ FiniDone
-----------------------------------------------------------------------------
(* The Takion thread: what Takion.tla does as far as it shows here         *)

TakionStep(from, to) == /\ tk = from /\ tk' = to
                        /\ UNCHANGED <<at, feedback, cc, ccStop, tkStop, inCall, console>>

\* the handshake succeeds and the send buffer is there, or not
Handshake == /\ TakionStep("handshake", "connected") \/ TakionStep("handshake", "ending")
             /\ UNCHANGED conn

\* the CONNECTED event matters only while it is waited for; a DISCONNECT event
\* only sets state_failed
TakionConnected == /\ StateMutexFree /\ TakionStep("connected", "up")
                   /\ finished' = IF state = "connect" THEN TRUE ELSE finished
                   /\ UNCHANGED <<state, shouldStop, remoteDisc, earlyBuf, err, receivers, crypt>>

\* receiving fails, or the stop pipe is readable: the send buffer is freed, which
\* waits for its thread; that may sleep through the signal (Takion!SendBufferFini)
TakionFails == /\ TakionStep("up", "ending") \/ TakionStep("up", "lost")
               /\ UNCHANGED conn

\* ... until a message to send wakes it (Takion!WokenByPush)
TakionWoken == TakionStep("lost", "ending") /\ UNCHANGED conn

TakionDisconnect == /\ StateMutexFree /\ TakionStep("ending", "ended")
                    /\ finished' = IF state = "connect" THEN FALSE ELSE finished
                    /\ UNCHANGED <<state, shouldStop, remoteDisc, earlyBuf, err, receivers, crypt>>

\* stream_connection_takion_av uses the keys and the receivers, without the mutex;
\* Takion keeps the packets back until it has the keys
AVBegin == crypt /\ TakionStep("up", "av") /\ UNCHANGED conn
AVEnd == TakionStep("av", "up") /\ UNCHANGED conn

InCallback == /\ tk = "up" /\ StateMutexFree
              /\ UNCHANGED <<at, state, shouldStop, err, receivers, feedback, cc, ccStop,
                             tk, tkStop, inCall>>

\* the BANG, once, as answer to BIG
Bang(q) == /\ InCallback
           /\ bang = "due" /\ bang' = q /\ UNCHANGED info
           /\ IF state = "bang" /\ q = "good"
              THEN crypt' = TRUE /\ finished' = TRUE
              ELSE UNCHANGED <<crypt, finished>>
           /\ UNCHANGED <<remoteDisc, earlyBuf>>

\* Mutant of StreamInfo: one that comes early is not kept
StreamInfoNotKept(q) ==
  /\ InCallback
  /\ bang # "unasked" /\ info = "none" /\ info' = q /\ UNCHANGED bang
  /\ finished' = (IF state = "info" /\ q = "good" THEN TRUE ELSE finished)
  /\ UNCHANGED <<remoteDisc, crypt, earlyBuf>>

\* the STREAMINFO, once, before or after the BANG; a bad one is one whose handler
\* fails
StreamInfo(q) ==
  /\ InCallback
  /\ bang # "unasked" /\ info = "none" /\ info' = q /\ UNCHANGED bang
  /\ finished' = (IF state = "info" /\ q = "good" THEN TRUE ELSE finished)
  /\ earlyBuf' = IF state = "bang" /\ earlyBuf = "none" THEN q ELSE earlyBuf
  /\ UNCHANGED <<remoteDisc, crypt>>

\* the console's DISCONNECT, in any state
RemoteDisconnect == /\ InCallback
                    /\ remoteDisc' = TRUE
                    /\ UNCHANGED <<finished, crypt, earlyBuf, console>>

TakionThread == \/ Handshake \/ TakionConnected \/ TakionFails \/ TakionWoken
                \/ TakionDisconnect \/ AVBegin \/ AVEnd \/ RemoteDisconnect
                \/ \E q \in {"good", "bad"} : Bang(q) \/ StreamInfo(q)
-----------------------------------------------------------------------------
(* The other threads                                                       *)

CongestionStep(from, to) ==
  /\ cc = from /\ cc' = to
  /\ UNCHANGED <<at, conn, feedback, ccStop, tk, tkStop, inCall, console>>

CongestionThread == \/ ~ccStop /\ CongestionStep("waiting", "sending")
                    \/ CongestionStep("sending", "waiting")
                    \/ ccStop /\ CongestionStep("waiting", "ended")

FeedbackStep(from, to) ==
  /\ fs = from /\ fs' = to
  /\ UNCHANGED <<at, conn, fbActive, fsStop, cc, ccStop, tk, tkStop, inCall, console>>

FeedbackThread == \/ ~fsStop /\ FeedbackStep("waiting", "sending")
                  \/ FeedbackStep("sending", "waiting")
                  \/ fsStop /\ FeedbackStep("waiting", "ended")

\* Mutant of SetControllerState: feedback_sender_active is not checked
SetControllerStateUnchecked(a) ==
  /\ FbMutexFree /\ inCall' = inCall \cup {a}
  /\ UNCHANGED <<at, conn, feedback, cc, ccStop, tk, tkStop, console>>

\* Mutant of SetControllerState: the mutex is not taken
SetControllerStateUnlocked(a) ==
  /\ fbActive /\ inCall' = inCall \cup {a}
  /\ UNCHANGED <<at, conn, feedback, cc, ccStop, tk, tkStop, console>>

\* chiaki_session_set_controller_state reaches the feedback sender, and returns
SetControllerState(a) ==
  /\ FbMutexFree /\ fbActive /\ inCall' = inCall \cup {a}
  /\ UNCHANGED <<at, conn, feedback, cc, ccStop, tk, tkStop, console>>

CallReturns(a) == /\ a \in inCall /\ fs # "sending" /\ inCall' = inCall \ {a}
                  /\ UNCHANGED <<at, conn, feedback, cc, ccStop, tk, tkStop, console>>

\* chiaki_stream_connection_stop
Stop == /\ StateMutexFree /\ at \notin {"returned", "fini", "done"}
        /\ shouldStop' = TRUE
        /\ UNCHANGED <<at, state, finished, remoteDisc, earlyBuf, err, receivers, crypt,
                       feedback, cc, ccStop, tk, tkStop, inCall, console>>

Next == \/ RunThread \/ TakionThread \/ CongestionThread \/ FeedbackThread
        \/ \E a \in Apps : SetControllerState(a) \/ CallReturns(a)
        \/ Stop

Spec == Init /\ [][Next]_vars

\* Every thread of the library goes on.  Those that take a mutex get it in the
\* end, although others take it again and again: nobody holds one for long.  The
\* Takion handshake ends by its own timeouts, and the Takion thread leaves its loop
\* once told to (Takion!StopEnds); nothing wakes one that has lost the signal.
\* Nothing is assumed of the console and the user.
FairSpec == /\ Spec
            /\ SF_vars(RunThread)
            /\ WF_vars(Handshake) /\ WF_vars(TakionConnected) /\ WF_vars(TakionDisconnect)
            /\ WF_vars(AVEnd) /\ SF_vars(tkStop /\ TakionFails)
            /\ WF_vars(CongestionThread) /\ WF_vars(FeedbackThread)
            /\ \A a \in Apps : SF_vars(CallReturns(a))
-----------------------------------------------------------------------------
TypeOK == /\ at \in {"start", "cc", "enter", "asleep", "fb_init", "event", "heartbeat",
                     "fb_fini", "fb_join", "disconnect", "cc_stop", "cc_join", "close",
                     "tk_join", "free", "returned", "fini", "done"}
          /\ state \in {"idle", "connect", "bang", "info"}
          /\ {finished, shouldStop, remoteDisc, receivers, crypt,
              fbActive, fsStop, ccStop, tkStop} \subseteq BOOLEAN
          /\ earlyBuf \in {"none", "good", "bad"}
          /\ err \in {"success", "timeout", "failed", "canceled", "disconnected"}
          /\ fs \in {"none", "waiting", "sending", "ended", "freed"}
          /\ cc \in {"none", "waiting", "sending", "ended", "joined"}
          /\ tk \in {"none", "handshake", "connected", "up", "av", "lost", "ending",
                     "ended", "closed"}
          /\ inCall \in {{}} \cup {{a} : a \in Apps}
          /\ bang \in {"unasked", "due", "good", "bad"}
          /\ info \in {"none", "good", "bad"}

\* An application thread is in the feedback sender only while it is initialised
\* and not being torn down (streamconnection.h, feedback_sender_active: "only if
\* this is true, feedback_sender may be accessed!").
FeedbackSenderGuarded == inCall # {} => fs \in {"waiting", "sending"} /\ at # "fb_join"

\* A good STREAMINFO is never waited for in vain, whether it came before the BANG,
\* between the BANG and the run thread waking up, or after.
StreamInfoNotMissed == at = "asleep" /\ state = "info" => info # "good" \/ finished

\* What run returns is what happened: success, which the session reports as
\* stopped by the user, and canceled only after a stop, disconnected only after the
\* console's DISCONNECT, and streaming ends in no other way than by these two.
ResultTrue == /\ at = "fb_fini" => shouldStop \/ remoteDisc
              /\ at \in {"cc_stop", "cc_join", "close", "tk_join", "free", "returned"} =>
                   /\ err \in {"success", "canceled"} => shouldStop
                   /\ err = "disconnected" => remoteDisc

\* When fini frees the keys, no thread that sends or receives with them is left.
KeysOutliveUsers == at = "fini" /\ crypt => /\ cc \notin {"waiting", "sending"}
                                            /\ fs \notin {"waiting", "sending"}
                                            /\ tk = "closed"

\* The receivers are there whenever the Takion thread hands them a packet.
ReceiversOutliveTakion == tk = "av" => receivers

\* chiaki_takion_close joins a Takion thread that joins a resend thread that sleeps
\* through its stop (takion.c:975).
JoinsForEver == at = "tk_join" /\ tk = "lost"

\* A stop, or the console's DISCONNECT, ends the run and every thread of it, but
\* for that join: no other wait of the teardown is left without its waker.
StopReturns == (shouldStop \/ remoteDisc) ~> (at = "done" \/ JoinsForEver)

\* Connecting comes to an end, whatever the console sends: the connection streams,
\* or run returns, or is in that join.
ConnectSettles == at = "cc" ~> (at \in {"event", "returned"} \/ JoinsForEver)

\* Takion is used only while it can be: congestion control sends before Takion is
\* closed, and messages go to a send buffer that is not freed (takion.h, of the
\* sending functions: "Thread-safe while Takion is running.").
TakionUsable == /\ cc = "sending" => tk # "closed"
                /\ at = "heartbeat" => tk \in {"up", "av"}
=============================================================================
