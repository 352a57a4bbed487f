----------------------- MODULE StreamConnection_proofs -----------------------
(***************************************************************************)
(* The safety of the stream connection, for any number of application      *)
(* threads.  Inv ties what a thread may touch to where the run thread is:  *)
(* the feedback sender lives exactly while connected, the BANG can only    *)
(* come once BIG was sent, and from then on the run thread leaves through  *)
(* congestion_control_stop; a STREAMINFO is kept while the BANG is waited  *)
(* for, and a good one finishes the stage that waits for it.               *)
(***************************************************************************)
EXTENDS StreamConnection, TLAPS

Connected == \/ at \in {"event", "heartbeat", "fb_fini"}
             \/ state = "idle" /\ at \in {"enter", "asleep"}
Freed == {"free", "returned", "fini", "done"}
Closing == {"close", "tk_join"} \cup Freed

FeedbackInv == /\ fbActive <=> Connected
               /\ fbActive => fs \in {"waiting", "sending"} /\ ~fsStop
               /\ at = "fb_join" => fs \in {"waiting", "sending", "ended"} /\ fsStop
               /\ ~fbActive /\ at # "fb_join" => fs \in {"none", "freed"}
               /\ ~fbActive /\ at \in {"start", "cc", "enter", "asleep", "fb_init"} =>
                    fs = "none" /\ ~fsStop
               /\ inCall # {} => fbActive

ResultInv ==
  /\ Connected => ~finished \/ at = "fb_fini"
  /\ at \in {"fb_fini", "fb_join"} => shouldStop \/ remoteDisc
  /\ at \notin {"cc_stop", "cc_join"} \cup Closing => err \in {"success", "timeout", "failed"}
  /\ at = "disconnect" /\ err = "success" => shouldStop \/ remoteDisc
  /\ at \in {"cc_stop", "cc_join"} \cup Closing =>
       /\ err \in {"success", "canceled"} => shouldStop
       /\ err = "disconnected" => remoteDisc

StageInv == /\ at = "cc" => state = "connect"
            /\ at \in {"event", "heartbeat", "fb_fini"} => state = "idle"

KeysInv == /\ crypt => bang = "good"
           /\ bang # "unasked" => /\ at \notin {"start", "cc"} /\ state # "connect"
                                  /\ at \in Closing => cc = "joined"
                                  /\ at \in Freed => tk = "closed"

TakionThreadInv == /\ tk \notin {"none", "closed"} => /\ receivers
                                                      /\ at \notin {"start"} \cup Freed

Waiting == at \in {"enter", "asleep"}

\* A STREAMINFO is kept while the BANG is waited for, and finishes its own stage.
InfoInv == /\ bang = "unasked" => info = "none" /\ earlyBuf = "none"
           /\ Waiting /\ state = "bang" => earlyBuf = info
           /\ Waiting /\ state = "info" => info # "good" \/ finished

Inv == TypeOK /\ StageInv /\ FeedbackInv /\ ResultInv /\ KeysInv /\ TakionThreadInv /\ InfoInv

USE DEF Connected, Freed, Closing

LEMMA InitOK == Init => Inv
BY DEF Init, Inv, TypeOK, StageInv, FeedbackInv, ResultInv, KeysInv, TakionThreadInv,
       InfoInv, Waiting

LEMMA TypeStepOK == TypeOK /\ [Next]_vars => TypeOK'
<1> SUFFICES ASSUME TypeOK, [Next]_vars PROVE TypeOK'
  OBVIOUS
<1> USE DEF TypeOK, conn, feedback, console
<1>1. CASE Connect \/ ConnectFails \/ CongestionStart \/ Sleep
  BY <1>1 DEF Connect, ConnectFails, CongestionStart, Sleep
<1>2. ASSUME NEW e \in {"success", "timeout"}, AfterConnect(e) PROVE TypeOK'
  <2>1. /\ UNCHANGED <<shouldStop, remoteDisc, earlyBuf, receivers, crypt, feedback,
                       cc, ccStop, tk, tkStop, inCall, info>>
        /\ at' \in {"close", "cc_stop", "enter", "disconnect"}
        /\ err' \in {e, err, "failed"}
    BY <1>2 DEF AfterConnect, StopAt
  <2>2. \/ UNCHANGED <<state, finished, bang>>
        \/ state' = "bang" /\ finished' = FALSE /\ bang' \in {"due", bang}
    BY <1>2 DEF AfterConnect, Expect
  <2>3. CASE UNCHANGED <<state, finished, bang>>
    BY <2>1, <2>3
  <2>4. CASE state' = "bang" /\ finished' = FALSE /\ bang' \in {"due", bang}
    <3>1. finished' \in BOOLEAN /\ state' \in {"idle", "connect", "bang", "info"}
      BY <2>4
    <3>2. bang' \in {"unasked", "due", "good", "bad"}
      BY <2>4
    <3> QED
      BY <2>1, <3>1, <3>2
  <2> QED
    BY <2>2, <2>3, <2>4
<1>3. ASSUME NEW e \in {"success", "timeout"}, AfterBang(e) PROVE TypeOK'
  BY <1>3 DEF AfterBang, StopAt
<1>4. ASSUME NEW e \in {"success", "timeout"}, AfterInfo(e) \/ AfterIdle(e) PROVE TypeOK'
  BY <1>4 DEF AfterInfo, AfterIdle, StopAt
<1>5. CASE FeedbackInit \/ Streaming \/ Heartbeat \/ FeedbackFini \/ FeedbackJoin
  BY <1>5 DEF FeedbackInit, Streaming, Heartbeat, FeedbackFini, FeedbackJoin, Expect
<1>6. CASE Disconnect
  BY <1>6 DEF Disconnect
<1>7. CASE CongestionStop \/ CongestionJoin \/ Close \/ TakionJoin \/ Free
           \/ Fini \/ FiniStop \/ FiniDone
  BY <1>7 DEF CongestionStop, CongestionJoin, Close, TakionJoin, Free, Fini, FiniStop,
              FiniDone
<1>8. CASE \/ Handshake \/ TakionConnected \/ TakionFails \/ TakionWoken
          \/ TakionDisconnect \/ AVBegin \/ AVEnd
  BY <1>8 DEF Handshake, TakionConnected, TakionFails, TakionWoken, TakionDisconnect,
              AVBegin, AVEnd,
              TakionStep
<1>9. ASSUME NEW q \in {"good", "bad"}, Bang(q) \/ StreamInfo(q) \/ RemoteDisconnect
      PROVE  TypeOK'
  BY <1>9 DEF Bang, StreamInfo, RemoteDisconnect, InCallback
<1>10. CASE CongestionThread \/ FeedbackThread \/ Stop
  BY <1>10 DEF CongestionThread, CongestionStep, FeedbackThread, FeedbackStep, Stop
<1>11. ASSUME NEW a \in Apps, SetControllerState(a) \/ CallReturns(a) PROVE TypeOK'
  BY <1>11 DEF SetControllerState, CallReturns, FbMutexFree
<1>12. CASE UNCHANGED vars
  BY <1>12 DEF vars
<1> QED
  BY <1>1, <1>2, <1>3, <1>4, <1>5, <1>6, <1>7, <1>8, <1>9, <1>10, <1>11, <1>12
     DEF Next, RunThread, TakionThread

(* What the threads leave alone.                                           *)

LEMMA TakionFrame ==
  TakionThread => UNCHANGED <<at, state, shouldStop, err, receivers, feedback, cc, ccStop,
                              tkStop, inCall>>
<1> USE DEF TakionStep, InCallback, conn
<1>1. CASE Handshake \/ TakionConnected \/ TakionFails \/ TakionWoken \/ TakionDisconnect
  BY <1>1 DEF Handshake, TakionConnected, TakionFails, TakionWoken, TakionDisconnect
<1>2. CASE AVBegin \/ AVEnd \/ RemoteDisconnect
  BY <1>2 DEF AVBegin, AVEnd, RemoteDisconnect
<1>3. ASSUME NEW q \in {"good", "bad"}, Bang(q) \/ StreamInfo(q)
      PROVE  UNCHANGED <<at, state, shouldStop, err, receivers, feedback, cc, ccStop,
                         tkStop, inCall>>
  BY <1>3 DEF Bang, StreamInfo
<1> QED
  BY <1>1, <1>2, <1>3 DEF TakionThread

LEMMA CongestionFrame ==
  CongestionThread => /\ UNCHANGED <<at, conn, feedback, ccStop, tk, tkStop, inCall, console>>
                      /\ cc \in {"waiting", "sending"}
BY DEF CongestionThread, CongestionStep

LEMMA FeedbackFrame ==
  FeedbackThread => UNCHANGED <<at, conn, fbActive, fsStop, cc, ccStop, tk, tkStop, inCall,
                                console>>
BY DEF FeedbackThread, FeedbackStep

LEMMA CallFrame ==
  ASSUME NEW a \in Apps, SetControllerState(a) \/ CallReturns(a)
  PROVE  UNCHANGED <<at, conn, feedback, cc, ccStop, tk, tkStop, console>>
BY DEF SetControllerState, CallReturns

LEMMA StopFrame ==
  Stop => UNCHANGED <<at, state, finished, remoteDisc, earlyBuf, err, receivers, crypt,
                      feedback, cc, ccStop, tk, tkStop, inCall, console>>
BY DEF Stop

(* The state of the connection against the place of the run thread.        *)

LEMMA StageOK == Inv /\ [Next]_vars => StageInv'
<1> SUFFICES ASSUME Inv, [Next]_vars PROVE StageInv'
  OBVIOUS
<1> USE DEF Inv, StageInv, conn
<1>1. CASE UNCHANGED <<at, state>>
  BY <1>1
<1>2. CASE Connect \/ ConnectFails \/ CongestionStart \/ Sleep
  BY <1>2 DEF Connect, ConnectFails, CongestionStart, Sleep
<1>3. ASSUME NEW e \in {"success", "timeout"},
             AfterConnect(e) \/ AfterBang(e) \/ AfterInfo(e) \/ AfterIdle(e)
      PROVE  StageInv'
  BY <1>3 DEF AfterConnect, AfterBang, AfterInfo, AfterIdle, StopAt
<1>4. CASE FeedbackInit \/ Streaming \/ Heartbeat \/ FeedbackFini \/ FeedbackJoin \/ Disconnect
  BY <1>4 DEF FeedbackInit, Expect, Streaming, Heartbeat, FeedbackFini, FeedbackJoin, Disconnect
<1>5. CASE CongestionStop \/ CongestionJoin \/ Close \/ TakionJoin \/ Free \/ Fini \/ FiniDone
  BY <1>5 DEF CongestionStop, CongestionJoin, Close, TakionJoin, Free, Fini, FiniDone
<1>6. CASE FiniStop
  BY <1>1, <1>6 DEF FiniStop
<1> QED
  BY <1>1, <1>2, <1>3, <1>4, <1>5, <1>6, TakionFrame, CongestionFrame, FeedbackFrame,
     CallFrame, StopFrame DEF Next, RunThread, vars

(* The feedback sender lives exactly while the run thread is connected.    *)

LEMMA FeedbackOK == Inv /\ [Next]_vars => FeedbackInv'
<1> SUFFICES ASSUME TypeOK, StageInv, FeedbackInv, [Next]_vars PROVE FeedbackInv'
  BY DEF Inv
<1> USE DEF FeedbackInv, conn, feedback
<1>1. CASE UNCHANGED <<at, state, feedback, inCall>>
  BY <1>1
<1>2. CASE Connect \/ ConnectFails \/ CongestionStart \/ Sleep
  BY <1>2 DEF Connect, ConnectFails, CongestionStart, Sleep, StageInv
<1>3. ASSUME NEW e \in {"success", "timeout"}, AfterConnect(e) \/ AfterBang(e) \/ AfterInfo(e)
      PROVE  FeedbackInv'
  <2>1. /\ UNCHANGED <<feedback, inCall>> /\ ~fbActive
        /\ at' \in {"close", "cc_stop", "enter", "disconnect", "fb_init"}
        /\ state' # "idle" /\ fs = "none" /\ ~fsStop
    BY <1>3 DEF AfterConnect, AfterBang, AfterInfo, WaitReturns, StopAt, Expect
  <2> QED
    BY <2>1
<1>4. ASSUME NEW e \in {"success", "timeout"}, AfterIdle(e)
      PROVE  FeedbackInv'
  BY <1>4 DEF AfterIdle, WaitReturns
<1>5. CASE FeedbackInit
  <2>1. ~fbActive /\ fs = "none" /\ inCall' = {} /\ ~fsStop /\ fsStop' = fsStop
    BY <1>5 DEF FeedbackInit, FbMutexFree
  <2>2. CASE fs' = "waiting" /\ fbActive' = TRUE /\ at' = "event"
    BY <2>1, <2>2
  <2>3. CASE fs' = fs /\ fbActive' = fbActive /\ at' = "disconnect"
    BY <2>1, <2>3
  <2> QED
    BY <1>5, <2>2, <2>3 DEF FeedbackInit
<1>6. CASE Streaming \/ Heartbeat
  BY <1>6 DEF Streaming, Heartbeat, StageInv
<1>7. CASE FeedbackFini
  BY <1>7 DEF FeedbackFini, FbMutexFree
<1>8. CASE FeedbackJoin \/ Disconnect
  BY <1>8 DEF FeedbackJoin, Disconnect
<1>9. CASE CongestionStop \/ CongestionJoin \/ Close \/ TakionJoin \/ Free \/ Fini \/ FiniDone
  BY <1>9 DEF CongestionStop, CongestionJoin, Close, TakionJoin, Free, Fini, FiniDone
<1>10. CASE FiniStop
  BY <1>1, <1>10 DEF FiniStop
<1>11. CASE FeedbackThread
  BY <1>11 DEF FeedbackThread, FeedbackStep
<1>12. ASSUME NEW a \in Apps, SetControllerState(a) \/ CallReturns(a)
       PROVE  FeedbackInv'
  BY <1>12 DEF SetControllerState, CallReturns
<1> QED
  BY <1>1, <1>2, <1>3, <1>4, <1>5, <1>6, <1>7, <1>8, <1>9, <1>10, <1>11, <1>12,
     TakionFrame, CongestionFrame, StopFrame DEF Next, RunThread, vars

(* What run returns.                                                       *)

LEMMA TakionTells ==
  ASSUME TakionThread
  PROVE  /\ state = "idle" => finished' = finished
         /\ remoteDisc => remoteDisc'
<1> USE DEF TakionStep, InCallback, conn
<1>1. CASE Handshake \/ TakionFails \/ TakionWoken \/ AVBegin \/ AVEnd \/ RemoteDisconnect
  BY <1>1 DEF Handshake, TakionFails, TakionWoken, AVBegin, AVEnd, RemoteDisconnect
<1>2. CASE TakionConnected \/ TakionDisconnect
  <2>1. remoteDisc' = remoteDisc
    BY <1>2 DEF TakionConnected, TakionDisconnect
  <2>2. state # "connect" => finished' = finished
    BY <1>2, Zenon DEF TakionConnected, TakionDisconnect
  <2> QED
    BY <2>1, <2>2
<1>3. ASSUME NEW q \in {"good", "bad"}, Bang(q) \/ StreamInfo(q)
      PROVE  remoteDisc' = remoteDisc /\ (state = "idle" => finished' = finished)
  <2>1. remoteDisc' = remoteDisc
    BY <1>3 DEF Bang, StreamInfo
  <2>2. state # "bang" /\ state # "info" => finished' = finished
    BY <1>3, Zenon DEF Bang, StreamInfo
  <2> QED
    BY <2>1, <2>2
<1> QED
  BY <1>1, <1>2, <1>3 DEF TakionThread

LEMMA ResultOK == Inv /\ [Next]_vars => ResultInv'
<1> SUFFICES ASSUME TypeOK, StageInv, ResultInv, [Next]_vars PROVE ResultInv'
  BY DEF Inv
<1> USE DEF ResultInv, conn
<1>1. CASE UNCHANGED <<at, state, finished, shouldStop, remoteDisc, err>>
  BY <1>1
<1>2. CASE Connect \/ ConnectFails \/ CongestionStart \/ Sleep
  BY <1>2 DEF Connect, ConnectFails, CongestionStart, Sleep, StageInv
<1>3. ASSUME NEW e \in {"success", "timeout"}, AfterConnect(e)
      PROVE  ResultInv'
  <2>1. /\ state = "connect" /\ at \in {"enter", "asleep"}
        /\ UNCHANGED <<shouldStop, remoteDisc>> /\ err \in {"success", "timeout", "failed"}
    BY <1>3 DEF AfterConnect, WaitReturns
  <2>2. \/ shouldStop /\ at' = "close" /\ err' = e /\ state' = state
        \/ at' = "cc_stop" /\ err' = "timeout" /\ state' = state
        \/ at' = "enter" /\ err' = err /\ state' = "bang"
        \/ at' = "disconnect" /\ err' = "failed"
    BY <1>3 DEF AfterConnect, StopAt, Expect
  <2> QED
    BY <2>1, <2>2
<1>4. ASSUME NEW e \in {"success", "timeout"}, AfterBang(e) \/ AfterInfo(e)
      PROVE  ResultInv'
  <2>1. /\ state \in {"bang", "info"} /\ at \in {"enter", "asleep"}
        /\ UNCHANGED <<shouldStop, remoteDisc>> /\ err \in {"success", "timeout", "failed"}
    BY <1>4 DEF AfterBang, AfterInfo, WaitReturns
  <2>2. \/ shouldStop /\ at' = "disconnect" /\ err' = e
        \/ at' = "disconnect" /\ err' = "failed"
        \/ at' = "enter" /\ err' = err /\ state' = "info"
        \/ at' = "fb_init" /\ err' = err /\ state' = state
    BY <1>4 DEF AfterBang, AfterInfo, StopAt
  <2> QED
    BY <2>1, <2>2
<1>5. ASSUME NEW e \in {"success", "timeout"}, AfterIdle(e)
      PROVE  ResultInv'
  BY <1>5 DEF AfterIdle, WaitReturns, CondCheck
<1>6. CASE FeedbackInit
  BY <1>6 DEF FeedbackInit, Expect
<1>7. CASE Streaming \/ Heartbeat \/ FeedbackFini
  BY <1>7 DEF Streaming, Heartbeat, FeedbackFini, StageInv
<1>8. CASE FeedbackJoin
  BY <1>8 DEF FeedbackJoin
<1>9. CASE Disconnect
  <2>1. /\ at = "disconnect" /\ at' = "cc_stop"
        /\ UNCHANGED <<state, finished, shouldStop, remoteDisc>>
    BY <1>9 DEF Disconnect
  <2>2. \/ shouldStop /\ err' = "canceled"
        \/ remoteDisc /\ err' = "disconnected"
        \/ ~shouldStop /\ ~remoteDisc /\ err' = err
    BY <1>9, Zenon DEF Disconnect
  <2> QED
    BY <2>1, <2>2
<1>10. CASE CongestionStop \/ CongestionJoin \/ Close \/ TakionJoin \/ Free \/ Fini \/ FiniDone
  BY <1>10 DEF CongestionStop, CongestionJoin, Close, TakionJoin, Free, Fini, FiniDone
<1>11. CASE FiniStop
  BY <1>1, <1>11 DEF FiniStop
<1>12. CASE TakionThread
  BY <1>12, TakionFrame, TakionTells DEF StageInv
<1>13. CASE Stop
  BY <1>13 DEF Stop
<1> QED
  BY <1>1, <1>2, <1>3, <1>4, <1>5, <1>6, <1>7, <1>8, <1>9, <1>10, <1>11, <1>12, <1>13,
     CongestionFrame, FeedbackFrame, CallFrame DEF Next, RunThread, vars

(* The keys, and who may still use them.                                   *)

LEMMA TakionKeys ==
  ASSUME TypeOK, KeysInv, TakionThread
  PROVE  /\ crypt' => bang' = "good"
         /\ bang' = "unasked" <=> bang = "unasked"
         /\ tk = "closed" => tk' = "closed"
<1> USE DEF TakionStep, InCallback, conn, console, KeysInv
<1>1. CASE Handshake \/ TakionConnected \/ TakionFails \/ TakionWoken \/ TakionDisconnect
  <2>1. crypt' = crypt /\ bang' = bang
    BY <1>1 DEF Handshake, TakionConnected, TakionFails, TakionWoken, TakionDisconnect
  <2>2. tk # "closed"
    BY <1>1 DEF Handshake, TakionConnected, TakionFails, TakionWoken, TakionDisconnect
  <2> QED
    BY <2>1, <2>2
<1>2. CASE AVBegin \/ AVEnd \/ RemoteDisconnect
  BY <1>2 DEF AVBegin, AVEnd, RemoteDisconnect
<1>3. ASSUME NEW q \in {"good", "bad"}, Bang(q)
      PROVE  /\ crypt' => bang' = "good"
             /\ bang' # "unasked" /\ bang # "unasked" /\ tk' = tk
  <2>1. bang = "due" /\ ~crypt /\ bang' = q /\ tk' = tk
    BY <1>3 DEF Bang
  <2>2. crypt' => q = "good"
    BY <1>3, <2>1 DEF Bang
  <2> QED
    BY <2>1, <2>2
<1>4. ASSUME NEW q \in {"good", "bad"}, StreamInfo(q)
      PROVE  crypt' = crypt /\ bang' = bang /\ tk' = tk
  BY <1>4 DEF StreamInfo
<1> QED
  BY <1>1, <1>2, <1>3, <1>4 DEF TakionThread

LEMMA KeysOK == Inv /\ [Next]_vars => KeysInv'
<1> SUFFICES ASSUME TypeOK, StageInv, KeysInv, [Next]_vars PROVE KeysInv'
  BY DEF Inv
<1> USE DEF KeysInv, conn, console
<1>1. CASE UNCHANGED <<at, state, crypt, cc, tk, bang>>
  BY <1>1
<1>2. CASE Connect \/ ConnectFails \/ CongestionStart \/ Sleep
  BY <1>2 DEF Connect, ConnectFails, CongestionStart, Sleep, StageInv
<1>3. ASSUME NEW e \in {"success", "timeout"}, AfterConnect(e)
      PROVE  KeysInv'
  <2>1. bang = "unasked" /\ ~crypt /\ crypt' = crypt
    BY <1>3 DEF AfterConnect
  <2>2. \/ bang' = bang
        \/ bang' = "due" /\ at' = "enter" /\ state' = "bang"
    BY <1>3 DEF AfterConnect, Expect
  <2> QED
    BY <2>1, <2>2
<1>4. ASSUME NEW e \in {"success", "timeout"}, AfterBang(e) \/ AfterInfo(e) \/ AfterIdle(e)
      PROVE  KeysInv'
  <2>1. /\ UNCHANGED <<crypt, cc, tk, bang>> /\ state' \in {state, "info"}
        /\ at' \in {"enter", "disconnect", "fb_init", "heartbeat", "fb_fini"}
    BY <1>4 DEF AfterBang, AfterInfo, AfterIdle, StopAt
  <2> QED
    BY <2>1
<1>5. CASE FeedbackInit \/ Streaming \/ Heartbeat \/ FeedbackFini \/ FeedbackJoin \/ Disconnect
  BY <1>5 DEF FeedbackInit, Expect, Streaming, Heartbeat, FeedbackFini, FeedbackJoin, Disconnect
<1>6. CASE CongestionStop \/ CongestionJoin \/ Close \/ TakionJoin
  BY <1>6 DEF CongestionStop, CongestionJoin, Close, TakionJoin
<1>7. CASE Free \/ Fini \/ FiniDone
  BY <1>7 DEF Free, Fini, FiniDone
<1>8. CASE FiniStop
  BY <1>8 DEF FiniStop
<1>9. CASE TakionThread
  BY <1>9, TakionFrame, TakionKeys
<1>10. CASE CongestionThread
  BY <1>10 DEF CongestionThread, CongestionStep
<1> QED
  BY <1>1, <1>2, <1>3, <1>4, <1>5, <1>6, <1>7, <1>8, <1>9, <1>10,
     FeedbackFrame, CallFrame, StopFrame DEF Next, RunThread, vars

(* The Takion thread lives between connect and close.                      *)

LEMMA TakionThreadOK == Inv /\ [Next]_vars => TakionThreadInv'
<1> SUFFICES ASSUME TypeOK, TakionThreadInv, [Next]_vars PROVE TakionThreadInv'
  BY DEF Inv
<1> USE DEF TakionThreadInv, conn
<1>1. CASE UNCHANGED <<at, receivers, tk>>
  BY <1>1
<1>2. CASE Connect \/ ConnectFails \/ CongestionStart \/ Sleep
  BY <1>2 DEF Connect, ConnectFails, CongestionStart, Sleep
<1>3. ASSUME NEW e \in {"success", "timeout"},
             AfterConnect(e) \/ AfterBang(e) \/ AfterInfo(e) \/ AfterIdle(e)
      PROVE  TakionThreadInv'
  <2>1. /\ UNCHANGED <<receivers, tk>>
        /\ at' \in {"close", "cc_stop", "enter", "disconnect", "fb_init", "heartbeat", "fb_fini"}
    BY <1>3 DEF AfterConnect, AfterBang, AfterInfo, AfterIdle, StopAt
  <2> QED
    BY <2>1
<1>4. CASE FeedbackInit \/ Streaming \/ Heartbeat \/ FeedbackFini \/ FeedbackJoin \/ Disconnect
  BY <1>4 DEF FeedbackInit, Streaming, Heartbeat, FeedbackFini, FeedbackJoin, Disconnect
<1>5. CASE CongestionStop \/ CongestionJoin \/ Close \/ TakionJoin
  BY <1>5 DEF CongestionStop, CongestionJoin, Close, TakionJoin
<1>6. CASE Free \/ Fini \/ FiniStop \/ FiniDone
  BY <1>6 DEF Free, Fini, FiniStop, FiniDone
<1>7. CASE TakionThread
  <2>1. tk \notin {"none", "closed"}
    BY <1>7 DEF TakionThread, Handshake, TakionConnected, TakionFails, TakionWoken,
                TakionDisconnect,
                AVBegin, AVEnd, RemoteDisconnect, Bang, StreamInfo, TakionStep, InCallback
  <2> QED
    BY <1>7, <2>1, TakionFrame
<1> QED
  BY <1>1, <1>2, <1>3, <1>4, <1>5, <1>6, <1>7,
     CongestionFrame, FeedbackFrame, CallFrame, StopFrame DEF Next, RunThread, vars

(* The STREAMINFO, before, between and after.                              *)

LEMMA TakionInfo ==
  ASSUME TypeOK, InfoInv, TakionThread
  PROVE  InfoInv'
<1> USE DEF TakionStep, InCallback, conn, console, InfoInv, Waiting
<1>1. CASE Handshake \/ TakionFails \/ TakionWoken \/ AVBegin \/ AVEnd
  BY <1>1 DEF Handshake, TakionFails, TakionWoken, AVBegin, AVEnd
<1>2. CASE RemoteDisconnect
  BY <1>2 DEF RemoteDisconnect
<1>3. CASE TakionConnected \/ TakionDisconnect
  <2>1. UNCHANGED <<at, state, earlyBuf, bang, info>>
    BY <1>3 DEF TakionConnected, TakionDisconnect
  <2>2. state # "connect" => finished' = finished
    BY <1>3, Zenon DEF TakionConnected, TakionDisconnect
  <2> QED
    BY <2>1, <2>2
<1>4. ASSUME NEW q \in {"good", "bad"}, Bang(q)
      PROVE  InfoInv'
  <2>1. /\ UNCHANGED <<at, state, earlyBuf, info>>
        /\ bang = "due" /\ bang' = q
    BY <1>4 DEF Bang
  <2>2. state # "bang" => finished' = finished
    BY <1>4, Zenon DEF Bang
  <2> QED
    BY <2>1, <2>2
<1>5. ASSUME NEW q \in {"good", "bad"}, StreamInfo(q)
      PROVE  InfoInv'
  <2>1. /\ UNCHANGED <<at, state, bang>>
        /\ bang # "unasked" /\ info = "none" /\ info' = q
    BY <1>5 DEF StreamInfo
  <2>2. state = "info" /\ q = "good" => finished'
    BY <1>5, Zenon DEF StreamInfo
  <2>3. state = "bang" /\ earlyBuf = "none" => earlyBuf' = q
    BY <1>5 DEF StreamInfo
  <2> QED
    BY <2>1, <2>2, <2>3
<1> QED
  BY <1>1, <1>2, <1>3, <1>4, <1>5 DEF TakionThread

LEMMA InfoOK == Inv /\ [Next]_vars => InfoInv'
<1> SUFFICES ASSUME TypeOK, StageInv, KeysInv, InfoInv, [Next]_vars PROVE InfoInv'
  BY DEF Inv
<1> USE DEF InfoInv, Waiting, conn, console
<1>1. CASE UNCHANGED <<at, state, finished, earlyBuf, bang, info>>
  BY <1>1
<1>2. CASE Connect \/ ConnectFails \/ CongestionStart \/ Sleep
  BY <1>2 DEF Connect, ConnectFails, CongestionStart, Sleep, StageInv
<1>3. ASSUME NEW e \in {"success", "timeout"}, AfterConnect(e)
      PROVE  InfoInv'
  <2>1. bang = "unasked" /\ UNCHANGED <<earlyBuf, info>>
    BY <1>3 DEF AfterConnect, KeysInv
  <2>2. \/ at' \in {"close", "cc_stop", "disconnect"}
        \/ at' = "enter" /\ state' = "bang"
    BY <1>3 DEF AfterConnect, Expect, StopAt
  <2> QED
    BY <2>1, <2>2
<1>4. ASSUME NEW e \in {"success", "timeout"}, AfterBang(e)
      PROVE  InfoInv'
  <2>1. Waiting /\ state = "bang" /\ UNCHANGED <<bang, info>> /\ earlyBuf = info
    BY <1>4 DEF AfterBang, WaitReturns
  <2>2. \/ at' = "disconnect" /\ earlyBuf' = earlyBuf
        \/ at' = "enter" /\ state' = "info" /\ finished' = (earlyBuf = "good")
             /\ earlyBuf' = "none"
    BY <1>4, Zenon DEF AfterBang, StopAt
  <2> QED
    BY <2>1, <2>2
<1>5. ASSUME NEW e \in {"success", "timeout"}, AfterInfo(e) \/ AfterIdle(e)
      PROVE  InfoInv'
  BY <1>5 DEF AfterInfo, AfterIdle, StopAt
<1>6. CASE FeedbackInit \/ Streaming \/ Heartbeat \/ FeedbackFini \/ FeedbackJoin \/ Disconnect
  BY <1>6 DEF FeedbackInit, Expect, Streaming, Heartbeat, FeedbackFini, FeedbackJoin,
              Disconnect, StageInv
<1>7. CASE CongestionStop \/ CongestionJoin \/ Close \/ TakionJoin \/ Free \/ Fini \/ FiniDone
  BY <1>7 DEF CongestionStop, CongestionJoin, Close, TakionJoin, Free, Fini, FiniDone
<1>8. CASE FiniStop
  BY <1>1, <1>8 DEF FiniStop
<1>9. CASE TakionThread
  BY <1>9, TakionInfo
<1> QED
  BY <1>1, <1>2, <1>3, <1>4, <1>5, <1>6, <1>7, <1>8, <1>9,
     CongestionFrame, FeedbackFrame, CallFrame, StopFrame DEF Next, RunThread, vars

LEMMA StepOK == Inv /\ [Next]_vars => Inv'
BY TypeStepOK, StageOK, FeedbackOK, ResultOK, KeysOK, TakionThreadOK, InfoOK DEF Inv
-----------------------------------------------------------------------------
\* The state keeps its shape; at most one thread is in the feedback sender.
THEOREM StreamTypeOK == Spec => []TypeOK
BY InitOK, StepOK, PTL DEF Spec, Inv

\* Application threads are in the feedback sender only while it is initialised.
THEOREM StreamGuardsFeedbackSender == Spec => []FeedbackSenderGuarded
<1>1. Inv => FeedbackSenderGuarded
  BY DEF Inv, FeedbackInv, FeedbackSenderGuarded
<1> QED
  BY <1>1, InitOK, StepOK, PTL DEF Spec

\* What run returns is what happened.
THEOREM StreamResultTrue == Spec => []ResultTrue
<1>1. Inv => ResultTrue
  BY DEF Inv, ResultInv, ResultTrue
<1> QED
  BY <1>1, InitOK, StepOK, PTL DEF Spec

\* Nobody uses the keys when they are freed.
THEOREM StreamKeysOutliveUsers == Spec => []KeysOutliveUsers
<1>1. Inv => KeysOutliveUsers
  BY DEF Inv, FeedbackInv, KeysInv, KeysOutliveUsers
<1> QED
  BY <1>1, InitOK, StepOK, PTL DEF Spec

\* The Takion thread hands packets only to receivers that are there.
THEOREM StreamReceiversOutliveTakion == Spec => []ReceiversOutliveTakion
<1>1. Inv => ReceiversOutliveTakion
  BY DEF Inv, TakionThreadInv, ReceiversOutliveTakion
<1> QED
  BY <1>1, InitOK, StepOK, PTL DEF Spec

\* A good STREAMINFO is not waited for in vain, however it and the BANG arrive.
THEOREM StreamInfoArrives == Spec => []StreamInfoNotMissed
<1>1. Inv => StreamInfoNotMissed
  BY DEF Inv, InfoInv, Waiting, StreamInfoNotMissed
<1> QED
  BY <1>1, InitOK, StepOK, PTL DEF Spec
=============================================================================
