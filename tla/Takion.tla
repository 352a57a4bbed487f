------------------------------- MODULE Takion -------------------------------
(***************************************************************************)
(* chiaki/src/takion.c: the Takion thread, which connects to the console,  *)
(* receives its packets, puts control messages back in order, acknowledges *)
(* them and keeps back what it may not handle before the keys are there.   *)
(* The console and the datagram network between the two are external: the  *)
(* network loses, reorders, duplicates and damages packets, the console    *)
(* sends a message again until it is acknowledged.                         *)
(*                                                                         *)
(* The reorder queue is the window of ReorderWindow.tla (MCReorderQueue    *)
(* checks that the ring buffer implements it); position 0 is the message   *)
(* the console numbers with its own tag, seq_num_remote_initial.           *)
(***************************************************************************)
EXTENDS ReorderWindow, FiniteSets

CONSTANTS AVs,          \* audio and video packets
          KeyPos,       \* position of the message whose handler sets the keys (BANG)
          EnableCrypt,  \* takion->enable_crypt; FALSE for Senkusha
          PostponeMax,  \* TAKION_POSTPONE_PACKETS_SIZE
          NetMax        \* bound: packets in flight at a time

ASSUME TakionAssumption == /\ EnableCrypt \in BOOLEAN
                           /\ PostponeMax \in Nat /\ NetMax \in Nat \ {0}

VARIABLES pc,         \* where takion_thread_func is
          crypt,      \* gkcrypt_remote is set
          cryptAvail, \* crypt_available, the thread's local copy
          postponed,  \* postponed_packets
          last,       \* takion_flush_data_queue: seq_num and ack, -1 for none
          stop,       \* a byte is in the stop pipe
          avSeen,     \* ghost: AV packets passed to the connection
          net,        \* external: packets on their way to the client
          toConsole,  \* external: handshake messages on their way to the console
          acks,       \* external: acknowledgements on their way to the console
          console     \* external: [up, sent, acked] as the console knows it

thread == <<pc, crypt, cryptAvail, postponed, last, stop, avSeen>>
outside == <<net, toConsole, acks, console>>
vars == <<windowVars, thread, outside>>

Control(k) == [kind |-> k, id |-> "none", good |-> TRUE]
Data == [kind : {"data"}, id : Positions, good : BOOLEAN]
AV == [kind : {"av"}, id : AVs, good : BOOLEAN]
Packet == Data \cup AV \cup {Control("init_ack"), Control("cookie_ack")}

Alive == pc \notin {"ended", "crashed"}
Delivered == {delivered[i] : i \in DOMAIN delivered}

Init == /\ evicting = FALSE /\ next = 0 /\ have = {} /\ delivered = << >>
        /\ pc = "init"
        /\ crypt = FALSE /\ cryptAvail = FALSE
        /\ postponed = << >> /\ last = -1 /\ stop = FALSE
        /\ avSeen = {}
        /\ net = {} /\ toConsole = {} /\ acks = {}
        /\ console = [up |-> FALSE, sent |-> 0, acked |-> 0]
-----------------------------------------------------------------------------
(* The handshake, takion_handshake.  Each wait ends with a packet, after   *)
(* five seconds or when the thread is told to stop; nothing is sent twice. *)

Goto(l) == /\ pc' = l
           /\ UNCHANGED <<crypt, cryptAvail, postponed, last, stop, avSeen>>

SendInit == /\ pc = "init"
            /\ \/ toConsole' = toConsole \cup {"init"} /\ Goto("init_ack")
               \/ UNCHANGED toConsole /\ Goto("beach")   \* send fails
            /\ UNCHANGED <<windowVars, net, acks, console>>

\* takion_recv_message_init_ack and the cookie; any other packet ends it
RecvInitAck(p) ==
  /\ pc = "init_ack" /\ ~stop
  /\ IF p = Control("init_ack")
     THEN \/ toConsole' = toConsole \cup {"cookie"} /\ Goto("cookie_ack")
          \/ UNCHANGED toConsole /\ Goto("beach")
     ELSE UNCHANGED toConsole /\ Goto("beach")
  /\ UNCHANGED <<windowVars, net, acks, console>>

\* takion_recv_message_cookie_ack: one more INIT_ACK is passed over
RecvCookieAck(p) ==
  /\ pc \in {"cookie_ack", "cookie_ack2"} /\ ~stop
  /\ CASE p = Control("cookie_ack") -> Goto("top")
       [] p = Control("init_ack") /\ pc = "cookie_ack" -> Goto("cookie_ack2")
       [] OTHER -> Goto("beach")
  /\ UNCHANGED <<windowVars, outside>>

\* the timeout of five seconds, or the stop pipe
HandshakeGivesUp == /\ pc \in {"init_ack", "cookie_ack", "cookie_ack2"}
                    /\ Goto("beach")
                    /\ UNCHANGED <<windowVars, outside>>
-----------------------------------------------------------------------------
(* The receive loop of takion_thread_func.                                 *)

\* Mutant of MacOK: packets are refused until the keys are there
MacOKOnlyKeyed(p) == crypt /\ p.good

\* takion_handle_packet_mac: without a key every packet passes
MacOK(p) == crypt => p.good

\* Mutant of MustPostpone: AV packets are handled at once
MustPostponeNever == FALSE

MustPostpone == EnableCrypt /\ ~crypt

\* lines 917-937: the keys have come.  peek is called without a place for the
\* sequence number and writes there as soon as it finds an element.
Recheck == EnableCrypt /\ ~cryptAvail /\ crypt

RecheckCrashes == /\ pc = "top" /\ Recheck /\ have # {}
                  /\ pc' = "crashed" /\ cryptAvail' = TRUE
                  /\ UNCHANGED <<windowVars, crypt, postponed, last, stop, avSeen, outside>>

\* lines 917-954: nothing to check again; then the postponed packets are handled
Top == /\ pc = "top" /\ ~(Recheck /\ have # {})
       /\ pc' = "recv"
       /\ cryptAvail' = (cryptAvail \/ Recheck)
       /\ IF crypt
          THEN /\ avSeen' = avSeen \cup {postponed[i] : i \in {j \in DOMAIN postponed : MacOK(postponed[j])}}
               /\ postponed' = << >>
          ELSE UNCHANGED <<avSeen, postponed>>
       /\ UNCHANGED <<windowVars, crypt, last, stop, outside>>

\* takion_handle_packet_message_data: push, then flush
RecvData(p) == /\ p \in Data /\ MacOK(p)
               /\ \/ Accept(p.id)
                  \/ p.id \notin Window \ have /\ UNCHANGED windowVars
               /\ pc' = "flush" /\ last' = -1
               /\ UNCHANGED <<crypt, cryptAvail, postponed, stop, avSeen>>

\* Mutant of HasRoom: off by one
HasRoomOffByOne == Len(postponed) <= PostponeMax

HasRoom == Len(postponed) < PostponeMax

\* takion_handle_packet_av, or takion_postpone_packet while there is room
RecvAV(p) == /\ p \in AV /\ MacOK(p)
             /\ pc' = "top"
             /\ IF MustPostpone
                THEN /\ postponed' = IF HasRoom
                                     THEN Append(postponed, p) ELSE postponed
                     /\ UNCHANGED avSeen
                ELSE avSeen' = avSeen \cup {p} /\ UNCHANGED postponed
             /\ UNCHANGED <<windowVars, crypt, cryptAvail, last, stop>>

\* a damaged packet, or one of a kind this loop does not know
RecvOther(p) == /\ ~MacOK(p) \/ p \notin Data \cup AV
                /\ Goto("top") /\ UNCHANGED windowVars

Recv(p) == /\ pc = "recv" /\ ~stop
           /\ RecvData(p) \/ RecvAV(p) \/ RecvOther(p)
           /\ UNCHANGED outside

\* takion_flush_data_queue pulls one message and hands it to the connection;
\* the handler of BANG calls chiaki_takion_set_crypt
Flush == /\ pc = "flush" /\ Deliver
         /\ last' = next
         /\ crypt' = (crypt \/ (EnableCrypt /\ next = KeyPos))
         /\ UNCHANGED <<pc, cryptAvail, postponed, stop, avSeen, outside>>

\* Mutant of AckSeq: the number expected next, as TCP would acknowledge it
AckSeqNext == next

AckSeq == last

\* one cumulative acknowledgement, if anything was pulled; sending it may fail
FlushEnd == /\ pc = "flush" /\ next \notin have
            /\ acks' \in {acks, IF last # -1 THEN acks \cup {AckSeq} ELSE acks}
            /\ Goto("top")
            /\ UNCHANGED <<windowVars, net, toConsole, console>>

\* Mutant of StopSeen: the stop pipe is not selected on
StopSeenNever == FALSE

StopSeen == stop

\* the stop pipe wins over the socket; a socket error ends the loop as well
RecvEnds == /\ pc = "recv" /\ StopSeen
            /\ Goto("fini") /\ UNCHANGED <<windowVars, outside>>
RecvFails == /\ pc = "recv" /\ ~stop
             /\ Goto("fini") /\ UNCHANGED <<windowVars, outside>>

\* line 975: chiaki_takion_send_buffer_fini signals the resend thread and joins
\* it.  A signal that falls between that thread's test and its sleep without a
\* timeout is lost (TakionSendBuffer!FiniReturns) and the join does not return,
\* unless a message sent meanwhile wakes the resend thread.
SendBufferFini == /\ pc = "fini"
                  /\ Goto("beach") \/ Goto("signal_lost")
                  /\ UNCHANGED <<windowVars, outside>>
WokenByPush == /\ pc = "signal_lost"
               /\ Goto("beach") /\ UNCHANGED <<windowVars, outside>>

\* lines 977-994: the queue is freed, DISCONNECT is reported, the socket closed
Beach == /\ pc = "beach"
         /\ Goto("ended") /\ UNCHANGED <<windowVars, outside>>

\* chiaki_takion_close, by the thread that runs the connection
Stop == /\ ~stop /\ stop' = TRUE
        /\ UNCHANGED <<windowVars, pc, crypt, cryptAvail, postponed, last, avSeen, outside>>

Thread == \/ SendInit \/ HandshakeGivesUp
          \/ \E p \in net : RecvInitAck(p) \/ RecvCookieAck(p) \/ Recv(p)
          \/ RecheckCrashes \/ Top \/ Flush \/ FlushEnd
          \/ RecvEnds \/ RecvFails \/ SendBufferFini \/ WokenByPush \/ Beach
-----------------------------------------------------------------------------
(* The console and the network.                                            *)

\* into a full network at the cost of another packet
Send(p) == \/ /\ Cardinality(net \cup {p}) <= NetMax
              /\ net' = net \cup {p}
           \/ /\ Cardinality(net \cup {p}) > NetMax
              /\ \E q \in net : net' = (net \ {q}) \cup {p}

ConsoleShakes == /\ \/ /\ "init" \in toConsole /\ Send(Control("init_ack"))
                       /\ UNCHANGED console
                    \/ /\ "cookie" \in toConsole /\ Send(Control("cookie_ack"))
                       /\ console' = [console EXCEPT !.up = TRUE]
                 /\ UNCHANGED <<windowVars, thread, toConsole, acks>>

ConsoleSends == /\ console.up /\ console.sent \in Positions
                /\ Send([kind |-> "data", id |-> console.sent, good |-> TRUE])
                /\ console' = [console EXCEPT !.sent = @ + 1]
                /\ UNCHANGED <<windowVars, thread, toConsole, acks>>

ConsoleResends(q) == /\ q \in console.acked .. console.sent - 1
                     /\ Send([kind |-> "data", id |-> q, good |-> TRUE])
                     /\ UNCHANGED <<windowVars, thread, toConsole, acks, console>>

ConsoleStreams(a) == /\ console.up
                     /\ Send([kind |-> "av", id |-> a, good |-> TRUE])
                     /\ UNCHANGED <<windowVars, thread, toConsole, acks, console>>

ConsoleAcked(a) == /\ a \in acks
                   /\ acks' = acks \ {a}
                   /\ console' = [console EXCEPT !.acked = IF @ > a THEN @ ELSE a + 1]
                   /\ UNCHANGED <<windowVars, thread, net, toConsole>>

\* a packet is received as long as it is in net (twice, if it stays), until the
\* network damages or loses it
Damage(p) == /\ p \in net \cap (Data \cup AV)
             /\ net' = (net \ {p}) \cup {[p EXCEPT !.good = FALSE]}
             /\ UNCHANGED <<windowVars, thread, toConsole, acks, console>>

Lose == /\ \/ \E p \in net : net' = net \ {p} /\ UNCHANGED acks
           \/ \E a \in acks : acks' = acks \ {a} /\ UNCHANGED net
        /\ UNCHANGED <<windowVars, thread, toConsole, console>>

Outside == \/ ConsoleShakes \/ ConsoleSends \/ Lose
           \/ \E q \in Positions : ConsoleResends(q) \/ ConsoleAcked(q)
           \/ \E a \in AVs : ConsoleStreams(a)
           \/ \E p \in net : Damage(p)

Next == Thread \/ Stop \/ Outside

Spec == Init /\ [][Next]_vars

\* The thread runs whenever it can, the console keeps sending what is not
\* acknowledged, and a message sent again and again at times when the thread is
\* waiting gets through undamaged.  Nothing wakes a thread that joins for ever.
Fairness == /\ WF_vars(SendInit \/ HandshakeGivesUp \/ RecheckCrashes \/ Top
                       \/ Flush \/ FlushEnd \/ RecvEnds \/ SendBufferFini \/ Beach)
            /\ \A q \in Positions :
                 LET p == [kind |-> "data", id |-> q, good |-> TRUE]
                 IN /\ SF_vars(pc = "recv" /\ ConsoleResends(q))
                    /\ SF_vars(p \in net /\ Recv(p))

FairSpec == Spec /\ Fairness
-----------------------------------------------------------------------------
TypeOK == /\ WindowTypeOK
          /\ pc \in {"init", "init_ack", "cookie_ack", "cookie_ack2", "top",
                     "recv", "flush", "fini", "signal_lost", "beach", "ended", "crashed"}
          /\ {crypt, cryptAvail, stop} \subseteq BOOLEAN
          /\ postponed \in Seq(AV) /\ Len(postponed) <= PostponeMax
          /\ last \in Positions \cup {-1}
          /\ avSeen \subseteq AV
          /\ net \subseteq Packet /\ acks \subseteq Positions
          /\ toConsole \subseteq {"init", "cookie"}
          /\ console \in [up : BOOLEAN, sent : Nat, acked : Nat]

\* Messages reach the connection in the order the console numbered them, each
\* once and none left out (takion_handle_packet_message_data,
\* takion_flush_data_queue).
DeliveredInOrder == InOrder /\ NoGap

\* The console forgets a message when it is acknowledged, so an acknowledgement,
\* under way or received, only covers messages the connection has been handed.
AckedWasDelivered == /\ \A a \in acks : 0 .. a \subseteq Delivered
                     /\ 0 .. console.acked - 1 \subseteq Delivered

\* With encryption on, no audio or video packet reaches the connection without
\* a valid MAC: not the ones that came before the keys either (takion.h:137-139).
AVChecked == EnableCrypt => \A p \in avSeen : p.good

\* takion.c:924 hands peek no place for the sequence number.  reorderqueue.h:114:
\* "pointer where the sequence number of the peeked packet is written".
NoNullWrite == pc # "crashed"

\* The thread joins a resend thread that sleeps through its stop.
JoinsForEver == pc = "signal_lost"

\* A message the console sends is delivered, or the thread ends or joins for ever.
EventuallyDelivered == \A q \in Positions :
  console.sent > q ~> (q \in Delivered \/ ~Alive \/ JoinsForEver)

\* chiaki_takion_close ends the thread wherever the stop catches it, but for a
\* join of the resend thread that does not return (takionsendbuffer.c:71-74):
\* in the handshake, at any packet, with postponed packets or a flush to do.
StopEnds == stop ~> (~Alive \/ JoinsForEver)
=============================================================================
