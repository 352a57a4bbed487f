-------------------------- MODULE TakionSendBuffer --------------------------
(***************************************************************************)
(* chiaki/src/takionsendbuffer.c with the senders of takion.c: threads     *)
(* send control messages (chiaki_takion_send_message_data) and leave them  *)
(* in the buffer, the Takion thread removes what the console acknowledges, *)
(* a thread of the buffer sends again what is not acknowledged in time and *)
(* gives up after TriesMax times.                                          *)
(*                                                                         *)
(* Message m is the m-th the client numbers, with the wrapping number      *)
(* SeqOf(m).  chiaki_takion_send_buffer_push and _ack run under the mutex  *)
(* from end to end, so each is one step; the resend thread holds it across *)
(* several.  Time is relative: a packet's age is the number of ticks (of   *)
(* the wake-up timeout) since last_send_ms.  The console is external.      *)
(***************************************************************************)
EXTENDS Integers, Sequences, FiniteSets, SeqNum

CONSTANTS Senders,     \* threads that send control messages
          Messages,    \* bound: how many are sent
          M, Start,    \* number of sequence numbers, and the first one used
          BufSize,     \* TAKION_SEND_BUFFER_SIZE
          TriesMax,    \* TAKION_DATA_RESEND_TRIES_MAX
          Timeout,     \* TAKION_DATA_RESEND_TIMEOUT_MS, in ticks
          ScanMax      \* bound: ticks that may pass during one scan

ASSUME BufferAssumption ==
  /\ {Messages, M, Start, BufSize, TriesMax, Timeout, ScanMax} \subseteq Nat
  /\ M % 2 = 0 /\ Messages < M \div 2 /\ BufSize > 0

VARIABLES nextMsg,   \* seq_num_local, as the number of messages so far
          sender,    \* sender -> [at, msg]
          slots, count, \* packets, packets_count
          shouldStop, \* should_stop
          rt,        \* resend thread: [at, i, nowAge, victim]
          fini,      \* chiaki_takion_send_buffer_fini, by the Takion thread
          freed,     \* ghost: message -> times its buffer was freed
          gaveUp,    \* ghost: some packet was found with all its tries used
          acked,     \* ghost: messages covered by a processed acknowledgement
          sent, got  \* external: messages on the wire, and with the console

data == <<slots, count>>
ghosts == <<freed, gaveUp, acked>>
vars == <<nextMsg, sender, data, shouldStop, rt, fini, ghosts, sent, got>>

Msgs == 0 .. Messages - 1
SeqOf(m) == SeqAdd(M, Start, m)
AgeMax == Timeout + 1 + ScanMax   \* older is not distinguished
Free == [msg |-> -1, tries |-> 0, age |-> 0]

Buffered == {slots[i].msg : i \in 1 .. count}
Locked == rt.at \in {"check", "commit", "scan"}   \* the resend thread has the mutex
Scanning == rt.at \in {"scan", "gaveup", "victim", "acked"}

Init == /\ nextMsg = 0
        /\ sender = [t \in Senders |-> [at |-> "idle", msg |-> -1]]
        /\ slots = [i \in 1 .. BufSize |-> Free] /\ count = 0
        /\ shouldStop = FALSE
        /\ rt = [at |-> "check", i |-> 1, nowAge |-> 0, victim |-> -1]
        /\ fini = "no"
        /\ freed = [m \in Msgs |-> 0] /\ gaveUp = FALSE /\ acked = {}
        /\ sent = {} /\ got = {}
-----------------------------------------------------------------------------
(* A sender, in chiaki_takion_send_message_data.  The functions of takion.h *)
(* may be called while Takion runs, so senders begin before fini does and  *)
(* fini waits for them here; StreamConnection.tla is about that condition. *)

\* lines 578-582: take the next sequence number
Number(t) == /\ sender[t].at = "idle" /\ nextMsg < Messages /\ fini = "no"
             /\ sender' = [sender EXCEPT ![t] = [at |-> "send", msg |-> nextMsg]]
             /\ nextMsg' = nextMsg + 1
             /\ UNCHANGED <<data, shouldStop, rt, fini, ghosts, sent, got>>

\* line 590: the message is on the wire before it is in the buffer
SendNow(t) == /\ sender[t].at = "send"
              /\ sent' = sent \cup {sender[t].msg}
              /\ sender' = [sender EXCEPT ![t].at = "push"]
              /\ UNCHANGED <<nextMsg, data, shouldStop, rt, fini, ghosts, got>>

\* lines 591-596: sending fails; the number stays used
SendFails(t) == /\ sender[t].at = "send"
                /\ freed' = [freed EXCEPT ![sender[t].msg] = @ + 1]
                /\ sender' = [sender EXCEPT ![t] = [at |-> "idle", msg |-> -1]]
                /\ UNCHANGED <<nextMsg, data, shouldStop, rt, fini, gaveUp, acked, sent, got>>

\* pthread_cond_signal, by a thread that may or may not hold the mutex
Signalled == [rt EXCEPT !.at = IF @ = "asleep" THEN "woken" ELSE @]

\* Mutant of Full: off by one
FullOffByOne == count > BufSize

Full == count >= BufSize

\* chiaki_takion_send_buffer_push; send_message_data ignores its result
Push(t) ==
  /\ sender[t].at = "push" /\ ~Locked
  /\ LET m == sender[t].msg
     IN IF Full \/ m \in Buffered
        THEN /\ freed' = [freed EXCEPT ![m] = @ + 1]
             /\ UNCHANGED <<data, rt>>
        ELSE /\ slots' = [slots EXCEPT ![count + 1] = [Free EXCEPT !.msg = m]]
             /\ count' = count + 1
             /\ rt' = IF count = 0 THEN Signalled ELSE rt
             /\ UNCHANGED freed
  /\ sender' = [sender EXCEPT ![t] = [at |-> "idle", msg |-> -1]]
  /\ UNCHANGED <<nextMsg, shouldStop, fini, gaveUp, acked, sent, got>>
-----------------------------------------------------------------------------
(* chiaki_takion_send_buffer_ack                                           *)

\* Mutant of Covered: the numbers compared as plain integers
CoveredPlain(m, a) == SeqOf(m) <= SeqOf(a)

Covered(m, a) == SeqLe(M, SeqOf(m), SeqOf(a))

\* Mutant of Compacted: the final memmove is missing
CompactedNot(keep) == slots

\* the packets kept move to the front in order; what memmove leaves behind the
\* last one stays in memory (only its number is read again)
Compacted(keep) == [i \in 1 .. BufSize |->
  IF i <= Cardinality(keep)
  THEN slots[CHOOSE k \in keep : Cardinality({j \in keep : j <= k}) = i]
  ELSE [Free EXCEPT !.msg = slots[i].msg]]

Ack(a) == LET gone == {i \in 1 .. count : Covered(slots[i].msg, a)}
          IN /\ slots' = Compacted((1 .. count) \ gone)
             /\ count' = count - Cardinality(gone)
             /\ freed' = [m \in Msgs |->
                            freed[m] + Cardinality({i \in gone : slots[i].msg = m})]

\* takion_handle_packet_message_data_ack, with a number the console acknowledged
\* at some time (acknowledgements may be late, repeated or lost)
HandleAck(a) == /\ fini = "no" /\ ~Locked
                /\ 0 .. a \subseteq got
                /\ Ack(a)
                /\ acked' = acked \cup 0 .. a
                /\ UNCHANGED <<nextMsg, sender, shouldStop, rt, fini, gaveUp, sent, got>>
-----------------------------------------------------------------------------
(* takion_send_buffer_thread_func and takion_send_buffer_resend            *)

Others == UNCHANGED <<nextMsg, sender, shouldStop, fini, got>>
Move(l) == rt' = [rt EXCEPT !.at = l]
BeginScan == rt' = [rt EXCEPT !.at = "scan", !.i = 1, !.nowAge = 0]

\* Mutant of Check: the predicate of the wait is packets_count alone
CheckNoStop == /\ rt.at = "check"
               /\ Move(IF count > 0 THEN "timed" ELSE "commit")
               /\ Others /\ UNCHANGED <<data, ghosts, sent>>

\* top of the loop, with the mutex: wait with a timeout if there are packets,
\* else without one, unless told to stop
Check == /\ rt.at = "check"
         /\ Move(CASE shouldStop -> "done" [] ~shouldStop /\ count > 0 -> "timed"
                   [] OTHER -> "commit")
         /\ Others /\ UNCHANGED <<data, ghosts, sent>>

\* chiaki_cond_wait_pred found its predicate false and goes to sleep: a signal
\* between the two, from a thread without the mutex, is lost
Sleep == /\ rt.at = "commit" /\ Move("asleep")
         /\ Others /\ UNCHANGED <<data, ghosts, sent>>

Woken == /\ rt.at = "woken"
         /\ CASE shouldStop -> Move("done") [] ~shouldStop /\ count > 0 -> BeginScan
              [] OTHER -> Move("commit")
         /\ Others /\ UNCHANGED <<data, ghosts, sent>>

\* the wake-up timeout is over, or fini has signalled
TimedWake == /\ rt.at = "timed"
             /\ IF shouldStop THEN Move("done") ELSE BeginScan
             /\ Others /\ UNCHANGED <<data, ghosts, sent>>

\* now - last_send_ms > timeout, in unsigned arithmetic: a packet pushed after
\* `now' was read is due at once
Due(p) == p.age - rt.nowAge > Timeout \/ p.age < rt.nowAge

ScanSkips == /\ rt.at = "scan" /\ rt.i <= count /\ ~Due(slots[rt.i])
             /\ rt' = [rt EXCEPT !.i = @ + 1]
             /\ Others /\ UNCHANGED <<data, ghosts, sent>>

\* Mutant of Retried: the tries are not counted
RetriedUncounted(p) == [p EXCEPT !.age = rt.nowAge]

Retried(p) == [p EXCEPT !.age = rt.nowAge, !.tries = @ + 1]

ScanResends == /\ rt.at = "scan" /\ rt.i <= count /\ Due(slots[rt.i])
               /\ slots[rt.i].tries < TriesMax
               /\ slots' = [slots EXCEPT ![rt.i] = Retried(@)]
               /\ sent' = sent \cup {slots[rt.i].msg}
               /\ rt' = [rt EXCEPT !.i = @ + 1]
               /\ Others /\ UNCHANGED <<count, ghosts>>

\* all tries used: the mutex is released ...
ScanGivesUp == /\ rt.at = "scan" /\ rt.i <= count /\ Due(slots[rt.i])
               /\ slots[rt.i].tries >= TriesMax
               /\ gaveUp' = TRUE
               /\ Move("gaveup")
               /\ Others /\ UNCHANGED <<data, freed, acked, sent>>

\* ... packet->seq_num is read without it, whatever the slot holds by now ...
ReadVictim == /\ rt.at = "gaveup"
              /\ rt' = [rt EXCEPT !.at = "victim", !.victim = slots[rt.i].msg]
              /\ Others /\ UNCHANGED <<data, ghosts, sent>>

\* ... and that number is acknowledged, under the mutex, which is free again ...
AckVictim == /\ rt.at = "victim"
             /\ Ack(rt.victim)
             /\ rt' = [rt EXCEPT !.at = "acked", !.victim = -1]
             /\ Others /\ UNCHANGED <<gaveUp, acked, sent>>

\* ... before it is locked for the rest of the scan, which goes on at the same
\* index, or at the second one if this was the first.
Relock == /\ rt.at = "acked"
          /\ rt' = [rt EXCEPT !.at = "scan", !.i = IF @ > 1 THEN @ ELSE 2]
          /\ Others /\ UNCHANGED <<data, ghosts, sent>>

ScanEnds == /\ rt.at = "scan" /\ rt.i > count
            /\ rt' = [rt EXCEPT !.at = "check", !.i = 1, !.nowAge = 0]
            /\ Others /\ UNCHANGED <<data, ghosts, sent>>

ResendThread == \/ Check \/ Sleep \/ Woken \/ TimedWake
                \/ ScanSkips \/ ScanResends \/ ScanGivesUp \/ ScanEnds
                \/ ReadVictim \/ AckVictim \/ Relock
-----------------------------------------------------------------------------
(* chiaki_takion_send_buffer_fini, without the mutex                       *)

FiniFlag == /\ fini = "no" /\ \A t \in Senders : sender[t].at = "idle"
            /\ fini' = "flagged" /\ shouldStop' = TRUE
            /\ UNCHANGED <<nextMsg, sender, data, rt, ghosts, sent, got>>

FiniSignal == /\ fini = "flagged"
              /\ fini' = "joining" /\ rt' = Signalled
              /\ UNCHANGED <<nextMsg, sender, data, shouldStop, ghosts, sent, got>>

FiniFree == /\ fini = "joining" /\ rt.at = "done"
            /\ fini' = "freed"
            /\ freed' = [m \in Msgs |->
                 freed[m] + Cardinality({i \in 1 .. count : slots[i].msg = m})]
            /\ count' = 0
            /\ UNCHANGED <<nextMsg, sender, slots, shouldStop, rt, gaveUp, acked, sent, got>>
-----------------------------------------------------------------------------
\* a message on the wire reaches the console, or it does not (of no consequence
\* once Takion ends)
Arrives(m) == /\ m \in sent /\ fini = "no" /\ got' = got \cup {m}
              /\ UNCHANGED <<nextMsg, sender, data, shouldStop, rt, fini, ghosts, sent>>

Tick == /\ Scanning => rt.nowAge < ScanMax
        /\ slots' = [i \in DOMAIN slots |->
             [slots[i] EXCEPT !.age = IF i <= count /\ @ < AgeMax THEN @ + 1 ELSE @]]
        /\ rt' = IF Scanning THEN [rt EXCEPT !.nowAge = @ + 1] ELSE rt
        /\ Others /\ UNCHANGED <<count, ghosts, sent>>

Next == \/ \E t \in Senders : Number(t) \/ SendNow(t) \/ SendFails(t) \/ Push(t)
        \/ \E m \in Msgs : HandleAck(m) \/ Arrives(m)
        \/ ResendThread
        \/ FiniFlag \/ FiniSignal \/ FiniFree
        \/ Tick

Spec == Init /\ [][Next]_vars

\* Time passes, the resend thread gets the processor and the mutex (which the
\* others hold for one step at a time), and fini goes on once begun.
FairSpec == /\ Spec
            /\ WF_vars(Tick) /\ WF_vars(ResendThread)
            /\ WF_vars(FiniSignal) /\ WF_vars(FiniFree)
            /\ \A t \in Senders : WF_vars(Push(t))
-----------------------------------------------------------------------------
TypeOK == /\ nextMsg \in 0 .. Messages
          /\ sender \in [Senders -> [at : {"idle", "send", "push"}, msg : Msgs \cup {-1}]]
          /\ count \in 0 .. BufSize
          /\ slots \in [1 .. BufSize -> [msg : Msgs \cup {-1}, tries : 0 .. TriesMax,
                                         age : 0 .. AgeMax]]
          /\ shouldStop \in BOOLEAN
          /\ rt \in [at : {"check", "commit", "asleep", "woken", "timed", "scan",
                           "gaveup", "victim", "acked", "done"},
                     i : 1 .. BufSize + 1, nowAge : 0 .. ScanMax, victim : Msgs \cup {-1}]
          /\ fini \in {"no", "flagged", "joining", "freed"}
          /\ freed \in [Msgs -> Nat]
          /\ gaveUp \in BOOLEAN /\ acked \subseteq Msgs
          /\ sent \subseteq Msgs /\ got \subseteq Msgs

\* The buffer of a message a sender is done with is either in exactly one slot
\* or was freed exactly once, by push, by ack, by giving up or by fini
\* (takionsendbuffer.h: "ownership of this is taken").
OwnedOnce == \A m \in Msgs :
  LET held == Cardinality({i \in 1 .. count : slots[i].msg = m})
      busy == m >= nextMsg \/ \E t \in Senders : sender[t].msg = m
  IN freed[m] + held = IF busy THEN 0 ELSE 1

\* As long as no packet has used up its tries, a message the buffer took leaves
\* it only when the console has acknowledged it, although the senders may push
\* their messages in another order than they numbered them.
KeptUntilAcked == [][(~gaveUp' /\ fini' # "freed") => Buffered \ acked' \subseteq Buffered']_vars

\* A message does not stay in the buffer for ever: it is acknowledged or given
\* up, whatever the network does.
EventuallyLeaves == \A m \in Msgs : m \in Buffered ~> m \notin Buffered

\* fini returns if its signal finds the resend thread anywhere but on its way
\* to sleep without a timeout.
FiniReturns == (fini = "joining" /\ rt.at \notin {"commit", "asleep"}) ~> fini = "freed"
=============================================================================
