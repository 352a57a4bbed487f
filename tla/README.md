# A model of the chiaki client in this repository

The repository is an iOS client for PlayStation remote play: a C library
(`src/PSStreaming/chiaking/chiaki`, below just `chiaki/`), an Objective-C++ SDK on top
of it (`src/PSStreaming/PSStreamingSDK.mm`) and a demo. The library connects to a
console, negotiates a session over TCP, streams over UDP with its own reliable layer
(Takion) and runs about eight threads per session. The specifications here model the
threads, the order of their steps and the state they share; the data they carry is
reduced to what the properties tell apart.

## 1. The system

| Part | State it keeps | Operations | Runs on |
|---|---|---|---|
| Reorder queue `reorderqueue.c`, `seqnum.h` | ring of slots (number, user, set), begin, count, drop strategy | push, pull, peek, drop | the Takion thread |
| Takion `takion.c` | handshake stage, data queue, postponed packets, keys, numbers and key positions of what it sends | connect, send data, send ack, receive loop, set keys, close | its thread; senders on any thread |
| Send buffer `takionsendbuffer.c` | array of sent, unacknowledged packets, stop flag | push, ack, resend, give up, fini | senders, the Takion thread, its own thread |
| Stream connection `streamconnection.c` | stage, finished, stop, remote disconnect, an early STREAMINFO, keys, receivers, the feedback sender and its flag | run, stop, callbacks, fini | the session thread, the Takion thread, the application |
| Congestion control, feedback sender | stop flag; last controller state and history | start, stop, set state | one thread each |
| Session `session.c` | stop, ctrl failed, session id, PIN, reason to quit, under `state_mutex` | start, stop, set PIN, join; events to the application | its thread, the application |
| Ctrl `ctrl.c` | socket, receive buffer, message queue, PIN, stop, under `notif_mutex`; a notification pipe | connect, receive, send, handlers | its thread, session thread, application |
| Stop pipe, thread wrappers | a pipe that is readable once stopped; condition variables with predicates | stop, select, reset; timed waits | everywhere |
| Video receiver `videoreceiver.c`, frame processor `frameprocessor.c` | numbers of the current, last and last complete frame, profile, reference frames; the units of a frame | av packet, flush, report of missing frames | the Takion thread |
| Audio receiver `audioreceiver.c` | number of the last sound frame, a start-up flag | av packet | the Takion thread |
| Packet statistics `packetstats.c` | packets received and lost, by generation and by number | push, read and reset | the Takion thread, congestion control |
| GKCrypt `gkcrypt.c` | a ring of key stream filled ahead, the 64-bit key position | get key stream, request position | a thread of its own, and users |
| Senkusha, registration, discovery | one exchange each | run, stop | one thread each |
| PSN connection `remote/holepunch.c` | progress of the session (bits), queue of notifications, stop flags, under three mutexes | create, start, punch hole, fini; cancel; receive notifications | the caller's thread, a websocket thread, any thread that cancels |
| PSN transport: `remote/rudp.c`, `rudpsendbuffer.c`, `stun.h` | counters, send buffer | send, ack | several |
| SDK `PSStreamingSDK.mm` | session_started, isDisconnecting, scanning flags | connect, disconnect, scan | main queue, event callback |

How they interact. The application starts a *session*; the session thread requests a
session over HTTP, starts the *ctrl* thread (TCP) and waits on `state_cond` for the id
or a request for a PIN. It then measures the path (*senkusha*) and runs the *stream
connection* on its own stack. That opens *Takion*, whose thread calls back into the
stream connection with `state_mutex` taken: CONNECTED, BANG (the keys), STREAMINFO, AV
packets, DISCONNECT. Control messages go through the *send buffer* one way and the
*reorder queue* the other. Congestion control and the feedback sender send over the
same Takion from their threads. A stop goes from the application to the session and to
the stream (flags and condition variables) and to ctrl and Takion (stop pipes).

What is hard in it:

- *Concurrency.* Two mutexes are taken in both orders (`session.c:551` against
  the handlers of `ctrl.c`); locks are given up in the middle of a scan
  (`takionsendbuffer.c:251`); flags are written without a lock (`:71`); a queue entry is
  announced after its lock is released (`ctrl.c:232-233`).
- *Order and loss.* UDP loses, repeats and reorders; sequence numbers wrap; messages may
  come before the keys that authenticate them, or before the stage that expects them.
- *Ends.* A stop can come anywhere, and every stage has its own exit label; buffers,
  keys and receivers belong to one thread and are used by others.
- *Timeouts.* A timed wait may report a timeout although the event has arrived.
- *Mixed frames.* Units of several frames arrive interleaved; a frame is put together
  early, late or not at all, and what is missing has to be told to the console once.
- *Locks that stay.* In `holepunch.c` some returns leave a mutex locked, and another
  thread unlocks one that it does not hold.

`PROJECT.json` lists the hazards with their lines and the properties that watch them.

### What makes each part correct

- Queue: hands numbers out in order, each element exactly once, and accepts what the
  window has room for, also across the wrap.
- Takion: messages in order without a gap; acknowledges only what was handed over; with
  encryption, no AV packet reaches the application without a valid MAC; delivers in the
  end; stops when told.
- Send buffer: one owner per buffer; a packet stays until it is acknowledged or given
  up; every packet leaves; the end does not hang.
- Stream connection: what lives is used and what is used lives (feedback sender,
  receivers, keys, Takion); no good STREAMINFO is missed; the result is what happened; it
  returns when stopped.
- Session and ctrl: PINs and messages go out once and in order; no wake-up is lost; the
  reason reported is final; a stopped session quits.
- Media: pictures and sound frames go out once and in order; the console hears of every
  missing frame and of no other; a picture is whole, of one frame, with the header of its
  profile and a reference the decoder has; what is received is counted once.
- PSN connection: every step returns; a cancel ends the step it meets; a step that
  succeeds did what it is for; nothing is freed under the websocket thread.

## 2. The modules

| Module | Models | How |
|---|---|---|
| `SeqNum` | `seqnum.h`, `reorderqueue.c:8-46` | comparison modulo M, and addition as at the width in use, 32 bits (`takion.c:896`); at 16 bits `reorderqueue.c:37` keeps the carry |
| `ReorderWindow` | what the queue promises | the abstract queue: true positions, `next`, the set held, the history delivered |
| `ReorderQueue` | `reorderqueue.c` | the ring itself; `Abstract` is the refinement mapping to the window |
| `Takion` | the Takion thread of `takion.c` | EXTENDS `ReorderWindow` for its data queue; path and console are external |
| `TakionSendBuffer` | `takionsendbuffer.c` and the sender's half of `takion.c` | one action per critical section, the resend thread step by step |
| `StreamConnection` | `streamconnection.c`, the life of `congestioncontrol.c` and `feedbacksender.c`, the Takion thread as seen from there | one action between two points where the run thread waits, blocks or lets another thread in |
| `Session` | `session.c` with `ctrl.c`, without PSN | both threads, the two mutexes, the pipe, the application and the console |
| `FrameProcessor` | `frameprocessor.c` | operators on the record of one frame |
| `VideoReceiver` | `videoreceiver.c` | EXTENDS `FrameProcessor`; operators on the receiver's record, set-valued where the stream or the decoder decides |
| `AudioReceiver` | `audioreceiver.c` | operators on the receiver's record |
| `MediaStream` | what the Takion thread does with AV packets, `packetstats.c`, its reader in `congestioncontrol.c` | EXTENDS `VideoReceiver`, INSTANCE of `AudioReceiver`; the packets are the actions, the unlocked count and the locked reading have steps of their own |
| `Holepunch` | the steps, the websocket thread and cancel of `remote/holepunch.c` | one action between two places where another thread can act; HTTP, JSON and sockets are outcomes |
| `MC*` | | constants for TLC |
| `*_proofs` | | theorems |

Conventions. A variable that says where a thread is (`at`, `pc`, `rt.at`, `sat`, `cat`)
names the place between two of its actions. A critical section nobody can look into is
one action; a mutex is modelled by who rests holding it (`StateMutexFree`,
`SessionHolds`, `CtrlHolds`). Code that no thread can observe in between is merged.
Where the code decides on data that is abstracted (a payload that decodes or does not,
a send that fails), the action has both outcomes. Ghost variables are marked. An
operator whose comment begins with "Mutant of" is a plausible wrong version of the
operator below it and is used by no specification; `PROJECT.json` pairs each with the
property that detects it.

Composition. `Takion` uses the window in place of the ring; that the
ring implements the window (`Refines`) is checked by run `reorder_queue` and proved for
every size by `QueueRefines`, and `WindowCorrect` proves the window. `StreamConnection`
uses the Takion thread as the calls it makes, in an order `Takion` allows; the fairness it assumes of it (it leaves its loop once stopped) is what
`Takion!StopEnds` checks. `Session` uses the stream run as one step whose return after
a stop is what `StreamConnection!StopReturns` checks. One hang goes through all of them:
the end of a send buffer that never returns (`FiniReturns` of `TakionSendBuffer`) is an
outcome of `Takion!SendBufferFini`, of `StreamConnection!TakionFails` and of
`Session!SenkushaHangs` and `StreamHangs`, so that each of the four says what it promises
apart from it. `MediaStream` begins where
`Takion` hands an AV packet over (each at most as often as it arrives, in any order); that
its receivers and the statistics live then is `StreamConnection!ReceiversOutliveTakion`.
`Holepunch` stands alone: the session calls its last step and its end only in the run
with PSN, which `Session` leaves out.

## 3. The runs

Passing runs check that the model, and so the code it translates, has the property.
A run that expects a violation states what a comment of the repository says and shows
that the code does something else. Deadlock is not checked: every instance may rest
(everything handed over, every thread ended), and what must not stop before that is said
by the liveness properties.

| Run | Instance | Shows |
|---|---|---|
| `reorder_queue` | ring of 2, M = 8, positions 4 to 8, each arriving up to twice, one position too late or too far ahead | `SlotsMatch`, `HandedOverOnce`, `AcceptedStays`, refinement of the window |
| `reorder_queue_drop` | the same | violation of `DroppedIsGone` |
| `takion` | three messages, window 3, one AV packet, one postponed, one packet in flight | `DeliveredInOrder`, `AckedWasDelivered`, `AVChecked`, `EventuallyDelivered`, `StopEnds` |
| `takion_recheck` | the same | violation of `NoNullWrite` |
| `send_buffer` | two senders, three messages, two slots, M = 8 from 6, one resend | `OwnedOnce`, `KeptUntilAcked`, `EventuallyLeaves`, `FiniReturns` |
| `stream` | two application threads | eight properties of section 1 |
| `stream_takion_use` | the same | violation of `TakionUsable` |
| `session` | two PINs, one queued message, two console messages | `SentInOrder`, `PipeMeansWork`, `ConsoleIdKept`, `ReasonFinal`, `StopQuits`, `WorkDone` |
| `media` | numbers modulo 6, eight video and eight sound positions, six packets, two readings, two reference frames | `InOrder`, `GapsReported`, `PicturesIntact`, `CountedOnce` |
| `media_loss` | sound only, five packets, two readings | violation of `LossWithinWidth` |
| `holepunch` | at most two notifications wait | `FreedAfterWs`, `CancelHeard`, `StepReturns` |
| `holepunch_start` | the same, without fairness | violation of `StartComplete` |

### What the violations mean

- `DroppedIsGone`: `chiaki_reorder_queue_drop` gives the element to `drop_cb` but leaves
  the slot set (`reorderqueue.c:163-187`); the next pull returns it again.
- `NoNullWrite`: the re-check of `takion.c:924` passes a null pointer for the number and
  `peek` writes through it. It needs a message waiting behind a gap when the keys come:
  a reordering at that moment. It is the only caller of `drop`, so the two belong together.
- `TakionUsable`: a stop during the first wait of `chiaki_stream_connection_run` leaves
  by `close_takion` (`streamconnection.c:233`), not by `err_congestion_control` as the
  failure two lines below does, and congestion control goes on sending. The same
  property also rules out the heartbeat into a send buffer freed by a Takion thread that
  has just ended (`streamconnection.c:322`).
- `LossWithinWidth`: `packetstats.c:71` subtracts two 16-bit numbers as ints and widens
  the result, so an interval in which the numbers wrap (one in 65536 sound packets) has
  lost about 2^64 packets. Congestion control reports the lower 16 bits of it; a comment at
  `congestioncontrol.c:36` wonders about odd numbers after long connections.
- `StartComplete`: an inner `err` (`holepunch.c:1072`) hides the one that is returned, so
  that a start succeeds when somebody else joins the session.

### Properties stated with exceptions

Some properties hold only with an exception that is named in them, because the code
does have the case. The exception of a leads-to has to come back in every behaviour
that never reaches the goal, since the property starts anew in each state: a place the
system only passes through excuses nothing.

- `FiniReturns`: unless the one signal of `chiaki_takion_send_buffer_fini` falls between
  the resend thread's test and its sleep without a timeout (`takionsendbuffer.c:69-74`).
- `StopEnds` and `EventuallyDelivered` of Takion, `StopReturns` and `ConnectSettles` of the
  stream: unless the Takion thread `JoinsForEver`, because it ends the send buffer
  (`takion.c:975`) and that join is the one that does not return. A message sent later
  may wake the resend thread (`WokenByPush`, `TakionWoken`); nothing makes one come.
- `StopQuits`: a stopped session quits unless it is `Embraced` (each thread holds the
  mutex the other needs), `StopDrained` (`ctrl.c:384` drained the byte of the stop
  together with that of a PIN) or `TakionHangs` (senkusha or the stream closes a Takion
  that joins for ever). In the model *every* hang of a stopped session is one of the
  three. The comment at `session.c:708` reports a QUIT event that did not come.
- `WorkDone`: unless the session is `Embraced`, or hangs in senkusha, where it keeps
  `state_mutex` from the ctrl thread.
- `PipeMeansWork`: only without queued messages. With them the byte of `ctrl.c:233` may
  come after the queue was sent, is then never drained, and the ctrl thread spins; it
  still sends PINs, but no longer reads its socket.
- `CountedOnce`: unless a store of `chiaki_packet_stats_push_seq`, which takes no mutex,
  and a reset fell into each other (`raced`); then a count is lost or reported twice.
- `StepReturns`: a step of the PSN connection returns unless it `Hangs`, in one of four
  ways that each do happen. `NeverOpens`: the websocket thread ended before the websocket
  was open, or waits for a server that never answers, in a request whose timeout is set
  to none (`holepunch.c:2011`), and `create` waits for it without one (`:846`). `KeptStop`:
  `wait_for_session_message_ack` has returned with `stop_mutex` locked (`:4767`) and the
  websocket thread, whose unbalanced unlock (`:2085` after a `continue`, `:2228`) usually
  hides this, is waiting for it or gone. `KeptState`: a failed or cancelled step has
  returned with `state_mutex` locked (`:918`, `:954`, `:1131`). `OtherAnswer`: the answer
  to another request stays at the head of the queue and is found over and over (`:4776`).
  A cancel may be one of them: the comment of `chiaki_holepunch_main_thread_cancel`
  promises that it cancels `create`, which it does not while `create` waits at `:846`.

Two things the code does show up in no property, because nothing in the repository says
otherwise. The copies of earlier sound frames in a packet are never used: they come after
the new ones, which have moved `frame_index_prev` on. And a frame whose last unit
overtakes others is given up at once, though the others are on their way
(`videoreceiver.c:191`). `pin_incorrect` of a login prompt means "not the first prompt"
(`session.c:540`), not "the PIN was incorrect" (`session.h:181`).

### Bounds, and why they are enough

- `reorder_queue`: the stream begins at 5, a packet of position 4 may be late, and it runs
  to position 8, whose number is 0 again: every slot is filled, emptied and filled again
  and comparisons are made on both sides of the wrap. A packet may be one position behind
  the window (`Lag`) or one past its end (`Lead`); with M = 8 and two slots, `Lead` can
  be no larger, since the comparison of the code has no meaning beyond half the numbers.
- `takion`: three messages allow a gap with a message waiting behind it, before and after
  the one that brings the keys (`KeyPos = 0`). `NetMax = 1` bounds packets on the path
  at a time, not reordering: a packet stays until lost or replaced and may be received
  again, and the console may send any unacknowledged message next, so every sequence of
  arrivals the thread can see is still there.
- `send_buffer`: three messages for two slots make the buffer overflow; numbers 6, 7, 0
  wrap; one resend reaches the give-up; the tick of `ScanMax` lets time pass during a scan.
- `stream`: apart from `Apps` the state space is finite in the code itself. The mutex of
  the feedback sender admits one application thread, and the second one waits for it.
- `session`: two PINs are the least with which one may replace or overtake another; one
  queued message is enough for the late byte; two console messages are enough for a
  second request, for a rejection after a request, and for two ids.
- `media`: positions run past the wrap of the numbers (M = 6). The comparison has no
  meaning beyond half the numbers, so `Near` admits only packets within that distance of
  the current frame and of the last one taken, which in the code is 32767 frames; for
  sound it does so with each frame of the packet, the copies included. Frames
  have two source units with two redundant ones, or one without, by turns: a frame can be
  complete, restored, given up or late, before and after the profile switch at position
  4. Six packets are enough for two frames between two others to go missing and for the
  decoder to refuse one in between. Two readings have an interval with both ends inside.
- `holepunch`: a wanted notification behind an unwanted one needs two in the queue. All
  other state is finite in the code. `create_offer` (sockets and addresses) is left out.
- `TypeOK` of each module is its only type invariant.

### Fairness

Threads of the library run when they can (WF). Strong fairness is assumed where a
thread waits for a mutex that others take again and again but never keep (the run thread
of the stream; `GivePin` and `QuitCtrl` of the session thread). In `takion`, strong
fairness says that a message that is sent again and again while the thread waits gets
through once; nothing guarantees any particular packet. Nothing is assumed of the user
or of errors, and of the console only, in `takion`, that it resends until acknowledged.
Waits that have a timeout in the code end; waits without one do not, unless signalled:
nothing wakes a Takion thread that joins for ever, nor makes the websocket connect.
In `holepunch` it is also assumed that PSN does not send for ever (`<>[][~Notified]_vars`):
a notification that is not the wanted one restarts the timed wait (`holepunch.c:4600`), and
each wait of a step has its own time (FIXME at `:879`), so otherwise a step need not end. The
application calls `fini` when no other thread is about to cancel, and calls the steps in
the order of `holepunch.h:14-24`. A mutex unlocked by a thread that does not hold it is
taken to become free, as the default mutexes of the platforms do; POSIX leaves it open.

## 4. The proofs

tlapm checks them for every value of the constants that satisfies the named assumptions
(`WindowAssumption`, `TakionAssumption`, `BufferAssumption`, `SessionAssumption`,
`VideoAssumption`, `MediaAssumption`, and `QueueAssumption` of the ring and of
`Holepunch`; `StreamConnection` needs none). What the last two ask of the constants holds
in the code: fewer reference frames than numbers (16 against 2^16), and no more sound
frames in a packet than half the numbers (two nibbles, `takion.h:57-58`, so at most 30).

- `SeqNum_proofs`, `SeqCompare`: for every even number M of numbers and all a, b less than
  half of M apart, the four comparisons of `seqnum.h` between a % M and b % M say how a
  and b are ordered. The lemmas below it say that a remainder is unique, that it may be
  taken before or after an addition (`ModAdd`), and that numbers less than M apart have
  different ones (`ModDistinct`). The next two proofs use nothing else of the remainder.
- `ReorderQueue_proofs`: `QueueTypeOK`, `QueueSlotsMatch`, `QueueHandedOverOnce`,
  `QueueAcceptedStays`, `QueueRefines` (the ring implements the window) and
  `QueuePullsInOrder`: what takion pulls is in order, and without a gap when the queue
  does not evict. The last has an invariant of its own, `Ordered` (what was
  pulled is before `base`, in order and, with that strategy, without a gap), so the ring
  itself is known to keep the order, and not only through its abstraction. The invariant
  of the others is `QueueInv == RingOK /\ Match /\ PulledOnce /\ Owned`: `begin` is the
  number of the position `base`; what is set in the window holds the packet of its own position;
  nothing was pulled twice; each element is in exactly one place. The ring is only spoken
  of by position (`At`): two positions less than Size apart never share a slot
  (`CellFacts`). `Numbers` turns the tests of push into statements on positions; there
  `Lag` and `Lead` are needed, and `M % Size = 0`, which holds because both are powers of
  two. `ExtendUnwrapped` is the heart: whatever the loop of push drops and clears, the
  window afterwards begins at some n up to the packet, all slots it has passed or taken
  in are clear, and what it held before n went to the callback. Then fill, extend
  and pull have one lemma each on what the window holds (`FillEffect`, `ExtendEffect`,
  `PullEffect`), which serve the invariant, `AcceptedStays` and the refinement alike.
- `Takion_proofs` begins with the abstract queue: `WindowCorrect` is
  `WindowTypeOK /\ InOrder /\ NoGap` of `ReorderWindow`. `InOrder` and `NoGap` relate the
  history to `next`; both are needed to show that what is delivered next is new. Then
  `TakionTypeOK`, `TakionDeliversInOrder`, `TakionAcksDelivered`,
  `TakionChecksAV`. The invariant is `TakionInv == TypeOK /\ WindowInv /\ AckInv`.
  `AckInv` says that the window never evicts here (this user of the queue drops at its
  end), that the history has exactly `next` messages, and that `last`, every
  acknowledgement on its way and what the console has read of them are below `next`.
  That is not enough alone: that all positions below `next` were delivered is `NoGap` of
  the window. The lemmas on the window's steps serve both parts;
  `StepsTheWindow` shows that the thread touches the queue in no other way. For
  `TakionChecksAV` the invariant is enough as it stands, because the keys are never
  taken back and nothing is handed over before they are there.
- `StreamConnection_proofs`: `StreamTypeOK`, `StreamGuardsFeedbackSender`,
  `StreamResultTrue`, `StreamKeysOutliveUsers`, `StreamReceiversOutliveTakion`. The
  properties are not inductive: whether the keys outlive their users depends on which
  exit the run thread took. `Inv` adds to `TypeOK`: `StageInv` (the stage at a place of
  the run thread), `FeedbackInv` (flag, sender, its thread and the calls into it, by
  place), `ResultInv` (result and what caused it, by place), `KeysInv` (keys exist only
  once a BANG was good, and from then on the run thread can only close Takion with
  congestion control joined) and `TakionThreadInv` (while there is a Takion thread there
  are receivers). The proof goes action by action under each. `StreamInfoArrives` proves
  `StreamInfoNotMissed` from `InfoInv`: there is no STREAMINFO before the BANG was asked
  for, while the BANG is waited for the early one is kept, and while the STREAMINFO is
  waited for a good one has finished the stage.
- `TakionSendBuffer_proofs`: `BufferTypeOK`, `BufferOwnedOnce`, `BufferKeptUntilAcked`,
  for any number of senders and messages and any size. `BufferInv` adds to `TypeOK`:
  `SenderInv` (a sender's message is its own and not yet in the buffer), `SlotInv` (no
  message twice), `FreedInv` (a freed message is in no slot and with no sender) and
  `ScanInv` (what the resend thread may rely on when it has the mutex again). An
  acknowledgement compacts the slots in place; `RankedIsBijection` and `CompactedOK` show
  that what is left is exactly what was kept, in order. `KeptUntilAcked` needs that what
  an acknowledgement removes is covered by it as a position, though it compares wrapped
  numbers: `CoveredMeansEarlier`, from `SeqCompare`.
- `Session_proofs`: `SessionTypeOK`, `SessionSentInOrder`, `SessionPipeMeansWork`,
  `SessionConsoleIdKept`, `SessionReasonFinal`, for any number of PINs and messages.
  `SessionInv` adds to the first three properties `PlaceInv` (which thread can be where
  while the other is elsewhere, in particular that ctrl is joined before the session
  ends) and `PinInv` (no PIN on its way is newer than the last one entered, so that a PIN
  that is sent is new). `ReasonFinal` needs the join: the ctrl thread may set a reason as
  long as it lives.
- `Holepunch_proofs`: `HolepunchTypeOK`, `HolepunchFreedAfterWs`, `HolepunchCancelHeard`,
  for every bound of the queue. `HolepunchInv` adds to `TypeOK`: `MainInv` (what may come
  after a check, and that the session is freed only at the end), `WsInv` and `CancelInv`.
  `FreedAfterWs` is not inductive: fini reads `ws_open` without a lock and joins the
  thread only if it is set, so what matters is the thread that has not set it yet. `WsInv`
  says that such a thread exists only while main waits for it in create, that main leaves
  that wait only when it was told, and that the flag is set until the thread is past its
  last use. `CancelInv` says that a step that began after a cancel still stands at its
  first check or wait with the flag set. `Rest` names what a step of main leaves of the
  other variables, so that one lemma (`ReturnsOK`, `MovesOn`) serves every place where the
  code returns or goes on.
- `MediaStream_proofs`: `MediaTypeOK`, `MediaInOrder`, `MediaGapsReported`,
  `MediaCountedOnce`, `PicturesOfOneFrame` and `PicturesIntactFirstRound`, for every
  stream of video and sound, every number of packets and readings, and every set of
  redundant units. The receivers see only numbers; the ghosts hold positions, and
  `Compare` (from `SeqCompare`) turns each comparison of the code into one of positions.
  `IInv` has five parts. `VideoInv` is about the video receiver: `Placed` (its
  current number and frame are those of the current position), `CompleteOK` (the number of
  the last picture the decoder took, less than half the numbers behind), `ShownOK`, `ReportsOK` (every frame
  before the current one that was not handed over is in a report), `RefsOK` (an entry of
  the reference list is the number of a picture the decoder took), `OpenOK` (an open frame
  is newer than all pictures, so it is no reference of its own), and, for an
  open frame, that it *cannot* be put together. That last part is what makes `OwnHeader` hold
  although the header is switched before the old frame is flushed: a frame that can be
  put together was flushed with the packet that made it so, and the flush of an old
  frame only reports it lost (`TooFewUnits`, `LostFrame`, `FlushOldGivesUp`). `PacketKeeps`
  joins the parts of a packet: profile, flush, report, new frame, unit, flush. `AudioOK`
  goes through the units of a sound packet by induction on the unit (`UnitStep`,
  `SmallestNat`; `UnitsExist` shows that the recursive function of the model is
  defined). `ReadsHold` says that without a race the count the Takion thread has loaded is
  still the current one; `CountedOnce` needs it.
  `PicturesIntact` is proved whole for the first 2^16 frames only. After these, a
  reference to the number of a frame may be met by a picture 2^16 frames older, which
  the list still holds if the decoder has taken fewer than 16 pictures since. The code does
  not exclude that, so its part `Decodable` is otherwise left to run `media`;
  `OwnUnits` and `OwnHeader` are proved without that limit.

Only model-checked: all liveness (`EventuallyDelivered`, `StopEnds`, `EventuallyLeaves`,
`FiniReturns`, `StopReturns`, `ConnectSettles`, `StopQuits`, `WorkDone`, `StepReturns`),
since tlapm reasons about neither ENABLED nor fairness here; and `Decodable` of the media
stream beyond the first round of frame numbers. No module uses RECURSIVE operators: the one
loop that is a recursive function (`AudioUnits`) is reasoned about by the least unit at
which a statement would fail.

## 5. What is not modelled, and the plan

Done in this order: the queue and its abstraction; Takion on top of it; the send buffer;
the stream connection; session and ctrl; the media stream with its statistics; the PSN
connection. Next:

1. `KeyStream`: the ring of `gkcrypt.c` with a reader and a writer outside the lock, and
   the recovery of a 64-bit position from its lower half.
2. As far as they fit: feedback sender (state against history), RUDP send buffer,
   discovery service, registration, senkusha, the flags of the SDK, the PSN branches of the
   session, the unlocked sends of `ctrl.c`, malformed units and `frames_lost` of the media.

Left out for good: codecs, ciphers, tables, text formats, floating point filters, the
demo, vendored libraries, and the HTTP, JSON, UPnP and candidates of `holepunch.c`. Memory exhaustion is
not modelled except where a failure changes which way a thread goes; threads and
mutexes are assumed to be created.
