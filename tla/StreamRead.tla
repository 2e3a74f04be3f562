----------------------------- MODULE StreamRead -----------------------------
(***************************************************************************)
(* Reading a component-model stream from Dart (StreamReadState in          *)
(* wasm_components/lib/src/runtime/async/stream.dart): reads into a buffer *)
(* of linear memory, which finish at once or in a later event-loop         *)
(* iteration, and the controller that forwards the elements to one         *)
(* listener, which may pause, resume and cancel at any time, also while it *)
(* is being called.                                                        *)
(*                                                                         *)
(* External: the host and the peer that writes, and the controller of      *)
(* Stream.multi with its subscription in the Dart SDK.  Element i is the   *)
(* i-th the peer wrote; Garbage is memory that holds no element.           *)
(***************************************************************************)
EXTENDS Integers, Sequences

CONSTANTS
  BufferSize,    \* bufferSizeInBytes of listen
  ElementSize,   \* StreamVtable.elementSize
  MaxElements    \* bound: elements written by the peer

\* Streams without an element type (size 0), for which listen throws, are left
\* out.
ASSUME SizesAssumption == /\ BufferSize \in Nat /\ MaxElements \in Nat
                          /\ ElementSize \in Nat \ {0}

Garbage == 0

\* Elements in a read buffer, at least one.
Capacity == IF BufferSize < ElementSize THEN 1 ELSE BufferSize \div ElementSize

VARIABLES
  pc,        \* "new", "rest", in the read "loop" or "trapped"
  async,     \* the loop runs for an event, not inside listen or resume
  code,      \* the result of the last read that the loop looks at
  buffer,    \* _pendingRead: whether there is one, and its acknowledged count
  mem,       \* the buffer's memory
  waiting,   \* _waitingForRead
  dropped,   \* _dropped
  sub,       \* the subscription: its state, paused, and the input paused
  pending,   \* chunks the controller has not delivered yet
  doneNext,  \* the done event is queued behind them
  sent,      \* elements the peer wrote
  event,     \* the outstanding read: none, blocked, or its result
  drops,     \* calls of stream.drop-readable
  freed,     \* elements freed with a buffer
  got        \* elements the listener received

sdk == <<sub, pending, doneNext>>
state == <<buffer, mem, waiting, dropped, drops, freed>>
vars == <<pc, async, code, state, sdk, sent, event, got>>

None == [kind |-> "none", n |-> 0]
Blocked == [kind |-> "blocked", n |-> 0]
Result(k, n) == [kind |-> k, n |-> n]

NoBuffer == [held |-> FALSE, ack |-> 0]
EmptyMem == [i \in 0 .. Capacity - 1 |-> Garbage]

Init ==
  /\ pc = "new" /\ async = FALSE /\ code = None
  /\ buffer = NoBuffer /\ mem = EmptyMem
  /\ waiting = FALSE /\ dropped = FALSE
  /\ sub = [state |-> "listening", paused |-> FALSE, inputPaused |-> FALSE]
  /\ pending = <<>> /\ doneNext = FALSE
  /\ sent = 0 /\ event = None /\ drops = 0 /\ freed = {} /\ got = <<>>

-----------------------------------------------------------------------------
(* The host.                                                               *)

\* The host has put the next n elements behind the acknowledged ones.
Filled(m, ack, n) ==
  [i \in DOMAIN m |-> IF i \in ack .. ack + n - 1 THEN sent + 1 + i - ack ELSE m[i]]

\* The read transfers n elements; only a read that finds the writer gone may
\* transfer none.
Transfers(k, n, ack) ==
  /\ n <= Capacity - ack
  /\ sent + n <= MaxElements
  /\ k = "completed" => n > 0

\* _readCode: a new buffer, or the rest of the present one.
StartRead(b, m) ==
  LET ack == IF b.held THEN b.ack ELSE 0 IN
  /\ buffer' = [held |-> TRUE, ack |-> ack]
  /\ \/ /\ code' = Blocked
        /\ event' = Blocked
        /\ mem' = m
        /\ sent' = sent
     \/ \E k \in {"completed", "dropped"}, n \in 0 .. Capacity :
          /\ Transfers(k, n, ack)
          /\ code' = Result(k, n)
          /\ mem' = Filled(m, ack, n)
          /\ sent' = sent + n
          /\ event' = None

\* A blocked read gets its result.
HostResult(k, n) ==
  /\ event = Blocked
  /\ pc = "rest"
  /\ Transfers(k, n, buffer.ack)
  /\ event' = Result(k, n)
  /\ mem' = Filled(mem, buffer.ack, n)
  /\ sent' = sent + n
  /\ UNCHANGED <<pc, async, code, buffer, waiting, dropped, drops, freed, sdk, got>>

-----------------------------------------------------------------------------
(* StreamReadState.                                                        *)

HasListener == sub.state = "listening"

\* ReadableStream.listen and the constructor of StreamReadState.
Listen ==
  /\ pc = "new"
  /\ pc' = "loop"
  /\ async' = FALSE
  /\ StartRead(buffer, mem)
  /\ UNCHANGED <<waiting, dropped, drops, freed, sdk, got>>

\* n calls of _completeClose: the first frees the buffer with the elements
\* from the acknowledged one to its end, each drops the readable end, and the
\* host traps when that has been dropped before.
Close(b, m, n) ==
  /\ buffer' = NoBuffer
  /\ mem' = EmptyMem
  /\ freed' = freed \cup (IF b.held THEN {m[i] : i \in b.ack .. Capacity - 1} ELSE {})
  /\ dropped' = TRUE
  /\ drops' = drops + n
  /\ pc' = IF drops + n > 1 THEN "trapped" ELSE "rest"
  /\ UNCHANGED <<async, waiting, code, sent, event>>

\* The buffer and its memory after _forwardData has taken n elements out: they
\* are still in memory, and only the count says that they are not the buffer's
\* any more.
After(n) == IF buffer.ack + n = Capacity THEN NoBuffer
                                         ELSE [buffer EXCEPT !.ack = @ + n]
MemAfter(n) == IF buffer.ack + n = Capacity THEN EmptyMem ELSE mem

\* The elements that a result of n transferred: they start behind those
\* acknowledged before (the variant takes them from the buffer's start).
Chunk_FromStart(n) == [i \in 1 .. n |-> mem[i - 1]]
Chunk(n) == [i \in 1 .. n |-> mem[buffer.ack + i - 1]]

\* The controller calls the listener at once: nothing is queued before.
CanFire == HasListener /\ ~sub.paused /\ pending = <<>> /\ ~doneNext

\* The subscription with new pause flags.
Paused(p, i) == [state |-> sub.state, paused |-> p, inputPaused |-> i]

\* What the listener does when it is called: nothing, pause, or cancel.
Reactions == {"go", "pause", "cancel"}
Reacted(r) ==
  CASE r = "go"     -> sub
    [] r = "pause"  -> Paused(TRUE, TRUE)
    [] r = "cancel" -> [sub EXCEPT !.state = "cancelled"]

\* The loop stops, or reads again.
Continue(b, m) ==
  IF sub'.inputPaused
  THEN /\ buffer' = b /\ mem' = m
       /\ pc' = "rest"
       /\ UNCHANGED <<async, code, waiting, dropped, drops, freed, sent, event>>
  ELSE /\ StartRead(b, m)
       /\ UNCHANGED <<pc, async, waiting, dropped, drops, freed>>

LoopBlocked ==
  /\ pc = "loop" /\ code = Blocked
  /\ waiting' = TRUE
  /\ pc' = "rest"
  /\ UNCHANGED <<async, code, buffer, mem, dropped, drops, freed, sdk, sent, event, got>>

\* A completed read whose elements the listener gets at once.  If it cancels,
\* onCancel closes the stream, and the loop, which then finds no listener,
\* closes it again.
LoopCompletedSync(n, r) ==
  /\ pc = "loop" /\ code = Result("completed", n)
  /\ async /\ CanFire
  /\ got' = got \o Chunk(n)
  /\ sub' = Reacted(r)
  /\ IF r = "cancel" THEN Close(After(n), MemAfter(n), 2)
                     ELSE Continue(After(n), MemAfter(n))
  /\ UNCHANGED <<pending, doneNext>>

\* A completed read whose elements are queued, or dropped for want of a
\* listener.
LoopCompletedQueued(n) ==
  /\ pc = "loop" /\ code = Result("completed", n)
  /\ ~(async /\ CanFire)
  /\ pending' = IF HasListener THEN Append(pending, Chunk(n)) ELSE pending
  /\ UNCHANGED <<sub, doneNext, got>>
  /\ IF HasListener THEN Continue(After(n), MemAfter(n))
                    ELSE Close(After(n), MemAfter(n), 1)

\* The writer is gone, an event says, and the listener can be called: it gets
\* the last elements (r is its reaction), and then done.  Either way onCancel
\* closes the stream before the loop does, unless the listener has paused.
LoopDroppedSync(n, r) ==
  /\ pc = "loop" /\ code = Result("dropped", n)
  /\ async /\ CanFire
  /\ n = 0 => r = "go"
  /\ got' = got \o Chunk(n)
  /\ sub' = IF r = "go" THEN [sub EXCEPT !.state = "done"] ELSE Reacted(r)
  /\ doneNext' = (r = "pause")
  /\ UNCHANGED pending
  /\ Close(After(n), MemAfter(n), IF r = "pause" THEN 1 ELSE 2)

\* The variant leaves out the done event.
LoopDroppedQueued_NoDone(n) ==
  /\ pc = "loop" /\ code = Result("dropped", n)
  /\ ~(async /\ CanFire)
  /\ pending' = IF HasListener /\ n > 0 THEN Append(pending, Chunk(n)) ELSE pending
  /\ UNCHANGED <<sub, got, doneNext>>
  /\ Close(After(n), MemAfter(n), 1)

\* The same for a paused, busy or absent listener, or inside listen or resume.
LoopDroppedQueued(n) ==
  /\ pc = "loop" /\ code = Result("dropped", n)
  /\ ~(async /\ CanFire)
  /\ pending' = IF HasListener /\ n > 0 THEN Append(pending, Chunk(n)) ELSE pending
  /\ doneNext' = HasListener
  /\ UNCHANGED <<sub, got>>
  /\ Close(After(n), MemAfter(n), 1)

\* dispatchEvent: the loop runs for the result of a blocked read.
DispatchEvent ==
  /\ pc = "rest"
  /\ event.kind \in {"completed", "dropped"}
  /\ waiting' = FALSE
  /\ async' = TRUE
  /\ code' = event
  /\ event' = None
  /\ pc' = "loop"
  /\ UNCHANGED <<buffer, mem, dropped, drops, freed, sdk, sent, got>>

\* onResume of the controller: read again unless a read is outstanding.
Resume == ~dropped /\ ~waiting

OnResume ==
  IF Resume
  THEN /\ pc' = "loop" /\ async' = FALSE
       /\ StartRead(buffer, mem)
       /\ UNCHANGED <<waiting, dropped, drops, freed>>
  ELSE UNCHANGED <<pc, async, code, state, sent, event>>

\* onCancel of the controller: close the stream unless a read is outstanding
\* (the variant leaves that to an event that may not come).
OnCancel_Never == UNCHANGED <<pc, async, code, state, sent, event>>
OnCancel ==
  IF ~waiting /\ ~dropped
  THEN Close(buffer, mem, 1)
  ELSE UNCHANGED <<pc, async, code, state, sent, event>>

-----------------------------------------------------------------------------
(* The subscription, between runs of the loop.                             *)

UserPause ==
  /\ pc = "rest" /\ HasListener /\ ~sub.paused
  /\ sub' = Paused(TRUE, TRUE)
  /\ UNCHANGED <<pc, async, code, state, pending, doneNext, sent, event, got>>

\* The input resumes only once nothing is queued.
UserResume ==
  /\ pc = "rest" /\ HasListener /\ sub.paused
  /\ sub' = Paused(FALSE, pending # <<>> \/ doneNext)
  /\ IF sub'.inputPaused
     THEN UNCHANGED <<pc, async, code, state, sent, event>>
     ELSE OnResume
  /\ UNCHANGED <<pending, doneNext, got>>

UserCancel ==
  /\ pc = "rest" /\ HasListener
  /\ sub' = [sub EXCEPT !.state = "cancelled"]
  /\ pending' = <<>> /\ doneNext' = FALSE
  /\ OnCancel
  /\ UNCHANGED got

\* A microtask delivers the first queued chunk.
DeliverChunk(r) ==
  /\ pc = "rest" /\ HasListener /\ ~sub.paused
  /\ pending # <<>>
  /\ got' = got \o Head(pending)
  /\ \/ /\ r = "cancel"
        /\ sub' = Reacted(r)
        /\ pending' = <<>> /\ doneNext' = FALSE
        /\ OnCancel
     \/ /\ r = "pause"
        /\ sub' = Reacted(r)
        /\ pending' = Tail(pending)
        /\ UNCHANGED <<doneNext, pc, async, code, state, sent, event>>
     \/ /\ r = "go"
        /\ pending' = Tail(pending)
        /\ UNCHANGED doneNext
        /\ sub' = [sub EXCEPT !.inputPaused = @ /\ (Len(pending) > 1 \/ doneNext)]
        /\ IF sub'.inputPaused = sub.inputPaused
           THEN UNCHANGED <<pc, async, code, state, sent, event>>
           ELSE OnResume

\* A microtask delivers the done event.
DeliverDone ==
  /\ pc = "rest" /\ HasListener /\ ~sub.paused
  /\ pending = <<>> /\ doneNext
  /\ doneNext' = FALSE
  /\ sub' = [sub EXCEPT !.state = "done"]
  /\ OnCancel
  /\ UNCHANGED <<pending, got>>

Loop ==
  \/ LoopBlocked
  \/ \E n \in 0 .. Capacity :
       \/ \E r \in Reactions : LoopCompletedSync(n, r) \/ LoopDroppedSync(n, r)
       \/ LoopCompletedQueued(n)
       \/ LoopDroppedQueued(n)

Next ==
  \/ Listen
  \/ \E k \in {"completed", "dropped"}, n \in 0 .. Capacity : HostResult(k, n)
  \/ DispatchEvent
  \/ Loop
  \/ UserPause \/ UserResume \/ UserCancel
  \/ \E r \in Reactions : DeliverChunk(r)
  \/ DeliverDone

Spec == Init /\ [][Next]_vars

\* The loop is straight-line code, the event loop delivers every event, and
\* runs the microtasks that deliver what the controller has queued.  Neither
\* the host, nor its peer, nor the listener has to do anything.
FairSpec ==
  /\ Spec
  /\ WF_vars(Loop)
  /\ WF_vars(DispatchEvent)
  /\ WF_vars(\E r \in Reactions : DeliverChunk(r))
  /\ WF_vars(DeliverDone)

-----------------------------------------------------------------------------
(* Properties.                                                             *)

Elements == 0 .. MaxElements
Chunks == UNION {[1 .. n -> Elements] : n \in 1 .. Capacity}
HostResults == [kind : {"completed", "dropped"}, n : 0 .. Capacity]

\* Every variable has a value of its type (the fields of StreamReadState), and
\* a buffer that is kept has room left for a read.
TypeOK ==
  /\ pc \in {"new", "rest", "loop", "trapped"}
  /\ async \in BOOLEAN /\ waiting \in BOOLEAN
  /\ dropped \in BOOLEAN /\ doneNext \in BOOLEAN
  /\ code \in {None, Blocked} \cup HostResults
  /\ event \in {None, Blocked} \cup HostResults
  /\ buffer \in [held : BOOLEAN, ack : 0 .. Capacity - 1]
  /\ mem \in [0 .. Capacity - 1 -> Elements]
  /\ sub \in [state : {"listening", "cancelled", "done"},
              paused : BOOLEAN, inputPaused : BOOLEAN]
  /\ Len(pending) <= MaxElements
  /\ \A i \in 1 .. Len(pending) : pending[i] \in Chunks
  /\ sent \in Elements /\ Len(got) <= MaxElements
  /\ drops \in 0 .. 2 /\ freed \subseteq Elements

\* The last element that was handed to the controller.
Forwarded == IF pending = <<>> THEN Len(got)
             ELSE LET last == pending[Len(pending)] IN last[Len(last)]

\* Elements in the buffer that the loop, or an event, has yet to take out.
InFlight == (IF pc = "loop" THEN code.n ELSE 0) + event.n

\* While someone listens every element the peer wrote is, once and in order,
\* received, queued, or where the next _forwardData reads it: partial results,
\* queued chunks and results that come at once never lose, repeat or reorder
\* elements.
NothingLost ==
  sub.state = "listening" =>
    /\ \A i \in DOMAIN pending :
         LET before == IF i = 1 THEN Len(got)
                       ELSE pending[i - 1][Len(pending[i - 1])]
         IN  pending[i] = [j \in 1 .. Len(pending[i]) |-> before + j]
    /\ Forwarded + InFlight = sent
    /\ \A i \in 0 .. InFlight - 1 : mem[buffer.ack + i] = Forwarded + 1 + i

\* Between runs of the loop _waitingForRead says exactly whether a read is
\* outstanding, so that no second read starts (a trap) and no reader stalls.
WaitingIsRead ==
  /\ pc = "rest" => (waiting <=> event # None)
  /\ pc = "loop" => /\ ~waiting
                    /\ event # None <=> code = Blocked

\* A listener that is neither paused nor still has something queued waits for a
\* read: pausing, resuming and events that cross them never leave it idle
\* ("Idle: after forwarding an event, the stream was paused").
IdleOnlyWhenPaused ==
  pc = "rest" /\ HasListener /\ ~sub.inputPaused /\ ~dropped => waiting

\* Whoever finishes last, the listener that cancels or the read it cancelled
\* during, drops the readable end and frees its buffer.
FinishedIsDropped ==
  pc = "rest" /\ ~HasListener /\ ~waiting => dropped /\ ~buffer.held

\* No element that was handed on is freed with a buffer: the memory still holds
\* those that were taken out.
HandedOnAreKept == freed \cap 1 .. sent = {}

\* Reads follow the listener: between runs of the loop a read is outstanding when
\* a listener wants one, is known to be, and nothing is kept for a listener that
\* has left, in whatever order its calls and the events cross.
ReadsFollowListener ==
  WaitingIsRead /\ IdleOnlyWhenPaused /\ FinishedIsDropped /\ HandedOnAreKept

\* What has become of the pipe at the listener's end.
Closed == CASE sub.state = "listening" -> "no"
            [] sub.state = "done"      -> "ended"
            [] sub.state = "cancelled" -> "cut"

\* The listener sees a pipe: all elements in order, then the end, unless it
\* cancels.
Stream == INSTANCE Pipe WITH put <- sent, closed <- Closed
ImplementsPipe == Stream!Spec

\* When the peer has dropped its end the listener gets done, unless it pauses
\* or cancels first.
EndIsSeen == event.kind = "dropped" ~> ~HasListener \/ sub.paused

\* The state machine in the doc of StreamReadState drops the readable end once,
\* on the way to "dropped" or to "cancelled".
DropsOnce == drops <= 1
=============================================================================
