----------------------------- MODULE StreamSink -----------------------------
(***************************************************************************)
(* Sending a Dart stream over a component-model stream (newReadableStream  *)
(* and StreamSinkState in wasm_components/lib/src/runtime/async/           *)
(* stream.dart): the source's subscription is paused while a write is      *)
(* outstanding, which may take the elements in parts, find the peer gone,  *)
(* and finish at once or in a later event-loop iteration.                  *)
(*                                                                         *)
(* External: the host and the peer that reads, and the source, a Dart      *)
(* stream that emits lists of elements while it is not paused, and whose   *)
(* cancel future completes later.  Element i is the i-th it emitted;       *)
(* Garbage is memory that holds no whole element.                          *)
(***************************************************************************)
EXTENDS Integers, Sequences

CONSTANTS
  ElementSize,   \* StreamVtable.elementSize, in bytes
  MaxChunk,      \* bound: elements in one list of the source
  MaxElements    \* bound: elements emitted by the source

ASSUME SizesAssumption == ElementSize \in Nat /\ MaxChunk \in Nat /\ MaxElements \in Nat

Garbage == 0

VARIABLES
  pc,            \* "new", "rest" or in the write "loop"
  code,          \* the result of the last write that the loop looks at
  buffer,        \* _pendingWrite: its memory and acknowledged count, or none
  otherDropped,  \* _otherEndDropped
  doneEvent,     \* _receivedDoneEvent
  dropped,       \* _dropped
  source,        \* "active", "ended", "cancelling" or "cancelled"
  paused,        \* _subscription.isPaused
  emitted,       \* number of elements the source emitted
  event,         \* the outstanding write: none, blocked, or its result
  got,           \* elements the peer took
  freed          \* elements freed with a buffer

sink == <<otherDropped, doneEvent, dropped>>
subscription == <<source, paused, emitted>>
vars == <<pc, code, buffer, sink, subscription, event, got, freed>>

None == [kind |-> "none", n |-> 0]
Blocked == [kind |-> "blocked", n |-> 0]
Result(k, n) == [kind |-> k, n |-> n]

NoBuffer == [held |-> FALSE, mem |-> <<>>, ack |-> 0]
Buffer(m) == [held |-> TRUE, mem |-> m, ack |-> 0]
Remaining(b) == Len(b.mem) - b.ack

Init ==
  /\ pc = "new" /\ code = None /\ buffer = NoBuffer
  /\ otherDropped = FALSE /\ doneEvent = FALSE /\ dropped = FALSE
  /\ source = "active" /\ paused = TRUE /\ emitted = 0
  /\ event = None /\ got = <<>> /\ freed = <<>>

-----------------------------------------------------------------------------
(* The host.                                                               *)

\* The peer takes the next n elements of a buffer.  A write completes when it
\* has taken some, or when there were none to take; it finds the peer gone
\* after any number.
Transfers(k, n, b) ==
  /\ n <= Remaining(b)
  /\ k = "completed" => n > 0 \/ Remaining(b) = 0

Takes(b, n) == got \o SubSeq(b.mem, b.ack + 1, b.ack + n)

\* _vtable.write of what is left of a buffer.
Write(b) ==
  /\ buffer' = b
  /\ \/ /\ code' = Blocked
        /\ event' = Blocked
        /\ got' = got
     \/ \E k \in {"completed", "dropped"}, n \in 0 .. MaxChunk :
          /\ Transfers(k, n, b)
          /\ code' = Result(k, n)
          /\ got' = Takes(b, n)
          /\ event' = None

HostResult(k, n) ==
  /\ pc = "rest"
  /\ event = Blocked
  /\ Transfers(k, n, buffer)
  /\ event' = Result(k, n)
  /\ got' = Takes(buffer, n)
  /\ UNCHANGED <<pc, code, buffer, sink, subscription, freed>>

-----------------------------------------------------------------------------
(* Generated code: writeToBuffer.                                          *)

\* Element j of a list (from 0) is written at byte j of the buffer, and over
\* the one before; the peer looks for it at byte j * ElementSize.
ByteAt(n, o) ==
  LET j == IF o < n THEN o ELSE n - 1 IN
  IF o - j < ElementSize THEN [element |-> j, byte |-> o - j]
                         ELSE [element |-> -1, byte |-> 0]

Intact(n, j) ==
  \A b \in 0 .. ElementSize - 1 :
    ByteAt(n, j * ElementSize + b) = [element |-> j, byte |-> b]

WriteToBuffer(n) ==
  [j \in 1 .. n |-> IF Intact(n, j - 1) THEN emitted + j ELSE Garbage]

-----------------------------------------------------------------------------
(* StreamSinkState.                                                        *)

\* newReadableStream: the paused subscription waits for an empty write, which
\* blocks until the peer reads.
Create ==
  /\ pc = "new"
  /\ buffer' = Buffer(<<>>)
  /\ code' = Blocked /\ event' = Blocked
  /\ pc' = "loop"
  /\ UNCHANGED <<sink, subscription, got, freed>>

SourceIsHeard == pc = "rest" /\ source = "active" /\ ~paused

\* _onData with a list of n elements.
OnData(n) ==
  /\ SourceIsHeard
  /\ emitted + n <= MaxElements
  /\ emitted' = emitted + n
  /\ paused' = TRUE
  /\ Write(Buffer(WriteToBuffer(n)))
  /\ pc' = "loop"
  /\ UNCHANGED <<sink, source, freed>>

\* _onDone: nothing is being written, or the subscription would be paused.
OnDone ==
  /\ SourceIsHeard
  /\ doneEvent' = TRUE
  /\ source' = "ended"
  /\ dropped' = ~buffer.held
  /\ UNCHANGED <<pc, code, buffer, otherDropped, paused, emitted, event, got, freed>>

LoopBlocked ==
  /\ pc = "loop" /\ code = Blocked
  /\ pc' = "rest"
  /\ UNCHANGED <<code, buffer, sink, subscription, event, got, freed>>

\* The unacknowledged elements are freed with the buffer.
Rest(b) == SubSeq(b.mem, b.ack + 1, Len(b.mem))

\* advance (the variants count a result twice, or not at all).
Advance_Never(n) == [buffer EXCEPT !.ack = @ + n - n]
Advance(n) == [buffer EXCEPT !.ack = @ + n]

\* A write took n elements: the rest of them is written, or the source goes on.
LoopCompleted(n) ==
  /\ pc = "loop" /\ code = Result("completed", n)
  /\ IF Remaining(buffer) > n
     THEN /\ Write(Advance(n))
          /\ UNCHANGED <<pc, paused, dropped>>
     ELSE /\ buffer' = NoBuffer
          /\ dropped' = doneEvent
          /\ paused' = (paused /\ doneEvent)
          /\ pc' = "rest"
          /\ UNCHANGED <<code, event, got>>
  /\ UNCHANGED <<otherDropped, doneEvent, source, emitted, freed>>

\* The peer is gone: what it has not taken is freed, and the source cancelled
\* (the variant frees what it has taken as well).
LoopDropped_NotAdvanced(n) ==
  /\ pc = "loop" /\ code = Result("dropped", n)
  /\ freed' = freed \o Rest(buffer)
  /\ buffer' = NoBuffer
  /\ otherDropped' = TRUE
  /\ dropped' = doneEvent
  /\ source' = IF doneEvent THEN source ELSE "cancelling"
  /\ pc' = "rest"
  /\ UNCHANGED <<code, doneEvent, paused, emitted, event, got>>

LoopDropped(n) ==
  /\ pc = "loop" /\ code = Result("dropped", n)
  /\ freed' = freed \o Rest(Advance(n))
  /\ buffer' = NoBuffer
  /\ otherDropped' = TRUE
  /\ dropped' = doneEvent
  /\ source' = IF doneEvent THEN source ELSE "cancelling"
  /\ pc' = "rest"
  /\ UNCHANGED <<code, doneEvent, paused, emitted, event, got>>

\* The future of _subscription.cancel() completes, and drop runs (the variant
\* does not wait for that future, and never drops).
CancelCompletes_NotDropped ==
  /\ pc = "rest" /\ source = "cancelling"
  /\ source' = "cancelled"
  /\ UNCHANGED <<dropped, pc, code, buffer, otherDropped, doneEvent, paused, emitted,
                 event, got, freed>>

CancelCompletes ==
  /\ pc = "rest" /\ source = "cancelling"
  /\ source' = "cancelled"
  /\ dropped' = TRUE
  /\ UNCHANGED <<pc, code, buffer, otherDropped, doneEvent, paused, emitted,
                 event, got, freed>>

\* dispatchEvent for the result of a blocked write.
DispatchEvent ==
  /\ pc = "rest"
  /\ event.kind \in {"completed", "dropped"}
  /\ code' = event
  /\ event' = None
  /\ pc' = "loop"
  /\ UNCHANGED <<buffer, sink, subscription, got, freed>>

Loop == LoopBlocked \/ \E n \in 0 .. MaxChunk : LoopCompleted(n) \/ LoopDropped(n)
Host == \E k \in {"completed", "dropped"}, n \in 0 .. MaxChunk : HostResult(k, n)

Next ==
  \/ Create
  \/ \E n \in 0 .. MaxChunk : OnData(n)
  \/ OnDone
  \/ Loop
  \/ CancelCompletes
  \/ DispatchEvent
  \/ Host

Spec == Init /\ [][Next]_vars

\* The loop is straight-line code and the event loop delivers every event.
\* Two assumptions on others: the peer goes on reading or drops its end, and
\* the source lets itself be cancelled.  The source need not emit anything.
FairSpec ==
  /\ Spec
  /\ WF_vars(Create) /\ WF_vars(Loop) /\ WF_vars(DispatchEvent)
  /\ WF_vars(Host)
  /\ WF_vars(CancelCompletes)

-----------------------------------------------------------------------------
(* Properties.                                                             *)

Elements == 0 .. MaxElements
HostResults == [kind : {"completed", "dropped"}, n : 0 .. MaxChunk]
IsRun(s) == /\ Len(s) <= MaxElements
            /\ \A i \in 1 .. Len(s) : s[i] \in Elements

\* Every variable has a value of its type (the fields of StreamSinkState), and
\* no more is acknowledged of a buffer than it holds.
TypeOK ==
  /\ pc \in {"new", "rest", "loop"}
  /\ code \in {None, Blocked} \cup HostResults
  /\ event \in {None, Blocked} \cup HostResults
  /\ DOMAIN buffer = {"held", "mem", "ack"}
  /\ buffer.held \in BOOLEAN /\ IsRun(buffer.mem) /\ buffer.ack \in 0 .. Len(buffer.mem)
  /\ otherDropped \in BOOLEAN /\ doneEvent \in BOOLEAN /\ dropped \in BOOLEAN
  /\ source \in {"active", "ended", "cancelling", "cancelled"}
  /\ paused \in BOOLEAN
  /\ emitted \in Elements
  /\ IsRun(got) /\ IsRun(freed)

\* Elements of the buffer that the peer has, without the sink knowing yet.
InFlight == (IF pc = "loop" THEN code.n ELSE 0) + event.n

\* Every element has one owner: those the source emitted are the ones the peer
\* took, then those still in the buffer, or, once the peer is gone, those freed
\* with it.  Partial writes and a peer that leaves in the middle of one never
\* free an element that was transferred, and leak none.
OneOwner ==
  got \o SubSeq(buffer.mem, buffer.ack + InFlight + 1, Len(buffer.mem)) \o freed
    = [i \in 1 .. emitted |-> i]

\* Between runs of the loop a buffer is held exactly while its write is
\* outstanding, and the source is paused exactly then: it never emits into a
\* pending write (a StateError), never waits for one that is over, and the
\* writable end is never dropped during one (a trap).
PausedWhileWriting ==
  pc = "rest" =>
    /\ buffer.held <=> event # None
    /\ source = "active" => (paused <=> buffer.held)
    /\ dropped => ~buffer.held

\* Who may touch an element is exact: one owner each, and a source that is held
\* back exactly while a write refers to the buffer.
WritesAreExclusive == OneOwner /\ PausedWhileWriting

\* The peer sees a pipe: all elements in order, then the end, unless it leaves.
Stream == INSTANCE Pipe WITH
  put <- emitted,
  closed <- IF otherDropped THEN "cut" ELSE IF dropped THEN "ended" ELSE "no"
ImplementsPipe == Stream!Spec

\* What was emitted arrives, unless the peer leaves; and whoever leaves first,
\* the writable end is dropped, so that its task can exit.
ElementsArrive == Len(got) < emitted ~> Len(got) = emitted \/ otherDropped
EndIsDropped == otherDropped \/ doneEvent ~> dropped

\* Every sink gets to its end, with all that was emitted before it.
SinkEnds == ElementsArrive /\ EndIsDropped

\* "Creates a stream from the Dart [stream]": what the peer takes are the
\* elements of that stream.
SendsTheElements == \A i \in 1 .. Len(got) : got[i] = i
=============================================================================
