----------------------------- MODULE FutureCopy -----------------------------
(***************************************************************************)
(* Component-model futures with Dart code at both ends (writeFuture,       *)
(* WritableFuture and readFutureInternal in wasm_components/lib/src/       *)
(* runtime/async/future.dart).  The value of a Dart future is stored in a  *)
(* buffer, moves to the reader's buffer when the ends have met (at once    *)
(* for the later end, with an event for the earlier one), and is loaded    *)
(* out of that.                                                            *)
(*                                                                         *)
(* External: the host, which lets the ends meet, and the holder of the     *)
(* readable end, who may drop it instead of reading.                       *)
(***************************************************************************)
CONSTANT Futures   \* bound: the futures there are

VARIABLES
  source,    \* the Dart future: "pending", "value" or "error"
  writer,    \* the writable end: "open", "writing", a result, or "closed"
  reader,    \* the readable end: "open", "reading", a result, or "closed"
  value,     \* where the value is: "source", "write" or "read" (buffers),
             \* "dart" (loaded), "freed", or "freed twice"
  buffers,   \* the ends whose buffer is allocated
  answer     \* the reader's completer: "none", "value" or "error"

vars == <<source, writer, reader, value, buffers, answer>>

Results == {"completed", "dropped"}

Init ==
  /\ source = [f \in Futures |-> "pending"]
  /\ writer = [f \in Futures |-> "open"]
  /\ reader = [f \in Futures |-> "open"]
  /\ value = [f \in Futures |-> "source"]
  /\ buffers = [f \in Futures |-> {}]
  /\ answer = [f \in Futures |-> "none"]

\* The Dart future completes.
SourceCompletes(f, r) ==
  /\ source[f] = "pending"
  /\ source' = [source EXCEPT ![f] = r]
  /\ UNCHANGED <<writer, reader, value, buffers, answer>>

\* freeBuffer with containsValue of the writer: a value that was not sent is
\* freed with its buffer (the variant: always).
ContainsValue(result) == result = "dropped"

Freed(result, at) ==
  IF ~ContainsValue(result) THEN at
  ELSE IF at = "write" THEN "freed" ELSE "freed twice"

\* What the reader's completer gets (the variant swaps the cases).
Answer_Swapped(result) == IF result = "completed" THEN "error" ELSE "value"
Answer(result) == IF result = "completed" THEN "value" ELSE "error"

\* WritableFuture._applyToCompleter, and readFutureInternal.applyToCompleter;
\* "at" is where the value is by then (the variant keeps the buffer).
WriterApplies_Kept(f, result, at) ==
  /\ value' = [value EXCEPT ![f] = Freed(result, at)]
  /\ writer' = [writer EXCEPT ![f] = "closed"]
  /\ UNCHANGED buffers

WriterApplies(f, result, at) ==
  /\ value' = [value EXCEPT ![f] = Freed(result, at)]
  /\ writer' = [writer EXCEPT ![f] = "closed"]
  /\ buffers' = [buffers EXCEPT ![f] = @ \ {"write"}]

ReaderApplies(f, result, at) ==
  /\ value' = [value EXCEPT ![f] = IF result = "completed" /\ at = "read"
                                   THEN "dart" ELSE at]
  /\ answer' = [answer EXCEPT ![f] = Answer(result)]
  /\ reader' = [reader EXCEPT ![f] = "closed"]
  /\ buffers' = [buffers EXCEPT ![f] = @ \ {"read"}]

\* writeValue, when the Dart future has completed with a value: the write
\* meets a read that waits, finds the readable end dropped, or blocks.
WriteValue(f) ==
  /\ source[f] = "value" /\ writer[f] = "open"
  /\ IF reader[f] = "open"
     THEN /\ writer' = [writer EXCEPT ![f] = "writing"]
          /\ value' = [value EXCEPT ![f] = "write"]
          /\ buffers' = [buffers EXCEPT ![f] = @ \cup {"write"}]
          /\ UNCHANGED reader
     ELSE IF reader[f] = "reading"
     THEN /\ WriterApplies(f, "completed", "read")
          /\ reader' = [reader EXCEPT ![f] = "completed"]
     ELSE /\ WriterApplies(f, "dropped", "write")
          /\ UNCHANGED reader
  /\ UNCHANGED <<source, answer>>

\* readFuture: the read meets a write that waits, or blocks.
ReadFuture(f) ==
  /\ reader[f] = "open"
  /\ IF writer[f] = "writing"
     THEN /\ ReaderApplies(f, "completed", "read")
          /\ writer' = [writer EXCEPT ![f] = "completed"]
     ELSE /\ reader' = [reader EXCEPT ![f] = "reading"]
          /\ buffers' = [buffers EXCEPT ![f] = @ \cup {"read"}]
          /\ UNCHANGED <<writer, value, answer>>
  /\ UNCHANGED source

\* The readable end is dropped without having been read.
DropReadable(f) ==
  /\ reader[f] = "open"
  /\ reader' = [reader EXCEPT ![f] = "closed"]
  /\ writer' = [writer EXCEPT ![f] = IF @ = "writing" THEN "dropped" ELSE @]
  /\ UNCHANGED <<source, value, buffers, answer>>

\* The event loop calls the handler in pendingFutureWrites, or in
\* pendingFutureReads.
WriterEvent(f) ==
  /\ writer[f] \in Results
  /\ WriterApplies(f, writer[f], value[f])
  /\ UNCHANGED <<source, reader, answer>>

ReaderEvent(f) ==
  /\ reader[f] \in Results
  /\ ReaderApplies(f, reader[f], value[f])
  /\ UNCHANGED <<source, writer>>

Next == \E f \in Futures :
  \/ \E r \in {"value", "error"} : SourceCompletes(f, r)
  \/ WriteValue(f) \/ WriterEvent(f)
  \/ ReadFuture(f) \/ ReaderEvent(f)
  \/ DropReadable(f)

Spec == Init /\ [][Next]_vars

\* writeValue runs in a microtask, and the event loop delivers every event.
\* Nobody has to read, and the Dart future need not complete.
FairSpec ==
  /\ Spec
  /\ \A f \in Futures :
       WF_vars(WriteValue(f)) /\ WF_vars(WriterEvent(f)) /\ WF_vars(ReaderEvent(f))

-----------------------------------------------------------------------------
(* Properties.                                                             *)

\* Every variable has a value of its type, and no value is freed twice.
TypeOK ==
  /\ source \in [Futures -> {"pending", "value", "error"}]
  /\ writer \in [Futures -> {"open", "writing", "closed"} \cup Results]
  /\ reader \in [Futures -> {"open", "reading", "closed"} \cup Results]
  /\ value \in [Futures -> {"source", "write", "read", "dart", "freed"}]
  /\ buffers \in [Futures -> SUBSET {"write", "read"}]
  /\ answer \in [Futures -> {"none", "value", "error"}]

\* Each end holds its buffer exactly while its copy is on the way, whichever
\* end came first: none is freed under a pending copy, and none is kept.
BuffersOf(f) ==
  /\ "write" \in buffers[f] <=> writer[f] \in {"writing"} \cup Results
  /\ "read" \in buffers[f] <=> reader[f] \in {"reading"} \cup Results
BuffersFollowCopies == \A f \in Futures : BuffersOf(f)

\* Once both ends are closed the value has exactly one owner: the reader's
\* completer got it, or it was freed with the writer's buffer.
ValueMovesOnce == \A f \in Futures :
  writer[f] = "closed" /\ reader[f] = "closed" =>
    value[f] = IF answer[f] = "value" THEN "dart" ELSE "freed"

\* Buffers and the value in them have one owner at a time, whichever end is first
\* and whichever is dropped.
CopiesOwnBuffers == BuffersFollowCopies /\ ValueMovesOnce

\* Who reads a future whose Dart future has a value gets that.
ReadersAreAnswered == \A f \in Futures :
  reader[f] = "reading" /\ source[f] = "value" ~> answer[f] = "value"
=============================================================================
