# A verification project for wasm.dart

TLA+ models, TLC runs and TLAPS proofs for `kevmoo/wasm.dart`, the tools and
the runtime that compile Dart programs to WebAssembly components.  Paths below
are relative to the repository; `async/` stands for
`src/pkg/wasm_components/lib/src/runtime/async/`.

Contents: [the system](#the-system), [the models](#the-models),
[the runs](#the-runs), [the proofs](#the-proofs),
[disagreements found](#disagreements-found), [limits](#limits), [plan](#plan).

## The system

A Dart program that implements or imports WIT interfaces is compiled in four
steps: `wit_bindgen_dart` (Rust, driven by `wasm_tools/lib/src/wit_gen`)
generates Dart declarations and glue; the Dart compiler emits a core module;
`transform.dart` rewrites it and `abi/linker.dart` with `components/*` wrap it
into a component; at run time the generated glue calls
`wasm_components/lib/src/runtime`, and the Dart core library calls
`wasm_components/lib/src/embedder`.  `wasi` offers the WASI 0.3 interfaces and
an HTTP client and service on top.

| Component | State | Operations | Hard behaviours | What makes it correct |
|---|---|---|---|---|
| Event loop of tasks (`async/task.dart`, `callback.dart`, `waitable.dart`) | `_activeTasks`; per task a microtask queue, waitable set, five maps from handle to handler, `_isRunning`, `_microtaskScheduled`, `_unhandledError` | `spawnTask`, `dispatchEvent`, `_finishEventLoopIteration`, `scheduleRawMicrotask`, `trackSubtask`, `removeSubtask` | several tasks on one thread, host handles that are reused, one task waking another, errors nobody catches | every event finds its handler, no stale map entry, nothing queued without a wake-up, an exit leaves nothing behind, errors crash the task |
| Subtasks (`async/subtask.dart`) | state, completer, `_cancellationRequested` | `dispatchEvent`, `cancel` | cancellation that blocks or crosses the end of the call | never cancelled while in a set, always back in it, always completed |
| Timers (`async/timer.dart`, `embedder/clock.dart`) | `_currentWait`, `isActive`, `tick` | constructor, `_schedule`, callback, `cancel` | cancel at any point of a wait, also from the callback | one wait per active timer, nothing fires after `cancel` |
| Component futures (`async/future.dart`) | buffer and handle at each end, a completer | `readFuture`, `writeFuture`, `writeValue`, event handlers | either end first, end dropped, failure of the Dart future | a value moves once; buffers live as long as copies; readers are answered |
| Stream sink (`async/stream.dart`, `StreamSinkState`) | pending write with its acknowledged count, done/dropped flags, a paused subscription | `_onData`, `_onDone`, `dispatchEvent`, `drop` | partial writes, results at once or later, reader leaving | elements in order and owned once, source paused exactly during writes, writable end dropped |
| Stream reader (`StreamReadState`) | pending read buffer, `_waitingForRead`, `_dropped`, a stream controller | `listen`, `dispatchEvent`, `_resume`, `onCancel` | listener pausing, resuming, cancelling between and inside callbacks | nothing lost or reordered, no second read, no stall, dropped once |
| HTTP client (`wasi/lib/src/utils/http_client.dart`) | the response's body subscription, trailers future, result completer | `send`, body controller callbacks | end, error and cancel of a body racing its trailers | every owned resource dropped once; the host is told the response is done |
| HTTP service (`wasi/lib/http/service.dart`) | request and response bodies | `handle` | as above | as above |
| Embedder: strings, string buffer, regular expressions, numbers (`embedder/*`) | string buffer: array, length, width | pure functions otherwise | growth and width changes, backtracking, boundaries of doubles | equal to the definition of the Dart core library |
| Component builder, linker (`wasm_tools/lib/src/compiler`: `components/*`, `abi/*`) | index counters and definitions of the component and of each instance type; maps from types, interfaces, options to indices | `importInstance`, `importType`, `mapType`, `interfaceType`, `resolve`, `lift`, `instantiate`, and what they add to the builder | indices taken before the definition exists, two index spaces filled alternately, interfaces that use each other, a reader that counts for himself | an index refers to an earlier definition of what is meant; one import per interface; exported types are mentioned by name |
| Module transformer (`wasm_tools/lib/src/compiler/transform.dart`) | maps of renumbered items | `transform` | imports removed and added under functions that refer to each other | every reference is renumbered |
| Bindings generator, libraries (`wit_bindgen_dart`: `lib.rs`, `bindgen.rs`, `dart_source.rs`, `abi.rs`) | names taken in a library, vtables, drop functions, the lists of imports and exports of the core module | `define_*`, `import_interface`, `export_interface`, `finish`, one library per package, then a library and a description per world | definitions reached on many ways, names numbered by the length of a list that grows meanwhile, vtables that need other vtables, imports that only the first of several users of a name brings | unique names, references that resolve, a description that imports what the code calls |
| Bindings generator, functions (`functions.rs`, `call_async.rs`, the future vtables of `bindgen.rs`) | operand stack, code, cleanup code, blocks, options | `emit`, one case per instruction of `wit-bindgen-core`; `call_async_import` | the generated code owns memory across an `await`, frees it with a layout written somewhere else, in blocks and loops that only some values run | values survive, memory is freed once with its layout, the canonical options suffice |
| Runtime helpers (`runtime_helpers/src/memory.rs`) | – | `dart_realloc`, `dart_free` | – | the allocator of generated code and host |
| Others: value types of the runtime (of which `AllocatedString` is in `DartCode`), facades, generated bindings, `libm` exports, vendored `wasm_builder`, driver, hooks, tests | – | – | – | see `PROJECT.json` |

How they interact.  The host calls an export (`spawnTask`) or delivers an event
(`callback`) and so starts one iteration of one task's loop; the loop looks the
event's handle up in the task's maps and calls a subtask, future or stream
object, which completes a Dart completer or calls a stream listener; user code
runs in it and in the microtasks after it, starts new operations (which join
handles to the task's waitable set), and the iteration ends with EXIT or WAIT.
Timers are subtasks of an imported wait; the HTTP parts are clients of streams
and futures.

## The models

| Module | Models | Abstract specification |
|---|---|---|
| `TaskLoop` | `async/task.dart`, `callback.dart`, and of the objects behind the maps the registration and removal | – |
| `Timers` | `async/subtask.dart`, `async/timer.dart` inside one task | – |
| `FutureCopy` | `async/future.dart`, both ends | – |
| `StreamSink` | `newReadableStream`, `StreamSinkState`, generated `writeToBuffer` | `Pipe` |
| `StreamRead` | `ReadableStream.listen`, `StreamReadState` | `Pipe` |
| `Pipe` | what a stream promises: elements in order, then the end | – |
| `HttpClient` | `wasi/lib/src/utils/http_client.dart`: `send`, `close`, `_trackStreamCompletion` | – |
| `WorldGen` | the generation of libraries: `lib.rs`, `dart_source.rs`, the order of `bindgen.rs`, `abi.rs` | – |
| `DartCode` | generated Dart code as data and what running it does to memory; `memory.rs`, `AllocatedString` | – |
| `FunctionGen` | `functions.rs`: one operator per instruction | – |
| `CanonicalAbi` | which instructions `wit-bindgen-core` emits (external), and the host's side of the canonical ABI | – |
| `Bindings` | the code of one function, `call_async.rs`, the buffers of future vtables | – |
| `Marshal` | overlapping calls that run the generated code on one memory | – |
| `Linker` | what `abi/linker.dart`, `imported_function.dart`, `export.dart` and the compile driver add to the `ComponentBuilder`, and with which indices | – |
| `MCTaskLoop`, `MCTimers`, `MCMarshal`, `MCWorldGen`, `MCLinker` | instances for TLC | – |
| `TaskLoop_proofs`, `Timers_proofs`, `FutureCopy_proofs`, `StreamSink_proofs`, `StreamRead_proofs`, `HttpClient_proofs`, `WorldGen_proofs`, `Linker_proofs` | theorems about the module of that name | – |

Variables carry the names of the fields they stand for; where a name differs
the declaration says which field it is.  Operators named `X_Something`, each
right before `X`, are variants that a plausible mistake would produce; the
specification never uses them, and `PROJECT.json` pairs each with the property
it breaks.

**TaskLoop.**  `pc` says where the thread is: in the host, in user code, in the
drain loop of `_finishEventLoopIteration`, or stopped by a failed null check, a
trap, or an unhandled error.  User code is abstracted to the calls it makes
into the runtime (`TaskCode`); those that touch a map or the host's table are
actions, and `MaxOps` bounds them per iteration.  The host's handle table is
external: indices are allocated from `Handles` and reused after a drop, as the
canonical ABI does.  A subtask that is cancelled is taken to answer inline,
which is what the doc of `Subtask.cancel` says; `Timers` has the other case.
`BareWaits` is whether user code may wait for a Dart future that only another
task completes, and for nothing else.

**Timers.**  `wait` holds the `SubtaskImpl` objects, `subtasks` the map of the
task, `host` the other side of each handle.  `CancelWait` is the whole of
`SubtaskImpl.cancel`: leaving the set, the host's answer (blocked, or a final
state, which may be one whose event is undelivered), rejoining or completing.

**FutureCopy.**  Each end is open, has a copy outstanding, has a result
waiting for the event loop, or is closed.  `value` is where the one value is.

**StreamRead.**  One run of the loop of `_dispatchEvent` is a sequence of
actions, one per turn; `code` is its variable, `async` its parameter.  The
controller of `Stream.multi` and its subscription are external and modelled
from the Dart SDK's behaviour that the code relies on: `addSync` calls the
listener at once unless something is queued or it is paused, otherwise events
queue and microtasks deliver them; `onResume` comes once nothing is queued;
`onCancel` is called synchronously by a cancel *and by the delivery of done*.
Where the loop closes the stream, the calls of `_completeClose` that happen
inside a callback and the one the loop makes itself are one action with their
number (`Close(.., n)`); a second one traps.  Elements that the listener has received
stay in `mem` as they do in the buffer; what `Close` frees is what lies behind the
acknowledged ones.

**StreamSink.**  `source` and `paused` are the source's subscription;
`buffer.mem` the elements of `_pendingWrite`.  Element `i` is the `i`-th the
source emitted, so that order, loss and repetition show.  `_onDone` during a
write, for which the code has a branch, cannot happen with a Dart subscription:
it is paused then.

**HttpClient.**  `handle` has the fate of each handle that a request owns: its
fields, the request, the response, the response's headers and its trailers.
`Drop` and `Give` trap unless it is held.  `send` is one action for each call that
creates, drops or gives away a handle, and one for each way out between them, so
that what an early return has to release follows from what was done before.
`handler` and `cleanup` are the two continuations of `responseTrailers`, in the
order in which they were registered; `Deliver` is what the synchronous controller does with the error and
the done event, and calls `OnCancel` for the latter.  Events that it holds for a
paused listener are delivered in one step: what the listener does between two
microtasks is what it could do in the first event's callback.

**WorldGen.**  The generator is sequential, and what can go wrong in it is the
order: `agenda` is the stack of calls that are still to be made, a step takes the
first one and puts the calls that this makes in its place, so that a nested call
is over before what follows it.  The resolved WIT packages are constants: which
interfaces, functions, types, streams and futures there are, who owns a type, and
what mentions what.  A name is a pair of what the source formats into it, such
as `<<"_import", 3>>`; the text around names is left out, and so are the Dart
`import` lines of a library.  `definitions` is the sequence of names a library
defines, `uses` the names it mentions with the library they are taken from,
`imports` and `functions` what the ABI description says of the core module.  The four
`define_` methods of types are one action: they differ in the text.  So do
`define_stream_vtable` and `define_future_vtable`, except that a future without a
value gets no vtable (`VoidVtable`).

A vtable has code that lifts and lowers its element.  `ElementVtables` says which
other streams and futures an element is made of; like the functions that carry
streams, the vtable needs theirs (`HasVtables`) and mentions them and the drop
functions of the element's resources (`BodyUses`).  An `unwrap` of a vtable that is
not there ends the program; here the step is disabled, and `Finishes` fails.  That
`find_futures_and_streams` of `wit_parser` lists the inner ones first is
`InnerFirstAssumption`.

Each function, and each of the three generators of a vtable, collects its imports in
`additional_imports` and hands them over in `take_code`.  Between the two nothing
else is generated, so a step has both: what `drop_function` finds new is
local to the step, and `take_code` appends it to `imports`.  What outlives the generator is
`stream_future_vtables`, which makes all later code rely on the import of the first:
`CalledAreImported` compares each file's text with its description.

**DartCode, FunctionGen, CanonicalAbi, Bindings, Marshal.**  `FunctionGen` is a
pure translation: a generator is a record (operand stack, code, cleanup, blocks,
next temporary, options, imports), and an operator turns it into the next one as
the case of `emit` with that name does.  The code is not text but statements that
`DartCode` runs on a memory of blocks (a statement computes its expressions, acts,
and then runs the blocks it contains): a statement that reads what was not
written, writes where nothing is allocated, or frees with another layout leaves a
fault.  An expression is evaluated where its text is inserted, which matters:
`AllocatedString.read` frees the string.  `CanonicalAbi` holds the two things the
generator is between and does not contain: the order of instructions that
`wit-bindgen-core` emits for a type, and what the host reads and writes.
`Bindings` puts both together per function, and `Marshal` makes calls of them: a
synchronous call is one step, as a component is not entered meanwhile; an
asynchronous one is start, reading of the arguments, writing of the result, and
what follows the `await`, with other calls in between on the same memory, whose
lowest free block is handed out first.  The generated code is the variable
`program`: it is made in the initial state and never changes.

**Linker.**  Sequential like the generator, and modelled the same way: `agenda` is
the stack of calls, each with the index space (`Here`) it works for, and `returned`
is the index that the last one returned.  `counters` and `definitions` are the
fields of `HasDefinitions`, for the component and for the instance type of every
interface.  `space` is not in the code: it is what whoever reads the binary finds at
every index, as he counts the definitions in their order; the two agree or they do
not, which is what the module is about.  A definition keeps what it refers to, each
index with what the linker meant by it, and how much of `space` there was when it
was written (`seen`).  A type is a constant, compared by identity as in the Dart maps;
`Root` is the type that it is another name of, and a type that an interface exports
is found as `<<"named", ..>>`.  `putIfAbsent` is one action, `Known`, for every map, and
the calls on the way to a new entry otherwise.  An imported
function `is` what `reader.dart` makes of its JSON: a function of an instance, a
primitive with options, or one without.  A null check or an exception is a step that is not there,
so `Completes` fails; the one that a second ABI description can reach is a step of
its own (`IllegalReference`).

**Pipe.**  `put`, `got`, `closed`.  For the sink, `put` is what the source
emitted and `got` what the peer took; for the reader, `put` is what the peer
wrote and `got` what the listener received; `closed` is "ended" when the end was
seen after everything else, and "cut" when one side gave up.

## The runs

All runs check for deadlock except where the system may stop: tasks that exit,
crash or trap, streams and futures that are over.

| Run | Shows | Bounds |
|---|---|---|
| `taskloop` | `TypeOK`; `EventsHaveHandlers`, `TrackedAreOpen` (no stale entry), `RunningIsCurrent`, `NeverStopped` (no null check fails, nothing traps), `QueuedHaveWakeup` and `WakeupsArrive`, `IterationsEndClean` (errors are reported, exited tasks have no work), `ExitIsClean` | 2 tasks, 2 handles, 2 runtime calls per iteration, 1 wake-up of an idle task |
| `taskloop_second_wakeup` | the second wake-up of an idle task is lost | 3 tasks, 2 wake-ups |
| `timers` | `TypeOK`; `SubtasksMatchHost` (pending waits are in map and set, the host never traps), `TimersOwnWaits` (one wait per active timer, none for a cancelled one), `CancelledNeverFire`, `EndedWaitsComplete` | a one-shot and a periodic timer, 3 waits, 2 handles |
| `futurecopy` | `CopiesOwnBuffers` (buffers follow copies, a value moves once), `ReadersAreAnswered` | 2 futures |
| `streamsink` | `WritesAreExclusive` (one owner per element, source paused exactly while writing), `SinkEnds` (elements arrive, the writable end is dropped), implements `Pipe` | lists of up to 3, 6 elements, size 1 |
| `streamsink_stride` | elements of more than one byte overwrite each other | size 2, 2 elements |
| `streamread` | `NothingLost`, `ReadsFollowListener` (`_waitingForRead` is exact, idle only when paused, finished means dropped, what the listener has received is not freed), `EndIsSeen`, implements `Pipe` | buffer of 3, 6 elements |
| `streamread_once` | the readable end is dropped twice | buffer of 2, 3 elements |
| `httpclient` | `HandlesEnd` (no handle is left behind, only trailers trap), `EndIsHonest`, `EndsAreSeen` (the end arrives, the host is told) | one request |
| `marshal` | `ValuesSurvive`, `NoFaults`, `OnlyKnownLeaks` (exactly these blocks stay), `OptionsCover` (all options but the encoding of what is written to futures) | 10 functions and a future, 2 calls, 11 blocks of 40 bytes, integers of 2, 3, 9 and 18 bits |
| `worldgen` | `TypeOK`; `UniqueImports`, `DefinedOnce`, `CalledAreImported` (what the text calls is imported), `ReferencesResolve`, `Finishes` (no vtable is missing) | 3 packages, 7 interfaces, 8 functions, 5 worlds, every sequence of up to 2 of them |
| `linker` | `ReferencesResolve` (every index is of an earlier definition and of what is meant, but for instances after an export), `ImportedOnce`, `ExportsAreNamed`, `Completes` | 4 interfaces, 10 types, 3 functions; every sequence of up to 2 of 6 imported functions, up to 2 exports |

The type invariants of `FutureCopy`, `StreamSink`, `StreamRead`, `HttpClient` and
`Linker` are proved for every value of the constants, and no run repeats them.

Safety and liveness of a component are one run: the passing runs check both
under `FairSpec` (`Spec` of `WorldGen` and of `Linker` is fair itself), without symmetry, which
liveness does not allow.  `Marshal` has no liveness: what the host does, it may
never do.  Deadlock is checked in `marshal`, where behaviours end in `AllDone`.

Why the bounds are enough.  Two tasks and two handles let a task hold an index
that another one used before, and one that another one frees next, which is all
that the map and table invariants relate (the proofs lift them to any number).
`MaxWakeups` is 1 in the passing runs because the code loses the second one;
with that limit `QueuedHaveWakeup` and `WakeupsArrive` say that the first works,
no more.  Three waits let a periodic timer start its second while a one-shot
timer holds the other handle, and its third with an index that was used before.
A buffer of three elements has a first, a middle and a last partial result, and
six elements fill it twice.  The safety properties of all these hold for any such
sizes and sets ([the proofs](#the-proofs)); for liveness, and for `Marshal`, the
bounds are what there is.  The two futures of `FutureCopy` do not interact;
the module is about the order of events within one.  Requests of an HTTP client
share only `_isClosed`, so `HttpClient` has one.

The ten functions of `MCMarshal` have every form of type the generator
implements without floating point: direct and indirect parameters and results,
lists of options of strings, variants whose payloads are joined to 64 bits, flags
of two words, handles, streams; two calls at once suffice for one to free or
reuse what the other still needs.  `MaxFlatParams` is 4 and `MaxFlatAsyncParams` 2
instead of 16 and 4, so that small signatures cross them.  The widths `W8`, `W16`,
`W32` are scaled down, and values beyond them are among the arguments.  A cell of
memory holds a whole value, so `W8` says nothing of addresses: sizes and offsets
are the real ones.  The worlds of `MCWorldGen` have streams nested in
each other over two levels and listed twice, a future without value, a
stream with owned resources, a vtable that two interfaces share, an interface
without functions, one without a name, one of no package, and a type of an earlier
package that only a later one mentions; runs come in any order and repeat.

The world of `MCLinker` is in the manner of WASI HTTP: interfaces that use each
other's types over three levels, a resource that another interface uses, a type that is
another name of one in the same interface, a handle in a signature, a resource that
its interface does not export.  Two imported functions are enough for one to bring
into the maps, or into an index space, what the other finds there, in either order.
Two exports are where indices of instances go wrong, as `ReferencesResolve` says
([disagreements](#disagreements-found)).

Fairness.  The loop's own steps are weakly fair: it is straight-line code, and
user code returns.  The host delivers an event that stays ready to a task that
waits for it (strongly fair, since entering another task disables it).
Microtasks of the stream controllers are weakly fair.  Nothing is assumed of
imports, peers, listeners and sources, with three exceptions.  In
`StreamSink!FairSpec` the peer keeps reading or leaves, and a cancelled source
ends: without the first nothing can arrive; without the second, a source whose
cancellation never finishes keeps the writable end, and so the task, alive.  In
`HttpClient!FairSpec` the host completes the trailers of a body that is over,
which the WIT of `consume-body` tells callers to wait for.  `WorldGen!Spec`
and `Linker!Spec` are weakly fair: both are sequential programs, whose next step
nothing but themselves can delay.

## The proofs

Eight modules hold the theorems, for every value of the constants; tlapm checks
all of them to the last leaf.  They state every safety invariant and action
property that a passing run checks, and both implementations of `Pipe`; the four
invariants of `Marshal` and `ExportsAreNamed` of `Linker` are the exceptions.  A listed theorem named `Invariance`
is the inductive invariant of its module, and the others follow from it.  The
proofs are laid out as one lemma per action, or per way in which several actions
disturb the same part, then one step per action in `NextInv`.

**`TaskLoop_proofs`**, any sets of tasks and handles and any bounds.

* `TypeCorrect`: `Spec => []TypeOK`.
* `Invariance`: `Spec => []IInv`.  `EventsHaveHandlers`
  (whatever is in a task's waitable set is in the map its event's code selects)
  is not inductive: dropping a handle removes its table entry and *one* map
  entry, and the step is only right if no other map holds the same index.  That
  is the converse, `TrackedAreOpen` (a map entry's handle is open, of the map's
  kind, in the set of that task), which in turn needs the former when an index
  is allocated.  `Agree` is both, and with `RunningIsCurrent` (only the current,
  active task starts operations) and `TypeOK` it is preserved by every step.
* `EventsAreHandled`, `NothingStale`, `OneTaskRuns`: its parts.
* `NothingStops`, `ExitsAreClean`: no failed null check, no trap, and exits with
  nothing left, from `IInv` and `WaitsForSomething` (a task that has not
  returned and is not running waits for something of its own), **assuming
  `~BareWaits`**.  Without the assumption they are false, see
  [disagreements](#disagreements-found).
* `IterationsAreClean`: between iterations no error of one is unreported and no
  task that exited has microtasks, under the same assumption.
* `WokenOnce`: `FirstWakeups`, a task that was woken at most once and has
  microtasks has a wake-up on the way, whatever `MaxWakeups` is.
  `WakeupsAreOnTheWay` is `QueuedHaveWakeup` from it, **assuming
  `MaxWakeups <= 1`**: the second wake-up is lost, which
  `taskloop_second_wakeup` shows.

**`Timers_proofs`**, any sets of timers, waits and handles.  `SubtasksMatchHost`
needs two more parts: `EventsAreCurrent` (an event that is ready is of the state
the subtask is in, and host and runtime agree on a requested cancellation) and
`CallbacksOfDone` (the queued callbacks are of different waits, which are over).
`TimersOwnWaits` needs what each phase of a timer leaves behind: `UsedHaveOwner`,
`TimerPhases`, `PendingIsHeld`, `ActiveHaveOneWait`.

* `SubtasksAgree`, `WaitsHaveOneOwner`: these two invariants.
* `CancelledStaySilent`: the action property `CancelledNeverFire`, from the same
  invariant.

**`FutureCopy_proofs`**, any set of futures.  `CopiesOwnBuffers` names where a
value ends, which says nothing of the steps on the way there; the invariant has
`ValueFollowsEnds` instead, where the value is for each pair of states the two
ends can be in together.  `BuffersHaveOneOwner` follows.

**`StreamSink_proofs`**, elements and lists of any size.  The invariant says what
part of the elements each place holds: `BufferIsWritten`, `ElementsInOrder`, and
`SourceIsHeldBack` and `EndsFollowSource` for when the ends move.

* `SourceWaits`: `PausedWhileWriting`, the part of `WritesAreExclusive` that does
  not depend on how elements are laid out: the source is held back exactly while
  a write refers to its list, and the end is not dropped during one.
* `ElementsHaveOneOwner`: `WritesAreExclusive`, and `PeerSeesPipe`: the sink
  implements `Pipe`, both **assuming `ElementSize = 1`**.  For larger elements
  they are false, which `streamsink_stride` shows.

**`StreamRead_proofs`**, buffers, elements and streams of any size.  The invariant
has `OneRead`, `MemoryInFlight` (what a read buffer holds behind the
acknowledged elements), `ListenerServed` and `QueueInOrder`: the chunks that are queued for the
listener are consecutive parts of what was sent, said by an increasing sequence of
marks between them, since one chunk alone does not tell where it belongs.

* `ElementsArrive`: `NothingLost`; `ReadsFollow`: `ReadsFollowListener`;
  `ListenerSeesPipe`: what the listener sees implements `Pipe`.

**`HttpClient_proofs`**.  The model is of one request, so this adds nothing to the
run but the argument: only the trailers are ever held between two steps
(`HandleStates`), how far body, listener and the two continuations can be at the
same time (`Phases`), and what the queue and the listener say of the end
(`QueueHoldsEnd`, `ToldByEither`, `ErrorBeforeEnd`).

* `HandlesAreReleased`: `HandlesEnd`; `EndsAreHonest`: `EndIsHonest`.

**`WorldGen_proofs`**, any resolved packages, any worlds, any number of runs.

* `TypeCorrect`: `Spec => []TypeOK`.
* `ImportsAreUnique`: `Spec => []UniqueImports`.  That no name is imported twice
  says nothing of the next name, so the invariant `UInv` adds `ImportsKnown`: an
  import called `_import{n}` has an `n` below the length of the list, one of
  task.return an `n` below the number of exported functions, and vtables and drop
  functions are those of `stream_future_vtables`.  A new name is then fresh
  whatever was imported in between, and one lemma per sort of name says so.
* `CallsAreImported`: `Spec => []CalledAreImported`.  The files say nothing of the one
  in the making; the invariant `CInv` adds that what its text mentions so far is
  imported (`MentionedAreImported`) and, since a step that finds a name remembered
  imports nothing, that all of `stream_future_vtables` is (`RememberedAreImported`).
* `DefinitionsAreUnique`: `Spec => []DefinedOnce`.  The invariant `DInv` relates
  the definitions to the calls that are still to be made: a defined name is taken,
  that is remembered in one of the lists, numbered below a list's length, or
  announced by no call of `agenda`; the calls announce each name once, and a
  file starts only after all calls of the one before.  That a world lists an
  interface once on each side (`WorldsAssumption`: the two are maps in
  `wit_parser`) is used here.
* `ReferencesAreResolved`: `Spec => []ReferencesResolve`.  The invariant `RInv`
  says of the file in the making that what is remembered is defined, or is what
  the next calls define (`RememberedAreDefined`), which needs the order in which
  calls follow each other (`Ordered`).  When a package ends, its types are closed
  under what they mention, hence contain `Written` (`PackageIsComplete`); later
  libraries then find there what they import (`ImportsAreDefined`,
  `PackagesAreWritten`).  That an interface belongs to the package that lists it
  (`PackagesAssumption`) is used here.  The two exceptions that
  `ReferencesResolve` names (`NotWritten`) are among the
  [disagreements](#disagreements-found); the theorem says that there is no third.

**`Linker_proofs`**, any interfaces, types and functions, any ABI description, any
number of imports and exports.  The invariant has three parts.

* What is there: the builder counts what the reader does (`Counted`), the maps hold
  indices at which the reader finds what the map says (`Memos`), and so do
  `inlineExports` and the outer aliases of instance types (`Inlined`, `Written`).
  `Counted` has the two exceptions that the code has: between `Allocate` and
  `AddCanonPrimitive` a core function is counted and not defined (`Pending`), and
  after an export instances are counted short (`Exporting`).
* What is coming: a call that takes the index `returned` follows the one that
  returns it (`Chained`), and what a definition looks up in a map is there or is
  brought by a call before it (`Coming`).  Without the latter `requireDefinitions`
  would be in vain: it is what keeps every alias of a core function before
  `Allocate`.
* Where calls stand: each is made where it may be (`AgendaPlaced`), and those before a
  pending primitive define no core function (`AgendaOrdered`).  The same part says
  that the calls for an interface come before those for the interfaces that use it,
  from `DepthAssumption`; that is why nothing between the look-up of an interface and
  its import imports it.

* `Invariance`: `Spec => []LinkerInv`.
* `TypeCorrect`: `TypeOK`; `InterfacesImportedOnce`: `ImportedOnce`.
* `ReferencesAreSound`: `Spec => []ReferencesResolve`, which the construction of every
  definition, with the index it took several calls earlier, has to preserve.  Instances
  after an export are the one exception (`AfterExport`), see
  [disagreements](#disagreements-found).

Assumptions on the constants.  `NoneAssumption` (a task is not `None`) and
`BoundAssumption` of `TaskLoop`; `TimersAssumption`; `SizesAssumption` of
`StreamSink` and of `StreamRead`; `SetsAssumption`, `ResolveAssumption` (the
constants have their types), `PackagesAssumption`, `WorldsAssumption`,
`InnerFirstAssumption` (on which no proof relies) and `NoAssumption` of `WorldGen`; `AbiAssumption` (types), `RootAssumption` (an imported
name of a type of the same interface is a name of that type), `DepthAssumption`
(interfaces use each other without a circle, as WIT demands), `ComponentAssumption`
and `NamesAssumption` (the names of scopes, types and exports differ) of `Linker`.
TLC evaluates each in the passing run of its module.

Only model-checked: all four invariants of `Marshal`, since types are nested and
the modules under it therefore use recursive operators, of which the prover has no
induction; `ExportsAreNamed`, which relates an export to every type that contains the
exported one, however deep, and so needs induction over types as well; and the
liveness properties (`WakeupsArrive`, `EndedWaitsComplete`, `ReadersAreAnswered`,
`SinkEnds`, `EndIsSeen`, `EndsAreSeen`, `Finishes`, `Completes`), since the prover
has neither fairness nor ENABLED.

## Disagreements found

The first three are the counterexamples of runs named above; `PROJECT.json` quotes the lines.

* `task.dart:187` `_microtaskScheduled` is never reset: an idle task is woken
  once in its life.
* `stream.dart:387,399` a stream that ends, or is cancelled from `onData`,
  drops its readable end twice.
* `bindgen.rs:199` stream elements are written one byte apart.

These follow from the models in the same way and have no run of their own.

* `component.dart:100` the index that an export takes is not counted, although the
  builder's own test prints it (`component_test.dart:111`): the instance put together for a
  second exported interface gets the index of the first export, and that is what is
  exported again.  `ReferencesResolve` names these references (`AfterExport`), and the
  theorem says that there are no others.
* `task.dart:105` a task that waits only for another task exits, and the
  wake-up joins a set that was dropped.  `BareWaits` of `TaskLoop` allows such
  tasks, and with it `NeverStopped`, `IterationsEndClean` and `ExitIsClean` are
  false; all runs exclude them,
  so no property covers this.
* `future.dart:113` a Dart future that fails leaves the reader waiting
  (`SourceCompletes` of `FutureCopy`).
* `stream.dart:440` closing frees the rest of a read buffer as elements although
  it was never read.
* `functions.rs:1180` flags of two words are lifted with their halves exchanged;
  `ValuesSurvive` states exactly that (`AsLifted`).
* `bindgen.rs:379` `future.write` and `stream.write` are imported without
  `string-encoding=utf16` (`abi.rs:18`) although the values are stored as UTF-16;
  `OptionsCover` leaves out exactly this.
* Memory that is never freed, by `OnlyKnownLeaks` exactly this: strings and lists
  given to asynchronous imports (`call_async.rs:63`) or written to futures (which
  are freed as if the host took them over, `future.dart:145`), the blocks of received lists (`functions.rs:1147`),
  and the areas of exports without a post-return function (`bindgen.rs:939`).
* `dart_source.rs:118` a type of an earlier package that none of its own functions
  mentions, and an interface without a name, are taken from the library of a
  package that does not define them; `ReferencesResolve` names both (`NotWritten`).
* `bindgen.rs:347` a future without a value makes the generated library call a
  static constant as a constructor.
* `bindgen.rs:699,718` functions and types that a world imports directly are
  silently left out.
* `reader.dart:166` a type taken from another interface under a new name (`use
  a.{x as y}`) is aliased with the new name, which that interface does not have
  (`Linker` has one name per `Root`, so this is not among its behaviours).
* `reader.dart:29` an interface that an earlier ABI description has is kept, while its
  types are read again as new objects: its resource is then no longer the one that
  the interface exports, and `mapType` throws (`IllegalReference`).

Three more concern single statements.  `stream.dart:327` divides by the
element size, which is 0 for a stream without element type, and throws on every
such `listen`; `SizesAssumption` of `StreamRead` excludes it.  `timer.dart:40`
asserts `_currentWait == null`, which is false whenever a periodic timer starts
its second wait: in a build with assertions it would stop there, so `Timers`
models the build without.  `http_client.dart:226,260` drop the trailers of a
response twice when it is read to its end, since closing a controller calls its
`onCancel`; no document of the repository says otherwise, so `TrapsOnTrailers`
states exactly when the host traps, and the other properties of `HttpClient` say
what holds for responses without trailers, and until then.

After the trap in `StreamRead` that the second drop causes nothing happens any
more, so the safety properties of a stream say what holds until then, and on the
paths that do not close the stream from inside a callback.

## Limits

Not modelled of the generator: floating-point values (joining them with integers in a
variant is `todo!`), handles that are freed in place, the flush instructions,
exports whose parameters or post-return lists make it panic, the vtable of
streams other than its names and `writeToBuffer`, two outputs of one file name,
and the wording, imports and identifiers of the generated text.

Not modelled of the linker: the parsing of the ABI description, the bytes of the
sections, the string encoding and `async` options, which carry no index, and a
callback of an imported function, at which `programExport` would throw.

Not modelled of the runtime: cancellation of reads
and writes (the code throws `UnimplementedError`); errors of a source stream,
which reach the zone and are `ThrowUncaught` in `TaskLoop`; sources that emit
while paused, against which `_onData` throws; the chunks of an HTTP body, and a
response that nobody listens to, whose body and trailers are never released; task cancellation beyond the event
that the code ignores.  `TaskLoop` and the stream modules are not composed: the
event loop offers `DispatchEvent` to them at any time between iterations, which
is what `EventsHaveHandlers` guarantees.  `MaxElements`, `MaxChunk`, `MaxOps`,
`MaxWakeups`, `MaxCalls`, `MaxBlocks`, `BlockBytes`, `MaxRuns` and the sets of
`Timers`, `Waits`, `Futures`, `Tasks` and `Handles` are bounds, named where they are declared.

Out of the prover's reach: liveness, ENABLED, and what a recursively defined
function computes for all inputs.  The modules meant for proofs therefore use no
recursive operator; `DartCode`, `CanonicalAbi` and what extends them do, and are
TLC's alone.

## Plan

In this order; what exists is marked.

1. `TaskLoop`, `Timers`, `FutureCopy`, `StreamRead`, `StreamSink` over `Pipe`
   (done, with proofs).
2. `HttpClient` (done, with proofs); `HttpService`: the shelf adapter of
   `service.dart`, the handles and completers of a request on every path,
   composed with `HttpClient` through `WasiHttpClient.fromHandler`.
3. `StreamCopy`: a sink and a reader of the same stream, composed, implementing
   `Pipe`; and streams under `TaskLoop`, so that a task exits exactly when its
   streams are over.
4. `StringBuffer` (growth, change from one to two bytes) refining `Append`;
   `Regex`: the backtracking matcher against the language of the expression over
   short inputs; the small pure helpers of `numbers`.
5. `Linker` (done, with proofs); `Transform`: renumbering.
6. The generator: `WorldGen` (done, with proofs) and `Marshal` with the modules
   under it (done, not proved); the vtables of streams in `Marshal`.

Theorems still worth proving, in this order: that `WorldGen` without an `unwrap`
that fails is never stuck, as a state predicate; for streams with larger
elements, which elements the peer gets; that `StreamCopy` implements `Pipe`, from
the two theorems about its halves; that `StringBuffer` implements `Append`; of
`Linker`, `ExportsAreNamed` for types up to a given depth.
