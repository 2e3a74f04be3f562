------------------------------ MODULE TaskLoop ------------------------------
(***************************************************************************)
(* The event loop of asynchronously lifted exports                         *)
(* (wasm_components/lib/src/runtime/async/task.dart).  Every call of an    *)
(* exported async function is a Task: a Dart zone with its own microtask   *)
(* queue, a component-model waitable set and five maps from the index of a *)
(* host handle to the object that handles the handle's events.  The host   *)
(* runs one task at a time: it calls the export (spawnTask) or delivers an *)
(* event to it (callback), and gets back EXIT or WAIT.                     *)
(*                                                                         *)
(* User code is abstracted to the calls it makes into the runtime, at most *)
(* MaxOps in one event-loop iteration.  The host's handle table is         *)
(* external: it is modelled from the canonical-ABI built-ins that the      *)
(* runtime calls.                                                          *)
(***************************************************************************)
EXTENDS Naturals

CONSTANTS
  Tasks,        \* calls of exported async functions
  Handles,      \* indices of the host's handle table, reused after a drop
  None,         \* no task / no waitable set
  MaxOps,       \* bound: runtime calls of user code in one iteration
  MaxWakeups,   \* bound: wake-ups of one idle task by other tasks
  BareWaits     \* whether a task may wait for another one and for nothing of its own

ASSUME NoneAssumption == None \notin Tasks
ASSUME BoundAssumption == /\ MaxOps \in Nat
                          /\ MaxWakeups \in Nat
                          /\ BareWaits \in BOOLEAN

Streams == {"streamRead", "streamWrite"}
Futures == {"futureRead", "futureWrite"}

\* The five maps of a task, named after the EventCode that looks into each.
Kinds == {"subtask"} \cup Streams \cup Futures

\* What the payload of an event tells the loop: a subtask made progress, or
\* the operation on the handle is over.
Codes == {"started", "over"}

VARIABLES
  current,      \* the task in the context slot of the host thread
  pc,           \* where the thread is, see TypeOK
  life,         \* membership in _activeTasks, and in the past
  running,      \* Task._isRunning
  queue,        \* length of Task._microtaskQueue
  scheduled,    \* Task._microtaskScheduled
  unhandled,    \* Task._unhandledError != null
  tracked,      \* the five maps of each task
  returned,     \* whether the task called task.return
  table,        \* the host's handle table
  ops,          \* runtime calls of user code in this iteration
  wakeups       \* wake-ups of an idle task by other tasks

guest == <<life, running, queue, scheduled, unhandled, tracked, returned>>
vars == <<current, pc, guest, table, ops, wakeups>>

-----------------------------------------------------------------------------
(* The host's handle table.                                                *)

\* Whether an operation is in progress on a handle.
OpStates == {"idle", "busy"}

Entry(k, t, o, e) == [kind |-> k, set |-> t, op |-> o, event |-> e]
FreeEntry == Entry("free", None, "idle", "none")
IsFree(h) == table[h] = FreeEntry

\* The handle is removed from the table, and from the set it is in.
Dropped(h) == [table EXCEPT ![h] = FreeEntry]

\* The handle's operation and its event, all else unchanged.
Updated(h, o, e) == [table EXCEPT ![h] = Entry(@.kind, @.set, o, e)]

\* Everything a task waits for; the variant forgets one of the five maps.
Tracking_NoSinks(t) == UNION {tracked[t][k] : k \in Kinds \ {"streamWrite"}}
Tracking(t) == UNION {tracked[t][k] : k \in Kinds}
Track(t, k, h) == [tracked EXCEPT ![t][k] = @ \cup {h}]
Untrack(t, k, h) == [tracked EXCEPT ![t][k] = @ \ {h}]

Init ==
  /\ current = None
  /\ pc = "host"
  /\ life = [t \in Tasks |-> "unborn"]
  /\ running = [t \in Tasks |-> FALSE]
  /\ queue = [t \in Tasks |-> 0]
  /\ scheduled = [t \in Tasks |-> FALSE]
  /\ unhandled = [t \in Tasks |-> FALSE]
  /\ tracked = [t \in Tasks |-> [k \in Kinds |-> {}]]
  /\ returned = [t \in Tasks |-> FALSE]
  /\ table = [h \in Handles |-> FreeEntry]
  /\ ops = 0
  /\ wakeups = [t \in Tasks |-> 0]

-----------------------------------------------------------------------------
(* Entry points called by the host.                                        *)

\* spawnTask up to the first suspension of the exported function.
Spawn(t) ==
  /\ pc = "host"
  /\ life[t] = "unborn"
  /\ life' = [life EXCEPT ![t] = "active"]
  /\ current' = t
  /\ running' = [running EXCEPT ![t] = TRUE]
  /\ pc' = "code"
  /\ ops' = 0
  /\ UNCHANGED <<queue, scheduled, unhandled, tracked, returned, table, wakeups>>

\* The callback export: the context slot names the task, which must be known
\* and not be running (forCurrentThread).
Enter_NotRunning(t) ==
  /\ pc = "host"
  /\ life[t] = "active"
  /\ current' = t
  /\ ops' = 0
  /\ UNCHANGED running

Enter(t) ==
  /\ pc = "host"
  /\ life[t] = "active"
  /\ current' = t
  /\ ops' = 0
  /\ running' = [running EXCEPT ![t] = TRUE]

\* The object that handles an event of handle h: the `!` on the map lookup.
HandlerFound_OneFutureMap(t, h) ==
  IF table[h].kind \in Futures
  THEN h \in tracked[t]["futureRead"]
  ELSE h \in tracked[t][table[h].kind]

HandlerFound(t, h) == h \in tracked[t][table[h].kind]

\* A subtask that has started stays tracked.  One that is over is dropped and
\* its completer, which is not synchronous, schedules a microtask.
SubtaskEvent(t, h) ==
  /\ table[h].kind = "subtask"
  /\ \/ /\ table[h].event = "started"
        /\ table' = Updated(h, "busy", "none")
        /\ UNCHANGED <<tracked, queue>>
     \/ /\ table[h].event = "over"
        /\ table' = Dropped(h)
        /\ tracked' = Untrack(t, "subtask", h)
        /\ queue' = [queue EXCEPT ![t] = @ + 1]

\* Futures are dropped, then their synchronous completer runs user code.
FutureEvent_NotDropped(t, h) ==
  /\ table[h].kind \in Futures
  /\ table' = Updated(h, "idle", "none")
  /\ tracked' = Untrack(t, table[h].kind, h)
  /\ UNCHANGED queue

FutureEvent(t, h) ==
  /\ table[h].kind \in Futures
  /\ table' = Dropped(h)
  /\ tracked' = Untrack(t, table[h].kind, h)
  /\ UNCHANGED queue

\* A stream starts the next operation, stays idle, or is closed.
StreamEvent(t, h) ==
  /\ table[h].kind \in Streams
  /\ UNCHANGED queue
  /\ \/ /\ \E o \in OpStates : table' = Updated(h, o, "none")
        /\ UNCHANGED tracked
     \/ /\ table' = Dropped(h)
        /\ tracked' = Untrack(t, table[h].kind, h)

\* Task.dispatchEvent for an event of one of the handles in the task's set.
Dispatch(t, h) ==
  /\ Enter(t)
  /\ table[h].set = t
  /\ table[h].event # "none"
  /\ IF HandlerFound(t, h)
     THEN /\ pc' = "code"
          /\ SubtaskEvent(t, h) \/ FutureEvent(t, h) \/ StreamEvent(t, h)
     ELSE /\ pc' = "failed"
          /\ UNCHANGED <<table, tracked, queue>>
  /\ UNCHANGED <<life, scheduled, unhandled, returned, wakeups>>

\* EventCode.taskCancelled: ignored, but the microtasks run.
CancelRequest(t) ==
  /\ Enter(t)
  /\ pc' = "drain"
  /\ UNCHANGED <<life, queue, scheduled, unhandled, tracked, returned, table,
                 wakeups>>

-----------------------------------------------------------------------------
(* Calls of user code that runs in the zone of task t.                     *)

UserOp(t) ==
  /\ pc = "code"
  /\ current = t
  /\ ops < MaxOps
  /\ ops' = ops + 1
  /\ UNCHANGED <<current, life, running>>

\* An operation on a new handle blocks: trackSubtask with a state that is not
\* final, readFutureInternal and writeValue with blockedCode, and the
\* constructors of StreamReadState and StreamSinkState, whose first read or
\* write may also have finished.  An operation of another kind that finishes
\* at once leaves only a microtask (ScheduleMicrotask).
StartOperation(t, k, h, o) ==
  /\ UserOp(t)
  /\ IsFree(h)
  /\ k \notin Streams => o = "busy"
  /\ table' = [table EXCEPT ![h] = Entry(k, t, o, "none")]
  /\ tracked' = Track(t, k, h)
  /\ UNCHANGED <<pc, queue, scheduled, unhandled, returned, wakeups>>

\* A subscription resumes: the next read or write of an idle stream.
ResumeStream(t, k, h) ==
  /\ UserOp(t)
  /\ h \in tracked[t][k]
  /\ k \in Streams
  /\ table[h].op = "idle"
  /\ table' = Updated(h, "busy", "none")
  /\ UNCHANGED <<pc, queue, scheduled, unhandled, tracked, returned, wakeups>>

\* A subscription is cancelled, or its source is done, while the stream is idle.
CloseStream_StaysTracked(t, k, h) ==
  /\ UserOp(t)
  /\ h \in tracked[t][k]
  /\ k \in Streams
  /\ table[h].op = "idle"
  /\ table' = Dropped(h)
  /\ UNCHANGED <<pc, queue, scheduled, unhandled, tracked, returned, wakeups>>

CloseStream(t, k, h) ==
  /\ UserOp(t)
  /\ h \in tracked[t][k]
  /\ k \in Streams
  /\ table[h].op = "idle"
  /\ table' = Dropped(h)
  /\ tracked' = Untrack(t, k, h)
  /\ UNCHANGED <<pc, queue, scheduled, unhandled, returned, wakeups>>

\* SubtaskImpl.cancel: the subtask leaves the set, the host is asked to cancel
\* it and blocks until it is over (it may have been already, with its event
\* undelivered), and dispatchEvent runs inline.
CancelSubtask(t, h) ==
  /\ UserOp(t)
  /\ h \in tracked[t]["subtask"]
  /\ table' = Dropped(h)
  /\ tracked' = Untrack(t, "subtask", h)
  /\ queue' = [queue EXCEPT ![t] = @ + 1]
  /\ UNCHANGED <<pc, scheduled, unhandled, returned, wakeups>>

\* scheduleRawMicrotask for the running task.
ScheduleMicrotask(t) ==
  /\ UserOp(t)
  /\ queue' = [queue EXCEPT ![t] = @ + 1]
  /\ UNCHANGED <<pc, scheduled, unhandled, tracked, returned, table, wakeups>>

\* Whether a new microtask needs a wake-up; the variant tests the wrong state.
NeedsWakeup_Inverted(u) == running[u] /\ ~scheduled[u]
NeedsWakeup(u) == ~running[u] /\ ~scheduled[u]

\* The readable end of the future that wakes u up: joined to u's set, and
\* completed by a write.  The variant forgets the write.
Wakeup_NotWritten(u) == Entry("futureRead", u, "busy", "none")
Wakeup(u) == Entry("futureRead", u, "busy", "over")

\* scheduleRawMicrotask for task u, called while t runs: t completes a future
\* that u created.  Unless it has done so before, the runtime creates a future,
\* reads it on behalf of u, joins it to u's waitable set (a trap if the set is
\* gone), and completes it.
ScheduleOn(t, u, h) ==
  /\ UserOp(t)
  /\ u # t
  /\ life[u] = "active" \/ (BareWaits /\ life[u] = "exited")
  /\ wakeups[u] < MaxWakeups
  /\ wakeups' = [wakeups EXCEPT ![u] = @ + 1]
  /\ queue' = [queue EXCEPT ![u] = @ + 1]
  /\ IF NeedsWakeup(u)
     THEN /\ IsFree(h)
          /\ scheduled' = [scheduled EXCEPT ![u] = TRUE]
          /\ IF life[u] = "active"
             THEN /\ table' = [table EXCEPT ![h] = Wakeup(u)]
                  /\ tracked' = Track(u, "futureRead", h)
                  /\ UNCHANGED pc
             ELSE /\ pc' = "trapped"
                  /\ UNCHANGED <<table, tracked>>
     ELSE UNCHANGED <<pc, scheduled, tracked, table>>
  /\ UNCHANGED <<unhandled, returned>>

\* An error nobody catches reaches handleUncaughtError of the zone.
ThrowUncaught(t) ==
  /\ UserOp(t)
  /\ unhandled' = [unhandled EXCEPT ![t] = TRUE]
  /\ UNCHANGED <<pc, queue, scheduled, tracked, returned, table, wakeups>>

\* User code gives control back to the loop, after the generated export may
\* have called task.return with the function's result.  A function that has
\* not returned waits for something of its own task, unless it waits for
\* another task, which the runtime cannot see (BareWaits).
EndCode(t) ==
  /\ pc = "code"
  /\ current = t
  /\ \E r \in BOOLEAN :
       /\ returned[t] => r
       /\ \/ r \/ unhandled[t] \/ BareWaits
          \/ queue[t] > 0
          \/ Tracking(t) # {}
       /\ returned' = [returned EXCEPT ![t] = r]
  /\ pc' = "drain"
  /\ UNCHANGED <<current, life, running, queue, scheduled, unhandled, tracked,
                 table, ops, wakeups>>

-----------------------------------------------------------------------------
(* Task._finishEventLoopIteration.                                         *)

\* The next entry of the queue, if there is one; the variant takes it blindly.
RunMicrotask_Unchecked(t) ==
  /\ pc = "drain"
  /\ current = t
  /\ queue' = [queue EXCEPT ![t] = @ - 1]
  /\ pc' = "code"
  /\ UNCHANGED <<current, life, running, scheduled, unhandled, tracked,
                 returned, table, ops, wakeups>>

RunMicrotask(t) ==
  /\ pc = "drain"
  /\ current = t
  /\ queue[t] > 0
  /\ queue' = [queue EXCEPT ![t] = @ - 1]
  /\ pc' = "code"
  /\ UNCHANGED <<current, life, running, scheduled, unhandled, tracked,
                 returned, table, ops, wakeups>>

\* Dropping a waitable set that is not empty traps, and so does EXIT before
\* task.return.
ExitTraps(t) == ~returned[t] \/ \E h \in Handles : table[h].set = t

Exit(t) ==
  /\ Tracking(t) = {}
  /\ life' = [life EXCEPT ![t] = "exited"]
  /\ pc' = IF ExitTraps(t) THEN "trapped" ELSE "host"
  /\ UNCHANGED unhandled

Wait(t) ==
  /\ Tracking(t) # {}
  /\ pc' = "host"
  /\ UNCHANGED <<life, unhandled>>

Crash(t) ==
  /\ unhandled' = [unhandled EXCEPT ![t] = FALSE]
  /\ pc' = "crashed"
  /\ UNCHANGED life

\* What the host gets back.
Outcome(t) == IF unhandled[t] THEN Crash(t) ELSE Exit(t) \/ Wait(t)

\* The loop ends once the queue is empty; the variant does not look again
\* after the first microtasks.
Drained_Early(t) == TRUE
Drained(t) == queue[t] = 0

Finish(t) ==
  /\ pc = "drain"
  /\ current = t
  /\ Drained(t)
  /\ running' = [running EXCEPT ![t] = FALSE]
  /\ current' = None
  /\ Outcome(t)
  /\ UNCHANGED <<queue, scheduled, tracked, returned, table, ops, wakeups>>

-----------------------------------------------------------------------------
(* The host finishes, or makes progress on, the operation of a handle.     *)

HostProgress(h, c) ==
  /\ pc \in {"host", "code", "drain"}
  /\ table[h].op = "busy"
  /\ table[h].event = "none"
  /\ c = "started" => table[h].kind = "subtask"
  /\ table' = Updated(h, "busy", c)
  /\ UNCHANGED <<current, pc, guest, ops, wakeups>>

-----------------------------------------------------------------------------

TaskCode(t) ==
  \/ \E k \in Kinds, h \in Handles, o \in OpStates : StartOperation(t, k, h, o)
  \/ \E k \in Streams, h \in Handles : ResumeStream(t, k, h) \/ CloseStream(t, k, h)
  \/ \E h \in Handles : CancelSubtask(t, h)
  \/ ScheduleMicrotask(t)
  \/ \E u \in Tasks, h \in Handles : ScheduleOn(t, u, h)
  \/ ThrowUncaught(t)

Deliver(t) == \E h \in Handles : Dispatch(t, h)

Next ==
  \/ \E t \in Tasks :
       \/ Spawn(t) \/ Deliver(t) \/ CancelRequest(t)
       \/ TaskCode(t) \/ EndCode(t)
       \/ RunMicrotask(t) \/ Finish(t)
  \/ \E h \in Handles, c \in Codes : HostProgress(h, c)

Spec == Init /\ [][Next]_vars

\* User code returns to the loop and the loop runs to its end; the host
\* delivers an event that stays ready to the task that waits for it.  Nothing
\* makes the host finish an operation.
Fairness ==
  \A t \in Tasks :
    /\ WF_vars(EndCode(t))
    /\ WF_vars(RunMicrotask(t))
    /\ WF_vars(Finish(t))
    /\ SF_vars(Deliver(t))

FairSpec == Spec /\ Fairness

-----------------------------------------------------------------------------
(* Properties.                                                             *)

Tracks == [Tasks -> [Kinds -> SUBSET Handles]]
Entries == [kind : Kinds \cup {"free"}, set : Tasks \cup {None},
            op : OpStates, event : Codes \cup {"none"}]

\* The type of every variable.
TypeOK ==
  /\ current \in Tasks \cup {None}
  /\ pc \in {"host",     \* no task of the component runs
             "code",     \* user code, called by an entry point or a microtask
             "drain",    \* the loop of _finishEventLoopIteration
             "failed",   \* a null check or assertion of the runtime failed
             "crashed",  \* an unhandled error was thrown at the host
             "trapped"}  \* the host trapped
  /\ life \in [Tasks -> {"unborn", "active", "exited"}]
  /\ running \in [Tasks -> BOOLEAN]
  /\ queue \in [Tasks -> Nat]
  /\ scheduled \in [Tasks -> BOOLEAN]
  /\ unhandled \in [Tasks -> BOOLEAN]
  /\ tracked \in Tracks
  /\ returned \in [Tasks -> BOOLEAN]
  /\ table \in [Handles -> Entries]
  /\ ops \in 0 .. MaxOps
  /\ wakeups \in [Tasks -> 0 .. MaxWakeups]

\* An event that the host can still deliver finds its handler: whatever is in
\* the waitable set of a task is in the map of that task that the event's code
\* selects, so no `!` of _dispatchEvent (task.dart:68-78) fails and no event
\* reaches the handler of another task after its index has been reused.
EventsHaveHandlers ==
  \A h \in Handles :
    table[h].set # None =>
      /\ life[table[h].set] = "active"
      /\ table[h].kind \in Kinds
      /\ HandlerFound(table[h].set, h)

\* A map holds no stale entry: its handle is open, of the map's kind, and in
\* the set of the task.  A task with a stale entry would wait forever instead
\* of exiting (task.dart:105-113).
TrackedAreOpen ==
  \A t \in Tasks, k \in Kinds : \A h \in tracked[t][k] :
    table[h].kind = k /\ table[h].set = t

\* Between iterations no task is marked as running; in one, exactly the task
\* in the context slot is, which is what _verifyCurrent relies on.
RunningIsCurrent ==
  /\ pc = "host" => current = None
  /\ pc \in {"code", "drain"} => current # None /\ life[current] = "active"
  /\ pc \in {"host", "code", "drain"} =>
       \A t \in Tasks : running[t] <=> (current = t)

\* What a task waits for: an idle one has something of its own, and one about
\* to leave its iteration has that, or more to run, or nothing left to do.
WaitsForSomething ==
  ~BareWaits /\ pc \in {"host", "code", "drain"} =>
    \A t \in Tasks :
      /\ life[t] = "active" /\ ~running[t] => Tracking(t) # {}
      /\ pc = "drain" /\ current = t =>
           \/ returned[t] \/ unhandled[t]
           \/ queue[t] > 0
           \/ Tracking(t) # {}

\* Neither the host nor a check of the runtime stops the program.
NeverStopped == pc \notin {"failed", "trapped"}

\* While the host has control, a task with queued microtasks has an event on
\* the way that triggers an event-loop iteration (task.dart:189-193).
QueuedHaveWakeup ==
  pc = "host" =>
    \A t \in Tasks :
      queue[t] > 0 =>
        \E h \in Handles : table[h].set = t /\ table[h].event # "none"

\* No uncaught error outlives the iteration it was thrown in: the program
\* crashes instead (task.dart:98-103).
ErrorsAreReported == pc = "host" => \A t \in Tasks : ~unhandled[t]

\* Microtasks are not queued for a task that will not run again.
ExitedHaveNoWork ==
  \A t \in Tasks : life[t] = "exited" => queue[t] = 0

\* An iteration leaves nothing for one that may never come: no error of its own,
\* and no microtask of a task that it ended.
IterationsEndClean == ErrorsAreReported /\ ExitedHaveNoWork

\* A task leaves the loop for good only from its own iteration, with its
\* result returned and with nothing of it left in the host's table.
CleanExit ==
  \A t \in Tasks :
    life[t] = "active" /\ life'[t] = "exited" =>
      /\ current = t
      /\ returned[t]
      /\ \A h \in Handles : table'[h].set # t

ExitIsClean == [][CleanExit]_vars

\* Microtasks queued for a task that does not run make it run (the wake-up of
\* task.dart:189-194), unless the program stops.
WakeupsArrive ==
  \A t \in Tasks :
    queue[t] > 0 /\ ~running[t] ~>
      running[t] \/ pc \in {"failed", "crashed", "trapped"}
=============================================================================
