------------------------------- MODULE Timers -------------------------------
(***************************************************************************)
(* Subtasks and the timers built on them (wasm_components/lib/src/runtime/ *)
(* async/subtask.dart and timer.dart), inside one task.  A subtask is an   *)
(* object of the runtime (SubtaskImpl) for a call of an asynchronous       *)
(* import; a WasmTimer waits with a subtask of wasi's wait-for, and a      *)
(* periodic one starts the next when the previous one is over.  The host's *)
(* side of a subtask is external, modelled from the built-ins join, cancel *)
(* and drop, with the cases in which they trap.                            *)
(***************************************************************************)
EXTENDS Naturals, Sequences

CONSTANTS
  Timers,     \* Dart timers
  Periodic,   \* the periodic ones
  Waits,      \* bound: SubtaskImpl objects, each created once
  Handles,    \* indices of the host's handle table
  None

ASSUME TimersAssumption == /\ Periodic \subseteq Timers
                           /\ None \notin Timers \cup Waits \cup Handles

Pending == {"starting", "started"}
Final == {"returned", "cancelledBeforeStarted", "cancelledBeforeReturned"}

VARIABLES
  inLoop,     \* an event-loop iteration is in progress
  queue,      \* completed waits whose whenComplete callback is a microtask
  timer,      \* the WasmTimer objects
  wait,       \* the SubtaskImpl objects
  subtasks,   \* Task._subtasks
  host,       \* the host's side of each subtask handle
  trapped     \* a built-in trapped

vars == <<inLoop, queue, timer, wait, subtasks, host, trapped>>

\* An object before its call; the variant has the index of a finished call.
Unused_ZeroIndex == [index |-> 0, owner |-> None, state |-> "starting",
                     completer |-> "unused", cancelling |-> FALSE]
Unused == [index |-> None, owner |-> None, state |-> "starting",
           completer |-> "unused", cancelling |-> FALSE]
Free == [state |-> "free", joined |-> FALSE, event |-> "none", cancelling |-> FALSE]

Init ==
  /\ inLoop = FALSE
  /\ queue = <<>>
  /\ timer = [w \in Timers |->
                [created |-> FALSE, active |-> FALSE, tick |-> 0,
                 current |-> None, cancelled |-> FALSE]]
  /\ wait = [s \in Waits |-> Unused]
  /\ subtasks = [h \in Handles |-> None]
  /\ host = [h \in Handles |-> Free]
  /\ trapped = FALSE

-----------------------------------------------------------------------------
(* SubtaskImpl.                                                            *)

\* The wait is over: a final state removes the subtask from the map and drops
\* its handle (a trap unless the host has told the final state), and the
\* completer schedules the callback.
Complete(s, st) ==
  /\ wait' = [wait EXCEPT ![s].state = st, ![s].completer = "done"]
  /\ subtasks' = [subtasks EXCEPT ![wait[s].index] = None]
  /\ host' = [host EXCEPT ![wait[s].index] = Free]
  /\ trapped' = (trapped \/ host[wait[s].index].state \notin Final)
  /\ queue' = Append(queue, s)

\* _schedule keeps the wait for cancel().
Holding(t, s) == [t EXCEPT !.current = s]

\* trackSubtask, with the state and index that the import returned, for an
\* unused object; the wait becomes the current one of timer w, which is t
\* otherwise, and q is what is left of the microtasks.
Track(w, s, t, q) ==
  /\ wait[s].completer = "unused"
  /\ timer' = [timer EXCEPT ![w] = Holding(t, s)]
  /\ \/ \E h \in Handles, st \in Pending :
          /\ host[h] = Free
          /\ host' = [host EXCEPT ![h] = [Free EXCEPT !.state = st, !.joined = TRUE]]
          /\ subtasks' = [subtasks EXCEPT ![h] = s]
          /\ wait' = [wait EXCEPT ![s] =
                        [Unused EXCEPT !.index = h, !.owner = w, !.completer = "pending"]]
          /\ queue' = q
     \/ /\ wait' = [wait EXCEPT ![s] =
                      [Unused EXCEPT !.owner = w, !.state = "returned", !.completer = "done"]]
        /\ queue' = Append(q, s)
        /\ UNCHANGED <<host, subtasks>>

\* The state in which the host ends a subtask that is asked to stop.
CancelledState(h) ==
  IF host[h].state = "starting" THEN {"cancelledBeforeStarted"}
                                ELSE {"cancelledBeforeReturned", "returned"}

\* What subtask.cancel answers: the final state, or that the request blocks.
\* The final state may be one whose event has not been delivered yet.
Answers(h) ==
  IF host[h].state \in Final THEN {host[h].state} ELSE CancelledState(h) \cup {"blocked"}

\* Built-in subtask.cancel traps for a subtask in a waitable set, for a second
\* request, and for an index that names no subtask.
CancelTraps(h, joined) ==
  joined \/ host[h].cancelling \/ host[h].state = "free"

\* SubtaskImpl.cancel returns at once if it has nothing to cancel.
NothingToCancel(s) ==
  wait[s].cancelling \/ wait[s].index = None \/ wait[s].completer = "done"

\* The subtask leaves the waitable set before the host is asked; the variant
\* asks while the subtask is in the set.
JoinedDuringCancel_Kept(h) == host[h].joined
JoinedDuringCancel(h) == FALSE

\* It is joined again if the request blocks; the variant forgets to.
JoinedAfterCancel_Not(h) == FALSE
JoinedAfterCancel(h) == TRUE

CancelWait(s) ==
  LET h == wait[s].index IN
  IF NothingToCancel(s)
  THEN UNCHANGED <<wait, subtasks, host, queue, trapped>>
  ELSE \E a \in Answers(h) :
         IF a = "blocked"
         THEN /\ wait' = [wait EXCEPT ![s].cancelling = TRUE]
              /\ host' = [host EXCEPT ![h].joined = JoinedAfterCancel(h),
                                          ![h].cancelling = TRUE]
              /\ trapped' = (trapped \/ CancelTraps(h, JoinedDuringCancel(h)))
              /\ UNCHANGED <<subtasks, queue>>
         ELSE /\ wait' = [wait EXCEPT ![s].state = a, ![s].completer = "done",
                                      ![s].cancelling = TRUE]
              /\ subtasks' = [subtasks EXCEPT ![h] = None]
              /\ host' = [host EXCEPT ![h] = Free]
              /\ queue' = Append(queue, s)
              /\ trapped' = (trapped \/ CancelTraps(h, JoinedDuringCancel(h)))

-----------------------------------------------------------------------------
(* Event loop and host.                                                    *)

\* An event of a subtask in the set reaches the object in the map.
Deliver(h) ==
  /\ ~inLoop
  /\ host[h].joined
  /\ host[h].event # "none"
  /\ inLoop' = TRUE
  /\ UNCHANGED timer
  /\ LET s == subtasks[h] IN
     IF s = None
     THEN /\ trapped' = TRUE
          /\ UNCHANGED <<queue, wait, subtasks, host>>
     ELSE \/ /\ host[h].event = "started"
             /\ wait' = [wait EXCEPT ![s].state = "started"]
             /\ host' = [host EXCEPT ![h].event = "none"]
             /\ UNCHANGED <<queue, subtasks, trapped>>
          \/ /\ host[h].event \in Final
             /\ Complete(s, host[h].event)

\* Another event, or a call of an export, starts an iteration.
Enter ==
  /\ ~inLoop
  /\ inLoop' = TRUE
  /\ UNCHANGED <<queue, timer, wait, subtasks, host, trapped>>

\* The iteration ends once its microtasks have run.
Yield ==
  /\ inLoop
  /\ queue = <<>>
  /\ inLoop' = FALSE
  /\ UNCHANGED <<queue, timer, wait, subtasks, host, trapped>>

\* The import starts, returns, or acknowledges a cancellation.
HostProgress(h, st) ==
  /\ host[h].state \in Pending
  /\ \/ host[h].state = "starting" /\ st = "started"
     \/ host[h].state = "started" /\ st = "returned"
     \/ host[h].cancelling /\ st \in CancelledState(h)
  /\ host' = [host EXCEPT ![h].state = st, ![h].event = st]
  /\ UNCHANGED <<inLoop, queue, timer, wait, subtasks, trapped>>

-----------------------------------------------------------------------------
(* WasmTimer.                                                              *)

CreateTimer(w, s) ==
  /\ inLoop
  /\ ~timer[w].created
  /\ Track(w, s, [timer[w] EXCEPT !.created = TRUE, !.active = TRUE], queue)
  /\ UNCHANGED <<inLoop, trapped>>

CancelTimer(w) ==
  /\ inLoop
  /\ timer[w].created
  /\ timer' = [timer EXCEPT ![w].active = FALSE, ![w].cancelled = TRUE,
                            ![w].current = None]
  /\ IF timer[w].current = None
     THEN UNCHANGED <<wait, subtasks, host, queue, trapped>>
     ELSE CancelWait(timer[w].current)
  /\ UNCHANGED inLoop

\* Whether a finished wait makes the timer fire; the variant fires always.
Fires_Always(t) == TRUE
Fires(t) == t.active

\* The timer after its callback ran; the callback may cancel the timer.
Fired(t, w, cancels) ==
  [t EXCEPT !.tick = @ + 1, !.active = w \in Periodic /\ ~cancels,
            !.cancelled = @ \/ cancels, !.current = IF cancels THEN None ELSE @]

\* Whether the callback of the timer starts the next wait; the variant does
\* not look whether the callback cancelled the timer.
Reschedules_Blindly(t, w) == w \in Periodic
Reschedules(t, w) == w \in Periodic /\ t.active

\* The whenComplete callback of a wait.
RunCallback(cancels) ==
  /\ inLoop
  /\ queue # <<>>
  /\ LET w == wait[Head(queue)].owner
         t == Fired(timer[w], w, cancels)
         rest == Tail(queue)
     IN
     IF ~Fires(timer[w])
     THEN /\ queue' = rest
          /\ UNCHANGED <<timer, wait, subtasks, host>>
     ELSE IF ~Reschedules(t, w)
     THEN /\ queue' = rest
          /\ timer' = [timer EXCEPT ![w] = t]
          /\ UNCHANGED <<wait, subtasks, host>>
     ELSE \E s \in Waits : Track(w, s, t, rest)
  /\ UNCHANGED <<inLoop, trapped>>

-----------------------------------------------------------------------------

Next ==
  \/ Enter \/ Yield
  \/ \E h \in Handles : Deliver(h) \/ \E st \in Pending \cup Final : HostProgress(h, st)
  \/ \E w \in Timers : CancelTimer(w) \/ \E s \in Waits : CreateTimer(w, s)
  \/ \E cancels \in BOOLEAN : RunCallback(cancels)

Spec == Init /\ [][Next]_vars

\* Iterations end, and the host delivers an event that stays ready.  Nothing
\* makes a wait end.
Fairness ==
  /\ WF_vars(Yield)
  /\ WF_vars(\E cancels \in BOOLEAN : RunCallback(cancels))
  /\ \A h \in Handles : SF_vars(Deliver(h))

FairSpec == Spec /\ Fairness

-----------------------------------------------------------------------------
(* Properties.                                                             *)

IsPending(s) == wait[s].completer = "pending"
WaitsOf(w) == {s \in Waits : wait[s].owner = w}
IsQueued(s) == \E i \in DOMAIN queue : queue[i] = s

\* The states of a timer, of an object, and of the host's side of a subtask.
TimerStates == [created : BOOLEAN, active : BOOLEAN, tick : Nat,
                current : Waits \cup {None}, cancelled : BOOLEAN]
WaitStates == [index : Handles \cup {None}, owner : Timers \cup {None},
               state : Pending \cup Final, completer : {"unused", "pending", "done"},
               cancelling : BOOLEAN]
HostStates == [state : {"free"} \cup Pending \cup Final, joined : BOOLEAN,
               event : {"none"} \cup Pending \cup Final, cancelling : BOOLEAN]

\* The type of every variable.
TypeOK ==
  /\ inLoop \in BOOLEAN
  /\ queue \in Seq(Waits)
  /\ timer \in [Timers -> TimerStates]
  /\ wait \in [Waits -> WaitStates]
  /\ subtasks \in [Handles -> Waits \cup {None}]
  /\ host \in [Handles -> HostStates]
  /\ trapped \in BOOLEAN

\* Every subtask whose completer is pending is in the map under its index and
\* back in the waitable set, also after a cancellation that blocked took it
\* out (subtask.dart:104-110), and every other index is free.
PendingAreJoined ==
  /\ \A s \in Waits : IsPending(s) =>
       wait[s].index # None /\ subtasks[wait[s].index] = s
  /\ \A h \in Handles :
       IF subtasks[h] = None THEN host[h] = Free
       ELSE /\ IsPending(subtasks[h]) /\ wait[subtasks[h]].index = h
            /\ host[h].joined

\* The host never traps: a subtask is not cancelled twice, nor while it is in
\* the set, and is dropped only once its final state is known.
NeverTraps == ~trapped

\* The runtime and the host agree about every subtask, so that neither a
\* cancellation that blocks nor one that crosses the end of a call loses its
\* event or traps (subtask.dart:94-113).
SubtasksMatchHost == PendingAreJoined /\ NeverTraps

\* An active timer has exactly one wait that is pending or about to run its
\* callback, and holds that wait for cancel() (timer.dart:42, 65).
ActiveHaveOneWait ==
  \A w \in Timers : timer[w].active =>
    \E s \in WaitsOf(w) :
      /\ timer[w].current = s
      /\ IsPending(s) \/ IsQueued(s)
      /\ \A r \in WaitsOf(w) \ {s} : ~IsPending(r) /\ ~IsQueued(r)

\* A cancelled timer asks the host to end the wait, so that it does not keep
\* the task alive until the duration is over.
CancelledStopWaiting ==
  \A w \in Timers : timer[w].cancelled =>
    \A s \in WaitsOf(w) : IsPending(s) => wait[s].cancelling

\* A timer knows the one wait it has to end, and ends it, whenever cancel() is
\* called: before the wait, during it, or in the callback between two waits.
TimersOwnWaits == ActiveHaveOneWait /\ CancelledStopWaiting

\* Timers never fire after cancel(), whatever the host had already done.
CancelledNeverFire ==
  [][\A w \in Timers : timer[w].cancelled => timer'[w].tick = timer[w].tick]_vars

\* A wait that the host has ended completes and runs its callback.
EndedWaitsComplete ==
  \A s \in Waits :
    IsPending(s) /\ host[wait[s].index].state \in Final ~>
      ~IsPending(s) /\ ~IsQueued(s)
=============================================================================
