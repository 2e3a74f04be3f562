-------------------------- MODULE TaskLoop_proofs --------------------------
(***************************************************************************)
(* Proofs about TaskLoop for any sets of tasks and handles and any bounds. *)
(***************************************************************************)
EXTENDS TaskLoop, TLAPS

\* The maps of the tasks and the host's table describe each other: events have
\* handlers only because no map entry is stale, and the other way round.
Agree == EventsHaveHandlers /\ TrackedAreOpen

\* The inductive invariant of the loop.
IInv == TypeOK /\ Agree /\ RunningIsCurrent
-----------------------------------------------------------------------------
(* Type correctness.                                                       *)

\* What the constants of the types contain.
LEMMA Members ==
  /\ Streams \subseteq Kinds
  /\ Futures \subseteq Kinds
  /\ {"subtask", "futureRead"} \subseteq Kinds
  /\ "free" \notin Kinds
  /\ "subtask" \notin Streams \cup Futures
  /\ Streams \cap Futures = {}
  /\ "none" \notin Codes
  /\ "over" \in Codes
  /\ {"idle", "busy"} \subseteq OpStates
  BY DEF Kinds, Streams, Futures, Codes, OpStates

\* Entries of the handle table.
LEMMA EntryType ==
  /\ \A k \in Kinds, t \in Tasks, o \in OpStates, e \in Codes \cup {"none"} :
       Entry(k, t, o, e) \in Entries
  /\ FreeEntry \in Entries
  BY DEF Entry, FreeEntry, Entries, OpStates

\* Dropping a handle keeps the table well formed.
LEMMA DroppedType ==
  ASSUME table \in [Handles -> Entries], NEW h \in Handles
  PROVE  Dropped(h) \in [Handles -> Entries]
  BY EntryType DEF Dropped

\* Adding to and removing from one map keeps the maps well formed.
LEMMA TrackType ==
  ASSUME tracked \in Tracks, NEW t \in Tasks, NEW k \in Kinds, NEW h \in Handles
  PROVE  Track(t, k, h) \in Tracks /\ Untrack(t, k, h) \in Tracks
<1>1. tracked[t] \in [Kinds -> SUBSET Handles] /\ tracked[t][k] \in SUBSET Handles
  BY DEF Tracks
<1>2. [tracked[t] EXCEPT ![k] = @ \cup {h}] \in [Kinds -> SUBSET Handles]
  BY <1>1
<1>3. [tracked[t] EXCEPT ![k] = @ \ {h}] \in [Kinds -> SUBSET Handles]
  BY <1>1
<1> QED BY <1>2, <1>3 DEF Track, Untrack, Tracks

\* Updating one entry keeps the table well formed.
LEMMA UpdatedType ==
  ASSUME table \in [Handles -> Entries], NEW h \in Handles,
         NEW o \in OpStates, NEW e \in Codes \cup {"none"}
  PROVE  Updated(h, o, e) \in [Handles -> Entries]
<1>1. Entry(table[h].kind, table[h].set, o, e) \in Entries
  BY DEF Entry, Entries
<1> QED BY <1>1 DEF Updated

\* Scheduling a microtask.
LEMMA QueueType ==
  ASSUME queue \in [Tasks -> Nat], NEW t \in Tasks
  PROVE  [queue EXCEPT ![t] = @ + 1] \in [Tasks -> Nat]
  OBVIOUS

\* Initially every variable has its type.
LEMMA InitType == Init => TypeOK
  BY BoundAssumption, EntryType DEF Init, TypeOK, Tracks

\* Every action keeps the type of every variable.
LEMMA NextType == TypeOK /\ [Next]_vars => TypeOK'
<1> SUFFICES ASSUME TypeOK, [Next]_vars PROVE TypeOK'
  OBVIOUS
<1> USE NoneAssumption, BoundAssumption
<1>a. tracked \in Tracks /\ table \in [Handles -> Entries]
  BY DEF TypeOK
<1>1. ASSUME NEW t \in Tasks, Spawn(t) PROVE TypeOK'
  BY <1>1 DEF TypeOK, Spawn
<1>2. ASSUME NEW t \in Tasks, NEW h \in Handles, Dispatch(t, h) PROVE TypeOK'
  <2>1. CASE ~HandlerFound(t, h)
    BY <1>2, <2>1 DEF TypeOK, Dispatch, Enter
  <2>2. ASSUME HandlerFound(t, h),
               SubtaskEvent(t, h) \/ FutureEvent(t, h) \/ StreamEvent(t, h)
        PROVE  /\ table' \in [Handles -> Entries]
               /\ tracked' \in Tracks
               /\ queue' \in [Tasks -> Nat]
    <3>1. queue \in [Tasks -> Nat]
      BY DEF TypeOK
    <3>2. CASE SubtaskEvent(t, h)
      <4>1. CASE table[h].event = "started"
        BY <1>a, <3>1, <3>2, <4>1, UpdatedType, Members DEF SubtaskEvent
      <4>2. CASE table[h].event = "over"
        BY <1>a, <3>1, <3>2, <4>2, DroppedType, TrackType, QueueType, Members
           DEF SubtaskEvent
      <4> QED BY <3>2, <4>1, <4>2 DEF SubtaskEvent
    <3>3. CASE FutureEvent(t, h)
      BY <1>a, <3>1, <3>3, DroppedType, TrackType, Members DEF FutureEvent
    <3>4. CASE StreamEvent(t, h)
      BY <1>a, <3>1, <3>4, DroppedType, TrackType, UpdatedType, Members
         DEF StreamEvent
    <3> QED BY <2>2, <3>2, <3>3, <3>4
  <2> QED BY <1>2, <2>1, <2>2 DEF Dispatch, Enter, TypeOK
<1>3. ASSUME NEW t \in Tasks, CancelRequest(t) PROVE TypeOK'
  BY <1>3 DEF TypeOK, CancelRequest, Enter
<1>4. ASSUME NEW t \in Tasks, TaskCode(t) PROVE TypeOK'
  <2>1. ASSUME NEW k \in Kinds, NEW h \in Handles, NEW o \in OpStates,
               StartOperation(t, k, h, o)
        PROVE  TypeOK'
    <3>1. table' \in [Handles -> Entries] /\ tracked' \in Tracks
      BY <1>a, <2>1, EntryType, TrackType DEF StartOperation
    <3> QED BY <2>1, <3>1 DEF TypeOK, StartOperation, UserOp
  <2>2. ASSUME NEW k \in Streams, NEW h \in Handles, ResumeStream(t, k, h)
        PROVE  TypeOK'
    <3>1. table' \in [Handles -> Entries]
      BY <1>a, <2>2, UpdatedType, Members DEF ResumeStream
    <3> QED BY <2>2, <3>1 DEF TypeOK, ResumeStream, UserOp
  <2>3. ASSUME NEW k \in Streams, NEW h \in Handles, CloseStream(t, k, h)
        PROVE  TypeOK'
    <3>1. table' \in [Handles -> Entries] /\ tracked' \in Tracks
      BY <1>a, <2>3, DroppedType, TrackType, Members DEF CloseStream
    <3> QED BY <2>3, <3>1 DEF TypeOK, CloseStream, UserOp
  <2>4. ASSUME NEW h \in Handles, CancelSubtask(t, h) PROVE TypeOK'
    <3>1. table' \in [Handles -> Entries] /\ tracked' \in Tracks
      BY <1>a, <2>4, DroppedType, TrackType, Members DEF CancelSubtask
    <3> QED BY <2>4, <3>1 DEF TypeOK, CancelSubtask, UserOp
  <2>5. CASE ScheduleMicrotask(t)
    BY <2>5 DEF TypeOK, ScheduleMicrotask, UserOp
  <2>6. ASSUME NEW u \in Tasks, NEW h \in Handles, ScheduleOn(t, u, h)
        PROVE  TypeOK'
    <3>1. table' \in [Handles -> Entries] /\ tracked' \in Tracks
      BY <1>a, <2>6, EntryType, TrackType, Members DEF ScheduleOn, Wakeup
    <3>2. /\ pc' \in {"host", "code", "drain", "failed", "crashed", "trapped"}
          /\ scheduled' \in [Tasks -> BOOLEAN]
      BY <2>6 DEF TypeOK, ScheduleOn
    <3>3. queue' \in [Tasks -> Nat] /\ wakeups' \in [Tasks -> 0 .. MaxWakeups]
      BY <2>6 DEF TypeOK, ScheduleOn
    <3>4. ops' \in 0 .. MaxOps
      BY <2>6 DEF TypeOK, ScheduleOn, UserOp
    <3> QED BY <2>6, <3>1, <3>2, <3>3, <3>4 DEF TypeOK, ScheduleOn, UserOp
  <2>7. CASE ThrowUncaught(t)
    BY <2>7 DEF TypeOK, ThrowUncaught, UserOp
  <2> QED BY <1>4, <2>1, <2>2, <2>3, <2>4, <2>5, <2>6, <2>7 DEF TaskCode
<1>5. ASSUME NEW t \in Tasks, EndCode(t) PROVE TypeOK'
  BY <1>5 DEF TypeOK, EndCode
<1>6. ASSUME NEW t \in Tasks, RunMicrotask(t) PROVE TypeOK'
  BY <1>6 DEF TypeOK, RunMicrotask
<1>7. ASSUME NEW t \in Tasks, Finish(t) PROVE TypeOK'
  BY <1>7 DEF TypeOK, Finish, Outcome, Crash, Exit, Wait
<1>8. ASSUME NEW h \in Handles, NEW c \in Codes, HostProgress(h, c)
      PROVE  TypeOK'
  <2>1. table' \in [Handles -> Entries]
    BY <1>a, <1>8, UpdatedType, Members DEF HostProgress
  <2> QED BY <1>8, <2>1 DEF TypeOK, HostProgress, guest
<1>9. CASE UNCHANGED vars
  BY <1>9 DEF TypeOK, vars, guest
<1> QED BY <1>1, <1>2, <1>3, <1>4, <1>5, <1>6, <1>7, <1>8, <1>9 DEF Next, Deliver

\* Every variable keeps its type in every behaviour of the loop.
THEOREM TypeCorrect == Spec => []TypeOK
  BY InitType, NextType, PTL DEF Spec

-----------------------------------------------------------------------------
(* The maps and the handle table agree.                                    *)

\* What the maps contain after an addition and after a removal.
LEMMA TrackMembers ==
  ASSUME tracked \in Tracks, NEW t \in Tasks, NEW k \in Kinds, NEW h,
         NEW u \in Tasks, NEW j \in Kinds, NEW g
  PROVE  /\ g \in Track(t, k, h)[u][j] <=>
              g \in tracked[u][j] \/ (u = t /\ j = k /\ g = h)
         /\ g \in Untrack(t, k, h)[u][j] <=>
              g \in tracked[u][j] /\ ~(u = t /\ j = k /\ g = h)
<1>1. CASE u = t /\ j = k
  BY <1>1 DEF Track, Untrack, Tracks
<1>2. CASE u # t
  BY <1>2 DEF Track, Untrack, Tracks
<1>3. CASE u = t /\ j # k
  BY <1>3 DEF Track, Untrack, Tracks
<1> QED BY <1>1, <1>2, <1>3

\* A new operation on a free handle.
LEMMA OpenAgrees ==
  ASSUME TypeOK, Agree, NEW t \in Tasks, NEW k \in Kinds, NEW h \in Handles,
         NEW o \in OpStates, NEW e \in Codes \cup {"none"},
         life[t] = "active", IsFree(h),
         table' = [table EXCEPT ![h] = Entry(k, t, o, e)],
         tracked' = Track(t, k, h), life' = life
  PROVE  Agree'
<1> USE NoneAssumption, Members DEF TypeOK, Agree, Tracks
<1>1. \A g \in Handles : g # h => table'[g] = table[g]
  OBVIOUS
<1>2. table'[h] = Entry(k, t, o, e) /\ table[h] = FreeEntry
  BY DEF IsFree
<1>3. \A u \in Tasks, j \in Kinds : \A g :
        g \in tracked'[u][j] <=> g \in tracked[u][j] \/ (u = t /\ j = k /\ g = h)
  BY TrackMembers
<1>4. \A u \in Tasks, j \in Kinds : h \notin tracked[u][j]
  BY <1>2 DEF TrackedAreOpen, FreeEntry, Entry
<1>5. EventsHaveHandlers'
  <2> SUFFICES ASSUME NEW g \in Handles, table'[g].set # None
               PROVE  /\ life[table'[g].set] = "active"
                      /\ table'[g].kind \in Kinds
                      /\ g \in tracked'[table'[g].set][table'[g].kind]
    BY DEF EventsHaveHandlers, HandlerFound
  <2>1. CASE g = h
    BY <2>1, <1>2, <1>3 DEF Entry
  <2>2. CASE g # h
    <3>1. /\ table[g].set \in Tasks /\ table[g].kind \in Kinds
          /\ life[table[g].set] = "active"
          /\ g \in tracked[table[g].set][table[g].kind]
      BY <2>2, <1>1 DEF EventsHaveHandlers, HandlerFound, Entries
    <3> QED BY <2>2, <3>1, <1>1, <1>3
  <2> QED BY <2>1, <2>2
<1>6. TrackedAreOpen'
  <2> SUFFICES ASSUME NEW u \in Tasks, NEW j \in Kinds, NEW g \in tracked'[u][j]
               PROVE  table'[g].kind = j /\ table'[g].set = u
    BY DEF TrackedAreOpen
  <2>1. CASE g = h
    BY <2>1, <1>2, <1>3, <1>4 DEF Entry
  <2>2. CASE g # h
    <3>1. g \in tracked[u][j] /\ g \in Handles
      BY <2>2, <1>3
    <3> QED BY <2>2, <3>1, <1>1 DEF TrackedAreOpen
  <2> QED BY <2>1, <2>2
<1> QED BY <1>5, <1>6

\* A handle is dropped and taken out of its map.
LEMMA DropAgrees ==
  ASSUME TypeOK, Agree, NEW t \in Tasks, NEW k \in Kinds, NEW h \in tracked[t][k],
         table' = Dropped(h), tracked' = Untrack(t, k, h), life' = life
  PROVE  Agree'
<1> USE NoneAssumption, Members DEF TypeOK, Agree, Tracks
<1>0. h \in Handles
  OBVIOUS
<1>1. \A g \in Handles : g # h => table'[g] = table[g]
  BY DEF Dropped
<1>2. table'[h] = FreeEntry
  BY <1>0 DEF Dropped
<1>3. \A u \in Tasks, j \in Kinds : \A g :
        g \in tracked'[u][j] <=> g \in tracked[u][j] /\ ~(u = t /\ j = k /\ g = h)
  BY TrackMembers
<1>4. \A u \in Tasks, j \in Kinds : h \in tracked[u][j] => u = t /\ j = k
  BY <1>0 DEF TrackedAreOpen
<1>5. EventsHaveHandlers'
  <2> SUFFICES ASSUME NEW g \in Handles, table'[g].set # None
               PROVE  /\ life[table'[g].set] = "active"
                      /\ table'[g].kind \in Kinds
                      /\ g \in tracked'[table'[g].set][table'[g].kind]
    BY DEF EventsHaveHandlers, HandlerFound
  <2>1. g # h
    BY <1>2 DEF FreeEntry, Entry
  <2>2. /\ table[g].set \in Tasks /\ table[g].kind \in Kinds
        /\ life[table[g].set] = "active"
        /\ g \in tracked[table[g].set][table[g].kind]
    BY <2>1, <1>1 DEF EventsHaveHandlers, HandlerFound, Entries
  <2> QED BY <2>1, <2>2, <1>1, <1>3
<1>6. TrackedAreOpen'
  <2> SUFFICES ASSUME NEW u \in Tasks, NEW j \in Kinds, NEW g \in tracked'[u][j]
               PROVE  table'[g].kind = j /\ table'[g].set = u
    BY DEF TrackedAreOpen
  <2>1. g \in tracked[u][j] /\ g \in Handles
    BY <1>3
  <2>2. g # h
    BY <2>1, <1>3, <1>4
  <2> QED BY <2>1, <2>2, <1>1 DEF TrackedAreOpen
<1> QED BY <1>5, <1>6

\* An operation starts, ends, or has an event.
LEMMA UpdateAgrees ==
  ASSUME TypeOK, Agree, NEW h \in Handles, NEW o \in OpStates,
         NEW e \in Codes \cup {"none"},
         table' = Updated(h, o, e), UNCHANGED <<tracked, life>>
  PROVE  Agree'
<1> USE DEF TypeOK, Agree
<1>1. \A g \in Handles : table'[g].kind = table[g].kind /\ table'[g].set = table[g].set
  BY DEF Updated, Entry
<1>2. EventsHaveHandlers'
  BY <1>1 DEF EventsHaveHandlers, HandlerFound
<1>3. TrackedAreOpen'
  <2> SUFFICES ASSUME NEW u \in Tasks, NEW j \in Kinds, NEW g \in tracked[u][j]
               PROVE  table'[g].kind = j /\ table'[g].set = u
    BY DEF TrackedAreOpen
  <2>1. g \in Handles
    BY DEF Tracks
  <2> QED BY <2>1, <1>1 DEF TrackedAreOpen
<1> QED BY <1>2, <1>3

\* A task starts, or leaves having nothing tracked.
LEMMA LifeAgrees ==
  ASSUME TypeOK, Agree, NEW t \in Tasks, UNCHANGED <<table, tracked>>,
         \/ life' = [life EXCEPT ![t] = "active"]
         \/ Tracking(t) = {} /\ life' = [life EXCEPT ![t] = "exited"]
         \/ life' = life
  PROVE  Agree'
<1> USE NoneAssumption DEF TypeOK, Agree
<1>1. TrackedAreOpen'
  BY DEF TrackedAreOpen
<1>2. ASSUME Tracking(t) = {} PROVE \A h \in Handles : table[h].set # t
  BY <1>2 DEF EventsHaveHandlers, HandlerFound, Tracking
<1>3. EventsHaveHandlers'
  <2> SUFFICES ASSUME NEW h \in Handles, table'[h].set # None
               PROVE  /\ life'[table[h].set] = "active"
                      /\ table[h].kind \in Kinds
                      /\ HandlerFound(table[h].set, h)
    BY DEF EventsHaveHandlers, HandlerFound
  <2>1. /\ life[table[h].set] = "active"
        /\ table[h].kind \in Kinds
        /\ HandlerFound(table[h].set, h)
        /\ table[h].set \in Tasks
    BY DEF EventsHaveHandlers, Entries
  <2> QED BY <1>2, <2>1
<1> QED BY <1>1, <1>3

\* Initially nothing is tracked and no task runs.
LEMMA InitInv == Init => Agree /\ RunningIsCurrent
  BY NoneAssumption DEF Init, Agree, EventsHaveHandlers, TrackedAreOpen, RunningIsCurrent,
                        FreeEntry, Entry

\* Every action keeps the maps and the table in agreement.
LEMMA NextAgrees == IInv /\ [Next]_vars => Agree'
<1> SUFFICES ASSUME TypeOK, Agree, RunningIsCurrent, [Next]_vars PROVE Agree'
  BY DEF IInv
<1> USE NoneAssumption, Members
<1>1. ASSUME NEW t \in Tasks, Spawn(t) PROVE Agree'
  BY <1>1, LifeAgrees DEF Spawn
<1>2. ASSUME NEW t \in Tasks, NEW h \in Handles, Dispatch(t, h) PROVE Agree'
  <2>0. life' = life
    BY <1>2 DEF Dispatch
  <2>1. CASE ~HandlerFound(t, h)
    BY <1>2, <2>1, LifeAgrees DEF Dispatch
  <2>2. CASE HandlerFound(t, h) /\ SubtaskEvent(t, h)
    <3>1. h \in tracked[t]["subtask"]
      BY <2>2 DEF HandlerFound, SubtaskEvent
    <3>2. CASE table[h].event = "started"
      BY <2>0, <2>2, <3>2, UpdateAgrees DEF SubtaskEvent
    <3>3. CASE table[h].event = "over"
      BY <2>0, <2>2, <3>1, <3>3, DropAgrees DEF SubtaskEvent
    <3> QED BY <2>2, <3>2, <3>3 DEF SubtaskEvent
  <2>3. CASE HandlerFound(t, h) /\ FutureEvent(t, h)
    BY <2>0, <2>3, DropAgrees DEF HandlerFound, FutureEvent
  <2>4. CASE HandlerFound(t, h) /\ StreamEvent(t, h)
    <3>1. CASE \E o \in OpStates : table' = Updated(h, o, "none") /\ UNCHANGED tracked
      BY <2>0, <3>1, UpdateAgrees
    <3>2. CASE table' = Dropped(h) /\ tracked' = Untrack(t, table[h].kind, h)
      BY <2>0, <2>4, <3>2, DropAgrees DEF HandlerFound, StreamEvent
    <3> QED BY <2>4, <3>1, <3>2 DEF StreamEvent
  <2> QED BY <1>2, <2>1, <2>2, <2>3, <2>4 DEF Dispatch
<1>3. ASSUME NEW t \in Tasks, CancelRequest(t) PROVE Agree'
  BY <1>3, LifeAgrees DEF CancelRequest
<1>4. ASSUME NEW t \in Tasks, TaskCode(t) PROVE Agree'
  <2>1. ASSUME NEW k \in Kinds, NEW h \in Handles, NEW o \in OpStates,
               StartOperation(t, k, h, o)
        PROVE  Agree'
    BY <2>1, OpenAgrees DEF StartOperation, UserOp, RunningIsCurrent
  <2>2. ASSUME NEW k \in Streams, NEW h \in Handles, ResumeStream(t, k, h)
        PROVE  Agree'
    BY <2>2, UpdateAgrees DEF ResumeStream, UserOp
  <2>3. ASSUME NEW k \in Streams, NEW h \in Handles, CloseStream(t, k, h)
        PROVE  Agree'
    BY <2>3, DropAgrees DEF CloseStream, UserOp
  <2>4. ASSUME NEW h \in Handles, CancelSubtask(t, h) PROVE Agree'
    BY <2>4, DropAgrees DEF CancelSubtask, UserOp
  <2>5. CASE ScheduleMicrotask(t)
    BY <2>5, LifeAgrees DEF ScheduleMicrotask, UserOp
  <2>6. ASSUME NEW u \in Tasks, NEW h \in Handles, ScheduleOn(t, u, h)
        PROVE  Agree'
    <3>1. CASE NeedsWakeup(u) /\ life[u] = "active"
      BY <2>6, <3>1, OpenAgrees DEF ScheduleOn, UserOp, Wakeup
    <3>2. CASE ~(NeedsWakeup(u) /\ life[u] = "active")
      BY <2>6, <3>2, LifeAgrees DEF ScheduleOn, UserOp
    <3> QED BY <3>1, <3>2
  <2>7. CASE ThrowUncaught(t)
    BY <2>7, LifeAgrees DEF ThrowUncaught, UserOp
  <2> QED BY <1>4, <2>1, <2>2, <2>3, <2>4, <2>5, <2>6, <2>7 DEF TaskCode
<1>5. ASSUME NEW t \in Tasks, EndCode(t) PROVE Agree'
  BY <1>5, LifeAgrees DEF EndCode
<1>6. ASSUME NEW t \in Tasks, RunMicrotask(t) PROVE Agree'
  BY <1>6, LifeAgrees DEF RunMicrotask
<1>7. ASSUME NEW t \in Tasks, Finish(t) PROVE Agree'
  BY <1>7, LifeAgrees DEF Finish, Outcome, Crash, Exit, Wait
<1>8. ASSUME NEW h \in Handles, NEW c \in Codes, HostProgress(h, c)
      PROVE  Agree'
  BY <1>8, UpdateAgrees DEF HostProgress, guest
<1>9. CASE UNCHANGED vars
  BY <1>9 DEF vars, guest, Agree, EventsHaveHandlers, TrackedAreOpen, HandlerFound
<1> QED BY <1>1, <1>2, <1>3, <1>4, <1>5, <1>6, <1>7, <1>8, <1>9 DEF Next, Deliver

\* Every action keeps the running flags in step with the context slot.
LEMMA NextRunning == IInv /\ [Next]_vars => RunningIsCurrent'
<1> SUFFICES ASSUME TypeOK, RunningIsCurrent, [Next]_vars PROVE RunningIsCurrent'
  BY DEF IInv
<1> USE NoneAssumption DEF TypeOK, RunningIsCurrent
<1>1. ASSUME NEW t \in Tasks, Spawn(t) PROVE RunningIsCurrent'
  BY <1>1 DEF Spawn
<1>2. ASSUME NEW t \in Tasks, NEW h \in Handles, Dispatch(t, h)
      PROVE  RunningIsCurrent'
  BY <1>2 DEF Dispatch, Enter
<1>3. ASSUME NEW t \in Tasks, CancelRequest(t) PROVE RunningIsCurrent'
  BY <1>3 DEF CancelRequest, Enter
<1>4. ASSUME NEW t \in Tasks, TaskCode(t) PROVE RunningIsCurrent'
  <2>1. /\ UNCHANGED <<current, life, running>>
        /\ pc = "code" /\ pc' \in {"code", "trapped"}
    BY <1>4 DEF TaskCode, UserOp, StartOperation, ResumeStream, CloseStream,
                CancelSubtask, ScheduleMicrotask, ScheduleOn, ThrowUncaught
  <2> QED BY <2>1
<1>5. ASSUME NEW t \in Tasks, EndCode(t) PROVE RunningIsCurrent'
  BY <1>5 DEF EndCode
<1>6. ASSUME NEW t \in Tasks, RunMicrotask(t) PROVE RunningIsCurrent'
  BY <1>6 DEF RunMicrotask
<1>7. ASSUME NEW t \in Tasks, Finish(t) PROVE RunningIsCurrent'
  BY <1>7 DEF Finish, Outcome, Crash, Exit, Wait
<1>8. ASSUME NEW h \in Handles, NEW c \in Codes, HostProgress(h, c)
      PROVE  RunningIsCurrent'
  BY <1>8 DEF HostProgress, guest
<1>9. CASE UNCHANGED vars
  BY <1>9 DEF vars, guest
<1> QED BY <1>1, <1>2, <1>3, <1>4, <1>5, <1>6, <1>7, <1>8, <1>9 DEF Next, Deliver

\* The inductive invariant holds in every reachable state.
THEOREM Invariance == Spec => []IInv
<1>1. Init => IInv
  BY InitType, InitInv DEF IInv
<1>2. IInv /\ [Next]_vars => IInv'
  BY NextType, NextAgrees, NextRunning DEF IInv
<1> QED BY <1>1, <1>2, PTL DEF Spec

\* No event reaches a task that has no handler for it.
THEOREM EventsAreHandled == Spec => []EventsHaveHandlers
<1>1. IInv => EventsHaveHandlers
  BY DEF IInv, Agree
<1> QED BY <1>1, Invariance, PTL

\* The maps of the tasks hold no stale handle.
THEOREM NothingStale == Spec => []TrackedAreOpen
<1>1. IInv => TrackedAreOpen
  BY DEF IInv, Agree
<1> QED BY <1>1, Invariance, PTL

\* The running flags and the context slot agree.
THEOREM OneTaskRuns == Spec => []RunningIsCurrent
<1>1. IInv => RunningIsCurrent
  BY DEF IInv
<1> QED BY <1>1, Invariance, PTL

-----------------------------------------------------------------------------
(* Nothing stops the program.                                              *)

Alive == {"host", "code", "drain"}
Safe == IInv /\ WaitsForSomething /\ NeverStopped

\* A change of one task's maps is not seen by another task.
LEMMA OthersKeep ==
  ASSUME tracked \in Tracks, NEW t \in Tasks, NEW k \in Kinds, NEW h,
         NEW u \in Tasks, u # t
  PROVE  Track(t, k, h)[u] = tracked[u] /\ Untrack(t, k, h)[u] = tracked[u]
  BY DEF Track, Untrack, Tracks

\* The maps of a task that does not run only grow.
LEMMA IdleKeep ==
  ASSUME IInv, Next, NEW u \in Tasks, current # u, current' # u,
         Tracking(u) # {}
  PROVE  Tracking(u)' # {}
<1> USE Members
<1>0. tracked \in Tracks
  BY DEF IInv, TypeOK
<1>a. ASSUME tracked'[u] = tracked[u] PROVE Tracking(u)' # {}
  BY <1>a DEF Tracking
<1>1. ASSUME NEW t \in Tasks, NEW h \in Handles, Dispatch(t, h)
      PROVE  tracked'[u] = tracked[u]
  <2>0. u # t
    BY <1>1 DEF Dispatch, Enter
  <2>1. CASE ~HandlerFound(t, h)
    BY <1>1, <2>1 DEF Dispatch
  <2>2. CASE HandlerFound(t, h) /\ SubtaskEvent(t, h)
    BY <1>0, <2>0, <2>2, OthersKeep DEF SubtaskEvent
  <2>3. CASE HandlerFound(t, h) /\ FutureEvent(t, h)
    BY <1>0, <2>0, <2>3, OthersKeep DEF FutureEvent
  <2>4. CASE HandlerFound(t, h) /\ StreamEvent(t, h)
    BY <1>0, <2>0, <2>4, OthersKeep DEF StreamEvent
  <2> QED BY <1>1, <2>1, <2>2, <2>3, <2>4 DEF Dispatch
<1>2. ASSUME NEW t \in Tasks, NEW v \in Tasks, NEW h \in Handles, ScheduleOn(t, v, h)
      PROVE  Tracking(u)' # {}
  <2>1. CASE tracked' = tracked
    BY <2>1, <1>a
  <2>2. CASE tracked' = Track(v, "futureRead", h) /\ u # v
    BY <1>0, <2>2, <1>a, OthersKeep
  <2>3. CASE tracked' = Track(v, "futureRead", h) /\ u = v
    <3>1. h \in tracked'[u]["futureRead"]
      BY <1>0, <2>3, TrackMembers
    <3> QED BY <3>1 DEF Tracking
  <2> QED BY <1>2, <2>1, <2>2, <2>3 DEF ScheduleOn
<1>3. ASSUME NEW t \in Tasks, TaskCode(t)
      PROVE  Tracking(u)' # {}
  <2>0. current = t
    BY <1>3 DEF TaskCode, UserOp, StartOperation, ResumeStream, CloseStream,
                CancelSubtask, ScheduleMicrotask, ScheduleOn, ThrowUncaught
  <2>1. ASSUME NEW k \in Kinds, NEW h \in Handles, NEW o \in OpStates,
               StartOperation(t, k, h, o)
        PROVE  Tracking(u)' # {}
    BY <1>0, <2>0, <2>1, <1>a, OthersKeep DEF StartOperation
  <2>2. ASSUME NEW k \in Streams, NEW h \in Handles,
               ResumeStream(t, k, h) \/ CloseStream(t, k, h)
        PROVE  Tracking(u)' # {}
    BY <1>0, <2>0, <2>2, <1>a, OthersKeep DEF ResumeStream, CloseStream
  <2>3. ASSUME NEW h \in Handles, CancelSubtask(t, h) PROVE Tracking(u)' # {}
    BY <1>0, <2>0, <2>3, <1>a, OthersKeep DEF CancelSubtask
  <2>4. CASE ScheduleMicrotask(t) \/ ThrowUncaught(t)
    BY <2>4, <1>a DEF ScheduleMicrotask, ThrowUncaught
  <2> QED BY <1>2, <1>3, <2>1, <2>2, <2>3, <2>4 DEF TaskCode
<1>4. ASSUME NEW t \in Tasks,
             Spawn(t) \/ CancelRequest(t) \/ EndCode(t) \/ RunMicrotask(t) \/ Finish(t)
      PROVE  Tracking(u)' # {}
  BY <1>4, <1>a DEF Spawn, CancelRequest, EndCode, RunMicrotask, Finish
<1>5. ASSUME NEW h \in Handles, NEW c \in Codes, HostProgress(h, c)
      PROVE  Tracking(u)' # {}
  BY <1>5, <1>a DEF HostProgress, guest
<1> QED BY <1>1, <1>a, <1>3, <1>4, <1>5 DEF Next, Deliver

\* How the thread moves in one step.
LEMMA Steps ==
  ASSUME IInv, Next
  PROVE  /\ pc \in Alive
         /\ \A u \in Tasks : current = u /\ current' # u => Finish(u)
         /\ \A u \in Tasks : life[u] # "active" /\ life'[u] = "active" => current' = u
         /\ \A u \in Tasks : pc' = "drain" /\ current' = u =>
              \/ EndCode(u) \/ CancelRequest(u)
              \/ pc = "drain" /\ current = u /\ UNCHANGED guest
<1> USE NoneAssumption DEF IInv, TypeOK, RunningIsCurrent, Alive
<1>1. ASSUME NEW t \in Tasks, Spawn(t)
      PROVE  pc = "host" /\ current' = t /\ pc' = "code"
             /\ life' = [life EXCEPT ![t] = "active"]
  BY <1>1 DEF Spawn
<1>2. ASSUME NEW t \in Tasks, NEW h \in Handles, Dispatch(t, h)
      PROVE  pc = "host" /\ current' = t /\ pc' \in {"code", "failed"} /\ life' = life
  BY <1>2 DEF Dispatch, Enter
<1>3. ASSUME NEW t \in Tasks, CancelRequest(t)
      PROVE  pc = "host" /\ current' = t /\ life' = life
  BY <1>3 DEF CancelRequest, Enter
<1>4. ASSUME NEW t \in Tasks, TaskCode(t)
      PROVE  pc = "code" /\ pc' \in {"code", "trapped"} /\ UNCHANGED <<current, life>>
  BY <1>4 DEF TaskCode, UserOp, StartOperation, ResumeStream, CloseStream,
              CancelSubtask, ScheduleMicrotask, ScheduleOn, ThrowUncaught
<1>5. ASSUME NEW t \in Tasks, EndCode(t)
      PROVE  pc = "code" /\ current = t /\ UNCHANGED <<current, life>>
  BY <1>5 DEF EndCode
<1>6. ASSUME NEW t \in Tasks, RunMicrotask(t)
      PROVE  pc = "drain" /\ pc' = "code" /\ UNCHANGED <<current, life>>
  BY <1>6 DEF RunMicrotask
<1>7. ASSUME NEW t \in Tasks, Finish(t)
      PROVE  /\ pc = "drain" /\ current = t /\ current' = None
             /\ pc' \in {"host", "crashed", "trapped"}
             /\ life' = life \/ life' = [life EXCEPT ![t] = "exited"]
  BY <1>7 DEF Finish, Outcome, Crash, Exit, Wait
<1>8. ASSUME NEW h \in Handles, NEW c \in Codes, HostProgress(h, c)
      PROVE  pc \in Alive /\ UNCHANGED <<pc, current, guest>> /\ life' = life
  BY <1>8 DEF HostProgress, guest
<1> QED BY <1>1, <1>2, <1>3, <1>4, <1>5, <1>6, <1>7, <1>8 DEF Next, Deliver

\* A task always waits for something, or has something left to do.
LEMMA NextWaits == IInv /\ WaitsForSomething /\ [Next]_vars => WaitsForSomething'
<1> SUFFICES ASSUME IInv, WaitsForSomething, [Next]_vars, ~BareWaits, pc' \in Alive,
                    NEW u \in Tasks
             PROVE  /\ life'[u] = "active" /\ ~running'[u] => Tracking(u)' # {}
                    /\ pc' = "drain" /\ current' = u =>
                         returned'[u] \/ unhandled'[u] \/ queue'[u] > 0 \/ Tracking(u)' # {}
  BY DEF WaitsForSomething, Alive
<1>1. CASE UNCHANGED vars
  BY <1>1 DEF vars, guest, WaitsForSomething, Alive, Tracking
<1>2. CASE Next
  <2>0. pc \in Alive
    BY <1>2, Steps
  <2>1. ASSUME life'[u] = "active", ~running'[u] PROVE Tracking(u)' # {}
    <3>1. current' # u
      BY <2>1, NextRunning, Steps DEF RunningIsCurrent, Alive
    <3>2. CASE current = u
      BY <1>2, <2>1, <3>1, <3>2, Steps
         DEF Finish, Outcome, Crash, Exit, Wait, Tracking, Alive, IInv, TypeOK
    <3>3. CASE current # u
      <4>1. life[u] = "active"
        BY <1>2, <2>1, <3>1, Steps
      <4>2. ~running[u]
        BY <2>0, <3>3 DEF IInv, RunningIsCurrent, Alive
      <4>3. Tracking(u) # {}
        BY <2>0, <4>1, <4>2 DEF WaitsForSomething, Alive
      <4> QED BY <1>2, <3>1, <3>3, <4>3, IdleKeep
    <3> QED BY <3>2, <3>3
  <2>2. ASSUME pc' = "drain", current' = u
        PROVE  returned'[u] \/ unhandled'[u] \/ queue'[u] > 0 \/ Tracking(u)' # {}
    <3>1. CASE EndCode(u)
      BY <3>1 DEF EndCode, IInv, TypeOK, Tracking
    <3>2. CASE CancelRequest(u)
      <4>1. life[u] = "active" /\ ~running[u]
        BY <3>2, NoneAssumption DEF CancelRequest, Enter, IInv, RunningIsCurrent
      <4>2. Tracking(u) # {}
        BY <2>0, <4>1 DEF WaitsForSomething, Alive
      <4> QED BY <3>2, <4>2 DEF CancelRequest, Tracking
    <3>3. CASE pc = "drain" /\ current = u /\ UNCHANGED guest
      BY <3>3 DEF guest, WaitsForSomething, Tracking
    <3> QED BY <1>2, <2>2, <3>1, <3>2, <3>3, Steps
  <2> QED BY <2>1, <2>2
<1> QED BY <1>1, <1>2

\* No null check fails and the host does not trap.
LEMMA NextNeverStopped ==
  ASSUME ~BareWaits, IInv, WaitsForSomething, NeverStopped, [Next]_vars
  PROVE  NeverStopped'
<1> USE DEF NeverStopped
<1>1. ASSUME NEW t \in Tasks, NEW h \in Handles, Dispatch(t, h) PROVE NeverStopped'
  <2>1. t # None /\ table[h].set = t
    BY <1>1, NoneAssumption DEF Dispatch
  <2>2. HandlerFound(t, h)
    BY <2>1 DEF IInv, Agree, EventsHaveHandlers
  <2> QED BY <1>1, <2>2 DEF Dispatch
<1>2. ASSUME NEW t \in Tasks, TaskCode(t) PROVE NeverStopped'
  <2>1. ASSUME NEW u \in Tasks, NEW h \in Handles, ScheduleOn(t, u, h)
        PROVE  NeverStopped'
    BY <2>1 DEF ScheduleOn, UserOp
  <2> QED BY <1>2, <2>1 DEF TaskCode, UserOp, StartOperation, ResumeStream,
                           CloseStream, CancelSubtask, ScheduleMicrotask, ThrowUncaught
<1>3. ASSUME NEW t \in Tasks, Finish(t) PROVE NeverStopped'
  <2>1. ASSUME Exit(t), ~unhandled[t] PROVE ~ExitTraps(t)
    <3>1. Tracking(t) = {} /\ pc = "drain" /\ current = t /\ queue[t] = 0
      BY <1>3, <2>1 DEF Exit, Finish, Drained
    <3>2. returned[t]
      BY <2>1, <3>1 DEF WaitsForSomething
    <3>3. \A h \in Handles : table[h].set # t
      BY <3>1, NoneAssumption
         DEF IInv, Agree, EventsHaveHandlers, HandlerFound, Tracking
    <3> QED BY <3>2, <3>3 DEF ExitTraps
  <2> QED BY <1>3, <2>1 DEF Finish, Outcome, Crash, Exit, Wait
<1>4. ASSUME NEW t \in Tasks, Spawn(t) \/ CancelRequest(t) \/ EndCode(t) \/ RunMicrotask(t)
      PROVE  NeverStopped'
  BY <1>4 DEF Spawn, CancelRequest, EndCode, RunMicrotask
<1>5. ASSUME NEW h \in Handles, NEW c \in Codes, HostProgress(h, c) PROVE NeverStopped'
  BY <1>5 DEF HostProgress
<1>6. CASE UNCHANGED vars
  BY <1>6 DEF vars
<1> QED BY <1>1, <1>2, <1>3, <1>4, <1>5, <1>6 DEF Next, Deliver

\* Without tasks that wait only for other tasks, neither a check of the runtime
\* nor a trap of the host ever stops the program.
THEOREM NothingStops == ASSUME ~BareWaits PROVE Spec => []NeverStopped
<1>1. Init => Safe
  BY InitType, InitInv
     DEF Safe, IInv, Init, WaitsForSomething, NeverStopped
<1>2. Safe /\ [Next]_vars => Safe'
  BY NextType, NextAgrees, NextRunning, NextWaits, NextNeverStopped DEF Safe, IInv
<1>3. Safe => NeverStopped
  BY DEF Safe
<1> QED BY <1>1, <1>2, <1>3, PTL DEF Spec

\* Every exit of a task is a clean one.
LEMMA StepIsClean ==
  ASSUME ~BareWaits, IInv, WaitsForSomething, [Next]_vars
  PROVE  CleanExit
<1> SUFFICES ASSUME NEW u \in Tasks, life[u] = "active", life'[u] = "exited"
             PROVE  /\ current = u
                    /\ returned[u]
                    /\ \A h \in Handles : table'[h].set # u
  BY DEF CleanExit
<1>1. Finish(u)
  <2>1. ASSUME NEW t \in Tasks, TaskCode(t) PROVE life' = life
    BY <2>1 DEF TaskCode, UserOp, StartOperation, ResumeStream, CloseStream,
                CancelSubtask, ScheduleMicrotask, ScheduleOn, ThrowUncaught
  <2>2. ASSUME NEW t \in Tasks, NEW h \in Handles, Dispatch(t, h) PROVE life' = life
    BY <2>2 DEF Dispatch
  <2>3. ASSUME NEW t \in Tasks, CancelRequest(t) \/ EndCode(t) \/ RunMicrotask(t)
        PROVE  life' = life
    BY <2>3 DEF CancelRequest, EndCode, RunMicrotask
  <2>4. ASSUME NEW t \in Tasks, Spawn(t) PROVE life'[u] # "exited"
    BY <2>4 DEF Spawn, IInv, TypeOK
  <2>5. ASSUME NEW t \in Tasks, Finish(t), t # u PROVE life'[u] = life[u]
    BY <2>5 DEF Finish, Outcome, Crash, Exit, Wait, IInv, TypeOK
  <2>6. ASSUME NEW h \in Handles, NEW c \in Codes, HostProgress(h, c) PROVE life' = life
    BY <2>6 DEF HostProgress, guest
  <2>7. CASE UNCHANGED vars
    BY <2>7 DEF vars, guest
  <2> QED BY <2>1, <2>2, <2>3, <2>4, <2>5, <2>6, <2>7 DEF Next, Deliver
<1>2. /\ Tracking(u) = {} /\ ~unhandled[u] /\ pc = "drain" /\ current = u
      /\ queue[u] = 0 /\ table' = table
  BY <1>1 DEF Finish, Outcome, Crash, Exit, Wait, Drained
<1>3. returned[u]
  BY <1>2 DEF WaitsForSomething
<1>4. \A h \in Handles : table[h].set # u
  BY <1>2, NoneAssumption DEF IInv, Agree, EventsHaveHandlers, HandlerFound, Tracking
<1> QED BY <1>2, <1>3, <1>4

\* Tasks exit from their own iteration, with their result returned and with
\* nothing of theirs left in the host's table.
THEOREM ExitsAreClean == ASSUME ~BareWaits PROVE Spec => ExitIsClean
<1>1. Init => Safe
  BY InitType, InitInv
     DEF Safe, IInv, Init, WaitsForSomething, NeverStopped
<1>2. Safe /\ [Next]_vars => Safe'
  BY NextType, NextAgrees, NextRunning, NextWaits, NextNeverStopped DEF Safe, IInv
<1>3. Safe /\ [Next]_vars => CleanExit
  BY StepIsClean DEF Safe
<1> QED BY <1>1, <1>2, <1>3, PTL DEF Spec, ExitIsClean

-----------------------------------------------------------------------------
(* Work that is left for a later iteration.                                *)

\* Errors are of the task that runs, and whoever has left has nothing queued.
Unfinished ==
  /\ pc \in Alive => \A u \in Tasks : unhandled[u] => current = u
  /\ ExitedHaveNoWork

\* What a step does to the queues and the errors of the tasks.
LEMMA NextUnfinished ==
  ASSUME ~BareWaits, IInv, Unfinished, [Next]_vars
  PROVE  Unfinished'
<1> USE DEF Unfinished, ExitedHaveNoWork, Alive
<1>1. CASE UNCHANGED vars
  BY <1>1 DEF vars, guest
<1>2. ASSUME NEW t \in Tasks, Spawn(t) PROVE Unfinished'
  BY <1>2, NoneAssumption DEF Spawn, IInv, TypeOK, RunningIsCurrent
<1>3. ASSUME NEW t \in Tasks, NEW h \in Handles, Dispatch(t, h) PROVE Unfinished'
  <2>1. pc = "host" /\ current = None /\ life[t] = "active" /\ UNCHANGED <<life, unhandled>>
    BY <1>3 DEF Dispatch, Enter, IInv, RunningIsCurrent
  <2>2. \A u \in Tasks : u # t => queue'[u] = queue[u]
    BY <1>3 DEF Dispatch, SubtaskEvent, FutureEvent, StreamEvent, IInv, TypeOK
  <2> QED BY <2>1, <2>2, NoneAssumption
<1>4. ASSUME NEW t \in Tasks, TaskCode(t) PROVE Unfinished'
  <2>1. pc = "code" /\ current = t /\ UNCHANGED <<current, life>> /\ life[t] = "active"
    BY <1>4 DEF TaskCode, UserOp, StartOperation, ResumeStream, CloseStream, CancelSubtask,
                ScheduleMicrotask, ScheduleOn, ThrowUncaught, IInv, RunningIsCurrent
  <2>2. \A u \in Tasks : unhandled'[u] => unhandled[u] \/ u = t
    BY <1>4 DEF TaskCode, StartOperation, ResumeStream, CloseStream, CancelSubtask,
                ScheduleMicrotask, ScheduleOn, ThrowUncaught, IInv, TypeOK
  <2>3. ASSUME NEW v \in Tasks, NEW h \in Handles, ScheduleOn(t, v, h), NEW u \in Tasks,
               life[u] = "exited"
        PROVE  queue'[u] = queue[u]
    BY <2>3 DEF ScheduleOn, IInv, TypeOK
  <2>4. \A u \in Tasks : life[u] = "exited" => queue'[u] = queue[u]
    <3>1. CASE \E k \in Kinds, h \in Handles, o \in OpStates : StartOperation(t, k, h, o)
      BY <3>1 DEF StartOperation
    <3>2. CASE \E k \in Streams, h \in Handles : ResumeStream(t, k, h) \/ CloseStream(t, k, h)
      BY <3>2 DEF ResumeStream, CloseStream
    <3>3. CASE (\E h \in Handles : CancelSubtask(t, h)) \/ ScheduleMicrotask(t)
      BY <2>1, <3>3 DEF CancelSubtask, ScheduleMicrotask, IInv, TypeOK
    <3>4. CASE ThrowUncaught(t)
      BY <3>4 DEF ThrowUncaught
    <3> QED BY <1>4, <2>3, <3>1, <3>2, <3>3, <3>4 DEF TaskCode
  <2> QED BY <2>1, <2>2, <2>4
<1>5. ASSUME NEW t \in Tasks, CancelRequest(t) PROVE Unfinished'
  BY <1>5, NoneAssumption DEF CancelRequest, Enter, IInv, RunningIsCurrent
<1>6. ASSUME NEW t \in Tasks, EndCode(t) PROVE Unfinished'
  BY <1>6 DEF EndCode
<1>7. ASSUME NEW t \in Tasks, RunMicrotask(t) PROVE Unfinished'
  BY <1>7 DEF RunMicrotask, IInv, TypeOK
<1>8. ASSUME NEW t \in Tasks, Finish(t) PROVE Unfinished'
  BY <1>8 DEF Finish, Drained, Outcome, Crash, Exit, Wait, IInv, TypeOK
<1>9. ASSUME NEW h \in Handles, NEW c \in Codes, HostProgress(h, c) PROVE Unfinished'
  BY <1>9 DEF HostProgress, guest
<1> QED BY <1>1, <1>2, <1>3, <1>4, <1>5, <1>6, <1>7, <1>8, <1>9 DEF Next, Deliver

\* An iteration leaves no error behind, and a task that has exited no microtask,
\* unless tasks wait only for other tasks.
THEOREM IterationsAreClean == ASSUME ~BareWaits PROVE Spec => []IterationsEndClean
<1>1. Init => IInv /\ Unfinished
  BY InitType, InitInv DEF IInv, Init, Unfinished, ExitedHaveNoWork
<1>2. (IInv /\ Unfinished) /\ [Next]_vars => (IInv /\ Unfinished)'
  BY NextType, NextAgrees, NextRunning, NextUnfinished DEF IInv
<1>3. IInv /\ Unfinished => IterationsEndClean
  BY NoneAssumption
     DEF Unfinished, IterationsEndClean, ErrorsAreReported, IInv, RunningIsCurrent, Alive
<1> QED BY <1>1, <1>2, <1>3, PTL DEF Spec

\* An event is on the way to a task.
Woken(u) == \E h \in Handles : table[h].set = u /\ table[h].event # "none"

\* A task that another one has woken up at most once is not asleep on its queue.
FirstWakeups ==
  /\ \A u \in Tasks : scheduled[u] => wakeups[u] > 0
  /\ pc \in Alive =>
       \A u \in Tasks : wakeups[u] <= 1 /\ queue[u] > 0 /\ ~running[u] => Woken(u)

\* Other tasks do not take a task's events.
LEMMA EventsStay ==
  ASSUME IInv, Next, NEW u \in Tasks, current # u, current' # u, Woken(u)
  PROVE  Woken(u)'
<1>1. PICK h \in Handles : table[h].set = u /\ table[h].event # "none"
  BY DEF Woken
<1>2. table \in [Handles -> Entries] /\ u # None
  BY NoneAssumption DEF IInv, TypeOK
<1>3. ASSUME NEW t \in Tasks, t # u, NEW k \in Kinds, NEW g \in tracked[t][k]
      PROVE  g # h
  BY <1>1, <1>3 DEF IInv, Agree, TrackedAreOpen
<1>4. ASSUME NEW g \in Handles, IsFree(g)
      PROVE  g # h
  BY <1>1, <1>2, <1>4 DEF IsFree, FreeEntry, Entry
<1>5. ASSUME NEW t \in Tasks, TaskCode(t)
      PROVE  table'[h] = table[h]
  <2>1. t # u
    BY <1>5 DEF TaskCode, UserOp, StartOperation, ResumeStream, CloseStream, CancelSubtask,
                ScheduleMicrotask, ScheduleOn, ThrowUncaught
  <2>2. ASSUME NEW k \in Kinds, NEW g \in Handles, NEW o \in OpStates,
               StartOperation(t, k, g, o)
        PROVE  table'[h] = table[h]
    BY <1>2, <1>4, <2>2 DEF StartOperation
  <2>3. ASSUME NEW k \in Streams, NEW g \in Handles,
               ResumeStream(t, k, g) \/ CloseStream(t, k, g)
        PROVE  table'[h] = table[h]
    <3>1. g # h
      BY <1>3, <2>1, <2>3, Members DEF ResumeStream, CloseStream
    <3> QED BY <1>2, <2>3, <3>1 DEF ResumeStream, CloseStream, Updated, Dropped
  <2>4. ASSUME NEW g \in Handles, CancelSubtask(t, g)
        PROVE  table'[h] = table[h]
    <3>1. g # h
      BY <1>3, <2>1, <2>4, Members DEF CancelSubtask
    <3> QED BY <1>2, <2>4, <3>1 DEF CancelSubtask, Dropped
  <2>5. ASSUME NEW v \in Tasks, NEW g \in Handles, ScheduleOn(t, v, g)
        PROVE  table'[h] = table[h]
    <3>1. CASE table' = table
      BY <3>1
    <3>2. CASE IsFree(g) /\ table' = [table EXCEPT ![g] = Wakeup(v)]
      BY <1>2, <1>4, <3>2
    <3> QED BY <2>5, <3>1, <3>2 DEF ScheduleOn
  <2>6. ASSUME ScheduleMicrotask(t) \/ ThrowUncaught(t)
        PROVE  table'[h] = table[h]
    BY <2>6 DEF ScheduleMicrotask, ThrowUncaught
  <2> QED BY <1>5, <2>2, <2>3, <2>4, <2>5, <2>6 DEF TaskCode
<1>6. ASSUME NEW t \in Tasks, NEW g \in Handles, Dispatch(t, g)
      PROVE  table'[h] = table[h]
  <2>1. g # h
    BY <1>1, <1>6 DEF Dispatch, Enter
  <2>2. table' = table \/ table' = Dropped(g) \/ \E o \in OpStates : table' = Updated(g, o, "none")
    BY <1>6, Members DEF Dispatch, SubtaskEvent, FutureEvent, StreamEvent
  <2> QED BY <1>2, <2>1, <2>2 DEF Dropped, Updated
<1>7. ASSUME NEW g \in Handles, NEW c \in Codes, HostProgress(g, c)
      PROVE  table'[h] = table[h]
  BY <1>1, <1>2, <1>7 DEF HostProgress, Updated
<1>8. ASSUME NEW t \in Tasks,
             Spawn(t) \/ CancelRequest(t) \/ EndCode(t) \/ RunMicrotask(t) \/ Finish(t)
      PROVE  table' = table
  BY <1>8 DEF Spawn, CancelRequest, EndCode, RunMicrotask, Finish
<1>9. table'[h] = table[h]
  BY <1>5, <1>6, <1>7, <1>8 DEF Next, Deliver
<1> QED BY <1>1, <1>9 DEF Woken

\* What is queued for a task that does not run.
LEMMA IdleQueue ==
  ASSUME IInv, Next, pc' \in Alive, NEW u \in Tasks, ~running'[u], queue'[u] > 0
  PROVE  /\ ~running[u] /\ current # u /\ current' # u
         /\ \/ queue'[u] = queue[u] /\ wakeups'[u] = wakeups[u]
            \/ \E t \in Tasks, h \in Handles : ScheduleOn(t, u, h)
<1> USE DEF IInv, TypeOK
<1>1. pc \in Alive /\ (current = u /\ current' # u => Finish(u))
  BY Steps
<1>2. current' # u
  BY NextRunning DEF RunningIsCurrent, Alive
<1>3. current # u
  <2>1. Finish(u) => queue'[u] = 0
    BY DEF Finish, Drained
  <2> QED BY <1>1, <1>2, <2>1
<1>4. ~running[u]
  BY <1>1, <1>3 DEF RunningIsCurrent, Alive
<1>5. ASSUME NEW t \in Tasks, TaskCode(t)
      PROVE  \/ queue'[u] = queue[u] /\ wakeups'[u] = wakeups[u]
             \/ \E h \in Handles : ScheduleOn(t, u, h)
  <2>1. t # u
    BY <1>3, <1>5 DEF TaskCode, UserOp, StartOperation, ResumeStream, CloseStream,
                CancelSubtask, ScheduleMicrotask, ScheduleOn, ThrowUncaught
  <2>2. ASSUME NEW v \in Tasks, NEW h \in Handles, ScheduleOn(t, v, h), v # u
        PROVE  queue'[u] = queue[u] /\ wakeups'[u] = wakeups[u]
    BY <2>2 DEF ScheduleOn
  <2> QED BY <1>5, <2>1, <2>2 DEF TaskCode, UserOp, StartOperation, ResumeStream, CloseStream,
                CancelSubtask, ScheduleMicrotask, ThrowUncaught
<1>6. ASSUME NEW t \in Tasks, NEW h \in Handles, Dispatch(t, h)
      PROVE  queue'[u] = queue[u] /\ wakeups' = wakeups
  <2>1. t # u
    BY <1>2, <1>6 DEF Dispatch, Enter
  <2> QED BY <1>6, <2>1 DEF Dispatch, SubtaskEvent, FutureEvent, StreamEvent
<1>7. ASSUME NEW t \in Tasks, RunMicrotask(t)
      PROVE  queue'[u] = queue[u] /\ wakeups' = wakeups
  BY <1>3, <1>7 DEF RunMicrotask
<1>8. ASSUME NEW t \in Tasks, Spawn(t) \/ CancelRequest(t) \/ EndCode(t) \/ Finish(t)
      PROVE  queue' = queue /\ wakeups' = wakeups
  BY <1>8 DEF Spawn, CancelRequest, EndCode, Finish
<1>9. ASSUME NEW h \in Handles, NEW c \in Codes, HostProgress(h, c)
      PROVE  queue' = queue /\ wakeups' = wakeups
  BY <1>9 DEF HostProgress, guest
<1> QED BY <1>2, <1>3, <1>4, <1>5, <1>6, <1>7, <1>8, <1>9 DEF Next, Deliver

\* A flag of a wake-up is set by one, and never without.
LEMMA NextScheduled ==
  ASSUME IInv, [Next]_vars, \A u \in Tasks : scheduled[u] => wakeups[u] > 0,
         NEW u \in Tasks, scheduled'[u]
  PROVE  wakeups'[u] > 0
<1> USE DEF IInv, TypeOK
<1>1. ASSUME NEW t \in Tasks, NEW v \in Tasks, NEW h \in Handles, ScheduleOn(t, v, h)
      PROVE  wakeups'[u] > 0
  <2>1. \A w \in Tasks : wakeups[w] \in Nat
    BY BoundAssumption
  <2>2. CASE u = v
    BY <1>1, <2>1, <2>2 DEF ScheduleOn
  <2>3. CASE u # v
    <3>1. scheduled'[u] = scheduled[u] /\ wakeups'[u] = wakeups[u]
      BY <1>1, <2>3 DEF ScheduleOn
    <3> QED BY <3>1
  <2> QED BY <2>2, <2>3
<1>2. ASSUME UNCHANGED <<scheduled, wakeups>> PROVE wakeups'[u] > 0
  BY <1>2
<1>3. ASSUME NEW t \in Tasks, TaskCode(t)
      PROVE  \/ UNCHANGED <<scheduled, wakeups>>
             \/ \E v \in Tasks, h \in Handles : ScheduleOn(t, v, h)
  BY <1>3 DEF TaskCode, UserOp, StartOperation, ResumeStream, CloseStream,
              CancelSubtask, ScheduleMicrotask, ThrowUncaught
<1>4. ASSUME NEW t \in Tasks,
             \/ Spawn(t) \/ Deliver(t) \/ CancelRequest(t) \/ EndCode(t) \/ RunMicrotask(t)
             \/ Finish(t)
      PROVE  UNCHANGED <<scheduled, wakeups>>
  BY <1>4 DEF Spawn, Deliver, Dispatch, CancelRequest, EndCode, RunMicrotask, Finish
<1>5. ASSUME NEW h \in Handles, NEW c \in Codes, HostProgress(h, c)
      PROVE  UNCHANGED <<scheduled, wakeups>>
  BY <1>5 DEF HostProgress, guest
<1>6. CASE UNCHANGED vars
  BY <1>2, <1>6 DEF vars, guest
<1> QED BY <1>1, <1>2, <1>3, <1>4, <1>5, <1>6 DEF Next

\* The first wake-up of an idle task puts an event on its way, which nobody
\* takes before the task runs and empties its queue.
LEMMA NextWakeups == IInv /\ FirstWakeups /\ [Next]_vars => FirstWakeups'
<1> SUFFICES ASSUME IInv, FirstWakeups, [Next]_vars PROVE FirstWakeups'
  OBVIOUS
<1>1. \A u \in Tasks : scheduled'[u] => wakeups'[u] > 0
  BY NextScheduled DEF FirstWakeups
<1>2. ASSUME pc' \in Alive, NEW u \in Tasks, wakeups'[u] <= 1, queue'[u] > 0, ~running'[u]
      PROVE  Woken(u)'
  <2>1. CASE UNCHANGED vars
    BY <1>2, <2>1 DEF vars, guest, FirstWakeups, Woken
  <2>2. CASE Next
    <3>1. /\ ~running[u] /\ current # u /\ current' # u
          /\ \/ queue'[u] = queue[u] /\ wakeups'[u] = wakeups[u]
             \/ \E t \in Tasks, h \in Handles : ScheduleOn(t, u, h)
      BY <1>2, <2>2, IdleQueue
    <3>2. CASE queue'[u] = queue[u] /\ wakeups'[u] = wakeups[u]
      <4>1. pc \in Alive
        BY <2>2, Steps
      <4>2. Woken(u)
        BY <1>2, <3>1, <3>2, <4>1 DEF FirstWakeups
      <4> QED BY <2>2, <3>1, <4>2, EventsStay
    <3>3. ASSUME NEW t \in Tasks, NEW h \in Handles, ScheduleOn(t, u, h)
          PROVE  Woken(u)'
      <4>1. wakeups[u] \in Nat /\ wakeups'[u] = wakeups[u] + 1
        BY <3>3, BoundAssumption DEF ScheduleOn, IInv, TypeOK
      <4>2. ~scheduled[u]
        BY <1>2, <4>1 DEF FirstWakeups
      <4>3. life[u] = "active" /\ table' = [table EXCEPT ![h] = Wakeup(u)]
        BY <1>2, <3>1, <3>3, <4>2 DEF ScheduleOn, NeedsWakeup, Alive
      <4>4. table'[h] = Wakeup(u)
        BY <4>3 DEF IInv, TypeOK
      <4> QED BY <4>4 DEF Woken, Wakeup, Entry
    <3> QED BY <3>1, <3>2, <3>3
  <2> QED BY <2>1, <2>2
<1> QED BY <1>1, <1>2 DEF FirstWakeups

\* The first wake-up of a task arrives, however often it is woken up later.
THEOREM WokenOnce == Spec => []FirstWakeups
<1>1. Init => IInv /\ FirstWakeups
  BY InitType, InitInv DEF IInv, Init, FirstWakeups
<1>2. (IInv /\ FirstWakeups) /\ [Next]_vars => (IInv /\ FirstWakeups)'
  BY NextType, NextAgrees, NextRunning, NextWakeups DEF IInv
<1> QED BY <1>1, <1>2, PTL DEF Spec

\* Where idle tasks are woken up once, microtasks never wait without an event on
\* the way; a second wake-up is lost.
THEOREM WakeupsAreOnTheWay ==
  ASSUME MaxWakeups <= 1
  PROVE  Spec => []QueuedHaveWakeup
<1>1. IInv /\ FirstWakeups => QueuedHaveWakeup
  <2> SUFFICES ASSUME IInv, FirstWakeups, pc = "host", NEW t \in Tasks, queue[t] > 0
               PROVE  Woken(t)
    BY DEF QueuedHaveWakeup, Woken
  <2>1. ~running[t]
    BY NoneAssumption DEF IInv, RunningIsCurrent
  <2>2. wakeups[t] <= 1
    BY BoundAssumption DEF IInv, TypeOK
  <2> QED BY <2>1, <2>2 DEF FirstWakeups, Alive
<1> QED BY <1>1, Invariance, WokenOnce, PTL
=============================================================================
