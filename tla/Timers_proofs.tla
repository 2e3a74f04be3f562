--------------------------- MODULE Timers_proofs ---------------------------
(***************************************************************************)
(* Proofs about Timers for any sets of timers, objects and handles.        *)
(***************************************************************************)
EXTENDS Timers, TLAPS

\* The microtasks are callbacks of different waits, which are over.
Distinct(q) == \A i, j \in DOMAIN q : q[i] = q[j] => i = j
Holds(q, s) == \E i \in DOMAIN q : q[i] = s
CallbacksOfDone ==
  Distinct(queue) /\ \A s \in Waits : IsQueued(s) => wait[s].completer = "done"

\* The runtime and the host agree on whether a cancellation was requested, and
\* an event that is ready is of the state the subtask is in.
EventsAreCurrent ==
  /\ \A h \in Handles : host[h].event # "none" => host[h].event = host[h].state
  /\ \A h \in Handles : subtasks[h] # None =>
       /\ host[h].state # "free"
       /\ host[h].cancelling = wait[subtasks[h]].cancelling

\* An object belongs to a timer from its call on.
UsedHaveOwner ==
  \A s \in Waits : IF wait[s].completer = "unused" THEN wait[s] = Unused
                   ELSE wait[s].owner \in Timers /\ timer[wait[s].owner].created

\* A timer is active only between its creation and its cancellation, and a
\* cancelled timer has let its wait go.
TimerPhases ==
  \A w \in Timers :
    /\ ~timer[w].created => ~timer[w].active /\ ~timer[w].cancelled
    /\ timer[w].cancelled => ~timer[w].active /\ timer[w].current = None

\* A pending wait is in the hands of its timer, or the host was asked to end it.
PendingIsHeld ==
  \A s \in Waits : IsPending(s) =>
    wait[s].cancelling \/ timer[wait[s].owner].current = s

\* What the invariant says of subtasks, and of timers.
SubtaskInv == SubtasksMatchHost /\ EventsAreCurrent /\ CallbacksOfDone
TimerInv == UsedHaveOwner /\ TimerPhases /\ PendingIsHeld /\ ActiveHaveOneWait

\* The inductive invariant.
IInv == TypeOK /\ SubtaskInv /\ TimerInv

-----------------------------------------------------------------------------
(* Queues.                                                                 *)

\* Appending adds one element, and keeps the elements distinct if it is new.
LEMMA AppendHolds ==
  ASSUME NEW S, NEW q \in Seq(S), NEW s \in S
  PROVE  /\ Append(q, s) \in Seq(S)
         /\ \A r : Holds(Append(q, s), r) <=> Holds(q, r) \/ r = s
         /\ Distinct(q) /\ ~Holds(q, s) => Distinct(Append(q, s))
<1>1. /\ Append(q, s) \in Seq(S)
      /\ Len(Append(q, s)) = Len(q) + 1 /\ Len(q) \in Nat
      /\ \A i \in 1..Len(q) : Append(q, s)[i] = q[i]
      /\ Append(q, s)[Len(q) + 1] = s
  OBVIOUS
<1>2. DOMAIN q = 1..Len(q) /\ DOMAIN Append(q, s) = 1..(Len(q) + 1)
  BY <1>1
<1>3. ASSUME NEW r PROVE Holds(Append(q, s), r) <=> Holds(q, r) \/ r = s
  <2>1. ASSUME Holds(q, r) PROVE Holds(Append(q, s), r)
    BY <1>1, <1>2, <2>1 DEF Holds
  <2>2. Holds(Append(q, s), s)
    BY <1>1, <1>2 DEF Holds
  <2>3. ASSUME Holds(Append(q, s), r) PROVE Holds(q, r) \/ r = s
    BY <1>1, <1>2, <2>3 DEF Holds
  <2> QED BY <2>1, <2>2, <2>3
<1>4. ASSUME Distinct(q), ~Holds(q, s) PROVE Distinct(Append(q, s))
  BY <1>1, <1>2, <1>4 DEF Distinct, Holds
<1> QED BY <1>1, <1>3, <1>4

\* The first of a queue of distinct elements is not in the rest.
LEMMA TailHolds ==
  ASSUME NEW S, NEW q \in Seq(S), q # <<>>
  PROVE  /\ Head(q) \in S /\ Tail(q) \in Seq(S)
         /\ Holds(q, Head(q))
         /\ \A r : Holds(q, r) <=> r = Head(q) \/ Holds(Tail(q), r)
         /\ Distinct(q) => Distinct(Tail(q)) /\ ~Holds(Tail(q), Head(q))
<1>1. /\ Head(q) \in S /\ Tail(q) \in Seq(S)
      /\ Len(q) \in Nat \ {0} /\ Head(q) = q[1]
      /\ Len(Tail(q)) = Len(q) - 1
      /\ \A i \in 1..(Len(q) - 1) : Tail(q)[i] = q[i + 1]
  OBVIOUS
<1>2. DOMAIN q = 1..Len(q) /\ DOMAIN Tail(q) = 1..(Len(q) - 1)
  BY <1>1
<1>3. ASSUME NEW r PROVE Holds(q, r) <=> r = Head(q) \/ Holds(Tail(q), r)
  <2>1. ASSUME NEW i \in DOMAIN q, q[i] = r PROVE r = Head(q) \/ Holds(Tail(q), r)
    <3>1. CASE i # 1
      <4>1. i - 1 \in 1..(Len(q) - 1) /\ Tail(q)[i - 1] = r
        BY <1>1, <1>2, <2>1, <3>1
      <4> QED BY <4>1, <1>2 DEF Holds
    <3> QED BY <1>1, <2>1, <3>1
  <2>2. ASSUME NEW i \in DOMAIN Tail(q), Tail(q)[i] = r PROVE Holds(q, r)
    <3>1. i + 1 \in DOMAIN q /\ q[i + 1] = r
      BY <1>1, <1>2, <2>2
    <3> QED BY <3>1 DEF Holds
  <2>3. Holds(q, Head(q))
    BY <1>1, <1>2 DEF Holds
  <2> QED BY <2>1, <2>2, <2>3 DEF Holds
<1>4. ASSUME Distinct(q) PROVE Distinct(Tail(q)) /\ ~Holds(Tail(q), Head(q))
  <2>1. ASSUME NEW i \in DOMAIN Tail(q), NEW j \in DOMAIN Tail(q), Tail(q)[i] = Tail(q)[j]
        PROVE  i = j
    <3>1. i + 1 \in DOMAIN q /\ j + 1 \in DOMAIN q /\ q[i + 1] = q[j + 1]
      BY <1>1, <1>2, <2>1
    <3>2. i + 1 = j + 1
      BY <3>1, <1>4 DEF Distinct
    <3> QED BY <1>1, <1>2, <3>2
  <2>2. ASSUME NEW i \in DOMAIN Tail(q), Tail(q)[i] = Head(q) PROVE FALSE
    <3>1. i + 1 \in DOMAIN q /\ 1 \in DOMAIN q /\ q[i + 1] = q[1] /\ i + 1 # 1
      BY <1>1, <1>2, <2>2
    <3> QED BY <3>1, <1>4 DEF Distinct
  <2> QED BY <2>1, <2>2 DEF Distinct, Holds
<1> QED BY <1>1, <1>3, <1>4
-----------------------------------------------------------------------------
(* The inductive invariant.                                                *)

\* It holds initially.
LEMMA InitInv == Init => IInv
<1> SUFFICES ASSUME Init PROVE IInv
  OBVIOUS
<1> USE TimersAssumption DEF Init
<1>1. DOMAIN queue = {} /\ queue \in Seq(Waits)
  OBVIOUS
<1>2. TypeOK
  BY <1>1 DEF TypeOK, TimerStates, WaitStates, HostStates, Unused, Free, Pending, Final
<1>3. SubtaskInv
  BY <1>1 DEF SubtaskInv, SubtasksMatchHost, PendingAreJoined, NeverTraps, IsPending,
              EventsAreCurrent, CallbacksOfDone, Distinct, IsQueued, Unused, Free
<1>4. TimerInv
  BY DEF TimerInv, UsedHaveOwner, TimerPhases, PendingIsHeld, ActiveHaveOneWait,
         IsPending, Unused
<1> QED BY <1>2, <1>3, <1>4 DEF IInv

\* A subtask in the map: its object is pending under its index, and the host
\* would trap on no cancellation that the object asks for.
LEMMA SubtaskFacts ==
  ASSUME IInv, NEW s \in Waits, IsPending(s)
  PROVE  /\ wait[s].index \in Handles
         /\ subtasks[wait[s].index] = s
         /\ host[wait[s].index].joined
         /\ host[wait[s].index].state \in Pending \cup Final
         /\ host[wait[s].index].cancelling = wait[s].cancelling
         /\ wait[s].owner \in Timers
         /\ timer[wait[s].owner].created
         /\ ~IsQueued(s)
<1>1. wait[s].index \in Handles /\ subtasks[wait[s].index] = s /\ s # None
  BY TimersAssumption
     DEF IInv, TypeOK, WaitStates, SubtaskInv, SubtasksMatchHost, PendingAreJoined
<1>2. /\ host[wait[s].index].joined
      /\ host[wait[s].index].state \in Pending \cup Final
      /\ host[wait[s].index].cancelling = wait[s].cancelling
  BY <1>1 DEF IInv, TypeOK, HostStates, SubtaskInv, SubtasksMatchHost, PendingAreJoined,
              EventsAreCurrent
<1>3. wait[s].owner \in Timers /\ timer[wait[s].owner].created /\ ~IsQueued(s)
  BY DEF IInv, SubtaskInv, CallbacksOfDone, TimerInv, UsedHaveOwner, IsPending
<1> QED BY <1>1, <1>2, <1>3

\* When a pending wait ends, its handle is freed and its callback is queued.
LEMMA EndedKeepsSubtasks ==
  ASSUME IInv, NEW s \in Waits, IsPending(s), NEW st \in Final, NEW c \in BOOLEAN,
         wait' = [wait EXCEPT ![s] =
                    [@ EXCEPT !.state = st, !.completer = "done", !.cancelling = c]],
         subtasks' = [subtasks EXCEPT ![wait[s].index] = None],
         host' = [host EXCEPT ![wait[s].index] = Free],
         queue' = Append(queue, s),
         trapped' = FALSE, inLoop' \in BOOLEAN, timer' \in [Timers -> TimerStates]
  PROVE  TypeOK' /\ SubtaskInv'
<1>1. /\ wait[s].index \in Handles /\ ~IsQueued(s) /\ subtasks[wait[s].index] = s
  BY SubtaskFacts
<1>t. TypeOK
  BY DEF IInv
<1>2. /\ queue' \in Seq(Waits) /\ Distinct(queue')
      /\ \A r : IsQueued(r)' <=> IsQueued(r) \/ r = s
  <2>1. queue \in Seq(Waits) /\ Distinct(queue) /\ ~Holds(queue, s)
    BY <1>1 DEF IInv, TypeOK, SubtaskInv, CallbacksOfDone, IsQueued, Holds
  <2>2. /\ queue' \in Seq(Waits) /\ Distinct(queue')
        /\ \A r : Holds(queue', r) <=> Holds(queue, r) \/ r = s
    BY <2>1, AppendHolds
  <2> QED BY <2>2 DEF IsQueued, Holds
<1>3. /\ wait' \in [Waits -> WaitStates]
      /\ wait'[s].completer = "done" /\ wait'[s].index = wait[s].index
      /\ \A r \in Waits : r # s => wait'[r] = wait[r]
  <2>1. wait[s] \in WaitStates
    BY <1>t DEF TypeOK
  <2>2. [wait[s] EXCEPT !.state = st, !.completer = "done", !.cancelling = c] \in WaitStates
    BY <2>1 DEF WaitStates
  <2> QED BY <2>1, <2>2, <1>t DEF TypeOK, WaitStates
<1>4. /\ host' \in [Handles -> HostStates] /\ subtasks' \in [Handles -> Waits \cup {None}]
      /\ host'[wait[s].index] = Free /\ subtasks'[wait[s].index] = None
      /\ \A h \in Handles : h # wait[s].index => host'[h] = host[h] /\ subtasks'[h] = subtasks[h]
  BY <1>1, <1>t DEF TypeOK, HostStates, Free
<1>5. TypeOK'
  BY <1>2, <1>3, <1>4, <1>t DEF TypeOK
<1>6. CallbacksOfDone'
  BY <1>2, <1>3 DEF IInv, SubtaskInv, CallbacksOfDone
<1>7. SubtasksMatchHost'
  BY <1>1, <1>3, <1>4, <1>t, TimersAssumption
     DEF IInv, TypeOK, SubtaskInv, SubtasksMatchHost, PendingAreJoined, NeverTraps, IsPending
<1>8. EventsAreCurrent'
  <2>1. \A h \in Handles : host'[h].event # "none" => host'[h].event = host'[h].state
    BY <1>4 DEF IInv, SubtaskInv, EventsAreCurrent, Free
  <2>2. ASSUME NEW h \in Handles, subtasks'[h] # None
        PROVE  host'[h].state # "free" /\ host'[h].cancelling = wait'[subtasks'[h]].cancelling
    <3>1. h # wait[s].index /\ subtasks'[h] = subtasks[h] /\ subtasks[h] \in Waits
      BY <1>t, <1>4, <2>2 DEF TypeOK
    <3>2. subtasks[h] # s
      BY <3>1, <2>2 DEF IInv, SubtaskInv, SubtasksMatchHost, PendingAreJoined
    <3> QED BY <1>3, <1>4, <3>1, <3>2, <2>2 DEF IInv, SubtaskInv, EventsAreCurrent
  <2> QED BY <2>1, <2>2 DEF EventsAreCurrent
<1> QED BY <1>5, <1>6, <1>7, <1>8 DEF SubtaskInv

\* Subtasks that stay pending, or that change only in what the invariant does
\* not look at, keep everything that is said of subtasks.
LEMMA PendingKeepsSubtasks ==
  ASSUME IInv, NEW h \in Handles, subtasks[h] # None,
         NEW x \in WaitStates, NEW y \in HostStates,
         wait' = [wait EXCEPT ![subtasks[h]] = x], host' = [host EXCEPT ![h] = y],
         x.index = h, x.completer = "pending",
         y.joined, y.state # "free", y.event # "none" => y.event = y.state,
         y.cancelling = x.cancelling,
         UNCHANGED <<subtasks, queue, trapped>>,
         inLoop' \in BOOLEAN, timer' \in [Timers -> TimerStates]
  PROVE  TypeOK' /\ SubtaskInv'
<1> DEFINE s == subtasks[h]
<1>t. TypeOK /\ s \in Waits
  BY DEF IInv, TypeOK
<1>1. IsPending(s) /\ wait[s].index = h
  BY DEF IInv, SubtaskInv, SubtasksMatchHost, PendingAreJoined
<1>2. /\ wait' \in [Waits -> WaitStates] /\ wait'[s] = x
      /\ \A r \in Waits : r # s => wait'[r] = wait[r]
  BY <1>t DEF TypeOK
<1>3. /\ host' \in [Handles -> HostStates] /\ host'[h] = y
      /\ \A g \in Handles : g # h => host'[g] = host[g]
  BY <1>t DEF TypeOK
<1>4. TypeOK'
  BY <1>t, <1>2, <1>3 DEF TypeOK
<1>5. CallbacksOfDone'
  <2>1. ~IsQueued(s)
    BY <1>1, <1>t DEF IInv, SubtaskInv, CallbacksOfDone, IsPending
  <2> QED BY <1>2, <2>1 DEF IInv, SubtaskInv, CallbacksOfDone, IsQueued
<1>6. SubtasksMatchHost'
  <2>1. PendingAreJoined /\ NeverTraps
    BY DEF IInv, SubtaskInv, SubtasksMatchHost
  <2>2. ASSUME NEW r \in Waits, IsPending(r)'
        PROVE  wait'[r].index # None /\ subtasks[wait'[r].index] = r
    BY <1>1, <1>2, <2>1, <2>2, <1>t, TimersAssumption DEF PendingAreJoined, IsPending
  <2>3. ASSUME NEW g \in Handles
        PROVE  IF subtasks[g] = None THEN host'[g] = Free
               ELSE /\ IsPending(subtasks[g])' /\ wait'[subtasks[g]].index = g
                    /\ host'[g].joined
    BY <1>1, <1>2, <1>3, <2>1, <1>t DEF PendingAreJoined, IsPending, TypeOK
  <2> QED BY <2>1, <2>2, <2>3 DEF SubtasksMatchHost, PendingAreJoined, NeverTraps
<1>7. EventsAreCurrent'
  <2>1. \A g \in Handles : host'[g].event # "none" => host'[g].event = host'[g].state
    BY <1>3 DEF IInv, SubtaskInv, EventsAreCurrent
  <2>2. ASSUME NEW g \in Handles, subtasks[g] # None
        PROVE  host'[g].state # "free" /\ host'[g].cancelling = wait'[subtasks[g]].cancelling
    <3>1. CASE g # h
      <4>1. subtasks[g] \in Waits /\ subtasks[g] # s
        BY <1>t, <1>1, <2>2, <3>1
           DEF TypeOK, IInv, SubtaskInv, SubtasksMatchHost, PendingAreJoined
      <4> QED BY <4>1, <1>2, <1>3, <2>2, <3>1 DEF IInv, SubtaskInv, EventsAreCurrent
    <3> QED BY <1>2, <1>3, <3>1
  <2> QED BY <2>1, <2>2 DEF EventsAreCurrent
<1> QED BY <1>4, <1>5, <1>6, <1>7 DEF SubtaskInv

\* Waits go on or end, and callbacks are queued for those that end.
WaitsGoOn ==
  \A s \in Waits :
    /\ wait'[s].owner = wait[s].owner
    /\ wait[s].completer = "unused" => wait'[s] = wait[s]
    /\ wait'[s].completer = "unused" => wait[s].completer = "unused"
    /\ IsPending(s)' => IsPending(s) /\ (wait[s].cancelling => wait'[s].cancelling)
    /\ IsPending(s) \/ IsQueued(s) <=> IsPending(s)' \/ IsQueued(s)'

\* That keeps what is said of timers, if the timers stay as they are or let go
\* of waits that have ended or that the host was asked to end.
LEMMA WaitsKeepTimers ==
  ASSUME IInv, WaitsGoOn,
         \A w \in Timers :
           \/ timer'[w] = timer[w]
           \/ /\ timer[w].created /\ timer'[w].created
              /\ ~timer'[w].active /\ timer'[w].current = None
              /\ \A s \in WaitsOf(w) : IsPending(s)' => wait'[s].cancelling
  PROVE  TimerInv'
<1>1. UsedHaveOwner'
  BY DEF IInv, TimerInv, UsedHaveOwner, WaitsGoOn
<1>2. TimerPhases'
  BY DEF IInv, TimerInv, TimerPhases
<1>3. PendingIsHeld'
  BY <1>1, TimersAssumption
     DEF IInv, TimerInv, PendingIsHeld, UsedHaveOwner, IsPending, WaitsOf, WaitsGoOn
<1>4. ActiveHaveOneWait'
  BY DEF IInv, TimerInv, ActiveHaveOneWait, WaitsOf, WaitsGoOn
<1> QED BY <1>1, <1>2, <1>3, <1>4 DEF TimerInv

\* A pending wait that ends goes on in this sense.
LEMMA EndedGoesOn ==
  ASSUME IInv, NEW s \in Waits, IsPending(s), NEW st \in Final, NEW c \in BOOLEAN,
         wait' = [wait EXCEPT ![s] =
                    [@ EXCEPT !.state = st, !.completer = "done", !.cancelling = c]],
         queue' = Append(queue, s)
  PROVE  WaitsGoOn /\ ~IsPending(s)'
<1>1. \A r : IsQueued(r)' <=> IsQueued(r) \/ r = s
  <2>1. \A r : Holds(queue', r) <=> Holds(queue, r) \/ r = s
    BY AppendHolds DEF IInv, TypeOK
  <2> QED BY <2>1 DEF IsQueued, Holds
<1>2. /\ wait'[s].completer = "done" /\ wait'[s].owner = wait[s].owner
      /\ \A r \in Waits : r # s => wait'[r] = wait[r]
  BY DEF IInv, TypeOK, WaitStates
<1> QED BY <1>1, <1>2 DEF WaitsGoOn, IsPending

\* SubtaskImpl.cancel keeps the subtasks right, and leaves the wait over, or
\* the host asked to end it.
LEMMA CancelWaitKeeps ==
  ASSUME IInv, NEW s \in Waits, CancelWait(s),
         inLoop' \in BOOLEAN, timer' \in [Timers -> TimerStates]
  PROVE  /\ TypeOK' /\ SubtaskInv' /\ WaitsGoOn
         /\ IsPending(s)' => wait'[s].cancelling
<1> DEFINE h == wait[s].index
<1>t. TypeOK
  BY DEF IInv
<1>1. CASE NothingToCancel(s)
  <2>1. UNCHANGED <<wait, subtasks, host, queue, trapped>>
    BY <1>1 DEF CancelWait
  <2>2. IsPending(s) => wait[s].cancelling
    BY <1>1, SubtaskFacts, TimersAssumption DEF NothingToCancel, IsPending
  <2>3. TypeOK' /\ WaitsGoOn
    BY <2>1, <1>t DEF TypeOK, WaitsGoOn, IsPending, IsQueued
  <2>4. SubtaskInv'
    BY <2>1 DEF IInv, SubtaskInv, SubtasksMatchHost, PendingAreJoined, NeverTraps, IsPending,
                EventsAreCurrent, CallbacksOfDone, IsQueued
  <2> QED BY <2>1, <2>2, <2>3, <2>4 DEF IsPending
<1>2. CASE ~NothingToCancel(s)
  <2>1. /\ IsPending(s) /\ ~wait[s].cancelling
    BY <1>2, <1>t
       DEF NothingToCancel, IsPending, TypeOK, WaitStates, IInv, TimerInv, UsedHaveOwner, Unused
  <2>2. /\ h \in Handles /\ subtasks[h] = s /\ host[h].joined
        /\ host[h].state \in Pending \cup Final /\ ~host[h].cancelling
        /\ ~CancelTraps(h, JoinedDuringCancel(h))
    BY <2>1, SubtaskFacts DEF CancelTraps, JoinedDuringCancel, Pending, Final
  <2>3. PICK a \in Answers(h) :
          IF a = "blocked"
          THEN /\ wait' = [wait EXCEPT ![s].cancelling = TRUE]
               /\ host' = [host EXCEPT ![h].joined = JoinedAfterCancel(h),
                                       ![h].cancelling = TRUE]
               /\ trapped' = (trapped \/ CancelTraps(h, JoinedDuringCancel(h)))
               /\ UNCHANGED <<subtasks, queue>>
          ELSE /\ wait' = [wait EXCEPT ![s].state = a, ![s].completer = "done",
                                       ![s].cancelling = TRUE]
               /\ subtasks' = [subtasks EXCEPT ![h] = None]
               /\ host' = [host EXCEPT ![h] = Free]
               /\ queue' = Append(queue, s)
               /\ trapped' = (trapped \/ CancelTraps(h, JoinedDuringCancel(h)))
    BY <1>2 DEF CancelWait
  <2>4. trapped' = FALSE /\ trapped = FALSE
    BY <2>2, <2>3, <1>t DEF IInv, TypeOK, SubtaskInv, SubtasksMatchHost, NeverTraps
  <2>5. CASE a = "blocked"
    <3> DEFINE x == [wait[s] EXCEPT !.cancelling = TRUE]
               y == [host[h] EXCEPT !.joined = TRUE, !.cancelling = TRUE]
    <3>1. x \in WaitStates /\ x.index = h /\ x.completer = "pending" /\ x.cancelling = TRUE
          /\ x.owner = wait[s].owner
      BY <1>t, <2>1 DEF TypeOK, WaitStates, IsPending
    <3>2. /\ y \in HostStates /\ y.joined /\ y.state # "free" /\ y.cancelling = TRUE
          /\ y.event # "none" => y.event = y.state
      <4>1. host[h] \in HostStates /\ (host[h].event # "none" => host[h].event = host[h].state)
        BY <1>t, <2>2 DEF TypeOK, IInv, SubtaskInv, EventsAreCurrent
      <4>2. host[h].state # "free"
        BY <2>2 DEF Pending, Final
      <4> QED BY <4>1, <4>2 DEF HostStates
    <3>3. wait' = [wait EXCEPT ![s] = x] /\ host' = [host EXCEPT ![h] = y]
      BY <2>3, <2>5, <1>t, <2>2 DEF TypeOK, JoinedAfterCancel
    <3>4. s = subtasks[h] /\ subtasks[h] # None
      BY <2>2, TimersAssumption
    <3>5. TypeOK' /\ SubtaskInv'
      BY <2>2, <2>3, <2>4, <2>5, <3>1, <3>2, <3>3, <3>4, PendingKeepsSubtasks
    <3>6. wait'[s] = x /\ \A r \in Waits : r # s => wait'[r] = wait[r]
      BY <3>3, <1>t DEF TypeOK
    <3>7. WaitsGoOn
      BY <2>1, <2>3, <2>5, <3>1, <3>6 DEF WaitsGoOn, IsPending, IsQueued
    <3> QED BY <3>1, <3>5, <3>6, <3>7
  <2>6. CASE a # "blocked"
    <3>1. a \in Final
      BY <2>3, <2>6 DEF Answers, CancelledState, Final
    <3>2. wait' = [wait EXCEPT ![s] =
                     [@ EXCEPT !.state = a, !.completer = "done", !.cancelling = TRUE]]
      BY <2>3, <2>6, <1>t DEF TypeOK
    <3>3. TypeOK' /\ SubtaskInv'
      BY <2>1, <2>3, <2>4, <2>6, <3>1, <3>2, EndedKeepsSubtasks
    <3>4. WaitsGoOn /\ ~IsPending(s)'
      BY <2>1, <2>3, <2>6, <3>1, <3>2, EndedGoesOn
    <3> QED BY <3>3, <3>4
  <2> QED BY <2>5, <2>6
<1> QED BY <1>1, <1>2

\* An event of a subtask.
LEMMA DeliverInv == ASSUME IInv, NEW h \in Handles, Deliver(h) PROVE IInv'
<1> DEFINE s == subtasks[h]
<1>t. TypeOK
  BY DEF IInv
<1>1. /\ s # None /\ s \in Waits /\ IsPending(s) /\ wait[s].index = h
      /\ host[h].joined /\ host[h].event = host[h].state /\ host[h].event # "none"
      /\ trapped = FALSE
  BY <1>t DEF IInv, TypeOK, SubtaskInv, SubtasksMatchHost, PendingAreJoined, NeverTraps, Free,
              EventsAreCurrent, Deliver
<1>2. inLoop' \in BOOLEAN /\ timer' = timer /\ timer' \in [Timers -> TimerStates]
  BY <1>t DEF Deliver, TypeOK
<1>3. CASE /\ host[h].event = "started"
           /\ wait' = [wait EXCEPT ![s].state = "started"]
           /\ host' = [host EXCEPT ![h].event = "none"]
           /\ UNCHANGED <<queue, subtasks, trapped>>
  <2> DEFINE x == [wait[s] EXCEPT !.state = "started"]
             y == [host[h] EXCEPT !.event = "none"]
  <2>1. /\ x \in WaitStates /\ x.index = h /\ x.completer = "pending"
        /\ x.owner = wait[s].owner /\ x.cancelling = wait[s].cancelling
    BY <1>t, <1>1 DEF TypeOK, WaitStates, IsPending, Pending
  <2>2. /\ y \in HostStates /\ y.joined /\ y.state # "free" /\ y.event = "none"
        /\ y.cancelling = x.cancelling
    BY <1>t, <1>1, <1>3, <2>1 DEF TypeOK, HostStates, IInv, SubtaskInv, EventsAreCurrent
  <2>3. wait' = [wait EXCEPT ![s] = x] /\ host' = [host EXCEPT ![h] = y]
    BY <1>3, <1>t, <1>1 DEF TypeOK
  <2>4. TypeOK' /\ SubtaskInv'
    BY <1>1, <1>2, <1>3, <2>1, <2>2, <2>3, PendingKeepsSubtasks
  <2>5. wait'[s] = x /\ \A r \in Waits : r # s => wait'[r] = wait[r]
    BY <2>3, <1>t, <1>1 DEF TypeOK
  <2>6. WaitsGoOn
    BY <1>1, <1>3, <2>1, <2>5 DEF WaitsGoOn, IsPending, IsQueued
  <2>7. TimerInv'
    BY <1>2, <2>6, WaitsKeepTimers
  <2> QED BY <2>4, <2>7 DEF IInv
<1>4. CASE host[h].event \in Final /\ Complete(s, host[h].event)
  <2>1. /\ wait' = [wait EXCEPT ![s] = [@ EXCEPT !.state = host[h].event, !.completer = "done",
                                                 !.cancelling = wait[s].cancelling]]
        /\ wait[s].cancelling \in BOOLEAN
    BY <1>4, <1>1, <1>t DEF Complete, TypeOK, WaitStates
  <2>2. /\ subtasks' = [subtasks EXCEPT ![wait[s].index] = None]
        /\ host' = [host EXCEPT ![wait[s].index] = Free]
        /\ queue' = Append(queue, s) /\ trapped' = FALSE
    BY <1>4, <1>1 DEF Complete
  <2>3. TypeOK' /\ SubtaskInv'
    BY <1>1, <1>2, <1>4, <2>1, <2>2, EndedKeepsSubtasks
  <2>4. WaitsGoOn
    BY <1>1, <1>4, <2>1, <2>2, EndedGoesOn
  <2>5. TimerInv'
    BY <1>2, <2>4, WaitsKeepTimers
  <2> QED BY <2>3, <2>5 DEF IInv
<1> QED BY <1>1, <1>3, <1>4 DEF Deliver

\* The host moves on; what the object knows stays.
LEMMA HostProgressInv ==
  ASSUME IInv, NEW h \in Handles, NEW st \in Pending \cup Final, HostProgress(h, st)
  PROVE  IInv'
<1>t. TypeOK
  BY DEF IInv
<1>1. host[h].state # "free" /\ subtasks[h] # None
  BY DEF HostProgress, Pending, IInv, SubtaskInv, SubtasksMatchHost, PendingAreJoined, Free
<1>2. /\ host' \in [Handles -> HostStates]
      /\ host'[h].state = st /\ host'[h].event = st
      /\ host'[h].joined = host[h].joined /\ host'[h].cancelling = host[h].cancelling
      /\ \A g \in Handles : g # h => host'[g] = host[g]
  BY <1>t DEF HostProgress, TypeOK, HostStates
<1>3. UNCHANGED <<inLoop, queue, timer, wait, subtasks, trapped>> /\ st # "free"
  BY DEF HostProgress, Pending, Final
<1>4. TypeOK'
  BY <1>t, <1>2, <1>3 DEF TypeOK
<1>5. SubtaskInv'
  BY <1>1, <1>2, <1>3
     DEF IInv, SubtaskInv, SubtasksMatchHost, PendingAreJoined, NeverTraps, IsPending,
         EventsAreCurrent, CallbacksOfDone, IsQueued
<1>6. TimerInv'
  BY <1>3, WaitsKeepTimers DEF WaitsGoOn, IsPending, IsQueued
<1> QED BY <1>4, <1>5, <1>6 DEF IInv

\* Iterations start and end.
LEMMA LoopInv == ASSUME IInv, Enter \/ Yield \/ UNCHANGED vars PROVE IInv'
<1>1. inLoop' \in BOOLEAN /\ UNCHANGED <<queue, timer, wait, subtasks, host, trapped>>
  BY DEF Enter, Yield, vars, IInv, TypeOK
<1>2. TypeOK'
  BY <1>1 DEF IInv, TypeOK
<1>3. SubtaskInv'
  BY <1>1
     DEF IInv, SubtaskInv, SubtasksMatchHost, PendingAreJoined, NeverTraps, IsPending,
         EventsAreCurrent, CallbacksOfDone, IsQueued
<1>4. TimerInv'
  BY <1>1, WaitsKeepTimers DEF WaitsGoOn, IsPending, IsQueued
<1> QED BY <1>2, <1>3, <1>4 DEF IInv

\* A timer that is cancelled lets its wait go, and has asked the host to end it.
LEMMA CancelTimerInv == ASSUME IInv, NEW w \in Timers, CancelTimer(w) PROVE IInv'
<1>t. TypeOK
  BY DEF IInv
<1>1. /\ timer' \in [Timers -> TimerStates] /\ inLoop' \in BOOLEAN
      /\ timer[w].created /\ timer'[w].created
      /\ timer'[w].active = FALSE /\ timer'[w].current = None
      /\ \A v \in Timers : v # w => timer'[v] = timer[v]
  BY <1>t DEF CancelTimer, TypeOK, TimerStates
<1>2. CASE timer[w].current = None
  <2>1. UNCHANGED <<inLoop, wait, subtasks, host, queue, trapped>>
    BY <1>2 DEF CancelTimer
  <2>2. TypeOK' /\ SubtaskInv'
    BY <1>t, <1>1, <2>1
       DEF TypeOK, IInv, SubtaskInv, SubtasksMatchHost, PendingAreJoined, NeverTraps, IsPending,
           EventsAreCurrent, CallbacksOfDone, IsQueued
  <2>3. \A s \in WaitsOf(w) : IsPending(s)' => wait'[s].cancelling
    BY <1>2, <2>1, TimersAssumption DEF IInv, TimerInv, PendingIsHeld, WaitsOf, IsPending
  <2>4. WaitsGoOn
    BY <2>1 DEF WaitsGoOn, IsPending, IsQueued
  <2>5. TimerInv'
    BY <1>1, <2>3, <2>4, WaitsKeepTimers
  <2> QED BY <2>2, <2>5 DEF IInv
<1>3. CASE timer[w].current # None
  <2>1. PICK c \in Waits : c = timer[w].current /\ CancelWait(c)
    BY <1>t, <1>3 DEF CancelTimer, TypeOK, TimerStates
  <2>2. /\ TypeOK' /\ SubtaskInv' /\ WaitsGoOn
        /\ IsPending(c)' => wait'[c].cancelling
    BY <2>1, <1>1, CancelWaitKeeps
  <2>3. \A s \in WaitsOf(w) : IsPending(s)' => wait'[s].cancelling
    BY <2>1, <2>2 DEF IInv, TimerInv, PendingIsHeld, WaitsOf, WaitsGoOn
  <2>4. TimerInv'
    BY <1>1, <2>2, <2>3, WaitsKeepTimers
  <2> QED BY <2>2, <2>4 DEF IInv
<1> QED BY <1>2, <1>3

\* A new wait of a timer that has no other, when the microtasks that are left
\* are q: all that there were, but perhaps for one of that timer.
LEMMA TrackKeeps ==
  ASSUME IInv, NEW w \in Timers, NEW s \in Waits, NEW t \in TimerStates, NEW q \in Seq(Waits),
         t.created, t.active, ~t.cancelled, Distinct(q),
         \A r \in Waits : Holds(q, r) => IsQueued(r),
         \A r \in Waits : wait[r].owner # w => (Holds(q, r) <=> IsQueued(r)),
         \A r \in WaitsOf(w) : ~IsPending(r) /\ ~Holds(q, r),
         Track(w, s, t, q), UNCHANGED <<inLoop, trapped>>
  PROVE  IInv'
<1>t. TypeOK
  BY DEF IInv
<1>1. wait[s] = Unused /\ ~IsPending(s) /\ ~Holds(q, s)
  BY DEF Track, IInv, TimerInv, UsedHaveOwner, SubtaskInv, CallbacksOfDone, IsPending
<1>2. /\ timer' \in [Timers -> TimerStates]
      /\ timer'[w].created /\ timer'[w].active /\ ~timer'[w].cancelled /\ timer'[w].current = s
      /\ \A v \in Timers : v # w => timer'[v] = timer[v]
  <2>1. [t EXCEPT !.current = s] \in TimerStates
    BY DEF TimerStates
  <2> QED BY <2>1, <1>t DEF Track, Holding, TypeOK, TimerStates
<1> DEFINE Tracked ==
        /\ TypeOK' /\ SubtaskInv'
        /\ wait'[s].owner = w /\ wait'[s].completer # "unused"
        /\ \A r \in Waits : r # s => wait'[r] = wait[r]
        /\ IsPending(s)' \/ IsQueued(s)'
        /\ \A r \in Waits : r # s => (IsQueued(r)' <=> Holds(q, r))
<1>3. SUFFICES Tracked
  <2> SUFFICES ASSUME Tracked PROVE TimerInv'
    BY DEF IInv
  <2>1. UsedHaveOwner'
    BY <1>2 DEF IInv, TimerInv, UsedHaveOwner
  <2>2. TimerPhases'
    BY <1>2 DEF IInv, TimerInv, TimerPhases
  <2>3. PendingIsHeld'
    <3>1. ASSUME NEW r \in Waits, IsPending(r)', r # s
          PROVE  wait'[r].cancelling \/ timer'[wait'[r].owner].current = r
      <4>1. IsPending(r) /\ wait'[r] = wait[r]
        BY <3>1 DEF IsPending
      <4>2. wait[r].owner # w /\ wait[r].owner \in Timers
        BY <4>1 DEF IInv, TimerInv, UsedHaveOwner, WaitsOf, IsPending
      <4> QED BY <1>2, <4>1, <4>2 DEF IInv, TimerInv, PendingIsHeld
    <3> QED BY <1>2, <3>1 DEF PendingIsHeld
  <2>4. ActiveHaveOneWait'
    <3>1. /\ WaitsOf(w)' \ {s} \subseteq WaitsOf(w)
          /\ \A v \in Timers : v # w => WaitsOf(v)' = WaitsOf(v)
          /\ s \in WaitsOf(w)' /\ \A v \in Timers : s \notin WaitsOf(v)
      BY <1>1, TimersAssumption DEF WaitsOf, Unused
    <3>2. \A r \in WaitsOf(w)' \ {s} : ~IsPending(r)' /\ ~IsQueued(r)'
      BY <3>1 DEF WaitsOf, IsPending
    <3>3. ASSUME NEW v \in Timers, v # w, timer[v].active
          PROVE  \E r \in WaitsOf(v) :
                   /\ timer[v].current = r
                   /\ IsPending(r)' \/ IsQueued(r)'
                   /\ \A r2 \in WaitsOf(v) \ {r} : ~IsPending(r2)' /\ ~IsQueued(r2)'
      <4>1. \A r \in WaitsOf(v) : /\ IsPending(r)' <=> IsPending(r)
                                  /\ IsQueued(r)' <=> IsQueued(r)
        BY <3>1, <3>3 DEF WaitsOf, IsPending
      <4> QED BY <3>3, <4>1 DEF IInv, TimerInv, ActiveHaveOneWait
    <3> QED BY <1>2, <3>1, <3>2, <3>3 DEF ActiveHaveOneWait
  <2> QED BY <2>1, <2>2, <2>3, <2>4 DEF TimerInv
<1>4. CASE \E h \in Handles, st \in Pending :
             /\ host[h] = Free
             /\ host' = [host EXCEPT ![h] = [Free EXCEPT !.state = st, !.joined = TRUE]]
             /\ subtasks' = [subtasks EXCEPT ![h] = s]
             /\ wait' = [wait EXCEPT ![s] =
                           [Unused EXCEPT !.index = h, !.owner = w, !.completer = "pending"]]
             /\ queue' = q
  <2>1. PICK h \in Handles, st \in Pending :
          /\ host[h] = Free
          /\ host' = [host EXCEPT ![h] = [Free EXCEPT !.state = st, !.joined = TRUE]]
          /\ subtasks' = [subtasks EXCEPT ![h] = s]
          /\ wait' = [wait EXCEPT ![s] =
                        [Unused EXCEPT !.index = h, !.owner = w, !.completer = "pending"]]
          /\ queue' = q
    BY <1>4
  <2>2. /\ subtasks[h] = None
        /\ \A r \in Waits : IsPending(r) => wait[r].index # h
    BY <2>1, TimersAssumption
       DEF IInv, SubtaskInv, SubtasksMatchHost, PendingAreJoined, Free
  <2>3. /\ wait' \in [Waits -> WaitStates]
        /\ wait'[s].index = h /\ wait'[s].owner = w /\ wait'[s].completer = "pending"
        /\ wait'[s].cancelling = FALSE
        /\ \A r \in Waits : r # s => wait'[r] = wait[r]
    BY <2>1, <1>t DEF TypeOK, WaitStates, Unused, Pending
  <2>4. /\ host' \in [Handles -> HostStates] /\ subtasks' \in [Handles -> Waits \cup {None}]
        /\ host'[h].state = st /\ host'[h].joined /\ host'[h].event = "none"
        /\ host'[h].cancelling = FALSE /\ subtasks'[h] = s
        /\ \A g \in Handles : g # h => host'[g] = host[g] /\ subtasks'[g] = subtasks[g]
    BY <2>1, <1>t DEF TypeOK, HostStates, Free
  <2>5. TypeOK'
    BY <2>1, <2>3, <2>4, <1>2, <1>t DEF TypeOK
  <2>6. \A r : IsQueued(r)' <=> Holds(q, r)
    BY <2>1 DEF IsQueued, Holds
  <2>7. SubtasksMatchHost'
    <3>1. PendingAreJoined /\ NeverTraps
      BY DEF IInv, SubtaskInv, SubtasksMatchHost
    <3>2. ASSUME NEW r \in Waits, IsPending(r)'
          PROVE  wait'[r].index # None /\ subtasks'[wait'[r].index] = r
      <4>1. CASE r # s
        <5>1. IsPending(r) /\ wait[r].index # h /\ wait[r].index \in Handles
          BY <1>t, <2>2, <2>3, <3>1, <3>2, <4>1
             DEF IsPending, PendingAreJoined, TypeOK, WaitStates
        <5> QED BY <5>1, <2>3, <2>4, <3>1, <4>1 DEF PendingAreJoined
      <4> QED BY <2>3, <2>4, <4>1, TimersAssumption
    <3>3. ASSUME NEW g \in Handles, g # h
          PROVE  IF subtasks'[g] = None THEN host'[g] = Free
                 ELSE /\ IsPending(subtasks[g])' /\ wait'[subtasks[g]].index = g
                      /\ host'[g].joined
      <4>1. subtasks[g] # None => subtasks[g] \in Waits /\ subtasks[g] # s
        BY <1>1, <1>t, <3>1 DEF TypeOK, PendingAreJoined
      <4> QED BY <2>3, <2>4, <3>1, <3>3, <4>1 DEF PendingAreJoined, IsPending
    <3>4. /\ subtasks'[h] # None /\ wait'[subtasks'[h]].completer = "pending"
          /\ wait'[subtasks'[h]].index = h /\ host'[h].joined
      BY <2>3, <2>4, TimersAssumption
    <3>5. PendingAreJoined'
      BY <2>4, <3>2, <3>3, <3>4 DEF PendingAreJoined, IsPending
    <3> QED BY <3>1, <3>5 DEF SubtasksMatchHost, NeverTraps
  <2>8. EventsAreCurrent'
    <3>1. \A g \in Handles : host'[g].event # "none" => host'[g].event = host'[g].state
      BY <2>4 DEF IInv, SubtaskInv, EventsAreCurrent
    <3>2. ASSUME NEW g \in Handles, subtasks'[g] # None
          PROVE  host'[g].state # "free" /\ host'[g].cancelling = wait'[subtasks'[g]].cancelling
      <4>1. CASE g # h
        <5>1. subtasks[g] \in Waits /\ subtasks[g] # s
          BY <1>1, <1>t, <2>4, <3>2, <4>1
             DEF TypeOK, IInv, SubtaskInv, SubtasksMatchHost, PendingAreJoined
        <5> QED BY <5>1, <2>3, <2>4, <3>2, <4>1 DEF IInv, SubtaskInv, EventsAreCurrent
      <4>2. st # "free"
        BY DEF Pending
      <4> QED BY <2>3, <2>4, <4>1, <4>2
    <3> QED BY <3>1, <3>2 DEF EventsAreCurrent
  <2>9. CallbacksOfDone'
    BY <1>1, <2>1, <2>3, <2>6 DEF IInv, SubtaskInv, CallbacksOfDone
  <2> QED BY <2>3, <2>5, <2>6, <2>7, <2>8, <2>9 DEF SubtaskInv, IsPending
<1>5. CASE /\ wait' = [wait EXCEPT ![s] =
                         [Unused EXCEPT !.owner = w, !.state = "returned", !.completer = "done"]]
           /\ queue' = Append(q, s)
           /\ UNCHANGED <<host, subtasks>>
  <2>1. /\ wait' \in [Waits -> WaitStates]
        /\ wait'[s].owner = w /\ wait'[s].completer = "done"
        /\ \A r \in Waits : r # s => wait'[r] = wait[r]
    BY <1>5, <1>t DEF TypeOK, WaitStates, Unused, Final
  <2>2. /\ queue' \in Seq(Waits) /\ Distinct(queue')
        /\ \A r : Holds(queue', r) <=> Holds(q, r) \/ r = s
    BY <1>1, <1>5, AppendHolds
  <2>3. \A r : IsQueued(r)' <=> Holds(q, r) \/ r = s
    BY <2>2 DEF IsQueued, Holds
  <2>4. TypeOK'
    BY <2>1, <2>2, <1>2, <1>5, <1>t DEF TypeOK
  <2>5. SubtasksMatchHost'
    BY <1>1, <1>5, <2>1, <1>t
       DEF TypeOK, IInv, SubtaskInv, SubtasksMatchHost, PendingAreJoined, NeverTraps, IsPending
  <2>6. EventsAreCurrent'
    <3>1. \A g \in Handles : subtasks[g] # None => subtasks[g] # s /\ subtasks[g] \in Waits
      BY <1>1, <1>t DEF TypeOK, IInv, SubtaskInv, SubtasksMatchHost, PendingAreJoined
    <3> QED BY <1>5, <2>1, <3>1 DEF IInv, SubtaskInv, EventsAreCurrent
  <2>7. CallbacksOfDone'
    BY <2>1, <2>2, <2>3 DEF IInv, SubtaskInv, CallbacksOfDone
  <2> QED BY <2>1, <2>3, <2>4, <2>5, <2>6, <2>7 DEF SubtaskInv
<1> QED BY <1>4, <1>5 DEF Track

\* A new timer has no wait yet.
LEMMA CreateTimerInv ==
  ASSUME IInv, NEW w \in Timers, NEW s \in Waits, CreateTimer(w, s) PROVE IInv'
<1> DEFINE t == [timer[w] EXCEPT !.created = TRUE, !.active = TRUE]
<1>1. t \in TimerStates /\ t.created /\ t.active /\ ~t.cancelled
  BY DEF CreateTimer, IInv, TypeOK, TimerStates, TimerInv, TimerPhases
<1>2. WaitsOf(w) = {}
  BY TimersAssumption DEF CreateTimer, WaitsOf, IInv, TimerInv, UsedHaveOwner, Unused
<1>3. queue \in Seq(Waits) /\ Distinct(queue) /\ \A r : Holds(queue, r) <=> IsQueued(r)
  BY DEF IInv, TypeOK, SubtaskInv, CallbacksOfDone, Holds, IsQueued
<1>4. Track(w, s, t, queue) /\ UNCHANGED <<inLoop, trapped>>
  BY DEF CreateTimer
<1> HIDE DEF t
<1> QED BY <1>1, <1>2, <1>3, <1>4, TrackKeeps

\* A timer that fired.
LEMMA FiredState ==
  ASSUME NEW u \in TimerStates, NEW w \in Timers, NEW cancels \in BOOLEAN
  PROVE  /\ Fired(u, w, cancels) \in TimerStates
         /\ Fired(u, w, cancels).created = u.created
         /\ Fired(u, w, cancels).active <=> w \in Periodic /\ ~cancels
         /\ Fired(u, w, cancels).cancelled <=> u.cancelled \/ cancels
         /\ Fired(u, w, cancels).current = IF cancels THEN None ELSE u.current
<1>1. PICK a \in BOOLEAN : a <=> w \in Periodic /\ ~cancels
  OBVIOUS
<1>2. PICK c \in BOOLEAN : c <=> u.cancelled \/ cancels
  OBVIOUS
<1>3. PICK k \in Waits \cup {None} : k = IF cancels THEN None ELSE u.current
  BY DEF TimerStates
<1>4. u.tick + 1 \in Nat
  BY DEF TimerStates
<1>5. Fired(u, w, cancels) =
        [u EXCEPT !.tick = u.tick + 1, !.active = a, !.cancelled = c, !.current = k]
  BY <1>1, <1>2, <1>3 DEF Fired
<1>6. DOMAIN u = {"created", "active", "tick", "current", "cancelled"} /\ u.created \in BOOLEAN
  BY DEF TimerStates
<1>7. Fired(u, w, cancels) =
        [created |-> u.created, active |-> a, tick |-> u.tick + 1, current |-> k,
         cancelled |-> c]
  BY <1>5 DEF TimerStates
<1> QED BY <1>1, <1>2, <1>3, <1>4, <1>6, <1>7 DEF TimerStates

\* The callback of a wait: a cancelled timer does nothing, another one fires
\* and waits again if it is periodic.
LEMMA RunCallbackInv ==
  ASSUME IInv, NEW cancels \in BOOLEAN, RunCallback(cancels) PROVE IInv'
<1> DEFINE c == Head(queue)
           w == wait[c].owner
           t == Fired(timer[w], w, cancels)
           rest == Tail(queue)
<1>t. TypeOK
  BY DEF IInv
<1>1. /\ c \in Waits /\ rest \in Seq(Waits) /\ Distinct(rest) /\ ~Holds(rest, c) /\ IsQueued(c)
      /\ \A r : IsQueued(r) <=> r = c \/ Holds(rest, r)
  <2>1. queue \in Seq(Waits) /\ queue # <<>> /\ Distinct(queue)
    BY <1>t DEF RunCallback, TypeOK, IInv, SubtaskInv, CallbacksOfDone
  <2> QED BY <2>1, TailHolds DEF IsQueued, Holds
<1>2. wait[c].completer = "done" /\ w \in Timers /\ timer[w].created
  BY <1>1 DEF IInv, SubtaskInv, CallbacksOfDone, TimerInv, UsedHaveOwner
<1>3. timer[w].active =>
        /\ timer[w].current = c /\ ~timer[w].cancelled
        /\ \A r \in WaitsOf(w) : ~IsPending(r) /\ ~Holds(rest, r)
  BY <1>1, <1>2
     DEF IInv, TimerInv, ActiveHaveOneWait, TimerPhases, WaitsOf, IsPending
<1>4. /\ t \in TimerStates /\ t.created = timer[w].created
      /\ t.active <=> w \in Periodic /\ ~cancels
      /\ timer[w].active => (t.cancelled <=> cancels)
      /\ t.current = IF cancels THEN None ELSE timer[w].current
  <2>1. timer[w] \in TimerStates
    BY <1>2, <1>t DEF TypeOK
  <2> HIDE DEF w
  <2>2. /\ t \in TimerStates /\ t.created = timer[w].created
        /\ t.current = IF cancels THEN None ELSE timer[w].current
    BY <1>2, <2>1, FiredState
  <2>3. t.active <=> w \in Periodic /\ ~cancels
    BY <1>2, <2>1, FiredState, Zenon
  <2>4. t.cancelled <=> timer[w].cancelled \/ cancels
    BY <1>2, <2>1, FiredState, Zenon
  <2> QED BY <1>3, <2>2, <2>3, <2>4, Zenon
<1>5. UNCHANGED <<inLoop, trapped>> /\ inLoop \in BOOLEAN
  BY <1>t DEF RunCallback, TypeOK
<1>6. CASE Fires(timer[w]) /\ Reschedules(t, w)
  <2>1. timer[w].active /\ t.active
    BY <1>6 DEF Fires, Reschedules
  <2>2. PICK s \in Waits : Track(w, s, t, rest)
    BY <1>6 DEF RunCallback
  <2>3. ~t.cancelled /\ t.created
    BY <1>2, <1>4, <2>1
  <2>4. /\ \A r \in Waits : Holds(rest, r) => IsQueued(r)
        /\ \A r \in Waits : wait[r].owner # w => (Holds(rest, r) <=> IsQueued(r))
    BY <1>1
  <2> HIDE DEF w, t, rest
  <2> QED BY <1>1, <1>2, <1>3, <1>4, <1>5, <2>1, <2>2, <2>3, <2>4, TrackKeeps
<1>7. CASE ~Fires(timer[w]) \/ ~Reschedules(t, w)
  <2>1. /\ queue' = rest /\ UNCHANGED <<wait, subtasks, host>>
        /\ \/ timer' = timer /\ ~timer[w].active
           \/ /\ timer' = [timer EXCEPT ![w] = t]
              /\ timer[w].active /\ ~t.active
    BY <1>4, <1>7 DEF RunCallback, Fires, Reschedules
  <2>2. /\ timer' \in [Timers -> TimerStates]
        /\ timer'[w].active = FALSE /\ timer'[w].created
        /\ timer'[w].cancelled => timer'[w].current = None
        /\ timer' = timer \/ timer[w].active
        /\ \A v \in Timers : v # w => timer'[v] = timer[v]
    <3>1. CASE timer' = timer /\ ~timer[w].active
      BY <1>2, <1>t, <3>1 DEF TypeOK, TimerStates, IInv, TimerInv, TimerPhases
    <3>2. CASE timer' = [timer EXCEPT ![w] = t] /\ timer[w].active /\ ~t.active
      <4> HIDE DEF t, w
      <4> QED BY <1>2, <1>4, <1>t, <3>2 DEF TypeOK, TimerStates
    <3> QED BY <2>1, <3>1, <3>2
  <2>3. \A r : IsQueued(r)' <=> Holds(rest, r)
    BY <2>1 DEF IsQueued, Holds
  <2>4. TypeOK'
    BY <1>1, <1>5, <1>t, <2>1, <2>2 DEF TypeOK
  <2>5. SubtaskInv'
    BY <1>1, <1>5, <2>1, <2>3
       DEF IInv, SubtaskInv, SubtasksMatchHost, PendingAreJoined, NeverTraps, IsPending,
           EventsAreCurrent, CallbacksOfDone
  <2>6. TimerInv'
    <3> HIDE DEF w, t, rest
    <3>1. UsedHaveOwner'
      BY <1>2, <2>1, <2>2 DEF IInv, TimerInv, UsedHaveOwner
    <3>2. TimerPhases'
      BY <1>2, <2>2 DEF IInv, TimerInv, TimerPhases
    <3>3. PendingIsHeld'
      <4>1. ASSUME NEW r \in Waits, IsPending(r)
            PROVE  wait[r].cancelling \/ timer'[wait[r].owner].current = r
        <5>1. wait[r].owner \in Timers
          BY <4>1 DEF IInv, TimerInv, UsedHaveOwner, IsPending
        <5>2. wait[r].owner # w \/ timer' = timer
          BY <1>3, <2>2, <4>1 DEF WaitsOf
        <5> QED BY <2>2, <4>1, <5>1, <5>2 DEF IInv, TimerInv, PendingIsHeld
      <4> QED BY <2>1, <4>1 DEF PendingIsHeld, IsPending
    <3>4. ASSUME NEW v \in Timers, timer'[v].active
          PROVE  \E s \in WaitsOf(v) :
                   /\ timer'[v].current = s
                   /\ IsPending(s) \/ Holds(rest, s)
                   /\ \A r \in WaitsOf(v) \ {s} : ~IsPending(r) /\ ~Holds(rest, r)
      <4>1. v # w /\ timer'[v] = timer[v] /\ c \notin WaitsOf(v)
        BY <2>2, <3>4 DEF WaitsOf, w
      <4>2. \A r \in WaitsOf(v) : IsQueued(r) <=> Holds(rest, r)
        BY <1>1, <4>1
      <4> QED BY <3>4, <4>1, <4>2 DEF IInv, TimerInv, ActiveHaveOneWait
    <3>5. ActiveHaveOneWait'
      BY <2>1, <2>3, <3>4 DEF ActiveHaveOneWait, WaitsOf, IsPending
    <3> QED BY <3>1, <3>2, <3>3, <3>5 DEF TimerInv
  <2> QED BY <2>4, <2>5, <2>6 DEF IInv
<1> QED BY <1>6, <1>7

\* Every step preserves the invariant.
LEMMA NextInv == IInv /\ [Next]_vars => IInv'
  BY LoopInv, DeliverInv, HostProgressInv, CancelTimerInv, CreateTimerInv, RunCallbackInv
     DEF Next

\* The inductive invariant holds in every reachable state.
THEOREM Invariance == Spec => []IInv
  BY InitInv, NextInv, PTL DEF Spec

\* Every variable has a value of its type.
THEOREM TypeCorrect == Spec => []TypeOK
<1>1. IInv => TypeOK
  BY DEF IInv
<1> QED BY <1>1, Invariance, PTL

\* The runtime and the host agree about every subtask whatever crosses its
\* cancellation, and no built-in traps.
THEOREM SubtasksAgree == Spec => []SubtasksMatchHost
<1>1. IInv => SubtasksMatchHost
  BY DEF IInv, SubtaskInv
<1> QED BY <1>1, Invariance, PTL

\* An active timer has exactly one wait and knows it, and a cancelled one has
\* asked the host to end every wait of it that is pending.
THEOREM WaitsHaveOneOwner == Spec => []TimersOwnWaits
<1>1. IInv => TimersOwnWaits
  BY TimersAssumption
     DEF IInv, TimerInv, TimersOwnWaits, CancelledStopWaiting, WaitsOf, TimerPhases, PendingIsHeld
<1> QED BY <1>1, Invariance, PTL

\* No step lets a cancelled timer fire.
THEOREM CancelledStaySilent == Spec => CancelledNeverFire
<1>1. ASSUME IInv, Next, NEW w \in Timers, timer[w].cancelled
      PROVE  timer'[w].tick = timer[w].tick
  <2>1. ~timer[w].active /\ timer[w].created
    BY <1>1 DEF IInv, TimerInv, TimerPhases
  <2>2. timer \in [Timers -> TimerStates]
    BY <1>1 DEF IInv, TypeOK
  <2>3. ASSUME NEW v \in Timers, CancelTimer(v) PROVE timer'[w].tick = timer[w].tick
    BY <2>2, <2>3 DEF CancelTimer, TimerStates
  <2>4. ASSUME NEW v \in Timers, NEW s \in Waits, CreateTimer(v, s)
        PROVE  timer'[w].tick = timer[w].tick
    BY <2>1, <2>2, <2>4 DEF CreateTimer, Track
  <2>5. ASSUME NEW cancels \in BOOLEAN, RunCallback(cancels)
        PROVE  timer'[w].tick = timer[w].tick
    <3>1. CASE wait[Head(queue)].owner # w
      BY <2>2, <2>5, <3>1 DEF RunCallback, Track
    <3>2. CASE wait[Head(queue)].owner = w
      BY <2>1, <2>5, <3>2 DEF RunCallback, Fires
    <3> QED BY <3>1, <3>2
  <2>6. CASE timer' = timer
    BY <2>6
  <2> QED BY <1>1, <2>3, <2>4, <2>5, <2>6 DEF Next, Enter, Yield, Deliver, HostProgress
<1>2. IInv /\ [Next]_vars =>
        [\A w \in Timers : timer[w].cancelled => timer'[w].tick = timer[w].tick]_vars
  BY <1>1
<1> QED BY <1>2, Invariance, PTL DEF Spec, CancelledNeverFire
=============================================================================
