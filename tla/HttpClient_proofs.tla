------------------------- MODULE HttpClient_proofs -------------------------
(***************************************************************************)
(* Proofs about HttpClient.                                                *)
(***************************************************************************)
EXTENDS HttpClient, TLAPS

\* Until send returns a response nothing of the response has happened.
NotYet ==
  pc # "returned" =>
    /\ body = "idle" /\ trailers = "pending" /\ ~trapped

\* The handles that send creates are held at one place of it each, and the
\* trailers from their arrival until the body's onDone or the callback of onCancel
\* has dropped them.
HandleStates ==
  /\ \A h \in {"fields", "request", "response"} : handle[h] = "held" <=> pc = h
  /\ handle["headers"] = "held" => pc = "response"
  /\ handle["trailers"] = IF trailers # "fields" THEN "none"
                          ELSE IF handler = "ran" \/ cleanup = "ran" THEN "dropped"
                          ELSE "held"

\* How far the body, its listener and the two continuations that wait for the
\* trailers can be at the same time.
Phases ==
  /\ body = "idle" <=> listener = "none"
  /\ body = "open" => listener = "listening"
  /\ body = "cancelled" => listener = "cancelled"
  /\ handler = "none" <=> body # "done"
  /\ cleanup = "none" <=> listener \in {"none", "listening"}
  /\ listener \in {"closing", "done"} => handler = "ran"
  /\ "ran" \in {handler, cleanup} => trailers # "pending"
  /\ cleanup = "ran" => handler # "waiting"
  /\ listener = "done" => cleanup = "ran"

\* The controller holds done, after the error if the listener has not got that,
\* exactly while a listener has not taken them from it.
QueueHoldsEnd ==
  IF listener = "listening" /\ handler = "ran"
  THEN \/ queue = <<"done">> /\ (trailers = "error" => sawError)
       \/ queue = <<"error", "done">> /\ trailers = "error"
  ELSE queue = <<>>

\* The host has been told by the body's onDone or by onCancel.
ToldByEither == finished <=> handler = "ran" \/ cleanup # "none"

\* Who is about to see the end, or has, saw the error before.
ErrorBeforeEnd ==
  listener \in {"closing", "done"} /\ trailers = "error" => sawError

\* The inductive invariant.
IInv ==
  /\ TypeOK /\ TrapsOnTrailers
  /\ NotYet /\ HandleStates /\ Phases /\ QueueHoldsEnd /\ ToldByEither /\ ErrorBeforeEnd
-----------------------------------------------------------------------------

\* The first and the other events of a queue.
LEMMA Queues ==
  /\ Head(<<"done">>) = "done" /\ Tail(<<"done">>) = <<>>
  /\ Head(<<"error", "done">>) = "error" /\ Tail(<<"error", "done">>) = <<"done">>
  /\ <<"done">> # <<>> /\ <<"error", "done">> # <<>> /\ <<"error", "done">> # <<"done">>
  OBVIOUS

\* The inductive invariant holds initially.
LEMMA InitInv == Init => IInv
  BY DEF Init, IInv, TypeOK, TrapsOnTrailers, NotYet, HandleStates, Phases,
         QueueHoldsEnd, ToldByEither, ErrorBeforeEnd, NoHandles, Handles

\* Every step of send preserves the invariant: no response is there yet.
LEMMA SendInv ==
  ASSUME IInv,
         \/ Close \/ SendRefused \/ SendHeaders \/ SendBadHeader \/ SendRequest
         \/ SendBadRequest \/ Send \/ ClientFails \/ ClientAnswers \/ DropHeaders
         \/ ConsumeBody
  PROVE  IInv'
<1> USE DEF IInv, TypeOK, TrapsOnTrailers, NotYet, HandleStates, Phases,
            QueueHoldsEnd, ToldByEither, ErrorBeforeEnd, Handles, stream, At
<1>1. CASE Close
  BY <1>1 DEF Close
<1>2. CASE SendRefused
  BY <1>2 DEF SendRefused
<1>3. CASE SendHeaders
  BY <1>3 DEF SendHeaders
<1>4. CASE SendBadHeader
  BY <1>4 DEF SendBadHeader, Drop
<1>5. CASE SendRequest
  BY <1>5 DEF SendRequest
<1>6. CASE SendBadRequest
  BY <1>6 DEF SendBadRequest, Drop
<1>7. CASE Send
  BY <1>7 DEF Send, Give
<1>8. CASE ClientFails
  BY <1>8 DEF ClientFails
<1>9. CASE ClientAnswers
  BY <1>9 DEF ClientAnswers
<1>10. CASE DropHeaders
  BY <1>10 DEF DropHeaders, Drop
<1>11. CASE ConsumeBody
  BY <1>11 DEF ConsumeBody, Give
<1> QED
  BY <1>1, <1>2, <1>3, <1>4, <1>5, <1>6, <1>7, <1>8, <1>9, <1>10, <1>11

\* So does every step of the listener, of the body and of the host.
LEMMA ListenerInv ==
  ASSUME IInv,
         \/ Listen \/ Pause \/ Resume \/ Cancel \/ CancelClosing
         \/ BodyDone \/ Host \/ DoneArrives
  PROVE  IInv'
<1> USE DEF IInv, TypeOK, TrapsOnTrailers, NotYet, HandleStates, Phases,
            QueueHoldsEnd, ToldByEither, ErrorBeforeEnd, Handles, stream, Running, At
<1>1. CASE Listen
  BY <1>1 DEF Listen
<1>2. CASE Pause
  BY <1>2 DEF Pause
<1>3. CASE Resume
  BY <1>3 DEF Resume
<1>4. CASE Cancel
  BY <1>4 DEF Cancel, OnCancel
<1>5. CASE CancelClosing
  BY <1>5 DEF CancelClosing
<1>6. CASE BodyDone
  BY <1>6 DEF BodyDone
<1>7. CASE Host
  BY <1>7 DEF Host, TrailersResolve
<1>8. CASE DoneArrives
  BY <1>8 DEF DoneArrives
<1> QED BY <1>1, <1>2, <1>3, <1>4, <1>5, <1>6, <1>7, <1>8

\* DropTrailers drops trailers that are held, and traps on others.
LEMMA DropTrailersDrops ==
  ASSUME IInv, DropTrailers, Running
  PROVE  /\ handle' \in [Handles -> {"none", "held", "moved", "dropped"}]
         /\ \A h \in Handles \ {"trailers"} : handle'[h] = handle[h]
         /\ handle'["trailers"] = IF trailers = "fields" THEN "dropped" ELSE "none"
         /\ trapped' \in BOOLEAN
         /\ trapped' => trailers = "fields" /\ "ran" \in {handler, cleanup}
  BY DEF IInv, TypeOK, HandleStates, DropTrailers, HaveFields, Drop, Handles, Running, At

\* The listener has got the events or is cancelled, or the controller holds them.
EndPassed ==
  /\ sawError' \in BOOLEAN /\ paused' \in BOOLEAN
  /\ body' = "done" /\ finished' = TRUE
  /\ \/ /\ listener' \in {"closing", "cancelled"}
        /\ queue' = <<>> /\ cleanup' = "waiting"
        /\ listener' = "closing" /\ trailers = "error" => sawError'
     \/ /\ listener' = "listening" /\ cleanup' = "none"
        /\ \/ queue' = <<"done">> /\ (trailers = "error" => sawError')
           \/ queue' = <<"error", "done">> /\ trailers = "error"

\* What a delivery leaves behind, for a listener that listens and events that
\* end in done, with an error first unless the listener has got it.
LEMMA DeliverEnds ==
  ASSUME IInv, NEW events, NEW r \in Reactions, Deliver(events, r),
         listener = "listening", body = "done", cleanup = "none",
         \/ events = <<"done">> /\ (trailers = "error" => sawError)
         \/ events = <<"error", "done">> /\ trailers = "error"
  PROVE  EndPassed
  BY Queues DEF EndPassed, Deliver, OnCancel, Reactions, IInv, TypeOK

\* The steps of the continuations preserve the invariant.
LEMMA ResumesInv == ASSUME IInv, Resumes PROVE IInv'
<1> USE DEF Running, At
<1>1. CASE CleanupResumes
  BY <1>1, DropTrailersDrops
     DEF CleanupResumes, IInv, TypeOK, TrapsOnTrailers, NotYet, HandleStates, Phases,
         QueueHoldsEnd, ToldByEither, ErrorBeforeEnd, Handles
<1>2. ASSUME NEW r \in Reactions, HandlerResumes(r) PROVE IInv'
  <2>1. /\ body = "done" /\ listener \in {"listening", "cancelled"}
        /\ handler' = "ran" /\ cleanup # "ran"
        /\ pc' = pc /\ pc = "returned" /\ trailers' = trailers
        /\ trailers # "pending" /\ UNCHANGED closed
    BY <1>2 DEF HandlerResumes, IInv, Phases, TypeOK
  <2>2. /\ handle' \in [Handles -> {"none", "held", "moved", "dropped"}]
        /\ \A h \in Handles \ {"trailers"} : handle'[h] = handle[h]
        /\ handle'["trailers"] = IF trailers = "fields" THEN "dropped" ELSE "none"
        /\ trapped' = FALSE
    BY <1>2, <2>1, DropTrailersDrops DEF HandlerResumes, IInv, TypeOK
  <2>3. EndPassed
    <3>1. CASE listener = "listening" /\ ~paused
      BY <1>2, <2>1, <3>1, DeliverEnds DEF HandlerResumes, Events, IInv, Phases
    <3>2. CASE listener = "listening" /\ paused
      BY <1>2, <2>1, <3>2 DEF EndPassed, HandlerResumes, Events, IInv, Phases, TypeOK
    <3>3. CASE listener = "cancelled"
      BY <1>2, <2>1, <3>3 DEF EndPassed, HandlerResumes, IInv, Phases, TypeOK, QueueHoldsEnd
    <3> QED BY <2>1, <3>1, <3>2, <3>3 DEF IInv, TypeOK
  <2> QED
    BY <2>1, <2>2, <2>3
       DEF IInv, TypeOK, TrapsOnTrailers, NotYet, HandleStates, Phases,
           QueueHoldsEnd, ToldByEither, ErrorBeforeEnd, EndPassed, Handles
<1>3. ASSUME NEW r \in Reactions, DeliverQueued(r) PROVE IInv'
  <2>1. /\ body = "done" /\ handler = "ran" /\ cleanup = "none" /\ pc = "returned"
        /\ listener = "listening" /\ ~trapped
        /\ UNCHANGED <<closed, pc, handle, trapped, trailers, handler>>
        /\ \/ queue = <<"done">> /\ (trailers = "error" => sawError)
           \/ queue = <<"error", "done">> /\ trailers = "error"
    BY <1>3, Queues DEF DeliverQueued, IInv, Phases, QueueHoldsEnd
  <2>2. EndPassed
    BY <1>3, <2>1, DeliverEnds DEF DeliverQueued
  <2> QED
    BY <2>1, <2>2
       DEF IInv, TypeOK, TrapsOnTrailers, NotYet, HandleStates, Phases,
           QueueHoldsEnd, ToldByEither, ErrorBeforeEnd, EndPassed, Handles
<1> QED BY <1>1, <1>2, <1>3 DEF Resumes

\* Every step preserves the invariant.
LEMMA NextInv == IInv /\ [Next]_vars => IInv'
<1>1. ASSUME IInv, UNCHANGED vars PROVE IInv'
  BY <1>1 DEF IInv, TypeOK, TrapsOnTrailers, NotYet, HandleStates, Phases,
              QueueHoldsEnd, ToldByEither, ErrorBeforeEnd, vars, stream
<1> QED BY <1>1, SendInv, ListenerInv, ResumesInv DEF Next

\* The inductive invariant holds in every reachable state.
THEOREM Invariance == Spec => []IInv
  BY InitInv, NextInv, PTL DEF Spec

\* Every variable has a value of its type; what is queued ends with done.
THEOREM TypeCorrect == Spec => []TypeOK
<1>1. IInv => TypeOK
  BY DEF IInv
<1> QED BY <1>1, Invariance, PTL

\* Every handle that send and the response create is dropped or given away on
\* every path, and the host traps only on trailers that are dropped twice.
THEOREM HandlesAreReleased == Spec => []HandlesEnd
<1>1. IInv => HandlesEnd
  BY DEF IInv, HandlesEnd, NothingLeaks, TypeOK, NotYet, HandleStates, Phases, Handles
<1> QED BY <1>1, Invariance, PTL

\* Neither the listener nor the host is told of the end of a response before it
\* has come, and a listener was told of an error of the trailers before.
THEOREM EndsAreHonest == Spec => []EndIsHonest
<1>1. IInv => EndIsHonest
  BY DEF IInv, EndIsHonest, BodyOver, TypeOK, Phases, ToldByEither, ErrorBeforeEnd
<1> QED BY <1>1, Invariance, PTL
=============================================================================
