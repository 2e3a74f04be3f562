----------------------------- MODULE HttpClient -----------------------------
(***************************************************************************)
(* One request of the HTTP client (wasi/lib/src/utils/http_client.dart):   *)
(* the handles that send creates and gives away on its way to a response,  *)
(* and the response's body, whose listener, whose end, whose trailers and  *)
(* whose cancellation race each other.                                     *)
(*                                                                         *)
(* External: the host, the stream that delivers the body, and the Dart     *)
(* SDK's synchronous controller with its subscription, which calls         *)
(* onCancel when it delivers done as well as when its listener cancels.    *)
(* Chunks pass straight from the body to the listener and are left out.    *)
(***************************************************************************)
EXTENDS Sequences

VARIABLES
  closed,    \* _isClosed of the client
  pc,        \* of send, see TypeOK
  handle,    \* what has become of each owned handle
  trapped,   \* a handle was used after it was dropped or given away
  body,      \* the subscription to the body: idle, open, done, cancelled
  listener,  \* of the response: none, listening, closing, done, cancelled
  paused,    \* the listener has paused, and so the body is
  queue,     \* events the controller holds for a paused listener
  trailers,  \* what responseTrailers is completed with
  handler,   \* the body's onDone: none, waiting for the trailers, ran
  cleanup,   \* what onCancel does with the trailers: none, waiting, ran
  finished,  \* responseResCompleter is completed
  sawError   \* the listener was told of an error

stream == <<body, listener, paused, queue, handler, cleanup, sawError>>
vars == <<closed, pc, handle, trapped, stream, trailers, finished>>

Handles == {"fields", "request", "response", "headers", "trailers"}
NoHandles == [h \in Handles |-> "none"]

Init ==
  /\ closed = FALSE /\ pc = "new"
  /\ handle = NoHandles /\ trapped = FALSE
  /\ body = "idle" /\ listener = "none" /\ paused = FALSE /\ queue = <<>>
  /\ handler = "none" /\ cleanup = "none"
  /\ trailers = "pending" /\ finished = FALSE /\ sawError = FALSE

-----------------------------------------------------------------------------
(* send.                                                                   *)

\* Owned.drop, and giving an owned handle away: either traps unless it is held.
Drop(h) ==
  /\ handle' = [handle EXCEPT ![h] = "dropped"]
  /\ trapped' = (handle[h] # "held")
Give(h) ==
  /\ handle' = [handle EXCEPT ![h] = "moved"]
  /\ trapped' = (handle[h] # "held")

\* send is at the given place.
At(place) == pc = place /\ ~trapped

\* Nobody runs while send is between two calls of the host, and close does not
\* reach it after its first statement.
Close ==
  /\ ~closed /\ pc \notin {"fields", "request", "response"}
  /\ closed' = TRUE
  /\ UNCHANGED <<pc, handle, trapped, stream, trailers, finished>>

\* The client is closed, or the URL has no scheme or authority.
SendRefused ==
  /\ At("new")
  /\ pc' = "threw"
  /\ UNCHANGED <<closed, handle, trapped, stream, trailers, finished>>

\* The fields for the headers.
SendHeaders ==
  /\ At("new") /\ ~closed
  /\ handle' = [handle EXCEPT !["fields"] = "held"]
  /\ pc' = "fields"
  /\ UNCHANGED <<closed, trapped, stream, trailers, finished>>

\* The host refuses a header.
SendBadHeader ==
  /\ At("fields")
  /\ Drop("fields")
  /\ pc' = "threw"
  /\ UNCHANGED <<closed, stream, trailers, finished>>

\* The request takes the fields over.
SendRequest ==
  /\ At("fields")
  /\ handle' = [handle EXCEPT !["fields"] = "moved", !["request"] = "held"]
  /\ trapped' = (handle["fields"] # "held")
  /\ pc' = "request"
  /\ UNCHANGED <<closed, stream, trailers, finished>>

\* The host refuses the method, scheme, authority or path.
SendBadRequest ==
  /\ At("request")
  /\ Drop("request")
  /\ pc' = "threw"
  /\ UNCHANGED <<closed, stream, trailers, finished>>

\* The request is given to the client, or to the handler it stands for.
Send ==
  /\ At("request")
  /\ Give("request")
  /\ pc' = "sending"
  /\ UNCHANGED <<closed, stream, trailers, finished>>

ClientFails ==
  /\ At("sending")
  /\ pc' = "threw"
  /\ UNCHANGED <<closed, handle, trapped, stream, trailers, finished>>

\* The response is asked for its headers.
ClientAnswers ==
  /\ At("sending")
  /\ handle' = [handle EXCEPT !["response"] = "held", !["headers"] = "held"]
  /\ pc' = "response"
  /\ UNCHANGED <<closed, trapped, stream, trailers, finished>>

\* They are copied and dropped.
DropHeaders ==
  /\ At("response") /\ handle["headers"] = "held"
  /\ Drop("headers")
  /\ UNCHANGED <<closed, pc, stream, trailers, finished>>

\* The response is given away for its body and trailers.  The host learns the
\* result of the response from a future that nothing completes yet.
ConsumeBody ==
  /\ At("response") /\ handle["headers"] # "held"
  /\ Give("response")
  /\ pc' = "returned"
  /\ UNCHANGED <<closed, stream, trailers, finished>>

-----------------------------------------------------------------------------
(* _trackStreamCompletion.                                                 *)

Running == At("returned")

\* onListen.
Listen ==
  /\ Running /\ listener = "none"
  /\ listener' = "listening"
  /\ body' = "open"
  /\ UNCHANGED <<closed, pc, handle, trapped, paused, queue, trailers, handler,
                 cleanup, finished, sawError>>

\* Whether there are trailers to drop.
HaveFields == trailers = "fields"

\* opt.requireValue().drop()
DropTrailers ==
  IF HaveFields THEN Drop("trailers") ELSE UNCHANGED <<handle, trapped>>

\* onCancel: the host is told, the trailers are dropped once they are there,
\* the body is cancelled.  The variant leaves the trailers alone.
OnCancel_NoCleanup ==
  /\ finished' = TRUE
  /\ UNCHANGED cleanup
  /\ body' = IF body = "open" THEN "cancelled" ELSE body
OnCancel ==
  /\ finished' = TRUE
  /\ cleanup' = "waiting"
  /\ body' = IF body = "open" THEN "cancelled" ELSE body

\* onPause and onResume pause and resume the body.
Pause ==
  /\ Running /\ listener = "listening" /\ ~paused
  /\ paused' = TRUE
  /\ UNCHANGED <<closed, pc, handle, trapped, body, listener, queue,
                 trailers, handler, cleanup, finished, sawError>>

Resume ==
  /\ Running /\ listener = "listening" /\ paused
  /\ paused' = FALSE
  /\ UNCHANGED <<closed, pc, handle, trapped, body, listener, queue,
                 trailers, handler, cleanup, finished, sawError>>

Cancel ==
  /\ Running /\ listener = "listening"
  /\ listener' = "cancelled"
  /\ paused' = FALSE /\ queue' = <<>>
  /\ OnCancel
  /\ UNCHANGED <<closed, pc, handle, trapped, trailers, handler, sawError>>

\* The listener cancels after onCancel was called for done, and before that
\* arrives.
CancelClosing ==
  /\ Running /\ listener = "closing"
  /\ listener' = "cancelled"
  /\ UNCHANGED <<closed, pc, handle, trapped, body, paused, queue,
                 trailers, handler, cleanup, finished, sawError>>

\* onDone of the body, up to its await.
BodyDone ==
  /\ Running /\ body = "open" /\ ~paused
  /\ body' = "done"
  /\ handler' = "waiting"
  /\ UNCHANGED <<closed, pc, handle, trapped, listener, paused, queue,
                 trailers, cleanup, finished, sawError>>

\* The host completes the trailers, at any time: "none" and "fields" are
\* results, "error" an error code, "dropped" means that it has dropped its end.
TrailersResolve(v) ==
  /\ Running /\ trailers = "pending"
  /\ trailers' = v
  /\ handle' = IF v = "fields" THEN [handle EXCEPT !["trailers"] = "held"] ELSE handle
  /\ UNCHANGED <<closed, pc, trapped, stream, finished>>

Reactions == {"go", "pause", "cancel"}

\* What the controller gets when the body's onDone knows the trailers; nothing
\* else closes it.  The variants forget the error, and close before adding it.
Events_NoError == <<"done">>
Events == IF trailers = "error" THEN <<"error", "done">> ELSE <<"done">>

\* The listener gets these events and reacts to an error by r: it goes on to
\* the end, for which onCancel is called first, pauses before it, or cancels.
\* The host has been told before, or is in the step that this is part of.
Deliver(events, r) ==
  LET error == Head(events) = "error" IN
  /\ sawError' = (sawError \/ error)
  /\ \/ /\ r = "go"
        /\ listener' = "closing" /\ queue' = <<>> /\ UNCHANGED paused
        /\ OnCancel
     \/ /\ error /\ r = "cancel"
        /\ listener' = "cancelled" /\ queue' = <<>> /\ UNCHANGED paused
        /\ OnCancel
     \/ /\ error /\ r = "pause"
        /\ paused' = TRUE /\ queue' = Tail(events)
        /\ finished' = TRUE
        /\ UNCHANGED <<listener, body, cleanup>>

\* onDone of the body, from its await: trailers are dropped, an error goes to
\* the listener, and finally the host is told and the controller is closed.
\* The variant has no finally, and a future that was dropped throws.
HandlerResumes_NoFinally(r) ==
  /\ Running /\ handler = "waiting" /\ trailers # "pending"
  /\ handler' = "ran"
  /\ DropTrailers
  /\ IF listener = "listening" /\ ~paused /\ trailers # "dropped"
     THEN Deliver(Events, r)
     ELSE /\ queue' = IF listener = "listening" /\ trailers # "dropped"
                      THEN Events ELSE queue
          /\ finished' = (finished \/ trailers # "dropped")
          /\ UNCHANGED <<body, listener, paused, cleanup, sawError>>
  /\ UNCHANGED <<closed, pc, trailers>>
HandlerResumes(r) ==
  /\ Running /\ handler = "waiting" /\ trailers # "pending"
  /\ handler' = "ran"
  /\ DropTrailers
  /\ IF listener = "listening" /\ ~paused
     THEN Deliver(Events, r)
     ELSE /\ queue' = IF listener = "listening" THEN Events ELSE queue
          /\ finished' = TRUE
          /\ UNCHANGED <<body, listener, paused, cleanup, sawError>>
  /\ UNCHANGED <<closed, pc, trailers>>

\* The controller's microtasks after a resume.
DeliverQueued(r) ==
  /\ Running /\ listener = "listening" /\ ~paused /\ queue # <<>>
  /\ Deliver(queue, r)
  /\ UNCHANGED <<closed, pc, handle, trapped, trailers, handler>>

\* The trailers are there, and onCancel's callback, which registered later than
\* the body's onDone, drops them too.
CleanupResumes ==
  /\ Running /\ cleanup = "waiting" /\ trailers # "pending" /\ handler # "waiting"
  /\ cleanup' = "ran"
  /\ DropTrailers
  /\ UNCHANGED <<closed, pc, body, listener, paused, queue, trailers, handler,
                 finished, sawError>>

\* The future that onCancel returned completes, after its callback on completed
\* trailers, and the listener gets done.
DoneArrives ==
  /\ Running /\ listener = "closing" /\ cleanup # "waiting"
  /\ listener' = "done"
  /\ UNCHANGED <<closed, pc, handle, trapped, body, paused, queue, trailers,
                 handler, cleanup, finished, sawError>>

Host == \E v \in {"none", "fields", "error", "dropped"} : TrailersResolve(v)
Resumes == \/ CleanupResumes
           \/ \E r \in Reactions : HandlerResumes(r) \/ DeliverQueued(r)

Next ==
  \/ Close
  \/ SendRefused \/ SendHeaders \/ SendBadHeader \/ SendRequest \/ SendBadRequest \/ Send
  \/ ClientFails \/ ClientAnswers \/ DropHeaders \/ ConsumeBody
  \/ Listen \/ Pause \/ Resume \/ Cancel \/ CancelClosing
  \/ BodyDone
  \/ Host
  \/ Resumes
  \/ DoneArrives

Spec == Init /\ [][Next]_vars

\* Continuations are microtasks, which the event loop runs, and the host
\* completes the trailers once the body is over ("Once the stream is reported
\* as closed, callers should await the returned future", package.wit).  The listener has to do nothing, not even to listen.
BodyOver == body \in {"done", "cancelled"}
FairSpec ==
  /\ Spec
  /\ WF_vars(Resumes)
  /\ WF_vars(DoneArrives)
  /\ WF_vars(BodyOver /\ Host)

-----------------------------------------------------------------------------
(* Properties.                                                             *)

\* Every variable has a value of its type; what is queued ends with done.
TypeOK ==
  /\ closed \in BOOLEAN /\ trapped \in BOOLEAN /\ paused \in BOOLEAN
  /\ finished \in BOOLEAN /\ sawError \in BOOLEAN
  /\ pc \in {"new",
             "fields", "request",  \* the handle of that name is being filled in
             "sending",            \* send awaits the client
             "response",           \* the response is being taken apart
             "returned", "threw"}
  /\ handle \in [Handles -> {"none", "held", "moved", "dropped"}]
  /\ body \in {"idle", "open"} \cup {"done", "cancelled"}
  /\ listener \in {"none", "listening", "closing", "done", "cancelled"}
  /\ queue \in {<<>>, <<"done">>, <<"error", "done">>}
  /\ trailers \in {"pending", "none", "fields", "error", "dropped"}
  /\ handler \in {"none", "waiting", "ran"}
  /\ cleanup \in {"none", "waiting", "ran"}

\* Wherever send ends, by one of its early returns or with a response, it leaves
\* no handle behind, and neither does a response that was read or cancelled,
\* whichever of its end, its cancellation and its trailers came first.
NothingLeaks ==
  /\ pc \in {"threw", "returned"} =>
       \A h \in Handles : handle[h] = "held" => h = "trailers" /\ pc = "returned"
  /\ listener \in {"done", "cancelled"} /\ handler # "waiting" /\ cleanup # "waiting"
       => handle["trailers"] # "held"

\* The host traps in one case only, the one in which onDone has dropped the
\* trailers and onCancel, called for done or by a listener that cancelled while
\* onDone was waiting, drops them again.
TrapsOnTrailers ==
  trapped => trailers = "fields" /\ handler = "ran" /\ cleanup = "ran"

\* Every handle of a request is dropped or given away, and never twice but for
\* the trailers above.
HandlesEnd == NothingLeaks /\ TrapsOnTrailers

\* The end of a response is reported to either side only when it has come: a
\* listener that sees it has got the whole body, the trailers are known, and if
\* they were an error it was told before; the host is told that the response is
\* done once the body was delivered to the end, or cancelled.
EndIsHonest ==
  /\ listener = "done" => /\ body = "done"
                          /\ trailers # "pending"
                          /\ trailers = "error" => sawError
  /\ finished => BodyOver

\* The host is told, whatever becomes of the trailers and of the listener.
HostIsTold == BodyOver ~> finished

\* A listener that neither pauses nor cancels sees the end of the response; if
\* there are trailers, the trap comes first.
EndArrives ==
  body = "done" ~> listener \in {"done", "cancelled"} \/ paused \/ trapped

\* Both sides learn of the end of a response.
EndsAreSeen == HostIsTold /\ EndArrives
=============================================================================
