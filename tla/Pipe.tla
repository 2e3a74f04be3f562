-------------------------------- MODULE Pipe --------------------------------
(***************************************************************************)
(* What a component-model stream promises to Dart code at either end: the  *)
(* elements that were put in come out in order, each once and in chunks,   *)
(* and the end is seen after all of them.  The element put in as the i-th  *)
(* one is i.  StreamSink and StreamRead implement this specification.      *)
(***************************************************************************)
EXTENDS Naturals, Sequences

CONSTANT MaxElements   \* bound: elements put into the pipe

VARIABLES
  put,      \* number of elements that entered the pipe
  got,      \* elements that came out of it
  closed    \* "no", "ended" (the end was seen), "cut" (given up by one end)

vars == <<put, got, closed>>

Init == put = 0 /\ got = <<>> /\ closed = "no"

Put == \E n \in 1 .. MaxElements :
  /\ put + n <= MaxElements
  /\ put' = put + n
  /\ UNCHANGED <<got, closed>>

\* A chunk comes out: the next n of the elements that are inside.
Get == \E n \in 1 .. MaxElements :
  /\ closed = "no"
  /\ Len(got) + n <= put
  /\ got' = got \o [i \in 1 .. n |-> Len(got) + i]
  /\ UNCHANGED <<put, closed>>

End ==
  /\ closed = "no"
  /\ Len(got) = put
  /\ closed' = "ended"
  /\ UNCHANGED <<put, got>>

Cut ==
  /\ closed = "no"
  /\ closed' = "cut"
  /\ UNCHANGED <<put, got>>

\* Putting an element in and taking a chunk out may be one step, and so may
\* taking the last chunk and giving the pipe up or seeing its end.
PutGet == \E n, m \in 0 .. MaxElements :
  /\ closed = "no"
  /\ put + n <= MaxElements
  /\ Len(got) + m <= put + n
  /\ put' = put + n
  /\ got' = got \o [i \in 1 .. m |-> Len(got) + i]
  /\ closed' \in {"no", "cut"} \cup (IF Len(got) + m = put + n THEN {"ended"} ELSE {})

Next == Put \/ Get \/ End \/ Cut \/ PutGet

Spec == Init /\ [][Next]_vars
=============================================================================
