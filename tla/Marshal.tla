------------------------------- MODULE Marshal ------------------------------
(***************************************************************************)
(* Calls between a component and its host, running the code that the       *)
(* bindings generator emits: values are lowered into linear memory by one  *)
(* side and lifted by the other, while other calls use the same memory.    *)
(*                                                                         *)
(* A synchronous call is one step, as the component cannot be entered      *)
(* meanwhile.  An asynchronous import runs up to its await; the host reads *)
(* the arguments and writes the result when it likes, and the code after   *)
(* the await runs later.  An asynchronous export lifts its arguments,      *)
(* waits for the implementation, and lowers the result for taskReturn.     *)
(* Futures write a value into a buffer (writeValue) or wait for one to be  *)
(* written there (readFuture) and then free it.                            *)
(***************************************************************************)
EXTENDS Bindings

CONSTANTS
  Functions,   \* names
  Signature,   \* of every function
  Arguments,   \* of every function, a set of argument lists
  Results,     \* of every function, a set of results (<<>> without result)
  Elements,    \* types of futures
  Values,      \* of every type of Elements, a set of values
  MaxCalls     \* bound: the calls of a behaviour

VARIABLES
  program, \* the generated code of every function
  heap,    \* linear memory
  calls    \* of every call, how far it is and what both sides have seen

vars == <<program, heap, calls>>

Calls == 1..MaxCalls
None == [phase |-> "none"]

\* The code of a function, and of its post-return function if it has one.
Compiled(g, post_return) ==
  [definition |-> g.definition, options |-> g.options,
   additional_imports |-> g.additional_imports, post_return |-> post_return]
Compile(f) ==
  Compiled(FunctionCode(f), IF NeedsPostReturn(f) THEN PostReturn(f).definition ELSE <<>>)

Init ==
  /\ program = [f \in Functions |-> Compile(Signature[f])]
  /\ heap = EmptyHeap
  /\ calls = [c \in Calls |-> None]

\* The generated code, up to the call it makes, and after it.
Parts(code, n) ==
  [before |-> SubSeq(code, 1, n - 1), call |-> code[n],
   after |-> SubSeq(code, n + 1, Len(code))]
Split(code, what) ==
  Parts(code, Min({i \in DOMAIN code : code[i].k = "call" /\ code[i].what = what}))

Run(code, env, h) == Exec(code, [env |-> env, heap |-> h, out |-> <<>>])

\* Running code with some parameters, up to the arguments of its call.
AtCall(s, r) == [env |-> s.env, heap |-> r.heap, args |-> r.v]
UpToCall(parts, s) == AtCall(s, EvalAll(parts.call.args, s.env, s.heap))
RunBefore(parts, env, h) ==
  UpToCall(parts, Run(parts.before, env, h))
Parameters(params) ==
  [x \in {Param(i - 1) : i \in DOMAIN params} |-> Set(params[-10 - x + 1])]
Start(code, what, params, h) == RunBefore(Split(code, what), Parameters(params), h)

\* And on from there, with the result of the call.
WithResult(env, call, result) ==
  IF result = <<>> THEN env ELSE Bind(env, call.x, result[1])
RunAfter(parts, env, h, result) ==
  Run(parts.after, WithResult(env, parts.call, result), h)
Continue(code, what, env, h, result) == RunAfter(Split(code, what), env, h, result)

\* Calls are numbered in the order in which they are made.
NextCall(c) == calls[c] = None /\ \A d \in 1..c-1 : calls[d] # None

\* What the host sees of the arguments of an import, how it hands over the
\* result of one, and what it gets as the result of an export.
HostArguments(f, h, args) ==
  IF IndirectParams(f)
  THEN [i \in DOMAIN f.params |->
          HostLoad(f.params[i], h, args[1] + Layout(f.params).offsets[i])]
  ELSE HostLiftAll(f.params, h, args)
HostAnswer(f, h, args, result) ==
  IF IndirectResult(f)
  THEN [v |-> <<>>, heap |-> HostStore(f.result[1], h, Last(args), result[1])]
  ELSE HostLowerAll(f.result, h, result)
HostResult(f, h, vs) ==
  IF IndirectResult(f) THEN <<HostLoad(f.result[1], h, vs[1])>>
  ELSE HostLiftAll(f.result, h, vs)

-----------------------------------------------------------------------------
(* Imports.                                                                *)

CallSync(c, f, args, result) ==
  /\ NextCall(c)
  /\ Signature[f].kind = "import" /\ ~Signature[f].async
  /\ UNCHANGED program
  /\ \E s \in {Start(program[f].definition, "wasm", args, heap)} :
     \E answer \in {HostAnswer(Signature[f], s.heap, s.args, result)} :
     \E t \in {Continue(program[f].definition, "wasm", s.env, answer.heap, answer.v)} :
       /\ heap' = t.heap
       /\ calls' = [calls EXCEPT ![c] =
            [phase |-> "done", f |-> f, args |-> args, result |-> result,
             seen |-> HostArguments(Signature[f], s.heap, s.args), got |-> t.out]]

CallAsync(c, f, args) ==
  /\ NextCall(c)
  /\ Signature[f].kind = "import" /\ Signature[f].async
  /\ UNCHANGED program
  /\ \E s \in {Start(program[f].definition, "subtask", args, heap)} :
       /\ heap' = s.heap
       /\ calls' = [calls EXCEPT ![c] =
            [phase |-> "starting", f |-> f, args |-> args,
             core |-> s.args, env |-> s.env]]

HostReads(c) ==
  /\ calls[c].phase = "starting"
  /\ LET call == calls[c] IN
     calls' = [calls EXCEPT ![c] =
       [phase |-> "started", f |-> call.f, args |-> call.args, core |-> call.core,
        env |-> call.env, seen |-> HostArguments(Signature[call.f], heap, call.core)]]
  /\ UNCHANGED <<program, heap>>

HostReturns(c) ==
  /\ calls[c].phase = "started"
  /\ UNCHANGED program
  /\ \E result \in Results[calls[c].f] :
     LET call == calls[c]
         sig == Signature[call.f]
     IN
     /\ heap' = IF result = <<>> THEN heap
                ELSE HostStore(sig.result[1], heap, Last(call.core), result[1])
     /\ calls' = [calls EXCEPT ![c] =
          [phase |-> "returned", f |-> call.f, args |-> call.args,
           result |-> result, env |-> call.env, seen |-> call.seen]]

Resume(c) ==
  /\ calls[c].phase = "returned"
  /\ UNCHANGED program
  /\ \E call \in {calls[c]} :
     \E t \in {Continue(program[call.f].definition, "subtask", call.env, heap, <<>>)} :
       /\ heap' = t.heap
       /\ calls' = [calls EXCEPT ![c] =
            [phase |-> "done", f |-> call.f, args |-> call.args,
             result |-> call.result, seen |-> call.seen, got |-> t.out]]

-----------------------------------------------------------------------------
(* Exports: the host lowers the arguments, with our allocator.             *)

ExportSync(c, f, args, result) ==
  /\ NextCall(c)
  /\ Signature[f].kind = "export" /\ ~Signature[f].async
  /\ UNCHANGED program
  /\ \E lowered \in {HostLowerAll(Signature[f].params, heap, args)} :
     \E s \in {Start(program[f].definition, "interface", lowered.v, lowered.heap)} :
     \E t \in {Continue(program[f].definition, "interface", s.env, s.heap, result)} :
       /\ heap' = Run(program[f].post_return, Parameters(t.out), t.heap).heap
       /\ calls' = [calls EXCEPT ![c] =
            [phase |-> "done", f |-> f, args |-> args, result |-> result,
             seen |-> s.args, got |-> HostResult(Signature[f], t.heap, t.out)]]

ExportAsync(c, f, args) ==
  /\ NextCall(c)
  /\ Signature[f].kind = "export" /\ Signature[f].async
  /\ UNCHANGED program
  /\ \E lowered \in {HostLowerAll(Signature[f].params, heap, args)} :
     \E s \in {Start(program[f].definition, "interface", lowered.v, lowered.heap)} :
       /\ heap' = s.heap
       /\ calls' = [calls EXCEPT ![c] =
            [phase |-> "running", f |-> f, args |-> args, env |-> s.env, seen |-> s.args]]

\* The code after the call of the implementation, up to taskReturn and after it.
TaskReturn(c) ==
  /\ calls[c].phase = "running"
  /\ UNCHANGED program
  /\ \E call \in {calls[c]} :
     \E result \in Results[call.f] :
     \E rest \in {Split(program[call.f].definition, "interface")} :
     \E lower \in {Split(rest.after, "taskReturn")} :
     \E s \in {RunBefore(lower, WithResult(call.env, rest.call, result), heap)} :
       /\ heap' = RunAfter(lower, s.env, s.heap, <<>>).heap
       /\ calls' = [calls EXCEPT ![c] =
            [phase |-> "done", f |-> call.f, args |-> call.args, result |-> result,
             seen |-> call.seen,
             got |-> HostResult(Signature[call.f], s.heap, s.args)]]

-----------------------------------------------------------------------------
(* The buffers of futures.                                                 *)

WithBuffer(ptr, h) == [env |-> Ptr :> Set(ptr), heap |-> h, out |-> <<>>]
NewBuffer(t) == Run(allocateBuffer(Ptr, t), <<>>, heap)

WriteValue(c, t, value) ==
  /\ NextCall(c)
  /\ UNCHANGED program
  /\ \E a \in {NewBuffer(t)} :
       /\ heap' = Exec(store(t), [a EXCEPT !.env = Bind(@, Value, value)]).heap
       /\ calls' = [calls EXCEPT ![c] =
            [phase |-> "writing", t |-> t, args |-> value, ptr |-> a.env[Ptr].v]]

\* The host has copied the value, or the reader has gone.
Written(c, dropped) ==
  /\ calls[c].phase = "writing"
  /\ UNCHANGED program
  /\ \E call \in {calls[c]} :
       /\ heap' = Exec(freeBuffer(call.t, dropped), WithBuffer(call.ptr, heap)).heap
       /\ calls' = [calls EXCEPT ![c] =
            [phase |-> "written", t |-> call.t, args |-> call.args, dropped |-> dropped,
             seen |-> IF dropped THEN call.args ELSE HostLoad(call.t, heap, call.ptr)]]

ReadFuture(c, t) ==
  /\ NextCall(c)
  /\ UNCHANGED program
  /\ \E a \in {NewBuffer(t)} :
       /\ heap' = a.heap
       /\ calls' = [calls EXCEPT ![c] =
            [phase |-> "reading", t |-> t, ptr |-> a.env[Ptr].v]]

\* The value arrives and is read, or the writer has gone.
ReadBuffer(call, value) ==
  IF value = <<>> THEN WithBuffer(call.ptr, heap)
  ELSE Exec(load(call.t),
            WithBuffer(call.ptr, HostStore(call.t, heap, call.ptr, value[1])))
ReadDone(c) ==
  /\ calls[c].phase = "reading"
  /\ UNCHANGED program
  /\ \E call \in {calls[c]} :
     \E value \in {<<>>} \cup {<<v>> : v \in Values[call.t]} :
     \E s \in {ReadBuffer(call, value)} :
       /\ heap' = Exec(freeBuffer(call.t, FALSE), WithBuffer(call.ptr, s.heap)).heap
       /\ calls' = [calls EXCEPT ![c] =
            [phase |-> "read", t |-> call.t, result |-> value, got |-> s.out]]

Finished == {"done", "written", "read"}
AllDone == (\A c \in Calls : calls[c].phase \in Finished) /\ UNCHANGED vars

Next ==
  \/ \E c \in Calls :
       \/ \E f \in Functions : \E args \in Arguments[f] :
            \/ \E result \in Results[f] : CallSync(c, f, args, result)
            \/ \E result \in Results[f] : ExportSync(c, f, args, result)
            \/ CallAsync(c, f, args)
            \/ ExportAsync(c, f, args)
       \/ HostReads(c)
       \/ HostReturns(c)
       \/ Resume(c)
       \/ TaskReturn(c)
       \/ \E t \in Elements : ReadFuture(c, t)
       \/ \E t \in Elements : \E v \in Values[t] : WriteValue(c, t, v)
       \/ \E dropped \in BOOLEAN : Written(c, dropped)
       \/ ReadDone(c)
  \/ AllDone

Spec == Init /\ [][Next]_vars

-----------------------------------------------------------------------------
(* Properties.                                                             *)

\* What a lifted value is: the halves of flags of two words are exchanged.
AsLifted(t, v) ==
  IF t.k = "flags" /\ t.words = 2 THEN (v % 2^W32) * 2^W32 + v \div 2^W32 ELSE v
AllAsLifted(ts, vs) == [i \in DOMAIN vs |-> AsLifted(ts[i], vs[i])]

\* Values survive the boundary: the callee sees the arguments and the caller
\* gets the result, also when other calls have used the memory meanwhile or
\* the host has read the arguments late; only flags of two words do not, as
\* FlagsLift takes the upper word for the lower one.  (The code units of strings
\* are compared; how the host decodes them is part of OptionsCover.)
ValuesSurvive ==
  \A c \in Calls :
    LET call == calls[c] IN
    /\ {"f", "seen"} \subseteq DOMAIN call =>
         LET sig == Signature[call.f]
         IN  call.seen = IF sig.kind = "import" THEN call.args
                         ELSE AllAsLifted(sig.params, call.args)
    /\ {"f", "got"} \subseteq DOMAIN call =>
         LET sig == Signature[call.f]
         IN  call.got = IF sig.kind = "export" THEN call.result
                        ELSE AllAsLifted(sig.result, call.result)
    /\ call.phase = "written" => call.seen = call.args
    /\ call.phase = "read" => call.got = AllAsLifted(<<call.t>>, call.result)

\* The generated code never frees a block twice or with another layout, never
\* touches memory that is not allocated or not initialized, and never reads
\* a variable before it is assigned, however calls overlap.
NoFaults == heap.faults = {}

\* The blocks that a value occupies in memory, or only those of its lists.
RECURSIVE Blocks(_, _, _)
BlocksOfAll(ts, vs, of) ==
  FoldLeft(LAMBDA n, i : n + Blocks(ts[i], vs[i], of), 0, Indices(ts))
Blocks(t, v, of) ==
  CASE t.k = "string" -> IF "string" \in of /\ v # <<>> THEN 1 ELSE 0
    [] t.k = "list" -> (IF v # <<>> THEN 1 ELSE 0)
                       + BlocksOfAll([i \in DOMAIN v |-> t.of], v, of)
    [] t.k \in Aggregates -> BlocksOfAll(t.fields, v, of)
    [] t.k \in Variants -> BlocksOfAll(t.cases[v[1]], Tail(v), of)
    [] OTHER -> 0

\* What a call that is over leaves allocated for ever.
LeftBy(call) ==
  CASE call.phase = "none" -> 0
    [] call.phase = "written" ->
         IF call.dropped THEN 0 ELSE Blocks(call.t, call.args, {"string", "list"})
    [] call.phase = "read" ->
         BlocksOfAll(IF call.result = <<>> THEN <<>> ELSE <<call.t>>, call.result, {"list"})
    [] OTHER ->
         LET sig == Signature[call.f] IN
         IF sig.kind = "import"
         THEN BlocksOfAll(sig.result, call.result, {"list"})
              + (IF sig.async THEN BlocksOfAll(sig.params, call.args, {"string", "list"})
                              ELSE 0)
         ELSE BlocksOfAll(sig.params, call.args, {"list"})
              + (IF IndirectResult(sig) /\ ~NeedsPostReturn(sig) THEN 1 ELSE 0)

\* All memory is freed when no call is in progress, except for what the code
\* never frees: strings and lists that were given away to asynchronous imports
\* or futures (the host only copies them), lists received from the host
\* (ListLift does not free them), and the areas of exports that have no
\* post-return function, which only synchronous results with strings or lists
\* have.  A value that a future could not deliver is freed.
OnlyKnownLeaks ==
  (\A c \in Calls : calls[c].phase \in Finished \cup {"none"}) =>
    Cardinality(DOMAIN heap.live)
      = FoldLeft(LAMBDA n, c : n + LeftBy(calls[c]), 0, Indices(calls))

\* Values that are passed by address, and strings and lists the host creates.
NeedsMemory(ts) == \E i \in DOMAIN ts : HasMemory(ts[i])
RECURSIVE HasString(_)
HasString(t) ==
  \/ t.k = "string"
  \/ t.k = "list" /\ HasString(t.of)
  \/ t.k \in Aggregates /\ \E f \in ToSet(t.fields) : HasString(f)
  \/ t.k \in Variants /\ \E c \in ToSet(t.cases) : c # <<>> /\ HasString(c[1])
Needed(f) ==
  LET both == f.params \o f.result
      created == IF f.kind = "import" THEN f.result ELSE f.params
  IN  (IF NeedsMemory(both) \/ IndirectParams(f) \/ IndirectResult(f)
       THEN {"memory"} ELSE {})
      \cup (IF \E i \in DOMAIN both : HasString(both[i]) THEN {"strings"} ELSE {})
      \cup (IF NeedsMemory(created) THEN {"realloc"} ELSE {})

\* The canonical options collected while the code is generated cover what the
\* host needs to pass the values of every call that is made.  The options of
\* future.write are not collected: only that strings are UTF-16 is missing there.
OptionsCover ==
  \A c \in Calls :
    /\ "f" \in DOMAIN calls[c] =>
         LET f == calls[c].f
             sig == Signature[f]
         IN  /\ Needed(sig) \subseteq OptionsOf(sig, program[f].options)
             /\ \A i \in DOMAIN program[f].additional_imports :
                  LET import == program[f].additional_imports[i]
                  IN  import.name = "taskReturn" =>
                        Needed([sig EXCEPT !.params = <<>>]) \subseteq import.options
    /\ calls[c].phase \in {"reading", "read"} =>
         Needed([kind |-> "import", async |-> TRUE, params |-> <<>>,
                 result |-> <<calls[c].t>>]) \subseteq ReadOptions(calls[c].t)
    /\ calls[c].phase \in {"writing", "written"} =>
         Needed([kind |-> "import", async |-> TRUE, params |-> <<calls[c].t>>,
                 result |-> <<>>]) \subseteq WriteOptions(calls[c].t) \cup {"strings"}
=============================================================================
