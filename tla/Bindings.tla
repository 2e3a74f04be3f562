------------------------------ MODULE Bindings ------------------------------
(***************************************************************************)
(* The code generated for one function or for the element type of a        *)
(* future: call of wit-bindgen-core with a DartFunctionGenerator,          *)
(* call_async_import, post_return, and the buffers of future vtables.      *)
(*                                                                         *)
(* A function f has a kind ("import", "export"), a flag async, a sequence  *)
(* params of types, and a result of zero or one type.                      *)
(***************************************************************************)
EXTENDS CanonicalAbi

CONSTANTS
  MaxFlatParams,       \* more core parameters are passed in memory
  MaxFlatAsyncParams   \* the same for asynchronous imports

ASSUME FlatAssumption ==
  {MaxFlatParams, MaxFlatAsyncParams} \subseteq Nat \ {0}

Record(ts) == [k |-> "record", fields |-> ts]

IndirectParams(f) ==
  Len(FlatAll(f.params)) >
    (IF f.kind = "import" /\ f.async THEN MaxFlatAsyncParams ELSE MaxFlatParams)
IndirectResult(f) == Len(FlatAll(f.result)) > (IF f.async THEN MaxFlatParams ELSE 1)
NeedsPostReturn(f) ==
  /\ f.kind = "export" /\ ~f.async
  /\ f.result # <<>> /\ HasMemory(f.result[1])

AreaOf(g, t) == return_pointer(g, SizeOf(t), AlignOf(t))
ReturnOperand(g) == Emit(Pop(g, 1), <<ReturnExpr(Operand(g))>>)

-----------------------------------------------------------------------------
(* Imports.                                                                *)

WriteParams(g, f, area, offsets) ==
  FoldLeft(LAMBDA h, i : Write(Push(h, <<Var(Param(i - 1))>>), f.params[i],
                               area, offsets[i], "none"),
           g, Indices(f.params))
SyncParams(g, f) ==
  IF IndirectParams(f) THEN WriteParams(g, f, Operand(g), Layout(f.params).offsets)
  ELSE FoldLeft(LAMBDA h, i : Lower(GetArg(h, i - 1), f.params[i], "none"),
                g, Indices(f.params))

\* Every operand is passed, the return pointer being the last one.
SyncCall(g, f) ==
  IF IndirectResult(f)
  THEN Read(CallWasm(g, Len(g.stack), FALSE), f.result[1], Operand(g), 0)
  ELSE FoldLeft(Lift, CallWasm(g, Len(g.stack), f.result # <<>>), f.result)

call_import(g, f) ==
  LET params == SyncParams(IF IndirectParams(f) THEN AreaOf(g, Record(f.params)) ELSE g, f)
  IN  Return(SyncCall(IF IndirectResult(f) THEN AreaOf(params, f.result[1]) ELSE params, f),
             Len(f.result))

\* The parameters are allocated as a single record if there are many.
AllocateParams(g, t, record) ==
  Later(Emit(Fresh(g, 1), <<Alloc(t, AlignOf(record), Const(SizeOf(record)))>>),
        <<Free(Var(t), Const(SizeOf(record)), AlignOf(record))>>)
StoreParams(g, t, f, offsets) ==
  Push(FoldLeft(LAMBDA h, i : Write(GetArg(h, i - 1), f.params[i],
                                    Plus(Var(t), Const(offsets[i])), 0, "some"),
                g, Indices(f.params)), <<Var(t)>>)
AsyncParams(g, f) ==
  IF IndirectParams(f)
  THEN StoreParams(AllocateParams(g, g.next_temporary, Record(f.params)),
                   g.next_temporary, f, Layout(f.params).offsets)
  ELSE FoldLeft(LAMBDA h, i : Lower(GetArg(h, i - 1), f.params[i], "some"),
                g, Indices(f.params))

AwaitSubtask(g) ==
  [Emit(g, <<CallOf("subtask", 0, g.stack)>>) EXCEPT !.stack = <<>>]

\* The areas are freed when the result was read from behind the return pointer.
AwaitResult_EarlyCleanup(g, f) ==
  Read(AwaitSubtask(write_cleanup(g)), f.result[1], Operand(g), 0)
AwaitResult(g, f) ==
  write_cleanup(Read(AwaitSubtask(g), f.result[1], Operand(g), 0))

call_async_import(g, f) ==
  IF f.result = <<>> THEN AwaitSubtask(AsyncParams(g, f))
  ELSE ReturnOperand(AwaitResult(AreaOf(AsyncParams(g, f), f.result[1]), f))

\* import_interface, for one function.
ImportedFunction(f) ==
  write_cleanup(IF f.async THEN call_async_import(NewGenerator("imported"), f)
                           ELSE call_import(NewGenerator("imported"), f))

-----------------------------------------------------------------------------
(* Exports.  Their parameters never are in memory: freeing these is not    *)
(* implemented by the generator, which panics.                             *)

LiftParams(g, f) ==
  LET before(i) == Len(FlatAll(SubSeq(f.params, 1, i - 1)))
      inputs(h, i) == FoldLeft(LAMBDA m, j : GetArg(m, before(i) + j - 1), h,
                               Indices(Flat(f.params[i])))
  IN  FoldLeft(LAMBDA h, i : Lift(inputs(h, i), f.params[i]), g, Indices(f.params))

\* A value is written behind a return pointer, which then is the operand.
WriteToArea(g, t, value, realloc) ==
  Push(Write(Push(Pop(g, 1), value), t, Operand(g), 0, realloc), <<Operand(g)>>)
LowerResult(g, f, realloc) ==
  IF IndirectResult(f)
  THEN WriteToArea(AreaOf(Pop(g, 1), f.result[1]), f.result[1], Top(g, 1), realloc)
  ELSE FoldLeft(LAMBDA h, t : Lower(h, t, realloc), g, f.result)

call_export(g, f) ==
  LET called == CallInterface(LiftParams(g, f), Len(f.params), f.result # <<>>)
      outputs == IF IndirectResult(f) THEN 1 ELSE Len(FlatAll(f.result))
  IN  IF f.async THEN AsyncTaskReturn(LowerResult(called, f, "none"), outputs)
      ELSE Return(LowerResult(called, f, "some"), outputs)

\* finish, for one function.
ExportedFunction(f) == call_export(NewGenerator("exported"), f)

\* The post-return function: what the result owns, then its area.
FreeResult(g, t) == Deallocate(Pop(g, 1), t, Operand(g), 0)
FreeArea(area) ==
  IF area = <<>> THEN <<>> ELSE <<Free(Var(Param(0)), Const(area[1]), area[2])>>
PostReturn(f) ==
  Emit(Return(FreeResult(GetArg(NewGenerator("postreturn"), 0), f.result[1]), 0),
       FreeArea(ExportedFunction(f).allocated))

FunctionCode(f) == IF f.kind = "import" THEN ImportedFunction(f) ELSE ExportedFunction(f)

\* Canonical options of the function itself: those that its code collected, and
\* those that follow from what it is.
OptionsOf(f, collected) ==
  collected
  \cup (IF f.async THEN {"async"} ELSE {})
  \cup (IF f.async /\ f.kind = "export" THEN {"callback"} ELSE {})
  \cup (IF NeedsPostReturn(f) THEN {"post-return"} ELSE {})

-----------------------------------------------------------------------------
(* The vtable of a future of elements of type t: one buffer.               *)

allocateBuffer(x, t) == <<Alloc(x, AlignOf(t), Const(SizeOf(t)))>>
store(t) ==
  Write(Push(NewGenerator("standalone"), <<Var(Value)>>), t, Var(Ptr), 0, "some").definition
load(t) ==
  ReturnOperand(Read(NewGenerator("standalone"), t, Var(Ptr), 0)).definition
\* The canonical options of its two built-ins: those of the lowering code are
\* not collected.
WriteOptions(t) == {"async", "memory"}
ReadOptions(t) ==
  Read(NewGenerator("standalone"), t, Var(Ptr), 0).options \cup {"async"}

freeBuffer(t, containsValue) ==
  (IF containsValue THEN Deallocate(NewGenerator("standalone"), t, Var(Ptr), 0).definition
                    ELSE <<>>)
  \o <<Free(Var(Ptr), Const(SizeOf(t)), AlignOf(t))>>
=============================================================================
