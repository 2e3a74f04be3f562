----------------------------- MODULE FunctionGen ----------------------------
(***************************************************************************)
(* DartFunctionGenerator (functions.rs): the instructions that             *)
(* wit-bindgen-core emits while it lowers or lifts a value, one operator    *)
(* for each, turned into Dart code.                                        *)
(*                                                                         *)
(* A generator g is a record: its operand stack (kept by the core library, *)
(* which pops the operands of an instruction and pushes its results), the  *)
(* code written so far, the cleanup code to be written later, the blocks   *)
(* that are open and finished, the next temporary, the canonical options   *)
(* and the imports its code needs, and the return area of an export.       *)
(***************************************************************************)
EXTENDS DartCode

NewGenerator(mode) ==
  [mode |-> mode, stack |-> <<>>, definition |-> <<>>, cleanup |-> <<>>,
   block_storage |-> <<>>, blocks |-> <<>>, next_temporary |-> 0,
   options |-> {}, additional_imports |-> <<>>, allocated |-> <<>>]

\* What the core library does with the operand stack.
Top(g, n) == SubSeq(g.stack, Len(g.stack) - n + 1, Len(g.stack))
Operand(g) == Last(g.stack)
Pop(g, n) == [g EXCEPT !.stack = SubSeq(@, 1, Len(@) - n)]
Push(g, operands) == [g EXCEPT !.stack = @ \o operands]
Replace(g, n, operands) == Push(Pop(g, n), operands)

Fresh(g, n) == [g EXCEPT !.next_temporary = @ + n]
Emit(g, code) == [g EXCEPT !.definition = @ \o code]
Later(g, code) == [g EXCEPT !.cleanup = @ \o code]
Uses(g, options) == [g EXCEPT !.options = @ \cup options]

write_cleanup(g) == [Emit(g, g.cleanup) EXCEPT !.cleanup = <<>>]

\* A temporary for the value of an expression, in place of n operands.
Name(g, n, e) ==
  LET t == g.next_temporary
  IN  Replace(Emit(Fresh(g, 1), <<Let(t, e)>>), n, <<Var(t)>>)

-----------------------------------------------------------------------------
(* Blocks: the code of a case or of a list's element.                      *)

push_block(g) ==
  [g EXCEPT !.block_storage =
              Append(@, [code |-> g.definition, cleanup |-> g.cleanup]),
            !.definition = <<>>, !.cleanup = <<>>]

finish_block(g, n) ==
  LET saved == Last(g.block_storage)
      block == [code |-> g.definition, operands |-> Top(g, n),
                cleanup |-> g.cleanup]
  IN  [Pop(g, n) EXCEPT !.block_storage = Front(@),
         !.definition = saved.code, !.cleanup = saved.cleanup,
         !.blocks = Append(@, block)]

LastBlocks(g, n) == SubSeq(g.blocks, Len(g.blocks) - n + 1, Len(g.blocks))
DropBlocks(g, n) == [g EXCEPT !.blocks = SubSeq(@, 1, Len(@) - n)]

-----------------------------------------------------------------------------
(* Calls and results.                                                      *)

GetArg(g, nth) == Push(g, <<Var(Param(nth))>>)

CallWith(g, what, n, has_result) ==
  LET t == g.next_temporary
      g1 == Pop(Emit(g, <<CallOf(what, t, Top(g, n))>>), n)
  IN  IF has_result THEN Push(Fresh(g1, 1), <<Var(t)>>) ELSE g1

CallWasm(g, n, has_result) == CallWith(g, "wasm", n, has_result)
CallInterface(g, n, has_result) == CallWith(g, "interface", n, has_result)

Return(g, amt) ==
  LET g1 == IF g.mode = "imported" THEN write_cleanup(g) ELSE g
  IN  IF amt = 0 THEN g1 ELSE Emit(Pop(g1, 1), <<ReturnExpr(Operand(g1))>>)

\* taskReturn is imported with the options that are known by now.
AsyncTaskReturn(g, n) ==
  LET args == Top(g, n) IN
  IF g.mode # "exported" THEN Pop(g, n)
  ELSE write_cleanup(Emit(
         [Pop(g, n) EXCEPT !.additional_imports =
            Append(@, [name |-> "taskReturn", options |-> g.options])],
         <<CallOf("taskReturn", 0, args)>>))

\* The area of an export is freed by its post-return function, if it has one.
return_pointer_Swapped(g, size, align) ==
  LET t == g.next_temporary
      g1 == Push(Emit(Fresh(g, 1), <<Alloc(t, align, Const(size))>>), <<Var(t)>>)
  IN  IF g.mode = "exported" THEN [g1 EXCEPT !.allocated = <<size, align>>]
      ELSE Later(g1, <<Free(Var(t), Const(align), size)>>)
return_pointer(g, size, align) ==
  LET t == g.next_temporary
      g1 == Push(Emit(Fresh(g, 1), <<Alloc(t, align, Const(size))>>), <<Var(t)>>)
  IN  IF g.mode = "exported" THEN [g1 EXCEPT !.allocated = <<size, align>>]
      ELSE Later(g1, <<Free(Var(t), Const(size), align)>>)

\* Every resource that is received as owned needs its drop function, once.
drop_function(g, id) ==
  LET import == [name |-> <<"drop", id>>, options |-> {}]
  IN  [g EXCEPT !.additional_imports =
         IF import \in ToSet(@) THEN @ ELSE Append(@, import)]

-----------------------------------------------------------------------------
(* Numbers, flags, enums, handles, streams and futures.                    *)

FromDart(k) ==
  CASE k = "bool" -> "fromBool"
    [] k = "s8" -> "int8FromInt"   [] k = "u8" -> "uint8FromInt"
    [] k = "s16" -> "int16FromInt" [] k = "u16" -> "uint16FromInt"
    [] k \in {"s32", "u32", "char"} -> "WasmI32.fromInt"
    [] k \in {"s64", "u64"} -> "WasmI64.fromInt"
ToDart(k) ==
  CASE k = "bool" -> "toBool"
    [] k \in {"s8", "s16", "s32"} -> "toIntSigned"
    [] k \in {"u8", "u16", "u32", "char"} -> "toIntUnsigned"
    [] k \in {"s64", "u64"} -> "I64.toInt"

NumberLower(g, k) == Replace(g, 1, <<Conv(FromDart(k), Operand(g))>>)
NumberLift(g, k) == Replace(g, 1, <<Conv(ToDart(k), Operand(g))>>)

apply_bitcast(operand, cast) ==
  CASE cast = <<"i64", "i32">> ->
         Conv("WasmI32.fromInt", Conv("I64.toInt", operand))
    [] cast = <<"i32", "i64">> ->
         Conv("WasmI64.fromInt", Conv("toIntUnsigned", operand))
    [] OTHER -> operand

Bitcasts(g, casts) ==
  LET operands == Top(g, Len(casts))
  IN  Replace(g, Len(casts),
              [i \in DOMAIN casts |-> apply_bitcast(operands[i], casts[i])])

I32Const(g, n) == Push(g, <<Const(n)>>)
ConstZero(g, n) == Push(g, [i \in 1..n |-> Const(0)])

EnumLower(g) == Replace(g, 1, <<Conv("WasmI32.fromInt", Operand(g))>>)
EnumLift(g) == Replace(g, 1, <<Conv("toIntUnsigned", Operand(g))>>)

\* The word that is popped first was pushed last.
FlagsLift(g, words) ==
  IF words = 2
  THEN LET lower_bytes == Top(g, 2)[2]
           upper_bytes == Top(g, 2)[1]
       IN  Name(g, 2, Words(lower_bytes, upper_bytes))
  ELSE Name(g, 1, Conv("toIntUnsigned", Operand(g)))

FlagsLower(g, words) ==
  LET flag_instance == Operand(g)
      lower == Conv("WasmI32.fromInt", flag_instance)
      upper == Conv("WasmI32.fromInt", Conv(">>> 32", flag_instance))
  IN  Replace(g, 1, IF words = 2 THEN <<lower, upper>> ELSE <<lower>>)

HandleLower(g) == Replace(g, 1, <<Conv("WasmI32.fromInt", Operand(g))>>)
HandleLift(g, t) ==
  LET g1 == Name(g, 1, Conv("toIntUnsigned", Operand(g)))
  IN  IF t.k = "own" THEN drop_function(g1, t.id) ELSE g1

StreamLower(g) == Name(g, 1, Conv("WasmI32.fromInt", Operand(g)))
FutureLower(g) == Name(g, 1, Conv("WasmI32.fromInt", Operand(g)))
StreamLift(g) == Name(g, 1, Conv("toIntUnsigned", Operand(g)))
FutureLift(g) == Name(g, 1, Conv("toIntUnsigned", Operand(g)))

-----------------------------------------------------------------------------
(* Memory, strings and lists.                                              *)

mem_store(g, w, offset) ==
  LET ptr == Top(g, 2)[2]
      value == Top(g, 2)[1]
  IN  Uses(Emit(Pop(g, 2), <<StoreAt(w, ptr, value, offset)>>), {"memory"})

mem_load(g, w, signed, offset) ==
  LET t == g.next_temporary
  IN  Replace(Uses(Emit(Fresh(g, 1),
                        <<LoadAt(w, t, Operand(g), signed, offset)>>), {"memory"}),
              1, <<Var(t)>>)

StringLower_NoCleanup(g, realloc) ==
  LET t == g.next_temporary
      g1 == Emit(Fresh(g, 1), <<AllocStr(t, Operand(g))>>)
  IN  Replace(Uses(g1, {"memory", "strings"}), 1,
              <<Field(Var(t), 1), Field(Var(t), 2)>>)
StringLower(g, realloc) ==
  LET t == g.next_temporary
      g1 == Emit(Fresh(g, 1), <<AllocStr(t, Operand(g))>>)
      g2 == IF realloc = "none"
            THEN Later(g1, <<FreeStr(Field(Var(t), 1), Field(Var(t), 2))>>)
            ELSE g1
  IN  Replace(Uses(g2, {"memory", "strings"}), 1,
              <<Field(Var(t), 1), Field(Var(t), 2)>>)

\* Only an expression: the string is read, and freed, where it is used.
StringLift_NoRealloc(g) ==
  Uses(Replace(g, 2, <<ReadStr(Top(g, 2)[1], Top(g, 2)[2])>>),
       {"memory", "strings"})
StringLift(g) ==
  Uses(Replace(g, 2, <<ReadStr(Top(g, 2)[1], Top(g, 2)[2])>>),
       {"memory", "strings", "realloc"})

GuestDeallocateString(g) ==
  Emit(Pop(g, 2), <<FreeStr(Top(g, 2)[1], Top(g, 2)[2])>>)

IterElem(g) == Push(g, <<Var(Element)>>)
IterBasePointer(g) == Push(g, <<Var(ElementPtr)>>)

\* The functions to call later, when some block has cleanup code.
HasCleanup(blocks) == \E i \in DOMAIN blocks : blocks[i].cleanup # <<>>
WithCleanups(g, blocks, var) ==
  IF HasCleanup(blocks)
  THEN Later(Emit(g, <<NewCleanups(var)>>), <<RunCleanups(var)>>) ELSE g
Deferred(block, var) ==
  IF block.cleanup = <<>> THEN <<>> ELSE <<Defer(var, block.cleanup)>>

ListLower(g, size, align, realloc) ==
  LET list == Operand(g)
      block == Last(g.blocks)
      n == g.next_temporary
      total_length == n
      ptr == n + 1
      base_ptr == n + 2
      var == n + 3
      g1 == WithCleanups(DropBlocks(Fresh(Pop(g, 1), 4), 1), <<block>>, var)
      g2 == Emit(g1,
        <<Let(total_length, Conv("WasmI32.fromInt", Times(LengthOf(list), size))),
          Alloc(ptr, align, Var(total_length)),
          Let(base_ptr, Var(ptr)),
          ForEach(list,
            <<Let(ElementPtr, Var(base_ptr))>> \o block.code
            \o <<Assign(base_ptr, Plus(Var(base_ptr), Const(size)))>>
            \o Deferred(block, var))>>)
      g3 == IF realloc = "none"
            THEN Later(g2, <<Free(Var(ptr), Var(total_length), align)>>) ELSE g2
  IN  Push(Uses(g3, {"memory", "realloc"}),
           <<Var(ptr), Conv("WasmI32.fromInt", LengthOf(list))>>)

ListLift(g, size) ==
  LET block == Last(g.blocks)
      start_ptr == g.next_temporary
      list == start_ptr + 1
      element_ptr == Plus(Var(start_ptr), Times(Var(Index), size))
      code == <<Let(start_ptr, Top(g, 2)[1]),
                Generate(list, Top(g, 2)[2],
                         <<Let(ElementPtr, Conv("WasmI32.fromInt", element_ptr))>>
                         \o block.code \o block.cleanup,
                         Last(block.operands))>>
  IN  Uses(Replace(Emit(DropBlocks(Fresh(g, 2), 1), code), 2, <<Var(list)>>),
           {"memory", "realloc"})

-----------------------------------------------------------------------------
(* Records, tuples, options, results and variants.                         *)

RecordLower(g, n) ==
  Replace(g, 1, [i \in 1..n |-> Field(Operand(g), i)])
RecordLift(g, n) == Name(g, n, TupleOfExprs(Top(g, n)))
TupleLower(g, n) == RecordLower(g, n)
TupleLift(g, n) == RecordLift(g, n)

VariantPayloadName(g) == Push(g, <<Var(Value)>>)

\* The code of one case: it assigns the results and defers its cleanup.
LowerCase(block, results, var) ==
  block.code
  \o [i \in 1..Min({Len(block.operands), Len(results)}) |->
        Assign(results[i], block.operands[i])]
  \o Deferred(block, var)

VariantLower(g, cases, results) ==
  LET blocks == LastBlocks(g, cases)
      n == g.next_temporary
      names == [i \in 1..results |-> n + i - 1]
      var == n + results
      g1 == Emit(DropBlocks(Fresh(Pop(g, 1), results + 1), cases),
                 [i \in 1..results |-> Declare(names[i])])
      g2 == WithCleanups(g1, blocks, var)
  IN  Push(Emit(g2, <<SwitchValue(Operand(g),
                        [i \in 1..cases |-> LowerCase(blocks[i], names, var)])>>),
           [i \in 1..results |-> Var(names[i])])
ResultLower(g, results) == VariantLower(g, 2, results)
OptionLower(g, results) ==
  LET t == g.next_temporary
      g1 == Emit(Fresh(g, 1), <<Let(t, Operand(g))>>)
  IN  VariantLower(Replace(g1, 1, <<Var(t)>>), 2, results)

\* The code of the case that a number selects assigns the result.
LiftCases(g, n, discriminant) ==
  LET blocks == LastBlocks(g, n)
      t == g.next_temporary
      case(i) == blocks[i].code
                 \o <<Assign(t, Construct(i, blocks[i].operands))>>
                 \o blocks[i].cleanup
  IN  Replace(Emit(DropBlocks(Fresh(g, 1), n),
                   <<Declare(t), SwitchInt(discriminant, [i \in 1..n |-> case(i)])>>),
              1, <<Var(t)>>)
VariantLift(g, cases) == LiftCases(g, cases, Conv("toIntUnsigned", Operand(g)))
OptionLift(g) == LiftCases(g, 2, Conv("toBool", Operand(g)))
ResultLift(g) == LiftCases(g, 2, Conv("toBool", Operand(g)))

GuestDeallocateVariant(g, n) ==
  LET blocks == LastBlocks(g, n)
  IN  Emit(DropBlocks(Pop(g, 1), n),
           <<SwitchInt(Operand(g),
                       [i \in 1..n |-> blocks[i].code \o blocks[i].cleanup])>>)
=============================================================================
