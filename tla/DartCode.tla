------------------------------ MODULE DartCode ------------------------------
(***************************************************************************)
(* The Dart code that the bindings generator emits, and what running it    *)
(* does to linear memory.                                                  *)
(*                                                                         *)
(* Code is a sequence of statements; a statement and an expression are     *)
(* records whose field k names their form.  Variables are numbers: those   *)
(* from 0 are the generator's tmpN, the negative ones are names that the   *)
(* templates bind themselves and that nested templates bind again.         *)
(*                                                                         *)
(* Memory keeps one cell per stored value.  A block of the allocator is    *)
(* BlockBytes long, so that the block of an address is known, and the      *)
(* lowest free block is handed out first, so that memory is reused early.  *)
(***************************************************************************)
EXTENDS Integers, Sequences, SequencesExt

CONSTANTS
  W8, W16, W32,  \* widths of the integers, in bits (scaled down)
  BlockBytes,    \* bound: the size of the largest allocation
  MaxBlocks      \* bound: the blocks of memory

ASSUME WidthsAssumption ==
  /\ {W8, W16, W32, BlockBytes, MaxBlocks} \subseteq Nat \ {0}
  /\ W8 < W16 /\ W16 < W32

Bits == [i8 |-> W8, i16 |-> W16, i32 |-> W32, i64 |-> 2 * W32]
Signed(n, bits) == IF n >= 2^(bits - 1) THEN n - 2^bits ELSE n

\* Names bound by the templates, and the parameters p0, p1, ... of functions.
Value == -1
Element == -2
ElementPtr == -3
Index == -4
Ptr == -5
Param(n) == -10 - n

-----------------------------------------------------------------------------
(* Linear memory and the allocator.                                        *)

EmptyHeap == [live |-> <<>>, cells |-> <<>>, faults |-> {}]

Fault(h, what) == [h EXCEPT !.faults = @ \cup {what}]

BlockOf(addr) == addr \div BlockBytes

Without(f, S) == Restrict(f, DOMAIN f \ S)

\* dart_realloc for a new block (mallocAligned): an empty allocation gets the
\* alignment as its address.
DartRealloc(h, align, size) ==
  LET unused == {n \in 1..MaxBlocks : n \notin DOMAIN h.live}
      b == Min(unused)
  IN  IF size = 0 THEN [ptr |-> align, heap |-> h]
      ELSE IF unused = {} \/ size > BlockBytes
      THEN [ptr |-> 0, heap |-> Fault(h, "unreachable")]
      ELSE [ptr |-> b * BlockBytes,
            heap |-> [h EXCEPT !.live =
                        @ @@ (b :> [size |-> size, align |-> align])]]

\* dart_free: the layout must be the one the block was allocated with, and
\* freeing nothing does nothing.
DartFree(h, ptr, size, align) ==
  LET b == BlockOf(ptr) IN
  IF size = 0 THEN h
  ELSE IF b \in DOMAIN h.live /\ ptr = b * BlockBytes
          /\ h.live[b] = [size |-> size, align |-> align]
  THEN [h EXCEPT !.live = Without(@, {b}),
                 !.cells = Without(@, {a \in DOMAIN @ : BlockOf(a) = b})]
  ELSE Fault(h, "free")

Store(h, w, addr, v) ==
  LET b == BlockOf(addr) IN
  IF b \in DOMAIN h.live /\ addr - b * BlockBytes < h.live[b].size
  THEN [h EXCEPT !.cells = (addr :> [w |-> w, v |-> v % 2^Bits[w]]) @@ @]
  ELSE Fault(h, "store")

Readable(h, w, addr) == addr \in DOMAIN h.cells /\ h.cells[addr].w = w
CellAt(h, w, addr) == IF Readable(h, w, addr) THEN h.cells[addr].v ELSE 0
Touch(h, w, addr) == IF Readable(h, w, addr) THEN h ELSE Fault(h, "load")

\* AllocatedString: two bytes for every UTF-16 code unit.  read also frees
\* the memory of the string.
AllocateUtf16(h, string) ==
  LET a == DartRealloc(h, 2, 2 * Len(string))
  IN  [ptr |-> a.ptr,
       heap |-> FoldLeft(LAMBDA m, i :
                           Store(m, "i16", a.ptr + 2 * (i - 1), string[i]),
                         a.heap, [i \in 1..Len(string) |-> i])]

FreeString(h, ptr, length) == DartFree(h, ptr, 2 * length, 2)

\* bound: no more is read than fits into a block.
Bounded(n) == Min({n, BlockBytes})

ReadString(h, ptr, length) ==
  LET at == [i \in 1..Bounded(length) |-> ptr + 2 * (i - 1)]
  IN  [v |-> [i \in DOMAIN at |-> CellAt(h, "i16", at[i])],
       heap |-> FreeString(FoldLeft(LAMBDA m, a : Touch(m, "i16", a), h, at),
                           ptr, length)]

-----------------------------------------------------------------------------
(* Expressions.                                                            *)

\* A sequence, in the form in which TLC evaluates its elements once.
Listed(s) == <<>> \o s

Var(x) == [k |-> "var", x |-> x]
Const(n) == [k |-> "const", v |-> n]
Conv(f, e) == [k |-> "conv", f |-> f, e |-> e]
Field(e, i) == [k |-> "field", e |-> e, i |-> i]
Construct(case, es) == [k |-> "case", case |-> case, es |-> Listed(es)]
TupleOfExprs(es) == [k |-> "tuple", es |-> Listed(es)]
LengthOf(e) == [k |-> "length", e |-> e]
Plus(e, f) == [k |-> "plus", e |-> e, f |-> f]
Times(e, n) == [k |-> "times", e |-> e, n |-> n]
Words(lower, upper) == [k |-> "words", lower |-> lower, upper |-> upper]
ReadStr(p, n) == [k |-> "readstr", p |-> p, n |-> n]

\* The conversions of dart:_wasm between Dart integers and core values.
Convert(f, n) ==
  CASE f = "WasmI32.fromInt" -> n % 2^W32
    [] f = "int8FromInt" -> Signed(n % 2^W8, W8) % 2^W32
    [] f = "uint8FromInt" -> n % 2^W8
    [] f = "int16FromInt" -> Signed(n % 2^W16, W16) % 2^W32
    [] f = "uint16FromInt" -> n % 2^W16
    [] f = "toIntSigned" -> Signed(n, W32)
    [] f = "toIntUnsigned" -> n
    [] f = "WasmI64.fromInt" -> n % 2^(2 * W32)
    [] f = "I64.toInt" -> Signed(n, 2 * W32)
    [] f = "fromBool" -> n
    [] f = "toBool" -> IF n = 0 THEN 0 ELSE 1
    [] f = ">>> 32" -> (n % 2^(2 * W32)) \div 2^W32

\* A variable holds a value once it is assigned.  An expression is evaluated
\* where it is used: reading a string there frees it.
Unset == [set |-> FALSE, v |-> 0]
Set(v) == [set |-> TRUE, v |-> v]

\* What an expression makes of the values r.v of its operands.
Operands(e) ==
  CASE e.k = "words" -> <<e.lower, e.upper>>
    [] e.k = "plus" -> <<e.e, e.f>>
    [] e.k = "readstr" -> <<e.p, e.n>>
    [] e.k \in {"case", "tuple"} -> e.es
    [] OTHER -> <<e.e>>
Combine(e, r) ==
  CASE e.k = "readstr" -> ReadString(r.heap, r.v[1], r.v[2])
    [] e.k = "case" -> [r EXCEPT !.v = <<e.case>> \o @]
    [] e.k = "tuple" -> r
    [] OTHER ->
         [r EXCEPT !.v = CASE e.k = "plus" -> @[1] + @[2]
                           [] e.k = "words" -> @[1] + @[2] * 2^W32
                           [] e.k = "conv" -> Convert(e.f, @[1])
                           [] e.k = "field" -> @[1][e.i]
                           [] e.k = "length" -> Len(@[1])
                           [] e.k = "times" -> @[1] * e.n]

RECURSIVE Eval(_, _, _), EvalAll(_, _, _)
AndRest(s, r) == [v |-> <<s.v>> \o r.v, heap |-> r.heap]
EvalRest(es, env, s) == AndRest(s, EvalAll(es, env, s.heap))
EvalAll(es, env, h) ==
  IF es = <<>> THEN [v |-> <<>>, heap |-> h]
  ELSE EvalRest(Tail(es), env, Eval(Head(es), env, h))
Eval(e, env, h) ==
  IF e.k = "const" THEN [v |-> e.v, heap |-> h]
  ELSE IF e.k # "var" THEN Combine(e, EvalAll(Operands(e), env, h))
  ELSE IF e.x \in DOMAIN env /\ env[e.x].set THEN [v |-> env[e.x].v, heap |-> h]
  ELSE [v |-> 0, heap |-> Fault(h, "undefined variable")]

-----------------------------------------------------------------------------
(* Statements.                                                             *)

Let(x, e) == [k |-> "let", x |-> x, e |-> e]
Assign(x, e) == Let(x, e)
Declare(x) == [k |-> "declare", x |-> x]
Alloc(x, align, size) == [k |-> "alloc", x |-> x, align |-> align, e |-> size]
AllocStr(x, e) == [k |-> "allocstr", x |-> x, e |-> e]
FreeStr(p, n) == [k |-> "freestr", p |-> p, n |-> n]
Free(p, size, align) == [k |-> "free", p |-> p, n |-> size, align |-> align]
StoreAt(w, ptr, e, offset) ==
  [k |-> "store", w |-> w, p |-> ptr, n |-> e, offset |-> offset]
LoadAt(w, x, ptr, signed, offset) ==
  [k |-> "load", w |-> w, x |-> x, e |-> ptr, signed |-> signed, offset |-> offset]
ForEach(list, body) == [k |-> "foreach", e |-> list, body |-> body]
Collect(x, e) == [k |-> "collect", x |-> x, e |-> e]
Generate(x, n, body, value) ==
  [k |-> "generate", x |-> x, e |-> n, body |-> body \o <<Collect(x, value)>>]
SwitchValue(e, cases) ==
  [k |-> "switchvalue", e |-> e, cases |-> Listed(cases)]
SwitchInt(e, cases) ==
  [k |-> "switchint", e |-> e, cases |-> Listed(cases)]
NewCleanups(x) == [k |-> "let", x |-> x, e |-> Const(<<>>)]
Defer(x, body) == [k |-> "defer", x |-> x, body |-> body]
RunCleanups(x) == [k |-> "run", x |-> x]
CallOf(what, x, args) == [k |-> "call", what |-> what, x |-> x, args |-> args]
ReturnExpr(e) == [k |-> "return", e |-> e]

Bind(env, x, v) == (x :> Set(v)) @@ env

Block(code, names) == [code |-> code, env |-> names, closure |-> FALSE]
Closure(code, env) == [code |-> code, env |-> env, closure |-> TRUE]
AssignTo(s, x, v, h) == [s EXCEPT !.env = Bind(@, x, v), !.heap = h]

\* What a statement itself does to a state [env, heap, out], where out is what
\* the code returns; r has the values of its expressions.
Expressions(c) ==
  CASE c.k \in {"free", "freestr", "store"} -> <<c.p, c.n>>
    [] c.k \in {"declare", "defer", "run"} -> <<>>
    [] OTHER -> <<c.e>>
DoAlloc(c, s, a) == AssignTo(s, c.x, a.ptr, a.heap)
DoAllocStr(c, s, string, a) == AssignTo(s, c.x, <<a.ptr, Len(string)>>, a.heap)
DoLoad(c, s, addr, h) ==
  AssignTo(s, c.x,
           IF c.signed THEN Signed(CellAt(h, c.w, addr), Bits[c.w]) % 2^W32
                       ELSE CellAt(h, c.w, addr),
           Touch(h, c.w, addr))
DoStatement(c, s, r) ==
  CASE c.k = "let" -> AssignTo(s, c.x, r.v[1], r.heap)
    [] c.k = "collect" -> AssignTo(s, c.x, Append(s.env[c.x].v, r.v[1]), r.heap)
    [] c.k = "generate" -> AssignTo(s, c.x, <<>>, r.heap)
    [] c.k = "declare" -> [s EXCEPT !.env = (c.x :> Unset) @@ @]
    [] c.k = "return" -> [s EXCEPT !.out = r.v, !.heap = r.heap]
    [] c.k = "alloc" -> DoAlloc(c, s, DartRealloc(r.heap, c.align, r.v[1]))
    [] c.k = "allocstr" -> DoAllocStr(c, s, r.v[1], AllocateUtf16(r.heap, r.v[1]))
    [] c.k = "load" -> DoLoad(c, s, r.v[1] + c.offset, r.heap)
    [] c.k = "free" -> [s EXCEPT !.heap = DartFree(r.heap, r.v[1], r.v[2], c.align)]
    [] c.k = "freestr" -> [s EXCEPT !.heap = FreeString(r.heap, r.v[1], r.v[2])]
    [] c.k = "store" ->
         [s EXCEPT !.heap = Store(r.heap, c.w, r.v[1] + c.offset, r.v[2])]
    [] c.k = "defer" ->
         [s EXCEPT !.env = Bind(@, c.x, Append(@[c.x].v, Closure(c.body, @)))]
    [] c.k = "switchint" /\ r.v[1] + 1 \notin DOMAIN c.cases ->
         [s EXCEPT !.heap = Fault(r.heap, "invalid discriminant")]
    [] OTHER -> [s EXCEPT !.heap = r.heap]

\* The blocks it runs then, one after the other: they see the variables around
\* them and the names bound for them, or are closures with variables of their
\* own.  Leaving a block restores what it has bound again, and keeps assignments.
BlocksOf(c, s, v) ==
  CASE c.k = "foreach" -> [i \in DOMAIN v[1] |-> Block(c.body, Element :> Set(v[1][i]))]
    [] c.k = "generate" ->
         [i \in 1..Bounded(v[1]) |-> Block(c.body, Index :> Set(i - 1))]
    [] c.k = "switchvalue" ->
         <<Block(c.cases[v[1][1]], IF Len(v[1]) = 1 THEN <<>> ELSE Value :> Set(v[1][2]))>>
    [] c.k = "switchint" /\ v[1] + 1 \in DOMAIN c.cases ->
         <<Block(c.cases[v[1] + 1], <<>>)>>
    [] c.k = "run" -> s.env[c.x].v
    [] OTHER -> <<>>
LeaveBlock(b, t, s) ==
  [t EXCEPT !.env = IF b.closure THEN s.env
                    ELSE [x \in DOMAIN s.env |-> IF x < 0 THEN s.env[x] ELSE @[x]]]

RECURSIVE Exec(_, _), ExecBlocks(_, _)
ExecBlock(s, b) ==
  LeaveBlock(b, Exec(b.code, [s EXCEPT !.env = IF b.closure THEN b.env
                                               ELSE b.env @@ @]), s)
ExecBlocks(blocks, s) ==
  IF blocks = <<>> THEN s ELSE ExecBlocks(Tail(blocks), ExecBlock(s, Head(blocks)))
ExecStatement(c, s, r) == ExecBlocks(BlocksOf(c, s, r.v), DoStatement(c, s, r))
Exec(code, s) ==
  IF code = <<>> \/ s.out # <<>> THEN s
  ELSE Exec(Tail(code),
            ExecStatement(Head(code), s, EvalAll(Expressions(Head(code)), s.env, s.heap)))
=============================================================================
