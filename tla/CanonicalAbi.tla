---------------------------- MODULE CanonicalAbi ----------------------------
(***************************************************************************)
(* The part of wit-bindgen-core that drives DartFunctionGenerator (which   *)
(* instructions it emits, in which order), and the canonical ABI itself,   *)
(* by which the host of a component reads and writes the values.           *)
(*                                                                         *)
(* A type is a record whose field k names its form.  Records and tuples    *)
(* have fields; options, results and variants have cases, each with its    *)
(* payload type in a sequence of length zero or one.                       *)
(***************************************************************************)
EXTENDS FunctionGen

Case(t) == <<t>>
NoPayload == <<>>
Option(t) == [k |-> "option", cases |-> <<NoPayload, Case(t)>>]

Numbers == {"bool", "s8", "u8", "s16", "u16", "s32", "u32", "char", "s64", "u64"}
Handles == {"own", "borrow", "stream", "future"}
Variants == {"option", "result", "variant"}
Aggregates == {"record", "tuple"}

Width(k) ==
  CASE k \in {"bool", "s8", "u8", "enum"} -> "i8"
    [] k \in {"s16", "u16"} -> "i16"
    [] k \in {"s64", "u64"} -> "i64"
    [] OTHER -> "i32"
Bytes(w) == CASE w = "i8" -> 1 [] w = "i16" -> 2 [] w = "i32" -> 4 [] w = "i64" -> 8

AlignTo(n, a) == ((n + a - 1) \div a) * a

RECURSIVE AlignOf(_)
PayloadAligns(t) ==
  {AlignOf(t.cases[i][1]) : i \in {j \in DOMAIN t.cases : t.cases[j] # <<>>}}
AlignOf(t) ==
  IF t.k \in Aggregates THEN Max({1} \cup {AlignOf(f) : f \in ToSet(t.fields)})
  ELSE IF t.k \in Variants THEN Max({1} \cup PayloadAligns(t))
  ELSE Bytes(Width(t.k))

PayloadOffset(t) == Max({1} \cup PayloadAligns(t))

RECURSIVE SizeOf(_)
\* Where the fields are, and where the last one ends.
Layout(fields) ==
  FoldLeft(LAMBDA l, f : LET at == AlignTo(l.end, AlignOf(f))
                         IN  [offsets |-> Append(l.offsets, at), end |-> at + SizeOf(f)],
           [offsets |-> <<>>, end |-> 0], fields)
SizeOf(t) ==
  IF t.k \in Aggregates THEN AlignTo(Layout(t.fields).end, AlignOf(t))
  ELSE IF t.k \in Variants
  THEN AlignTo(PayloadOffset(t) + Max({0} \cup
         {SizeOf(t.cases[i][1]) : i \in {j \in DOMAIN t.cases : t.cases[j] # <<>>}}),
         AlignOf(t))
  ELSE IF t.k \in {"string", "list"} THEN 8
  ELSE IF t.k = "flags" THEN 4 * t.words
  ELSE Bytes(Width(t.k))

\* Core values of a type; the cases of a variant share theirs.
Join(a, b) ==
  [i \in 1..Max({Len(a), Len(b)}) |->
     IF i > Len(a) THEN b[i] ELSE IF i > Len(b) \/ a[i] = b[i] THEN a[i] ELSE "i64"]

RECURSIVE Flat(_)
FlatAll(ts) == FlattenSeq([i \in DOMAIN ts |-> Flat(ts[i])])
Flat(t) ==
  IF t.k \in Aggregates THEN FlatAll(t.fields)
  ELSE IF t.k \in Variants
  THEN <<"i32">> \o FoldLeft(LAMBDA r, c : Join(r, FlatAll(c)), <<>>, t.cases)
  ELSE IF t.k \in {"string", "list"} THEN <<"i32", "i32">>
  ELSE IF t.k = "flags" THEN [i \in 1..t.words |-> "i32"]
  ELSE IF t.k \in {"s64", "u64"} THEN <<"i64">> ELSE <<"i32">>

RECURSIVE HasMemory(_)
HasMemory(t) ==
  \/ t.k \in {"string", "list"}
  \/ t.k \in Aggregates /\ \E f \in ToSet(t.fields) : HasMemory(f)
  \/ t.k \in Variants /\ \E c \in ToSet(t.cases) : c # <<>> /\ HasMemory(c[1])

-----------------------------------------------------------------------------
(* Lowering: the Dart value is the operand.                                *)

RECURSIVE Lower(_, _, _), Write(_, _, _, _, _)

\* Every payload is bound to the same name, and the missing results are zero.
LowerArm(g, i, case, flat, realloc) ==
  LET g1 == I32Const(Pop(VariantPayloadName(push_block(g)), 1), i - 1)
      own == FlatAll(case)
      g2 == IF case = <<>> THEN g1
            ELSE Bitcasts(Lower(Push(g1, <<Var(Value)>>), case[1], realloc),
                          [j \in DOMAIN own |-> <<own[j], flat[j + 1]>>])
  IN  finish_block(ConstZero(g2, Len(flat) - 1 - Len(own)), Len(flat))

EmitVariantLower(g, t, results) ==
  CASE t.k = "option" -> OptionLower(g, results)
    [] t.k = "result" -> ResultLower(g, results)
    [] OTHER -> VariantLower(g, Len(t.cases), results)

Indices(s) == [i \in DOMAIN s |-> i]

ListBody(g, t, realloc) ==
  LET g1 == IterBasePointer(IterElem(push_block(g)))
  IN  ListLower(finish_block(Write(Pop(g1, 1), t, Operand(g1), 0, realloc), 0),
                SizeOf(t), AlignOf(t), realloc)

Lower(g, t, realloc) ==
  CASE t.k \in Numbers -> NumberLower(g, t.k)
    [] t.k = "string" -> StringLower(g, realloc)
    [] t.k = "list" -> ListBody(g, t.of, realloc)
    [] t.k \in Aggregates ->
         LET n == Len(t.fields)
             g1 == RecordLower(g, n)
             values == Top(g1, n)
         IN  FoldLeft(LAMBDA h, i : Lower(Push(h, <<values[i]>>), t.fields[i], realloc),
                      Pop(g1, n), Indices(t.fields))
    [] t.k \in Variants ->
         LET flat == Flat(t)
         IN  EmitVariantLower(
               FoldLeft(LAMBDA h, i : LowerArm(h, i, t.cases[i], flat, realloc),
                        g, Indices(t.cases)), t, Len(flat))
    [] t.k = "enum" -> EnumLower(g)
    [] t.k = "flags" -> FlagsLower(g, t.words)
    [] t.k \in {"own", "borrow"} -> HandleLower(g)
    [] t.k = "stream" -> StreamLower(g)
    [] t.k = "future" -> FutureLower(g)

StoreTo(g, w, addr, offset) == mem_store(Push(g, <<addr>>), w, offset)

WriteArm(g, i, case, addr, offset, payload, realloc) ==
  LET g1 == I32Const(Pop(VariantPayloadName(push_block(g)), 1), i - 1)
      g2 == StoreTo(g1, "i8", addr, offset)
      g3 == IF case = <<>> THEN g2
            ELSE Write(Push(g2, <<Var(Value)>>), case[1], addr, offset + payload, realloc)
  IN  finish_block(g3, 0)

Write(g, t, addr, offset, realloc) ==
  CASE t.k \in {"string", "list"} ->
         StoreTo(StoreTo(Lower(g, t, realloc), "i32", addr, offset + 4),
                 "i32", addr, offset)
    [] t.k \in Aggregates ->
         LET n == Len(t.fields)
             g1 == RecordLower(g, n)
             values == Top(g1, n)
             at == Layout(t.fields).offsets
         IN  FoldLeft(LAMBDA h, i : Write(Push(h, <<values[i]>>), t.fields[i],
                                          addr, offset + at[i], realloc),
                      Pop(g1, n), Indices(t.fields))
    [] t.k \in Variants ->
         EmitVariantLower(
           FoldLeft(LAMBDA h, i : WriteArm(h, i, t.cases[i], addr, offset,
                                           PayloadOffset(t), realloc),
                    g, Indices(t.cases)), t, 0)
    [] t.k = "flags" ->
         FoldRight(LAMBDA i, h : StoreTo(h, "i32", addr, offset + 4 * (i - 1)),
                   [i \in 1..t.words |-> i], FlagsLower(g, t.words))
    [] OTHER -> StoreTo(Lower(g, t, realloc), Width(t.k), addr, offset)

-----------------------------------------------------------------------------
(* Lifting: the core values, or an address, are the operands.              *)

LoadFrom(g, w, signed, addr, offset) == mem_load(Push(g, <<addr>>), w, signed, offset)

RECURSIVE Lift(_, _), Read(_, _, _, _)

LiftArm(g, case, inputs, flat) ==
  LET own == FlatAll(case)
      g1 == Push(push_block(g), SubSeq(inputs, 1, Len(own)))
  IN  IF case = <<>> THEN finish_block(g1, 0)
      ELSE finish_block(
             Lift(Bitcasts(g1, [j \in DOMAIN own |-> <<flat[j + 1], own[j]>>]), case[1]), 1)

EmitVariantLift(g, t) ==
  CASE t.k = "option" -> OptionLift(g)
    [] t.k = "result" -> ResultLift(g)
    [] OTHER -> VariantLift(g, Len(t.cases))

Lift(g, t) ==
  CASE t.k \in Numbers -> NumberLift(g, t.k)
    [] t.k = "string" -> StringLift(g)
    [] t.k = "list" ->
         LET g1 == IterBasePointer(push_block(g))
         IN  ListLift(finish_block(Read(Pop(g1, 1), t.of, Operand(g1), 0), 1), SizeOf(t.of))
    [] t.k \in Aggregates ->
         LET n == Len(Flat(t))
             args == Top(g, n)
             before(i) == Len(FlatAll(SubSeq(t.fields, 1, i - 1)))
             own(i) == SubSeq(args, before(i) + 1, before(i) + Len(Flat(t.fields[i])))
         IN  RecordLift(
               FoldLeft(LAMBDA h, i : Lift(Push(h, own(i)), t.fields[i]),
                        Pop(g, n), Indices(t.fields)), Len(t.fields))
    [] t.k \in Variants ->
         LET flat == Flat(t)
             inputs == Top(g, Len(flat) - 1)
         IN  EmitVariantLift(
               FoldLeft(LAMBDA h, c : LiftArm(h, c, inputs, flat),
                        Pop(g, Len(flat) - 1), t.cases), t)
    [] t.k = "enum" -> EnumLift(g)
    [] t.k = "flags" -> FlagsLift(g, t.words)
    [] t.k \in {"own", "borrow"} -> HandleLift(g, t)
    [] t.k = "stream" -> StreamLift(g)
    [] t.k = "future" -> FutureLift(g)

Read(g, t, addr, offset) ==
  CASE t.k \in {"string", "list"} ->
         Lift(LoadFrom(LoadFrom(g, "i32", FALSE, addr, offset),
                       "i32", FALSE, addr, offset + 4), t)
    [] t.k \in Aggregates ->
         LET at == Layout(t.fields).offsets
         IN  RecordLift(
               FoldLeft(LAMBDA h, i : Read(h, t.fields[i], addr, offset + at[i]),
                        g, Indices(t.fields)), Len(t.fields))
    [] t.k \in Variants ->
         LET arm(h, c) ==
               IF c = <<>> THEN finish_block(push_block(h), 0)
               ELSE finish_block(Read(push_block(h), c[1], addr,
                                      offset + PayloadOffset(t)), 1)
         IN  EmitVariantLift(
               FoldLeft(arm, LoadFrom(g, "i8", FALSE, addr, offset), t.cases), t)
    [] t.k = "flags" ->
         FlagsLift(FoldLeft(LAMBDA h, i : LoadFrom(h, "i32", FALSE, addr,
                                                   offset + 4 * (i - 1)),
                            g, [i \in 1..t.words |-> i]), t.words)
    [] OTHER -> Lift(LoadFrom(g, Width(t.k), t.k \in {"s8", "s16"}, addr, offset), t)

\* Freeing what a value in memory owns, after the host has read it.  Lists are
\* not implemented by the generator; values that own handles do not occur here.
RECURSIVE Deallocate(_, _, _, _)
Deallocate(g, t, addr, offset) ==
  CASE t.k = "string" ->
         GuestDeallocateString(
           LoadFrom(LoadFrom(g, "i32", FALSE, addr, offset), "i32", FALSE, addr, offset + 4))
    [] t.k \in Aggregates ->
         LET at == Layout(t.fields).offsets
         IN  FoldLeft(LAMBDA h, i : Deallocate(h, t.fields[i], addr, offset + at[i]),
                      g, Indices(t.fields))
    [] t.k \in Variants ->
         LET arm(h, c) ==
               IF c = <<>> THEN finish_block(push_block(h), 0)
               ELSE finish_block(Deallocate(push_block(h), c[1], addr,
                                            offset + PayloadOffset(t)), 0)
         IN  GuestDeallocateVariant(
               FoldLeft(arm, LoadFrom(g, "i8", FALSE, addr, offset), t.cases), Len(t.cases))
    [] OTHER -> g

-----------------------------------------------------------------------------
(* The host's side, by the canonical ABI.                                  *)

HostNumber(k, n) ==
  CASE k = "s8" -> Signed(n % 2^W8, W8)    [] k = "u8" -> n % 2^W8
    [] k = "s16" -> Signed(n % 2^W16, W16) [] k = "u16" -> n % 2^W16
    [] k = "s32" -> Signed(n, W32)         [] k = "s64" -> Signed(n, 2 * W32)
    [] k = "bool" -> IF n = 0 THEN 0 ELSE 1
    [] OTHER -> n

RECURSIVE HostLoad(_, _, _)
HostString(h, ptr, n) == [i \in 1..n |-> CellAt(h, "i16", ptr + 2 * (i - 1))]
HostList(t, h, ptr, n) == [i \in 1..n |-> HostLoad(t, h, ptr + SizeOf(t) * (i - 1))]
HostLoad(t, h, a) ==
  CASE t.k = "string" -> HostString(h, CellAt(h, "i32", a), CellAt(h, "i32", a + 4))
    [] t.k = "list" -> HostList(t.of, h, CellAt(h, "i32", a), CellAt(h, "i32", a + 4))
    [] t.k \in Aggregates ->
         [i \in DOMAIN t.fields |-> HostLoad(t.fields[i], h, a + Layout(t.fields).offsets[i])]
    [] t.k \in Variants ->
         LET c == CellAt(h, "i8", a) + 1
         IN  <<c>> \o [j \in DOMAIN t.cases[c] |->
                         HostLoad(t.cases[c][j], h, a + PayloadOffset(t))]
    [] t.k = "flags" ->
         CellAt(h, "i32", a) + (IF t.words = 2 THEN CellAt(h, "i32", a + 4) * 2^W32 ELSE 0)
    [] OTHER -> HostNumber(t.k, CellAt(h, Width(t.k), a))

Wrap(n, from, to) == IF from = "i64" /\ to = "i32" THEN n % 2^W32 ELSE n

RECURSIVE HostLift(_, _, _)
HostLiftAll(ts, h, vs) ==
  LET before(i) == Len(FlatAll(SubSeq(ts, 1, i - 1)))
  IN  [i \in DOMAIN ts |->
         HostLift(ts[i], h, SubSeq(vs, before(i) + 1, before(i) + Len(Flat(ts[i]))))]
HostLift(t, h, vs) ==
  CASE t.k = "string" -> HostString(h, vs[1], vs[2])
    [] t.k = "list" -> HostList(t.of, h, vs[1], vs[2])
    [] t.k \in Aggregates -> HostLiftAll(t.fields, h, vs)
    [] t.k \in Variants ->
         LET case == t.cases[vs[1] + 1]
             own == FlatAll(case)
         IN  <<vs[1] + 1>> \o HostLiftAll(case, h,
               [j \in DOMAIN own |-> Wrap(vs[j + 1], Flat(t)[j + 1], own[j])])
    [] t.k = "flags" -> vs[1] + (IF t.words = 2 THEN vs[2] * 2^W32 ELSE 0)
    [] OTHER -> HostNumber(t.k, vs[1])

\* The host allocates with the dart_realloc of the component.
RECURSIVE HostStore(_, _, _, _)
HostStoreAll(ts, h, at, vs) ==
  FoldLeft(LAMBDA m, i : HostStore(ts[i], m, at[i], vs[i]), h, Indices(ts))
HostAllocate(t, h, v) ==
  IF t.k = "string" THEN AllocateUtf16(h, v)
  ELSE LET a == DartRealloc(h, AlignOf(t.of), SizeOf(t.of) * Len(v))
       IN  [ptr |-> a.ptr,
            heap |-> HostStoreAll([i \in DOMAIN v |-> t.of], a.heap,
                       [i \in DOMAIN v |-> a.ptr + SizeOf(t.of) * (i - 1)], v)]
HostStore(t, h, a, v) ==
  CASE t.k \in {"string", "list"} ->
         LET m == HostAllocate(t, h, v)
         IN  Store(Store(m.heap, "i32", a, m.ptr), "i32", a + 4, Len(v))
    [] t.k \in Aggregates ->
         HostStoreAll(t.fields, h, [i \in DOMAIN v |-> a + Layout(t.fields).offsets[i]], v)
    [] t.k \in Variants ->
         HostStoreAll(t.cases[v[1]], Store(h, "i8", a, v[1] - 1),
                      <<a + PayloadOffset(t)>>, Tail(v))
    [] t.k = "flags" ->
         LET m == Store(h, "i32", a, v % 2^W32)
         IN  IF t.words = 2 THEN Store(m, "i32", a + 4, v \div 2^W32) ELSE m
    [] OTHER -> Store(h, Width(t.k), a, v)

RECURSIVE HostLower(_, _, _)
HostLowerAll(ts, h, vs) ==
  FoldLeft(LAMBDA r, i : LET s == HostLower(ts[i], r.heap, vs[i])
                         IN  [v |-> r.v \o s.v, heap |-> s.heap],
           [v |-> <<>>, heap |-> h], Indices(ts))
HostLower(t, h, v) ==
  CASE t.k \in {"string", "list"} ->
         LET m == HostAllocate(t, h, v) IN [v |-> <<m.ptr, Len(v)>>, heap |-> m.heap]
    [] t.k \in Aggregates -> HostLowerAll(t.fields, h, v)
    [] t.k \in Variants ->
         LET r == HostLowerAll(t.cases[v[1]], h, Tail(v))
             padding == [i \in 1..Len(Flat(t)) - 1 - Len(r.v) |-> 0]
         IN  [v |-> <<v[1] - 1>> \o r.v \o padding, heap |-> r.heap]
    [] t.k = "flags" ->
         [v |-> IF t.words = 2 THEN <<v % 2^W32, v \div 2^W32>> ELSE <<v>>, heap |-> h]
    [] t.k \in {"s64", "u64"} -> [v |-> <<v % 2^(2 * W32)>>, heap |-> h]
    [] OTHER -> [v |-> <<v % 2^W32>>, heap |-> h]
=============================================================================
