------------------------------ MODULE MCMarshal -----------------------------
(***************************************************************************)
(* Functions with every kind of type, small values, and two calls at once. *)
(***************************************************************************)
EXTENDS Marshal

Str == [k |-> "string"]
Num(k) == [k |-> k]
ListOf(t) == [k |-> "list", of |-> t]
ResultOf(ok, err) == [k |-> "result", cases |-> <<Case(ok), Case(err)>>]
Tuple(ts) == [k |-> "tuple", fields |-> ts]
Flags64 == [k |-> "flags", words |-> 2]
Own == [k |-> "own", id |-> "resource"]
Filter == [k |-> "variant",
           cases |-> <<Case(Str), Case(Num("u64")), NoPayload>>]
Point == Record(<<Num("s8"), Num("u16")>>)

Import(async, params, result) ==
  [kind |-> "import", async |-> async, params |-> params, result |-> result]
Export(async, params, result) ==
  [kind |-> "export", async |-> async, params |-> params, result |-> result]

MCSignature ==
  [lookup |-> Import(FALSE, <<Option(Str)>>, <<ResultOf(Str, Num("s32"))>>),
   draw |-> Import(FALSE, <<ListOf(Point), Point>>, <<>>),
   matches |-> Import(FALSE, <<Filter, Num("bool")>>, <<Num("s16")>>),
   register |-> Import(FALSE, <<ListOf(Option(Str)), Filter>>, <<Str>>),
   fetch |-> Import(TRUE, <<Str>>, <<ListOf(Num("u16"))>>),
   send |-> Import(TRUE, <<Tuple(<<Num("char"), Str>>), Filter>>, <<>>),
   rights |-> Import(TRUE, <<Flags64>>, <<Flags64>>),
   render |-> Export(FALSE, <<Own, Flags64>>, <<Record(<<Str, Num("u8")>>)>>),
   bounds |-> Export(FALSE, <<[k |-> "enum"], ListOf(Str)>>, <<Tuple(<<Num("u32"), Num("s64")>>)>>),
   serve |-> Export(TRUE, <<Option(Str), [k |-> "stream"]>>,
                    <<ResultOf(Str, Num("bool"))>>)]
MCFunctions == DOMAIN MCSignature

A == <<1>>
B == <<2, 5>>
Ok(v) == <<1, v>>
Err(v) == <<2, v>>
Absent == <<1>>
Some(v) == <<2, v>>

MCArguments ==
  [lookup |-> {<<Absent>>, <<Some(A)>>},
   draw |-> {<< << <<-1, 7>>, <<1, 2>> >>, <<-2, 3>> >>, << <<>>, <<0, 1>> >>},
   matches |-> {<< <<1, B>>, 1>>, << <<3>>, 0>>},
   register |-> {<< <<Some(A), Absent, Some(B)>>, <<1, A>> >>, << <<>>, <<2, 600>> >>},
   fetch |-> {<<B>>, <<<<>>>>},
   send |-> {<< <<9, A>>, <<1, B>> >>, << <<1, <<>>>>, <<3>> >>},
   rights |-> {<<5>>, <<2^W32 + 2>>},
   render |-> {<<4, 2^W32>>},
   bounds |-> {<<1, <<A, <<>> >> >>},
   serve |-> {<<Some(B), 3>>, <<Absent, 6>>}]
MCResults ==
  [lookup |-> {<<Ok(B)>>, <<Err(-3)>>},
   draw |-> {<<>>},
   matches |-> {<<-4>>, <<3>>},
   register |-> {<<B>>},
   fetch |-> {<< <<4, 7>> >>, << <<>> >>},
   send |-> {<<>>},
   rights |-> {<<3>>},
   render |-> {<< <<A, 2>> >>, << << <<>>, 1>> >>},
   bounds |-> {<< <<11, -5>> >>},
   serve |-> {<<Ok(A)>>, <<Err(1)>>}]

MCElements == {Option(Str)}
MCValues == [t \in MCElements |-> {Absent, Some(B)}]
=============================================================================
