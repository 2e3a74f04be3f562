----------------------------- MODULE MCWorldGen -----------------------------
(***************************************************************************)
(* Three packages: base, whose types main uses, main, and tool, which has  *)
(* worlds but no interface with a name.  Among the interfaces are one      *)
(* without functions (consts) and two without a name (inline, local).      *)
(***************************************************************************)
EXTENDS WorldGen

MCPackageOrder == <<"base", "main", "tool">>
MCInterfacesOf == [base |-> <<"types", "consts">>, main |-> <<"api", "handler">>, tool |-> <<>>]
MCPackageOf ==
  [types |-> "base", consts |-> "base", api |-> "main", handler |-> "main",
   inline |-> "main", local |-> "tool", loose |-> NoPackage]
MCFunctionsOf ==
  [types |-> <<"open", "list">>, consts |-> <<>>, api |-> <<"send", "poll">>,
   handler |-> <<"handle">>, inline |-> <<"ping">>, local |-> <<"tick">>, loose |-> <<"log">>]

\* error is a variant with a payload of type kind; only main mentions unused.
MCOwner == [file |-> "base", error |-> "base", kind |-> "base", unused |-> "base",
            request |-> "main", body |-> "main", mode |-> "tool"]
MCPayloads == [file |-> <<>>, error |-> <<"kind">>, kind |-> <<>>, unused |-> <<>>,
               request |-> <<"error">>, body |-> <<>>, mode |-> <<>>]

MCSignature ==
  [open |-> <<"file", "error">>, list |-> <<"file">>, send |-> <<"request", "unused", "file", "body">>,
   poll |-> <<"file", "request">>, handle |-> <<"file", "request", "body">>, ping |-> <<"kind">>,
   tick |-> <<"mode">>, log |-> <<>>]
\* The elements of outer are pairs of a nested and a done; tick mentions it twice.
MCStreamsFutures ==
  [open |-> <<>>, list |-> <<"files">>, send |-> <<"bytes", "nested">>,
   poll |-> <<"bytes", "nested", "done", "outer">>, handle |-> <<"bytes", "nested">>,
   ping |-> <<>>, tick |-> <<"nested", "done", "outer", "nested", "done", "outer">>,
   log |-> <<>>]
MCParams ==
  [f \in Funcs |-> IF f \in {"handle", "send"} THEN {"file", "body"} ELSE {}]
MCResults ==
  [f \in Funcs |-> IF f \in {"open", "poll"} THEN {"file"} ELSE {}]
MCElements ==
  [files |-> <<"file", "error">>, bytes |-> <<>>, nested |-> <<"kind">>, done |-> <<>>,
   outer |-> <<"kind">>]
MCElementVtables ==
  [v \in Vtables |-> IF v = "outer" THEN {"nested", "done"} ELSE {}]
MCElementOwns == [v \in Vtables |-> IF v = "files" THEN {"file"} ELSE {}]

MCImportsOf ==
  [client |-> <<"types", "consts", "api">>, server |-> <<"types", "consts">>,
   both |-> <<"loose", "types", "api">>, plugin |-> <<"types", "local">>, command |-> <<"types">>]
MCExportsOf ==
  [client |-> <<>>, server |-> <<"api", "handler">>, both |-> <<"handler", "inline">>,
   plugin |-> <<"inline">>, command |-> <<>>]
=============================================================================
