------------------------------ MODULE MCLinker ------------------------------
(***************************************************************************)
(* A world in the manner of WASI HTTP: http and handler use the types of   *)
(* types, util has a type that they all use under a name of their own.     *)
(***************************************************************************)
EXTENDS Linker

MCKind ==
  [fields |-> "resource", hidden |-> "resource", text |-> "plain", handle |-> "plain",
   code |-> "plain", request |-> "plain", useFields |-> "import", useCode |-> "import",
   status |-> "import", body |-> "import"]
\* handle is own<fields>, request a record with own<useFields> and a body; the type
\* hidden is read a second time, so that its interface does not export it.
MCInner ==
  [t \in Types |-> CASE t = "handle" -> <<"fields">>
                     [] t = "request" -> <<"useFields", "text">>
                     [] OTHER -> <<>>]
MCHome ==
  [t \in Types |-> CASE t \in {"fields", "hidden", "useFields"} -> "types"
                     [] t \in {"useCode"} -> "util"
                     [] t = "status" -> "http"
                     [] t = "body" -> "http"
                     [] OTHER -> NoInterface]
MCSame == [t \in Types |-> IF t = "status" THEN "request" ELSE NoType]
MCRoot ==
  [t \in Types |-> CASE t = "useFields" -> "fields" [] t = "useCode" -> "code"
                     [] t = "status" -> "request" [] t = "body" -> "request"
                     [] OTHER -> t]
MCExportedTypes ==
  [types |-> <<"fields", "useCode", "handle">>, util |-> <<"code">>,
   http |-> <<"useFields", "request", "status">>, handler |-> <<"body">>]
MCExportedFunctions ==
  [types |-> <<"clone">>, util |-> <<>>, http |-> <<"send">>, handler |-> <<"serve">>]
MCSignature ==
  [clone |-> <<"handle", "text", "handle">>, send |-> <<"status", "useFields", "text">>,
   serve |-> <<"body", "text">>]
MCDepth == [util |-> 0, types |-> 1, http |-> 2, handler |-> 3]

Lower(i, options) ==
  [is |-> "lower", interface |-> i, types |-> <<>>, options |-> options]
Canon(types, options) ==
  [is |-> IF options = <<>> THEN "plain" ELSE "primitive", interface |-> NoInterface,
   types |-> types, options |-> options]
MCImports ==
  {Lower("types", <<"memory">>), Lower("http", <<"memory", "realloc">>), Lower("util", <<>>),
   Canon(<<"request">>, <<"memory", "realloc">>), Canon(<<"fields">>, <<>>), Canon(<<"body">>, <<>>)}
Serve ==
  [interface |-> "handler",
   functions |-> <<[function |-> "serve", name |-> "handler#serve",
                    options |-> <<"memory", "realloc", "callback">>]>>]
Clone ==
  [interface |-> "types",
   functions |-> <<[function |-> "clone", name |-> "types#clone", options |-> <<"post">>]>>]
MCAbis ==
  [imports : BoundedSeq(MCImports, 2), exports : {<<>>, <<Serve>>, <<Clone>>, <<Serve, Clone>>}]
  \cup {[imports |-> <<Canon(<<"hidden">>, <<>>)>>, exports |-> <<>>]}
=============================================================================
