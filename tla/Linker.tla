------------------------------- MODULE Linker -------------------------------
(***************************************************************************)
(* The component around a compiled program: which definitions the linker   *)
(* (abi/linker.dart, imported_function.dart, export.dart) adds to the      *)
(* ComponentBuilder (components/component.dart) and with which indices.    *)
(*                                                                         *)
(* The builder hands out indices from counters while it collects           *)
(* definitions.  Whoever reads the component counts for himself, in the    *)
(* order of the definitions: `space' is what he finds at every index.      *)
(***************************************************************************)
EXTENDS Integers, Sequences, SequencesExt

CONSTANTS
  Component,        \* the scope of the component; an interface has its own
  Interfaces,       \* the AbiInterfaces
  Types,            \* the AbiTypes, which are compared by identity
  Funcs,            \* the AbiFunctions
  Names,            \* core functions that the program exports
  NoInterface, NoType,
  Kind,             \* [Types -> Kinds]
  Inner,            \* [Types -> Seq(Types)], what a type is made of
  Home,             \* the definingInterface of an import, the owner of a resource
  Same,             \* ImportedAbiType.inSameInterface
  Root,             \* [Types -> Types], the type that a type is another name of
  ExportedTypes, ExportedFunctions, \* of an interface, in their order
  Signature,        \* [Funcs -> Seq(Types)], parameters and result
  Depth,            \* [Interfaces -> Nat], larger than that of what it imports
  Abis              \* the ProgramAbis to link

Kinds == {"import", "resource", "plain"}
Options == {"memory", "realloc"} \cup Names
ImportedFunctions ==
  [is : {"lower", "primitive", "plain"}, interface : Interfaces \cup {NoInterface},
   types : Seq(Types), options : Seq(Options)]
ExportedFunction == [function : Funcs, name : Names, options : Seq(Options)]
ProgramAbi ==
  [imports : Seq(ImportedFunctions),
   exports : Seq([interface : Interfaces, functions : Seq(ExportedFunction)])]

\* What the types and functions of an interface mention, and are made of.
Closed(i, types) ==
  /\ ToSet(ExportedTypes[i]) \subseteq types
  /\ \A f \in ToSet(ExportedFunctions[i]) : ToSet(Signature[f]) \subseteq types
  /\ \A t \in types : Kind[t] = "plain" => ToSet(Inner[t]) \subseteq types
Mentions(i) == {t \in Types : \A types \in SUBSET Types : Closed(i, types) => t \in types}

ASSUME AbiAssumption ==
  /\ Kind \in [Types -> Kinds] /\ Inner \in [Types -> Seq(Types)]
  /\ Home \in [Types -> Interfaces \cup {NoInterface}]
  /\ \A t \in Types : Kind[t] # "plain" => Home[t] \in Interfaces
  /\ Same \in [Types -> Types \cup {NoType}]
  /\ ExportedTypes \in [Interfaces -> Seq(Types)]
  /\ ExportedFunctions \in [Interfaces -> Seq(Funcs)]
  /\ Signature \in [Funcs -> Seq(Types)]
  /\ Abis \subseteq ProgramAbi
  /\ \A abi \in Abis : \A n \in DOMAIN abi.imports :
       abi.imports[n].is = "lower" => abi.imports[n].interface \in Interfaces
ASSUME RootAssumption ==
  /\ Root \in [Types -> Types]
  /\ \A t \in Types : Kind[t] = "import" /\ Same[t] \in Types => Root[t] = Root[Same[t]]
\* Interfaces do not use each other in a circle.
ASSUME DepthAssumption ==
  /\ Depth \in [Interfaces -> Nat]
  /\ \A i \in Interfaces : \A t \in Mentions(i) :
       Kind[t] = "import" /\ Home[t] # i => Depth[Home[t]] < Depth[i]
ASSUME ComponentAssumption == Component \notin Interfaces /\ NoType \notin Types
\* The exports of the program are not those of libc, which have names of their own here.
ASSUME NamesAssumption == Names \cap {"memory", "realloc"} = {}

Scopes == Interfaces \cup {Component}
Sorts == {"componentInstance", "componentFunction", "componentType",
          "coreFunction", "coreMemory", "coreModule", "coreInstance"}
Absent == -1
Index == Nat \cup {Absent}

VARIABLES
  abi,           \* the ProgramAbi
  agenda,        \* the calls to make, the innermost first
  result,        \* how the linking ended, "running" before that
  counters,      \* HasDefinitions._counters of the component, of instance types
  definitions,   \* HasDefinitions._definitions
  space,         \* what the reader of the definitions finds at every index
  existing,      \* _topLevelTypes, and typeEntries of every interfaceType
  instances,     \* _importedInstances
  interfaces,    \* _interfaces
  cached,        \* _libcMemory, _libcRealloc, _programExports
  core,          \* libc and _program
  inlineExports, \* what the instance that is put together exports
  returned       \* the index that the last call returned

builder == <<counters, definitions, space>>
linker == <<existing, instances, interfaces, cached, core>>
vars == <<abi, agenda, result, builder, linker, inlineExports, returned>>

-----------------------------------------------------------------------------
(* Calls.                                                                  *)

Call(name, at, of) == <<name, at, of>>
Each(name, at, seq) == [n \in DOMAIN seq |-> Call(name, at, seq[n])]

\* The next call is one of the given name; `at' is the scope it works for.
At(name) == result = "running" /\ agenda # <<>> /\ Head(agenda)[1] = name
This == Head(agenda)[3]
Here == Head(agenda)[2]
Then(calls) == agenda' = calls \o Tail(agenda)

-----------------------------------------------------------------------------
(* ComponentBuilder and InstanceType.                                      *)

TypeEntity(t) == <<"type", Root[t]>>
NamedEntity(t) == <<"named", Root[t]>>

\* An index that a definition holds, with what the linker means by it.
Ref(sort, index, means) == [sort |-> sort, index |-> index, means |-> means]
TypeRef(t) == Ref("componentType", existing[Here][t], TypeEntity(t))
TypeRefs(types) == {TypeRef(t) : t \in ToSet(types)}

\* The definition is written after those there are, and read as `found'.
Add(scope, sort, entity, found, refs, outer) ==
  /\ definitions' = [definitions EXCEPT ![scope] = Append(@,
       [defines |-> entity, refs |-> refs, outer |-> outer,
        seen |-> [s \in Sorts |-> Len(space[scope][s])]])]
  /\ space' = [space EXCEPT ![scope][sort] = Append(@, found)]

increment(scope, sort) == counters' = [counters EXCEPT ![scope][sort] = @ + 1]
Fresh(scope, sort) == counters[scope][sort]

Define(scope, sort, entity, refs, outer) ==
  /\ increment(scope, sort)
  /\ Add(scope, sort, entity, entity, refs, outer)

-----------------------------------------------------------------------------
(* Memory, realloc and exports of the program.                             *)

SortOf(option) == IF option = "memory" THEN "coreMemory" ELSE "coreFunction"
Provider(option) == IF option \in {"memory", "realloc"} THEN "libc" ELSE "program"
CoreRef(instance) == Ref("coreInstance", core[instance], <<"core", instance>>)

\* libcMemory, libcRealloc and programExport.  There is no step without an instance
\* of the program: _requireProgram throws.
Alias ==
  LET option == This  sort == SortOf(option) IN
  /\ At("require") /\ cached[option] = Absent /\ core[Provider(option)] # Absent
  /\ Define(Component, sort, <<"core export", option>>, {CoreRef(Provider(option))}, {})
  /\ cached' = [cached EXCEPT ![option] = Fresh(Component, sort)]
  /\ Then(<<>>)
  /\ UNCHANGED <<abi, result, existing, instances, interfaces, core, inlineExports, returned>>

\* CanonicalOptions.requireDefinitions
requireDefinitions_Later(options) == <<>>
requireDefinitions(options) == Each("require", Component, options)

\* CanonicalOptions.applyTo, on the n-th definition.
applyTo(n, options) == [m \in DOMAIN options |-> Call("apply", Component, <<n, options[m]>>)]
Apply ==
  LET n == This[1]  option == This[2] IN
  /\ At("apply")
  /\ IF cached[option] = Absent
     THEN /\ Then(<<Call("require", Component, option), Head(agenda)>>)
          /\ definitions' = definitions
     ELSE /\ Then(<<>>)
          /\ definitions' = [definitions EXCEPT ![Component][n].refs =
               @ \cup {Ref(SortOf(option), cached[option], <<"core export", option>>)}]
  /\ UNCHANGED <<abi, result, counters, space, linker, inlineExports, returned>>

-----------------------------------------------------------------------------
(* Interfaces.                                                             *)

\* putIfAbsent: what is there already is returned.
Memo(call) ==
  CASE call[1] = "type" -> existing[call[2]][call[3]]
    [] call[1] = "require" -> cached[call[3]]
    [] call[1] = "importInstance" -> instances[call[3]]
    [] call[1] = "interfaceType" -> interfaces[call[3]]
    [] OTHER -> Absent
Known ==
  /\ result = "running" /\ agenda # <<>> /\ Memo(Head(agenda)) # Absent
  /\ returned' = Memo(Head(agenda))
  /\ Then(<<>>)
  /\ UNCHANGED <<abi, result, builder, linker, inlineExports>>

ImportInstance ==
  /\ At("importInstance") /\ instances[This] = Absent
  /\ Then(<<Call("interfaceType", Here, This), Call("import", Here, This)>>)
  /\ UNCHANGED <<abi, result, builder, linker, inlineExports, returned>>

\* component.importInstance
Import_Forgotten ==
  /\ At("import")
  /\ Define(Component, "componentInstance", <<"import", This>>,
            {Ref("componentType", returned, <<"interface", This>>)}, {})
  /\ returned' = Fresh(Component, "componentInstance")
  /\ Then(<<>>)
  /\ UNCHANGED <<abi, result, linker, inlineExports>>
Import ==
  /\ At("import")
  /\ Define(Component, "componentInstance", <<"import", This>>,
            {Ref("componentType", returned, <<"interface", This>>)}, {})
  /\ returned' = Fresh(Component, "componentInstance")
  /\ instances' = [instances EXCEPT ![This] = returned']
  /\ Then(<<>>)
  /\ UNCHANGED <<abi, result, existing, interfaces, cached, core, inlineExports>>

NoTypes == [t \in Types |-> Absent]
Nothing == [sort \in Sorts |-> <<>>]
Zero == [sort \in Sorts |-> 0]

\* interfaceType: an InstanceType and typeEntries of its own.
InterfaceType ==
  LET i == This IN
  /\ At("interfaceType") /\ interfaces[i] = Absent
  /\ existing' = [existing EXCEPT ![i] = NoTypes]
  /\ counters' = [counters EXCEPT ![i] = Zero]
  /\ definitions' = [definitions EXCEPT ![i] = <<>>]
  /\ space' = [space EXCEPT ![i] = Nothing]
  /\ Then(Each("exportType", i, ExportedTypes[i])
          \o Each("exportFunction", i, ExportedFunctions[i])
          \o <<Call("endInterface", i, i)>>)
  /\ UNCHANGED <<abi, result, instances, interfaces, cached, core, inlineExports, returned>>

EndInterface ==
  LET i == This
      refs == UNION {definitions[i][n].outer : n \in DOMAIN definitions[i]}
  IN
  /\ At("endInterface")
  /\ Define(Component, "componentType", <<"interface", i>>, refs, {})
  /\ returned' = Fresh(Component, "componentType")
  /\ interfaces' = [interfaces EXCEPT ![i] = returned']
  /\ Then(<<>>)
  /\ UNCHANGED <<abi, result, existing, instances, cached, core, inlineExports>>

\* exportTypeSubResource
ExportResource_Unrecorded ==
  /\ At("exportType") /\ Kind[This] = "resource"
  /\ Define(Here, "componentType", NamedEntity(This), {}, {})
  /\ Then(<<>>)
  /\ UNCHANGED <<abi, result, linker, inlineExports, returned>>
ExportResource ==
  /\ At("exportType") /\ Kind[This] = "resource"
  /\ Define(Here, "componentType", NamedEntity(This), {}, {})
  /\ existing' = [existing EXCEPT ![Here][This] = Fresh(Here, "componentType")]
  /\ Then(<<>>)
  /\ UNCHANGED <<abi, result, instances, interfaces, cached, core, inlineExports, returned>>

ExportType ==
  /\ At("exportType") /\ Kind[This] # "resource"
  /\ Then(<<Call(IF Kind[This] = "import" THEN "importFromOuter" ELSE "type", Here, This),
            Call("exportTypeEq", Here, This)>>)
  /\ UNCHANGED <<abi, result, builder, linker, inlineExports, returned>>

exportTypeEq_Unnamed ==
  /\ At("exportTypeEq")
  /\ Define(Here, "componentType", NamedEntity(This),
            {Ref("componentType", returned, TypeEntity(This))}, {})
  /\ existing' = [existing EXCEPT ![Here][This] = returned]
  /\ Then(<<>>)
  /\ UNCHANGED <<abi, result, instances, interfaces, cached, core, inlineExports, returned>>
exportTypeEq ==
  /\ At("exportTypeEq")
  /\ Define(Here, "componentType", NamedEntity(This),
            {Ref("componentType", returned, TypeEntity(This))}, {})
  /\ existing' = [existing EXCEPT ![Here][This] = Fresh(Here, "componentType")]
  /\ Then(<<>>)
  /\ UNCHANGED <<abi, result, instances, interfaces, cached, core, inlineExports, returned>>

ExportFunction ==
  /\ At("exportFunction")
  /\ Then(Each("type", Here, Signature[This])
          \o <<Call("functionType", Here, This), Call("declareFunction", Here, This)>>)
  /\ UNCHANGED <<abi, result, builder, linker, inlineExports, returned>>

\* addType of a FunctionType
FunctionType ==
  /\ At("functionType")
  /\ Define(Here, "componentType", <<"function", This>>, TypeRefs(Signature[This]), {})
  /\ returned' = Fresh(Here, "componentType")
  /\ Then(<<>>)
  /\ UNCHANGED <<abi, result, linker, inlineExports>>

\* InstanceType.exportFunction
DeclareFunction ==
  /\ At("declareFunction")
  /\ Define(Here, "componentFunction", <<"function", This>>,
            {Ref("componentType", returned, <<"function", This>>)}, {})
  /\ Then(<<>>)
  /\ UNCHANGED <<abi, result, linker, inlineExports, returned>>

-----------------------------------------------------------------------------
(* Types.                                                                  *)

\* _addType, of a type that is not there yet.  A resource has been exported by its
\* interface before anything in it mentions it; otherwise resolveResource throws.
AddType ==
  LET t == This  unknown == At("type") /\ existing[Here][t] = Absent IN
  /\ \/ /\ unknown /\ Kind[t] = "plain"
        /\ Then(Each("type", Here, Inner[t]) \o <<Call("define", Here, t)>>)
     \/ /\ unknown /\ Kind[t] = "import"
        /\ Then(<<Call(IF Here = Component THEN "importType" ELSE "importFromOuter", Here, t),
                  Call("remember", Here, t)>>)
     \/ /\ unknown /\ Kind[t] = "resource" /\ Here = Component
        /\ Then(<<Call("importType", Here, t), Call("remember", Here, t)>>)
  /\ UNCHANGED <<abi, result, builder, linker, inlineExports, returned>>

DefineType ==
  /\ At("define")
  /\ Define(Here, "componentType", TypeEntity(This), TypeRefs(Inner[This]), {})
  /\ returned' = Fresh(Here, "componentType")
  /\ existing' = [existing EXCEPT ![Here][This] = returned']
  /\ Then(<<>>)
  /\ UNCHANGED <<abi, result, instances, interfaces, cached, core, inlineExports>>

Remember ==
  /\ At("remember")
  /\ existing' = [existing EXCEPT ![Here][This] = returned]
  /\ Then(<<>>)
  /\ UNCHANGED <<abi, result, builder, instances, interfaces, cached, core, inlineExports,
                 returned>>

\* importFromOuter, of a type of the same interface and of another one.  There is
\* no step if the former is not there: a null check fails.
ImportFromSame ==
  /\ At("importFromOuter") /\ Home[This] = Here
  /\ Same[This] \in Types /\ existing[Here][Same[This]] # Absent
  /\ returned' = existing[Here][Same[This]]
  /\ Then(<<>>)
  /\ UNCHANGED <<abi, result, builder, linker, inlineExports>>
ImportFromOuter ==
  /\ At("importFromOuter") /\ Home[This] # Here
  /\ Then(<<Call("importType", Here, This), Call("outer", Here, This)>>)
  /\ UNCHANGED <<abi, result, builder, linker, inlineExports, returned>>

\* importType, and resolveResource of mapType.
ImportType ==
  /\ At("importType")
  /\ Then(<<Call("importInstance", Here, Home[This]), Call("alias", Here, This)>>)
  /\ UNCHANGED <<abi, result, builder, linker, inlineExports, returned>>

Exports(t) == Kind[t] = "resource" => t \in ToSet(ExportedTypes[Home[t]])

\* The alias in the component, and the one in the instance type.
AliasType ==
  /\ At("alias") /\ Exports(This)
  /\ Define(Component, "componentType", TypeEntity(This),
            {Ref("componentInstance", returned, <<"import", Home[This]>>)}, {})
  /\ returned' = Fresh(Component, "componentType")
  /\ Then(<<>>)
  /\ UNCHANGED <<abi, result, linker, inlineExports>>
AliasOuter ==
  /\ At("outer")
  /\ Define(Here, "componentType", TypeEntity(This), {},
            {Ref("componentType", returned, TypeEntity(This))})
  /\ returned' = Fresh(Here, "componentType")
  /\ Then(<<>>)
  /\ UNCHANGED <<abi, result, linker, inlineExports>>

\* A resource that its interface does not export under this object, which is what
\* a second description of the interface creates.
IllegalReference ==
  /\ At("alias") /\ ~Exports(This)
  /\ result' = "illegal"
  /\ UNCHANGED <<abi, agenda, builder, linker, inlineExports, returned>>

-----------------------------------------------------------------------------
(* The functions that the program imports.                                 *)

\* ComponentCompiler.run: the modules and the instance of libc.
Modules ==
  LET module(name) == [defines |-> <<"module", name>>, refs |-> {}, outer |-> {}, seen |-> Zero]
      seen == [Zero EXCEPT !["coreModule"] = 2]
      libc == [defines |-> <<"core", "libc">>, outer |-> {}, seen |-> seen,
               refs |-> {Ref("coreModule", 0, <<"module", "libc">>)}]
  IN
  /\ At("modules")
  /\ definitions' = [definitions EXCEPT ![Component] =
       <<module("libc"), [module("program") EXCEPT !.seen["coreModule"] = 1], libc>>]
  /\ space' = [space EXCEPT
       ![Component]["coreModule"] = <<<<"module", "libc">>, <<"module", "program">>>>,
       ![Component]["coreInstance"] = <<<<"core", "libc">>>>]
  /\ counters' = [counters EXCEPT ![Component]["coreModule"] = 2,
                                  ![Component]["coreInstance"] = 1]
  /\ core' = [core EXCEPT !["libc"] = 0]
  /\ Then(<<>>)
  /\ UNCHANGED <<abi, result, existing, instances, interfaces, cached, inlineExports, returned>>

Resolve ==
  LET import == abi.imports[This] IN
  /\ At("resolve")
  /\ Then(requireDefinitions(import.options)
          \o IF import.is = "lower"
             THEN <<Call("importInstance", Component, import.interface),
                    Call("aliasFunction", Component, This), Call("lower", Component, This)>>
             ELSE <<Call("allocate", Component, This)>>)
  /\ UNCHANGED <<abi, result, builder, linker, inlineExports, returned>>

AliasFunction ==
  /\ At("aliasFunction")
  /\ Define(Component, "componentFunction", <<"imported", This>>,
            {Ref("componentInstance", returned, <<"import", abi.imports[This].interface>>)}, {})
  /\ returned' = Fresh(Component, "componentFunction")
  /\ Then(<<>>)
  /\ UNCHANGED <<abi, result, linker, inlineExports>>

CanonLower ==
  LET index == Fresh(Component, "coreFunction") IN
  /\ At("lower")
  /\ Define(Component, "coreFunction", <<"core import", This>>,
            {Ref("componentFunction", returned, <<"imported", This>>)}, {})
  /\ inlineExports' = inlineExports \cup {Ref("coreFunction", index, <<"core import", This>>)}
  /\ Then(applyTo(Len(definitions'[Component]), abi.imports[This].options))
  /\ UNCHANGED <<abi, result, linker, returned>>

\* addCanonPrimitive takes the index, then creates the definition, which maps types.
Allocate ==
  /\ At("allocate")
  /\ increment(Component, "coreFunction")
  /\ Then(Each("type", Component, abi.imports[This].types)
          \o <<Call("primitive", Component, <<This, Fresh(Component, "coreFunction")>>)>>)
  /\ UNCHANGED <<abi, result, definitions, space, linker, inlineExports, returned>>
AddCanonPrimitive ==
  LET k == This[1] IN
  /\ At("primitive")
  /\ Add(Component, "coreFunction", <<"core import", k>>, <<"core import", k>>,
         TypeRefs(abi.imports[k].types), {})
  /\ inlineExports' = inlineExports \cup {Ref("coreFunction", This[2], <<"core import", k>>)}
  /\ Then(IF abi.imports[k].is = "primitive"
          THEN applyTo(Len(definitions'[Component]), abi.imports[k].options) ELSE <<>>)
  /\ UNCHANGED <<abi, result, counters, linker, returned>>

\* The instance of the imports, and the one of the program.
CreateImportInstance ==
  /\ At("createImportInstance")
  /\ Define(Component, "coreInstance", <<"core", "imports">>, inlineExports, {})
  /\ returned' = Fresh(Component, "coreInstance")
  /\ Then(<<>>)
  /\ UNCHANGED <<abi, result, linker, inlineExports>>
InstantiateProgram ==
  /\ At("program")
  /\ Define(Component, "coreInstance", <<"core", "program">>,
            {Ref("coreModule", 1, <<"module", "program">>), CoreRef("libc"),
             Ref("coreInstance", returned, <<"core", "imports">>)}, {})
  /\ core' = [core EXCEPT !["program"] = Fresh(Component, "coreInstance")]
  /\ Then(<<>>)
  /\ UNCHANGED <<abi, result, existing, instances, interfaces, cached, inlineExports, returned>>

-----------------------------------------------------------------------------
(* The interfaces that the program exports.                                *)

Instantiate ==
  LET export == abi.exports[This] IN
  /\ At("instantiate")
  /\ inlineExports' = {}
  /\ Then(Each("listType", Component, ExportedTypes[export.interface])
          \o [m \in DOMAIN export.functions |-> Call("lift", Component, <<This, m>>)]
          \o <<Call("instance", Component, This), Call("export", Component, This)>>)
  /\ UNCHANGED <<abi, result, builder, linker, returned>>

\* An exported type that is not imported is mapped, and then listed.
MapExported ==
  /\ At("listType")
  /\ Then(IF Kind[This] = "import" THEN <<>>
          ELSE <<Call("type", Component, This), Call("listed", Component, This)>>)
  /\ UNCHANGED <<abi, result, builder, linker, inlineExports, returned>>
ListType ==
  /\ At("listed")
  /\ inlineExports' = inlineExports \cup {Ref("componentType", returned, TypeEntity(This))}
  /\ Then(<<>>)
  /\ UNCHANGED <<abi, result, builder, linker, returned>>

\* ExportedFunction.lift
Exported(call) == abi.exports[call[1]].functions[call[2]]
Lift ==
  LET f == Exported(This) IN
  /\ At("lift")
  /\ Then(requireDefinitions(f.options)
          \o <<Call("require", Component, f.name)>>
          \o Each("type", Component, Signature[f.function])
          \o <<Call("functionType", Component, f.function), Call("canonLift", Component, This)>>)
  /\ UNCHANGED <<abi, result, builder, linker, inlineExports, returned>>
CanonLift ==
  LET f == Exported(This)  index == Fresh(Component, "componentFunction") IN
  /\ At("canonLift")
  /\ Define(Component, "componentFunction", <<"lifted", This>>,
            {Ref("coreFunction", cached[f.name], <<"core export", f.name>>),
             Ref("componentType", returned, <<"function", f.function>>)}, {})
  /\ inlineExports' = inlineExports \cup {Ref("componentFunction", index, <<"lifted", This>>)}
  /\ Then(applyTo(Len(definitions'[Component]), f.options))
  /\ UNCHANGED <<abi, result, linker, returned>>

Instance ==
  /\ At("instance")
  /\ Define(Component, "componentInstance", <<"export", This>>, inlineExports, {})
  /\ returned' = Fresh(Component, "componentInstance")
  /\ Then(<<>>)
  /\ UNCHANGED <<abi, result, linker, inlineExports>>

\* ComponentBuilder.export takes no index, but the reader finds the instance again
\* at one of its own.
Export ==
  /\ At("export")
  /\ Add(Component, "componentInstance", <<"exported", This>>,
         space[Component]["componentInstance"][returned + 1],
         {Ref("componentInstance", returned, <<"export", This>>)}, {})
  /\ Then(<<>>)
  /\ UNCHANGED <<abi, result, counters, linker, inlineExports, returned>>

Done ==
  /\ result = "running" /\ agenda = <<>>
  /\ result' = "done"
  /\ UNCHANGED <<abi, agenda, builder, linker, inlineExports, returned>>

-----------------------------------------------------------------------------

Init ==
  /\ abi \in Abis
  /\ agenda = <<Call("modules", Component, Component)>>
              \o [k \in DOMAIN abi.imports |-> Call("resolve", Component, k)]
              \o <<Call("createImportInstance", Component, Component),
                   Call("program", Component, Component)>>
              \o [e \in DOMAIN abi.exports |-> Call("instantiate", Component, e)]
  /\ result = "running"
  /\ counters = [s \in Scopes |-> Zero]
  /\ definitions = [s \in Scopes |-> <<>>]
  /\ space = [s \in Scopes |-> Nothing]
  /\ existing = [s \in Scopes |-> NoTypes]
  /\ instances = [i \in Interfaces |-> Absent]
  /\ interfaces = [i \in Interfaces |-> Absent]
  /\ cached = [o \in Options |-> Absent]
  /\ core = [c \in {"libc", "program"} |-> Absent]
  /\ inlineExports = {} /\ returned = Absent

Next ==
  \/ Alias \/ Apply \/ Known
  \/ ImportInstance \/ Import \/ InterfaceType \/ EndInterface
  \/ ExportResource \/ ExportType \/ exportTypeEq
  \/ ExportFunction \/ FunctionType \/ DeclareFunction
  \/ AddType \/ DefineType \/ Remember
  \/ ImportFromSame \/ ImportFromOuter \/ ImportType
  \/ AliasType \/ AliasOuter \/ IllegalReference
  \/ Modules \/ Resolve \/ AliasFunction \/ CanonLower \/ Allocate \/ AddCanonPrimitive
  \/ CreateImportInstance \/ InstantiateProgram
  \/ Instantiate \/ MapExported \/ ListType \/ Lift \/ CanonLift \/ Instance \/ Export
  \/ Done

Spec == Init /\ [][Next]_vars /\ WF_vars(Next)

-----------------------------------------------------------------------------
(* Properties.                                                             *)

\* What a call works on.
Operands(name) ==
  CASE name \in {"exportType", "exportTypeEq", "type", "define", "remember", "importFromOuter",
                 "importType", "alias", "outer", "listType", "listed"} -> Types
    [] name \in {"importInstance", "import", "interfaceType", "endInterface"} -> Interfaces
    [] name \in {"exportFunction", "functionType", "declareFunction"} -> Funcs
    [] name = "require" -> Options
    [] name = "apply" -> (DOMAIN definitions[Component]) \X Options
    [] name \in {"resolve", "allocate"} -> DOMAIN abi.imports
    [] name \in {"aliasFunction", "lower"} ->
         {k \in DOMAIN abi.imports : abi.imports[k].is = "lower"}
    [] name = "primitive" -> (DOMAIN abi.imports) \X Nat
    [] name \in {"instantiate", "instance", "export"} -> DOMAIN abi.exports
    [] name \in {"lift", "canonLift"} ->
         {call \in (DOMAIN abi.exports) \X Nat : call[2] \in DOMAIN abi.exports[call[1]].functions}
    [] OTHER -> {Component}

\* What a definition defines, and what is found at an index.
Entities ==
  ({"type", "named"} \X Types) \cup ({"interface", "import"} \X Interfaces)
  \cup ({"function"} \X Funcs) \cup ({"core export"} \X Options)
  \cup ({"core", "module"} \X {"libc", "program", "imports"})
  \cup ({"imported", "core import", "export", "exported"} \X Nat)
  \cup ({"lifted"} \X (Nat \X Nat))
Refs == [sort : Sorts, index : Index, means : Entities]
Definitions ==
  [defines : Entities, refs : SUBSET Refs, outer : SUBSET Refs, seen : [Sorts -> Nat]]

\* Calls carry what they need, and the maps of the linker hold indices.
TypeOK ==
  /\ abi \in Abis /\ result \in {"running", "done", "illegal"}
  /\ agenda \in Seq(ToSet(agenda))
  /\ \A n \in DOMAIN agenda :
       agenda[n][2] \in Scopes /\ agenda[n][3] \in Operands(agenda[n][1])
  /\ counters \in [Scopes -> [Sorts -> Nat]]
  /\ definitions \in [Scopes -> Seq(Definitions)]
  /\ space \in [Scopes -> [Sorts -> Seq(Entities)]]
  /\ existing \in [Scopes -> [Types -> Index]]
  /\ instances \in [Interfaces -> Index] /\ interfaces \in [Interfaces -> Index]
  /\ cached \in [Options -> Index] /\ core \in [{"libc", "program"} -> Index]
  /\ inlineExports \subseteq Refs /\ returned \in Index

\* What is found at an index is what the linker means by it.
Denotes(found, means) == found = means \/ (means[1] = "type" /\ found = <<"named", means[2]>>)

\* The first export of the component takes an index that the builder does not count.
AfterExport(scope, n) ==
  \E m \in 1..n - 1 : definitions[scope][m].defines[1] = "exported"

\* Whatever a definition refers to has been defined before it, and is what the linker
\* took it for: no call between the choice of an index and the definition that takes
\* it uses that index up.  Only instances are found elsewhere, after an export.
ReferencesResolve ==
  \A scope \in Scopes : \A n \in DOMAIN definitions[scope] :
    \A ref \in definitions[scope][n].refs :
      /\ ref.index \in 0..definitions[scope][n].seen[ref.sort] - 1
      /\ \/ Denotes(space[scope][ref.sort][ref.index + 1], ref.means)
         \/ ref.sort = "componentInstance" /\ AfterExport(scope, n)

\* A component imports an interface once, however its types and functions are reached.
ImportedOnce ==
  \A m, n \in DOMAIN definitions[Component] : \A i \in Interfaces :
    /\ definitions[Component][m].defines = <<"import", i>>
    /\ definitions[Component][n].defines = <<"import", i>>
    => m = n

\* In the type of an interface, whatever mentions a type that is exported there
\* before refers to the export and not to the type behind it.
ExportsAreNamed ==
  \A i \in Interfaces : \A n \in DOMAIN definitions[i] :
    \A ref \in definitions[i][n].refs :
      LET named == <<"named", ref.means[2]>>
          before == SubSeq(space[i]["componentType"], 1, definitions[i][n].seen["componentType"])
      IN  /\ ref.sort = "componentType" /\ ref.means[1] = "type"
          /\ definitions[i][n].defines[1] # "named"
          /\ named \in ToSet(before)
          => space[i]["componentType"][ref.index + 1] = named

\* The linker ends: interfaces and types that use each other are all defined, and
\* nothing is taken from a map before it is there.
Completes == <>(result # "running")
=============================================================================
