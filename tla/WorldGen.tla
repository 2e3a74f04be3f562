------------------------------ MODULE WorldGen ------------------------------
(***************************************************************************)
(* The bindings generator: wit_bindgen_dart_internal (lib.rs) with the     *)
(* DartWorldGenerator it drives (bindgen.rs) and the libraries that are    *)
(* written (dart_source.rs).  First a Dart library for every package, then *)
(* for every run a library and an ABI description of one world.  The       *)
(* wit_parser::Resolve is external: what is read of it is a constant.      *)
(*                                                                         *)
(* The calls that are still to be made are a stack, agenda: a step takes   *)
(* the first call from it and puts the calls that this one makes in its    *)
(* place.  Names are pairs of what the source formats into them, a prefix  *)
(* and an index.  A definition counts as written when its name is          *)
(* remembered; the code writes it after those that it mentions.            *)
(***************************************************************************)
EXTENDS Naturals, FiniteSets, Sequences, SequencesExt

CONSTANTS
  Packages, Interfaces, Funcs, Types, Vtables, Worlds,
  NoPackage,        \* the package of what has none
  NoWorld,          \* what a run asks for that selects no world
  PackageOrder,     \* Resolve::topological_packages
  InterfacesOf,     \* [Packages -> Seq(Interfaces)], those with a name
  PackageOf,        \* [Interfaces -> Packages \cup {NoPackage}]
  FunctionsOf,      \* [Interfaces -> Seq(Funcs)]
  Owner,            \* [Types -> Packages \cup {NoPackage}], the owner's package
  Payloads,         \* [Types -> Seq(Types)], what the cases of a variant mention
  Signature,        \* [Funcs -> Seq(Types)], what a signature mentions
  Async, PostReturn, \* functions that are async or need a post-return
  StreamsFutures,   \* [Funcs -> Seq(Vtables)], find_futures_and_streams
  Params, Results,  \* [Funcs -> SUBSET Types], resources owned by either
  Streams,          \* the Vtables that are streams; the others are futures
  Void,             \* the Vtables without element type
  Elements,         \* [Vtables -> Seq(Types)], what the element type mentions
  ElementVtables,   \* [Vtables -> SUBSET Vtables], what an element is made of
  ElementOwns,      \* [Vtables -> SUBSET Types], resources an element owns
  ImportsOf, ExportsOf, \* [Worlds -> Seq(Interfaces)]
  ExportsFunctions, \* worlds that export functions of their own
  MaxRuns           \* bound: runs of one generation

ASSUME SetsAssumption ==
  /\ IsFiniteSet(Types) /\ Types \cap Vtables = {}
  /\ Streams \subseteq Vtables /\ Void \subseteq Vtables
  /\ Async \subseteq Funcs /\ PostReturn \subseteq Funcs
  /\ ExportsFunctions \subseteq Worlds
  /\ MaxRuns \in Nat
ASSUME ResolveAssumption ==
  /\ PackageOrder \in Seq(Packages)
  /\ InterfacesOf \in [Packages -> Seq(Interfaces)]
  /\ PackageOf \in [Interfaces -> Packages \cup {NoPackage}]
  /\ FunctionsOf \in [Interfaces -> Seq(Funcs)]
  /\ Owner \in [Types -> Packages \cup {NoPackage}]
  /\ Payloads \in [Types -> Seq(Types)]
  /\ Signature \in [Funcs -> Seq(Types)]
  /\ StreamsFutures \in [Funcs -> Seq(Vtables)]
  /\ Params \in [Funcs -> SUBSET Types]
  /\ Results \in [Funcs -> SUBSET Types]
  /\ Elements \in [Vtables -> Seq(Types)]
  /\ ElementVtables \in [Vtables -> SUBSET Vtables]
  /\ ElementOwns \in [Vtables -> SUBSET Types]
  /\ ImportsOf \in [Worlds -> Seq(Interfaces)]
  /\ ExportsOf \in [Worlds -> Seq(Interfaces)]
\* wit_parser's find_futures_and_streams lists what an element is made of before
\* the stream or future itself, and may list both again.
ASSUME InnerFirstAssumption ==
  \A f \in Funcs : \A i \in DOMAIN StreamsFutures[f] :
    ElementVtables[StreamsFutures[f][i]] \subseteq {StreamsFutures[f][j] : j \in 1 .. i - 1}
\* An interface with a name has the package that lists it.
ASSUME PackagesAssumption ==
  \A p \in Packages : \A i \in ToSet(InterfacesOf[p]) : PackageOf[i] = p
\* The imports and the exports of a wit_parser::World are maps.
ASSUME WorldsAssumption ==
  \A w \in Worlds : IsInjective(ImportsOf[w]) /\ IsInjective(ExportsOf[w])
ASSUME NoAssumption == NoPackage \notin Packages /\ NoWorld \notin Worlds

VARIABLES
  runs,         \* GenerateDartOptions.runs, the worlds to generate
  agenda,       \* the calls to make, the innermost first
  result,       \* how the generation ended, "running" before that
  import_map,   \* the packages whose library is written
  outputs,      \* the generated files
  library,      \* the file of the DartSource
  definitions, interface_names, type_definitions, stream_future_vtables,
  uses,         \* <<file, name>>: names that the text mentions
  imports,      \* names of ImportsAndExports.imports
  functions,    \* core functions of the exports, by export_id
  local_exports

dart == <<definitions, interface_names, type_definitions, uses>>
io == <<imports, functions, local_exports>>
vars == <<runs, agenda, result, import_map, outputs, library, dart,
          stream_future_vtables, io>>

-----------------------------------------------------------------------------
(* Calls.                                                                  *)

Call(name, of) == [do |-> name, of |-> of]
Each(name, seq) == [n \in DOMAIN seq |-> Call(name, seq[n])]

Calls(names, set) == [do : names, of : set]
AllCalls ==
  Calls({"package", "endPackage"}, Packages) \cup
  Calls({"define_interface", "import_interface", "endImport", "export_interface",
         "endExport", "exported", "getter"}, Interfaces) \cup
  Calls({"signature", "vtables", "imported_function", "exported_function"}, Funcs) \cup
  Calls({"type"}, Types) \cup Calls({"vtable"}, Vtables) \cup
  Calls({"run"}, Worlds \cup {NoWorld}) \cup
  Calls({"export_funcs", "finish", "endRun"}, Worlds)

\* The next call is one of the given name.
At(name) == result = "running" /\ agenda # <<>> /\ Head(agenda).do = name
This == Head(agenda).of
Then(calls) == agenda' = calls \o Tail(agenda)

-----------------------------------------------------------------------------
(* DartSource.                                                             *)

\* The library that a name of package p is taken from.
type_name(p) == IF p \in import_map THEN <<"package", p>> ELSE library

\* A definition of package p is written unless it is in p's own library.
consume_definition(p, name) ==
  definitions' = IF p \in import_map THEN definitions ELSE Append(definitions, name)

DefineInterface ==
  LET p == PackageOf[This]  name == <<"interface", This>> IN
  /\ At("define_interface") /\ This \notin interface_names
  /\ interface_names' = interface_names \cup {This}
  /\ uses' = uses \cup {<<type_name(p), name>>}
  /\ consume_definition(p, name)
  /\ Then(IF p \in import_map THEN <<>> ELSE Each("signature", FunctionsOf[This]))
  /\ UNCHANGED <<runs, result, import_map, outputs, library, type_definitions,
                 stream_future_vtables, io>>

\* define_enum, define_resource, define_variant, define_flags
DefineType_Forgotten ==
  LET p == Owner[This]  name == <<"type", This>> IN
  /\ At("type") /\ This \notin type_definitions
  /\ type_definitions' = type_definitions
  /\ uses' = uses \cup {<<type_name(p), name>>}
  /\ consume_definition(p, name)
  /\ Then(IF p \in import_map THEN <<>> ELSE Each("type", Payloads[This]))
  /\ UNCHANGED <<runs, result, import_map, outputs, library, interface_names,
                 stream_future_vtables, io>>
DefineType ==
  LET p == Owner[This]  name == <<"type", This>> IN
  /\ At("type") /\ This \notin type_definitions
  /\ type_definitions' = type_definitions \cup {This}
  /\ uses' = uses \cup {<<type_name(p), name>>}
  /\ consume_definition(p, name)
  /\ Then(IF p \in import_map THEN <<>> ELSE Each("type", Payloads[This]))
  /\ UNCHANGED <<runs, result, import_map, outputs, library, interface_names,
                 stream_future_vtables, io>>

\* write_function_signature, and what else mentions the types of a function
WriteSignature ==
  /\ At("signature")
  /\ Then(Each("type", Signature[This]))
  /\ UNCHANGED <<runs, result, import_map, outputs, library, dart,
                 stream_future_vtables, io>>

\* What the library has already is not defined again.
Known ==
  /\ \/ At("define_interface") /\ This \in interface_names
     \/ At("type") /\ This \in type_definitions
     \/ At("vtable") /\ This \in stream_future_vtables
  /\ Then(<<>>)
  /\ UNCHANGED <<runs, result, import_map, outputs, library, dart,
                 stream_future_vtables, io>>

-----------------------------------------------------------------------------
(* Packages.                                                               *)

\* DartSource::new, and a generator with nothing imported or exported.
NewSource(file) ==
  /\ library' = file /\ definitions' = <<>>
  /\ interface_names' = {} /\ type_definitions' = {} /\ stream_future_vtables' = {}
  /\ uses' = {}
  /\ imports' = <<>> /\ functions' = <<>> /\ local_exports' = <<>>

\* The library is written to the outputs.
File == [file |-> library, defines |-> definitions, uses |-> uses,
         imports |-> imports, functions |-> functions]

BeginPackage_Early ==
  /\ At("package") /\ InterfacesOf[This] # <<>>
  /\ NewSource(<<"package", This>>)
  /\ import_map' = import_map \cup {This}
  /\ Then(Each("define_interface", InterfacesOf[This]) \o <<Call("endPackage", This)>>)
  /\ UNCHANGED <<runs, result, outputs>>
BeginPackage ==
  /\ At("package") /\ InterfacesOf[This] # <<>>
  /\ NewSource(<<"package", This>>)
  /\ Then(Each("define_interface", InterfacesOf[This]) \o <<Call("endPackage", This)>>)
  /\ UNCHANGED <<runs, result, import_map, outputs>>

\* Packages without interfaces, and imports without functions.
Skip ==
  /\ \/ At("package") /\ InterfacesOf[This] = <<>>
     \/ At("getter") /\ FunctionsOf[This] = <<>>
  /\ Then(<<>>)
  /\ UNCHANGED <<runs, result, import_map, outputs, library, dart,
                 stream_future_vtables, io>>

EndPackage ==
  /\ At("endPackage")
  /\ outputs' = Append(outputs, File)
  /\ import_map' = import_map \cup {This}
  /\ Then(<<>>)
  /\ UNCHANGED <<runs, result, library, dart, stream_future_vtables, io>>

-----------------------------------------------------------------------------
(* Streams, futures and resources.                                         *)

\* generate_stream_or_future_vtables, for one function
GenerateVtables_OuterFirst ==
  /\ At("vtables")
  /\ Then(Each("vtable", Reverse(StreamsFutures[This])))
  /\ UNCHANGED <<runs, result, import_map, outputs, library, dart,
                 stream_future_vtables, io>>
GenerateVtables ==
  /\ At("vtables")
  /\ Then(Each("vtable", StreamsFutures[This]))
  /\ UNCHANGED <<runs, result, import_map, outputs, library, dart,
                 stream_future_vtables, io>>

\* drop_function: resources that an owned handle was lifted for, for the first time
drop_function_Again(resources) == SetToSeq(resources)
drop_function(resources) == SetToSeq(resources \ stream_future_vtables)

Named(kind, seq) == [n \in DOMAIN seq |-> <<kind, seq[n]>>]

\* take_code: the imports that the generated code needs follow those there are.
take_code_Lost(additional_imports) == imports
take_code(additional_imports) == imports \o additional_imports

VtableKinds == {"new", "read", "write", "drop-readable", "drop-writable"}

\* The streams and futures that are lifted or lowered have a vtable: .unwrap()
\* panics and ends the program, here a step that is missing, when one does not.
HasVtables(vtables) == vtables \subseteq stream_future_vtables

\* The names that code which lifts or lowers vtables and drops resources mentions.
BodyUses(vtables, resources) ==
  {<<library, <<"_Vtable", v>>>> : v \in vtables \ (Void \ Streams)}
  \cup {<<library, <<"_drop", r>>>> : r \in resources}

\* define_stream_vtable and define_future_vtable, which differ in the names only.
\* Three generators, one after the other, free, lower and lift an element: the
\* first one mentions all the resources, so the others have nothing to import.
DefineVtable ==
  LET drops == drop_function(ElementOwns[This])
      import == [k \in VtableKinds |-> <<k, This>>]
  IN
  /\ At("vtable") /\ This \notin stream_future_vtables
  /\ This \in Streams \/ This \notin Void
  /\ HasVtables(ElementVtables[This])
  /\ uses' = uses \cup BodyUses(ElementVtables[This], ElementOwns[This])
  /\ definitions' = definitions \o <<<<"_Vtable", This>>>> \o Named("_drop", drops)
  /\ imports' = take_code(<<import["new"], import["write"], import["drop-readable"],
                            import["drop-writable"]>>
                          \o Named("_drop", drops) \o <<import["read"]>>)
  /\ stream_future_vtables' = stream_future_vtables \cup {This} \cup ToSet(drops)
  /\ Then(Each("type", Elements[This]))
  /\ UNCHANGED <<runs, result, import_map, outputs, library, interface_names,
                 type_definitions, functions, local_exports>>

\* Futures without a value use the vtable of the runtime.
VoidVtable ==
  /\ At("vtable") /\ This \notin stream_future_vtables
  /\ This \in Void \ Streams
  /\ stream_future_vtables' = stream_future_vtables \cup {This}
  /\ Then(<<>>)
  /\ UNCHANGED <<runs, result, import_map, outputs, library, dart, io>>

-----------------------------------------------------------------------------
(* Imported interfaces.                                                    *)

ImportInterface ==
  /\ At("import_interface")
  /\ Then(Each("vtables", FunctionsOf[This])
          \o <<Call("define_interface", This)>>
          \o Each("imported_function", FunctionsOf[This])
          \o <<Call("endImport", This)>>)
  /\ UNCHANGED <<runs, result, import_map, outputs, library, dart,
                 stream_future_vtables, io>>

core_name_Last == <<"_import", Len(imports) - 1>>
core_name == <<"_import", Len(imports)>>

ImportedFunction ==
  LET drops == drop_function(Results[This])
      own == Named("_drop", drops) \o <<core_name>>
  IN
  /\ At("imported_function") /\ HasVtables(ToSet(StreamsFutures[This]))
  /\ definitions' = definitions \o own
  /\ uses' = uses \cup BodyUses(ToSet(StreamsFutures[This]), Results[This])
                  \cup {<<library, core_name>>}
  /\ imports' = take_code(own)
  /\ stream_future_vtables' = stream_future_vtables \cup ToSet(drops)
  /\ Then(<<Call("signature", This)>>)
  /\ UNCHANGED <<runs, result, import_map, outputs, library, interface_names,
                 type_definitions, functions, local_exports>>

EndImport ==
  /\ At("endImport")
  /\ definitions' = Append(definitions, <<"_Imported", This>>)
  /\ Then(<<>>)
  /\ UNCHANGED <<runs, result, import_map, outputs, library, interface_names,
                 type_definitions, uses, stream_future_vtables, io>>

-----------------------------------------------------------------------------
(* Exported interfaces.                                                    *)

ExportInterface ==
  /\ At("export_interface")
  /\ Then(Each("vtables", FunctionsOf[This])
          \o <<Call("define_interface", This), Call("endExport", This)>>)
  /\ UNCHANGED <<runs, result, import_map, outputs, library, dart,
                 stream_future_vtables, io>>

EndExport ==
  /\ At("endExport")
  /\ definitions' = Append(definitions, <<"_unnamedExport", This>>)
  /\ local_exports' = Append(local_exports, This)
  /\ Then(<<>>)
  /\ UNCHANGED <<runs, result, import_map, outputs, library, interface_names,
                 type_definitions, uses, stream_future_vtables, imports,
                 functions>>

\* export_funcs
NoExportedFunctions ==
  /\ At("export_funcs")
  /\ IF This \in ExportsFunctions
     THEN result' = "error" /\ agenda' = agenda
     ELSE result' = result /\ Then(<<>>)
  /\ UNCHANGED <<runs, import_map, outputs, library, dart, stream_future_vtables,
                 io>>

\* finish: the class of the imports and defineComponent, then the exports.
Finish ==
  /\ At("finish") /\ local_exports # <<>>
  /\ definitions' = definitions \o <<<<"Imports", 0>>, <<"Component", 0>>>>
  /\ uses' = uses \cup {<<library, <<"_unnamedExport", i>>>> : i \in ToSet(local_exports)}
  /\ Then(Each("getter", ImportsOf[This]) \o Each("exported", local_exports))
  /\ UNCHANGED <<runs, result, import_map, outputs, library, interface_names,
                 type_definitions, stream_future_vtables, io>>

\* The class of the imports has what has functions.
Getter ==
  /\ At("getter") /\ FunctionsOf[This] # <<>>
  /\ uses' = uses \cup {<<library, <<"_Imported", This>>>>}
  /\ Then(<<Call("define_interface", This)>>)
  /\ UNCHANGED <<runs, result, import_map, outputs, library, definitions,
                 interface_names, type_definitions, stream_future_vtables, io>>

\* A world without exports needs no class of its imports.
FinishEarly ==
  /\ At("finish") /\ local_exports = <<>>
  /\ Then(<<>>)
  /\ UNCHANGED <<runs, result, import_map, outputs, library, dart,
                 stream_future_vtables, io>>

Exported ==
  /\ At("exported")
  /\ Then(Each("exported_function", FunctionsOf[This]))
  /\ UNCHANGED <<runs, result, import_map, outputs, library, dart,
                 stream_future_vtables, io>>

export_id == Len(functions)

ExportedFunction ==
  LET drops == drop_function(Params[This])
      taskReturn == IF This \in Async THEN <<<<"_component_taskReturn", export_id>>>> ELSE <<>>
      postReturn == IF This \in PostReturn \ Async
                    THEN <<<<"_component_postreturn", export_id>>>> ELSE <<>>
      additional_imports == Named("_drop", drops) \o taskReturn
      exported == <<<<"_component", export_id>>>> \o postReturn
  IN
  /\ At("exported_function") /\ HasVtables(ToSet(StreamsFutures[This]))
  /\ definitions' = definitions \o additional_imports \o exported
  /\ uses' = uses \cup BodyUses(ToSet(StreamsFutures[This]), Params[This])
                  \cup {<<library, name>> : name \in ToSet(taskReturn)}
  /\ imports' = take_code(additional_imports)
  /\ functions' = Append(functions, exported)
  /\ stream_future_vtables' = stream_future_vtables \cup ToSet(drops)
  /\ Then(<<Call("signature", This)>>)
  /\ UNCHANGED <<runs, result, import_map, outputs, library, interface_names,
                 type_definitions, local_exports>>

-----------------------------------------------------------------------------
(* Runs.                                                                   *)

\* WorldGenerator::generate visits the imports, the exports, and then finishes.
BeginRun ==
  /\ At("run") /\ This # NoWorld
  /\ NewSource(<<"world", Len(outputs)>>)
  /\ Then(Each("import_interface", ImportsOf[This])
          \o <<Call("export_funcs", This)>>
          \o Each("export_interface", ExportsOf[This])
          \o <<Call("finish", This), Call("endRun", This)>>)
  /\ UNCHANGED <<runs, result, import_map, outputs>>

\* select_world
UnknownWorld ==
  /\ At("run") /\ This = NoWorld
  /\ result' = "error"
  /\ UNCHANGED <<runs, agenda, import_map, outputs, library, dart,
                 stream_future_vtables, io>>

\* The library and its ABI description (serialize_abi) are written.
EndRun ==
  /\ At("endRun")
  /\ outputs' = Append(outputs, File)
  /\ local_exports' = <<>>
  /\ Then(<<>>)
  /\ UNCHANGED <<runs, result, import_map, library, dart, stream_future_vtables,
                 imports, functions>>

Return ==
  /\ result = "running" /\ agenda = <<>>
  /\ result' = "ok"
  /\ UNCHANGED <<runs, agenda, import_map, outputs, library, dart,
                 stream_future_vtables, io>>

Init ==
  /\ runs \in BoundedSeq(Worlds \cup {NoWorld}, MaxRuns)
  /\ agenda = Each("package", PackageOrder) \o Each("run", runs)
  /\ result = "running" /\ import_map = {} /\ outputs = <<>>
  /\ library = <<"package", NoPackage>> /\ definitions = <<>>
  /\ interface_names = {} /\ type_definitions = {} /\ stream_future_vtables = {}
  /\ uses = {}
  /\ imports = <<>> /\ functions = <<>> /\ local_exports = <<>>

Next ==
  \/ BeginPackage \/ Skip \/ EndPackage
  \/ DefineInterface \/ DefineType \/ WriteSignature \/ Known
  \/ GenerateVtables \/ DefineVtable \/ VoidVtable
  \/ ImportInterface \/ ImportedFunction \/ EndImport
  \/ ExportInterface \/ EndExport \/ NoExportedFunctions
  \/ Finish \/ Getter \/ FinishEarly \/ Exported \/ ExportedFunction
  \/ BeginRun \/ UnknownWorld \/ EndRun \/ Return

Spec == Init /\ [][Next]_vars /\ WF_vars(Next)

-----------------------------------------------------------------------------
(* Properties.                                                             *)

DefinitionNames ==
  ({"interface", "_Imported", "_unnamedExport"} \X Interfaces) \cup
  ({"type", "_drop"} \X Types) \cup ({"_Vtable"} \X Vtables) \cup
  ({"_import", "Imports", "Component", "_component", "_component_taskReturn",
    "_component_postreturn"} \X Nat)
ImportNames ==
  (VtableKinds \X Vtables) \cup ({"_drop"} \X Types) \cup
  ({"_import", "_component_taskReturn"} \X Nat)
ExportNames == {"_component", "_component_postreturn"} \X Nat
Files == ({"package"} \X (Packages \cup {NoPackage})) \cup ({"world"} \X Nat)
Outputs == [file : Files, defines : Seq(DefinitionNames),
            uses : SUBSET (Files \X DefinitionNames),
            imports : Seq(ImportNames), functions : Seq(Seq(ExportNames))]

\* Every variable has values of its type; indices of imports are natural numbers.
TypeOK ==
  /\ runs \in Seq(Worlds \cup {NoWorld})
  /\ agenda \in Seq(AllCalls)
  /\ result \in {"running", "ok", "error"}
  /\ import_map \subseteq Packages
  /\ outputs \in Seq(Outputs)
  /\ library \in Files
  /\ definitions \in Seq(DefinitionNames)
  /\ interface_names \subseteq Interfaces
  /\ type_definitions \subseteq Types
  /\ stream_future_vtables \subseteq Vtables \cup Types
  /\ uses \subseteq Files \X DefinitionNames
  /\ imports \in Seq(ImportNames)
  /\ functions \in Seq(Seq(ExportNames))
  /\ local_exports \in Seq(Interfaces)

\* The core module imports every name once: the number in _import{n} is the
\* length of the list of imports, which the vtables, drop functions and
\* task.return functions of other functions make longer (bindgen.rs:603).
UniqueImports == IsInjective(imports)

\* A library defines every name once, although types, interfaces and vtables are
\* reached on many ways: from signatures, cases, elements and other functions.
DefinedOnce == IsInjective(definitions)

\* The imports of the core module that a call of a name of the library needs.
Behind(name) ==
  CASE name[1] = "_Vtable" -> VtableKinds \X {name[2]}
    [] name[1] \in {"_drop", "_import", "_component_taskReturn"} -> {name}
    [] OTHER -> {}

\* The ABI description of a generated file has every import that its code calls.
\* The name of a vtable or drop function is remembered from its first mention on,
\* and later code that finds it remembered relies on the import that the first
\* one left in its own generator until take_code (functions.rs:94).
CalledAreImported ==
  \A out \in ToSet(outputs) : \A use \in out.uses :
    Behind(use[2]) \subseteq ToSet(out.imports)

\* A set has the types that the functions of package p mention, and what the
\* cases of its own types mention, up to the types of other packages.
Mentioned(p, types) ==
  /\ \A i \in ToSet(InterfacesOf[p]) : \A f \in ToSet(FunctionsOf[i]) :
       ToSet(Signature[f]) \subseteq types
  /\ \A t \in types : Owner[t] = p => ToSet(Payloads[t]) \subseteq types

\* The types that the library of package p writes: the smallest such set.
Written(p) ==
  {t \in Types : \A types \in SUBSET Types : Mentioned(p, types) => t \in types}

\* Types that only other packages mention, and interfaces without a name, are
\* taken from a package library that does not have them (dart_source.rs:118).
NotWritten(file, name) ==
  /\ file[1] = "package"
  /\ \/ name[1] = "type" /\ name[2] \notin Written(file[2])
     \/ name[1] = "interface" /\ name[2] \notin ToSet(InterfacesOf[file[2]])

\* What a generated file mentions is defined, in the file or in the library of
\* the package it is taken from, with the exceptions above.
ReferencesResolve ==
  \A out \in ToSet(outputs) : \A use \in out.uses :
    \/ \E lib \in ToSet(outputs) : lib.file = use[1] /\ use[2] \in ToSet(lib.defines)
    \/ NotWritten(use[1], use[2])

\* The generation ends, with files or an error, whatever worlds are asked for: no
\* function and no element of another stream is lifted or lowered before the
\* vtables of its streams and futures are there to be unwrapped (functions.rs:487).
Finishes == <>(result # "running")

=============================================================================
