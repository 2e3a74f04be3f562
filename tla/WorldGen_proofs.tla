--------------------------- MODULE WorldGen_proofs ---------------------------
(***************************************************************************)
(* Proofs about WorldGen for every Resolve: the types of its variables,    *)
(* that no name is imported twice, that a library defines no name twice,   *)
(* that what a library mentions is defined, in it or in the library of a   *)
(* package, and that the functions its code calls are imported.            *)
(***************************************************************************)
EXTENDS WorldGen, SequenceTheorems, FiniteSetTheorems, TLAPS

-----------------------------------------------------------------------------
(* Sequences.                                                              *)

\* A sequence without its head.
LEMMA TailType ==
  ASSUME NEW S, NEW s \in Seq(S), s # <<>>
  PROVE  Head(s) \in S /\ Tail(s) \in Seq(S)
  OBVIOUS

\* The elements of a sequence.
LEMMA ElementsType ==
  ASSUME NEW S, NEW s \in Seq(S)
  PROVE  ToSet(s) \subseteq S
  BY DEF ToSet

\* A larger set of elements.
LEMMA Wider ==
  ASSUME NEW S, NEW T, S \subseteq T, NEW s \in Seq(S)
  PROVE  s \in Seq(T)
  BY SeqMonotonic

\* A sequence of one element or none.
LEMMA OptionalType ==
  ASSUME NEW S, NEW e \in S, NEW there
  PROVE  <<e>> \in Seq(S) /\ (IF there THEN <<e>> ELSE <<>>) \in Seq(S)
  <1>1. <<e>> \in Seq(S) /\ <<>> \in Seq(S)
    OBVIOUS
  <1>. QED  BY <1>1

\* The calls for the elements of a sequence.
LEMMA EachType ==
  ASSUME NEW S, NEW s \in Seq(S), NEW name, Calls({name}, S) \subseteq AllCalls
  PROVE  Each(name, s) \in Seq(AllCalls)
  <1>1. \A n \in 1..Len(s) : Call(name, s[n]) \in AllCalls
    BY DEF Call, Calls
  <1>2. DOMAIN s = 1..Len(s) /\ Len(s) \in Nat
    BY LenProperties
  <1>. QED  BY <1>1, <1>2 DEF Each

\* The names of the elements of a sequence.
LEMMA NamedType ==
  ASSUME NEW S, NEW s \in Seq(S), NEW kind
  PROVE  Named(kind, s) \in Seq({kind} \X S)
  <1>1. DOMAIN s = 1..Len(s) /\ Len(s) \in Nat
    BY LenProperties
  <1>. QED  BY <1>1 DEF Named

\* SetToSeq enumerates a finite set without repetition.
LEMMA Enumerated ==
  ASSUME NEW S, IsFiniteSet(S)
  PROVE  SetToSeq(S) \in Seq(S) /\ IsInjective(SetToSeq(S))
  <1>1. Cardinality(S) \in Nat /\ ExistsBijection(1..Cardinality(S), S)
    BY FS_CardinalityType
  <1>2. \E f \in [1..Cardinality(S) -> S] : IsInjective(f)
    BY <1>1 DEF ExistsBijection, Bijection, Injection, Surjection, IsInjective
  <1>3. SetToSeq(S) \in [1..Cardinality(S) -> S] /\ IsInjective(SetToSeq(S))
    BY <1>2 DEF SetToSeq
  <1>. QED  BY <1>1, <1>3

\* Two sequences without repetition that have nothing in common.
LEMMA ConcatInjective ==
  ASSUME NEW S, NEW s \in Seq(S), NEW t \in Seq(S), IsInjective(s), IsInjective(t),
         \A i \in 1..Len(s), j \in 1..Len(t) : s[i] # t[j]
  PROVE  IsInjective(s \o t)
  <1>1. /\ Len(s) \in Nat /\ Len(t) \in Nat
        /\ DOMAIN s = 1..Len(s) /\ DOMAIN t = 1..Len(t)
        /\ s \o t \in Seq(S) /\ Len(s \o t) = Len(s) + Len(t)
        /\ \A i \in 1..Len(s) + Len(t) :
             (s \o t)[i] = IF i <= Len(s) THEN s[i] ELSE t[i - Len(s)]
    BY LenProperties, ConcatProperties
  <1>2. DOMAIN (s \o t) = 1..Len(s) + Len(t)
    BY <1>1, LenProperties
  <1>3. SUFFICES ASSUME NEW i \in 1..Len(s) + Len(t), NEW j \in 1..Len(s) + Len(t),
                        (s \o t)[i] = (s \o t)[j]
                 PROVE  i = j
    BY <1>2 DEF IsInjective
  <1>4. CASE i <= Len(s) /\ j <= Len(s)
    BY <1>1, <1>3, <1>4 DEF IsInjective
  <1>5. CASE i <= Len(s) /\ j > Len(s)
    <2>1. i \in 1..Len(s) /\ j - Len(s) \in 1..Len(t)
      BY <1>1, <1>5
    <2>. QED  BY <1>1, <1>3, <1>5, <2>1
  <1>6. CASE i > Len(s) /\ j <= Len(s)
    <2>1. j \in 1..Len(s) /\ i - Len(s) \in 1..Len(t)
      BY <1>1, <1>6
    <2>. QED  BY <1>1, <1>3, <1>6, <2>1
  <1>7. CASE i > Len(s) /\ j > Len(s)
    <2>1. i - Len(s) \in DOMAIN t /\ j - Len(s) \in DOMAIN t
      BY <1>1, <1>7
    <2>2. t[i - Len(s)] = t[j - Len(s)]
      BY <1>1, <1>3, <1>7
    <2>3. i - Len(s) = j - Len(s)
      BY <2>1, <2>2 DEF IsInjective
    <2>. QED  BY <1>1, <2>3
  <1>. QED  BY <1>1, <1>4, <1>5, <1>6, <1>7

-----------------------------------------------------------------------------
(* Type correctness.                                                       *)

\* The call that is made next, by its name.
LEMMA ThisType ==
  ASSUME TypeOK, NEW name, At(name)
  PROVE  /\ agenda # <<>> /\ Tail(agenda) \in Seq(AllCalls)
         /\ name \in {"package", "endPackage"} => This \in Packages
         /\ name \in {"define_interface", "import_interface", "endImport",
                      "export_interface", "endExport", "exported", "getter"} => This \in Interfaces
         /\ name \in {"signature", "vtables", "imported_function",
                      "exported_function"} => This \in Funcs
         /\ name = "type" => This \in Types
         /\ name = "vtable" => This \in Vtables
         /\ name = "run" => This \in Worlds \cup {NoWorld}
         /\ name \in {"export_funcs", "finish", "endRun"} => This \in Worlds
  <1>1. agenda \in Seq(AllCalls) /\ agenda # <<>> /\ Head(agenda).do = name
    BY DEF TypeOK, At
  <1>2. Head(agenda) \in AllCalls /\ Tail(agenda) \in Seq(AllCalls)
    BY <1>1, TailType
  <1>. QED  BY <1>1, <1>2 DEF AllCalls, Calls, This

\* Calls are put in the place of the one that makes them.
LEMMA ThenType ==
  ASSUME Tail(agenda) \in Seq(AllCalls), NEW calls \in Seq(AllCalls), Then(calls)
  PROVE  agenda' \in Seq(AllCalls)
  BY DEF Then

\* The list of no calls, and of one.
LEMMA CallType ==
  /\ <<>> \in Seq(AllCalls)
  /\ \A call \in AllCalls : <<call>> \in Seq(AllCalls)
  OBVIOUS

\* What the generator has written so far makes an output.
LEMMA FileType ==
  ASSUME TypeOK
  PROVE  File \in Outputs /\ Append(outputs, File) \in Seq(Outputs)
  <1>1. File \in Outputs
    BY DEF TypeOK, File, Outputs
  <1>. QED  BY <1>1 DEF TypeOK

\* Definitions are taken from a file that exists or will.
LEMMA NameType ==
  ASSUME TypeOK, NEW p \in Packages \cup {NoPackage}, NEW name \in DefinitionNames
  PROVE  /\ type_name(p) \in Files
         /\ consume_definition(p, name) => definitions' \in Seq(DefinitionNames)
         /\ uses \cup {<<type_name(p), name>>} \subseteq Files \X DefinitionNames
  <1>1. type_name(p) \in Files
    BY DEF TypeOK, type_name, Files
  <1>2. consume_definition(p, name) => definitions' \in Seq(DefinitionNames)
    BY DEF TypeOK, consume_definition
  <1>. QED  BY <1>1, <1>2 DEF TypeOK

\* Resources that are dropped have the names of their drop functions.
LEMMA DropType ==
  ASSUME NEW resources \in SUBSET Types
  PROVE  /\ drop_function(resources) \in Seq(Types)
         /\ IsInjective(drop_function(resources))
         /\ ToSet(drop_function(resources)) \subseteq resources \ stream_future_vtables
         /\ Named("_drop", drop_function(resources)) \in Seq({"_drop"} \X Types)
  <1>. DEFINE fresh == resources \ stream_future_vtables
  <1>1. IsFiniteSet(fresh)
    BY SetsAssumption, FS_Subset
  <1>2. SetToSeq(fresh) \in Seq(fresh) /\ IsInjective(SetToSeq(fresh))
    BY <1>1, Enumerated
  <1>3. drop_function(resources) = SetToSeq(fresh)
    BY DEF drop_function
  <1>4. drop_function(resources) \in Seq(Types)
    BY <1>2, <1>3, Wider
  <1>5. ToSet(SetToSeq(fresh)) \subseteq fresh
    BY <1>2, ElementsType
  <1>. QED  BY <1>2, <1>3, <1>4, <1>5, NamedType

\* The initial values have their types.
LEMMA InitType == Init => TypeOK
  <1>. SUFFICES ASSUME Init PROVE TypeOK
    OBVIOUS
  <1>1. runs \in Seq(Worlds \cup {NoWorld})
    BY SetsAssumption DEF Init, BoundedSeq, SeqOf
  <1>2. Each("run", runs) \in Seq(AllCalls)
    BY <1>1, EachType DEF AllCalls, Calls
  <1>3. Each("package", PackageOrder) \in Seq(AllCalls)
    BY ResolveAssumption, EachType DEF AllCalls, Calls
  <1>4. agenda \in Seq(AllCalls)
    BY <1>2, <1>3 DEF Init
  <1>. QED  BY <1>1, <1>4 DEF Init, TypeOK, Files

\* The calls that are made for the parts of a package, interface or function.
LEMMA PartsType ==
  /\ \A s \in Seq(Interfaces) : Each("exported", s) \in Seq(AllCalls)
  /\ \A p \in Packages : Each("define_interface", InterfacesOf[p]) \in Seq(AllCalls)
  /\ \A i \in Interfaces : /\ Each("vtables", FunctionsOf[i]) \in Seq(AllCalls)
                           /\ Each("signature", FunctionsOf[i]) \in Seq(AllCalls)
                           /\ Each("imported_function", FunctionsOf[i]) \in Seq(AllCalls)
                           /\ Each("exported_function", FunctionsOf[i]) \in Seq(AllCalls)
  /\ \A f \in Funcs : /\ Each("type", Signature[f]) \in Seq(AllCalls)
                      /\ Each("vtable", StreamsFutures[f]) \in Seq(AllCalls)
  /\ \A t \in Types : Each("type", Payloads[t]) \in Seq(AllCalls)
  /\ \A v \in Vtables : Each("type", Elements[v]) \in Seq(AllCalls)
  /\ \A w \in Worlds : /\ Each("import_interface", ImportsOf[w]) \in Seq(AllCalls)
                       /\ Each("getter", ImportsOf[w]) \in Seq(AllCalls)
                       /\ Each("export_interface", ExportsOf[w]) \in Seq(AllCalls)
  <1>1. ASSUME NEW s \in Seq(Interfaces),
               NEW name \in {"define_interface", "import_interface", "export_interface",
                             "exported", "getter"}
        PROVE  Each(name, s) \in Seq(AllCalls)
    <2>1. Calls({name}, Interfaces) \subseteq AllCalls
      BY <1>1 DEF AllCalls, Calls
    <2>. QED  BY <2>1, EachType
  <1>2. ASSUME NEW s \in Seq(Funcs),
               NEW name \in {"vtables", "signature", "imported_function",
                             "exported_function"}
        PROVE  Each(name, s) \in Seq(AllCalls)
    <2>1. Calls({name}, Funcs) \subseteq AllCalls
      BY <1>2 DEF AllCalls, Calls
    <2>. QED  BY <2>1, EachType
  <1>3. ASSUME NEW s \in Seq(Types) PROVE Each("type", s) \in Seq(AllCalls)
    <2>1. Calls({"type"}, Types) \subseteq AllCalls
      BY DEF AllCalls, Calls
    <2>. QED  BY <2>1, EachType
  <1>4. ASSUME NEW s \in Seq(Vtables) PROVE Each("vtable", s) \in Seq(AllCalls)
    <2>1. Calls({"vtable"}, Vtables) \subseteq AllCalls
      BY DEF AllCalls, Calls
    <2>. QED  BY <2>1, EachType
  <1>. QED  BY <1>1, <1>2, <1>3, <1>4, ResolveAssumption

\* The steps that only replace a call by those that it makes.
LEMMA CallsType ==
  ASSUME TypeOK,
         WriteSignature \/ Known \/ Skip \/ GenerateVtables \/ ImportInterface
         \/ ExportInterface \/ Exported \/ FinishEarly \/ NoExportedFunctions
         \/ UnknownWorld \/ Return
  PROVE  TypeOK'
  <1>. USE DEF TypeOK, dart, io
  <1>1. CASE WriteSignature
    <2>1. This \in Funcs /\ Tail(agenda) \in Seq(AllCalls)
      BY <1>1, ThisType DEF WriteSignature
    <2>2. Each("type", Signature[This]) \in Seq(AllCalls)
      BY <2>1, PartsType
    <2>. QED  BY <1>1, <2>1, <2>2, ThenType DEF WriteSignature
  <1>2. CASE Known
    <2>1. Tail(agenda) \in Seq(AllCalls)
      BY <1>2, ThisType DEF Known
    <2>. QED  BY <1>2, <2>1, CallType, ThenType DEF Known
  <1>3. CASE Skip
    <2>1. Tail(agenda) \in Seq(AllCalls)
      BY <1>3, ThisType DEF Skip
    <2>. QED  BY <1>3, <2>1, CallType, ThenType DEF Skip
  <1>4. CASE GenerateVtables
    <2>1. This \in Funcs /\ Tail(agenda) \in Seq(AllCalls)
      BY <1>4, ThisType DEF GenerateVtables
    <2>2. Each("vtable", StreamsFutures[This]) \in Seq(AllCalls)
      BY <2>1, PartsType
    <2>. QED  BY <1>4, <2>1, <2>2, ThenType DEF GenerateVtables
  <1>5. CASE ImportInterface
    <2>. DEFINE vtables == Each("vtables", FunctionsOf[This])
                define == <<Call("define_interface", This)>>
                import == Each("imported_function", FunctionsOf[This])
                end == <<Call("endImport", This)>>
    <2>1. This \in Interfaces /\ Tail(agenda) \in Seq(AllCalls)
      BY <1>5, ThisType DEF ImportInterface
    <2>2. vtables \in Seq(AllCalls) /\ import \in Seq(AllCalls)
      BY <2>1, PartsType
    <2>3. define \in Seq(AllCalls) /\ end \in Seq(AllCalls)
      BY <2>1, CallType DEF AllCalls, Calls, Call
    <2>4. Then(vtables \o define \o import \o end)
      BY <1>5 DEF ImportInterface
    <2>5. vtables \o define \o import \o end \in Seq(AllCalls)
      BY <2>2, <2>3, ConcatProperties
    <2>6. agenda' \in Seq(AllCalls)
      BY <2>1, <2>4, <2>5, ThenType
    <2>. QED  BY <1>5, <2>6 DEF ImportInterface
  <1>6. CASE ExportInterface
    <2>. DEFINE vtables == Each("vtables", FunctionsOf[This])
                define == <<Call("define_interface", This), Call("endExport", This)>>
    <2>1. This \in Interfaces /\ Tail(agenda) \in Seq(AllCalls)
      BY <1>6, ThisType DEF ExportInterface
    <2>2. vtables \in Seq(AllCalls)
      BY <2>1, PartsType
    <2>3. define \in Seq(AllCalls)
      BY <2>1 DEF AllCalls, Calls, Call
    <2>4. vtables \o define \in Seq(AllCalls)
      BY <2>2, <2>3, ConcatProperties
    <2>5. agenda' \in Seq(AllCalls)
      BY <1>6, <2>1, <2>4, ThenType DEF ExportInterface
    <2>. QED  BY <1>6, <2>5 DEF ExportInterface
  <1>7. CASE Exported
    <2>1. This \in Interfaces /\ Tail(agenda) \in Seq(AllCalls)
      BY <1>7, ThisType DEF Exported
    <2>2. Each("exported_function", FunctionsOf[This]) \in Seq(AllCalls)
      BY <2>1, PartsType
    <2>. QED  BY <1>7, <2>1, <2>2, ThenType DEF Exported
  <1>8. CASE FinishEarly
    <2>1. Tail(agenda) \in Seq(AllCalls)
      BY <1>8, ThisType DEF FinishEarly
    <2>. QED  BY <1>8, <2>1, CallType, ThenType DEF FinishEarly
  <1>9. CASE NoExportedFunctions
    <2>1. Tail(agenda) \in Seq(AllCalls)
      BY <1>9, ThisType DEF NoExportedFunctions
    <2>2. agenda' \in Seq(AllCalls) /\ result' \in {"running", "ok", "error"}
      BY <1>9, <2>1, CallType, ThenType DEF NoExportedFunctions
    <2>. QED  BY <1>9, <2>2 DEF NoExportedFunctions
  <1>10. CASE UnknownWorld
    BY <1>10 DEF UnknownWorld
  <1>11. CASE Return
    BY <1>11 DEF Return
  <1>. QED  BY <1>1, <1>2, <1>3, <1>4, <1>5, <1>6, <1>7, <1>8, <1>9, <1>10, <1>11

\* The steps that start and end a file.
LEMMA FilesType ==
  ASSUME TypeOK, BeginPackage \/ EndPackage \/ BeginRun \/ EndRun
  PROVE  TypeOK'
  <1>. USE DEF TypeOK, dart, io
  <1>1. CASE BeginPackage
    <2>1. This \in Packages /\ Tail(agenda) \in Seq(AllCalls)
      BY <1>1, ThisType DEF BeginPackage
    <2>2. Each("define_interface", InterfacesOf[This]) \in Seq(AllCalls)
      BY <2>1, PartsType
    <2>3. <<Call("endPackage", This)>> \in Seq(AllCalls)
      BY <2>1, CallType DEF AllCalls, Calls, Call
    <2>4. agenda' \in Seq(AllCalls)
      BY <1>1, <2>1, <2>2, <2>3, ConcatProperties, ThenType DEF BeginPackage
    <2>5. library' \in Files
      BY <1>1, <2>1 DEF BeginPackage, NewSource, Files
    <2>. QED  BY <1>1, <2>4, <2>5 DEF BeginPackage, NewSource
  <1>2. CASE EndPackage
    <2>1. This \in Packages /\ Tail(agenda) \in Seq(AllCalls)
      BY <1>2, ThisType DEF EndPackage
    <2>2. agenda' \in Seq(AllCalls)
      BY <1>2, <2>1, CallType, ThenType DEF EndPackage
    <2>3. outputs' \in Seq(Outputs)
      BY <1>2, FileType DEF EndPackage
    <2>. QED  BY <1>2, <2>1, <2>2, <2>3 DEF EndPackage
  <1>3. CASE BeginRun
    <2>. DEFINE import == Each("import_interface", ImportsOf[This])
                funcs == <<Call("export_funcs", This)>>
                export == Each("export_interface", ExportsOf[This])
                end == <<Call("finish", This), Call("endRun", This)>>
    <2>1. This \in Worlds /\ Tail(agenda) \in Seq(AllCalls)
      BY <1>3, ThisType DEF BeginRun
    <2>2. import \in Seq(AllCalls) /\ export \in Seq(AllCalls)
      BY <2>1, PartsType
    <2>3. funcs \in Seq(AllCalls) /\ end \in Seq(AllCalls)
      BY <2>1 DEF AllCalls, Calls, Call
    <2>4. import \o funcs \o export \o end \in Seq(AllCalls)
      BY <2>2, <2>3, ConcatProperties
    <2>5. Then(import \o funcs \o export \o end)
      BY <1>3 DEF BeginRun
    <2>6. agenda' \in Seq(AllCalls)
      BY <2>1, <2>4, <2>5, ThenType
    <2>7. library' \in Files
      BY <1>3 DEF BeginRun, NewSource, Files
    <2>. QED  BY <1>3, <2>6, <2>7 DEF BeginRun, NewSource
  <1>4. CASE EndRun
    <2>1. Tail(agenda) \in Seq(AllCalls)
      BY <1>4, ThisType DEF EndRun
    <2>2. agenda' \in Seq(AllCalls)
      BY <1>4, <2>1, CallType, ThenType DEF EndRun
    <2>3. outputs' \in Seq(Outputs)
      BY <1>4, FileType DEF EndRun
    <2>. QED  BY <1>4, <2>2, <2>3 DEF EndRun
  <1>. QED  BY <1>1, <1>2, <1>3, <1>4

\* The steps that define interfaces and types.
LEMMA DefinesType ==
  ASSUME TypeOK, DefineInterface \/ DefineType \/ EndImport \/ EndExport
  PROVE  TypeOK'
  <1>. USE DEF TypeOK, dart, io
  <1>1. CASE DefineInterface
    <2>1. This \in Interfaces /\ Tail(agenda) \in Seq(AllCalls)
      BY <1>1, ThisType DEF DefineInterface
    <2>2. /\ <<"interface", This>> \in DefinitionNames
          /\ PackageOf[This] \in Packages \cup {NoPackage}
      BY <2>1, ResolveAssumption DEF DefinitionNames
    <2>3. definitions' \in Seq(DefinitionNames) /\ uses' \subseteq Files \X DefinitionNames
      BY <1>1, <2>2, NameType DEF DefineInterface
    <2>4. agenda' \in Seq(AllCalls)
      BY <1>1, <2>1, CallType, PartsType, ThenType DEF DefineInterface
    <2>. QED  BY <1>1, <2>1, <2>3, <2>4 DEF DefineInterface
  <1>2. CASE DefineType
    <2>1. This \in Types /\ Tail(agenda) \in Seq(AllCalls)
      BY <1>2, ThisType DEF DefineType
    <2>2. <<"type", This>> \in DefinitionNames /\ Owner[This] \in Packages \cup {NoPackage}
      BY <2>1, ResolveAssumption DEF DefinitionNames
    <2>3. definitions' \in Seq(DefinitionNames) /\ uses' \subseteq Files \X DefinitionNames
      BY <1>2, <2>2, NameType DEF DefineType
    <2>4. agenda' \in Seq(AllCalls)
      BY <1>2, <2>1, CallType, PartsType, ThenType DEF DefineType
    <2>. QED  BY <1>2, <2>1, <2>3, <2>4 DEF DefineType
  <1>3. CASE EndImport
    <2>1. This \in Interfaces /\ Tail(agenda) \in Seq(AllCalls)
      BY <1>3, ThisType DEF EndImport
    <2>2. <<"_Imported", This>> \in DefinitionNames
      BY <2>1 DEF DefinitionNames
    <2>3. agenda' \in Seq(AllCalls)
      BY <1>3, <2>1, CallType, ThenType DEF EndImport
    <2>. QED  BY <1>3, <2>2, <2>3 DEF EndImport
  <1>4. CASE EndExport
    <2>1. This \in Interfaces /\ Tail(agenda) \in Seq(AllCalls)
      BY <1>4, ThisType DEF EndExport
    <2>2. <<"_unnamedExport", This>> \in DefinitionNames
      BY <2>1 DEF DefinitionNames
    <2>3. agenda' \in Seq(AllCalls)
      BY <1>4, <2>1, CallType, ThenType DEF EndExport
    <2>. QED  BY <1>4, <2>1, <2>2, <2>3 DEF EndExport
  <1>. QED  BY <1>1, <1>2, <1>3, <1>4

\* The streams and futures of a function.
LEMMA FunctionVtables == \A f \in Funcs : ToSet(StreamsFutures[f]) \in SUBSET Vtables
  BY ResolveAssumption, ElementsType

\* What the code that lifts and lowers them, and drops resources, mentions.
LEMMA BodyType ==
  ASSUME TypeOK, NEW vtables \in SUBSET Vtables, NEW resources \in SUBSET Types
  PROVE  BodyUses(vtables, resources) \subseteq Files \X DefinitionNames
  <1>1. library \in Files
    BY DEF TypeOK
  <1>. QED  BY <1>1 DEF BodyUses, DefinitionNames

\* The steps that write vtables, and the void ones that do not.
LEMMA VtablesType ==
  ASSUME TypeOK, DefineVtable \/ VoidVtable
  PROVE  TypeOK'
  <1>. USE DEF TypeOK, dart, io
  <1>1. CASE DefineVtable
    <2>. DEFINE drops == drop_function(ElementOwns[This])
                dropNames == Named("_drop", drops)
                import == [k \in VtableKinds |-> <<k, This>>]
                first == <<import["new"], import["write"], import["drop-readable"],
                           import["drop-writable"]>>
                last == <<import["read"]>>
    <2>1. This \in Vtables /\ Tail(agenda) \in Seq(AllCalls)
      BY <1>1, ThisType DEF DefineVtable
    <2>2. drops \in Seq(Types) /\ dropNames \in Seq({"_drop"} \X Types)
      BY <2>1, DropType, ResolveAssumption
    <2>3. dropNames \in Seq(DefinitionNames) /\ dropNames \in Seq(ImportNames)
      BY <2>2, Wider DEF DefinitionNames, ImportNames
    <2>4. \A k \in VtableKinds : import[k] \in ImportNames
      BY <2>1 DEF ImportNames
    <2>5. first \in Seq(ImportNames) /\ last \in Seq(ImportNames)
      BY <2>4 DEF VtableKinds
    <2>6. imports' \in Seq(ImportNames)
      <3>1. first \o dropNames \o last \in Seq(ImportNames)
        BY <2>3, <2>5, ConcatProperties
      <3>2. imports' = imports \o (first \o dropNames \o last)
        BY <1>1 DEF DefineVtable, take_code
      <3>. QED  BY <3>1, <3>2, ConcatProperties
    <2>7. definitions' \in Seq(DefinitionNames)
      <3>1. <<<<"_Vtable", This>>>> \in Seq(DefinitionNames)
        BY <2>1 DEF DefinitionNames
      <3>2. definitions' = definitions \o <<<<"_Vtable", This>>>> \o dropNames
        BY <1>1 DEF DefineVtable
      <3>. QED  BY <2>3, <3>1, <3>2, ConcatProperties
    <2>8. uses' \subseteq Files \X DefinitionNames
      <3>1. ElementVtables[This] \in SUBSET Vtables /\ ElementOwns[This] \in SUBSET Types
        BY <2>1, ResolveAssumption
      <3>2. BodyUses(ElementVtables[This], ElementOwns[This]) \subseteq Files \X DefinitionNames
        BY <3>1, BodyType
      <3>3. uses' = uses \cup BodyUses(ElementVtables[This], ElementOwns[This])
        BY <1>1 DEF DefineVtable
      <3>. QED  BY <3>2, <3>3
    <2>9. stream_future_vtables' \subseteq Vtables \cup Types
      <3>1. ToSet(drops) \subseteq Types
        BY <2>2, ElementsType
      <3>. QED  BY <1>1, <2>1, <3>1 DEF DefineVtable
    <2>10. agenda' \in Seq(AllCalls)
      BY <1>1, <2>1, PartsType, ThenType DEF DefineVtable
    <2>. QED  BY <1>1, <2>6, <2>7, <2>8, <2>9, <2>10 DEF DefineVtable
  <1>2. CASE VoidVtable
    <2>1. This \in Vtables /\ Tail(agenda) \in Seq(AllCalls)
      BY <1>2, ThisType DEF VoidVtable
    <2>2. agenda' \in Seq(AllCalls)
      BY <1>2, <2>1, CallType, ThenType DEF VoidVtable
    <2>. QED  BY <1>2, <2>1, <2>2 DEF VoidVtable
  <1>. QED  BY <1>1, <1>2

\* The step that writes the code of an imported function.
LEMMA ImportedType ==
  ASSUME TypeOK, ImportedFunction
  PROVE  TypeOK'
  <1>. USE DEF TypeOK, dart, io
  <1>. DEFINE drops == drop_function(Results[This])
              own == Named("_drop", drops) \o <<core_name>>
  <1>1. This \in Funcs /\ Tail(agenda) \in Seq(AllCalls)
    BY ThisType DEF ImportedFunction
  <1>2. /\ drops \in Seq(Types) /\ Named("_drop", drops) \in Seq({"_drop"} \X Types)
        /\ Results[This] \subseteq Types
    BY <1>1, DropType, ResolveAssumption
  <1>3. core_name \in {"_import"} \X Nat
    BY LenProperties DEF core_name
  <1>4. own \in Seq(DefinitionNames)
    <2>1. Named("_drop", drops) \in Seq(DefinitionNames)
      BY <1>2, Wider DEF DefinitionNames
    <2>2. <<core_name>> \in Seq(DefinitionNames)
      BY <1>3 DEF DefinitionNames
    <2>. QED  BY <2>1, <2>2, ConcatProperties
  <1>5. own \in Seq(ImportNames)
    <2>1. Named("_drop", drops) \in Seq(ImportNames)
      BY <1>2, Wider DEF ImportNames
    <2>2. <<core_name>> \in Seq(ImportNames)
      BY <1>3 DEF ImportNames
    <2>. QED  BY <2>1, <2>2, ConcatProperties
  <1>6. imports' \in Seq(ImportNames)
    BY <1>5, ConcatProperties DEF ImportedFunction, take_code
  <1>7. definitions' \in Seq(DefinitionNames)
    BY <1>4, ConcatProperties DEF ImportedFunction
  <1>8. uses' \subseteq Files \X DefinitionNames
    <2>1. <<library, core_name>> \in Files \X DefinitionNames
      BY <1>3 DEF DefinitionNames
    <2>2. BodyUses(ToSet(StreamsFutures[This]), Results[This]) \subseteq Files \X DefinitionNames
      BY <1>1, <1>2, FunctionVtables, BodyType
    <2>3. uses' = uses \cup BodyUses(ToSet(StreamsFutures[This]), Results[This])
                       \cup {<<library, core_name>>}
      BY DEF ImportedFunction
    <2>. QED  BY <2>1, <2>2, <2>3
  <1>9. stream_future_vtables' \subseteq Vtables \cup Types
    <2>1. ToSet(drops) \subseteq Types
      BY <1>2, ElementsType
    <2>. QED  BY <2>1 DEF ImportedFunction
  <1>10. agenda' \in Seq(AllCalls)
    <2>1. <<Call("signature", This)>> \in Seq(AllCalls)
      BY <1>1, CallType DEF AllCalls, Calls, Call
    <2>. QED  BY <1>1, <2>1, ThenType DEF ImportedFunction
  <1>. QED  BY <1>6, <1>7, <1>8, <1>9, <1>10 DEF ImportedFunction

\* The steps that write the class of the imports.
LEMMA FinishType ==
  ASSUME TypeOK, Finish \/ Getter
  PROVE  TypeOK'
  <1>. USE DEF TypeOK, dart, io
  <1>1. CASE Finish
    <2>. DEFINE getters == Each("getter", ImportsOf[This])
                exported == Each("exported", local_exports)
    <2>1. This \in Worlds /\ Tail(agenda) \in Seq(AllCalls)
      BY <1>1, ThisType DEF Finish
    <2>2. getters \in Seq(AllCalls) /\ exported \in Seq(AllCalls)
      BY <2>1, PartsType
    <2>3. agenda' \in Seq(AllCalls)
      <3>1. getters \o exported \in Seq(AllCalls)
        BY <2>2, ConcatProperties
      <3>. QED  BY <1>1, <2>1, <3>1, ThenType DEF Finish
    <2>4. definitions' \in Seq(DefinitionNames)
      <3>1. <<<<"Imports", 0>>, <<"Component", 0>>>> \in Seq(DefinitionNames)
        BY DEF DefinitionNames
      <3>. QED  BY <1>1, <3>1, ConcatProperties DEF Finish
    <2>5. uses' \subseteq Files \X DefinitionNames
      <3>1. ToSet(local_exports) \subseteq Interfaces
        BY ElementsType
      <3>. QED  BY <1>1, <3>1 DEF Finish, DefinitionNames
    <2>. QED  BY <1>1, <2>3, <2>4, <2>5 DEF Finish
  <1>2. CASE Getter
    <2>1. This \in Interfaces /\ Tail(agenda) \in Seq(AllCalls)
      BY <1>2, ThisType DEF Getter
    <2>2. <<Call("define_interface", This)>> \in Seq(AllCalls)
      BY <2>1, CallType DEF AllCalls, Calls, Call
    <2>3. agenda' \in Seq(AllCalls)
      BY <1>2, <2>1, <2>2, ThenType DEF Getter
    <2>4. uses' \subseteq Files \X DefinitionNames
      BY <1>2, <2>1 DEF Getter, DefinitionNames
    <2>. QED  BY <1>2, <2>3, <2>4 DEF Getter
  <1>. QED  BY <1>1, <1>2

\* The step that writes the code of an exported function.
LEMMA ExportedType ==
  ASSUME TypeOK, ExportedFunction
  PROVE  TypeOK'
  <1>. USE DEF TypeOK, dart, io
  <1>. DEFINE drops == drop_function(Params[This])
              taskReturn == IF This \in Async THEN <<<<"_component_taskReturn", export_id>>>>
                                              ELSE <<>>
              postReturn == IF This \in PostReturn \ Async
                            THEN <<<<"_component_postreturn", export_id>>>> ELSE <<>>
              additional == Named("_drop", drops) \o taskReturn
              exported == <<<<"_component", export_id>>>> \o postReturn
  <1>1. This \in Funcs /\ Tail(agenda) \in Seq(AllCalls)
    BY ThisType DEF ExportedFunction
  <1>2. /\ drops \in Seq(Types) /\ Named("_drop", drops) \in Seq({"_drop"} \X Types)
        /\ Params[This] \subseteq Types
    BY <1>1, DropType, ResolveAssumption
  <1>3. export_id \in Nat
    BY LenProperties DEF export_id
  <1>4. additional \in Seq(DefinitionNames)
    <2>1. Named("_drop", drops) \in Seq(DefinitionNames)
      BY <1>2, Wider DEF DefinitionNames
    <2>2. <<"_component_taskReturn", export_id>> \in DefinitionNames
      BY <1>3 DEF DefinitionNames
    <2>3. taskReturn \in Seq(DefinitionNames)
      BY <2>2, OptionalType
    <2>. QED  BY <2>1, <2>3, ConcatProperties
  <1>5. additional \in Seq(ImportNames)
    <2>1. Named("_drop", drops) \in Seq(ImportNames)
      BY <1>2, Wider DEF ImportNames
    <2>2. <<"_component_taskReturn", export_id>> \in ImportNames
      BY <1>3 DEF ImportNames
    <2>3. taskReturn \in Seq(ImportNames)
      BY <2>2, OptionalType
    <2>. QED  BY <2>1, <2>3, ConcatProperties
  <1>6. exported \in Seq(ExportNames) /\ exported \in Seq(DefinitionNames)
    <2>1. /\ <<"_component", export_id>> \in ExportNames
          /\ <<"_component_postreturn", export_id>> \in ExportNames
      BY <1>3 DEF ExportNames
    <2>2. /\ <<<<"_component", export_id>>>> \in Seq(ExportNames)
          /\ postReturn \in Seq(ExportNames)
      BY <2>1, OptionalType
    <2>3. exported \in Seq(ExportNames)
      BY <2>2, ConcatProperties
    <2>4. ExportNames \subseteq DefinitionNames
      BY DEF ExportNames, DefinitionNames
    <2>. QED  BY <2>3, <2>4, Wider
  <1>7. imports' \in Seq(ImportNames)
    BY <1>5, ConcatProperties DEF ExportedFunction, take_code
  <1>8. definitions' \in Seq(DefinitionNames)
    <2>1. definitions' = definitions \o additional \o exported
      BY DEF ExportedFunction
    <2>. QED  BY <1>4, <1>6, <2>1, ConcatProperties
  <1>9. functions' \in Seq(Seq(ExportNames))
    BY <1>6 DEF ExportedFunction
  <1>10. uses' \subseteq Files \X DefinitionNames
    <2>1. BodyUses(ToSet(StreamsFutures[This]), Params[This]) \subseteq Files \X DefinitionNames
      BY <1>1, <1>2, FunctionVtables, BodyType
    <2>2. ToSet(taskReturn) \subseteq DefinitionNames
      <3>1. <<"_component_taskReturn", export_id>> \in DefinitionNames
        BY <1>3 DEF DefinitionNames
      <3>2. taskReturn \in Seq(DefinitionNames)
        BY <3>1, OptionalType
      <3>. QED  BY <3>2, ElementsType
    <2>3. uses' = uses \cup BodyUses(ToSet(StreamsFutures[This]), Params[This])
                       \cup {<<library, name>> : name \in ToSet(taskReturn)}
      BY DEF ExportedFunction
    <2>4. library \in Files /\ uses \subseteq Files \X DefinitionNames
      OBVIOUS
    <2>. HIDE DEF taskReturn
    <2>. QED  BY <2>1, <2>2, <2>3, <2>4
  <1>11. stream_future_vtables' \subseteq Vtables \cup Types
    <2>1. ToSet(drops) \subseteq Types
      BY <1>2, ElementsType
    <2>. QED  BY <2>1 DEF ExportedFunction
  <1>12. agenda' \in Seq(AllCalls)
    <2>1. <<Call("signature", This)>> \in Seq(AllCalls)
      BY <1>1, CallType DEF AllCalls, Calls, Call
    <2>. QED  BY <1>1, <2>1, ThenType DEF ExportedFunction
  <1>. QED  BY <1>7, <1>8, <1>9, <1>10, <1>11, <1>12 DEF ExportedFunction

\* Every step keeps the types.
LEMMA NextType == TypeOK /\ [Next]_vars => TypeOK'
  <1>. SUFFICES ASSUME TypeOK, [Next]_vars PROVE TypeOK'
    OBVIOUS
  <1>1. CASE UNCHANGED vars
    BY <1>1 DEF TypeOK, vars, dart, io
  <1>2. CASE Next
    BY <1>2, CallsType, FilesType, DefinesType, VtablesType, ImportedType, FinishType,
       ExportedType DEF Next
  <1>. QED  BY <1>1, <1>2

\* The variables of the generator keep their types whatever the Resolve and the
\* runs are (bindgen.rs, dart_source.rs).
THEOREM TypeCorrect == Spec => []TypeOK
  BY InitType, NextType, PTL DEF Spec

-----------------------------------------------------------------------------
(* Unique imports.                                                         *)

\* Every import is older than what makes the next one of its kind unique: the
\* vtables and drop functions that are remembered, the length of the list, and
\* the number of exported functions.
ImportsKnown ==
  \A n \in 1..Len(imports) :
    /\ imports[n][1] \in VtableKinds \cup {"_drop"} => imports[n][2] \in stream_future_vtables
    /\ imports[n][1] = "_import" => imports[n][2] < Len(imports)
    /\ imports[n][1] = "_component_taskReturn" => imports[n][2] < Len(functions)

\* The inductive invariant: UniqueImports alone says nothing of the next name.
UInv == TypeOK /\ UniqueImports /\ ImportsKnown

\* What may be added to the imports by a step.
Fresh(name, length) ==
  \/ /\ name[1] \in VtableKinds \cup {"_drop"}
     /\ name[2] \notin stream_future_vtables /\ name[2] \in stream_future_vtables'
  \/ /\ name[1] = "_import"
     /\ Len(imports) <= name[2] /\ name[2] < Len(imports) + length
  \/ /\ name[1] = "_component_taskReturn"
     /\ Len(functions) <= name[2] /\ name[2] < Len(functions')

\* Fresh names that differ keep the invariant.
LEMMA AddImports ==
  ASSUME UInv, TypeOK', NEW added \in Seq(ImportNames), IsInjective(added),
         imports' = imports \o added,
         \A j \in 1..Len(added) : Fresh(added[j], Len(added)),
         stream_future_vtables \subseteq stream_future_vtables',
         Len(functions) <= Len(functions')
  PROVE  UniqueImports' /\ ImportsKnown'
  <1>. DEFINE kinds == VtableKinds \cup {"_drop"}
  <1>1. /\ imports \in Seq(ImportNames) /\ imports' \in Seq(ImportNames)
        /\ functions \in Seq(Seq(ExportNames)) /\ functions' \in Seq(Seq(ExportNames))
    BY DEF UInv, TypeOK
  <1>2. /\ Len(imports) \in Nat /\ Len(added) \in Nat
        /\ Len(functions) \in Nat /\ Len(functions') \in Nat
        /\ Len(imports') = Len(imports) + Len(added)
        /\ \A n \in 1..Len(imports) + Len(added) :
             imports'[n] = IF n <= Len(imports) THEN imports[n] ELSE added[n - Len(imports)]
    BY <1>1, LenProperties, ConcatProperties
  <1>3. /\ \A n \in 1..Len(imports) : imports[n] \in ImportNames
        /\ \A j \in 1..Len(added) : added[j] \in ImportNames
    BY <1>1, ElementOfSeq
  <1>4. \A name \in ImportNames :
          /\ name[1] \in kinds \cup {"_import", "_component_taskReturn"}
          /\ name[1] \in {"_import", "_component_taskReturn"} => name[2] \in Nat
    BY DEF ImportNames, VtableKinds
  <1>5. \A n \in 1..Len(imports), j \in 1..Len(added) : imports[n] # added[j]
    <2>1. SUFFICES ASSUME NEW n \in 1..Len(imports), NEW j \in 1..Len(added),
                          imports[n] = added[j]
                   PROVE  FALSE
      OBVIOUS
    <2>2. Fresh(added[j], Len(added)) /\ added[j] \in ImportNames
      BY <1>3
    <2>3. /\ added[j][1] \in kinds => added[j][2] \in stream_future_vtables
          /\ added[j][1] = "_import" => added[j][2] < Len(imports)
          /\ added[j][1] = "_component_taskReturn" => added[j][2] < Len(functions)
      BY <2>1 DEF UInv, ImportsKnown
    <2>. QED  BY <1>2, <1>4, <2>2, <2>3 DEF Fresh, VtableKinds
  <1>6. UniqueImports'
    BY <1>1, <1>5, ConcatInjective DEF UInv, UniqueImports
  <1>7. ImportsKnown'
    <2>1. SUFFICES ASSUME NEW n \in 1..Len(imports) + Len(added)
          PROVE  /\ imports'[n][1] \in kinds => imports'[n][2] \in stream_future_vtables'
                 /\ imports'[n][1] = "_import" => imports'[n][2] < Len(imports')
                 /\ imports'[n][1] = "_component_taskReturn" => imports'[n][2] < Len(functions')
      BY <1>2 DEF ImportsKnown
    <2>2. CASE n <= Len(imports)
      <3>1. n \in 1..Len(imports) /\ imports'[n] = imports[n]
        BY <1>2, <2>2
      <3>2. imports[n] \in ImportNames
        BY <1>3, <3>1
      <3>. QED  BY <1>2, <1>4, <3>1, <3>2 DEF UInv, ImportsKnown
    <2>3. CASE n > Len(imports)
      <3>. DEFINE j == n - Len(imports)
      <3>1. j \in 1..Len(added) /\ imports'[n] = added[j]
        BY <1>2, <2>3
      <3>2. Fresh(added[j], Len(added)) /\ added[j] \in ImportNames
        BY <1>3, <3>1
      <3>. QED  BY <1>2, <1>4, <3>1, <3>2 DEF Fresh, VtableKinds
    <2>. QED  BY <1>2, <2>2, <2>3
  <1>. QED  BY <1>6, <1>7

\* Imports of one kind that differ in the index.
LEMMA NamedInjective ==
  ASSUME NEW S, NEW s \in Seq(S), IsInjective(s), NEW kind
  PROVE  /\ IsInjective(Named(kind, s))
         /\ Len(Named(kind, s)) = Len(s)
         /\ \A n \in 1..Len(s) : Named(kind, s)[n] = <<kind, s[n]>>
  <1>1. DOMAIN s = 1..Len(s) /\ Len(s) \in Nat
    BY LenProperties
  <1>. QED  BY <1>1 DEF Named, IsInjective

\* Steps that import nothing.
LEMMA NothingImported ==
  ASSUME UInv, UNCHANGED <<imports, functions>>,
         stream_future_vtables \subseteq stream_future_vtables'
  PROVE  UniqueImports' /\ ImportsKnown'
  BY DEF UInv, UniqueImports, ImportsKnown

\* Steps that start a file, whose list of imports is empty.
LEMMA NewFile ==
  ASSUME imports' = <<>>
  PROVE  UniqueImports' /\ ImportsKnown'
  BY DEF UniqueImports, ImportsKnown, IsInjective

\* The drop functions that a step adds are new, and each is added once.
LEMMA DropsFresh ==
  ASSUME NEW resources \in SUBSET Types, NEW length,
         ToSet(drop_function(resources)) \subseteq stream_future_vtables'
  PROVE  LET added == Named("_drop", drop_function(resources))
         IN  /\ added \in Seq(ImportNames) /\ IsInjective(added) /\ Len(added) \in Nat
             /\ \A n \in 1..Len(added) : added[n][1] = "_drop" /\ Fresh(added[n], length)
  <1>. DEFINE drops == drop_function(resources)
              added == Named("_drop", drops)
  <1>1. /\ drops \in Seq(Types) /\ IsInjective(drops)
        /\ ToSet(drops) \subseteq resources \ stream_future_vtables
        /\ added \in Seq({"_drop"} \X Types)
    BY DropType
  <1>2. added \in Seq(ImportNames)
    BY <1>1, Wider DEF ImportNames
  <1>3. /\ IsInjective(added) /\ Len(added) = Len(drops)
        /\ \A n \in 1..Len(drops) : added[n] = <<"_drop", drops[n]>>
    BY <1>1, NamedInjective
  <1>4. \A n \in 1..Len(drops) : drops[n] \in ToSet(drops)
    BY <1>1, LenProperties DEF ToSet
  <1>5. \A n \in 1..Len(added) : added[n][1] = "_drop" /\ Fresh(added[n], length)
    BY <1>1, <1>3, <1>4 DEF Fresh
  <1>. QED  BY <1>2, <1>3, <1>5, LenProperties

\* A vtable's imports are new because the vtable is not remembered.
LEMMA VtableUnique ==
  ASSUME UInv, TypeOK', DefineVtable
  PROVE  UniqueImports' /\ ImportsKnown'
  <1>. DEFINE drops == drop_function(ElementOwns[This])
              dropNames == Named("_drop", drops)
              import == [k \in VtableKinds |-> <<k, This>>]
              first == <<import["new"], import["write"], import["drop-readable"],
                         import["drop-writable"]>>
              last == <<import["read"]>>
              added == first \o dropNames \o last
              length == Len(added)
  <1>1. This \in Vtables /\ ElementOwns[This] \in SUBSET Types
    BY ThisType, ResolveAssumption DEF UInv, DefineVtable
  <1>2. /\ This \notin stream_future_vtables
        /\ stream_future_vtables' = stream_future_vtables \cup {This} \cup ToSet(drops)
        /\ imports' = imports \o added
        /\ functions' = functions
    BY DEF DefineVtable, take_code
  <1>3. /\ dropNames \in Seq(ImportNames) /\ IsInjective(dropNames) /\ Len(dropNames) \in Nat
        /\ \A n \in 1..Len(dropNames) : dropNames[n][1] = "_drop" /\ Fresh(dropNames[n], length)
    <2>1. ToSet(drops) \subseteq stream_future_vtables'
      BY <1>2
    <2>. QED  BY <1>1, <2>1, DropsFresh
  <1>4. \A k \in VtableKinds : import[k] = <<k, This>> /\ import[k] \in ImportNames
    BY <1>1 DEF ImportNames
  <1>5. /\ first \in Seq(ImportNames) /\ Len(first) = 4 /\ IsInjective(first)
        /\ \A n \in 1..4 : first[n][1] \in VtableKinds \ {"read"} /\ first[n][2] = This
    <2>1. /\ import["new"] = <<"new", This>> /\ import["write"] = <<"write", This>>
          /\ import["drop-readable"] = <<"drop-readable", This>>
          /\ import["drop-writable"] = <<"drop-writable", This>>
      BY <1>4 DEF VtableKinds
    <2>2. first \in Seq(ImportNames) /\ Len(first) = 4 /\ DOMAIN first = 1..4
      BY <1>4 DEF VtableKinds
    <2>3. IsInjective(first)
      BY <2>1, <2>2 DEF IsInjective
    <2>. QED  BY <2>1, <2>2, <2>3 DEF VtableKinds
  <1>6. /\ last \in Seq(ImportNames) /\ Len(last) = 1 /\ IsInjective(last)
        /\ last[1] = <<"read", This>>
    BY <1>4 DEF VtableKinds, IsInjective
  <1>7. /\ first \o dropNames \in Seq(ImportNames) /\ IsInjective(first \o dropNames)
        /\ Len(first \o dropNames) = 4 + Len(dropNames)
        /\ \A n \in 1..4 + Len(dropNames) :
             (first \o dropNames)[n] = IF n <= 4 THEN first[n] ELSE dropNames[n - 4]
    <2>1. \A i \in 1..Len(first), j \in 1..Len(dropNames) : first[i] # dropNames[j]
      BY <1>3, <1>5 DEF VtableKinds
    <2>2. IsInjective(first \o dropNames)
      BY <1>3, <1>5, <2>1, ConcatInjective
    <2>. QED  BY <1>3, <1>5, <2>2, ConcatProperties
  <1>8. \A n \in 1..4 + Len(dropNames) :
          /\ (first \o dropNames)[n][1] # "read"
          /\ Fresh((first \o dropNames)[n], length)
    <2>1. SUFFICES ASSUME NEW n \in 1..4 + Len(dropNames)
                   PROVE  /\ (first \o dropNames)[n][1] # "read"
                          /\ Fresh((first \o dropNames)[n], length)
      OBVIOUS
    <2>2. CASE n <= 4
      BY <1>2, <1>3, <1>5, <1>7, <2>2 DEF Fresh
    <2>3. CASE n > 4
      <3>1. n - 4 \in 1..Len(dropNames) /\ (first \o dropNames)[n] = dropNames[n - 4]
        BY <1>3, <1>7, <2>3
      <3>. QED  BY <1>3, <3>1
    <2>. QED  BY <1>3, <2>2, <2>3
  <1>9. Fresh(last[1], length)
    BY <1>2, <1>6 DEF Fresh, VtableKinds
  <1>10. /\ added \in Seq(ImportNames) /\ IsInjective(added)
         /\ Len(added) = 5 + Len(dropNames)
         /\ \A n \in 1..5 + Len(dropNames) :
              added[n] = IF n <= 4 + Len(dropNames) THEN (first \o dropNames)[n]
                         ELSE last[n - (4 + Len(dropNames))]
    <2>1. \A i \in 1..Len(first \o dropNames), j \in 1..Len(last) :
            (first \o dropNames)[i] # last[j]
      <3>1. ASSUME NEW i \in 1..4 + Len(dropNames)
            PROVE  (first \o dropNames)[i] # last[1]
        <4>1. (first \o dropNames)[i][1] # "read"
          BY <1>8
        <4>2. last[1][1] = "read"
          BY <1>6
        <4>. QED  BY <4>1, <4>2
      <3>2. Len(first \o dropNames) = 4 + Len(dropNames)
        BY <1>7
      <3>3. Len(last) = 1
        BY <1>6
      <3>4. \A j \in 1..Len(last) : j = 1
        BY <3>3
      <3>. HIDE DEF first, last, dropNames
      <3>. QED  BY <3>1, <3>2, <3>4
    <2>2. IsInjective(added)
      BY <1>6, <1>7, <2>1, ConcatInjective
    <2>. QED  BY <1>3, <1>6, <1>7, <2>2, ConcatProperties
  <1>11. \A n \in 1..Len(added) : Fresh(added[n], Len(added))
    <2>1. SUFFICES ASSUME NEW n \in 1..5 + Len(dropNames) PROVE Fresh(added[n], length)
      BY <1>10
    <2>2. CASE n <= 4 + Len(dropNames)
      <3>1. n \in 1..4 + Len(dropNames)
        BY <1>3, <2>2
      <3>2. Fresh((first \o dropNames)[n], length)
        BY <1>8, <3>1
      <3>3. added[n] = (first \o dropNames)[n]
        BY <1>10, <2>2
      <3>. QED  BY <3>2, <3>3
    <2>3. CASE n > 4 + Len(dropNames)
      <3>1. n - (4 + Len(dropNames)) = 1
        BY <1>3, <2>3
      <3>2. added[n] = last[1]
        BY <1>3, <1>10, <2>3, <3>1
      <3>. QED  BY <1>9, <3>2
    <2>. QED  BY <1>3, <2>2, <2>3
  <1>12. Len(functions) <= Len(functions')
    BY <1>2, LenProperties DEF UInv, TypeOK
  <1>. QED  BY <1>2, <1>10, <1>11, <1>12, AddImports

\* Drop functions and one more import that is not one of them.
LEMMA DropsAndOne ==
  ASSUME UInv, TypeOK', NEW resources \in SUBSET Types, NEW name \in ImportNames,
         name[1] # "_drop",
         imports' = imports \o (Named("_drop", drop_function(resources)) \o <<name>>),
         Fresh(name, Len(drop_function(resources)) + 1),
         ToSet(drop_function(resources)) \subseteq stream_future_vtables',
         stream_future_vtables \subseteq stream_future_vtables',
         Len(functions) <= Len(functions')
  PROVE  UniqueImports' /\ ImportsKnown'
  <1>. DEFINE drops == Named("_drop", drop_function(resources))
              last == <<name>>
              length == Len(drop_function(resources)) + 1
              added == drops \o last
  <1>1. /\ drops \in Seq(ImportNames) /\ IsInjective(drops) /\ Len(drops) \in Nat
        /\ \A n \in 1..Len(drops) : drops[n][1] = "_drop" /\ Fresh(drops[n], length)
    BY DropsFresh
  <1>2. Len(drops) = Len(drop_function(resources))
    BY DropType, NamedInjective
  <1>3. /\ last \in Seq(ImportNames) /\ IsInjective(last) /\ Len(last) = 1
        /\ last[1] = name
    BY DEF IsInjective
  <1>4. /\ added \in Seq(ImportNames) /\ Len(added) = length
        /\ \A n \in 1..length : added[n] = IF n <= Len(drops) THEN drops[n]
                                           ELSE last[n - Len(drops)]
    BY <1>1, <1>2, <1>3, ConcatProperties
  <1>5. IsInjective(added)
    <2>1. ASSUME NEW i \in 1..Len(drops) PROVE drops[i] # last[1]
      BY <1>1, <1>3
    <2>2. \A j \in 1..Len(last) : j = 1
      BY <1>3
    <2>3. \A i \in 1..Len(drops), j \in 1..Len(last) : drops[i] # last[j]
      BY <2>1, <2>2
    <2>. QED  BY <1>1, <1>3, <2>3, ConcatInjective
  <1>6. \A n \in 1..Len(added) : Fresh(added[n], Len(added))
    <2>1. SUFFICES ASSUME NEW n \in 1..length PROVE Fresh(added[n], length)
      BY <1>4
    <2>2. CASE n <= Len(drops)
      BY <1>1, <1>4, <2>2
    <2>3. CASE ~(n <= Len(drops))
      <3>1. n - Len(drops) = 1
        BY <1>1, <1>2, <2>3
      <3>2. added[n] = name
        BY <1>3, <1>4, <2>3, <3>1
      <3>3. Fresh(name, length)
        OBVIOUS
      <3>. HIDE DEF added, length
      <3>. QED  BY <3>2, <3>3
    <2>. QED  BY <2>2, <2>3
  <1>. QED  BY <1>4, <1>5, <1>6, AddImports

\* An imported function is named for the length of the list before it.
LEMMA ImportedUnique ==
  ASSUME UInv, TypeOK', ImportedFunction
  PROVE  UniqueImports' /\ ImportsKnown'
  <1>. DEFINE drops == drop_function(Results[This])
  <1>1. This \in Funcs /\ Results[This] \in SUBSET Types
    BY ThisType, ResolveAssumption DEF UInv, ImportedFunction
  <1>2. /\ imports' = imports \o (Named("_drop", drops) \o <<core_name>>)
        /\ stream_future_vtables' = stream_future_vtables \cup ToSet(drops)
        /\ functions' = functions
    BY DEF ImportedFunction, take_code
  <1>3. Len(imports) \in Nat /\ Len(functions) \in Nat /\ Len(drops) \in Nat
    BY <1>1, DropType, LenProperties DEF UInv, TypeOK
  <1>4. core_name \in ImportNames /\ core_name[1] = "_import" /\ core_name[2] = Len(imports)
    BY <1>3 DEF core_name, ImportNames
  <1>5. Fresh(core_name, Len(drops) + 1)
    <2>1. Len(imports) < Len(imports) + (Len(drops) + 1)
      BY <1>3
    <2>. HIDE DEF drops
    <2>. QED  BY <1>3, <1>4, <2>1 DEF Fresh
  <1>6. /\ ToSet(drops) \subseteq stream_future_vtables'
        /\ stream_future_vtables \subseteq stream_future_vtables'
        /\ Len(functions) <= Len(functions')
    BY <1>2, <1>3
  <1>7. core_name[1] # "_drop"
    BY <1>4
  <1>. QED  BY <1>1, <1>2, <1>4, <1>5, <1>6, <1>7, DropsAndOne

\* task.return functions are numbered like the exports.
LEMMA ExportedUnique ==
  ASSUME UInv, TypeOK', ExportedFunction
  PROVE  UniqueImports' /\ ImportsKnown'
  <1>. DEFINE drops == drop_function(Params[This])
              dropNames == Named("_drop", drops)
              name == <<"_component_taskReturn", export_id>>
  <1>1. This \in Funcs /\ Params[This] \in SUBSET Types
    BY ThisType, ResolveAssumption DEF UInv, ExportedFunction
  <1>2. stream_future_vtables' = stream_future_vtables \cup ToSet(drops)
    BY DEF ExportedFunction
  <1>3. Len(functions) \in Nat /\ Len(functions') = Len(functions) + 1
    BY LenProperties DEF UInv, TypeOK, ExportedFunction
  <1>4. /\ ToSet(drops) \subseteq stream_future_vtables'
        /\ stream_future_vtables \subseteq stream_future_vtables'
        /\ Len(functions) <= Len(functions')
    BY <1>2, <1>3
  <1>5. CASE This \in Async
    <2>1. imports' = imports \o (dropNames \o <<name>>)
      BY <1>5 DEF ExportedFunction, take_code
    <2>2. name \in ImportNames /\ name[1] = "_component_taskReturn" /\ name[2] = Len(functions)
      BY <1>3 DEF export_id, ImportNames
    <2>3. Fresh(name, Len(drops) + 1)
      <3>. HIDE DEF drops, name
      <3>. QED  BY <1>3, <2>2 DEF Fresh
    <2>4. name[1] # "_drop" /\ name \in ImportNames
      BY <2>2
    <2>. HIDE DEF name
    <2>. QED  BY <1>1, <1>4, <2>1, <2>3, <2>4, DropsAndOne
  <1>6. CASE This \notin Async
    <2>1. /\ dropNames \in Seq(ImportNames) /\ IsInjective(dropNames)
          /\ \A n \in 1..Len(dropNames) : Fresh(dropNames[n], Len(dropNames))
      BY <1>1, <1>2, DropsFresh
    <2>2. imports' = imports \o dropNames
      <3>1. imports' = imports \o (dropNames \o <<>>)
        BY <1>6 DEF ExportedFunction, take_code
      <3>2. dropNames \o <<>> = dropNames
        BY <2>1, ConcatEmptySeq
      <3>. QED  BY <3>1, <3>2
    <2>. HIDE DEF dropNames
    <2>. QED  BY <1>4, <2>1, <2>2, AddImports
  <1>. QED  BY <1>5, <1>6

\* Every step keeps the inductive invariant.
LEMMA NextUnique == UInv /\ [Next]_vars => UInv'
  <1>. SUFFICES ASSUME UInv, [Next]_vars PROVE UInv'
    OBVIOUS
  <1>1. TypeOK'
    BY NextType DEF UInv
  <1>2. CASE UNCHANGED vars
    BY <1>1, <1>2, NothingImported DEF UInv, vars, io
  <1>3. CASE BeginPackage \/ BeginRun
    BY <1>1, <1>3, NewFile DEF UInv, BeginPackage, BeginRun, NewSource
  <1>4. CASE DefineVtable
    BY <1>1, <1>4, VtableUnique DEF UInv
  <1>5. CASE ImportedFunction
    BY <1>1, <1>5, ImportedUnique DEF UInv
  <1>6. CASE ExportedFunction
    BY <1>1, <1>6, ExportedUnique DEF UInv
  <1>7. CASE Skip \/ EndPackage \/ EndRun \/ Return \/ UnknownWorld
    BY <1>1, <1>7, NothingImported DEF UInv, Skip, EndPackage, EndRun, Return, UnknownWorld, io
  <1>8. CASE DefineInterface \/ DefineType \/ WriteSignature \/ Known \/ GenerateVtables
    BY <1>1, <1>8, NothingImported
       DEF UInv, DefineInterface, DefineType, WriteSignature, Known, GenerateVtables, io
  <1>9. CASE VoidVtable \/ ImportInterface \/ EndImport \/ ExportInterface \/ EndExport
    BY <1>1, <1>9, NothingImported
       DEF UInv, VoidVtable, ImportInterface, EndImport, ExportInterface, EndExport, io
  <1>10. CASE NoExportedFunctions \/ Finish \/ Getter \/ FinishEarly \/ Exported
    BY <1>1, <1>10, NothingImported
       DEF UInv, NoExportedFunctions, Finish, Getter, FinishEarly, Exported, io
  <1>. QED  BY <1>2, <1>3, <1>4, <1>5, <1>6, <1>7, <1>8, <1>9, <1>10 DEF Next

\* No name is imported twice by a core module, whatever its world and however many
\* functions, streams, futures and resources it has (bindgen.rs:603): the number in
\* the name of a function is not taken by an import that was added in between.
THEOREM ImportsAreUnique == Spec => []UniqueImports
  <1>1. Init => UInv
    BY InitType, NewFile DEF Init, UInv, UniqueImports, ImportsKnown, IsInjective
  <1>2. UInv => UniqueImports
    BY DEF UInv
  <1>. QED  BY <1>1, <1>2, NextUnique, PTL DEF Spec

-----------------------------------------------------------------------------
(* Unique definitions.                                                     *)

\* The elements of the sequences that steps make.
LEMMA ElementsOf ==
  ASSUME NEW S, NEW s \in Seq(S), NEW t \in Seq(S)
  PROVE  ToSet(s \o t) = ToSet(s) \cup ToSet(t)
  <1>1. /\ Len(s) \in Nat /\ Len(t) \in Nat
        /\ DOMAIN s = 1..Len(s) /\ DOMAIN t = 1..Len(t)
        /\ s \o t \in Seq(S) /\ Len(s \o t) = Len(s) + Len(t)
        /\ \A i \in 1..Len(s) + Len(t) :
             (s \o t)[i] = IF i <= Len(s) THEN s[i] ELSE t[i - Len(s)]
    BY LenProperties, ConcatProperties
  <1>2. DOMAIN (s \o t) = 1..Len(s) + Len(t)
    BY <1>1, LenProperties
  <1>3. ToSet(s \o t) \subseteq ToSet(s) \cup ToSet(t)
    <2>1. SUFFICES ASSUME NEW i \in 1..Len(s) + Len(t)
                   PROVE  (s \o t)[i] \in ToSet(s) \cup ToSet(t)
      BY <1>2 DEF ToSet
    <2>2. CASE i <= Len(s)
      BY <1>1, <2>2 DEF ToSet
    <2>3. CASE ~(i <= Len(s))
      <3>1. i - Len(s) \in DOMAIN t /\ (s \o t)[i] = t[i - Len(s)]
        BY <1>1, <2>3
      <3>. QED  BY <3>1 DEF ToSet
    <2>. QED  BY <2>2, <2>3
  <1>4. ToSet(s) \subseteq ToSet(s \o t)
    <2>1. \A i \in 1..Len(s) : i \in 1..Len(s) + Len(t) /\ (s \o t)[i] = s[i]
      BY <1>1
    <2>. QED  BY <1>1, <1>2, <2>1 DEF ToSet
  <1>5. ToSet(t) \subseteq ToSet(s \o t)
    <2>1. ASSUME NEW j \in 1..Len(t) PROVE t[j] \in ToSet(s \o t)
      <3>1. Len(s) + j \in 1..Len(s) + Len(t) /\ (s \o t)[Len(s) + j] = t[j]
        BY <1>1
      <3>. QED  BY <1>2, <3>1 DEF ToSet
    <2>. QED  BY <1>1, <2>1 DEF ToSet
  <1>. QED  BY <1>3, <1>4, <1>5

\* Names that a library defines once because they are defined by one call.
Once == ({"_Imported", "_unnamedExport"} \X Interfaces) \cup ({"Imports", "Component"} \X {0})

\* The names of this sort that a call will define, itself or by the calls it makes.
Announced(call) ==
  CASE call.do \in {"import_interface", "endImport"} -> {<<"_Imported", call.of>>}
    [] call.do \in {"export_interface", "endExport"} -> {<<"_unnamedExport", call.of>>}
    [] call.do = "finish" -> {"Imports", "Component"} \X {0}
    [] OTHER -> {}
Ahead(calls) == UNION {Announced(calls[n]) : n \in 1..Len(calls)}

\* The calls that start a file.
Starts == {"package", "run"}

\* What the calls of an agenda announce they announce once, and a file is only
\* started after all calls of the one before.
InOrder(calls) ==
  \A i, j \in 1..Len(calls) : i < j =>
    /\ Announced(calls[i]) \cap Announced(calls[j]) = {}
    /\ calls[i].do \in Starts => calls[j].do \in Starts

\* The names that are taken: the interfaces, types, vtables and drop functions
\* that are remembered, the numbers below the lengths of the two lists, and what
\* no call of the agenda is going to define.
TakenBy(known, types, vtables, m, n, ahead) ==
  ({"interface"} \X known) \cup ({"type"} \X types) \cup ({"_Vtable", "_drop"} \X vtables)
  \cup ({"_import"} \X {k \in Nat : k < m})
  \cup ({"_component", "_component_taskReturn", "_component_postreturn"} \X {k \in Nat : k < n})
  \cup (Once \ ahead)
Taken == TakenBy(interface_names, type_definitions, stream_future_vtables,
                 Len(imports), Len(functions), Ahead(agenda))

\* The inductive invariant: what is defined is taken, so that a name that is not
\* is new.
DInv == /\ TypeOK
        /\ DefinedOnce
        /\ ToSet(definitions) \subseteq Taken
        /\ InOrder(agenda)

\* Calls that define none of the names that are defined once.
Quiet(calls) ==
  \A n \in 1..Len(calls) : Announced(calls[n]) = {} /\ calls[n].do \notin Starts

\* Sequences without repetition and without a common element.
LEMMA DisjointConcat ==
  ASSUME NEW S, NEW s \in Seq(S), NEW t \in Seq(S), IsInjective(s), IsInjective(t),
         ToSet(s) \cap ToSet(t) = {}
  PROVE  s \o t \in Seq(S) /\ IsInjective(s \o t) /\ ToSet(s \o t) = ToSet(s) \cup ToSet(t)
  <1>1. \A i \in 1..Len(s), j \in 1..Len(t) : s[i] # t[j]
    BY DEF ToSet
  <1>2. IsInjective(s \o t)
    BY <1>1, ConcatInjective
  <1>. QED  BY <1>2, ElementsOf, ConcatProperties

\* A sequence of one name.
LEMMA OneName ==
  ASSUME NEW S, NEW x \in S
  PROVE  <<x>> \in Seq(S) /\ IsInjective(<<x>>) /\ ToSet(<<x>>) = {x}
  BY DEF ToSet, IsInjective

\* Sequences of a name that there is or is not.
LEMMA OptionalName ==
  ASSUME NEW S, NEW x \in S, NEW there
  PROVE  LET s == IF there THEN <<x>> ELSE <<>>
         IN  s \in Seq(S) /\ IsInjective(s) /\ ToSet(s) \subseteq {x}
  <1>1. ToSet(<<>>) = {} /\ IsInjective(<<>>) /\ <<>> \in Seq(S)
    BY DEF ToSet, IsInjective
  <1>. QED  BY <1>1, OneName

\* What it means for a name of each sort to be taken.
Sorts(taken, known, types, vtables, m, n, ahead) ==
  /\ \A x : <<"interface", x>> \in taken <=> x \in known
  /\ \A x : <<"type", x>> \in taken <=> x \in types
  /\ \A x : <<"_Vtable", x>> \in taken <=> x \in vtables
  /\ \A x : <<"_drop", x>> \in taken <=> x \in vtables
  /\ \A k \in Nat : <<"_import", k>> \in taken <=> k < m
  /\ \A k \in Nat : <<"_component", k>> \in taken <=> k < n
  /\ \A k \in Nat : <<"_component_taskReturn", k>> \in taken <=> k < n
  /\ \A k \in Nat : <<"_component_postreturn", k>> \in taken <=> k < n
  /\ \A name \in Once : name \in taken <=> name \notin ahead

\* The names that are taken, by their sorts.
LEMMA InTaken ==
  ASSUME NEW known, NEW types, NEW vtables, NEW m \in Nat, NEW n \in Nat, NEW ahead
  PROVE  Sorts(TakenBy(known, types, vtables, m, n, ahead), known, types, vtables, m, n, ahead)
  BY DEF TakenBy, Once, Sorts

\* Names stay taken when more is remembered and less is ahead.
LEMMA TakenGrows ==
  ASSUME NEW known, NEW types, NEW vtables, NEW m \in Nat, NEW n \in Nat, NEW ahead,
         NEW known2, NEW types2, NEW vtables2, NEW m2 \in Nat, NEW n2 \in Nat, NEW ahead2,
         known \subseteq known2, types \subseteq types2, vtables \subseteq vtables2,
         m <= m2, n <= n2, ahead2 \subseteq ahead
  PROVE  TakenBy(known, types, vtables, m, n, ahead)
           \subseteq TakenBy(known2, types2, vtables2, m2, n2, ahead2)
  BY DEF TakenBy

\* New names that differ keep the invariant.
LEMMA AddDefinitions ==
  ASSUME DInv, NEW added \in Seq(DefinitionNames), IsInjective(added),
         definitions' = definitions \o added,
         ToSet(added) \cap Taken = {}, ToSet(added) \subseteq Taken', Taken \subseteq Taken'
  PROVE  DefinedOnce' /\ ToSet(definitions') \subseteq Taken'
  <1>1. definitions \in Seq(DefinitionNames) /\ IsInjective(definitions)
    BY DEF DInv, TypeOK, DefinedOnce
  <1>2. ToSet(definitions) \cap ToSet(added) = {}
    BY DEF DInv
  <1>3. /\ IsInjective(definitions \o added)
        /\ ToSet(definitions \o added) = ToSet(definitions) \cup ToSet(added)
    BY <1>1, <1>2, DisjointConcat
  <1>. QED  BY <1>3 DEF DInv, DefinedOnce

\* The rest of an agenda, and what its first call announces.
LEMMA RestInOrder ==
  ASSUME NEW calls \in Seq(AllCalls), calls # <<>>, InOrder(calls)
  PROVE  /\ InOrder(Tail(calls))
         /\ Ahead(calls) = Announced(Head(calls)) \cup Ahead(Tail(calls))
         /\ Announced(Head(calls)) \cap Ahead(Tail(calls)) = {}
         /\ Head(calls).do \in Starts =>
              \A n \in 1..Len(Tail(calls)) : Tail(calls)[n].do \in Starts
  <1>1. /\ Len(calls) \in Nat /\ Len(calls) > 0 /\ Len(Tail(calls)) = Len(calls) - 1
        /\ Head(calls) = calls[1]
        /\ \A n \in 1..Len(calls) - 1 : Tail(calls)[n] = calls[n + 1]
    BY HeadTailProperties, LenProperties
  <1>0. Len(calls) \in Nat
    BY <1>1
  <1>2. InOrder(Tail(calls))
    <2>1. SUFFICES ASSUME NEW i \in 1..Len(calls) - 1, NEW j \in 1..Len(calls) - 1, i < j
          PROVE  /\ Announced(calls[i + 1]) \cap Announced(calls[j + 1]) = {}
                 /\ calls[i + 1].do \in Starts => calls[j + 1].do \in Starts
      BY <1>1 DEF InOrder
    <2>2. i + 1 \in 1..Len(calls) /\ j + 1 \in 1..Len(calls) /\ i + 1 < j + 1
      BY <1>0, <2>1
    <2>. QED  BY <2>2 DEF InOrder
  <1>3. ASSUME NEW n \in 1..Len(calls) - 1
        PROVE  /\ n + 1 \in 1..Len(calls) /\ 1 < n + 1 /\ 1 \in 1..Len(calls)
    BY <1>1
  <1>4. Ahead(calls) \subseteq Announced(Head(calls)) \cup Ahead(Tail(calls))
    <2>1. SUFFICES ASSUME NEW n \in 1..Len(calls), n # 1
                   PROVE  Announced(calls[n]) \subseteq Ahead(Tail(calls))
      BY <1>1 DEF Ahead
    <2>2. PICK k \in 1..Len(calls) - 1 : n = k + 1
      BY <1>0, <2>1
    <2>3. k \in 1..Len(Tail(calls)) /\ Tail(calls)[k] = calls[n]
      BY <1>1, <2>2
    <2>. QED  BY <2>3 DEF Ahead
  <1>5. Announced(Head(calls)) \cup Ahead(Tail(calls)) \subseteq Ahead(calls)
    <2>1. Announced(Head(calls)) \subseteq Ahead(calls)
      BY <1>1 DEF Ahead
    <2>2. ASSUME NEW n \in 1..Len(calls) - 1
          PROVE  Announced(Tail(calls)[n]) \subseteq Ahead(calls)
      BY <1>1, <1>3 DEF Ahead
    <2>3. Ahead(Tail(calls)) \subseteq Ahead(calls)
      BY <1>1, <2>2 DEF Ahead
    <2>. QED  BY <2>1, <2>3
  <1>6. Announced(Head(calls)) \cap Ahead(Tail(calls)) = {}
    <2>1. ASSUME NEW n \in 1..Len(calls) - 1
          PROVE  Announced(Head(calls)) \cap Announced(Tail(calls)[n]) = {}
      BY <1>1, <1>3 DEF InOrder
    <2>. QED  BY <1>1, <2>1 DEF Ahead
  <1>7. ASSUME Head(calls).do \in Starts, NEW n \in 1..Len(calls) - 1
        PROVE  Tail(calls)[n].do \in Starts
    BY <1>1, <1>3, <1>7 DEF InOrder
  <1>. QED  BY <1>1, <1>2, <1>4, <1>5, <1>6, <1>7

\* Calls in front of an agenda that do not start a file.
LEMMA ConcatInOrder ==
  ASSUME NEW s \in Seq(AllCalls), NEW t \in Seq(AllCalls), InOrder(s), InOrder(t),
         \A n \in 1..Len(s) : s[n].do \notin Starts,
         Ahead(s) \cap Ahead(t) = {}
  PROVE  InOrder(s \o t) /\ Ahead(s \o t) = Ahead(s) \cup Ahead(t)
  <1>1. /\ Len(s) \in Nat /\ Len(t) \in Nat /\ Len(s \o t) = Len(s) + Len(t)
        /\ \A i \in 1..Len(s) + Len(t) :
             (s \o t)[i] = IF i <= Len(s) THEN s[i] ELSE t[i - Len(s)]
    BY LenProperties, ConcatProperties
  <1>2. \A i \in 1..Len(s) : Announced(s[i]) \subseteq Ahead(s)
    BY DEF Ahead
  <1>3. \A i \in 1..Len(t) : Announced(t[i]) \subseteq Ahead(t)
    BY DEF Ahead
  <1>4. ASSUME NEW i \in 1..Len(s) + Len(t)
        PROVE  \/ i \in 1..Len(s) /\ (s \o t)[i] = s[i]
               \/ i > Len(s) /\ i - Len(s) \in 1..Len(t) /\ (s \o t)[i] = t[i - Len(s)]
    BY <1>1
  <1>5. InOrder(s \o t)
    <2>1. SUFFICES ASSUME NEW i \in 1..Len(s) + Len(t), NEW j \in 1..Len(s) + Len(t), i < j
          PROVE  /\ Announced((s \o t)[i]) \cap Announced((s \o t)[j]) = {}
                 /\ (s \o t)[i].do \in Starts => (s \o t)[j].do \in Starts
      BY <1>1 DEF InOrder
    <2>2. CASE i \in 1..Len(s) /\ (s \o t)[i] = s[i]
      <3>1. CASE j \in 1..Len(s) /\ (s \o t)[j] = s[j]
        BY <2>1, <2>2, <3>1 DEF InOrder
      <3>2. CASE j > Len(s) /\ j - Len(s) \in 1..Len(t) /\ (s \o t)[j] = t[j - Len(s)]
        BY <1>2, <1>3, <2>2, <3>2
      <3>. QED  BY <1>4, <3>1, <3>2
    <2>3. CASE i > Len(s) /\ i - Len(s) \in 1..Len(t) /\ (s \o t)[i] = t[i - Len(s)]
      <3>1. j > Len(s) /\ j - Len(s) \in 1..Len(t) /\ (s \o t)[j] = t[j - Len(s)]
        BY <1>1, <1>4, <2>1, <2>3
      <3>2. i - Len(s) < j - Len(s)
        BY <1>1, <2>1
      <3>. QED  BY <2>3, <3>1, <3>2 DEF InOrder
    <2>. QED  BY <1>4, <2>2, <2>3
  <1>6. Ahead(s \o t) \subseteq Ahead(s) \cup Ahead(t)
    <2>1. ASSUME NEW i \in 1..Len(s) + Len(t)
          PROVE  Announced((s \o t)[i]) \subseteq Ahead(s) \cup Ahead(t)
      BY <1>2, <1>3, <1>4
    <2>. QED  BY <1>1, <2>1 DEF Ahead
  <1>7. Ahead(s) \cup Ahead(t) \subseteq Ahead(s \o t)
    <2>1. ASSUME NEW i \in 1..Len(s) PROVE Announced(s[i]) \subseteq Ahead(s \o t)
      <3>1. i \in 1..Len(s \o t) /\ (s \o t)[i] = s[i]
        BY <1>1
      <3>. QED  BY <3>1 DEF Ahead
    <2>2. ASSUME NEW i \in 1..Len(t) PROVE Announced(t[i]) \subseteq Ahead(s \o t)
      <3>1. Len(s) + i \in 1..Len(s \o t) /\ (s \o t)[Len(s) + i] = t[i]
        BY <1>1
      <3>. QED  BY <3>1 DEF Ahead
    <2>. QED  BY <2>1, <2>2 DEF Ahead
  <1>. QED  BY <1>5, <1>6, <1>7

\* Calls that start no file, and those that in addition define none of the names
\* that are defined once.
StartsNothing(calls) == \A n \in 1..Len(calls) : calls[n].do \notin Starts

\* Quiet calls are in order.
LEMMA QuietInOrder ==
  ASSUME NEW calls, Quiet(calls)
  PROVE  InOrder(calls) /\ Ahead(calls) = {} /\ StartsNothing(calls)
  BY DEF Quiet, InOrder, Ahead, StartsNothing

\* The names of calls that are not quiet.
Loud == {"import_interface", "endImport", "export_interface", "endExport", "finish"} \cup Starts

\* Calls with other names are quiet.
LEMMA QuietCall == \A name, of : name \notin Loud => Quiet(<<Call(name, of)>>) /\ Quiet(<<>>)
  BY DEF Quiet, Call, Announced, Loud

\* The calls for the elements of a sequence, one by one.
LEMMA EachCall ==
  ASSUME NEW S, NEW s \in Seq(S), NEW name
  PROVE  /\ Len(Each(name, s)) = Len(s)
         /\ \A n \in 1..Len(s) : Each(name, s)[n] = Call(name, s[n])
  <1>1. DOMAIN s = 1..Len(s) /\ Len(s) \in Nat
    BY LenProperties
  <1>. QED  BY <1>1 DEF Each

\* They are quiet if their name is.
LEMMA EachQuiet ==
  ASSUME NEW S, NEW s \in Seq(S), NEW name, name \notin Loud
  PROVE  Quiet(Each(name, s))
  <1>1. \A n \in 1..Len(s) : Announced(Call(name, s[n])) = {} /\ Call(name, s[n]).do \notin Starts
    BY DEF Announced, Call, Loud
  <1>. QED  BY <1>1, EachCall DEF Quiet

\* Calls after others.
LEMMA ConcatCalls ==
  ASSUME NEW s \in Seq(AllCalls), NEW t \in Seq(AllCalls)
  PROVE  /\ s \o t \in Seq(AllCalls)
         /\ StartsNothing(s) /\ StartsNothing(t) => StartsNothing(s \o t)
         /\ Quiet(s) /\ Quiet(t) => Quiet(s \o t)
  <1>1. /\ Len(s) \in Nat /\ Len(t) \in Nat /\ Len(s \o t) = Len(s) + Len(t)
        /\ s \o t \in Seq(AllCalls)
        /\ \A i \in 1..Len(s) + Len(t) :
             (s \o t)[i] = IF i <= Len(s) THEN s[i] ELSE t[i - Len(s)]
    BY LenProperties, ConcatProperties
  <1>2. ASSUME NEW i \in 1..Len(s) + Len(t)
        PROVE  \/ i \in 1..Len(s) /\ (s \o t)[i] = s[i]
               \/ i - Len(s) \in 1..Len(t) /\ (s \o t)[i] = t[i - Len(s)]
    BY <1>1
  <1>. QED  BY <1>1, <1>2 DEF StartsNothing, Quiet

\* A step replaces the first call by calls that announce no more than it did.
LEMMA AgendaInOrder ==
  ASSUME DInv, agenda # <<>>, NEW calls \in Seq(AllCalls),
         InOrder(calls), StartsNothing(calls), Ahead(calls) \subseteq Announced(Head(agenda)),
         agenda' = calls \o Tail(agenda)
  PROVE  /\ InOrder(agenda') /\ Ahead(agenda') \subseteq Ahead(agenda)
         /\ Announced(Head(agenda)) \cap Ahead(agenda') \subseteq Ahead(calls)
  <1>1. agenda \in Seq(AllCalls) /\ InOrder(agenda)
    BY DEF DInv, TypeOK
  <1>2. /\ Tail(agenda) \in Seq(AllCalls) /\ InOrder(Tail(agenda))
        /\ Ahead(agenda) = Announced(Head(agenda)) \cup Ahead(Tail(agenda))
        /\ Announced(Head(agenda)) \cap Ahead(Tail(agenda)) = {}
    BY <1>1, RestInOrder, TailType
  <1>3. Ahead(calls) \cap Ahead(Tail(agenda)) = {}
    BY <1>2
  <1>4. /\ InOrder(calls \o Tail(agenda))
        /\ Ahead(calls \o Tail(agenda)) = Ahead(calls) \cup Ahead(Tail(agenda))
    BY <1>2, <1>3, ConcatInOrder DEF StartsNothing
  <1>. QED  BY <1>2, <1>4

\* A step that makes quiet calls.
QuietStep ==
  /\ agenda # <<>>
  /\ \E calls \in Seq(AllCalls) : Quiet(calls) /\ agenda' = calls \o Tail(agenda)

\* After it what the first call announced is not ahead.
LEMMA QuietAgenda ==
  ASSUME DInv, QuietStep
  PROVE  /\ InOrder(agenda') /\ Ahead(agenda') \subseteq Ahead(agenda)
         /\ Announced(Head(agenda)) \cap Ahead(agenda') = {}
  <1>1. PICK calls \in Seq(AllCalls) : Quiet(calls) /\ agenda' = calls \o Tail(agenda)
    BY DEF QuietStep
  <1>2. InOrder(calls) /\ StartsNothing(calls) /\ Ahead(calls) = {}
    BY <1>1, QuietInOrder
  <1>. QED  BY <1>1, <1>2, AgendaInOrder DEF QuietStep

\* The calls made for the parts of packages, interfaces and functions are quiet,
\* but for imports and exports.
LEMMA QuietParts ==
  /\ \A s \in Seq(Interfaces) : Quiet(Each("exported", s)) /\ Quiet(Each("getter", s))
  /\ \A p \in Packages : Quiet(Each("define_interface", InterfacesOf[p]))
  /\ \A i \in Interfaces : /\ Quiet(Each("vtables", FunctionsOf[i]))
                           /\ Quiet(Each("signature", FunctionsOf[i]))
                           /\ Quiet(Each("imported_function", FunctionsOf[i]))
                           /\ Quiet(Each("exported_function", FunctionsOf[i]))
  /\ \A f \in Funcs : Quiet(Each("type", Signature[f])) /\ Quiet(Each("vtable", StreamsFutures[f]))
  /\ \A t \in Types : Quiet(Each("type", Payloads[t]))
  /\ \A v \in Vtables : Quiet(Each("type", Elements[v]))
  <1>1. {"exported", "getter", "define_interface", "vtables", "signature", "imported_function",
         "exported_function", "type", "vtable"} \cap Loud = {}
    BY DEF Loud, Starts
  <1>. QED  BY <1>1, EachQuiet, ResolveAssumption

\* Steps that define types, functions and vtables, or nothing, are quiet.
LEMMA QuietSteps ==
  ASSUME TypeOK,
         \/ Skip \/ EndPackage \/ DefineInterface \/ DefineType \/ WriteSignature \/ Known
         \/ GenerateVtables \/ DefineVtable \/ VoidVtable \/ ImportedFunction \/ EndImport
         \/ EndExport \/ Finish \/ Getter \/ FinishEarly \/ Exported \/ ExportedFunction \/ EndRun
  PROVE  QuietStep
  <1>0. /\ <<>> \in Seq(AllCalls) /\ Quiet(<<>>)
        /\ \A i \in Interfaces : /\ <<Call("define_interface", i)>> \in Seq(AllCalls)
                                 /\ Quiet(<<Call("define_interface", i)>>)
        /\ \A f \in Funcs : /\ <<Call("signature", f)>> \in Seq(AllCalls)
                            /\ Quiet(<<Call("signature", f)>>)
    <2>1. "define_interface" \notin Loud /\ "signature" \notin Loud
      BY DEF Loud, Starts
    <2>2. /\ \A i \in Interfaces : Call("define_interface", i) \in AllCalls
          /\ \A f \in Funcs : Call("signature", f) \in AllCalls
      BY DEF AllCalls, Calls, Call
    <2>. QED  BY <2>1, <2>2, QuietCall, CallType
  <1>1. CASE Skip \/ EndPackage \/ Known \/ VoidVtable \/ EndImport \/ EndExport \/ FinishEarly
             \/ EndRun
    <2>1. Then(<<>>) /\ agenda # <<>>
      BY <1>1 DEF Skip, EndPackage, Known, VoidVtable, EndImport, EndExport, FinishEarly, EndRun, At
    <2>. QED  BY <1>0, <2>1 DEF Then, QuietStep
  <1>2. CASE DefineInterface
    <2>1. This \in Interfaces /\ agenda # <<>>
      BY <1>2, ThisType DEF DefineInterface
    <2>2. \/ agenda' = Each("signature", FunctionsOf[This]) \o Tail(agenda)
          \/ agenda' = <<>> \o Tail(agenda)
      BY <1>2 DEF DefineInterface, Then
    <2>. QED  BY <1>0, <2>1, <2>2, PartsType, QuietParts DEF QuietStep
  <1>3. CASE DefineType
    <2>1. This \in Types /\ agenda # <<>>
      BY <1>3, ThisType DEF DefineType
    <2>2. \/ agenda' = Each("type", Payloads[This]) \o Tail(agenda)
          \/ agenda' = <<>> \o Tail(agenda)
      BY <1>3 DEF DefineType, Then
    <2>. QED  BY <1>0, <2>1, <2>2, PartsType, QuietParts DEF QuietStep
  <1>4. CASE WriteSignature
    <2>1. This \in Funcs /\ agenda # <<>> /\ Then(Each("type", Signature[This]))
      BY <1>4, ThisType DEF WriteSignature
    <2>. QED  BY <2>1, PartsType, QuietParts DEF QuietStep, Then
  <1>5. CASE GenerateVtables
    <2>1. This \in Funcs /\ agenda # <<>> /\ Then(Each("vtable", StreamsFutures[This]))
      BY <1>5, ThisType DEF GenerateVtables
    <2>. QED  BY <2>1, PartsType, QuietParts DEF QuietStep, Then
  <1>6. CASE DefineVtable
    <2>1. This \in Vtables /\ agenda # <<>> /\ Then(Each("type", Elements[This]))
      BY <1>6, ThisType DEF DefineVtable
    <2>. QED  BY <2>1, PartsType, QuietParts DEF QuietStep, Then
  <1>7. CASE ImportedFunction
    <2>1. This \in Funcs /\ agenda # <<>> /\ Then(<<Call("signature", This)>>)
      BY <1>7, ThisType DEF ImportedFunction
    <2>. QED  BY <1>0, <2>1 DEF QuietStep, Then
  <1>8. CASE ExportedFunction
    <2>1. This \in Funcs /\ agenda # <<>> /\ Then(<<Call("signature", This)>>)
      BY <1>8, ThisType DEF ExportedFunction
    <2>. QED  BY <1>0, <2>1 DEF QuietStep, Then
  <1>9. CASE Getter
    <2>1. This \in Interfaces /\ agenda # <<>> /\ Then(<<Call("define_interface", This)>>)
      BY <1>9, ThisType DEF Getter
    <2>. QED  BY <1>0, <2>1 DEF QuietStep, Then
  <1>10. CASE Exported
    <2>1. /\ This \in Interfaces /\ agenda # <<>>
          /\ Then(Each("exported_function", FunctionsOf[This]))
      BY <1>10, ThisType DEF Exported
    <2>. QED  BY <2>1, PartsType, QuietParts DEF QuietStep, Then
  <1>11. CASE Finish
    <2>1. This \in Worlds /\ agenda # <<>> /\ local_exports \in Seq(Interfaces)
      BY <1>11, ThisType DEF Finish, TypeOK
    <2>2. /\ Each("getter", ImportsOf[This]) \in Seq(AllCalls)
          /\ Quiet(Each("getter", ImportsOf[This]))
          /\ Each("exported", local_exports) \in Seq(AllCalls)
          /\ Quiet(Each("exported", local_exports))
      BY <2>1, PartsType, QuietParts, ResolveAssumption
    <2>3. /\ Each("getter", ImportsOf[This]) \o Each("exported", local_exports) \in Seq(AllCalls)
          /\ Quiet(Each("getter", ImportsOf[This]) \o Each("exported", local_exports))
      BY <2>2, ConcatCalls
    <2>4. Then(Each("getter", ImportsOf[This]) \o Each("exported", local_exports))
      BY <1>11 DEF Finish
    <2>. QED  BY <2>1, <2>3, <2>4 DEF QuietStep, Then
  <1>. QED  BY <1>1, <1>2, <1>3, <1>4, <1>5, <1>6, <1>7, <1>8, <1>9, <1>10, <1>11

\* A call of its own is in order.
LEMMA OneInOrder ==
  ASSUME NEW call
  PROVE  /\ InOrder(<<call>>) /\ Ahead(<<call>>) = Announced(call)
         /\ call.do \notin Starts => StartsNothing(<<call>>)
  BY DEF InOrder, Ahead, StartsNothing

\* An imported interface announces its class once, and its functions do not.
LEMMA ImportInOrder ==
  ASSUME DInv, ImportInterface
  PROVE  InOrder(agenda') /\ Ahead(agenda') \subseteq Ahead(agenda)
  <1>. DEFINE vtables == Each("vtables", FunctionsOf[This])
              define == <<Call("define_interface", This)>>
              import == Each("imported_function", FunctionsOf[This])
              end == <<Call("endImport", This)>>
              quiet == vtables \o define \o import
  <1>1. This \in Interfaces /\ agenda # <<>> /\ Head(agenda).do = "import_interface"
    BY ThisType DEF ImportInterface, DInv, At
  <1>2. /\ vtables \in Seq(AllCalls) /\ import \in Seq(AllCalls)
        /\ Quiet(vtables) /\ Quiet(import)
    BY <1>1, PartsType, QuietParts
  <1>3. define \in Seq(AllCalls) /\ end \in Seq(AllCalls)
    BY <1>1, CallType DEF AllCalls, Calls, Call
  <1>4. Quiet(define)
    BY QuietCall DEF Loud, Starts
  <1>5. agenda' = (quiet \o end) \o Tail(agenda)
    BY DEF ImportInterface, Then
  <1>6. Announced(Head(agenda)) = {<<"_Imported", This>>}
    BY <1>1 DEF Announced, This
  <1>7. Call("endImport", This).do \notin Starts
        /\ Announced(Call("endImport", This)) = {<<"_Imported", This>>}
    BY DEF Announced, Call, Starts
  <1>8. InOrder(end) /\ Ahead(end) = {<<"_Imported", This>>} /\ StartsNothing(end)
    BY <1>7, OneInOrder
  <1>. HIDE DEF vtables, define, import, end
  <1>9. vtables \o define \in Seq(AllCalls) /\ Quiet(vtables \o define)
    BY <1>2, <1>3, <1>4, ConcatCalls
  <1>10. quiet \in Seq(AllCalls) /\ Quiet(quiet)
    BY <1>2, <1>9, ConcatCalls
  <1>. HIDE DEF quiet
  <1>11. InOrder(quiet) /\ Ahead(quiet) = {} /\ StartsNothing(quiet)
    BY <1>10, QuietInOrder
  <1>12. /\ quiet \o end \in Seq(AllCalls) /\ StartsNothing(quiet \o end)
         /\ InOrder(quiet \o end) /\ Ahead(quiet \o end) = {<<"_Imported", This>>}
    BY <1>3, <1>8, <1>10, <1>11, ConcatCalls, ConcatInOrder DEF StartsNothing
  <1>. QED  BY <1>1, <1>5, <1>6, <1>12, AgendaInOrder

\* So does an exported one.
LEMMA ExportInOrder ==
  ASSUME DInv, ExportInterface
  PROVE  InOrder(agenda') /\ Ahead(agenda') \subseteq Ahead(agenda)
  <1>. DEFINE vtables == Each("vtables", FunctionsOf[This])
              define == Call("define_interface", This)
              end == Call("endExport", This)
              last == <<define, end>>
  <1>1. This \in Interfaces /\ agenda # <<>> /\ Head(agenda).do = "export_interface"
    BY ThisType DEF ExportInterface, DInv, At
  <1>2. vtables \in Seq(AllCalls) /\ Quiet(vtables)
    BY <1>1, PartsType, QuietParts
  <1>3. define \in AllCalls /\ end \in AllCalls
    BY <1>1 DEF AllCalls, Calls, Call
  <1>4. agenda' = (vtables \o last) \o Tail(agenda)
    BY DEF ExportInterface, Then
  <1>5. Announced(Head(agenda)) = {<<"_unnamedExport", This>>}
    BY <1>1 DEF Announced, This
  <1>6. /\ define.do \notin Starts /\ end.do \notin Starts
        /\ Announced(define) = {} /\ Announced(end) = {<<"_unnamedExport", This>>}
    BY DEF Announced, Call, Starts
  <1>. HIDE DEF vtables, define, end
  <1>7. InOrder(last) /\ Ahead(last) = {<<"_unnamedExport", This>>} /\ StartsNothing(last)
    <2>1. last[1] = define /\ last[2] = end /\ Len(last) = 2
      OBVIOUS
    <2>2. \A n \in 1..2 : n = 1 \/ n = 2
      OBVIOUS
    <2>. HIDE DEF last
    <2>3. StartsNothing(last)
      BY <1>6, <2>1, <2>2 DEF StartsNothing
    <2>4. InOrder(last)
      BY <1>6, <2>1, <2>2 DEF InOrder
    <2>5. Ahead(last) = {<<"_unnamedExport", This>>}
      BY <1>6, <2>1, <2>2 DEF Ahead
    <2>. QED  BY <2>3, <2>4, <2>5
  <1>8. last \in Seq(AllCalls)
    BY <1>3
  <1>. HIDE DEF last
  <1>9. InOrder(vtables) /\ Ahead(vtables) = {} /\ StartsNothing(vtables)
    BY <1>2, QuietInOrder
  <1>10. /\ vtables \o last \in Seq(AllCalls) /\ StartsNothing(vtables \o last)
         /\ InOrder(vtables \o last) /\ Ahead(vtables \o last) = {<<"_unnamedExport", This>>}
    BY <1>2, <1>7, <1>8, <1>9, ConcatCalls, ConcatInOrder DEF StartsNothing
  <1>. QED  BY <1>1, <1>4, <1>5, <1>10, AgendaInOrder

\* The interfaces of a world differ.
LEMMA InterfacesInOrder ==
  ASSUME NEW s \in Seq(Interfaces), IsInjective(s), NEW name, NEW kind,
         \/ name = "import_interface" /\ kind = "_Imported"
         \/ name = "export_interface" /\ kind = "_unnamedExport"
  PROVE  /\ InOrder(Each(name, s)) /\ StartsNothing(Each(name, s))
         /\ Ahead(Each(name, s)) \subseteq {kind} \X Interfaces
  <1>1. /\ Len(Each(name, s)) = Len(s)
        /\ \A n \in 1..Len(s) : Each(name, s)[n] = Call(name, s[n])
    BY EachCall
  <1>2. \A of : Call(name, of).do \notin Starts /\ Announced(Call(name, of)) = {<<kind, of>>}
    BY DEF Call, Announced, Starts
  <1>3. \A n \in 1..Len(s) : s[n] \in Interfaces
    BY ElementOfSeq
  <1>4. ASSUME NEW i \in 1..Len(s), NEW j \in 1..Len(s), i < j PROVE s[i] # s[j]
    BY <1>4, LenProperties DEF IsInjective
  <1>5. InOrder(Each(name, s))
    BY <1>1, <1>2, <1>4 DEF InOrder
  <1>6. StartsNothing(Each(name, s))
    BY <1>1, <1>2 DEF StartsNothing
  <1>7. Ahead(Each(name, s)) \subseteq {kind} \X Interfaces
    BY <1>1, <1>2, <1>3 DEF Ahead
  <1>. QED  BY <1>5, <1>6, <1>7

\* A run announces the classes of its imports, of its exports, and its own.
LEMMA RunInOrder == ASSUME DInv, BeginRun PROVE InOrder(agenda')
  <1>. DEFINE import == Each("import_interface", ImportsOf[This])
              funcs == <<Call("export_funcs", This)>>
              export == Each("export_interface", ExportsOf[This])
              finish == Call("finish", This)
              end == Call("endRun", This)
              last == <<finish, end>>
  <1>1. This \in Worlds /\ agenda # <<>> /\ Head(agenda).do = "run"
    BY ThisType DEF BeginRun, DInv, At
  <1>2. /\ ImportsOf[This] \in Seq(Interfaces) /\ IsInjective(ImportsOf[This])
        /\ ExportsOf[This] \in Seq(Interfaces) /\ IsInjective(ExportsOf[This])
    BY <1>1, ResolveAssumption, WorldsAssumption
  <1>3. /\ import \in Seq(AllCalls) /\ InOrder(import) /\ StartsNothing(import)
        /\ Ahead(import) \subseteq {"_Imported"} \X Interfaces
    BY <1>1, <1>2, PartsType, InterfacesInOrder
  <1>4. /\ export \in Seq(AllCalls) /\ InOrder(export) /\ StartsNothing(export)
        /\ Ahead(export) \subseteq {"_unnamedExport"} \X Interfaces
    BY <1>1, <1>2, PartsType, InterfacesInOrder
  <1>5. funcs \in Seq(AllCalls) /\ InOrder(funcs) /\ StartsNothing(funcs) /\ Ahead(funcs) = {}
    <2>1. Call("export_funcs", This) \in AllCalls
      BY <1>1 DEF AllCalls, Calls, Call
    <2>2. Quiet(funcs)
      BY QuietCall DEF Loud, Starts
    <2>. QED  BY <2>1, <2>2, CallType, QuietInOrder
  <1>6. /\ last \in Seq(AllCalls) /\ InOrder(last) /\ StartsNothing(last)
        /\ Ahead(last) \subseteq {"Imports", "Component"} \X {0}
    <2>1. /\ finish \in AllCalls /\ end \in AllCalls
          /\ finish.do \notin Starts /\ end.do \notin Starts
          /\ Announced(finish) = {"Imports", "Component"} \X {0} /\ Announced(end) = {}
      BY <1>1 DEF AllCalls, Calls, Call, Announced, Starts
    <2>. HIDE DEF finish, end
    <2>2. last \in Seq(AllCalls) /\ last[1] = finish /\ last[2] = end /\ Len(last) = 2
      BY <2>1
    <2>3. \A n \in 1..2 : n = 1 \/ n = 2
      OBVIOUS
    <2>. HIDE DEF last
    <2>4. StartsNothing(last)
      BY <2>1, <2>2, <2>3 DEF StartsNothing
    <2>5. InOrder(last)
      BY <2>1, <2>2, <2>3 DEF InOrder
    <2>6. Ahead(last) \subseteq {"Imports", "Component"} \X {0}
      BY <2>1, <2>2, <2>3 DEF Ahead
    <2>. QED  BY <2>2, <2>4, <2>5, <2>6
  <1>7. agenda' = (((import \o funcs) \o export) \o last) \o Tail(agenda)
    BY DEF BeginRun, Then
  <1>. HIDE DEF import, funcs, export, finish, end, last
  <1>8. /\ import \o funcs \in Seq(AllCalls) /\ StartsNothing(import \o funcs)
        /\ InOrder(import \o funcs) /\ Ahead(import \o funcs) = Ahead(import)
    BY <1>3, <1>5, ConcatCalls, ConcatInOrder DEF StartsNothing
  <1>. DEFINE two == import \o funcs
  <1>. HIDE DEF two
  <1>9. /\ two \o export \in Seq(AllCalls) /\ StartsNothing(two \o export)
        /\ InOrder(two \o export) /\ Ahead(two \o export) = Ahead(import) \cup Ahead(export)
    <2>1. Ahead(import) \cap Ahead(export) = {}
      BY <1>3, <1>4
    <2>. QED  BY <1>4, <1>8, <2>1, ConcatCalls, ConcatInOrder DEF StartsNothing, two
  <1>. DEFINE three == two \o export
  <1>. HIDE DEF three
  <1>10. /\ three \o last \in Seq(AllCalls) /\ StartsNothing(three \o last)
         /\ InOrder(three \o last)
    <2>1. (Ahead(import) \cup Ahead(export)) \cap Ahead(last) = {}
      BY <1>3, <1>4, <1>6
    <2>. QED  BY <1>6, <1>9, <2>1, ConcatCalls, ConcatInOrder DEF StartsNothing, three
  <1>11. Tail(agenda) \in Seq(AllCalls) /\ InOrder(Tail(agenda)) /\ Ahead(Tail(agenda)) = {}
    <2>1. agenda \in Seq(AllCalls) /\ InOrder(agenda)
      BY DEF DInv, TypeOK
    <2>2. /\ InOrder(Tail(agenda))
          /\ \A n \in 1..Len(Tail(agenda)) : Tail(agenda)[n].do \in Starts
      BY <1>1, <2>1, RestInOrder DEF Starts
    <2>3. \A call : call.do \in Starts => Announced(call) = {}
      BY DEF Announced, Starts
    <2>. QED  BY <1>1, <2>1, <2>2, <2>3, TailType DEF Ahead
  <1>12. InOrder((three \o last) \o Tail(agenda))
    BY <1>10, <1>11, ConcatInOrder DEF StartsNothing
  <1>. QED  BY <1>7, <1>12 DEF three, two

\* So does a package, of which nothing is defined once by one call.
LEMMA PackageInOrder == ASSUME DInv, BeginPackage PROVE InOrder(agenda')
  <1>. DEFINE define == Each("define_interface", InterfacesOf[This])
              end == <<Call("endPackage", This)>>
  <1>1. This \in Packages /\ agenda # <<>>
    BY ThisType DEF BeginPackage, DInv
  <1>2. define \in Seq(AllCalls) /\ Quiet(define)
    BY <1>1, PartsType, QuietParts
  <1>3. end \in Seq(AllCalls) /\ Quiet(end)
    <2>1. Call("endPackage", This) \in AllCalls
      BY <1>1 DEF AllCalls, Calls, Call
    <2>2. Quiet(end)
      BY QuietCall DEF Loud, Starts
    <2>. QED  BY <2>1, <2>2, CallType
  <1>4. agenda' = (define \o end) \o Tail(agenda)
    BY DEF BeginPackage, Then
  <1>. HIDE DEF define, end
  <1>5. define \o end \in Seq(AllCalls) /\ Quiet(define \o end)
    BY <1>2, <1>3, ConcatCalls
  <1>6. QuietStep
    BY <1>1, <1>4, <1>5 DEF QuietStep
  <1>. QED  BY <1>6, QuietAgenda

\* Nothing that is remembered is forgotten, and nothing more is announced.
Remembers ==
  /\ interface_names \subseteq interface_names' /\ type_definitions \subseteq type_definitions'
  /\ stream_future_vtables \subseteq stream_future_vtables'
  /\ Len(imports) <= Len(imports') /\ Len(functions) <= Len(functions')
  /\ Ahead(agenda') \subseteq Ahead(agenda)

\* The two lengths are natural numbers.
LEMMA Lengths == TypeOK => Len(imports) \in Nat /\ Len(functions) \in Nat
  BY LenProperties DEF TypeOK

\* What is taken before and after a step.
LEMMA NowTaken ==
  ASSUME TypeOK
  PROVE  Sorts(Taken, interface_names, type_definitions, stream_future_vtables,
               Len(imports), Len(functions), Ahead(agenda))
  BY Lengths, InTaken DEF Taken

\* The same after a step.
LEMMA ThenTaken ==
  ASSUME TypeOK'
  PROVE  Sorts(Taken', interface_names', type_definitions', stream_future_vtables',
               Len(imports'), Len(functions'), Ahead(agenda'))
  <1>1. Len(imports') \in Nat /\ Len(functions') \in Nat
    BY LenProperties DEF TypeOK
  <1>. QED  BY <1>1, InTaken DEF Taken

\* Steps that define new names that differ.
LEMMA StepDefines ==
  ASSUME DInv, TypeOK', InOrder(agenda'), Remembers,
         NEW added \in Seq(DefinitionNames), IsInjective(added),
         definitions' = definitions \o added,
         ToSet(added) \cap Taken = {}, ToSet(added) \subseteq Taken'
  PROVE  DInv'
  <1>1. Len(imports) \in Nat /\ Len(functions) \in Nat /\ Len(imports') \in Nat /\ Len(functions') \in Nat
    BY LenProperties DEF TypeOK, DInv
  <1>2. Taken \subseteq Taken'
    BY <1>1, TakenGrows DEF Taken, Remembers
  <1>. QED  BY <1>2, AddDefinitions DEF DInv

\* Steps that define nothing.
LEMMA StepDefinesNothing ==
  ASSUME DInv, TypeOK', InOrder(agenda'), Remembers, definitions' = definitions
  PROVE  DInv'
  <1>1. Len(imports) \in Nat /\ Len(functions) \in Nat /\ Len(imports') \in Nat /\ Len(functions') \in Nat
    BY LenProperties DEF TypeOK, DInv
  <1>2. Taken \subseteq Taken'
    BY <1>1, TakenGrows DEF Taken, Remembers
  <1>. QED  BY <1>2 DEF DInv, DefinedOnce

\* Steps that define one name.
LEMMA StepDefinesOne ==
  ASSUME DInv, TypeOK', InOrder(agenda'), Remembers, NEW name \in DefinitionNames,
         definitions' = Append(definitions, name), name \notin Taken, name \in Taken'
  PROVE  DInv'
  <1>1. <<name>> \in Seq(DefinitionNames) /\ IsInjective(<<name>>) /\ ToSet(<<name>>) = {name}
    BY OneName
  <1>2. definitions' = definitions \o <<name>>
    BY AppendIsConcat DEF DInv, TypeOK
  <1>. QED  BY <1>1, <1>2, StepDefines

\* Interfaces and types are defined when they are not remembered.
LEMMA InterfaceDefines == ASSUME DInv, TypeOK', DefineInterface PROVE DInv'
  <1>1. /\ This \in Interfaces /\ This \notin interface_names /\ This \in interface_names'
        /\ definitions' = definitions \/ definitions' = Append(definitions, <<"interface", This>>)
    BY ThisType DEF DefineInterface, consume_definition, DInv
  <1>2. InOrder(agenda') /\ Ahead(agenda') \subseteq Ahead(agenda)
    BY QuietSteps, QuietAgenda DEF DInv
  <1>3. Remembers
    BY <1>2, Lengths DEF DefineInterface, Remembers, DInv, io
  <1>4. <<"interface", This>> \in DefinitionNames
    BY <1>1 DEF DefinitionNames
  <1>5. <<"interface", This>> \notin Taken /\ <<"interface", This>> \in Taken'
    BY <1>1, NowTaken, ThenTaken DEF DInv, Sorts
  <1>. QED  BY <1>1, <1>2, <1>3, <1>4, <1>5, StepDefinesOne, StepDefinesNothing

\* Types.
LEMMA TypeDefines == ASSUME DInv, TypeOK', DefineType PROVE DInv'
  <1>1. /\ This \in Types /\ This \notin type_definitions /\ This \in type_definitions'
        /\ definitions' = definitions \/ definitions' = Append(definitions, <<"type", This>>)
    BY ThisType DEF DefineType, consume_definition, DInv
  <1>2. InOrder(agenda') /\ Ahead(agenda') \subseteq Ahead(agenda)
    BY QuietSteps, QuietAgenda DEF DInv
  <1>3. Remembers
    BY <1>2, Lengths DEF DefineType, Remembers, DInv, io
  <1>4. <<"type", This>> \in DefinitionNames
    BY <1>1 DEF DefinitionNames
  <1>5. <<"type", This>> \notin Taken /\ <<"type", This>> \in Taken'
    BY <1>1, NowTaken, ThenTaken DEF DInv, Sorts
  <1>. QED  BY <1>1, <1>2, <1>3, <1>4, <1>5, StepDefinesOne, StepDefinesNothing

\* The drop functions that a step defines.
LEMMA DropNames ==
  ASSUME TypeOK, TypeOK', NEW resources \in SUBSET Types,
         ToSet(drop_function(resources)) \subseteq stream_future_vtables'
  PROVE  LET names == Named("_drop", drop_function(resources)) IN
         /\ names \in Seq(DefinitionNames) /\ IsInjective(names)
         /\ ToSet(names) \cap Taken = {} /\ ToSet(names) \subseteq Taken'
         /\ ToSet(names) \subseteq {"_drop"} \X Types
         /\ names \in Seq(ImportNames) /\ Len(names) \in Nat
  <1>. DEFINE drops == drop_function(resources)
              names == Named("_drop", drops)
  <1>1. /\ drops \in Seq(Types) /\ IsInjective(drops)
        /\ ToSet(drops) \subseteq resources \ stream_future_vtables
        /\ names \in Seq({"_drop"} \X Types)
    BY DropType
  <1>2. names \in Seq(DefinitionNames) /\ names \in Seq(ImportNames)
    BY <1>1, Wider DEF DefinitionNames, ImportNames
  <1>. HIDE DEF drops
  <1>3. /\ IsInjective(names) /\ Len(names) = Len(drops)
        /\ \A n \in 1..Len(drops) : names[n] = <<"_drop", drops[n]>>
    BY <1>1, NamedInjective
  <1>. HIDE DEF names
  <1>4. ASSUME NEW name \in ToSet(names)
        PROVE  \E r \in ToSet(drops) : name = <<"_drop", r>>
    <2>1. PICK n \in 1..Len(names) : name = names[n]
      BY <1>1, LenProperties DEF ToSet
    <2>2. drops[n] \in ToSet(drops)
      BY <1>1, <1>3, LenProperties DEF ToSet
    <2>. QED  BY <1>3, <2>1, <2>2
  <1>5. \A r \in ToSet(drops) : /\ r \in Types /\ <<"_drop", r>> \notin Taken
                                /\ <<"_drop", r>> \in Taken'
    BY <1>1, NowTaken, ThenTaken DEF drops, Sorts
  <1>6. /\ ToSet(names) \cap Taken = {} /\ ToSet(names) \subseteq Taken'
        /\ ToSet(names) \subseteq {"_drop"} \X Types
    BY <1>4, <1>5
  <1>7. Len(names) \in Nat
    BY <1>1, LenProperties
  <1>. QED  BY <1>2, <1>3, <1>6, <1>7 DEF names, drops

\* Vtables are defined when they are not remembered, with the drop functions of
\* their elements.
LEMMA VtableDefines == ASSUME DInv, TypeOK', DefineVtable PROVE DInv'
  <1>. DEFINE drops == drop_function(ElementOwns[This])
              names == Named("_drop", drops)
              name == <<"_Vtable", This>>
              added == <<name>> \o names
  <1>1. This \in Vtables /\ ElementOwns[This] \in SUBSET Types
    BY ThisType, ResolveAssumption DEF DInv, DefineVtable
  <1>2. /\ This \notin stream_future_vtables
        /\ stream_future_vtables' = stream_future_vtables \cup {This} \cup ToSet(drops)
        /\ definitions' = (definitions \o <<name>>) \o names
    BY DEF DefineVtable
  <1>3. InOrder(agenda') /\ Ahead(agenda') \subseteq Ahead(agenda)
    BY QuietSteps, QuietAgenda DEF DInv
  <1>4. Len(imports) <= Len(imports') /\ functions' = functions
    <2>1. functions' = functions /\ \E more \in Seq(ImportNames) : imports' = imports \o more
      <3>. DEFINE import == [k \in VtableKinds |-> <<k, This>>]
                  more == <<import["new"], import["write"], import["drop-readable"],
                            import["drop-writable"]>> \o names \o <<import["read"]>>
      <3>1. names \in Seq(ImportNames)
        BY <1>1, <1>2, DropNames DEF DInv
      <3>2. \A k \in VtableKinds : import[k] \in ImportNames
        BY <1>1 DEF ImportNames
      <3>3. /\ <<import["new"], import["write"], import["drop-readable"],
                 import["drop-writable"]>> \in Seq(ImportNames)
            /\ <<import["read"]>> \in Seq(ImportNames)
        BY <3>2 DEF VtableKinds
      <3>4. more \in Seq(ImportNames)
        BY <3>1, <3>3, ConcatProperties
      <3>5. imports' = imports \o more /\ functions' = functions
        BY DEF DefineVtable, take_code
      <3>. HIDE DEF more
      <3>. QED  BY <3>4, <3>5
    <2>2. PICK more \in Seq(ImportNames) : imports' = imports \o more
      BY <2>1
    <2>3. imports \in Seq(ImportNames)
      BY DEF DInv, TypeOK
    <2>4. Len(imports') = Len(imports) + Len(more) /\ Len(imports) \in Nat /\ Len(more) \in Nat
      BY <2>2, <2>3, ConcatProperties, LenProperties
    <2>. QED  BY <2>1, <2>4
  <1>5. Remembers
    BY <1>2, <1>3, <1>4, Lengths DEF DefineVtable, Remembers, DInv
  <1>6. /\ names \in Seq(DefinitionNames) /\ IsInjective(names)
        /\ ToSet(names) \cap Taken = {} /\ ToSet(names) \subseteq Taken'
        /\ ToSet(names) \subseteq {"_drop"} \X Types
    BY <1>1, <1>2, DropNames DEF DInv
  <1>7. /\ name \in DefinitionNames /\ name \notin {"_drop"} \X Types
        /\ name \notin Taken /\ name \in Taken'
    BY <1>1, <1>2, NowTaken, ThenTaken DEF DInv, Sorts, DefinitionNames
  <1>. HIDE DEF drops, names, name
  <1>. DEFINE first == <<name>>
  <1>8. first \in Seq(DefinitionNames) /\ IsInjective(first) /\ ToSet(first) = {name}
    BY <1>7, OneName
  <1>. HIDE DEF first
  <1>9. ToSet(first) \cap ToSet(names) = {}
    BY <1>6, <1>7, <1>8
  <1>10. /\ added \in Seq(DefinitionNames) /\ IsInjective(added)
         /\ ToSet(added) = {name} \cup ToSet(names)
    <2>1. added = first \o names
      BY DEF first
    <2>. HIDE DEF added
    <2>2. /\ first \o names \in Seq(DefinitionNames) /\ IsInjective(first \o names)
          /\ ToSet(first \o names) = ToSet(first) \cup ToSet(names)
      BY <1>6, <1>8, <1>9, DisjointConcat
    <2>. QED  BY <1>8, <2>1, <2>2
  <1>11. definitions' = definitions \o added
    <2>1. definitions \in Seq(DefinitionNames)
      BY DEF DInv, TypeOK
    <2>2. (definitions \o first) \o names = definitions \o (first \o names)
      BY <1>6, <1>8, <2>1, ConcatAssociative
    <2>. QED  BY <1>2, <2>2 DEF first
  <1>12. ToSet(added) \cap Taken = {} /\ ToSet(added) \subseteq Taken'
    BY <1>6, <1>7, <1>10
  <1>. HIDE DEF added
  <1>. QED  BY <1>3, <1>5, <1>10, <1>11, <1>12, StepDefines

\* What the first call has announced and makes no other call define is new.
LEMMA AnnouncedIsNew ==
  ASSUME DInv, TypeOK', QuietStep, NEW name \in Once, name \in Announced(Head(agenda))
  PROVE  name \notin Taken /\ name \in Taken'
  <1>1. name \in Ahead(agenda)
    BY RestInOrder DEF DInv, TypeOK, QuietStep
  <1>2. name \notin Ahead(agenda')
    BY QuietAgenda
  <1>. QED  BY <1>1, <1>2, NowTaken, ThenTaken DEF Sorts, DInv

\* The class of an imported interface, the field of an exported one, and what
\* every world has.
LEMMA EndsDefine == ASSUME DInv, TypeOK', EndImport \/ EndExport \/ Finish PROVE DInv'
  <1>1. QuietStep /\ InOrder(agenda') /\ Ahead(agenda') \subseteq Ahead(agenda)
    BY QuietSteps, QuietAgenda DEF DInv
  <1>2. Remembers
    BY <1>1, Lengths DEF EndImport, EndExport, Finish, Remembers, DInv, io
  <1>3. CASE EndImport
    <2>. DEFINE name == <<"_Imported", This>>
    <2>1. This \in Interfaces /\ Head(agenda).do = "endImport"
      BY <1>3, ThisType DEF EndImport, DInv, At
    <2>2. name \in Once /\ name \in DefinitionNames /\ name \in Announced(Head(agenda))
      BY <2>1 DEF Once, DefinitionNames, Announced, This
    <2>3. definitions' = Append(definitions, name)
      BY <1>3 DEF EndImport
    <2>4. name \notin Taken /\ name \in Taken'
      BY <1>1, <2>2, AnnouncedIsNew
    <2>. QED  BY <1>1, <1>2, <2>2, <2>3, <2>4, StepDefinesOne
  <1>4. CASE EndExport
    <2>. DEFINE name == <<"_unnamedExport", This>>
    <2>1. This \in Interfaces /\ Head(agenda).do = "endExport"
      BY <1>4, ThisType DEF EndExport, DInv, At
    <2>2. name \in Once /\ name \in DefinitionNames /\ name \in Announced(Head(agenda))
      BY <2>1 DEF Once, DefinitionNames, Announced, This
    <2>3. definitions' = Append(definitions, name)
      BY <1>4 DEF EndExport
    <2>4. name \notin Taken /\ name \in Taken'
      BY <1>1, <2>2, AnnouncedIsNew
    <2>. QED  BY <1>1, <1>2, <2>2, <2>3, <2>4, StepDefinesOne
  <1>5. CASE Finish
    <2>. DEFINE first == <<"Imports", 0>>
                second == <<"Component", 0>>
                added == <<first, second>>
    <2>1. Head(agenda).do = "finish" /\ definitions' = definitions \o added
      BY <1>5 DEF Finish, At
    <2>2. /\ first \in Once /\ first \in DefinitionNames /\ first \in Announced(Head(agenda))
          /\ second \in Once /\ second \in DefinitionNames /\ second \in Announced(Head(agenda))
          /\ first # second
      BY <2>1 DEF Once, DefinitionNames, Announced
    <2>3. first \notin Taken /\ first \in Taken' /\ second \notin Taken /\ second \in Taken'
      BY <1>1, <2>2, AnnouncedIsNew
    <2>. HIDE DEF first, second
    <2>4. added \in Seq(DefinitionNames) /\ IsInjective(added) /\ ToSet(added) = {first, second}
      BY <2>2 DEF IsInjective, ToSet
    <2>5. ToSet(added) \cap Taken = {} /\ ToSet(added) \subseteq Taken'
      BY <2>3, <2>4
    <2>. HIDE DEF added
    <2>. QED  BY <1>1, <1>2, <2>1, <2>4, <2>5, StepDefines
  <1>. QED  BY <1>3, <1>4, <1>5

\* An imported function is defined with its number and new drop functions.
LEMMA ImportDefines == ASSUME DInv, TypeOK', ImportedFunction PROVE DInv'
  <1>. DEFINE drops == drop_function(Results[This])
              names == Named("_drop", drops)
              name == core_name
              last == <<name>>
              added == names \o last
  <1>1. This \in Funcs /\ Results[This] \in SUBSET Types
    BY ThisType, ResolveAssumption DEF DInv, ImportedFunction
  <1>2. /\ stream_future_vtables' = stream_future_vtables \cup ToSet(drops)
        /\ definitions' = definitions \o added
        /\ imports' = imports \o added /\ functions' = functions
    BY DEF ImportedFunction, take_code
  <1>3. InOrder(agenda') /\ Ahead(agenda') \subseteq Ahead(agenda)
    BY QuietSteps, QuietAgenda DEF DInv
  <1>4. /\ names \in Seq(DefinitionNames) /\ IsInjective(names)
        /\ ToSet(names) \cap Taken = {} /\ ToSet(names) \subseteq Taken'
        /\ ToSet(names) \subseteq {"_drop"} \X Types
        /\ names \in Seq(ImportNames) /\ Len(names) \in Nat
    BY <1>1, <1>2, DropNames DEF DInv
  <1>5. PICK m \in Nat : m = Len(imports)
    BY Lengths DEF DInv
  <1>6. /\ name = <<"_import", m>> /\ name \in DefinitionNames /\ name \in ImportNames
        /\ name \notin {"_drop"} \X Types
    BY <1>5 DEF core_name, DefinitionNames, ImportNames
  <1>. HIDE DEF drops, names, name
  <1>7. /\ last \in Seq(DefinitionNames) /\ last \in Seq(ImportNames) /\ Len(last) = 1
        /\ IsInjective(last) /\ ToSet(last) = {name}
    BY <1>6, OneName
  <1>. HIDE DEF last
  <1>8. ToSet(names) \cap ToSet(last) = {}
    BY <1>4, <1>6, <1>7
  <1>9. /\ added \in Seq(DefinitionNames) /\ IsInjective(added)
        /\ ToSet(added) = ToSet(names) \cup {name}
    BY <1>4, <1>7, <1>8, DisjointConcat
  <1>10. Len(imports') > m /\ Len(imports') \in Nat
    <2>1. added \in Seq(ImportNames) /\ Len(added) = Len(names) + 1
      BY <1>4, <1>7, ConcatProperties
    <2>2. imports \in Seq(ImportNames)
      BY DEF DInv, TypeOK
    <2>. HIDE DEF added
    <2>3. Len(imports') = Len(imports) + Len(added)
      BY <1>2, <2>1, <2>2, ConcatProperties
    <2>. QED  BY <1>4, <1>5, <2>1, <2>3
  <1>11. Remembers
    BY <1>2, <1>3, <1>5, <1>10, Lengths DEF ImportedFunction, Remembers, DInv
  <1>12. name \notin Taken /\ name \in Taken'
    <2>1. ~(m < Len(imports)) /\ m < Len(imports')
      BY <1>5, <1>10
    <2>2. <<"_import", m>> \notin Taken
      BY <2>1, NowTaken DEF Sorts, DInv
    <2>3. <<"_import", m>> \in Taken'
      BY <2>1, ThenTaken DEF Sorts
    <2>. QED  BY <1>6, <2>2, <2>3
  <1>13. ToSet(added) \cap Taken = {} /\ ToSet(added) \subseteq Taken'
    BY <1>4, <1>9, <1>12
  <1>. HIDE DEF added
  <1>. QED  BY <1>2, <1>3, <1>9, <1>11, <1>13, StepDefines

\* An exported function is defined with its number, and so is what belongs to it.
LEMMA ExportDefines == ASSUME DInv, TypeOK', ExportedFunction PROVE DInv'
  <1>. DEFINE drops == drop_function(Params[This])
              names == Named("_drop", drops)
              return == <<"_component_taskReturn", export_id>>
              post == <<"_component_postreturn", export_id>>
              own == <<"_component", export_id>>
              taskReturn == IF This \in Async THEN <<return>> ELSE <<>>
              postReturn == IF This \in PostReturn \ Async THEN <<post>> ELSE <<>>
              additional == names \o taskReturn
              first == <<own>>
              exported == first \o postReturn
              added == additional \o exported
  <1>1. This \in Funcs /\ Params[This] \in SUBSET Types
    BY ThisType, ResolveAssumption DEF DInv, ExportedFunction
  <1>2. /\ stream_future_vtables' = stream_future_vtables \cup ToSet(drops)
        /\ definitions' = (definitions \o additional) \o exported
        /\ imports' = imports \o additional /\ functions' = Append(functions, exported)
    BY DEF ExportedFunction, take_code
  <1>3. InOrder(agenda') /\ Ahead(agenda') \subseteq Ahead(agenda)
    BY QuietSteps, QuietAgenda DEF DInv
  <1>4. /\ names \in Seq(DefinitionNames) /\ IsInjective(names)
        /\ ToSet(names) \cap Taken = {} /\ ToSet(names) \subseteq Taken'
        /\ ToSet(names) \subseteq {"_drop"} \X Types
        /\ names \in Seq(ImportNames) /\ Len(names) \in Nat
    BY <1>1, <1>2, DropNames DEF DInv
  <1>5. PICK n \in Nat : n = Len(functions)
    BY Lengths DEF DInv
  <1>6. /\ return = <<"_component_taskReturn", n>> /\ post = <<"_component_postreturn", n>>
        /\ own = <<"_component", n>>
    BY <1>5 DEF export_id
  <1>7. /\ {return, post, own} \subseteq DefinitionNames /\ return \in ImportNames
        /\ return # own /\ return # post /\ post # own
        /\ {return, post, own} \cap ({"_drop"} \X Types) = {}
    BY <1>6 DEF DefinitionNames, ImportNames
  <1>8. Len(functions') = n + 1
    BY <1>2, <1>5, LenProperties DEF DInv, TypeOK
  <1>9. {return, post, own} \cap Taken = {} /\ {return, post, own} \subseteq Taken'
    <2>1. ~(n < Len(functions)) /\ n < Len(functions')
      BY <1>5, <1>8
    <2>2. {return, post, own} \cap Taken = {}
      BY <1>6, <2>1, NowTaken DEF Sorts, DInv
    <2>3. {return, post, own} \subseteq Taken'
      BY <1>6, <2>1, ThenTaken DEF Sorts
    <2>. QED  BY <2>2, <2>3
  <1>. HIDE DEF drops, names, return, post, own
  <1>10. /\ taskReturn \in Seq(DefinitionNames) /\ taskReturn \in Seq(ImportNames)
         /\ IsInjective(taskReturn) /\ ToSet(taskReturn) \subseteq {return}
    BY <1>7, OptionalName
  <1>11. /\ postReturn \in Seq(DefinitionNames)
         /\ IsInjective(postReturn) /\ ToSet(postReturn) \subseteq {post}
    BY <1>7, OptionalName
  <1>12. first \in Seq(DefinitionNames) /\ IsInjective(first) /\ ToSet(first) = {own}
    BY <1>7, OneName
  <1>. HIDE DEF taskReturn, postReturn, first
  <1>13. /\ additional \in Seq(DefinitionNames) /\ IsInjective(additional)
         /\ ToSet(additional) = ToSet(names) \cup ToSet(taskReturn)
    <2>1. ToSet(names) \cap ToSet(taskReturn) = {}
      BY <1>4, <1>7, <1>10
    <2>. QED  BY <1>4, <1>10, <2>1, DisjointConcat
  <1>14. /\ exported \in Seq(DefinitionNames) /\ IsInjective(exported)
         /\ ToSet(exported) = {own} \cup ToSet(postReturn)
    <2>1. ToSet(first) \cap ToSet(postReturn) = {}
      BY <1>7, <1>11, <1>12
    <2>. QED  BY <1>11, <1>12, <2>1, DisjointConcat
  <1>15. additional \in Seq(ImportNames) /\ Len(additional) \in Nat
    BY <1>4, <1>10, ConcatProperties, LenProperties
  <1>. HIDE DEF additional, exported
  <1>16. /\ added \in Seq(DefinitionNames) /\ IsInjective(added)
         /\ ToSet(added) = ToSet(additional) \cup ToSet(exported)
    <2>1. ToSet(additional) \cap ToSet(exported) = {}
      BY <1>4, <1>7, <1>10, <1>11, <1>13, <1>14
    <2>. QED  BY <1>13, <1>14, <2>1, DisjointConcat
  <1>17. definitions' = definitions \o added
    <2>1. definitions \in Seq(DefinitionNames)
      BY DEF DInv, TypeOK
    <2>2. (definitions \o additional) \o exported = definitions \o (additional \o exported)
      BY <1>13, <1>14, <2>1, ConcatAssociative
    <2>. QED  BY <1>2, <2>2
  <1>18. Len(imports) <= Len(imports')
    <2>1. imports \in Seq(ImportNames) /\ Len(imports) \in Nat
      BY Lengths DEF DInv, TypeOK
    <2>2. Len(imports') = Len(imports) + Len(additional)
      BY <1>2, <1>15, <2>1, ConcatProperties
    <2>. QED  BY <1>15, <2>1, <2>2
  <1>19. Remembers
    BY <1>2, <1>3, <1>5, <1>8, <1>18 DEF ExportedFunction, Remembers
  <1>20. ToSet(added) \cap Taken = {} /\ ToSet(added) \subseteq Taken'
    BY <1>4, <1>9, <1>10, <1>11, <1>13, <1>14, <1>16
  <1>. HIDE DEF added
  <1>. QED  BY <1>3, <1>16, <1>17, <1>19, <1>20, StepDefines

\* Every step keeps the inductive invariant.
LEMMA NextDefines == DInv /\ [Next]_vars => DInv'
  <1>. SUFFICES ASSUME DInv, [Next]_vars PROVE DInv'
    OBVIOUS
  <1>0. TypeOK /\ TypeOK' /\ InOrder(agenda) /\ Len(imports) \in Nat /\ Len(functions) \in Nat
    BY NextType, Lengths DEF DInv
  <1>1. CASE UNCHANGED vars \/ UnknownWorld \/ Return
    <2>1. agenda' = agenda /\ definitions' = definitions /\ Remembers
      BY <1>0, <1>1 DEF vars, dart, io, UnknownWorld, Return, Remembers
    <2>. QED  BY <1>0, <2>1, StepDefinesNothing
  <1>2. CASE BeginPackage \/ BeginRun
    <2>1. definitions' = <<>>
      BY <1>2 DEF BeginPackage, BeginRun, NewSource
    <2>2. DefinedOnce' /\ ToSet(definitions') = {}
      BY <2>1 DEF DefinedOnce, IsInjective, ToSet
    <2>. QED  BY <1>0, <1>2, <2>2, PackageInOrder, RunInOrder DEF DInv
  <1>3. CASE Skip \/ EndPackage \/ WriteSignature \/ Known \/ GenerateVtables \/ VoidVtable
             \/ Getter \/ FinishEarly \/ Exported \/ EndRun
    <2>1. InOrder(agenda') /\ Ahead(agenda') \subseteq Ahead(agenda)
      BY <1>0, <1>3, QuietSteps, QuietAgenda
    <2>2. definitions' = definitions /\ Remembers
      BY <1>0, <1>3, <2>1
         DEF Skip, EndPackage, WriteSignature, Known, GenerateVtables, VoidVtable, Getter,
             FinishEarly, Exported, EndRun, Remembers, dart, io
    <2>. QED  BY <1>0, <2>1, <2>2, StepDefinesNothing
  <1>4. CASE ImportInterface \/ ExportInterface
    <2>1. InOrder(agenda') /\ Ahead(agenda') \subseteq Ahead(agenda)
      BY <1>4, ImportInOrder, ExportInOrder
    <2>2. definitions' = definitions /\ Remembers
      BY <1>0, <1>4, <2>1 DEF ImportInterface, ExportInterface, Remembers, dart, io
    <2>. QED  BY <1>0, <2>1, <2>2, StepDefinesNothing
  <1>5. CASE NoExportedFunctions
    <2>1. agenda # <<>> /\ (agenda' = agenda \/ agenda' = <<>> \o Tail(agenda))
      BY <1>5 DEF NoExportedFunctions, Then, At
    <2>2. InOrder(agenda') /\ Ahead(agenda') \subseteq Ahead(agenda)
      <3>1. <<>> \in Seq(AllCalls) /\ Quiet(<<>>)
        BY DEF Quiet
      <3>. QED  BY <1>0, <2>1, <3>1, QuietAgenda DEF QuietStep
    <2>3. definitions' = definitions /\ Remembers
      BY <1>0, <1>5, <2>2 DEF NoExportedFunctions, Remembers, dart, io
    <2>. QED  BY <1>0, <2>2, <2>3, StepDefinesNothing
  <1>. QED  BY <1>0, <1>1, <1>2, <1>3, <1>4, <1>5, InterfaceDefines, TypeDefines, VtableDefines,
              ImportDefines, ExportDefines, EndsDefine DEF Next

\* A library defines no name twice (dart_source.rs:118, bindgen.rs:603), whatever
\* the Resolve is and on however many ways a type, an interface or a vtable is
\* reached, and no function takes a name that a later one is given.
THEOREM DefinitionsAreUnique == Spec => []DefinedOnce
  <1>1. Init => DInv
    <2>. SUFFICES ASSUME Init PROVE DInv
      OBVIOUS
    <2>1. definitions = <<>>
      BY DEF Init
    <2>2. DefinedOnce /\ ToSet(definitions) = {}
      BY <2>1 DEF DefinedOnce, IsInjective, ToSet
    <2>3. InOrder(agenda)
      <3>1. runs \in Seq(Worlds \cup {NoWorld})
        BY InitType DEF TypeOK
      <3>2. /\ Each("package", PackageOrder) \in Seq(AllCalls)
            /\ Each("run", runs) \in Seq(AllCalls)
        <4>1. Calls({"package"}, Packages) \subseteq AllCalls
              /\ Calls({"run"}, Worlds \cup {NoWorld}) \subseteq AllCalls
          BY DEF Calls, AllCalls
        <4>. QED  BY <3>1, <4>1, EachType, ResolveAssumption
      <3>3. \A n \in 1..Len(agenda) : agenda[n].do \in Starts
        <4>1. ASSUME NEW s \in Seq(AllCalls), NEW t \in Seq(AllCalls),
                     \A n \in 1..Len(s) : s[n].do \in Starts,
                     \A n \in 1..Len(t) : t[n].do \in Starts
              PROVE  \A n \in 1..Len(s \o t) : (s \o t)[n].do \in Starts
          BY <4>1, ConcatProperties, LenProperties
        <4>2. /\ \A n \in 1..Len(PackageOrder) : Call("package", PackageOrder[n]).do \in Starts
              /\ \A n \in 1..Len(runs) : Call("run", runs[n]).do \in Starts
          BY DEF Call, Starts
        <4>3. /\ \A n \in 1..Len(Each("package", PackageOrder)) :
                   Each("package", PackageOrder)[n].do \in Starts
              /\ \A n \in 1..Len(Each("run", runs)) : Each("run", runs)[n].do \in Starts
          BY <3>1, <4>2, EachCall, ResolveAssumption
        <4>. QED  BY <3>2, <4>1, <4>3 DEF Init
      <3>4. \A call : call.do \in Starts => Announced(call) = {}
        BY DEF Announced, Starts
      <3>. QED  BY <3>3, <3>4 DEF InOrder
    <2>. QED  BY <2>2, <2>3, InitType DEF DInv
  <1>2. DInv => DefinedOnce
    BY DEF DInv
  <1>. QED  BY <1>1, <1>2, NextDefines, PTL DEF Spec

-----------------------------------------------------------------------------
(* References.                                                             *)

\* The calls that are to be made, and the names that are defined.
Plan == ToSet(agenda)
Text == ToSet(definitions)

\* The calls that end a file.
Ends == {"endPackage", "endRun"}

\* The order of the calls of an agenda: nothing is left to do for a file when it
\* ends, and only its end when finish is called.
Before(a, b) ==
  /\ a.do \in Starts \cup Ends => b.do \in Starts
  /\ a.do = "finish" => b.do \in Starts \cup {"endRun"}
Ordered(calls) == \A i, j \in 1..Len(calls) : i < j => Before(calls[i], calls[j])

\* Calls that may be made before all others.
Plain(calls) == \A call \in ToSet(calls) : call.do \notin Starts \cup Ends \cup {"finish"}

\* Types that are remembered or going to be defined.
Pending(types) == \A t \in types : t \in type_definitions \/ Call("type", t) \in Plan

\* What is remembered is defined, unless a package has it, and what its text
\* mentions is defined or will be.
InterfaceWritten(i) ==
  PackageOf[i] \notin import_map =>
    /\ <<"interface", i>> \in Text
    /\ \A f \in ToSet(FunctionsOf[i]) :
         Call("signature", f) \in Plan \/ Pending(ToSet(Signature[f]))
TypeWritten(t) ==
  Owner[t] \notin import_map => <<"type", t>> \in Text /\ Pending(ToSet(Payloads[t]))
VtableWritten(v) ==
  /\ v \in Types => <<"_drop", v>> \in Text
  /\ v \in Vtables \ (Void \ Streams) => <<"_Vtable", v>> \in Text
RememberedAreDefined ==
  /\ \A i \in interface_names : InterfaceWritten(i)
  /\ \A t \in type_definitions : TypeWritten(t)
  /\ \A v \in stream_future_vtables : VtableWritten(v)
  /\ \A i \in ToSet(local_exports) : <<"_unnamedExport", i>> \in Text

\* A package that is written is going to have all of its interfaces.
PackageIsComplete ==
  \A p \in Packages : Call("endPackage", p) \in Plan =>
    /\ library = <<"package", p>>
    /\ \A i \in ToSet(InterfacesOf[p]) :
         i \in interface_names \/ Call("define_interface", i) \in Plan

\* The class of an import is defined when the class of the imports mentions it.
ImportsAreDefined ==
  /\ \A i \in Interfaces : Call("getter", i) \in Plan => <<"_Imported", i>> \in Text
  /\ \A w \in Worlds : Call("finish", w) \in Plan => \A i \in ToSet(ImportsOf[w]) :
       \/ <<"_Imported", i>> \in Text
       \/ Call("import_interface", i) \in Plan \/ Call("endImport", i) \in Plan

\* A file that is written has a name that is taken from it.
Provides(files, use) ==
  \E lib \in ToSet(files) : lib.file = use[1] /\ use[2] \in ToSet(lib.defines)

\* Packages that are written have their interfaces and types.
Complete(files, p) ==
  \E lib \in ToSet(files) :
    /\ lib.file = <<"package", p>>
    /\ \A i \in ToSet(InterfacesOf[p]) : <<"interface", i>> \in ToSet(lib.defines)
    /\ \A t \in Written(p) : Owner[t] = p => <<"type", t>> \in ToSet(lib.defines)
PackagesAreWritten == \A p \in import_map : Complete(outputs, p)

\* What the file mentions is defined in it, or in a file that is written.
Resolved(use) ==
  \/ use[1] = library /\ use[2] \in Text
  \/ Provides(outputs, use) \/ NotWritten(use[1], use[2])
UsesResolve == \A use \in uses : Resolved(use)

\* The inductive invariant.
RInv == /\ TypeOK
        /\ Ordered(agenda)
        /\ RememberedAreDefined
        /\ PackageIsComplete
        /\ ImportsAreDefined
        /\ PackagesAreWritten
        /\ UsesResolve
        /\ ReferencesResolve

\* Calls differ when their names or what they are made for differ.
LEMMA CallsDiffer ==
  \A a, b, x, y : Call(a, x) = Call(b, y) <=> a = b /\ x = y
  <1>. SUFFICES ASSUME NEW a, NEW b, NEW x, NEW y, Call(a, x) = Call(b, y)
                PROVE  a = b /\ x = y
    OBVIOUS
  <1>1. /\ Call(a, x).do = a /\ Call(a, x).of = x
        /\ Call(b, y).do = b /\ Call(b, y).of = y
    BY DEF Call
  <1>. QED  BY <1>1

\* A sequence is its head and its tail.
LEMMA HeadAndTail ==
  ASSUME NEW S, NEW s \in Seq(S), s # <<>>
  PROVE  ToSet(s) = {Head(s)} \cup ToSet(Tail(s))
  <1>. DEFINE first == <<Head(s)>>
              rest == Tail(s)
  <1>1. first \in Seq(S) /\ ToSet(first) = {Head(s)} /\ rest \in Seq(S) /\ s = first \o rest
    BY DEF ToSet
  <1>2. ToSet(first \o rest) = ToSet(first) \cup ToSet(rest)
    <2>. HIDE DEF first, rest
    <2>. QED  BY <1>1, ElementsOf
  <1>. HIDE DEF first, rest
  <1>3. ToSet(s) = {Head(s)} \cup ToSet(rest)
    BY <1>1, <1>2
  <1>. QED  BY <1>3 DEF rest

\* The rest of calls in order is in order, and comes after the first.
LEMMA RestOrdered ==
  ASSUME NEW calls \in Seq(AllCalls), calls # <<>>, Ordered(calls)
  PROVE  /\ Ordered(Tail(calls))
         /\ \A call \in ToSet(Tail(calls)) : Before(Head(calls), call)
  <1>1. /\ Len(calls) \in Nat /\ Len(calls) > 0 /\ Len(Tail(calls)) = Len(calls) - 1
        /\ Head(calls) = calls[1]
        /\ \A n \in 1..Len(calls) - 1 : Tail(calls)[n] = calls[n + 1]
    BY HeadTailProperties, LenProperties
  <1>2. Ordered(Tail(calls))
    <2>1. SUFFICES ASSUME NEW i \in 1..Len(calls) - 1, NEW j \in 1..Len(calls) - 1, i < j
                   PROVE  Before(calls[i + 1], calls[j + 1])
      BY <1>1 DEF Ordered
    <2>2. i + 1 \in 1..Len(calls) /\ j + 1 \in 1..Len(calls) /\ i + 1 < j + 1
      BY <1>1, <2>1
    <2>. QED  BY <2>2 DEF Ordered
  <1>3. ASSUME NEW n \in 1..Len(calls) - 1 PROVE Before(Head(calls), Tail(calls)[n])
    <2>1. n + 1 \in 1..Len(calls) /\ 1 < n + 1 /\ 1 \in 1..Len(calls)
      BY <1>1
    <2>. QED  BY <1>1, <2>1 DEF Ordered
  <1>4. DOMAIN Tail(calls) = 1..Len(calls) - 1
    <2>1. Tail(calls) \in Seq(AllCalls)
      OBVIOUS
    <2>. QED  BY <1>1, <2>1, LenProperties
  <1>. QED  BY <1>2, <1>3, <1>4 DEF ToSet

\* Calls in order after others in order.
LEMMA ConcatOrdered ==
  ASSUME NEW s \in Seq(AllCalls), NEW t \in Seq(AllCalls), Ordered(s), Ordered(t),
         \A a \in ToSet(s), b \in ToSet(t) : Before(a, b)
  PROVE  Ordered(s \o t)
  <1>1. /\ Len(s) \in Nat /\ Len(t) \in Nat /\ Len(s \o t) = Len(s) + Len(t)
        /\ DOMAIN s = 1..Len(s) /\ DOMAIN t = 1..Len(t)
        /\ \A i \in 1..Len(s) + Len(t) :
             (s \o t)[i] = IF i <= Len(s) THEN s[i] ELSE t[i - Len(s)]
    BY LenProperties, ConcatProperties
  <1>2. ASSUME NEW i \in 1..Len(s) + Len(t)
        PROVE  \/ i \in 1..Len(s) /\ (s \o t)[i] = s[i]
               \/ i > Len(s) /\ i - Len(s) \in 1..Len(t) /\ (s \o t)[i] = t[i - Len(s)]
    BY <1>1
  <1>3. /\ \A i \in 1..Len(s) : s[i] \in ToSet(s)
        /\ \A i \in 1..Len(t) : t[i] \in ToSet(t)
    BY <1>1 DEF ToSet
  <1>4. SUFFICES ASSUME NEW i \in 1..Len(s) + Len(t), NEW j \in 1..Len(s) + Len(t), i < j
                 PROVE  Before((s \o t)[i], (s \o t)[j])
    BY <1>1 DEF Ordered
  <1>5. CASE i \in 1..Len(s) /\ (s \o t)[i] = s[i]
    <2>1. CASE j \in 1..Len(s) /\ (s \o t)[j] = s[j]
      BY <1>4, <1>5, <2>1 DEF Ordered
    <2>2. CASE j > Len(s) /\ j - Len(s) \in 1..Len(t) /\ (s \o t)[j] = t[j - Len(s)]
      BY <1>3, <1>5, <2>2
    <2>. QED  BY <1>2, <2>1, <2>2
  <1>6. CASE i > Len(s) /\ i - Len(s) \in 1..Len(t) /\ (s \o t)[i] = t[i - Len(s)]
    <2>1. j > Len(s) /\ j - Len(s) \in 1..Len(t) /\ (s \o t)[j] = t[j - Len(s)]
      BY <1>1, <1>2, <1>4, <1>6
    <2>2. i - Len(s) < j - Len(s)
      BY <1>1, <1>4
    <2>. QED  BY <1>6, <2>1, <2>2 DEF Ordered
  <1>. QED  BY <1>2, <1>5, <1>6

\* Plain calls are in order.
LEMMA PlainOrdered ==
  ASSUME NEW calls \in Seq(AllCalls), Plain(calls)
  PROVE  Ordered(calls) /\ \A a \in ToSet(calls) : \A b : Before(a, b)
  <1>1. \A i \in 1..Len(calls) : calls[i] \in ToSet(calls)
    BY LenProperties DEF ToSet
  <1>2. \A a \in ToSet(calls) : \A b : Before(a, b)
    BY DEF Plain, Before
  <1>. QED  BY <1>1, <1>2 DEF Ordered

\* The calls for the elements of a sequence.
LEMMA EachSet ==
  ASSUME NEW S, NEW s \in Seq(S), NEW name
  PROVE  /\ \A call : call \in ToSet(Each(name, s)) <=> \E x \in ToSet(s) : call = Call(name, x)
         /\ name \notin Starts \cup Ends \cup {"finish"} => Plain(Each(name, s))
  <1>1. DOMAIN s = 1..Len(s)
    BY LenProperties
  <1>2. \A call : call \in ToSet(Each(name, s)) <=> \E x \in ToSet(s) : call = Call(name, x)
    BY <1>1 DEF ToSet, Each
  <1>3. \A x : Call(name, x).do = name
    BY DEF Call
  <1>. QED  BY <1>2, <1>3 DEF Plain

\* The calls for the elements of a sequence are plain under these names, of which
\* none begins or ends a part of the work.
LEMMA EachPlain ==
  ASSUME NEW S, NEW s \in Seq(S),
         NEW name \in {"type", "vtable", "vtables", "signature", "imported_function",
                       "exported_function", "exported", "getter", "define_interface",
                       "import_interface", "export_interface"}
  PROVE  /\ Plain(Each(name, s))
         /\ \A call : call \in ToSet(Each(name, s)) <=> \E x \in ToSet(s) : call = Call(name, x)
  <1>1. name \notin Starts \cup Ends \cup {"finish"}
    BY DEF Starts, Ends
  <1>. QED  BY <1>1, EachSet

\* The calls after the first.
Rest == ToSet(Tail(agenda))

\* A step that puts plain calls in the place of the first.
LEMMA PlainStep ==
  ASSUME TypeOK, Ordered(agenda), NEW name, At(name),
         NEW calls \in Seq(AllCalls), Plain(calls), Then(calls)
  PROVE  /\ Ordered(agenda') /\ Plan = {Call(name, This)} \cup Rest
         /\ Plan' = ToSet(calls) \cup Rest
         /\ \A call \in Rest : Before(Call(name, This), call)
  <1>1. agenda \in Seq(AllCalls) /\ agenda # <<>> /\ Head(agenda).do = name
    BY DEF TypeOK, At
  <1>2. Head(agenda) \in AllCalls /\ Tail(agenda) \in Seq(AllCalls)
    BY <1>1, TailType
  <1>3. Head(agenda) = Call(name, This)
    BY <1>1, <1>2 DEF AllCalls, Calls, This, Call
  <1>4. Plan = {Call(name, This)} \cup Rest
    BY <1>1, <1>3, HeadAndTail DEF Plan, Rest
  <1>5. Plan' = ToSet(calls) \cup Rest
    BY <1>2, ElementsOf DEF Plan, Rest, Then
  <1>6. Ordered(Tail(agenda)) /\ \A call \in Rest : Before(Call(name, This), call)
    BY <1>1, <1>3, RestOrdered DEF Rest
  <1>7. Ordered(calls) /\ \A a \in ToSet(calls) : \A b : Before(a, b)
    BY PlainOrdered
  <1>8. Ordered(calls \o Tail(agenda))
    <2>1. \A a \in ToSet(calls), b \in ToSet(Tail(agenda)) : Before(a, b)
      BY <1>7
    <2>. QED  BY <1>2, <1>6, <1>7, <2>1, ConcatOrdered
  <1>. QED  BY <1>4, <1>5, <1>6, <1>8 DEF Then

\* A step that stays in the file: what was written and remembered is kept, and
\* what was planned is still planned or done.
Advances ==
  /\ UNCHANGED <<import_map, outputs, library>>
  /\ Text \subseteq Text' /\ interface_names \subseteq interface_names'
  /\ type_definitions \subseteq type_definitions'
Proceeds ==
  /\ \A t : Call("type", t) \in Plan => Call("type", t) \in Plan' \/ t \in type_definitions'
  /\ \A f : Call("signature", f) \in Plan =>
       Call("signature", f) \in Plan' \/ Pending(ToSet(Signature[f]))'
  /\ \A i : Call("define_interface", i) \in Plan =>
       Call("define_interface", i) \in Plan' \/ i \in interface_names'
  /\ \A i : Call("import_interface", i) \in Plan =>
       Call("import_interface", i) \in Plan' \/ Call("endImport", i) \in Plan'
  /\ \A i : Call("endImport", i) \in Plan =>
       Call("endImport", i) \in Plan' \/ <<"_Imported", i>> \in Text'
  /\ \A p : Call("endPackage", p) \in Plan' => Call("endPackage", p) \in Plan
  /\ \A w : Call("finish", w) \in Plan' => Call("finish", w) \in Plan
  /\ \A i \in Interfaces : Call("getter", i) \in Plan' =>
       Call("getter", i) \in Plan \/ <<"_Imported", i>> \in Text'
Writes ==
  /\ \A i \in interface_names' \ interface_names : InterfaceWritten(i)'
  /\ \A t \in type_definitions' \ type_definitions : TypeWritten(t)'
  /\ \A v \in stream_future_vtables' \ stream_future_vtables : VtableWritten(v)'
  /\ \A i \in ToSet(local_exports') \ ToSet(local_exports) : <<"_unnamedExport", i>> \in Text'
  /\ \A use \in uses' \ uses : Resolved(use)'

\* Such steps keep the invariant.
LEMMA AdvanceKeeps ==
  ASSUME RInv, TypeOK', Ordered(agenda'), Advances, Proceeds, Writes
  PROVE  RInv'
  <1>1. \A types : Pending(types) => Pending(types)'
    BY DEF Advances, Proceeds, Pending
  <1>2. RememberedAreDefined'
    <2>1. ASSUME NEW i, InterfaceWritten(i) PROVE InterfaceWritten(i)'
      BY <1>1, <2>1 DEF Advances, Proceeds, InterfaceWritten
    <2>2. ASSUME NEW t, TypeWritten(t) PROVE TypeWritten(t)'
      BY <1>1, <2>2 DEF Advances, TypeWritten
    <2>3. ASSUME NEW v, VtableWritten(v) PROVE VtableWritten(v)'
      BY <2>3 DEF Advances, VtableWritten
    <2>. QED  BY <2>1, <2>2, <2>3 DEF RInv, RememberedAreDefined, Advances, Writes
  <1>3. PackageIsComplete'
    BY DEF RInv, PackageIsComplete, Advances, Proceeds
  <1>4. ImportsAreDefined'
    <2>1. /\ \A i \in Interfaces : Call("getter", i) \in Plan => <<"_Imported", i>> \in Text
          /\ \A w \in Worlds : Call("finish", w) \in Plan => \A i \in ToSet(ImportsOf[w]) :
               \/ <<"_Imported", i>> \in Text
               \/ Call("import_interface", i) \in Plan \/ Call("endImport", i) \in Plan
      BY DEF RInv, ImportsAreDefined
    <2>2. \A i \in Interfaces : Call("getter", i) \in Plan' => <<"_Imported", i>> \in Text'
      BY <2>1 DEF Advances, Proceeds
    <2>3. ASSUME NEW w \in Worlds, Call("finish", w) \in Plan', NEW i \in ToSet(ImportsOf[w])
          PROVE  \/ <<"_Imported", i>> \in Text'
                 \/ Call("import_interface", i) \in Plan' \/ Call("endImport", i) \in Plan'
      BY <2>1, <2>3 DEF Advances, Proceeds
    <2>. QED  BY <2>2, <2>3 DEF ImportsAreDefined
  <1>5. PackagesAreWritten' /\ ReferencesResolve'
    BY DEF RInv, Advances, PackagesAreWritten, ReferencesResolve
  <1>6. UsesResolve'
    <2>1. ASSUME NEW use, Resolved(use) PROVE Resolved(use)'
      BY <2>1 DEF Advances, Resolved
    <2>. QED  BY <2>1 DEF RInv, UsesResolve, Writes
  <1>. QED  BY <1>2, <1>3, <1>4, <1>5, <1>6 DEF RInv

\* Lists of no calls, of one, and of one list after another.
LEMMA PlainCalls ==
  /\ Plain(<<>>) /\ ToSet(<<>>) = {}
  /\ \A call : ToSet(<<call>>) = {call}
  /\ \A name, x : name \notin Starts \cup Ends \cup {"finish"} => Plain(<<Call(name, x)>>)
  <1>1. ToSet(<<>>) = {} /\ \A call : ToSet(<<call>>) = {call}
    BY DEF ToSet
  <1>2. \A name, x : Call(name, x).do = name
    BY DEF Call
  <1>. QED  BY <1>1, <1>2 DEF Plain

\* Two lists of plain calls.
LEMMA ConcatPlain ==
  ASSUME NEW s \in Seq(AllCalls), NEW t \in Seq(AllCalls), Plain(s), Plain(t)
  PROVE  /\ s \o t \in Seq(AllCalls) /\ Plain(s \o t)
         /\ ToSet(s \o t) = ToSet(s) \cup ToSet(t)
  BY ElementsOf, ConcatProperties DEF Plain

\* A step that makes no further calls.
LEMMA NoCalls ==
  ASSUME RInv, NEW name, At(name), Then(<<>>)
  PROVE  /\ Ordered(agenda') /\ Plan = {Call(name, This)} \cup Rest /\ Plan' = Rest
         /\ \A call \in Rest : Before(Call(name, This), call)
  <1>1. <<>> \in Seq(AllCalls)
    OBVIOUS
  <1>. QED  BY <1>1, PlainCalls, PlainStep DEF RInv

\* Steps that make no calls and define nothing: what is known already, packages
\* and imports without contents, futures without a value.
LEMMA NothingResolves ==
  ASSUME RInv, TypeOK',
         Skip \/ Known \/ VoidVtable \/ FinishEarly
         \/ (NoExportedFunctions /\ result' # "error")
  PROVE  RInv'
  <1>1. PICK name \in {"package", "getter", "define_interface", "type", "vtable", "finish",
                       "export_funcs"} : At(name) /\ Then(<<>>)
    BY DEF Skip, Known, VoidVtable, FinishEarly, NoExportedFunctions
  <1>2. /\ name = "type" => This \in type_definitions
        /\ name = "define_interface" => This \in interface_names
    <2>1. ASSUME NEW n, At(n) PROVE n = name
      BY <1>1, <2>1 DEF At
    <2>2. Known \/ name \notin {"type", "define_interface"}
      BY <2>1 DEF Skip, VoidVtable, FinishEarly, NoExportedFunctions
    <2>. QED  BY <2>1, <2>2 DEF Known
  <1>3. Ordered(agenda') /\ Plan = {Call(name, This)} \cup Rest /\ Plan' = Rest
    BY <1>1, NoCalls
  <1>4. /\ UNCHANGED <<import_map, outputs, library, definitions, interface_names,
                       type_definitions, uses, local_exports>>
        /\ \/ stream_future_vtables' = stream_future_vtables
           \/ /\ stream_future_vtables' = stream_future_vtables \cup {This}
              /\ This \in Void \ Streams
    BY DEF Skip, Known, VoidVtable, FinishEarly, NoExportedFunctions, dart, io
  <1>5. Advances
    BY <1>4 DEF Advances, Text
  <1>6. Proceeds
    BY <1>1, <1>2, <1>3, <1>4, CallsDiffer DEF Proceeds
  <1>7. Writes
    <2>1. \A v \in Void \ Streams : VtableWritten(v)'
      BY SetsAssumption DEF VtableWritten
    <2>. QED  BY <1>4, <2>1 DEF Writes
  <1>. QED  BY <1>3, <1>5, <1>6, <1>7, AdvanceKeeps

\* Steps that define a class and make no calls.
LEMMA EndsResolve == ASSUME RInv, TypeOK', EndImport \/ EndExport PROVE RInv'
  <1>1. PICK name \in {"endImport", "endExport"} : At(name) /\ Then(<<>>)
    BY DEF EndImport, EndExport
  <1>2. /\ name = "endImport" => EndImport
        /\ EndImport => name = "endImport"
    BY <1>1 DEF EndImport, EndExport, At
  <1>3. Ordered(agenda') /\ Plan = {Call(name, This)} \cup Rest /\ Plan' = Rest
    BY <1>1, NoCalls
  <1>4. UNCHANGED <<import_map, outputs, library, interface_names, type_definitions, uses,
                    stream_future_vtables>>
    BY DEF EndImport, EndExport
  <1>5. ASSUME NEW S, NEW s \in Seq(S), NEW e \in S
        PROVE  ToSet(Append(s, e)) = ToSet(s) \cup {e}
    <2>. DEFINE last == <<e>>
    <2>1. last \in Seq(S) /\ ToSet(last) = {e} /\ Append(s, e) = s \o last
      BY AppendIsConcat DEF ToSet
    <2>. HIDE DEF last
    <2>. QED  BY <2>1, ElementsOf
  <1>6. /\ EndImport => /\ Text' = Text \cup {<<"_Imported", This>>}
                        /\ local_exports' = local_exports
        /\ EndExport => /\ Text' = Text \cup {<<"_unnamedExport", This>>}
                        /\ ToSet(local_exports') = ToSet(local_exports) \cup {This}
    <2>1. This \in Interfaces
      BY <1>1, ThisType DEF RInv
    <2>2. definitions \in Seq(DefinitionNames) /\ local_exports \in Seq(Interfaces)
      BY DEF RInv, TypeOK
    <2>3. {<<"_Imported", This>>, <<"_unnamedExport", This>>} \subseteq DefinitionNames
      BY <2>1 DEF DefinitionNames
    <2>4. /\ ToSet(Append(definitions, <<"_Imported", This>>)) = Text \cup {<<"_Imported", This>>}
          /\ ToSet(Append(definitions, <<"_unnamedExport", This>>))
               = Text \cup {<<"_unnamedExport", This>>}
          /\ ToSet(Append(local_exports, This)) = ToSet(local_exports) \cup {This}
      BY <1>5, <2>1, <2>2, <2>3 DEF Text
    <2>. QED  BY <2>4 DEF EndImport, EndExport, Text, io
  <1>7. Advances
    BY <1>4, <1>6 DEF Advances
  <1>8. Proceeds
    BY <1>1, <1>2, <1>3, <1>6, CallsDiffer DEF Proceeds
  <1>9. Writes
    BY <1>4, <1>6 DEF Writes
  <1>. QED  BY <1>3, <1>7, <1>8, <1>9, AdvanceKeeps

\* Steps that only make plain calls for the elements of a sequence.
LEMMA PartsResolve ==
  ASSUME RInv, TypeOK', WriteSignature \/ GenerateVtables \/ Exported
  PROVE  RInv'
  <1>1. PICK name \in {"signature", "vtables", "exported"} : At(name)
    BY DEF WriteSignature, GenerateVtables, Exported
  <1>2. \E calls \in Seq(AllCalls) :
          /\ Plain(calls) /\ Then(calls)
          /\ \A call \in ToSet(calls) : \E part \in {"type", "vtable", "exported_function"} :
               \E x : call = Call(part, x)
          /\ name = "signature" =>
               \A t \in ToSet(Signature[This]) : Call("type", t) \in ToSet(calls)
    <2>1. CASE WriteSignature
      <3>1. This \in Funcs /\ Signature[This] \in Seq(Types) /\ name = "signature"
        BY <1>1, <2>1, ThisType, ResolveAssumption DEF RInv, WriteSignature, At
      <3>2. Each("type", Signature[This]) \in Seq(AllCalls)
        BY <3>1, PartsType
      <3>. QED  BY <2>1, <3>1, <3>2, EachSet DEF WriteSignature, Starts, Ends
    <2>2. CASE GenerateVtables
      <3>1. This \in Funcs /\ StreamsFutures[This] \in Seq(Vtables) /\ name = "vtables"
        BY <1>1, <2>2, ThisType, ResolveAssumption DEF RInv, GenerateVtables, At
      <3>2. Each("vtable", StreamsFutures[This]) \in Seq(AllCalls)
        BY <3>1, PartsType
      <3>. QED  BY <2>2, <3>1, <3>2, EachSet DEF GenerateVtables, Starts, Ends
    <2>3. CASE Exported
      <3>1. This \in Interfaces /\ FunctionsOf[This] \in Seq(Funcs) /\ name = "exported"
        BY <1>1, <2>3, ThisType, ResolveAssumption DEF RInv, Exported, At
      <3>2. Each("exported_function", FunctionsOf[This]) \in Seq(AllCalls)
        BY <3>1, PartsType
      <3>. QED  BY <2>3, <3>1, <3>2, EachSet DEF Exported, Starts, Ends
    <2>. QED  BY <2>1, <2>2, <2>3
  <1>3. PICK calls \in Seq(AllCalls) :
          /\ Plain(calls) /\ Then(calls)
          /\ \A call \in ToSet(calls) : \E part \in {"type", "vtable", "exported_function"} :
               \E x : call = Call(part, x)
          /\ name = "signature" =>
               \A t \in ToSet(Signature[This]) : Call("type", t) \in ToSet(calls)
    BY <1>2
  <1>4. /\ Ordered(agenda') /\ Plan = {Call(name, This)} \cup Rest
        /\ Plan' = ToSet(calls) \cup Rest
    BY <1>1, <1>3, PlainStep DEF RInv
  <1>5. UNCHANGED <<import_map, outputs, library, definitions, interface_names,
                    type_definitions, stream_future_vtables, uses, local_exports>>
    BY DEF WriteSignature, GenerateVtables, Exported, dart, io
  <1>6. Advances /\ Writes
    BY <1>5 DEF Advances, Writes, Text
  <1>7. Proceeds
    <2>1. \A f : Call("signature", f) \in Plan =>
            Call("signature", f) \in Plan' \/ Pending(ToSet(Signature[f]))'
      BY <1>1, <1>3, <1>4, CallsDiffer DEF Pending
    <2>. QED  BY <1>1, <1>3, <1>4, <2>1, CallsDiffer DEF Proceeds
  <1>. QED  BY <1>4, <1>6, <1>7, AdvanceKeeps

\* The name that a definition of package p has been given, or is given now.
LEMMA Consumed ==
  ASSUME RInv, NEW p, NEW name \in DefinitionNames, consume_definition(p, name)
  PROVE  /\ Text \subseteq Text'
         /\ p \notin import_map => name \in Text'
  <1>. DEFINE last == <<name>>
  <1>1. definitions \in Seq(DefinitionNames)
    BY DEF RInv, TypeOK
  <1>2. last \in Seq(DefinitionNames) /\ ToSet(last) = {name}
        /\ Append(definitions, name) = definitions \o last
    BY <1>1, AppendIsConcat DEF ToSet
  <1>. HIDE DEF last
  <1>3. ToSet(definitions \o last) = ToSet(definitions) \cup {name}
    BY <1>1, <1>2, ElementsOf
  <1>. QED  BY <1>2, <1>3 DEF consume_definition, Text

\* An interface is mentioned where it is defined: in this file, or in the library
\* of its package, which has all interfaces with a name.
LEMMA InterfaceResolves == ASSUME RInv, TypeOK', DefineInterface PROVE RInv'
  <1>0. PICK this : this = This
    OBVIOUS
  <1>. DEFINE p == PackageOf[this]
              name == <<"interface", this>>
              calls == IF p \in import_map THEN <<>> ELSE Each("signature", FunctionsOf[this])
  <1>1. /\ At("define_interface") /\ this \in Interfaces /\ p \in Packages \cup {NoPackage}
        /\ FunctionsOf[this] \in Seq(Funcs) /\ name \in DefinitionNames
    BY <1>0, ThisType, ResolveAssumption DEF RInv, DefineInterface, DefinitionNames
  <1>2. Then(calls) /\ calls \in Seq(AllCalls) /\ Plain(calls)
    <2>1. Each("signature", FunctionsOf[this]) \in Seq(AllCalls) /\ <<>> \in Seq(AllCalls)
      BY <1>1, PartsType
    <2>2. Plain(Each("signature", FunctionsOf[this])) /\ Plain(<<>>)
      <3>1. FunctionsOf[this] \in Seq(Funcs)
        BY <1>1
      <3>. QED  BY <3>1, EachPlain, PlainCalls
    <2>. QED  BY <1>0, <2>1, <2>2 DEF DefineInterface
  <1>3. /\ \A call \in ToSet(calls) : \E f : call = Call("signature", f)
        /\ p \notin import_map =>
             \A f \in ToSet(FunctionsOf[this]) : Call("signature", f) \in ToSet(calls)
    BY <1>1, EachSet, PlainCalls
  <1>. HIDE DEF calls
  <1>4. /\ Ordered(agenda') /\ Plan = {Call("define_interface", this)} \cup Rest
        /\ Plan' = ToSet(calls) \cup Rest
    BY <1>0, <1>1, <1>2, PlainStep DEF RInv
  <1>5. /\ UNCHANGED <<import_map, outputs, library, type_definitions, stream_future_vtables,
                       local_exports>>
        /\ interface_names' = interface_names \cup {this}
        /\ uses' = uses \cup {<<type_name(p), name>>}
        /\ consume_definition(p, name)
    BY <1>0 DEF DefineInterface, io
  <1>6. Text \subseteq Text' /\ (p \notin import_map => name \in Text')
    BY <1>1, <1>5, Consumed
  <1>7. Advances
    BY <1>5, <1>6 DEF Advances
  <1>8. Proceeds
    BY <1>3, <1>4, <1>5, CallsDiffer DEF Proceeds
  <1>9. Writes
    <2>1. InterfaceWritten(this)'
      BY <1>3, <1>4, <1>5, <1>6 DEF InterfaceWritten
    <2>0. PICK file : file = type_name(p)
      OBVIOUS
    <2>2. Resolved(<<file, name>>)'
      <3>1. CASE p \in import_map
        <4>1. file = <<"package", p>> /\ Complete(outputs, p)
          BY <2>0, <3>1 DEF type_name, RInv, PackagesAreWritten
        <4>2. CASE this \in ToSet(InterfacesOf[p])
          <5>1. Provides(outputs, <<file, name>>)
            BY <4>1, <4>2 DEF Complete, Provides
          <5>. QED  BY <1>5, <5>1 DEF Resolved
        <4>3. CASE this \notin ToSet(InterfacesOf[p])
          BY <4>1, <4>3 DEF Resolved, NotWritten
        <4>. QED  BY <4>2, <4>3
      <3>2. CASE p \notin import_map
        BY <1>5, <1>6, <2>0, <3>2 DEF Resolved, type_name
      <3>. QED  BY <3>1, <3>2
    <2>. QED  BY <1>5, <2>0, <2>1, <2>2 DEF Writes
  <1>. QED  BY <1>4, <1>7, <1>8, <1>9, AdvanceKeeps

\* So is a type, except that the library of its package has those only that its
\* own functions lead to.
LEMMA TypeResolves == ASSUME RInv, TypeOK', DefineType PROVE RInv'
  <1>0. PICK this : this = This
    OBVIOUS
  <1>. DEFINE p == Owner[this]
              name == <<"type", this>>
              calls == IF p \in import_map THEN <<>> ELSE Each("type", Payloads[this])
  <1>1. /\ At("type") /\ this \in Types /\ p \in Packages \cup {NoPackage}
        /\ Payloads[this] \in Seq(Types) /\ name \in DefinitionNames
    BY <1>0, ThisType, ResolveAssumption DEF RInv, DefineType, DefinitionNames
  <1>2. Then(calls) /\ calls \in Seq(AllCalls) /\ Plain(calls)
    <2>1. Each("type", Payloads[this]) \in Seq(AllCalls) /\ <<>> \in Seq(AllCalls)
      BY <1>1, PartsType
    <2>2. Plain(Each("type", Payloads[this])) /\ Plain(<<>>)
      <3>1. Payloads[this] \in Seq(Types)
        BY <1>1
      <3>. QED  BY <3>1, EachPlain, PlainCalls
    <2>. QED  BY <1>0, <2>1, <2>2 DEF DefineType
  <1>3. /\ \A call \in ToSet(calls) : \E t : call = Call("type", t)
        /\ p \notin import_map =>
             \A t \in ToSet(Payloads[this]) : Call("type", t) \in ToSet(calls)
    BY <1>1, EachSet, PlainCalls
  <1>. HIDE DEF calls
  <1>4. /\ Ordered(agenda') /\ Plan = {Call("type", this)} \cup Rest
        /\ Plan' = ToSet(calls) \cup Rest
    BY <1>0, <1>1, <1>2, PlainStep DEF RInv
  <1>5. /\ UNCHANGED <<import_map, outputs, library, interface_names, stream_future_vtables,
                       local_exports>>
        /\ type_definitions' = type_definitions \cup {this}
        /\ uses' = uses \cup {<<type_name(p), name>>}
        /\ consume_definition(p, name)
    BY <1>0 DEF DefineType, io
  <1>6. Text \subseteq Text' /\ (p \notin import_map => name \in Text')
    BY <1>1, <1>5, Consumed
  <1>7. Advances
    BY <1>5, <1>6 DEF Advances
  <1>8. Proceeds
    BY <1>3, <1>4, <1>5, CallsDiffer DEF Proceeds
  <1>9. Writes
    <2>1. TypeWritten(this)'
      BY <1>3, <1>4, <1>5, <1>6 DEF TypeWritten, Pending
    <2>0. PICK file : file = type_name(p)
      OBVIOUS
    <2>2. Resolved(<<file, name>>)'
      <3>1. CASE p \in import_map
        <4>1. file = <<"package", p>> /\ Complete(outputs, p)
          BY <2>0, <3>1 DEF type_name, RInv, PackagesAreWritten
        <4>2. CASE this \in Written(p)
          <5>1. Provides(outputs, <<file, name>>)
            BY <4>1, <4>2 DEF Complete, Provides
          <5>. QED  BY <1>5, <5>1 DEF Resolved
        <4>3. CASE this \notin Written(p)
          BY <4>1, <4>3 DEF Resolved, NotWritten
        <4>. QED  BY <4>2, <4>3
      <3>2. CASE p \notin import_map
        BY <1>5, <1>6, <2>0, <3>2 DEF Resolved, type_name
      <3>. QED  BY <3>1, <3>2
    <2>. QED  BY <1>5, <2>0, <2>1, <2>2 DEF Writes
  <1>. QED  BY <1>4, <1>7, <1>8, <1>9, AdvanceKeeps

\* The class of the imports mentions the class of an import, which is defined.
LEMMA GetterResolves == ASSUME RInv, TypeOK', Getter PROVE RInv'
  <1>0. PICK this : this = This
    OBVIOUS
  <1>. DEFINE calls == <<Call("define_interface", this)>>
  <1>1. At("getter") /\ this \in Interfaces
    BY <1>0, ThisType DEF RInv, Getter
  <1>2. /\ calls \in Seq(AllCalls) /\ Plain(calls) /\ Then(calls)
        /\ ToSet(calls) = {Call("define_interface", this)}
    <2>1. Call("define_interface", this) \in AllCalls
      BY <1>1 DEF AllCalls, Calls, Call
    <2>. QED  BY <1>0, <2>1, CallType, PlainCalls DEF Getter, Starts, Ends
  <1>. HIDE DEF calls
  <1>3. /\ Ordered(agenda') /\ Plan = {Call("getter", this)} \cup Rest
        /\ Plan' = ToSet(calls) \cup Rest
    BY <1>0, <1>1, <1>2, PlainStep DEF RInv
  <1>4. /\ UNCHANGED <<import_map, outputs, library, definitions, interface_names,
                       type_definitions, stream_future_vtables, local_exports>>
        /\ uses' = uses \cup {<<library, <<"_Imported", this>>>>}
    BY <1>0 DEF Getter, io
  <1>5. <<"_Imported", this>> \in Text
    BY <1>1, <1>3 DEF RInv, ImportsAreDefined
  <1>6. Advances
    BY <1>4 DEF Advances, Text
  <1>7. Proceeds
    BY <1>2, <1>3, CallsDiffer DEF Proceeds
  <1>8. Writes
    <2>0. PICK file : file = library
      OBVIOUS
    <2>1. Resolved(<<file, <<"_Imported", this>>>>)'
      BY <1>4, <1>5, <2>0 DEF Resolved, Text
    <2>. QED  BY <1>4, <2>0, <2>1 DEF Writes
  <1>. QED  BY <1>3, <1>6, <1>7, <1>8, AdvanceKeeps

\* Imports and exports of an interface make plain calls only.
LEMMA ImportResolves == ASSUME RInv, TypeOK', ImportInterface PROVE RInv'
  <1>0. PICK this : this = This
    OBVIOUS
  <1>. DEFINE vtables == Each("vtables", FunctionsOf[this])
              define == <<Call("define_interface", this)>>
              import == Each("imported_function", FunctionsOf[this])
              end == <<Call("endImport", this)>>
  <1>1. /\ At("import_interface") /\ this \in Interfaces
        /\ FunctionsOf[this] \in Seq(Funcs)
    BY <1>0, ThisType, ResolveAssumption DEF RInv, ImportInterface
  <1>2. /\ vtables \in Seq(AllCalls) /\ Plain(vtables)
        /\ \A call \in ToSet(vtables) : \E x : call = Call("vtables", x)
    <2>1. vtables \in Seq(AllCalls)
      BY <1>1, PartsType
    <2>2. Plain(vtables) /\ \A call \in ToSet(vtables) : \E x : call = Call("vtables", x)
      <3>1. FunctionsOf[this] \in Seq(Funcs)
        BY <1>1
      <3>. QED  BY <3>1, EachPlain
    <2>. QED  BY <2>1, <2>2
  <1>3. /\ import \in Seq(AllCalls) /\ Plain(import)
        /\ \A call \in ToSet(import) : \E x : call = Call("imported_function", x)
    <2>1. import \in Seq(AllCalls)
      BY <1>1, PartsType
    <2>2. Plain(import) /\ \A call \in ToSet(import) : \E x : call = Call("imported_function", x)
      <3>1. FunctionsOf[this] \in Seq(Funcs)
        BY <1>1
      <3>. QED  BY <3>1, EachPlain
    <2>. QED  BY <2>1, <2>2
  <1>4. /\ define \in Seq(AllCalls) /\ Plain(define)
        /\ ToSet(define) = {Call("define_interface", this)}
        /\ end \in Seq(AllCalls) /\ Plain(end) /\ ToSet(end) = {Call("endImport", this)}
    <2>1. Call("define_interface", this) \in AllCalls /\ Call("endImport", this) \in AllCalls
      BY <1>1 DEF AllCalls, Calls, Call
    <2>. QED  BY <2>1, CallType, PlainCalls DEF Starts, Ends
  <1>5. Then(((vtables \o define) \o import) \o end)
    BY <1>0 DEF ImportInterface
  <1>. HIDE DEF vtables, define, import, end
  <1>6. /\ vtables \o define \in Seq(AllCalls) /\ Plain(vtables \o define)
        /\ ToSet(vtables \o define) = ToSet(vtables) \cup ToSet(define)
    BY <1>2, <1>4, ConcatPlain
  <1>. DEFINE two == vtables \o define
  <1>. HIDE DEF two
  <1>7. /\ two \o import \in Seq(AllCalls) /\ Plain(two \o import)
        /\ ToSet(two \o import) = ToSet(two) \cup ToSet(import)
    BY <1>3, <1>6, ConcatPlain DEF two
  <1>. DEFINE three == two \o import
  <1>. HIDE DEF three
  <1>8. /\ three \o end \in Seq(AllCalls) /\ Plain(three \o end)
        /\ ToSet(three \o end) = ToSet(three) \cup ToSet(end)
    BY <1>4, <1>7, ConcatPlain DEF three
  <1>. DEFINE calls == three \o end
  <1>. HIDE DEF calls
  <1>9. /\ Then(calls) /\ calls \in Seq(AllCalls) /\ Plain(calls)
        /\ Call("endImport", this) \in ToSet(calls)
        /\ \A call \in ToSet(calls) :
             \E part \in {"vtables", "define_interface", "imported_function", "endImport"} :
               \E x : call = Call(part, x)
    <2>1. ToSet(calls) = ((ToSet(vtables) \cup ToSet(define)) \cup ToSet(import)) \cup ToSet(end)
      BY <1>6, <1>7, <1>8 DEF calls, three, two
    <2>2. Then(calls) /\ calls \in Seq(AllCalls) /\ Plain(calls)
      BY <1>5, <1>8 DEF calls, three, two
    <2>. QED  BY <1>2, <1>3, <1>4, <2>1, <2>2
  <1>10. /\ Ordered(agenda') /\ Plan = {Call("import_interface", this)} \cup Rest
         /\ Plan' = ToSet(calls) \cup Rest
    BY <1>0, <1>1, <1>9, PlainStep DEF RInv
  <1>11. UNCHANGED <<import_map, outputs, library, definitions, interface_names,
                     type_definitions, stream_future_vtables, uses, local_exports>>
    BY DEF ImportInterface, dart, io
  <1>12. Advances /\ Writes
    BY <1>11 DEF Advances, Writes, Text
  <1>13. Proceeds
    BY <1>9, <1>10, CallsDiffer DEF Proceeds
  <1>. QED  BY <1>10, <1>12, <1>13, AdvanceKeeps

\* An exported interface.
LEMMA ExportResolves == ASSUME RInv, TypeOK', ExportInterface PROVE RInv'
  <1>0. PICK this : this = This
    OBVIOUS
  <1>. DEFINE vtables == Each("vtables", FunctionsOf[this])
              define == Call("define_interface", this)
              end == Call("endExport", this)
              last == <<define, end>>
              calls == vtables \o last
  <1>1. /\ At("export_interface") /\ this \in Interfaces
        /\ FunctionsOf[this] \in Seq(Funcs)
    BY <1>0, ThisType, ResolveAssumption DEF RInv, ExportInterface
  <1>2. /\ vtables \in Seq(AllCalls) /\ Plain(vtables)
        /\ \A call \in ToSet(vtables) : \E x : call = Call("vtables", x)
    <2>1. vtables \in Seq(AllCalls)
      BY <1>1, PartsType
    <2>2. Plain(vtables) /\ \A call \in ToSet(vtables) : \E x : call = Call("vtables", x)
      <3>1. FunctionsOf[this] \in Seq(Funcs)
        BY <1>1
      <3>. QED  BY <3>1, EachPlain
    <2>. QED  BY <2>1, <2>2
  <1>3. last \in Seq(AllCalls) /\ Plain(last) /\ ToSet(last) = {define, end}
    <2>1. define \in AllCalls /\ end \in AllCalls
      BY <1>1 DEF AllCalls, Calls, Call
    <2>2. define.do = "define_interface" /\ end.do = "endExport"
      BY DEF Call
    <2>. HIDE DEF define, end
    <2>3. last \in Seq(AllCalls) /\ ToSet(last) = {define, end}
      BY <2>1 DEF ToSet
    <2>. HIDE DEF last
    <2>. QED  BY <2>2, <2>3 DEF Plain, Starts, Ends
  <1>4. Then(calls)
    BY <1>0 DEF ExportInterface
  <1>. HIDE DEF vtables, last
  <1>5. /\ calls \in Seq(AllCalls) /\ Plain(calls)
        /\ ToSet(calls) = ToSet(vtables) \cup {define, end}
    BY <1>2, <1>3, ConcatPlain
  <1>. HIDE DEF calls
  <1>6. /\ Ordered(agenda') /\ Plan = {Call("export_interface", this)} \cup Rest
        /\ Plan' = ToSet(calls) \cup Rest
    BY <1>0, <1>1, <1>4, <1>5, PlainStep DEF RInv
  <1>7. UNCHANGED <<import_map, outputs, library, definitions, interface_names,
                    type_definitions, stream_future_vtables, uses, local_exports>>
    BY DEF ExportInterface, dart, io
  <1>8. Advances /\ Writes
    BY <1>7 DEF Advances, Writes, Text
  <1>9. Proceeds
    BY <1>2, <1>5, <1>6, CallsDiffer DEF Proceeds
  <1>. QED  BY <1>6, <1>8, <1>9, AdvanceKeeps

\* When finish is called all imports of the world are defined, because only the
\* end of the file is left to do.
LEMMA FinishResolves == ASSUME RInv, TypeOK', Finish PROVE RInv'
  <1>0. PICK this : this = This
    OBVIOUS
  <1>. DEFINE getters == Each("getter", ImportsOf[this])
              exported == Each("exported", local_exports)
              calls == getters \o exported
              first == <<"Imports", 0>>
              second == <<"Component", 0>>
              added == <<first, second>>
  <1>1. /\ At("finish") /\ this \in Worlds /\ local_exports \in Seq(Interfaces)
        /\ ImportsOf[this] \in Seq(Interfaces) /\ definitions \in Seq(DefinitionNames)
    BY <1>0, ThisType, ResolveAssumption DEF RInv, Finish, TypeOK
  <1>2. /\ getters \in Seq(AllCalls) /\ Plain(getters)
        /\ \A call \in ToSet(getters) : \E x \in ToSet(ImportsOf[this]) : call = Call("getter", x)
    <2>1. getters \in Seq(AllCalls)
      BY <1>1, PartsType
    <2>2. /\ Plain(getters)
          /\ \A call \in ToSet(getters) :
               \E x \in ToSet(ImportsOf[this]) : call = Call("getter", x)
      <3>1. ImportsOf[this] \in Seq(Interfaces)
        BY <1>1
      <3>. QED  BY <3>1, EachPlain
    <2>. QED  BY <2>1, <2>2
  <1>3. /\ exported \in Seq(AllCalls) /\ Plain(exported)
        /\ \A call \in ToSet(exported) : \E x : call = Call("exported", x)
    <2>1. exported \in Seq(AllCalls)
      BY <1>1, PartsType
    <2>2. Plain(exported) /\ \A call \in ToSet(exported) : \E x : call = Call("exported", x)
      <3>1. local_exports \in Seq(Interfaces)
        BY <1>1
      <3>. QED  BY <3>1, EachPlain
    <2>. QED  BY <2>1, <2>2
  <1>4. Then(calls)
    BY <1>0 DEF Finish
  <1>5. added \in Seq(DefinitionNames)
    BY DEF DefinitionNames
  <1>6. /\ UNCHANGED <<import_map, outputs, library, interface_names, type_definitions,
                       stream_future_vtables, local_exports>>
        /\ definitions' = definitions \o added
        /\ uses' = uses \cup {<<library, <<"_unnamedExport", i>>>> : i \in ToSet(local_exports)}
    BY DEF Finish, io
  <1>. HIDE DEF getters, exported, added
  <1>7. /\ calls \in Seq(AllCalls) /\ Plain(calls)
        /\ ToSet(calls) = ToSet(getters) \cup ToSet(exported)
    BY <1>2, <1>3, ConcatPlain
  <1>. HIDE DEF calls
  <1>8. /\ Ordered(agenda') /\ Plan = {Call("finish", this)} \cup Rest
        /\ Plan' = ToSet(calls) \cup Rest
        /\ \A call \in Rest : Before(Call("finish", this), call)
    BY <1>0, <1>1, <1>4, <1>7, PlainStep DEF RInv
  <1>9. Text \subseteq Text'
    BY <1>1, <1>5, <1>6, ElementsOf DEF Text
  <1>10. \A i \in ToSet(ImportsOf[this]) : <<"_Imported", i>> \in Text'
    <2>1. \A i : /\ Call("import_interface", i) \notin Rest
                 /\ Call("endImport", i) \notin Rest
      <3>1. Call("finish", this).do = "finish"
            /\ \A i : /\ Call("import_interface", i).do = "import_interface"
                      /\ Call("endImport", i).do = "endImport"
        BY DEF Call
      <3>. QED  BY <1>8, <3>1 DEF Before, Starts
    <2>2. \A i : /\ Call("import_interface", i) \notin Plan
                 /\ Call("endImport", i) \notin Plan
      BY <1>8, <2>1, CallsDiffer
    <2>. QED  BY <1>1, <1>8, <1>9, <2>2 DEF RInv, ImportsAreDefined
  <1>11. Advances
    BY <1>6, <1>9 DEF Advances
  <1>12. Proceeds
    BY <1>2, <1>3, <1>7, <1>8, <1>10, CallsDiffer DEF Proceeds
  <1>13. Writes
    <2>0. PICK file : file = library
      OBVIOUS
    <2>1. ASSUME NEW i \in ToSet(local_exports)
          PROVE  Resolved(<<file, <<"_unnamedExport", i>>>>)'
      <3>1. <<"_unnamedExport", i>> \in Text'
        BY <1>9 DEF RInv, RememberedAreDefined
      <3>. QED  BY <1>6, <2>0, <3>1 DEF Resolved
    <2>. QED  BY <1>6, <2>0, <2>1 DEF Writes
  <1>. QED  BY <1>8, <1>11, <1>12, <1>13, AdvanceKeeps

\* All resources without a drop function get one.
LEMMA DropsAll ==
  ASSUME NEW resources \in SUBSET Types
  PROVE  /\ Named("_drop", drop_function(resources)) \in Seq(DefinitionNames)
         /\ ToSet(drop_function(resources)) = resources \ stream_future_vtables
         /\ \A r \in resources \ stream_future_vtables :
              <<"_drop", r>> \in ToSet(Named("_drop", drop_function(resources)))
  <1>0. PICK fresh : fresh = resources \ stream_future_vtables
    OBVIOUS
  <1>. DEFINE drops == SetToSeq(fresh)
  <1>1. fresh \subseteq Types /\ IsFiniteSet(fresh)
    BY <1>0, SetsAssumption, FS_Subset
  <1>2. drops \in [1..Cardinality(fresh) -> fresh] /\ IsInjective(drops)
    <2>1. ExistsBijection(1..Cardinality(fresh), fresh)
      BY <1>1, FS_CardinalityType
    <2>2. \E f \in [1..Cardinality(fresh) -> fresh] : IsInjective(f)
      BY <2>1 DEF ExistsBijection, Bijection, Injection, Surjection, IsInjective
    <2>. QED  BY <2>2 DEF SetToSeq
  <1>3. Cardinality(fresh) \in Nat
    BY <1>1, FS_CardinalityType
  <1>. HIDE DEF drops
  <1>4. \A r \in fresh : \E n \in 1..Cardinality(fresh) : drops[n] = r
    <2>1. drops \in Injection(1..Cardinality(fresh), fresh)
      BY <1>2 DEF Injection, IsInjective
    <2>2. Cardinality(1..Cardinality(fresh)) = Cardinality(fresh)
      <3>1. \A n \in Nat : Cardinality(1..n) = n
        BY FS_Interval
      <3>. QED  BY <1>3, <3>1
    <2>3. drops \in Surjection(1..Cardinality(fresh), fresh)
      BY <1>1, <2>1, <2>2, FS_Injection
    <2>. QED  BY <2>3 DEF Surjection
  <1>5. DOMAIN drops = 1..Cardinality(fresh)
    BY <1>2
  <1>6. ToSet(drops) = fresh
    BY <1>2, <1>4, <1>5 DEF ToSet
  <1>7. \A r \in fresh : <<"_drop", r>> \in ToSet(Named("_drop", drops))
    BY <1>4, <1>5 DEF ToSet, Named
  <1>8. drops = drop_function(resources)
    BY <1>0 DEF drops, drop_function
  <1>9. Named("_drop", drop_function(resources)) \in Seq(DefinitionNames)
    BY DropType, Wider DEF DefinitionNames
  <1>. QED  BY <1>0, <1>6, <1>7, <1>8, <1>9

\* What generated code mentions is defined: the vtables, which it would panic
\* without, and the drop functions, which come with it if they are missing.
LEMMA BodyResolves ==
  ASSUME RInv, NEW vtables \in SUBSET Vtables, HasVtables(vtables), NEW resources \in SUBSET Types,
         UNCHANGED library, Text \subseteq Text',
         \A r \in resources \ stream_future_vtables : <<"_drop", r>> \in Text'
  PROVE  \A use \in BodyUses(vtables, resources) : Resolved(use)'
  <1>0. PICK file : file = library
    OBVIOUS
  <1>1. \A v \in stream_future_vtables : VtableWritten(v)
    BY DEF RInv, RememberedAreDefined
  <1>3. ASSUME NEW v \in vtables \ (Void \ Streams)
        PROVE  Resolved(<<file, <<"_Vtable", v>>>>)'
    <2>1. v \in Vtables \ (Void \ Streams) /\ v \in stream_future_vtables
      BY DEF HasVtables
    <2>2. <<"_Vtable", v>> \in Text'
      BY <1>1, <2>1 DEF VtableWritten
    <2>. QED  BY <1>0, <2>2 DEF Resolved
  <1>4. ASSUME NEW r \in resources PROVE Resolved(<<file, <<"_drop", r>>>>)'
    <2>1. <<"_drop", r>> \in Text'
      BY <1>1 DEF VtableWritten
    <2>. QED  BY <1>0, <2>1 DEF Resolved
  <1>. QED  BY <1>0, <1>3, <1>4 DEF BodyUses

\* A vtable is defined with the drop functions of its elements.
LEMMA VtableResolves == ASSUME RInv, TypeOK', DefineVtable PROVE RInv'
  <1>0. PICK this, drops : this = This /\ drops = drop_function(ElementOwns[this])
    OBVIOUS
  <1>. DEFINE calls == Each("type", Elements[this])
              name == <<"_Vtable", this>>
              first == <<name>>
              names == Named("_drop", drops)
  <1>1. /\ At("vtable") /\ this \in Vtables /\ ElementOwns[this] \in SUBSET Types
        /\ ElementVtables[this] \in SUBSET Vtables
        /\ Elements[this] \in Seq(Types) /\ definitions \in Seq(DefinitionNames)
    BY <1>0, ThisType, ResolveAssumption DEF RInv, DefineVtable, TypeOK
  <1>2. calls \in Seq(AllCalls)
    BY <1>1, PartsType
  <1>3. Plain(calls) /\ \A call \in ToSet(calls) : \E t : call = Call("type", t)
    <2>1. Elements[this] \in Seq(Types)
      BY <1>1
    <2>. QED  BY <2>1, EachPlain
  <1>4. Then(calls)
    BY <1>0 DEF DefineVtable
  <1>. HIDE DEF calls
  <1>5. /\ Ordered(agenda') /\ Plan = {Call("vtable", this)} \cup Rest
        /\ Plan' = ToSet(calls) \cup Rest
    BY <1>0, <1>1, <1>2, <1>3, <1>4, PlainStep DEF RInv
  <1>6. /\ names \in Seq(DefinitionNames)
        /\ ToSet(drops) = ElementOwns[this] \ stream_future_vtables
        /\ \A r \in ElementOwns[this] \ stream_future_vtables : <<"_drop", r>> \in ToSet(names)
    BY <1>0, <1>1, DropsAll
  <1>7. first \in Seq(DefinitionNames) /\ ToSet(first) = {name}
    <2>1. name \in DefinitionNames
      BY <1>1 DEF DefinitionNames
    <2>. QED  BY <2>1, OneName
  <1>8. /\ UNCHANGED <<import_map, outputs, library, interface_names, type_definitions,
                       local_exports>>
        /\ HasVtables(ElementVtables[this])
        /\ uses' = uses \cup BodyUses(ElementVtables[this], ElementOwns[this])
        /\ definitions' = (definitions \o first) \o names
        /\ stream_future_vtables' = stream_future_vtables \cup {this} \cup ToSet(drops)
    BY <1>0 DEF DefineVtable
  <1>. HIDE DEF first, names
  <1>9. Text' = (Text \cup {name}) \cup ToSet(names)
    <2>. DEFINE two == definitions \o first
    <2>1. two \in Seq(DefinitionNames) /\ ToSet(two) = Text \cup {name}
      BY <1>1, <1>7, ElementsOf, ConcatProperties DEF Text
    <2>2. definitions' = two \o names
      BY <1>8
    <2>. HIDE DEF two
    <2>3. ToSet(two \o names) = ToSet(two) \cup ToSet(names)
      BY <1>6, <2>1, ElementsOf
    <2>. QED  BY <2>1, <2>2, <2>3 DEF Text
  <1>10. Advances
    BY <1>8, <1>9 DEF Advances
  <1>11. Proceeds
    BY <1>3, <1>5, CallsDiffer DEF Proceeds
  <1>12. Writes
    <2>1. VtableWritten(this)'
      BY <1>1, <1>9, SetsAssumption DEF VtableWritten
    <2>2. \A r \in ToSet(drops) : VtableWritten(r)'
      BY <1>1, <1>6, <1>9, SetsAssumption DEF VtableWritten
    <2>3. \A use \in BodyUses(ElementVtables[this], ElementOwns[this]) : Resolved(use)'
      BY <1>1, <1>6, <1>8, <1>9, BodyResolves
    <2>. QED  BY <1>8, <2>1, <2>2, <2>3 DEF Writes
  <1>. QED  BY <1>5, <1>10, <1>11, <1>12, AdvanceKeeps

\* The call for the signature of a function is all that its code makes.
LEMMA SignatureCall ==
  ASSUME RInv, NEW name \in {"imported_function", "exported_function"}, At(name),
         Then(<<Call("signature", This)>>)
  PROVE  /\ This \in Funcs /\ Ordered(agenda') /\ Plan = {Call(name, This)} \cup Rest
         /\ Plan' = {Call("signature", This)} \cup Rest
  <1>. DEFINE calls == <<Call("signature", This)>>
  <1>1. This \in Funcs
    BY ThisType DEF RInv
  <1>2. calls \in Seq(AllCalls) /\ Plain(calls) /\ ToSet(calls) = {Call("signature", This)}
    <2>1. Call("signature", This) \in AllCalls
      BY <1>1 DEF AllCalls, Calls, Call
    <2>. QED  BY <2>1, CallType, PlainCalls DEF Starts, Ends
  <1>. HIDE DEF calls
  <1>3. Then(calls)
    BY DEF calls
  <1>. QED  BY <1>1, <1>2, <1>3, PlainStep DEF RInv

\* The code of an imported function.
LEMMA ImportedResolves == ASSUME RInv, TypeOK', ImportedFunction PROVE RInv'
  <1>0. PICK this, file, core, drops, vtables :
          /\ this = This /\ file = library /\ core = core_name
          /\ drops = drop_function(Results[this])
          /\ vtables = ToSet(StreamsFutures[this])
    OBVIOUS
  <1>. DEFINE last == <<core>>
              names == Named("_drop", drops)
              own == names \o last
  <1>1. /\ At("imported_function") /\ HasVtables(vtables)
        /\ Then(<<Call("signature", This)>>)
        /\ UNCHANGED <<import_map, outputs, library, interface_names, type_definitions,
                       local_exports>>
        /\ definitions' = definitions \o own
        /\ uses' = uses \cup BodyUses(vtables, Results[this]) \cup {<<file, core>>}
        /\ stream_future_vtables' = stream_future_vtables \cup ToSet(drops)
    BY <1>0 DEF ImportedFunction
  <1>2. /\ this \in Funcs /\ Ordered(agenda')
        /\ Plan = {Call("imported_function", this)} \cup Rest
        /\ Plan' = {Call("signature", this)} \cup Rest
    BY <1>0, <1>1, SignatureCall
  <1>3. /\ Results[this] \in SUBSET Types /\ definitions \in Seq(DefinitionNames)
        /\ vtables \in SUBSET Vtables
    BY <1>0, <1>2, FunctionVtables, ResolveAssumption DEF RInv, TypeOK
  <1>4. /\ names \in Seq(DefinitionNames)
        /\ ToSet(drops) = Results[this] \ stream_future_vtables
        /\ \A r \in Results[this] \ stream_future_vtables : <<"_drop", r>> \in ToSet(names)
    BY <1>0, <1>3, DropsAll
  <1>5. last \in Seq(DefinitionNames) /\ ToSet(last) = {core}
    <2>1. core \in DefinitionNames
      BY <1>0, Lengths DEF RInv, core_name, DefinitionNames
    <2>. QED  BY <2>1, OneName
  <1>. HIDE DEF names, last
  <1>6. own \in Seq(DefinitionNames) /\ ToSet(own) = ToSet(names) \cup {core}
    BY <1>4, <1>5, ElementsOf, ConcatProperties
  <1>. HIDE DEF own
  <1>7. Text' = Text \cup ToSet(own)
    BY <1>1, <1>3, <1>6, ElementsOf DEF Text
  <1>8. Advances
    BY <1>1, <1>7 DEF Advances
  <1>9. Proceeds
    BY <1>2, CallsDiffer DEF Proceeds
  <1>10. Writes
    <2>1. \A use \in BodyUses(vtables, Results[this]) : Resolved(use)'
      BY <1>1, <1>3, <1>4, <1>6, <1>7, BodyResolves
    <2>2. Resolved(<<file, core>>)'
      BY <1>0, <1>1, <1>6, <1>7 DEF Resolved
    <2>3. \A r \in ToSet(drops) : VtableWritten(r)'
      BY <1>3, <1>4, <1>6, <1>7, SetsAssumption DEF VtableWritten
    <2>. QED  BY <1>1, <2>1, <2>2, <2>3 DEF Writes
  <1>. QED  BY <1>2, <1>8, <1>9, <1>10, AdvanceKeeps

\* The code of an exported function.
LEMMA ExportedResolves == ASSUME RInv, TypeOK', ExportedFunction PROVE RInv'
  <1>0. PICK this, file, drops, vtables, taskReturn, postReturn, component :
          /\ this = This /\ file = library /\ drops = drop_function(Params[this])
          /\ vtables = ToSet(StreamsFutures[this])
          /\ taskReturn = IF this \in Async
                          THEN <<<<"_component_taskReturn", export_id>>>> ELSE <<>>
          /\ postReturn = IF this \in PostReturn \ Async
                          THEN <<<<"_component_postreturn", export_id>>>> ELSE <<>>
          /\ component = <<<<"_component", export_id>>>>
    OBVIOUS
  <1>. DEFINE names == Named("_drop", drops)
              additional == names \o taskReturn
              exported == component \o postReturn
  <1>1. /\ At("exported_function") /\ HasVtables(vtables)
        /\ Then(<<Call("signature", This)>>)
        /\ UNCHANGED <<import_map, outputs, library, interface_names, type_definitions,
                       local_exports>>
        /\ definitions' = (definitions \o additional) \o exported
        /\ uses' = uses \cup BodyUses(vtables, Params[this])
                       \cup {<<file, name>> : name \in ToSet(taskReturn)}
        /\ stream_future_vtables' = stream_future_vtables \cup ToSet(drops)
    BY <1>0 DEF ExportedFunction
  <1>2. /\ this \in Funcs /\ Ordered(agenda')
        /\ Plan = {Call("exported_function", this)} \cup Rest
        /\ Plan' = {Call("signature", this)} \cup Rest
    BY <1>0, <1>1, SignatureCall
  <1>3. /\ Params[this] \in SUBSET Types /\ definitions \in Seq(DefinitionNames)
        /\ vtables \in SUBSET Vtables
    BY <1>0, <1>2, FunctionVtables, ResolveAssumption DEF RInv, TypeOK
  <1>4. /\ names \in Seq(DefinitionNames)
        /\ ToSet(drops) = Params[this] \ stream_future_vtables
        /\ \A r \in Params[this] \ stream_future_vtables : <<"_drop", r>> \in ToSet(names)
    BY <1>0, <1>3, DropsAll
  <1>5. /\ taskReturn \in Seq(DefinitionNames) /\ postReturn \in Seq(DefinitionNames)
        /\ component \in Seq(DefinitionNames)
    <2>1. export_id \in Nat
      BY Lengths DEF RInv, export_id
    <2>2. \A id \in Nat : /\ <<"_component_taskReturn", id>> \in DefinitionNames
                          /\ <<"_component_postreturn", id>> \in DefinitionNames
                          /\ <<"_component", id>> \in DefinitionNames
      BY DEF DefinitionNames
    <2>. QED  BY <1>0, <2>1, <2>2, OptionalType
  <1>. HIDE DEF names
  <1>6. /\ additional \in Seq(DefinitionNames) /\ exported \in Seq(DefinitionNames)
        /\ ToSet(additional) = ToSet(names) \cup ToSet(taskReturn)
    BY <1>4, <1>5, ElementsOf, ConcatProperties
  <1>. HIDE DEF additional, exported
  <1>7. Text \subseteq Text' /\ ToSet(names) \subseteq Text' /\ ToSet(taskReturn) \subseteq Text'
    <2>. DEFINE two == definitions \o additional
    <2>1. two \in Seq(DefinitionNames) /\ ToSet(two) = Text \cup ToSet(additional)
      BY <1>3, <1>6, ElementsOf, ConcatProperties DEF Text
    <2>2. definitions' = two \o exported
      BY <1>1
    <2>. HIDE DEF two
    <2>3. ToSet(two \o exported) = ToSet(two) \cup ToSet(exported)
      BY <1>6, <2>1, ElementsOf
    <2>. QED  BY <1>6, <2>1, <2>2, <2>3 DEF Text
  <1>8. Advances
    BY <1>1, <1>7 DEF Advances
  <1>9. Proceeds
    BY <1>2, CallsDiffer DEF Proceeds
  <1>10. Writes
    <2>1. \A use \in BodyUses(vtables, Params[this]) : Resolved(use)'
      BY <1>1, <1>3, <1>4, <1>7, BodyResolves
    <2>2. \A r \in ToSet(drops) : VtableWritten(r)'
      BY <1>3, <1>4, <1>7, SetsAssumption DEF VtableWritten
    <2>3. \A name \in ToSet(taskReturn) : Resolved(<<file, name>>)'
      BY <1>0, <1>1, <1>7 DEF Resolved
    <2>. QED  BY <1>1, <2>1, <2>2, <2>3 DEF Writes
  <1>. QED  BY <1>2, <1>8, <1>9, <1>10, AdvanceKeeps

\* When a file starts or ends, what is left to do is to start others.
LEMMA OnlyStartsLeft ==
  ASSUME RInv, NEW name \in Starts \cup Ends, At(name)
  PROVE  /\ Tail(agenda) \in Seq(AllCalls) /\ Ordered(Tail(agenda))
         /\ Plan = {Call(name, This)} \cup Rest
         /\ \A call \in Rest : call.do \in Starts
  <1>1. /\ agenda \in Seq(AllCalls) /\ agenda # <<>> /\ Head(agenda).do = name
        /\ Ordered(agenda)
    BY DEF RInv, TypeOK, At
  <1>2. Head(agenda) \in AllCalls /\ Tail(agenda) \in Seq(AllCalls)
    BY <1>1, TailType
  <1>3. Head(agenda) = Call(name, This)
    BY <1>1, <1>2 DEF AllCalls, Calls, This, Call
  <1>4. Plan = {Call(name, This)} \cup Rest
    BY <1>1, <1>3, HeadAndTail DEF Plan, Rest
  <1>5. Ordered(Tail(agenda)) /\ \A call \in Rest : Before(Head(agenda), call)
    BY <1>1, RestOrdered DEF Rest
  <1>. QED  BY <1>1, <1>2, <1>4, <1>5 DEF Before

\* What is mentioned in a file that is written is defined in it or in the files
\* written before.
LEMMA FileResolves ==
  ASSUME RInv, outputs' = Append(outputs, File), UNCHANGED <<library, definitions, uses>>
  PROVE  /\ ReferencesResolve' /\ UsesResolve'
         /\ ToSet(outputs') = ToSet(outputs) \cup {File}
  <1>0. PICK file : file = File
    OBVIOUS
  <1>1. /\ file.file = library /\ file.defines = definitions /\ file.uses = uses
    BY <1>0 DEF File
  <1>2. ToSet(outputs') = ToSet(outputs) \cup {file}
    <2>. DEFINE last == <<file>>
    <2>1. /\ last \in Seq(Outputs) /\ ToSet(last) = {file} /\ outputs \in Seq(Outputs)
          /\ outputs' = outputs \o last
      <3>1. file \in Outputs /\ outputs \in Seq(Outputs)
        BY <1>0, FileType DEF RInv, TypeOK
      <3>. QED  BY <1>0, <3>1, AppendIsConcat DEF ToSet
    <2>. HIDE DEF last
    <2>. QED  BY <2>1, ElementsOf
  <1>3. \A use : Provides(outputs, use) => Provides(outputs', use)
    BY <1>2 DEF Provides
  <1>4. ASSUME NEW use \in uses
        PROVE  Provides(outputs', use) \/ NotWritten(use[1], use[2])
    <2>1. \/ use[1] = library /\ use[2] \in Text
          \/ Provides(outputs, use) \/ NotWritten(use[1], use[2])
      BY DEF RInv, UsesResolve, Resolved
    <2>2. CASE use[1] = library /\ use[2] \in Text
      BY <1>1, <1>2, <2>2 DEF Provides, Text
    <2>. QED  BY <1>3, <2>1, <2>2
  <1>5. UsesResolve'
    BY <1>4 DEF UsesResolve, Resolved
  <1>6. ReferencesResolve'
    <2>1. \A out \in ToSet(outputs) : \A use \in out.uses :
            Provides(outputs, use) \/ NotWritten(use[1], use[2])
      BY DEF RInv, ReferencesResolve, Provides
    <2>2. \A out \in ToSet(outputs') : \A use \in out.uses :
            Provides(outputs', use) \/ NotWritten(use[1], use[2])
      BY <1>1, <1>2, <1>3, <1>4, <2>1
    <2>. QED  BY <2>2 DEF ReferencesResolve, Provides
  <1>. QED  BY <1>0, <1>2, <1>5, <1>6

\* Packages stay written when files are added.
LEMMA WrittenStays ==
  ASSUME NEW files, NEW more, ToSet(files) \subseteq ToSet(more), NEW p, Complete(files, p)
  PROVE  Complete(more, p)
  BY DEF Complete

\* The library of a package has all of its interfaces and types, because when it
\* is written all its definitions have been made: the types in it are a set that
\* contains all that they mention.
LEMMA PackageResolves == ASSUME RInv, TypeOK', EndPackage PROVE RInv'
  <1>0. PICK this : this = This
    OBVIOUS
  <1>1. /\ At("endPackage") /\ this \in Packages /\ Then(<<>>)
        /\ outputs' = Append(outputs, File) /\ import_map' = import_map \cup {this}
        /\ UNCHANGED <<library, definitions, interface_names, type_definitions,
                       stream_future_vtables, uses, local_exports>>
    BY <1>0, ThisType DEF RInv, EndPackage, dart, io
  <1>2. /\ Plan = {Call("endPackage", this)} \cup Rest
        /\ \A call \in Rest : call.do \in Starts
    BY <1>0, <1>1, OnlyStartsLeft DEF Ends
  <1>3. Ordered(agenda') /\ Plan' = Rest
    BY <1>1, NoCalls
  <1>4. /\ ReferencesResolve' /\ UsesResolve'
        /\ ToSet(outputs') = ToSet(outputs) \cup {File}
    BY <1>1, FileResolves
  <1>5. \A name, x : name \notin Starts => Call(name, x) \notin Rest
    <2>1. \A name, x : Call(name, x).do = name
      BY DEF Call
    <2>. QED  BY <1>2, <2>1
  <1>6. \A name, x : name \notin Starts \cup {"endPackage"} => Call(name, x) \notin Plan
    BY <1>2, <1>5, CallsDiffer
  <1>7. \A types : Pending(types) => types \subseteq type_definitions
    BY <1>6 DEF Pending, Starts
  <1>8. Complete(outputs', this)
    <2>1. CASE this \in import_map
      <3>1. Complete(outputs, this) /\ ToSet(outputs) \subseteq ToSet(outputs')
        BY <1>4, <2>1 DEF RInv, PackagesAreWritten
      <3>. QED  BY <3>1, WrittenStays
    <2>2. CASE this \notin import_map
      <3>1. library = <<"package", this>> /\ ToSet(InterfacesOf[this]) \subseteq interface_names
        BY <1>1, <1>2, <1>6 DEF RInv, PackageIsComplete, Starts
      <3>2. \A i \in ToSet(InterfacesOf[this]) :
              /\ <<"interface", i>> \in Text
              /\ \A f \in ToSet(FunctionsOf[i]) : ToSet(Signature[f]) \subseteq type_definitions
        <4>1. \A i \in ToSet(InterfacesOf[this]) : PackageOf[i] = this
          BY <1>1, PackagesAssumption
        <4>2. \A i \in ToSet(InterfacesOf[this]) : InterfaceWritten(i)
          BY <3>1 DEF RInv, RememberedAreDefined
        <4>. QED  BY <1>6, <1>7, <2>2, <4>1, <4>2 DEF InterfaceWritten, Starts
      <3>3. \A t \in type_definitions : Owner[t] = this =>
              <<"type", t>> \in Text /\ ToSet(Payloads[t]) \subseteq type_definitions
        <4>1. \A t \in type_definitions : TypeWritten(t)
          BY DEF RInv, RememberedAreDefined
        <4>. QED  BY <1>7, <2>2, <4>1 DEF TypeWritten
      <3>4. Written(this) \subseteq type_definitions
        <4>1. Mentioned(this, type_definitions)
          BY <3>2, <3>3 DEF Mentioned
        <4>2. type_definitions \in SUBSET Types
          BY DEF RInv, TypeOK
        <4>. QED  BY <4>1, <4>2 DEF Written
      <3>5. File.file = library /\ File.defines = definitions /\ File \in ToSet(outputs')
        BY <1>4 DEF File
      <3>. QED  BY <3>1, <3>2, <3>3, <3>4, <3>5 DEF Complete, Text
    <2>. QED  BY <2>1, <2>2
  <1>9. PackagesAreWritten'
    <2>1. \A p \in import_map : Complete(outputs, p)
      BY DEF RInv, PackagesAreWritten
    <2>2. \A p \in import_map' : Complete(outputs', p)
      BY <1>1, <1>4, <1>8, <2>1, WrittenStays
    <2>. QED  BY <2>2 DEF PackagesAreWritten
  <1>10. RememberedAreDefined'
    <2>1. \A types : Pending(types) => Pending(types)'
      BY <1>1, <1>7 DEF Pending
    <2>2. ASSUME NEW i, InterfaceWritten(i) PROVE InterfaceWritten(i)'
      BY <1>1, <1>6, <2>1, <2>2 DEF InterfaceWritten, Text, Starts
    <2>3. ASSUME NEW t, TypeWritten(t) PROVE TypeWritten(t)'
      BY <1>1, <2>1, <2>3 DEF TypeWritten, Text
    <2>4. ASSUME NEW v, VtableWritten(v) PROVE VtableWritten(v)'
      BY <1>1, <2>4 DEF VtableWritten, Text
    <2>. QED  BY <1>1, <2>2, <2>3, <2>4 DEF RInv, RememberedAreDefined, Text
  <1>11. PackageIsComplete' /\ ImportsAreDefined'
    BY <1>3, <1>5 DEF PackageIsComplete, ImportsAreDefined, Starts
  <1>. QED  BY <1>3, <1>4, <1>9, <1>10, <1>11 DEF RInv

\* A world's library is written.
LEMMA WorldResolves == ASSUME RInv, TypeOK', EndRun PROVE RInv'
  <1>0. PICK this : this = This
    OBVIOUS
  <1>1. /\ At("endRun") /\ Then(<<>>)
        /\ outputs' = Append(outputs, File)
        /\ UNCHANGED <<import_map, library, definitions, interface_names, type_definitions,
                       stream_future_vtables, uses>>
        /\ local_exports' = <<>>
    BY DEF EndRun, dart
  <1>2. /\ Plan = {Call("endRun", this)} \cup Rest
        /\ \A call \in Rest : call.do \in Starts
    BY <1>0, <1>1, OnlyStartsLeft DEF Ends
  <1>3. Ordered(agenda') /\ Plan' = Rest
    BY <1>1, NoCalls
  <1>4. /\ ReferencesResolve' /\ UsesResolve'
        /\ ToSet(outputs') = ToSet(outputs) \cup {File}
    BY <1>1, FileResolves
  <1>5. \A name, x : name \notin Starts => Call(name, x) \notin Rest
    <2>1. \A name, x : Call(name, x).do = name
      BY DEF Call
    <2>. QED  BY <1>2, <2>1
  <1>6. \A name, x : name \notin Starts \cup {"endRun"} => Call(name, x) \notin Plan
    BY <1>2, <1>5, CallsDiffer
  <1>7. PackagesAreWritten'
    BY <1>1, <1>4, WrittenStays DEF RInv, PackagesAreWritten
  <1>8. RememberedAreDefined'
    <2>1. \A types : Pending(types) => Pending(types)'
      BY <1>1, <1>6 DEF Pending, Starts
    <2>2. ASSUME NEW i, InterfaceWritten(i) PROVE InterfaceWritten(i)'
      BY <1>1, <1>6, <2>1, <2>2 DEF InterfaceWritten, Text, Starts
    <2>3. ASSUME NEW t, TypeWritten(t) PROVE TypeWritten(t)'
      BY <1>1, <2>1, <2>3 DEF TypeWritten, Text
    <2>4. ASSUME NEW v, VtableWritten(v) PROVE VtableWritten(v)'
      BY <1>1, <2>4 DEF VtableWritten, Text
    <2>. QED  BY <1>1, <2>2, <2>3, <2>4, PlainCalls DEF RInv, RememberedAreDefined
  <1>9. PackageIsComplete' /\ ImportsAreDefined'
    BY <1>3, <1>5 DEF PackageIsComplete, ImportsAreDefined, Starts
  <1>. QED  BY <1>3, <1>4, <1>7, <1>8, <1>9 DEF RInv

\* A file starts with nothing in it.
LEMMA StartResolves ==
  ASSUME RInv, NEW file, NewSource(file), UNCHANGED <<import_map, outputs>>
  PROVE  /\ RememberedAreDefined' /\ PackagesAreWritten'
         /\ UsesResolve' /\ ReferencesResolve'
  <1>1. RememberedAreDefined'
    BY PlainCalls DEF NewSource, RememberedAreDefined
  <1>2. UsesResolve'
    BY DEF NewSource, UsesResolve
  <1>. QED  BY <1>1, <1>2 DEF RInv, PackagesAreWritten, ReferencesResolve

\* The start of a package plans all of its interfaces.
LEMMA BeginPackageResolves == ASSUME RInv, TypeOK', BeginPackage PROVE RInv'
  <1>0. PICK this : this = This
    OBVIOUS
  <1>. DEFINE define == Each("define_interface", InterfacesOf[this])
              end == Call("endPackage", this)
              last == <<end>>
              calls == define \o last
  <1>1. /\ At("package") /\ this \in Packages /\ InterfacesOf[this] \in Seq(Interfaces)
        /\ NewSource(<<"package", this>>) /\ UNCHANGED <<import_map, outputs>>
        /\ Then(calls)
    BY <1>0, ThisType, ResolveAssumption DEF RInv, BeginPackage
  <1>2. define \in Seq(AllCalls)
    BY <1>1, PartsType
  <1>3. Plain(define) /\ \A call : call \in ToSet(define) <=>
          \E i \in ToSet(InterfacesOf[this]) : call = Call("define_interface", i)
    <2>1. InterfacesOf[this] \in Seq(Interfaces)
      BY <1>1
    <2>. QED  BY <2>1, EachPlain
  <1>4. last \in Seq(AllCalls) /\ ToSet(last) = {end} /\ Ordered(last)
    <2>1. end \in AllCalls
      BY <1>1 DEF AllCalls, Calls, Call
    <2>. HIDE DEF end
    <2>. QED  BY <2>1 DEF ToSet, Ordered
  <1>5. /\ Tail(agenda) \in Seq(AllCalls) /\ Ordered(Tail(agenda))
        /\ \A call \in Rest : call.do \in Starts
    BY <1>1, OnlyStartsLeft DEF Starts
  <1>. HIDE DEF define, last
  <1>6. calls \in Seq(AllCalls) /\ Ordered(calls) /\ ToSet(calls) = ToSet(define) \cup {end}
    <2>1. Ordered(define) /\ \A a \in ToSet(define) : \A b : Before(a, b)
      BY <1>2, <1>3, PlainOrdered
    <2>2. Ordered(define \o last)
      <3>1. \A a \in ToSet(define), b \in ToSet(last) : Before(a, b)
        BY <2>1
      <3>. QED  BY <1>2, <1>4, <2>1, <3>1, ConcatOrdered
    <2>. QED  BY <1>2, <1>4, <2>2, ElementsOf, ConcatProperties
  <1>. HIDE DEF calls
  <1>7. Ordered(agenda') /\ Plan' = ToSet(calls) \cup Rest
    <2>1. Ordered(calls \o Tail(agenda))
      <3>1. \A a \in ToSet(calls), b \in ToSet(Tail(agenda)) : Before(a, b)
        BY <1>5 DEF Before, Rest
      <3>. QED  BY <1>5, <1>6, <3>1, ConcatOrdered
    <2>2. calls \in Seq(AllCalls) /\ agenda' = calls \o Tail(agenda)
      BY <1>1, <1>6 DEF Then
    <2>3. ToSet(calls \o Tail(agenda)) = ToSet(calls) \cup ToSet(Tail(agenda))
      BY <1>5, <2>2, ElementsOf
    <2>. QED  BY <2>1, <2>2, <2>3 DEF Plan, Rest
  <1>8. /\ \A x : Call("define_interface", x).do = "define_interface"
        /\ \A x : /\ Call("endPackage", x).do = "endPackage"
                  /\ Call("finish", x).do = "finish" /\ Call("getter", x).do = "getter"
    BY DEF Call
  <1>9. PackageIsComplete'
    <2>1. ASSUME NEW p, Call("endPackage", p) \in Plan' PROVE p = this
      BY <1>3, <1>5, <1>6, <1>7, <1>8, <2>1, CallsDiffer DEF Starts
    <2>2. \A i \in ToSet(InterfacesOf[this]) : Call("define_interface", i) \in Plan'
      BY <1>3, <1>6, <1>7
    <2>. QED  BY <1>1, <2>1, <2>2 DEF PackageIsComplete, NewSource
  <1>10. ImportsAreDefined'
    <2>1. \A x : Call("finish", x) \notin Plan' /\ Call("getter", x) \notin Plan'
      BY <1>3, <1>5, <1>6, <1>7, <1>8, CallsDiffer DEF Starts
    <2>. QED  BY <2>1 DEF ImportsAreDefined
  <1>11. /\ RememberedAreDefined' /\ PackagesAreWritten'
         /\ UsesResolve' /\ ReferencesResolve'
    BY <1>1, StartResolves
  <1>. QED  BY <1>7, <1>9, <1>10, <1>11 DEF RInv

\* The start of a run plans all imports of its world.
LEMMA BeginRunResolves == ASSUME RInv, TypeOK', BeginRun PROVE RInv'
  <1>0. PICK this, file : this = This /\ file = <<"world", Len(outputs)>>
    OBVIOUS
  <1>. DEFINE import == Each("import_interface", ImportsOf[this])
              funcs == <<Call("export_funcs", this)>>
              export == Each("export_interface", ExportsOf[this])
              finish == Call("finish", this)
              end == Call("endRun", this)
              last == <<finish, end>>
  <1>1. /\ At("run") /\ this \in Worlds
        /\ ImportsOf[this] \in Seq(Interfaces) /\ ExportsOf[this] \in Seq(Interfaces)
        /\ NewSource(file) /\ UNCHANGED <<import_map, outputs>>
        /\ Then(((import \o funcs) \o export) \o last)
    BY <1>0, ThisType, ResolveAssumption DEF RInv, BeginRun
  <1>2. import \in Seq(AllCalls)
    BY <1>1, PartsType
  <1>3. Plain(import) /\ \A call : call \in ToSet(import) <=>
          \E i \in ToSet(ImportsOf[this]) : call = Call("import_interface", i)
    <2>1. ImportsOf[this] \in Seq(Interfaces)
      BY <1>1
    <2>. QED  BY <2>1, EachPlain
  <1>4. export \in Seq(AllCalls)
    BY <1>1, PartsType
  <1>5. Plain(export) /\ \A call \in ToSet(export) : \E x : call = Call("export_interface", x)
    <2>1. ExportsOf[this] \in Seq(Interfaces)
      BY <1>1
    <2>. QED  BY <2>1, EachPlain
  <1>6. /\ funcs \in Seq(AllCalls) /\ Plain(funcs)
        /\ ToSet(funcs) = {Call("export_funcs", this)}
    <2>1. Call("export_funcs", this) \in AllCalls
      BY <1>1 DEF AllCalls, Calls, Call
    <2>. QED  BY <2>1, CallType, PlainCalls DEF Starts, Ends
  <1>7. last \in Seq(AllCalls) /\ ToSet(last) = {finish, end} /\ Ordered(last)
    <2>1. finish \in AllCalls /\ end \in AllCalls /\ Before(finish, end)
      BY <1>1 DEF AllCalls, Calls, Call, Before, Starts, Ends
    <2>. HIDE DEF finish, end
    <2>2. last \in Seq(AllCalls) /\ last[1] = finish /\ last[2] = end /\ Len(last) = 2
          /\ ToSet(last) = {finish, end}
      BY <2>1 DEF ToSet
    <2>. HIDE DEF last
    <2>3. Ordered(last)
      <3>1. \A i, j \in 1..2 : i < j => i = 1 /\ j = 2
        OBVIOUS
      <3>. QED  BY <2>1, <2>2, <3>1 DEF Ordered
    <2>. QED  BY <2>2, <2>3
  <1>8. /\ Tail(agenda) \in Seq(AllCalls) /\ Ordered(Tail(agenda))
        /\ \A call \in Rest : call.do \in Starts
    BY <1>1, OnlyStartsLeft DEF Starts
  <1>. HIDE DEF import, funcs, export, last
  <1>9. /\ import \o funcs \in Seq(AllCalls) /\ Plain(import \o funcs)
        /\ ToSet(import \o funcs) = ToSet(import) \cup ToSet(funcs)
    BY <1>2, <1>3, <1>6, ConcatPlain
  <1>. DEFINE two == import \o funcs
  <1>. HIDE DEF two
  <1>10. /\ two \o export \in Seq(AllCalls) /\ Plain(two \o export)
         /\ ToSet(two \o export) = ToSet(two) \cup ToSet(export)
    BY <1>4, <1>5, <1>9, ConcatPlain DEF two
  <1>. DEFINE three == two \o export
  <1>. HIDE DEF three
  <1>11. /\ three \o last \in Seq(AllCalls) /\ Ordered(three \o last)
         /\ ToSet(three \o last) = ToSet(three) \cup ToSet(last)
    <2>1. three \in Seq(AllCalls) /\ Plain(three)
      BY <1>10 DEF three
    <2>2. Ordered(three) /\ \A a \in ToSet(three) : \A b : Before(a, b)
      BY <2>1, PlainOrdered
    <2>3. \A a \in ToSet(three), b \in ToSet(last) : Before(a, b)
      BY <2>2
    <2>4. Ordered(three \o last)
      BY <1>7, <2>1, <2>2, <2>3, ConcatOrdered
    <2>. QED  BY <1>7, <2>1, <2>4, ElementsOf, ConcatProperties
  <1>. DEFINE calls == three \o last
  <1>12. Then(calls)
    BY <1>1 DEF calls, three, two
  <1>13. ToSet(calls) = ((ToSet(import) \cup ToSet(funcs)) \cup ToSet(export)) \cup {finish, end}
    BY <1>7, <1>9, <1>10, <1>11 DEF calls, three, two
  <1>. HIDE DEF calls
  <1>14. Ordered(agenda') /\ Plan' = ToSet(calls) \cup Rest
    <2>0. calls \in Seq(AllCalls) /\ Ordered(calls)
      BY <1>11 DEF calls
    <2>1. Ordered(calls \o Tail(agenda))
      <3>1. \A a \in ToSet(calls), b \in ToSet(Tail(agenda)) : Before(a, b)
        BY <1>8 DEF Before, Rest
      <3>. QED  BY <1>8, <2>0, <3>1, ConcatOrdered
    <2>. QED  BY <1>8, <1>12, <2>0, <2>1, ElementsOf DEF Then, Plan, Rest
  <1>15. \A name, x : Call(name, x).do = name
    BY DEF Call
  <1>16. \A x : /\ Call("endPackage", x) \notin Plan' /\ Call("getter", x) \notin Plan'
                /\ Call("finish", x) \in Plan' => x = this
    BY <1>3, <1>5, <1>6, <1>8, <1>13, <1>14, <1>15, CallsDiffer DEF Starts
  <1>17. PackageIsComplete'
    BY <1>16 DEF PackageIsComplete
  <1>18. ImportsAreDefined'
    <2>1. \A i \in ToSet(ImportsOf[this]) : Call("import_interface", i) \in Plan'
      BY <1>3, <1>13, <1>14
    <2>. QED  BY <1>16, <2>1 DEF ImportsAreDefined
  <1>19. /\ RememberedAreDefined' /\ PackagesAreWritten'
         /\ UsesResolve' /\ ReferencesResolve'
    BY <1>1, StartResolves
  <1>. QED  BY <1>14, <1>17, <1>18, <1>19 DEF RInv

\* Every step keeps the invariant.
LEMMA NextResolves == RInv /\ [Next]_vars => RInv'
  <1>. SUFFICES ASSUME RInv, [Next]_vars PROVE RInv'
    OBVIOUS
  <1>0. TypeOK'
    BY NextType DEF RInv
  <1>1. ASSUME UNCHANGED <<import_map, outputs, library, definitions, interface_names,
                           type_definitions, stream_future_vtables, uses, local_exports, agenda>>
        PROVE  RInv'
    <2>1. Advances /\ Proceeds /\ Writes /\ Ordered(agenda')
      BY <1>1 DEF Advances, Proceeds, Writes, Plan, Text, RInv
    <2>. QED  BY <1>0, <2>1, AdvanceKeeps
  <1>2. CASE UNCHANGED vars
    BY <1>1, <1>2 DEF vars, dart, io
  <1>3. CASE UnknownWorld \/ Return
    BY <1>1, <1>3 DEF UnknownWorld, Return, dart, io
  <1>4. CASE NoExportedFunctions
    <2>1. CASE result' = "error"
      <3>1. agenda' = agenda
        BY <1>4, <2>1 DEF NoExportedFunctions, At
      <3>. QED  BY <1>1, <1>4, <3>1 DEF NoExportedFunctions, dart, io
    <2>2. CASE result' # "error"
      BY <1>0, <1>4, <2>2, NothingResolves
    <2>. QED  BY <2>1, <2>2
  <1>5. CASE WriteSignature \/ GenerateVtables \/ Exported
    BY <1>0, <1>5, PartsResolve
  <1>6. CASE EndImport \/ EndExport
    BY <1>0, <1>6, EndsResolve
  <1>7. CASE Skip \/ Known \/ VoidVtable \/ FinishEarly
    BY <1>0, <1>7, NothingResolves
  <1>8. CASE DefineInterface \/ DefineType \/ DefineVtable \/ Getter \/ Finish
    BY <1>0, <1>8, InterfaceResolves, TypeResolves, VtableResolves, GetterResolves, FinishResolves
  <1>9. CASE ImportInterface \/ ExportInterface \/ ImportedFunction \/ ExportedFunction
    BY <1>0, <1>9, ImportResolves, ExportResolves, ImportedResolves, ExportedResolves
  <1>10. CASE BeginPackage \/ EndPackage \/ BeginRun \/ EndRun
    BY <1>0, <1>10, BeginPackageResolves, PackageResolves, BeginRunResolves, WorldResolves
  <1>. QED  BY <1>2, <1>3, <1>4, <1>5, <1>6, <1>7, <1>8, <1>9, <1>10 DEF Next

\* What a generated file mentions is defined in it or in the library that it is
\* taken from (dart_source.rs:118), whatever the Resolve is, except for the types
\* that the package's own functions do not lead to and interfaces without a name.
THEOREM ReferencesAreResolved == Spec => []ReferencesResolve
  <1>1. Init => RInv
    <2>. SUFFICES ASSUME Init PROVE RInv
      OBVIOUS
    <2>1. TypeOK
      BY InitType
    <2>2. \A call \in Plan : call.do \in Starts
      <3>1. runs \in Seq(Worlds \cup {NoWorld})
        BY <2>1 DEF TypeOK
      <3>2. /\ Each("package", PackageOrder) \in Seq(AllCalls)
            /\ Each("run", runs) \in Seq(AllCalls)
        <4>1. Calls({"package"}, Packages) \subseteq AllCalls
              /\ Calls({"run"}, Worlds \cup {NoWorld}) \subseteq AllCalls
          BY DEF Calls, AllCalls
        <4>. QED  BY <3>1, <4>1, EachType, ResolveAssumption
      <3>3. /\ \A call \in ToSet(Each("package", PackageOrder)) : \E x : call = Call("package", x)
            /\ \A call \in ToSet(Each("run", runs)) : \E x : call = Call("run", x)
        BY <3>1, EachSet, ResolveAssumption
      <3>4. Plan = ToSet(Each("package", PackageOrder)) \cup ToSet(Each("run", runs))
        BY <3>2, ElementsOf DEF Init, Plan
      <3>5. \A name, x : Call(name, x).do = name
        BY DEF Call
      <3>. QED  BY <3>3, <3>4, <3>5 DEF Starts
    <2>3. Ordered(agenda)
      <3>1. \A i \in 1..Len(agenda) : agenda[i] \in Plan
        BY <2>1, LenProperties DEF TypeOK, Plan, ToSet
      <3>. QED  BY <2>2, <3>1 DEF Ordered, Before
    <2>4. PackageIsComplete /\ ImportsAreDefined
      <3>1. \A x : /\ Call("endPackage", x) \notin Plan /\ Call("finish", x) \notin Plan
                   /\ Call("getter", x) \notin Plan
        <4>1. \A name, x : Call(name, x).do = name
          BY DEF Call
        <4>. QED  BY <2>2, <4>1 DEF Starts
      <3>. QED  BY <3>1 DEF PackageIsComplete, ImportsAreDefined
    <2>5. RememberedAreDefined /\ UsesResolve /\ PackagesAreWritten /\ ReferencesResolve
      BY PlainCalls DEF Init, RememberedAreDefined, UsesResolve, PackagesAreWritten,
                        ReferencesResolve
    <2>. QED  BY <2>1, <2>3, <2>4, <2>5 DEF RInv
  <1>2. RInv => ReferencesResolve
    BY DEF RInv
  <1>. QED  BY <1>1, <1>2, NextResolves, PTL DEF Spec

-----------------------------------------------------------------------------
(* Calls of imports.                                                       *)

\* What is remembered was imported: this is all that later code can rely on.
IsImported(x) ==
  /\ x \in Types => <<"_drop", x>> \in ToSet(imports)
  /\ x \in Vtables \ (Void \ Streams) => VtableKinds \X {x} \subseteq ToSet(imports)
RememberedAreImported == \A x \in stream_future_vtables : IsImported(x)

\* What the text mentions so far was imported.
MentionedAreImported == \A use \in uses : Behind(use[2]) \subseteq ToSet(imports)

\* The inductive invariant: the files alone say nothing of the present one.
CInv == TypeOK /\ RememberedAreImported /\ MentionedAreImported /\ CalledAreImported

\* The imports behind the names that there are.
LEMMA BehindNames ==
  /\ \A x : Behind(<<"_Vtable", x>>) = VtableKinds \X {x}
  /\ \A kind \in {"_drop", "_import", "_component_taskReturn"} : \A x :
       Behind(<<kind, x>>) = {<<kind, x>>}
  /\ \A kind \in {"interface", "type", "_Imported", "_unnamedExport"} : \A x :
       Behind(<<kind, x>>) = {}
  BY DEF Behind

\* Steps that add imports, or nothing, and have those of what they add.
LEMMA ImportsKeep ==
  ASSUME CInv, TypeOK', outputs' = outputs, ToSet(imports) \subseteq ToSet(imports'),
         \A x \in stream_future_vtables' \ stream_future_vtables : IsImported(x)',
         \A use \in uses' \ uses : Behind(use[2]) \subseteq ToSet(imports')
  PROVE  CInv'
  <1>1. ASSUME NEW x, IsImported(x) PROVE IsImported(x)'
    BY <1>1 DEF IsImported
  <1>2. RememberedAreImported'
    BY <1>1 DEF CInv, RememberedAreImported
  <1>3. MentionedAreImported'
    BY DEF CInv, MentionedAreImported
  <1>4. CalledAreImported'
    BY DEF CInv, CalledAreImported
  <1>. QED  BY <1>2, <1>3, <1>4 DEF CInv

\* Steps that add neither imports nor names that need one.
LEMMA NoCallsAdded ==
  ASSUME CInv, TypeOK', UNCHANGED <<outputs, imports, stream_future_vtables>>,
         \A use \in uses' \ uses : Behind(use[2]) = {}
  PROVE  CInv'
  <1>1. ToSet(imports) \subseteq ToSet(imports')
    OBVIOUS
  <1>2. \A x \in stream_future_vtables' \ stream_future_vtables : IsImported(x)'
    OBVIOUS
  <1>. QED  BY <1>1, <1>2, ImportsKeep

\* The drop functions that code mentions are imported with it, or have been before.
LEMMA DropsImported ==
  ASSUME CInv, NEW resources \in SUBSET Types
  PROVE  /\ Named("_drop", drop_function(resources)) \in Seq(ImportNames)
         /\ \A r \in resources :
              \/ <<"_drop", r>> \in ToSet(imports)
              \/ <<"_drop", r>> \in ToSet(Named("_drop", drop_function(resources)))
         /\ \A r \in ToSet(drop_function(resources)) :
              /\ r \in Types \ Vtables
              /\ <<"_drop", r>> \in ToSet(Named("_drop", drop_function(resources)))
  <1>1. PICK names, drops : /\ drops = drop_function(resources)
                            /\ names = Named("_drop", drop_function(resources))
    OBVIOUS
  <1>2. /\ ToSet(drops) = resources \ stream_future_vtables
        /\ \A r \in resources \ stream_future_vtables : <<"_drop", r>> \in ToSet(names)
    BY <1>1, DropsAll
  <1>3. names \in Seq(ImportNames)
    BY <1>1, DropType, Wider DEF ImportNames
  <1>4. \A r \in resources \cap stream_future_vtables : <<"_drop", r>> \in ToSet(imports)
    BY DEF CInv, RememberedAreImported, IsImported
  <1>5. \A r \in ToSet(drops) : r \in Types \ Vtables
    BY <1>2, SetsAssumption
  <1>. QED  BY <1>1, <1>2, <1>3, <1>4, <1>5

\* What code mentions of streams, futures and resources is imported.
LEMMA BodyImported ==
  ASSUME CInv, NEW vtables \in SUBSET Vtables, HasVtables(vtables),
         NEW resources \in SUBSET Types, ToSet(imports) \subseteq ToSet(imports'),
         \A r \in resources : <<"_drop", r>> \in ToSet(imports')
  PROVE  \A use \in BodyUses(vtables, resources) : Behind(use[2]) \subseteq ToSet(imports')
  <1>1. ASSUME NEW v \in vtables \ (Void \ Streams)
        PROVE  Behind(<<"_Vtable", v>>) \subseteq ToSet(imports')
    <2>1. v \in Vtables \ (Void \ Streams) /\ v \in stream_future_vtables
      BY DEF HasVtables
    <2>2. VtableKinds \X {v} \subseteq ToSet(imports)
      BY <2>1 DEF CInv, RememberedAreImported, IsImported
    <2>. QED  BY <2>2, BehindNames
  <1>2. ASSUME NEW r \in resources
        PROVE  Behind(<<"_drop", r>>) \subseteq ToSet(imports')
    BY BehindNames
  <1>3. \A use \in BodyUses(vtables, resources) :
          \/ \E v \in vtables \ (Void \ Streams) : use[2] = <<"_Vtable", v>>
          \/ \E r \in resources : use[2] = <<"_drop", r>>
    BY DEF BodyUses
  <1>. QED  BY <1>1, <1>2, <1>3

\* The imports after code is taken.
LEMMA TakenImports ==
  ASSUME TypeOK, NEW own \in Seq(ImportNames), imports' = take_code(own)
  PROVE  ToSet(imports') = ToSet(imports) \cup ToSet(own)
  <1>1. imports \in Seq(ImportNames) /\ imports' = imports \o own
    BY DEF TypeOK, take_code
  <1>. QED  BY <1>1, ElementsOf

\* A vtable is remembered with all of its functions, and with the drop functions
\* of its element's resources.
LEMMA VtableImports == ASSUME CInv, TypeOK', DefineVtable PROVE CInv'
  <1>0. PICK this, drops, names :
          /\ this = This /\ drops = drop_function(ElementOwns[this])
          /\ names = Named("_drop", drops)
    OBVIOUS
  <1>. DEFINE first == <<<<"new", this>>, <<"write", this>>, <<"drop-readable", this>>,
                         <<"drop-writable", this>>>>
              last == <<<<"read", this>>>>
              own == (first \o names) \o last
  <1>1. /\ At("vtable") /\ this \in Vtables /\ HasVtables(ElementVtables[this])
        /\ UNCHANGED outputs
        /\ stream_future_vtables' = stream_future_vtables \cup {this} \cup ToSet(drops)
        /\ uses' = uses \cup BodyUses(ElementVtables[this], ElementOwns[this])
    BY <1>0, ThisType DEF CInv, DefineVtable
  <1>2. imports' = take_code(own)
    BY <1>0 DEF DefineVtable, VtableKinds
  <1>3. ElementOwns[this] \in SUBSET Types /\ ElementVtables[this] \in SUBSET Vtables
    BY <1>1, ResolveAssumption
  <1>4. /\ names \in Seq(ImportNames)
        /\ \A r \in ElementOwns[this] :
             <<"_drop", r>> \in ToSet(imports) \/ <<"_drop", r>> \in ToSet(names)
        /\ \A r \in ToSet(drops) : r \in Types \ Vtables /\ <<"_drop", r>> \in ToSet(names)
    BY <1>0, <1>3, DropsImported
  <1>5. /\ first \in Seq(ImportNames) /\ last \in Seq(ImportNames)
        /\ VtableKinds \X {this} \subseteq ToSet(first) \cup ToSet(last)
    <2>1. \A k \in VtableKinds : <<k, this>> \in ImportNames
      BY <1>1 DEF ImportNames
    <2>2. first \in Seq(ImportNames) /\ last \in Seq(ImportNames)
      BY <2>1 DEF VtableKinds
    <2>3. /\ ToSet(first) = {<<"new", this>>, <<"write", this>>, <<"drop-readable", this>>,
                             <<"drop-writable", this>>}
          /\ ToSet(last) = {<<"read", this>>}
      BY DEF ToSet
    <2>. QED  BY <2>2, <2>3 DEF VtableKinds
  <1>. HIDE DEF first, last
  <1>6. own \in Seq(ImportNames)
        /\ ToSet(own) = (ToSet(first) \cup ToSet(names)) \cup ToSet(last)
    <2>. DEFINE two == first \o names
    <2>1. two \in Seq(ImportNames) /\ ToSet(two) = ToSet(first) \cup ToSet(names)
      BY <1>4, <1>5, ElementsOf, ConcatProperties
    <2>. HIDE DEF two
    <2>2. two \o last \in Seq(ImportNames) /\ ToSet(two \o last) = ToSet(two) \cup ToSet(last)
      BY <1>5, <2>1, ElementsOf, ConcatProperties
    <2>. QED  BY <2>1, <2>2 DEF two
  <1>. HIDE DEF own
  <1>7. ToSet(imports') = ToSet(imports) \cup ToSet(own)
    BY <1>2, <1>6, TakenImports DEF CInv
  <1>8. IsImported(this)'
    BY <1>1, <1>5, <1>6, <1>7, SetsAssumption DEF IsImported
  <1>9. ASSUME NEW r \in ToSet(drops) PROVE IsImported(r)'
    BY <1>4, <1>6, <1>7, <1>9 DEF IsImported
  <1>10. \A use \in BodyUses(ElementVtables[this], ElementOwns[this]) :
           Behind(use[2]) \subseteq ToSet(imports')
    <2>1. \A r \in ElementOwns[this] : <<"_drop", r>> \in ToSet(imports')
      BY <1>4, <1>6, <1>7
    <2>2. ToSet(imports) \subseteq ToSet(imports')
      BY <1>7
    <2>. QED  BY <1>1, <1>3, <2>1, <2>2, BodyImported
  <1>. QED  BY <1>1, <1>7, <1>8, <1>9, <1>10, ImportsKeep

\* A future without a value is remembered without any functions of its own.
LEMMA VoidImports == ASSUME CInv, TypeOK', VoidVtable PROVE CInv'
  <1>1. PICK this : this = This
    OBVIOUS
  <1>2. /\ this \in Vtables \cap (Void \ Streams) /\ UNCHANGED <<outputs, imports, uses>>
        /\ stream_future_vtables' = stream_future_vtables \cup {this}
    BY <1>1, ThisType DEF CInv, VoidVtable, dart, io
  <1>3. IsImported(this)'
    BY <1>2, SetsAssumption DEF IsImported
  <1>. QED  BY <1>2, <1>3, ImportsKeep

\* An imported function is imported with the drop functions that its code calls.
LEMMA ImportedImports == ASSUME CInv, TypeOK', ImportedFunction PROVE CInv'
  <1>0. PICK this, file, core, drops, vtables, names :
          /\ this = This /\ file = library /\ core = core_name
          /\ drops = drop_function(Results[this]) /\ names = Named("_drop", drops)
          /\ vtables = ToSet(StreamsFutures[this])
    OBVIOUS
  <1>. DEFINE last == <<core>>
              own == names \o last
  <1>1. /\ this \in Funcs /\ HasVtables(vtables) /\ UNCHANGED outputs
        /\ imports' = take_code(own)
        /\ uses' = uses \cup BodyUses(vtables, Results[this]) \cup {<<file, core>>}
        /\ stream_future_vtables' = stream_future_vtables \cup ToSet(drops)
    BY <1>0, ThisType DEF CInv, ImportedFunction
  <1>2. Results[this] \in SUBSET Types /\ vtables \in SUBSET Vtables
    BY <1>0, <1>1, FunctionVtables, ResolveAssumption
  <1>3. /\ names \in Seq(ImportNames)
        /\ \A r \in Results[this] :
             <<"_drop", r>> \in ToSet(imports) \/ <<"_drop", r>> \in ToSet(names)
        /\ \A r \in ToSet(drops) : r \in Types \ Vtables /\ <<"_drop", r>> \in ToSet(names)
    BY <1>0, <1>2, DropsImported
  <1>4. core \in ImportNames /\ Behind(core) = {core}
    <2>1. core = <<"_import", Len(imports)>> /\ Len(imports) \in Nat
      BY <1>0, Lengths DEF CInv, core_name
    <2>. QED  BY <2>1, BehindNames DEF ImportNames
  <1>5. last \in Seq(ImportNames) /\ ToSet(last) = {core}
    BY <1>4, OneName
  <1>. HIDE DEF last
  <1>6. own \in Seq(ImportNames) /\ ToSet(own) = ToSet(names) \cup {core}
    BY <1>3, <1>5, ElementsOf, ConcatProperties
  <1>. HIDE DEF own
  <1>7. ToSet(imports') = ToSet(imports) \cup ToSet(own)
    BY <1>1, <1>6, TakenImports DEF CInv
  <1>8. ASSUME NEW r \in ToSet(drops) PROVE IsImported(r)'
    BY <1>3, <1>6, <1>7, <1>8 DEF IsImported
  <1>9. \A use \in BodyUses(vtables, Results[this]) : Behind(use[2]) \subseteq ToSet(imports')
    <2>1. \A r \in Results[this] : <<"_drop", r>> \in ToSet(imports')
      BY <1>3, <1>6, <1>7
    <2>2. ToSet(imports) \subseteq ToSet(imports')
      BY <1>7
    <2>. QED  BY <1>1, <1>2, <2>1, <2>2, BodyImported
  <1>10. Behind(core) \subseteq ToSet(imports')
    BY <1>4, <1>6, <1>7
  <1>. QED  BY <1>1, <1>7, <1>8, <1>9, <1>10, ImportsKeep

\* An exported function brings its drop functions, and its task.return if it is async.
LEMMA ExportedImports == ASSUME CInv, TypeOK', ExportedFunction PROVE CInv'
  <1>0. PICK this, file, drops, vtables, names, name, taskReturn :
          /\ this = This /\ file = library /\ drops = drop_function(Params[this])
          /\ names = Named("_drop", drops) /\ vtables = ToSet(StreamsFutures[this])
          /\ name = <<"_component_taskReturn", export_id>>
          /\ taskReturn = IF this \in Async THEN <<name>> ELSE <<>>
    OBVIOUS
  <1>. DEFINE own == names \o taskReturn
  <1>1. /\ this \in Funcs /\ HasVtables(vtables) /\ UNCHANGED outputs
        /\ imports' = take_code(own)
        /\ uses' = uses \cup BodyUses(vtables, Params[this])
                       \cup {<<file, n>> : n \in ToSet(taskReturn)}
        /\ stream_future_vtables' = stream_future_vtables \cup ToSet(drops)
    BY <1>0, ThisType DEF CInv, ExportedFunction
  <1>2. Params[this] \in SUBSET Types /\ vtables \in SUBSET Vtables
    BY <1>0, <1>1, FunctionVtables, ResolveAssumption
  <1>3. /\ names \in Seq(ImportNames)
        /\ \A r \in Params[this] :
             <<"_drop", r>> \in ToSet(imports) \/ <<"_drop", r>> \in ToSet(names)
        /\ \A r \in ToSet(drops) : r \in Types \ Vtables /\ <<"_drop", r>> \in ToSet(names)
    BY <1>0, <1>2, DropsImported
  <1>4. name \in ImportNames /\ Behind(name) = {name}
    <2>1. export_id \in Nat
      BY Lengths DEF CInv, export_id
    <2>. QED  BY <1>0, <2>1, BehindNames DEF ImportNames
  <1>5. taskReturn \in Seq(ImportNames) /\ ToSet(taskReturn) \subseteq {name}
    BY <1>0, <1>4, OptionalName
  <1>6. own \in Seq(ImportNames) /\ ToSet(own) = ToSet(names) \cup ToSet(taskReturn)
    BY <1>3, <1>5, ElementsOf, ConcatProperties
  <1>. HIDE DEF own
  <1>7. ToSet(imports') = ToSet(imports) \cup ToSet(own)
    BY <1>1, <1>6, TakenImports DEF CInv
  <1>8. ASSUME NEW r \in ToSet(drops) PROVE IsImported(r)'
    BY <1>3, <1>6, <1>7, <1>8 DEF IsImported
  <1>9. \A use \in BodyUses(vtables, Params[this]) : Behind(use[2]) \subseteq ToSet(imports')
    <2>1. \A r \in Params[this] : <<"_drop", r>> \in ToSet(imports')
      BY <1>3, <1>6, <1>7
    <2>2. ToSet(imports) \subseteq ToSet(imports')
      BY <1>7
    <2>. QED  BY <1>1, <1>2, <2>1, <2>2, BodyImported
  <1>10. \A n \in ToSet(taskReturn) : Behind(n) \subseteq ToSet(imports')
    BY <1>4, <1>5, <1>6, <1>7
  <1>. QED  BY <1>1, <1>7, <1>8, <1>9, <1>10, ImportsKeep

\* The names of definitions of other kinds need no import.
LEMMA NamesImport ==
  ASSUME CInv, TypeOK', DefineInterface \/ DefineType \/ Finish \/ Getter
  PROVE  CInv'
  <1>1. CASE DefineInterface
    <2>1. /\ UNCHANGED <<outputs, imports, stream_future_vtables>>
          /\ \A use \in uses' \ uses : use[2] = <<"interface", This>>
      BY <1>1 DEF DefineInterface, io
    <2>. QED  BY <2>1, BehindNames, NoCallsAdded
  <1>2. CASE DefineType
    <2>1. /\ UNCHANGED <<outputs, imports, stream_future_vtables>>
          /\ \A use \in uses' \ uses : use[2] = <<"type", This>>
      BY <1>2 DEF DefineType, io
    <2>. QED  BY <2>1, BehindNames, NoCallsAdded
  <1>3. CASE Finish
    <2>1. /\ UNCHANGED <<outputs, imports, stream_future_vtables>>
          /\ \A use \in uses' \ uses : \E i : use[2] = <<"_unnamedExport", i>>
      BY <1>3 DEF Finish, io
    <2>. QED  BY <2>1, BehindNames, NoCallsAdded
  <1>4. CASE Getter
    <2>1. /\ UNCHANGED <<outputs, imports, stream_future_vtables>>
          /\ \A use \in uses' \ uses : use[2] = <<"_Imported", This>>
      BY <1>4 DEF Getter, io
    <2>. QED  BY <2>1, BehindNames, NoCallsAdded
  <1>. QED  BY <1>1, <1>2, <1>3, <1>4

\* A new file starts with nothing, and one that ends is as complete as its text.
LEMMA FilesImport ==
  ASSUME CInv, TypeOK', BeginPackage \/ BeginRun \/ EndPackage \/ EndRun
  PROVE  CInv'
  <1>1. ASSUME NEW file, NewSource(file), UNCHANGED outputs PROVE CInv'
    <2>1. RememberedAreImported' /\ MentionedAreImported'
      BY <1>1 DEF NewSource, RememberedAreImported, MentionedAreImported
    <2>. QED  BY <1>1, <2>1 DEF CInv, CalledAreImported
  <1>2. ASSUME outputs' = Append(outputs, File), UNCHANGED <<imports, uses, stream_future_vtables>>
        PROVE  CInv'
    <2>0. PICK file : file = File
      OBVIOUS
    <2>1. file.uses = uses /\ file.imports = imports
      BY <2>0 DEF File
    <2>2. ToSet(outputs') = ToSet(outputs) \cup {file}
      <3>. DEFINE last == <<file>>
      <3>1. /\ last \in Seq(Outputs) /\ ToSet(last) = {file} /\ outputs \in Seq(Outputs)
            /\ outputs' = outputs \o last
        <4>1. file \in Outputs /\ outputs \in Seq(Outputs)
          BY <2>0, FileType DEF CInv, TypeOK
        <4>. QED  BY <1>2, <2>0, <4>1, AppendIsConcat DEF ToSet
      <3>. HIDE DEF last
      <3>. QED  BY <3>1, ElementsOf
    <2>3. CalledAreImported'
      BY <2>1, <2>2 DEF CInv, CalledAreImported, MentionedAreImported
    <2>4. RememberedAreImported' /\ MentionedAreImported'
      BY <1>2 DEF CInv, RememberedAreImported, MentionedAreImported, IsImported
    <2>. QED  BY <2>3, <2>4 DEF CInv
  <1>3. CASE BeginPackage
    BY <1>1, <1>3 DEF BeginPackage
  <1>4. CASE BeginRun
    BY <1>1, <1>4 DEF BeginRun
  <1>5. CASE EndPackage
    BY <1>2, <1>5 DEF EndPackage, dart, io
  <1>6. CASE EndRun
    BY <1>2, <1>6 DEF EndRun, dart
  <1>. QED  BY <1>3, <1>4, <1>5, <1>6

\* Every step keeps the invariant.
LEMMA NextImports == CInv /\ [Next]_vars => CInv'
  <1>. SUFFICES ASSUME CInv, [Next]_vars PROVE CInv'
    OBVIOUS
  <1>0. TypeOK'
    BY NextType DEF CInv
  <1>1. ASSUME UNCHANGED <<outputs, imports, stream_future_vtables, uses>> PROVE CInv'
    BY <1>0, <1>1, NoCallsAdded
  <1>2. CASE UNCHANGED vars
    BY <1>1, <1>2 DEF vars, dart, io
  <1>3. CASE Skip \/ WriteSignature \/ Known \/ GenerateVtables
    BY <1>1, <1>3 DEF Skip, WriteSignature, Known, GenerateVtables, dart, io
  <1>4. CASE ImportInterface \/ EndImport \/ ExportInterface \/ EndExport
    BY <1>1, <1>4 DEF ImportInterface, EndImport, ExportInterface, EndExport, dart, io
  <1>5. CASE NoExportedFunctions \/ FinishEarly \/ Exported \/ UnknownWorld \/ Return
    BY <1>1, <1>5 DEF NoExportedFunctions, FinishEarly, Exported, UnknownWorld, Return, dart, io
  <1>6. CASE DefineInterface \/ DefineType \/ Finish \/ Getter
    BY <1>0, <1>6, NamesImport
  <1>7. CASE DefineVtable \/ VoidVtable \/ ImportedFunction \/ ExportedFunction
    BY <1>0, <1>7, VtableImports, VoidImports, ImportedImports, ExportedImports
  <1>8. CASE BeginPackage \/ EndPackage \/ BeginRun \/ EndRun
    BY <1>0, <1>8, FilesImport
  <1>. QED  BY <1>2, <1>3, <1>4, <1>5, <1>6, <1>7, <1>8 DEF Next

\* Every core function that the code of a generated library calls, a vtable's, a
\* drop, a task.return or an imported one, is an import of its ABI description,
\* whatever the Resolve is: also when the code relies on another function or
\* vtable that needed it first (functions.rs:94).
THEOREM CallsAreImported == Spec => []CalledAreImported
  <1>1. Init => CInv
    <2>. SUFFICES ASSUME Init PROVE CInv
      OBVIOUS
    <2>1. RememberedAreImported /\ MentionedAreImported /\ CalledAreImported
      BY PlainCalls DEF Init, RememberedAreImported, MentionedAreImported, CalledAreImported
    <2>. QED  BY <2>1, InitType DEF CInv
  <1>2. CInv => CalledAreImported
    BY DEF CInv
  <1>. QED  BY <1>1, <1>2, NextImports, PTL DEF Spec
=============================================================================
