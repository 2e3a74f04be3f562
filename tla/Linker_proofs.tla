--------------------------- MODULE Linker_proofs ---------------------------
(***************************************************************************)
(* Proofs about Linker for every ProgramAbi: what the definitions of the   *)
(* component refer to is what the linker took it for, and an interface is  *)
(* imported once.                                                          *)
(*                                                                         *)
(* The agenda carries the argument.  A call that takes the index which the *)
(* call before it returns finds the right one there, the types and options *)
(* that a call needs come before it, and the call that defines a primitive *)
(* whose index has been counted is only preceded by calls that define no   *)
(* other core function.                                                    *)
(***************************************************************************)
EXTENDS Linker, SequenceTheorems, TLAPS

-----------------------------------------------------------------------------
(* Sequences.                                                              *)

\* s is a sequence, whatever its elements are.
IsSequence(s) == s \in Seq(ToSet(s))

\* A sequence over any set is a sequence.
LEMMA SequenceOver ==
  ASSUME NEW S, NEW s \in Seq(S)
  PROVE  IsSequence(s) /\ DOMAIN s = 1..Len(s) /\ Len(s) \in Nat
  <1>1. Len(s) \in Nat /\ DOMAIN s = 1..Len(s)
    BY LenProperties
  <1>2. s \in [1..Len(s) -> ToSet(s)]
    BY <1>1 DEF ToSet
  <1>. QED  BY <1>1, <1>2 DEF IsSequence

\* The calls for the elements of a sequence.
LEMMA EachSequence ==
  ASSUME NEW S, NEW s \in Seq(S), NEW name, NEW at
  PROVE  /\ IsSequence(Each(name, at, s))
         /\ Len(Each(name, at, s)) = Len(s) /\ Len(s) \in Nat
         /\ DOMAIN Each(name, at, s) = 1..Len(s)
         /\ \A n \in 1..Len(s) : s[n] \in S /\ Each(name, at, s)[n] = Call(name, at, s[n])
  <1>1. DOMAIN s = 1..Len(s) /\ Len(s) \in Nat
    BY LenProperties
  <1>. DEFINE e == Each(name, at, s)
              C == {Call(name, at, s[n]) : n \in 1..Len(s)}
  <1>2. e = [n \in 1..Len(s) |-> Call(name, at, s[n])]
    BY <1>1 DEF Each
  <1>3. e \in [1..Len(s) -> C]
    BY <1>2
  <1>4. e \in Seq(C) /\ Len(e) = Len(s)
    BY <1>1, <1>3, SeqDef
  <1>5. IsSequence(e)
    BY <1>4, SequenceOver
  <1>6. \A n \in 1..Len(s) : s[n] \in S
    BY ElementOfSeq
  <1>. QED  BY <1>1, <1>2, <1>4, <1>5, <1>6

\* Concatenation.
LEMMA Joined ==
  ASSUME NEW s, NEW t, IsSequence(s), IsSequence(t)
  PROVE  /\ IsSequence(s \o t) /\ Len(s) \in Nat /\ Len(t) \in Nat
         /\ Len(s \o t) = Len(s) + Len(t)
         /\ \A n \in 1..Len(s \o t) :
              (s \o t)[n] = IF n <= Len(s) THEN s[n] ELSE t[n - Len(s)]
  <1>. DEFINE S == ToSet(s) \cup ToSet(t)
  <1>1. s \in Seq(S) /\ t \in Seq(S)
    BY SeqMonotonic DEF IsSequence
  <1>2. /\ s \o t \in Seq(S) /\ Len(s \o t) = Len(s) + Len(t)
        /\ \A n \in 1..Len(s) + Len(t) :
             (s \o t)[n] = IF n <= Len(s) THEN s[n] ELSE t[n - Len(s)]
    BY <1>1, ConcatProperties
  <1>3. IsSequence(s \o t)
    BY <1>2, SequenceOver
  <1>4. Len(s) \in Nat /\ Len(t) \in Nat
    BY <1>1, LenProperties
  <1>. QED  BY <1>2, <1>3, <1>4

\* What is left of the agenda after a call, with the calls that it makes.
LEMMA Replaced ==
  ASSUME NEW L, IsSequence(L), IsSequence(agenda), agenda # <<>>, Then(L)
  PROVE  /\ IsSequence(agenda') /\ Len(L) \in Nat /\ Len(agenda) \in Nat \ {0}
         /\ DOMAIN L = 1..Len(L) /\ DOMAIN agenda = 1..Len(agenda)
         /\ DOMAIN agenda' = 1..Len(agenda')
         /\ Len(agenda') = Len(L) + Len(agenda) - 1
         /\ Head(agenda) = agenda[1]
         /\ \A n \in 1..Len(L) : agenda'[n] = L[n]
         /\ \A n \in Len(L) + 1..Len(agenda') : agenda'[n] = agenda[n - Len(L) + 1]
  <1>. DEFINE T == Tail(agenda)
  <1>1. /\ T \in Seq(ToSet(agenda)) /\ Len(T) = Len(agenda) - 1
        /\ \A n \in 1..Len(T) : T[n] = agenda[n + 1]
    BY HeadTailProperties DEF IsSequence
  <1>2. /\ Len(agenda) \in Nat \ {0} /\ DOMAIN agenda = 1..Len(agenda)
    BY EmptySeq, LenProperties DEF IsSequence
  <1>3. Head(agenda) = agenda[1]
    BY DEF IsSequence
  <1>4. IsSequence(T)
    BY <1>1, SequenceOver
  <1>5. /\ IsSequence(agenda') /\ Len(L) \in Nat
        /\ Len(agenda') = Len(L) + Len(T)
        /\ \A n \in 1..Len(agenda') :
             agenda'[n] = IF n <= Len(L) THEN L[n] ELSE T[n - Len(L)]
    BY <1>4, Joined DEF Then
  <1>6. DOMAIN L = 1..Len(L) /\ DOMAIN agenda' = 1..Len(agenda')
    BY <1>5, LenProperties DEF IsSequence
  <1>7. \A n \in Len(L) + 1..Len(agenda') : agenda'[n] = agenda[n - Len(L) + 1]
    <2>1. TAKE n \in Len(L) + 1..Len(agenda')
    <2>2. n - Len(L) \in 1..Len(T) /\ n \in 1..Len(agenda') /\ ~(n <= Len(L))
      BY <1>1, <1>2, <1>5
    <2>3. agenda'[n] = T[n - Len(L)]
      BY <1>5, <2>2
    <2>4. T[n - Len(L)] = agenda[n - Len(L) + 1]
      BY <1>1, <2>2
    <2>. QED  BY <2>3, <2>4
  <1>8. \A n \in 1..Len(L) : agenda'[n] = L[n]
    BY <1>1, <1>2, <1>5
  <1>. QED  BY <1>1, <1>2, <1>3, <1>5, <1>6, <1>7, <1>8

-----------------------------------------------------------------------------
(* The inductive invariant.                                                *)

\* The component has an export, whose index the builder has not counted.
Exporting ==
  \E m \in DOMAIN definitions[Component] : definitions[Component][m].defines[1] = "exported"

\* At an index of a scope and sort the reader finds what the linker means by it; `what' is
\* the scope, the sort and the meaning.  After an export the instances are found elsewhere.
Found(what, index) ==
  /\ index \in 0..Len(space[what[1]][what[2]]) - 1
  /\ \/ Denotes(space[what[1]][what[2]][index + 1], what[3])
     \/ what[2] = "componentInstance" /\ Exporting

\* What a reference of a scope refers to is what it means.
Sound(scope, ref) == Found(<<scope, ref.sort, ref.means>>, ref.index)

\* The index of a primitive has been counted, and its definition is still to come.
Pending == \E n \in DOMAIN agenda : agenda[n][1] = "primitive"

\* The builder counts what the reader does, except for a pending primitive and, after an
\* export, for instances.
Counted ==
  /\ \A s \in Scopes : \A sort \in Sorts :
       s # Component \/ sort \notin {"coreFunction", "componentInstance"}
       => counters[s][sort] = Len(space[s][sort])
  /\ counters[Component]["coreFunction"] =
       Len(space[Component]["coreFunction"]) + (IF Pending THEN 1 ELSE 0)
  /\ counters[Component]["componentInstance"] <= Len(space[Component]["componentInstance"])
  /\ ~Exporting => counters[Component]["componentInstance"] = Len(space[Component]["componentInstance"])
  /\ \A n \in DOMAIN agenda : agenda[n][1] = "primitive" =>
       agenda[n][3][2] = Len(space[Component]["coreFunction"])

\* Whatever the maps of the linker hold is found there.
Memos ==
  /\ \A s \in Scopes : \A t \in Types : existing[s][t] # Absent =>
       Found(<<s, "componentType", TypeEntity(t)>>, existing[s][t])
  /\ \A i \in Interfaces : instances[i] # Absent =>
       Found(<<Component, "componentInstance", <<"import", i>>>>, instances[i])
  /\ \A i \in Interfaces : interfaces[i] # Absent =>
       Found(<<Component, "componentType", <<"interface", i>>>>, interfaces[i])
  /\ \A o \in Options : cached[o] # Absent =>
       Found(<<Component, SortOf(o), <<"core export", o>>>>, cached[o])
  /\ \A c \in {"libc", "program"} : core[c] # Absent =>
       Found(<<Component, "coreInstance", <<"core", c>>>>, core[c])

\* A definition has seen no more than there is, and the outer aliases of an instance type
\* refer to the component.
Written ==
  \A s \in Scopes : \A n \in DOMAIN definitions[s] :
    /\ \A sort \in Sorts : definitions[s][n].seen[sort] <= Len(space[s][sort])
    /\ \A ref \in definitions[s][n].outer : Sound(Component, ref)

\* What an instance is put together of is there.
Inlined ==
  \A ref \in inlineExports : ref.sort # "componentInstance" /\ Sound(Component, ref)

\* An imported interface is remembered, and one that is to be imported is not imported yet.
Imports ==
  /\ \A n \in DOMAIN definitions[Component] : \A i \in Interfaces :
       definitions[Component][n].defines = <<"import", i>> => instances[i] # Absent
  /\ \A n \in DOMAIN agenda : agenda[n][1] = "import" => instances[agenda[n][3]] = Absent

\* Nothing is defined before the modules are.
Started ==
  IF agenda # <<>> /\ agenda[1][1] = "modules"
  THEN /\ definitions = [s \in Scopes |-> <<>>] /\ space = [s \in Scopes |-> Nothing]
       /\ counters = [s \in Scopes |-> Zero]
  ELSE /\ core["libc"] # Absent
       /\ Found(<<Component, "coreModule", <<"module", "program">>>>, 1)

\* An interface may be used from this scope.
Under(i, s) == s = Component \/ Depth[i] < Depth[s]

\* A call for the first scope may come before one for the second.
Within(s1, s2) ==
  s2 = Component \/ (s1 # Component /\ s2 \in Interfaces /\ Depth[s1] <= Depth[s2])

\* The calls that work on types, those for the type of an interface, and those that may
\* come before a primitive whose index has been counted: they define no core function.
TypeCalls == {"type", "define", "remember", "importType", "alias", "listType", "listed"}
InterfaceTypeCalls == {"exportType", "exportTypeEq", "importFromOuter", "outer"}
InterfaceCalls == InterfaceTypeCalls \cup {"exportFunction", "declareFunction", "endInterface"}
Typing == {"type", "define", "remember", "importType", "alias", "importInstance", "import",
           "interfaceType", "functionType"} \cup InterfaceCalls

\* A call is one for a scope in which it may be made.
Placed(c) ==
  /\ c[1] \notin Typing => c[2] = Component
  /\ c[1] \in InterfaceCalls => c[2] \in Interfaces
  /\ c[1] \in TypeCalls \cup InterfaceTypeCalls /\ c[2] \in Interfaces => c[3] \in Mentions(c[2])
  /\ c[1] \in {"exportFunction", "functionType"} /\ c[2] \in Interfaces =>
       ToSet(Signature[c[3]]) \subseteq Mentions(c[2])
  /\ c[1] \in {"importInstance", "import", "interfaceType"} => Under(c[3], c[2])
  /\ c[1] = "endInterface" => c[2] = c[3]
  /\ c[1] = "importFromOuter" => Kind[c[3]] = "import"
  /\ c[1] \in {"importType", "alias", "outer"} =>
       Kind[c[3]] # "plain" /\ Under(Home[c[3]], c[2])

\* The first call may come before the second one.
Ordered(c, d) ==
  /\ Within(c[2], d[2])
  /\ d[1] = "import" =>
       \/ c[1] = "interfaceType" /\ c[3] = d[3]
       \/ c[2] \in Interfaces /\ d[3] \in Interfaces /\ Depth[c[2]] <= Depth[d[3]]
  /\ d[1] = "primitive" => c[1] \in Typing
  /\ d[1] # "modules"

\* The index that a call returns and the one that a call takes, by what is found there.
NoIndex == <<>>
Gives(c) ==
  CASE c[1] \in {"type", "define", "remember", "importFromOuter", "outer"} ->
         <<c[2], "componentType", TypeEntity(c[3])>>
    [] c[1] \in {"importType", "alias"} -> <<Component, "componentType", TypeEntity(c[3])>>
    [] c[1] \in {"importInstance", "import"} ->
         <<Component, "componentInstance", <<"import", c[3]>>>>
    [] c[1] \in {"interfaceType", "endInterface"} ->
         <<Component, "componentType", <<"interface", c[3]>>>>
    [] c[1] = "functionType" -> <<c[2], "componentType", <<"function", c[3]>>>>
    [] c[1] = "aliasFunction" -> <<Component, "componentFunction", <<"imported", c[3]>>>>
    [] c[1] = "createImportInstance" -> <<Component, "coreInstance", <<"core", "imports">>>>
    [] c[1] = "instance" -> <<Component, "componentInstance", <<"export", c[3]>>>>
    [] OTHER -> NoIndex
Takes(c) ==
  CASE c[1] = "import" -> <<Component, "componentType", <<"interface", c[3]>>>>
    [] c[1] = "alias" -> <<Component, "componentInstance", <<"import", Home[c[3]]>>>>
    [] c[1] \in {"outer", "listed"} -> <<Component, "componentType", TypeEntity(c[3])>>
    [] c[1] \in {"remember", "exportTypeEq"} -> <<c[2], "componentType", TypeEntity(c[3])>>
    [] c[1] = "declareFunction" -> <<c[2], "componentType", <<"function", c[3]>>>>
    [] c[1] = "aliasFunction" ->
         <<Component, "componentInstance", <<"import", abi.imports[c[3]].interface>>>>
    [] c[1] = "lower" -> <<Component, "componentFunction", <<"imported", c[3]>>>>
    [] c[1] = "program" -> <<Component, "coreInstance", <<"core", "imports">>>>
    [] c[1] = "canonLift" -> <<Component, "componentType", <<"function", Exported(c[3]).function>>>>
    [] c[1] = "export" -> <<Component, "componentInstance", <<"export", c[3]>>>>
    [] OTHER -> NoIndex

\* The call before returns what a call takes.
Chained ==
  \A n \in DOMAIN agenda : Takes(agenda[n]) # NoIndex =>
    IF n = 1 THEN Found(Takes(agenda[n]), returned) ELSE Gives(agenda[n - 1]) = Takes(agenda[n])

\* The types and options that a call expects in the maps.
NeedsTypes(c) ==
  CASE c[1] = "define" -> ToSet(Inner[c[3]])
    [] c[1] = "functionType" -> ToSet(Signature[c[3]])
    [] c[1] = "primitive" -> ToSet(abi.imports[c[3][1]].types)
    [] OTHER -> {}
NeedsOptions(c) ==
  CASE c[1] \in {"lower", "allocate"} -> ToSet(abi.imports[c[3]].options)
    [] c[1] = "primitive" -> ToSet(abi.imports[c[3][1]].options)
    [] c[1] = "canonLift" -> ToSet(Exported(c[3]).options) \cup {Exported(c[3]).name}
    [] OTHER -> {}

\* A call before the n-th brings a type, or an option, into the maps.
TypeComes(calls, n, s, t) ==
  \E m \in 1..n - 1 : /\ calls[m][1] \in {"type", "define", "remember"}
                      /\ calls[m][2] = s /\ calls[m][3] = t
OptionComes(calls, n, o) == \E m \in 1..n - 1 : calls[m][1] = "require" /\ calls[m][3] = o

\* What the n-th call needs is there, or comes before it.
Supplied(calls, n) ==
  /\ \A t \in NeedsTypes(calls[n]) :
       existing[calls[n][2]][t] # Absent \/ TypeComes(calls, n, calls[n][2], t)
  /\ \A o \in NeedsOptions(calls[n]) : cached[o] # Absent \/ OptionComes(calls, n, o)
  /\ calls[n][1] = "apply" =>
       LET option == calls[n][3][2]  definition == definitions[Component][calls[n][3][1]] IN
       cached[option] # Absent /\ cached[option] < definition.seen[SortOf(option)]
Coming == \A n \in DOMAIN agenda : Supplied(agenda, n)

\* Every call of the agenda may be made there, and may come before the ones after it.
AgendaPlaced == \A n \in DOMAIN agenda : Placed(agenda[n])
AgendaOrdered == \A m, n \in DOMAIN agenda : m < n => Ordered(agenda[m], agenda[n])

\* The inductive invariant.
LinkerInv ==
  /\ TypeOK /\ ReferencesResolve /\ ImportedOnce
  /\ Counted /\ Memos /\ Written /\ Inlined /\ Imports /\ Started
  /\ AgendaPlaced /\ AgendaOrdered /\ Chained /\ Coming

-----------------------------------------------------------------------------
(* Adding a definition.                                                    *)

\* What is found at an index stays there.
SpaceType == [Scopes -> [Sorts -> Seq(Entities)]]
Grown ==
  /\ \A s \in Scopes : \A sort \in Sorts :
       /\ Len(space[s][sort]) <= Len(space'[s][sort])
       /\ \A k \in 1..Len(space[s][sort]) : space'[s][sort][k] = space[s][sort][k]
  /\ Exporting => Exporting'

\* An index keeps its meaning when definitions are only added.
LEMMA FoundPersists ==
  ASSUME space \in SpaceType, space' \in SpaceType, Grown, NEW s \in Scopes, NEW sort \in Sorts, NEW means, NEW index,
         Found(<<s, sort, means>>, index)
  PROVE  Found(<<s, sort, means>>, index)'
  <1>1. Len(space[s][sort]) \in Nat /\ Len(space'[s][sort]) \in Nat
    BY DEF SpaceType
  <1>2. index \in 0..Len(space[s][sort]) - 1
    BY DEF Found
  <1>3. index + 1 \in 1..Len(space[s][sort]) /\ index \in 0..Len(space'[s][sort]) - 1
    BY <1>1, <1>2 DEF Grown
  <1>4. space'[s][sort][index + 1] = space[s][sort][index + 1]
    BY <1>3 DEF Grown
  <1>. QED  BY <1>3, <1>4 DEF Found, Grown

\* What a definition adds, and what it leaves as it was.
LEMMA Added ==
  ASSUME TypeOK,
         NEW scope \in Scopes, NEW sort \in Sorts, NEW entity \in Entities, NEW found \in Entities,
         NEW refs \in SUBSET Refs, NEW outer \in SUBSET Refs,
         Add(scope, sort, entity, found, refs, outer)
  PROVE  /\ definitions' \in [Scopes -> Seq(Definitions)]
         /\ space' \in SpaceType
         /\ \A s \in Scopes : \A q \in Sorts :
              s # scope \/ q # sort => space'[s][q] = space[s][q]
         /\ Len(space'[scope][sort]) = Len(space[scope][sort]) + 1
         /\ space'[scope][sort][Len(space[scope][sort]) + 1] = found
         /\ \A s \in Scopes : s # scope => definitions'[s] = definitions[s]
         /\ Len(definitions'[scope]) = Len(definitions[scope]) + 1
         /\ \A n \in 1..Len(definitions[scope]) : definitions'[scope][n] = definitions[scope][n]
         /\ definitions'[scope][Len(definitions[scope]) + 1] =
              [defines |-> entity, refs |-> refs, outer |-> outer,
               seen |-> [q \in Sorts |-> Len(space[scope][q])]]
         /\ Grown
  <1>. DEFINE seen == [q \in Sorts |-> Len(space[scope][q])]
              def == [defines |-> entity, refs |-> refs, outer |-> outer, seen |-> seen]
  <1>1. \A s \in Scopes : \A q \in Sorts : space[s][q] \in Seq(Entities) /\ Len(space[s][q]) \in Nat
    BY DEF TypeOK
  <1>2. seen \in [Sorts -> Nat]
    BY <1>1
  <1>3. def \in Definitions
    BY <1>2 DEF Definitions
  <1>4. /\ definitions' = [definitions EXCEPT ![scope] = Append(@, def)]
        /\ space' = [space EXCEPT ![scope][sort] = Append(@, found)]
    BY DEF Add
  <1>5. \A s \in Scopes : definitions[s] \in Seq(Definitions) /\ Len(definitions[s]) \in Nat
    BY DEF TypeOK
  <1>6. /\ Append(definitions[scope], def) \in Seq(Definitions)
        /\ Len(Append(definitions[scope], def)) = Len(definitions[scope]) + 1
        /\ \A n \in 1..Len(definitions[scope]) :
             Append(definitions[scope], def)[n] = definitions[scope][n]
        /\ Append(definitions[scope], def)[Len(definitions[scope]) + 1] = def
    BY <1>3, <1>5, AppendProperties
  <1>7. /\ Append(space[scope][sort], found) \in Seq(Entities)
        /\ Len(Append(space[scope][sort], found)) = Len(space[scope][sort]) + 1
        /\ \A n \in 1..Len(space[scope][sort]) :
             Append(space[scope][sort], found)[n] = space[scope][sort][n]
        /\ Append(space[scope][sort], found)[Len(space[scope][sort]) + 1] = found
    BY <1>1, AppendProperties
  <1>8. \A s \in Scopes :
          definitions'[s] = IF s = scope THEN Append(definitions[scope], def) ELSE definitions[s]
    BY <1>4 DEF TypeOK
  <1>9. \A s \in Scopes : \A q \in Sorts :
          space'[s][q] = IF s = scope /\ q = sort THEN Append(space[scope][sort], found)
                         ELSE space[s][q]
    BY <1>4 DEF TypeOK
  <1>10. definitions' \in [Scopes -> Seq(Definitions)]
    BY <1>4, <1>6 DEF TypeOK
  <1>11. space' \in SpaceType
    BY <1>4, <1>7 DEF TypeOK, SpaceType
  <1>12. /\ \A s \in Scopes : s # scope => definitions'[s] = definitions[s]
         /\ Len(definitions'[scope]) = Len(definitions[scope]) + 1
         /\ \A n \in 1..Len(definitions[scope]) : definitions'[scope][n] = definitions[scope][n]
    BY <1>6, <1>8
  <1>13. /\ \A s \in Scopes : \A q \in Sorts : s # scope \/ q # sort => space'[s][q] = space[s][q]
         /\ Len(space'[scope][sort]) = Len(space[scope][sort]) + 1
         /\ \A k \in 1..Len(space[scope][sort]) :
              space'[scope][sort][k] = space[scope][sort][k]
    BY <1>7, <1>9
  <1>14. \A s \in Scopes : \A q \in Sorts :
           /\ Len(space[s][q]) <= Len(space'[s][q])
           /\ \A k \in 1..Len(space[s][q]) : space'[s][q][k] = space[s][q][k]
    <2>. SUFFICES ASSUME NEW s \in Scopes, NEW q \in Sorts
                  PROVE  /\ Len(space[s][q]) <= Len(space'[s][q])
                         /\ \A k \in 1..Len(space[s][q]) : space'[s][q][k] = space[s][q][k]
      OBVIOUS
    <2>1. CASE s = scope /\ q = sort
      BY <1>1, <1>13, <2>1
    <2>2. CASE s # scope \/ q # sort
      BY <1>1, <1>13, <2>2
    <2>. QED  BY <2>1, <2>2
  <1>15. Exporting => Exporting'
    <2>1. Component \in Scopes
      BY DEF Scopes
    <2>2. /\ DOMAIN definitions[Component] = 1..Len(definitions[Component])
          /\ DOMAIN definitions'[Component] = 1..Len(definitions'[Component])
      BY <1>5, <1>10, <2>1
    <2>3. CASE scope = Component
      <3>1. \A n \in DOMAIN definitions[Component] : n \in DOMAIN definitions'[Component]
        BY <1>5, <1>12, <2>1, <2>2, <2>3
      <3>. QED  BY <1>12, <2>2, <2>3, <3>1 DEF Exporting
    <2>4. CASE scope # Component
      BY <1>12, <2>1, <2>4 DEF Exporting
    <2>. QED  BY <2>3, <2>4
  <1>16. Grown
    BY <1>14, <1>15 DEF Grown
  <1>17. definitions'[scope][Len(definitions[scope]) + 1] = def
    BY <1>6, <1>8
  <1>18. space'[scope][sort][Len(space[scope][sort]) + 1] = found
    BY <1>7, <1>9
  <1>. QED  BY <1>10, <1>11, <1>12, <1>13, <1>16, <1>17, <1>18

\* A definition whose references are sound leaves all references resolved.
LEMMA Wrote ==
  ASSUME TypeOK, Written, ReferencesResolve,
         NEW scope \in Scopes, NEW sort \in Sorts, NEW entity \in Entities, NEW found \in Entities,
         NEW refs \in SUBSET Refs, NEW outer \in SUBSET Refs,
         Add(scope, sort, entity, found, refs, outer),
         \A ref \in refs :
           Sound(scope, ref) /\ (ref.sort = "componentInstance" => scope = Component),
         \A ref \in outer : Sound(Component, ref)
  PROVE  Written' /\ ReferencesResolve'
  <1>. DEFINE seen == [q \in Sorts |-> Len(space[scope][q])]
              def == [defines |-> entity, refs |-> refs, outer |-> outer, seen |-> seen]
  <1>. SUFFICES ASSUME NEW last \in Nat, last = Len(definitions[scope]) + 1
                PROVE  Written' /\ ReferencesResolve'
    <2>1. Len(definitions[scope]) + 1 \in Nat
      BY DEF TypeOK
    <2>. QED  BY <2>1
  <1>0. space \in SpaceType /\ definitions \in [Scopes -> Seq(Definitions)]
    BY DEF TypeOK, SpaceType
  <1>a. /\ definitions'[scope][Len(definitions[scope]) + 1] = def
        /\ Len(definitions'[scope]) = Len(definitions[scope]) + 1
    BY Added
  <1>b. /\ \A n \in 1..Len(definitions[scope]) : definitions'[scope][n] = definitions[scope][n]
        /\ \A s \in Scopes : s # scope => definitions'[s] = definitions[s]
        /\ Grown
    BY Added
  <1>c. definitions' \in [Scopes -> Seq(Definitions)] /\ space' \in SpaceType
    BY Added
  <1>1. /\ definitions' \in [Scopes -> Seq(Definitions)]
        /\ space' \in SpaceType
        /\ definitions'[scope][last] = def
        /\ Len(definitions'[scope]) = last
        /\ \A n \in 1..Len(definitions[scope]) : definitions'[scope][n] = definitions[scope][n]
        /\ \A s \in Scopes : s # scope => definitions'[s] = definitions[s]
        /\ Grown
    BY <1>a, <1>b, <1>c
  <1>2. /\ \A s \in Scopes : \A q \in Sorts :
             Len(space[s][q]) \in Nat /\ Len(space'[s][q]) \in Nat
        /\ \A s \in Scopes : Len(definitions[s]) \in Nat /\ DOMAIN definitions[s] = 1..Len(definitions[s])
        /\ \A s \in Scopes : DOMAIN definitions'[s] = 1..Len(definitions'[s])
        /\ \A s \in Scopes : \A n \in DOMAIN definitions[s] : definitions[s][n] \in Definitions
    BY <1>0, <1>1 DEF SpaceType
  <1>3. Component \in Scopes
    BY DEF Scopes
  <1>4. ASSUME NEW s \in Scopes, NEW n \in DOMAIN definitions[s], n \in DOMAIN definitions'[s],
               \A m \in 1..n : definitions'[s][m] = definitions[s][m]
        PROVE  /\ \A q \in Sorts : definitions'[s][n].seen[q] <= Len(space'[s][q])
               /\ \A ref \in definitions'[s][n].outer : Sound(Component, ref)'
               /\ \A ref \in definitions'[s][n].refs :
                    /\ ref.index \in 0..definitions'[s][n].seen[ref.sort] - 1
                    /\ \/ Denotes(space'[s][ref.sort][ref.index + 1], ref.means)
                       \/ ref.sort = "componentInstance" /\ AfterExport(s, n)'
    <2>. DEFINE d == definitions[s][n]
    <2>1. definitions'[s][n] = d /\ d \in Definitions /\ n \in Nat
      BY <1>2, <1>4
    <2>2. /\ d.refs \subseteq Refs /\ d.outer \subseteq Refs /\ d.seen \in [Sorts -> Nat]
          /\ \A ref \in d.refs \cup d.outer : ref.sort \in Sorts /\ ref.index \in Index
      BY <2>1 DEF Definitions, Refs
    <2>3. \A q \in Sorts : d.seen[q] <= Len(space[s][q])
      BY DEF Written
    <2>4. \A q \in Sorts : d.seen[q] <= Len(space'[s][q])
      <3>1. TAKE q \in Sorts
      <3>2. /\ d.seen[q] \in Nat /\ Len(space[s][q]) \in Nat /\ Len(space'[s][q]) \in Nat
            /\ d.seen[q] <= Len(space[s][q]) /\ Len(space[s][q]) <= Len(space'[s][q])
        BY <1>1, <1>2, <2>2, <2>3 DEF Grown
      <3>. QED  BY <3>2
    <2>5. \A ref \in d.outer : Sound(Component, ref)'
      <3>1. TAKE ref \in d.outer
      <3>2. Found(<<Component, ref.sort, ref.means>>, ref.index)
        BY DEF Written, Sound
      <3>3. Found(<<Component, ref.sort, ref.means>>, ref.index)'
        BY <1>0, <1>1, <1>3, <2>2, <3>2, FoundPersists
      <3>. QED  BY <3>3 DEF Sound
    <2>6. AfterExport(s, n) => AfterExport(s, n)'
      BY <1>4, <2>1 DEF AfterExport
    <2>7. \A ref \in d.refs :
            /\ ref.index \in 0..d.seen[ref.sort] - 1
            /\ \/ Denotes(space'[s][ref.sort][ref.index + 1], ref.means)
               \/ ref.sort = "componentInstance" /\ AfterExport(s, n)'
      <3>1. TAKE ref \in d.refs
      <3>2. /\ ref.index \in 0..d.seen[ref.sort] - 1
            /\ \/ Denotes(space[s][ref.sort][ref.index + 1], ref.means)
               \/ ref.sort = "componentInstance" /\ AfterExport(s, n)
        BY DEF ReferencesResolve
      <3>3. ref.index + 1 \in 1..Len(space[s][ref.sort])
        <4>1. d.seen[ref.sort] \in Nat /\ d.seen[ref.sort] <= Len(space[s][ref.sort])
          BY <2>2, <2>3
        <4>2. Len(space[s][ref.sort]) \in Nat
          BY <1>2, <2>2
        <4>. QED  BY <3>2, <4>1, <4>2
      <3>4. space'[s][ref.sort][ref.index + 1] = space[s][ref.sort][ref.index + 1]
        <4>1. ref.sort \in Sorts
          BY <2>2
        <4>2. \A k \in 1..Len(space[s][ref.sort]) : space'[s][ref.sort][k] = space[s][ref.sort][k]
          BY <1>1, <4>1 DEF Grown
        <4>. QED  BY <3>3, <4>2
      <3>. QED  BY <2>6, <3>2, <3>4
    <2>. QED  BY <2>1, <2>4, <2>5, <2>7
  <1>5. /\ \A q \in Sorts : def.seen[q] <= Len(space'[scope][q])
        /\ \A ref \in def.outer : Sound(Component, ref)'
        /\ \A ref \in def.refs :
             /\ ref.index \in 0..def.seen[ref.sort] - 1
             /\ \/ Denotes(space'[scope][ref.sort][ref.index + 1], ref.means)
                \/ ref.sort = "componentInstance" /\ AfterExport(scope, last)'
    <2>1. \A q \in Sorts : def.seen[q] <= Len(space'[scope][q])
      BY <1>1, <1>2 DEF Grown
    <2>2. \A ref \in refs \cup outer : ref.sort \in Sorts
      BY DEF Refs
    <2>3. \A ref \in outer : Sound(Component, ref)'
      <3>1. TAKE ref \in outer
      <3>2. Found(<<Component, ref.sort, ref.means>>, ref.index)
        BY DEF Sound
      <3>3. Found(<<Component, ref.sort, ref.means>>, ref.index)'
        BY <1>0, <1>1, <1>3, <2>2, <3>2, FoundPersists
      <3>. QED  BY <3>3 DEF Sound
    <2>4. scope = Component /\ Exporting => AfterExport(scope, last)'
      <3>1. ASSUME scope = Component, NEW m \in DOMAIN definitions[Component],
                   definitions[Component][m].defines[1] = "exported"
            PROVE  AfterExport(scope, last)'
        <4>1. m \in 1..last - 1
          BY <1>2, <1>3, <3>1
        <4>2. definitions'[scope][m].defines[1] = "exported"
          BY <1>1, <3>1, <1>2, <1>3
        <4>. QED  BY <4>1, <4>2 DEF AfterExport
      <3>. QED  BY <3>1 DEF Exporting
    <2>5. ASSUME NEW ref \in refs
          PROVE  /\ ref.index \in 0..seen[ref.sort] - 1
                 /\ \/ Denotes(space'[scope][ref.sort][ref.index + 1], ref.means)
                    \/ ref.sort = "componentInstance" /\ AfterExport(scope, last)'
      <3>1. /\ ref.index \in 0..Len(space[scope][ref.sort]) - 1
            /\ \/ Denotes(space[scope][ref.sort][ref.index + 1], ref.means)
               \/ ref.sort = "componentInstance" /\ Exporting
            /\ ref.sort = "componentInstance" => scope = Component
        BY DEF Sound, Found
      <3>2. ref.index + 1 \in 1..Len(space[scope][ref.sort])
        BY <1>2, <2>2, <3>1
      <3>3. space'[scope][ref.sort][ref.index + 1] = space[scope][ref.sort][ref.index + 1]
        BY <1>1, <2>2, <3>2 DEF Grown
      <3>4. seen[ref.sort] = Len(space[scope][ref.sort])
        BY <2>2
      <3>. QED  BY <2>4, <3>1, <3>3, <3>4
    <2>. QED  BY <2>1, <2>3, <2>5
  <1>6. ASSUME NEW s \in Scopes, NEW n \in DOMAIN definitions'[s]
        PROVE  /\ \A q \in Sorts : definitions'[s][n].seen[q] <= Len(space'[s][q])
               /\ \A ref \in definitions'[s][n].outer : Sound(Component, ref)'
               /\ \A ref \in definitions'[s][n].refs :
                    /\ ref.index \in 0..definitions'[s][n].seen[ref.sort] - 1
                    /\ \/ Denotes(space'[s][ref.sort][ref.index + 1], ref.means)
                       \/ ref.sort = "componentInstance" /\ AfterExport(s, n)'
    <2>1. CASE s # scope
      <3>1. definitions'[s] = definitions[s]
        BY <1>1, <2>1
      <3>. QED  BY <1>4, <3>1
    <2>2. CASE s = scope /\ n # last
      <3>1. n \in DOMAIN definitions[s] /\ \A m \in 1..n : m \in 1..Len(definitions[scope])
        BY <1>1, <1>2, <2>2
      <3>2. \A m \in 1..n : definitions'[s][m] = definitions[s][m]
        BY <1>1, <2>2, <3>1
      <3>. QED  BY <1>4, <3>1, <3>2
    <2>3. CASE s = scope /\ n = last
      BY <1>1, <1>5, <2>3
    <2>. QED  BY <2>1, <2>2, <2>3
  <1>. QED  BY <1>6 DEF Written, ReferencesResolve

-----------------------------------------------------------------------------
(* Calls.                                                                  *)

TypeCall(c, s, t) == c[1] \in {"type", "define", "remember"} /\ c[2] = s /\ c[3] = t

\* An interface whose type is being put together is not used by the calls below.
LEMMA ScopesApart ==
  ASSUME NEW h, NEW d, Placed(h), Ordered(h, d), h[1] = "interfaceType", h[3] \in Interfaces,
         h[2] \in Scopes, d[2] \in Scopes
  PROVE  d[2] # h[3]
  <1>1. Under(h[3], h[2]) /\ Within(h[2], d[2])
    BY DEF Placed, Ordered
  <1>2. Depth[h[3]] \in Nat /\ (h[2] # Component => Depth[h[2]] \in Nat)
        /\ (d[2] # Component => Depth[d[2]] \in Nat)
    BY DepthAssumption DEF Scopes
  <1>3. h[3] # Component
    BY ComponentAssumption
  <1>. QED  BY <1>1, <1>2, <1>3 DEF Under, Within

\* What is known of a ProgramAbi.
LEMMA AbiTyped ==
  ASSUME NEW a \in Abis
  PROVE  /\ a.imports \in Seq(ImportedFunctions) /\ DOMAIN a.imports = 1..Len(a.imports)
         /\ \A k \in DOMAIN a.imports :
              /\ a.imports[k].types \in Seq(Types) /\ a.imports[k].options \in Seq(Options)
              /\ a.imports[k].is = "lower" => a.imports[k].interface \in Interfaces
         /\ DOMAIN a.exports = 1..Len(a.exports)
         /\ \A e \in DOMAIN a.exports :
              /\ a.exports[e].interface \in Interfaces
              /\ a.exports[e].functions \in Seq(ExportedFunction)
              /\ DOMAIN a.exports[e].functions = 1..Len(a.exports[e].functions)
              /\ \A m \in DOMAIN a.exports[e].functions :
                   LET f == a.exports[e].functions[m] IN
                   /\ f.function \in Funcs /\ f.name \in Options /\ f.name \in Names
                   /\ f.options \in Seq(Options)
  <1>. DEFINE E == [interface : Interfaces, functions : Seq(ExportedFunction)]
  <1>1. a.imports \in Seq(ImportedFunctions) /\ a.exports \in Seq(E)
    BY AbiAssumption DEF ProgramAbi
  <1>2. DOMAIN a.imports = 1..Len(a.imports) /\ DOMAIN a.exports = 1..Len(a.exports)
    BY <1>1, LenProperties
  <1>3. \A k \in DOMAIN a.imports : a.imports[k] \in ImportedFunctions
    BY <1>1, <1>2, ElementOfSeq
  <1>4. \A e \in DOMAIN a.exports : a.exports[e] \in E
    BY <1>1, <1>2, ElementOfSeq
  <1>5. \A e \in DOMAIN a.exports :
          /\ a.exports[e].interface \in Interfaces
          /\ a.exports[e].functions \in Seq(ExportedFunction)
    BY <1>4
  <1>6. \A e \in DOMAIN a.exports :
          /\ DOMAIN a.exports[e].functions = 1..Len(a.exports[e].functions)
          /\ \A m \in DOMAIN a.exports[e].functions :
               a.exports[e].functions[m] \in ExportedFunction
    BY <1>5, LenProperties, ElementOfSeq
  <1>7. \A f \in ExportedFunction :
          f.function \in Funcs /\ f.name \in Options /\ f.name \in Names /\ f.options \in Seq(Options)
    BY DEF ExportedFunction, Options
  <1>8. \A k \in DOMAIN a.imports :
          a.imports[k].types \in Seq(Types) /\ a.imports[k].options \in Seq(Options)
    BY <1>3 DEF ImportedFunctions
  <1>9. \A k \in DOMAIN a.imports : a.imports[k].is = "lower" => a.imports[k].interface \in Interfaces
    BY AbiAssumption
  <1>. QED  BY <1>1, <1>2, <1>5, <1>6, <1>7, <1>8, <1>9

\* What a call needs of the maps.
LEMMA NeedsTyped ==
  ASSUME abi \in Abis, NEW c, c[3] \in Operands(c[1])
  PROVE  NeedsTypes(c) \subseteq Types /\ NeedsOptions(c) \subseteq Options
  <1>3. CASE c[1] = "define"
    BY <1>3, AbiAssumption DEF NeedsTypes, NeedsOptions, Operands, ToSet
  <1>4. CASE c[1] = "functionType"
    BY <1>4, AbiAssumption DEF NeedsTypes, NeedsOptions, Operands, ToSet
  <1>5. CASE c[1] = "primitive"
    <2>1. c[3][1] \in DOMAIN abi.imports
      BY <1>5 DEF Operands
    <2>2. /\ abi.imports[c[3][1]].types \in Seq(Types)
          /\ abi.imports[c[3][1]].options \in Seq(Options)
      BY <2>1, AbiTyped
    <2>3. /\ ToSet(abi.imports[c[3][1]].types) \subseteq Types
          /\ ToSet(abi.imports[c[3][1]].options) \subseteq Options
      BY <2>2 DEF ToSet
    <2>4. /\ NeedsTypes(c) = ToSet(abi.imports[c[3][1]].types)
          /\ NeedsOptions(c) = ToSet(abi.imports[c[3][1]].options)
      BY <1>5 DEF NeedsTypes, NeedsOptions
    <2>. QED  BY <2>3, <2>4
  <1>6. CASE c[1] \in {"lower", "allocate"}
    <2>1. c[3] \in DOMAIN abi.imports
      BY <1>6 DEF Operands
    <2>2. abi.imports[c[3]].options \in Seq(Options)
      BY <2>1, AbiTyped
    <2>3. ToSet(abi.imports[c[3]].options) \subseteq Options
      BY <2>2 DEF ToSet
    <2>4. NeedsTypes(c) = {} /\ NeedsOptions(c) = ToSet(abi.imports[c[3]].options)
      BY <1>6 DEF NeedsTypes, NeedsOptions
    <2>. QED  BY <2>3, <2>4
  <1>7. CASE c[1] = "canonLift"
    <2>1. c[3] \in (DOMAIN abi.exports) \X Nat /\ c[3][2] \in DOMAIN abi.exports[c[3][1]].functions
      BY <1>7 DEF Operands
    <2>2. Exported(c[3]).options \in Seq(Options) /\ Exported(c[3]).name \in Options
      BY <2>1, AbiTyped DEF Exported
    <2>. QED  BY <1>7, <2>2 DEF NeedsTypes, NeedsOptions, ToSet
  <1>. QED  BY <1>3, <1>4, <1>5, <1>6, <1>7 DEF NeedsTypes, NeedsOptions

\* The calls of an expansion and those that are left keep what is known of them.
LEMMA AgendaStep ==
  ASSUME TypeOK, AgendaPlaced, AgendaOrdered, Chained, Coming,
         agenda # <<>>, NEW h, h = agenda[1], NEW L, IsSequence(L), Then(L), abi' = abi,
         \A n \in 1..Len(L) : Placed(L[n]),
         \A n \in 1..Len(L) : \A d : Ordered(h, d) => Ordered(L[n], d),
         \A m, n \in 1..Len(L) : m < n => Ordered(L[m], L[n]),
         \A n \in 1..Len(L) : Takes(L[n])' # NoIndex => n > 1 /\ Gives(L[n - 1]) = Takes(L[n])',
         Gives(h) # NoIndex => IF Len(L) = 0 THEN Found(Gives(h), returned)'
                               ELSE Gives(L[Len(L)]) = Gives(h),
         \A n \in 1..Len(L) : Supplied(L, n)',
         \A s \in Scopes : \A t \in Types : existing[s][t] # Absent =>
           existing'[s][t] # Absent \/ (h[1] = "interfaceType" /\ s = h[3]),
         \A o \in Options : cached[o] # Absent => cached'[o] = cached[o],
         \A n \in DOMAIN definitions[Component] :
           definitions'[Component][n].seen = definitions[Component][n].seen,
         h[1] \in {"type", "define", "remember"} =>
           existing'[h[2]][h[3]] # Absent \/ \E m \in 1..Len(L) : TypeCall(L[m], h[2], h[3]),
         h[1] = "require" => cached'[h[3]] # Absent
  PROVE  AgendaPlaced' /\ AgendaOrdered' /\ Chained' /\ Coming' /\ IsSequence(agenda')
  <1>1. /\ IsSequence(agenda') /\ Len(L) \in Nat /\ Len(agenda) \in Nat \ {0}
        /\ DOMAIN agenda = 1..Len(agenda) /\ DOMAIN agenda' = 1..Len(agenda')
        /\ Len(agenda') = Len(L) + Len(agenda) - 1
        /\ \A n \in 1..Len(L) : agenda'[n] = L[n]
        /\ \A n \in Len(L) + 1..Len(agenda') : agenda'[n] = agenda[n - Len(L) + 1]
    <2>1. IsSequence(agenda)
      BY DEF TypeOK, IsSequence
    <2>. QED  BY <2>1, Replaced
  <1>2. \A n \in DOMAIN agenda' :
          \/ n \in 1..Len(L) /\ agenda'[n] = L[n]
          \/ \E k \in DOMAIN agenda :
               k > 1 /\ n = Len(L) + k - 1 /\ n > Len(L) /\ agenda'[n] = agenda[k]
    <2>1. TAKE n \in DOMAIN agenda'
    <2>2. CASE n <= Len(L)
      BY <1>1, <2>2
    <2>3. CASE n > Len(L)
      <3>. DEFINE k == n - Len(L) + 1
      <3>1. k \in DOMAIN agenda /\ k > 1 /\ n = Len(L) + k - 1
        BY <1>1, <2>3
      <3>2. n \in Len(L) + 1..Len(agenda')
        BY <1>1, <2>3
      <3>. QED  BY <1>1, <2>3, <3>1, <3>2
    <2>. QED  BY <1>1, <2>2, <2>3
  <1>3. 1 \in DOMAIN agenda
    BY <1>1
  <1>4. AgendaPlaced'
    <2>. SUFFICES ASSUME NEW n \in DOMAIN agenda' PROVE Placed(agenda'[n])
      BY DEF AgendaPlaced
    <2>1. CASE n \in 1..Len(L) /\ agenda'[n] = L[n]
      BY <2>1
    <2>2. CASE \E k \in DOMAIN agenda : agenda'[n] = agenda[k]
      BY <2>2 DEF AgendaPlaced
    <2>. QED  BY <1>2, <2>1, <2>2
  <1>5. AgendaOrdered'
    <2>. SUFFICES ASSUME NEW m \in DOMAIN agenda', NEW n \in DOMAIN agenda', m < n
                  PROVE  Ordered(agenda'[m], agenda'[n])
      BY DEF AgendaOrdered
    <2>1. CASE n \in 1..Len(L) /\ agenda'[n] = L[n]
      <3>1. m \in 1..Len(L) /\ agenda'[m] = L[m]
        BY <1>1, <2>1
      <3>. QED  BY <2>1, <3>1
    <2>2. ASSUME NEW k \in DOMAIN agenda, k > 1, n = Len(L) + k - 1, agenda'[n] = agenda[k]
          PROVE  Ordered(agenda'[m], agenda'[n])
      <3>1. CASE m \in 1..Len(L) /\ agenda'[m] = L[m]
        <4>1. Ordered(h, agenda[k])
          BY <1>3, <2>2 DEF AgendaOrdered
        <4>. QED  BY <2>2, <3>1, <4>1
      <3>2. ASSUME NEW j \in DOMAIN agenda, j > 1, m = Len(L) + j - 1, agenda'[m] = agenda[j]
            PROVE  Ordered(agenda'[m], agenda'[n])
        <4>1. j < k
          BY <1>1, <2>2, <3>2
        <4>. QED  BY <2>2, <3>2, <4>1 DEF AgendaOrdered
      <3>. QED  BY <1>2, <3>1, <3>2
    <2>. QED  BY <1>2, <2>1, <2>2
  <1>6. Chained'
    <2>0. \A c : Takes(c)' = Takes(c)
      BY DEF Takes, Exported
    <2>. SUFFICES ASSUME NEW n \in DOMAIN agenda', NEW c, c = agenda'[n], Takes(c)' # NoIndex
                  PROVE  IF n = 1 THEN Found(Takes(c), returned)'
                         ELSE Gives(agenda'[n - 1]) = Takes(c)'
      BY DEF Chained
    <2>1. CASE n \in 1..Len(L) /\ agenda'[n] = L[n]
      <3>1. c = L[n] /\ n > 1 /\ Gives(L[n - 1]) = Takes(L[n])'
        BY <1>1, <2>1
      <3>2. n - 1 \in 1..Len(L)
        BY <1>1, <2>1, <3>1
      <3>3. agenda'[n - 1] = L[n - 1]
        BY <1>1, <3>2
      <3>. QED  BY <3>1, <3>3
    <2>2. ASSUME NEW k \in DOMAIN agenda, k > 1, n = Len(L) + k - 1, agenda'[n] = agenda[k]
          PROVE  IF n = 1 THEN Found(Takes(c), returned)'
                 ELSE Gives(agenda'[n - 1]) = Takes(c)'
      <3>1. Gives(agenda[k - 1]) = Takes(c) /\ Takes(c) # NoIndex
        BY <1>1, <2>0, <2>2 DEF Chained
      <3>2. CASE k > 2
        <4>0. k \in Nat /\ n \in Nat
          BY <1>1, <2>2
        <4>1. n - 1 \in DOMAIN agenda' /\ n - 1 \notin 1..Len(L) /\ n # 1
          BY <1>1, <2>2, <3>2, <4>0
        <4>2. agenda'[n - 1] = agenda[k - 1]
          <5>1. PICK j \in DOMAIN agenda : n - 1 = Len(L) + j - 1 /\ agenda'[n - 1] = agenda[j]
            BY <1>2, <4>1
          <5>2. j = k - 1
            BY <1>1, <2>2, <4>0, <5>1
          <5>. QED  BY <5>1, <5>2
        <4>. QED  BY <2>0, <3>1, <4>1, <4>2
      <3>3. CASE k = 2
        <4>1. n = Len(L) + 1 /\ Gives(h) = Takes(c) /\ Gives(h) # NoIndex
          BY <1>1, <2>2, <3>1, <3>3
        <4>2. CASE Len(L) = 0
          <5>1. Found(Gives(h), returned)' /\ n = 1
            BY <4>1, <4>2
          <5>2. Gives(h)' = Gives(h)
            BY DEF Gives, TypeEntity
          <5>. QED  BY <2>0, <4>1, <5>1, <5>2 DEF Found
        <4>3. CASE Len(L) # 0
          <5>1. Len(L) \in 1..Len(L) /\ n - 1 = Len(L) /\ n # 1
            BY <1>1, <4>1, <4>3
          <5>2. agenda'[n - 1] = L[Len(L)] /\ Gives(L[Len(L)]) = Gives(h)
            BY <1>1, <4>1, <4>3, <5>1
          <5>. QED  BY <2>0, <4>1, <5>1, <5>2
        <4>. QED  BY <4>2, <4>3
      <3>4. k > 2 \/ k = 2
        BY <1>1, <2>2
      <3>. QED  BY <3>2, <3>3, <3>4
    <2>. QED  BY <1>2, <2>1, <2>2
  <1>7. Coming'
    <2>0. \A c : NeedsTypes(c)' = NeedsTypes(c) /\ NeedsOptions(c)' = NeedsOptions(c)
      BY DEF NeedsTypes, NeedsOptions, Exported
    <2>. SUFFICES ASSUME NEW n \in DOMAIN agenda' PROVE Supplied(agenda, n)'
      BY DEF Coming
    <2>1. CASE n \in 1..Len(L) /\ agenda'[n] = L[n]
      <3>1. Supplied(L, n)'
        BY <2>1
      <3>2. \A m \in 1..n - 1 : agenda'[m] = L[m]
        BY <1>1, <2>1
      <3>3. /\ \A q, t : TypeComes(L, n, q, t) => TypeComes(agenda', n, q, t)
            /\ \A o : OptionComes(L, n, o) => OptionComes(agenda', n, o)
        BY <3>2 DEF TypeComes, OptionComes
      <3>. QED  BY <2>1, <3>1, <3>3 DEF Supplied
    <2>2. ASSUME NEW k \in DOMAIN agenda, k > 1, n = Len(L) + k - 1, agenda'[n] = agenda[k]
          PROVE  Supplied(agenda, n)'
      <3>. SUFFICES ASSUME NEW c, c = agenda[k] PROVE Supplied(agenda, n)'
        OBVIOUS
      <3>1. Supplied(agenda, k) /\ Placed(h) /\ Ordered(h, c) /\ c[2] \in Scopes /\ h[2] \in Scopes
        BY <1>3, <2>2 DEF Coming, AgendaPlaced, AgendaOrdered, TypeOK
      <3>a. NeedsTypes(c) \subseteq Types /\ NeedsOptions(c) \subseteq Options
        BY NeedsTyped DEF TypeOK
      <3>2. \A j \in 2..k - 1 : Len(L) + j - 1 \in 1..n - 1 /\ agenda'[Len(L) + j - 1] = agenda[j]
        <4>1. TAKE j \in 2..k - 1
        <4>2. Len(L) + j - 1 \in 1..n - 1 /\ Len(L) + j - 1 \in DOMAIN agenda'
              /\ Len(L) + j - 1 \notin 1..Len(L)
          BY <1>1, <2>2
        <4>3. PICK i \in DOMAIN agenda :
                Len(L) + j - 1 = Len(L) + i - 1 /\ agenda'[Len(L) + j - 1] = agenda[i]
          BY <1>2, <4>2
        <4>4. i = j
          BY <1>1, <4>3
        <4>. QED  BY <4>2, <4>3, <4>4
      <3>3. \A m \in 1..Len(L) : m \in 1..n - 1 /\ agenda'[m] = L[m]
        BY <1>1, <2>2
      <3>4. \A j \in 1..k - 1 : j = 1 \/ j \in 2..k - 1
        BY <1>1
      <3>5. h[1] = "interfaceType" => c[2] # h[3]
        <4>1. h[1] = "interfaceType" => h[3] \in Interfaces
          BY <1>3 DEF TypeOK, Operands
        <4>. QED  BY <3>1, <4>1, ScopesApart
      <3>6. ASSUME NEW t \in NeedsTypes(c)'
            PROVE  existing'[c[2]][t] # Absent \/ TypeComes(agenda', n, c[2], t)
        <4>1. existing[c[2]][t] # Absent \/ TypeComes(agenda, k, c[2], t)
          BY <2>0, <3>1, <3>6 DEF Supplied
        <4>2. CASE existing[c[2]][t] # Absent /\ t \in Types
          BY <3>1, <3>5, <4>2
        <4>3. ASSUME NEW j \in 1..k - 1, TypeCall(agenda[j], c[2], t)
              PROVE  existing'[c[2]][t] # Absent \/ TypeComes(agenda', n, c[2], t)
          <5>1. CASE j = 1
            <6>1. existing'[h[2]][h[3]] # Absent \/ \E m \in 1..Len(L) : TypeCall(L[m], h[2], h[3])
              BY <4>3, <5>1 DEF TypeCall
            <6>. QED  BY <3>3, <4>3, <5>1, <6>1 DEF TypeCall, TypeComes
          <5>2. CASE j \in 2..k - 1
            BY <3>2, <4>3, <5>2 DEF TypeCall, TypeComes
          <5>. QED  BY <3>4, <5>1, <5>2
        <4>4. t \in Types
          BY <2>0, <3>6, <3>a
        <4>. QED  BY <4>1, <4>2, <4>3, <4>4 DEF TypeComes, TypeCall
      <3>7. ASSUME NEW o \in NeedsOptions(c)'
            PROVE  cached'[o] # Absent \/ OptionComes(agenda', n, o)
        <4>1. cached[o] # Absent \/ OptionComes(agenda, k, o)
          BY <2>0, <3>1, <3>7 DEF Supplied
        <4>2. ASSUME NEW j \in 1..k - 1, agenda[j][1] = "require" /\ agenda[j][3] = o
              PROVE  cached'[o] # Absent \/ OptionComes(agenda', n, o)
          <5>1. CASE j = 1
            BY <4>2, <5>1
          <5>2. CASE j \in 2..k - 1
            BY <3>2, <4>2, <5>2 DEF OptionComes
          <5>. QED  BY <3>4, <5>1, <5>2
        <4>3. o \in Options
          BY <2>0, <3>7, <3>a
        <4>. QED  BY <4>1, <4>2, <4>3 DEF OptionComes
      <3>8. c[1] = "apply" =>
              /\ cached'[c[3][2]] # Absent
              /\ cached'[c[3][2]] < definitions'[Component][c[3][1]].seen[SortOf(c[3][2])]
        <4>1. SUFFICES ASSUME c[1] = "apply"
                       PROVE  /\ cached'[c[3][2]] # Absent
                              /\ cached'[c[3][2]] < definitions'[Component][c[3][1]].seen[SortOf(c[3][2])]
          OBVIOUS
        <4>2. c[3][1] \in DOMAIN definitions[Component] /\ c[3][2] \in Options
          BY <2>2, <4>1 DEF TypeOK, Operands
        <4>. QED  BY <3>1, <4>1, <4>2 DEF Supplied
      <3>. QED  BY <2>2, <3>6, <3>7, <3>8 DEF Supplied
    <2>. QED  BY <1>2, <2>1, <2>2
  <1>. QED  BY <1>1, <1>4, <1>5, <1>6, <1>7

\* Where the calls of the next agenda come from.
LEMMA Positions ==
  ASSUME IsSequence(agenda), agenda # <<>>, NEW L, IsSequence(L), Then(L)
  PROVE  /\ DOMAIN agenda = 1..Len(agenda) /\ 1 \in DOMAIN agenda
         /\ \A n \in DOMAIN agenda' :
              \/ \E m \in 1..Len(L) : agenda'[n] = L[m]
              \/ \E k \in DOMAIN agenda : k > 1 /\ agenda'[n] = agenda[k]
         /\ \A k \in DOMAIN agenda : k > 1 => \E n \in DOMAIN agenda' : agenda'[n] = agenda[k]
         /\ agenda' # <<>> => 1 \in DOMAIN agenda'
  <1>1. /\ IsSequence(agenda') /\ Len(L) \in Nat /\ Len(agenda) \in Nat \ {0}
        /\ DOMAIN agenda = 1..Len(agenda) /\ DOMAIN agenda' = 1..Len(agenda')
        /\ Len(agenda') = Len(L) + Len(agenda) - 1
        /\ \A n \in 1..Len(L) : agenda'[n] = L[n]
        /\ \A n \in Len(L) + 1..Len(agenda') : agenda'[n] = agenda[n - Len(L) + 1]
    BY Replaced
  <1>2. ASSUME NEW n \in DOMAIN agenda'
        PROVE  \/ \E m \in 1..Len(L) : agenda'[n] = L[m]
               \/ \E k \in DOMAIN agenda : k > 1 /\ agenda'[n] = agenda[k]
    <2>1. CASE n <= Len(L)
      <3>1. n \in 1..Len(L)
        BY <1>1, <2>1
      <3>. QED  BY <1>1, <3>1
    <2>2. CASE n > Len(L)
      <3>1. n - Len(L) + 1 \in DOMAIN agenda /\ n - Len(L) + 1 > 1 /\ n \in Len(L) + 1..Len(agenda')
        BY <1>1, <2>2
      <3>. QED  BY <1>1, <3>1
    <2>. QED  BY <1>1, <2>1, <2>2
  <1>3. ASSUME NEW k \in DOMAIN agenda, k > 1
        PROVE  \E n \in DOMAIN agenda' : agenda'[n] = agenda[k]
    <2>. DEFINE n == Len(L) + k - 1
    <2>1. n \in DOMAIN agenda' /\ n \in Len(L) + 1..Len(agenda') /\ n - Len(L) + 1 = k
      BY <1>1, <1>3
    <2>. QED  BY <1>1, <2>1
  <1>4. agenda' # <<>> => 1 \in DOMAIN agenda'
    BY <1>1, EmptySeq DEF IsSequence
  <1>. QED  BY <1>1, <1>2, <1>3, <1>4

\* What else is known of the agenda.
Called ==
  \A n \in DOMAIN agenda : agenda[n][2] \in Scopes /\ agenda[n][3] \in Operands(agenda[n][1])

\* The calls of the next agenda work on what there is.
LEMMA CallsStep ==
  ASSUME TypeOK, AgendaPlaced, AgendaOrdered, Imports,
         agenda # <<>>, NEW h, h = agenda[1], NEW L, IsSequence(L), Then(L), abi' = abi,
         \A n \in DOMAIN definitions[Component] : n \in DOMAIN definitions'[Component],
         \A n \in 1..Len(L) : L[n][2] \in Scopes /\ L[n][3] \in Operands(L[n][1])',
         \A n \in 1..Len(L) : L[n][1] # "modules",
         \A n \in 1..Len(L) : L[n][1] = "import" => instances'[L[n][3]] = Absent,
         \A i \in Interfaces : instances'[i] # instances[i] => h[1] = "import" /\ h[3] = i
  PROVE  /\ Called'
         /\ \A n \in DOMAIN agenda' : agenda'[n][1] # "modules"
         /\ \A n \in DOMAIN agenda' : agenda'[n][1] = "import" => instances'[agenda'[n][3]] = Absent
  <1>1. IsSequence(agenda)
    BY DEF TypeOK, IsSequence
  <1>2. \A n \in DOMAIN agenda' :
              \/ \E m \in 1..Len(L) : agenda'[n] = L[m]
              \/ \E k \in DOMAIN agenda : k > 1 /\ agenda'[n] = agenda[k]
    BY <1>1, Positions
  <1>3. 1 \in DOMAIN agenda
    BY <1>1, Positions
  <1>4. \A k \in DOMAIN agenda : k > 1 => Ordered(h, agenda[k])
    BY <1>3 DEF AgendaOrdered
  <1>5. \A c : c[3] \in Operands(c[1]) => c[3] \in Operands(c[1])'
    BY DEF Operands
  <1>6. ASSUME NEW n \in DOMAIN agenda', NEW k \in DOMAIN agenda, k > 1, agenda'[n] = agenda[k]
        PROVE  /\ (agenda[n][2] \in Scopes /\ agenda[n][3] \in Operands(agenda[n][1]))'
               /\ agenda'[n][1] # "modules"
               /\ agenda'[n][1] = "import" => instances'[agenda'[n][3]] = Absent
    <2>. SUFFICES ASSUME NEW c, c = agenda[k]
                  PROVE  /\ c[2] \in Scopes /\ c[3] \in Operands(c[1])'
                         /\ c[1] # "modules"
                         /\ c[1] = "import" => instances'[c[3]] = Absent
      BY <1>6
    <2>1. c[2] \in Scopes /\ c[3] \in Operands(c[1])
      BY DEF TypeOK
    <2>2. c[3] \in Operands(c[1])'
      BY <1>5, <2>1
    <2>3. Ordered(h, c)
      BY <1>4, <1>6
    <2>4. ASSUME c[1] = "import" PROVE instances'[c[3]] = Absent
      <3>1. c[3] \in Interfaces /\ instances[c[3]] = Absent
        BY <2>1, <2>4 DEF Operands, Imports
      <3>2. ASSUME h[1] = "import", h[3] = c[3] PROVE FALSE
        <4>1. Placed(h) /\ h[2] \in Scopes
          BY <1>3 DEF AgendaPlaced, TypeOK
        <4>2. Under(h[3], h[2]) /\ h[2] \in Interfaces /\ Depth[h[2]] <= Depth[h[3]]
          BY <2>3, <2>4, <3>2, <4>1 DEF Placed, Ordered
        <4>3. h[2] # Component /\ Depth[h[3]] < Depth[h[2]]
          BY <4>2, ComponentAssumption DEF Under
        <4>. QED  BY <3>1, <3>2, <4>2, <4>3, DepthAssumption
      <3>. QED  BY <3>1, <3>2
    <2>. QED  BY <2>1, <2>2, <2>3, <2>4 DEF Ordered
  <1>7. ASSUME NEW n \in DOMAIN agenda', NEW m \in 1..Len(L), agenda'[n] = L[m]
        PROVE  /\ (agenda[n][2] \in Scopes /\ agenda[n][3] \in Operands(agenda[n][1]))'
               /\ agenda'[n][1] # "modules"
               /\ agenda'[n][1] = "import" => instances'[agenda'[n][3]] = Absent
    <2>. SUFFICES ASSUME NEW c, c = L[m]
                  PROVE  /\ c[2] \in Scopes /\ c[3] \in Operands(c[1])'
                         /\ c[1] # "modules"
                         /\ c[1] = "import" => instances'[c[3]] = Absent
      BY <1>7
    <2>. QED  OBVIOUS
  <1>. QED  BY <1>2, <1>6, <1>7 DEF Called

\* The definitions whose index has been taken.
LEMMA PendingStep ==
  ASSUME IsSequence(agenda), AgendaOrdered,
         agenda # <<>>, NEW h, h = agenda[1], NEW L, IsSequence(L), Then(L),
         \A n \in 1..Len(L) : L[n][1] # "primitive"
  PROVE  /\ h[1] # "primitive" => (Pending' <=> Pending)
         /\ h[1] \notin Typing => Pending' = FALSE
         /\ h[1] \notin Typing /\ h[1] # "primitive" => Pending = FALSE
         /\ \A n \in DOMAIN agenda' : agenda'[n][1] = "primitive" =>
              \E k \in DOMAIN agenda : agenda'[n] = agenda[k]
  <1>1. /\ 1 \in DOMAIN agenda
        /\ \A n \in DOMAIN agenda' :
              \/ \E m \in 1..Len(L) : agenda'[n] = L[m]
              \/ \E k \in DOMAIN agenda : k > 1 /\ agenda'[n] = agenda[k]
        /\ \A k \in DOMAIN agenda : k > 1 => \E n \in DOMAIN agenda' : agenda'[n] = agenda[k]
        /\ \A k \in DOMAIN agenda : k = 1 \/ k > 1
    <2>1. DOMAIN agenda = 1..Len(agenda)
      BY Positions
    <2>. QED  BY <2>1, Positions
  <1>2. \A n \in DOMAIN agenda' : agenda'[n][1] = "primitive" =>
          \E k \in DOMAIN agenda : k > 1 /\ agenda'[n] = agenda[k]
    BY <1>1
  <1>3. \A k \in DOMAIN agenda : k > 1 /\ agenda[k][1] = "primitive" => h[1] \in Typing
    BY <1>1 DEF AgendaOrdered, Ordered
  <1>4. h[1] # "primitive" => (Pending' <=> Pending)
    <2>1. ASSUME Pending' PROVE Pending
      BY <1>2, <2>1 DEF Pending
    <2>2. ASSUME Pending, h[1] # "primitive" PROVE Pending'
      BY <1>1, <2>2 DEF Pending
    <2>. QED  BY <2>1, <2>2
  <1>5. h[1] \notin Typing => Pending' = FALSE
    BY <1>2, <1>3 DEF Pending
  <1>6. h[1] \notin Typing /\ h[1] # "primitive" => Pending = FALSE
    BY <1>1, <1>3 DEF Pending
  <1>. QED  BY <1>2, <1>4, <1>5, <1>6

\* What an expansion of a call may be.
Expands(h, L) ==
  /\ \A n \in 1..Len(L) : L[n][2] \in Scopes /\ L[n][3] \in Operands(L[n][1]) /\ Placed(L[n])
  /\ \A n \in 1..Len(L) : L[n][1] \notin {"modules", "primitive"}
  /\ \A n \in 1..Len(L) : L[n][1] = "import" => instances[L[n][3]] = Absent
  /\ \A n \in 1..Len(L) : \A d : Ordered(h, d) => Ordered(L[n], d)
  /\ \A m, n \in 1..Len(L) : m < n => Ordered(L[m], L[n])
  /\ \A n \in 1..Len(L) : Takes(L[n]) # NoIndex => n > 1 /\ Gives(L[n - 1]) = Takes(L[n])
  /\ \A n \in 1..Len(L) : Supplied(L, n)
  /\ Len(L) # 0 /\ Gives(h) # NoIndex => Gives(L[Len(L)]) = Gives(h)
  /\ h[1] \in {"type", "define", "remember"} =>
       existing[h[2]][h[3]] # Absent \/ \E m \in 1..Len(L) : TypeCall(L[m], h[2], h[3])

\* A call that makes others, or returns what there is, and adds no definition.
LEMMA ExpandStep ==
  ASSUME LinkerInv, agenda # <<>>, NEW h, h = agenda[1], NEW L, IsSequence(L), Then(L),
         UNCHANGED <<abi, result, builder, linker>>, returned' \in Index,
         h[1] \notin {"modules", "primitive"},
         h[1] = "require" => cached[h[3]] # Absent,
         Expands(h, L),
         Len(L) = 0 /\ Gives(h) # NoIndex => Found(Gives(h), returned'),
         inlineExports' \subseteq Refs,
         \A ref \in inlineExports' :
           ref \in inlineExports \/ (ref.sort # "componentInstance" /\ Sound(Component, ref))
  PROVE  LinkerInv'
  <1>. USE DEF builder, linker
  <1>0. IsSequence(agenda) /\ TypeOK
    BY DEF LinkerInv, TypeOK, IsSequence
  <1>1. AgendaPlaced' /\ AgendaOrdered' /\ Chained' /\ Coming' /\ IsSequence(agenda')
    <2>1. \A c : Takes(c)' = Takes(c)
      BY DEF Takes, Exported
    <2>2. \A n \in 1..Len(L) : Supplied(L, n)'
      <3>1. \A c : NeedsTypes(c)' = NeedsTypes(c) /\ NeedsOptions(c)' = NeedsOptions(c)
        BY DEF NeedsTypes, NeedsOptions, Exported
      <3>. QED  BY <3>1 DEF Expands, Supplied, TypeComes, OptionComes
    <2>3. ASSUME Len(L) = 0, Gives(h) # NoIndex PROVE Found(Gives(h), returned)'
      <3>1. Found(Gives(h), returned')
        BY <2>3
      <3>2. Gives(h)' = Gives(h)
        BY DEF Gives, TypeEntity
      <3>. QED  BY <3>1, <3>2 DEF Found, Exporting
    <2>4. \A n \in DOMAIN definitions[Component] :
            definitions'[Component][n].seen = definitions[Component][n].seen
      OBVIOUS
    <2>5. h[1] = "require" => cached'[h[3]] # Absent
      OBVIOUS
    <2>6. \A n \in 1..Len(L) : Takes(L[n])' # NoIndex => n > 1 /\ Gives(L[n - 1]) = Takes(L[n])'
      BY <2>1 DEF Expands
    <2>. QED  BY <2>2, <2>3, <2>4, <2>5, <2>6, AgendaStep DEF Expands, LinkerInv
  <1>2. /\ Called'
        /\ \A n \in DOMAIN agenda' : agenda'[n][1] # "modules"
        /\ \A n \in DOMAIN agenda' : agenda'[n][1] = "import" => instances'[agenda'[n][3]] = Absent
    <2>1. \A c : c[3] \in Operands(c[1]) => c[3] \in Operands(c[1])'
      BY DEF Operands
    <2>2. \A n \in 1..Len(L) : L[n][2] \in Scopes /\ L[n][3] \in Operands(L[n][1])'
      BY <2>1 DEF Expands
    <2>. QED  BY <2>2, CallsStep DEF Expands, LinkerInv
  <1>3. TypeOK'
    BY <1>0, <1>1, <1>2 DEF TypeOK, IsSequence, Called
  <1>4. Counted'
    <2>1. /\ Pending' <=> Pending
          /\ \A n \in DOMAIN agenda' : agenda'[n][1] = "primitive" =>
               \E k \in DOMAIN agenda : agenda'[n] = agenda[k]
      BY <1>0, PendingStep DEF Expands, LinkerInv
    <2>. QED  BY <2>1 DEF LinkerInv, Counted, Exporting
  <1>5. Memos'
    BY DEF LinkerInv, Memos, Found, Exporting
  <1>6. Written' /\ ReferencesResolve' /\ ImportedOnce'
    <2>1. Written'
      BY DEF LinkerInv, Written, Sound, Found, Exporting
    <2>2. ReferencesResolve'
      BY DEF LinkerInv, ReferencesResolve, AfterExport
    <2>3. ImportedOnce'
      BY DEF LinkerInv, ImportedOnce
    <2>. QED  BY <2>1, <2>2, <2>3
  <1>7. Inlined'
    BY DEF LinkerInv, Inlined, Sound, Found, Exporting
  <1>8. Imports'
    BY <1>2 DEF LinkerInv, Imports
  <1>9. Started'
    <2>1. agenda' # <<>> => agenda'[1][1] # "modules"
      BY <1>0, <1>2, Positions
    <2>2. core["libc"] # Absent /\ Found(<<Component, "coreModule", <<"module", "program">>>>, 1)
      BY DEF LinkerInv, Started
    <2>. QED  BY <2>1, <2>2 DEF Started, Found, Exporting
  <1>. QED  BY <1>1, <1>3, <1>4, <1>5, <1>6, <1>7, <1>8, <1>9 DEF LinkerInv

-----------------------------------------------------------------------------
(* Expansions.                                                             *)

\* What an interface mentions contains what it exports and what that is made of.
LEMMA MentionsClosed ==
  ASSUME NEW i \in Interfaces
  PROVE  /\ Mentions(i) \subseteq Types
         /\ ToSet(ExportedTypes[i]) \subseteq Mentions(i)
         /\ \A f \in ToSet(ExportedFunctions[i]) : ToSet(Signature[f]) \subseteq Mentions(i)
         /\ \A t \in Mentions(i) : Kind[t] = "plain" => ToSet(Inner[t]) \subseteq Mentions(i)
  <1>1. Mentions(i) \subseteq Types
    BY DEF Mentions
  <1>2. /\ ToSet(ExportedTypes[i]) \subseteq Types
        /\ \A f \in ToSet(ExportedFunctions[i]) : f \in Funcs
        /\ \A f \in Funcs : ToSet(Signature[f]) \subseteq Types
        /\ \A t \in Types : ToSet(Inner[t]) \subseteq Types
    BY AbiAssumption DEF ToSet
  <1>3. ToSet(ExportedTypes[i]) \subseteq Mentions(i)
    BY <1>2 DEF Mentions, Closed
  <1>4. \A f \in ToSet(ExportedFunctions[i]) : ToSet(Signature[f]) \subseteq Mentions(i)
    BY <1>2 DEF Mentions, Closed
  <1>5. ASSUME NEW t \in Mentions(i), Kind[t] = "plain", NEW u \in ToSet(Inner[t])
        PROVE  u \in Mentions(i)
    <2>1. u \in Types
      BY <1>1, <1>2, <1>5
    <2>2. ASSUME NEW types \in SUBSET Types, Closed(i, types) PROVE u \in types
      <3>1. t \in types
        BY <2>2 DEF Mentions
      <3>. QED  BY <1>5, <2>2, <3>1 DEF Closed
    <2>. QED  BY <2>1, <2>2 DEF Mentions
  <1>. QED  BY <1>1, <1>3, <1>4, <1>5

\* What is known of the next call.
LEMMA Current ==
  ASSUME LinkerInv, agenda # <<>>, NEW h, h = Head(agenda)
  PROVE  /\ h = agenda[1] /\ IsSequence(agenda) /\ 1 \in DOMAIN agenda
         /\ h[2] \in Scopes /\ h[3] \in Operands(h[1]) /\ Placed(h) /\ returned \in Index
         /\ Takes(h) # NoIndex => Found(Takes(h), returned)
         /\ \A t \in NeedsTypes(h) : existing[h[2]][t] # Absent
         /\ \A o \in NeedsOptions(h) : cached[o] # Absent
         /\ NeedsTypes(h) \subseteq Types /\ NeedsOptions(h) \subseteq Options
         /\ h[1] = "apply" =>
              cached[h[3][2]] < definitions[Component][h[3][1]].seen[SortOf(h[3][2])]
         /\ h[1] = "apply" => cached[h[3][2]] # Absent
  <1>1. IsSequence(agenda) /\ returned \in Index
    BY DEF LinkerInv, TypeOK, IsSequence
  <1>2. h = agenda[1] /\ 1 \in DOMAIN agenda
    <2>1. agenda \in Seq(ToSet(agenda))
      BY <1>1 DEF IsSequence
    <2>2. Len(agenda) \in Nat \ {0} /\ DOMAIN agenda = 1..Len(agenda)
      BY <2>1, EmptySeq, LenProperties
    <2>. QED  BY <2>1, <2>2
  <1>3. h[2] \in Scopes /\ h[3] \in Operands(h[1]) /\ Placed(h)
    BY <1>2 DEF LinkerInv, TypeOK, AgendaPlaced
  <1>4. Takes(h) # NoIndex => Found(Takes(h), returned)
    BY <1>2 DEF LinkerInv, Chained
  <1>5. Supplied(agenda, 1)
    BY <1>2 DEF LinkerInv, Coming
  <1>6. 1..1 - 1 = {}
    OBVIOUS
  <1>7. /\ \A t \in NeedsTypes(h) : existing[h[2]][t] # Absent
        /\ \A o \in NeedsOptions(h) : cached[o] # Absent
        /\ h[1] = "apply" =>
              cached[h[3][2]] < definitions[Component][h[3][1]].seen[SortOf(h[3][2])]
        /\ h[1] = "apply" => cached[h[3][2]] # Absent
    BY <1>2, <1>5, <1>6 DEF Supplied, TypeComes, OptionComes
  <1>8. NeedsTypes(h) \subseteq Types /\ NeedsOptions(h) \subseteq Options
    BY <1>3, NeedsTyped DEF LinkerInv, TypeOK
  <1>. QED  BY <1>1, <1>2, <1>3, <1>4, <1>7, <1>8

\* A call for the same scope comes before what the one that makes it comes before.
LEMMA Inherit ==
  ASSUME NEW h, NEW c, c[2] = h[2], h[1] # "interfaceType",
         h[1] \in Typing => c[1] \in Typing, NEW d, Ordered(h, d)
  PROVE  Ordered(c, d)
  BY DEF Ordered

\* Calls for one scope may come in any order.
LEMMA ScopeWithin ==
  ASSUME NEW s \in Scopes
  PROVE  Within(s, s)
  BY DepthAssumption DEF Within, Scopes

\* Calls that need nothing and that no call before them prepares.
Free == {"type", "require", "exportType", "exportFunction", "listType", "lift"}
Follows(h, s, c) ==
  /\ c[2] = s /\ c[3] \in Operands(c[1]) /\ Placed(c)
  /\ \A d : Ordered(h, d) => Ordered(c, d)

\* A call may make no others.
LEMMA ExpandsNothing ==
  ASSUME NEW h, h[1] \in {"type", "define", "remember"} => existing[h[2]][h[3]] # Absent
  PROVE  Expands(h, <<>>) /\ IsSequence(<<>>) /\ Len(<<>>) = 0
  <1>1. Len(<<>>) = 0 /\ 1..0 = {}
    OBVIOUS
  <1>2. IsSequence(<<>>)
    BY EmptySeq DEF IsSequence
  <1>. QED  BY <1>1, <1>2 DEF Expands

\* Calls P that need nothing, and then calls M that need what P makes.
Listed(h, s, P, M) ==
  /\ IsSequence(P) /\ IsSequence(M) /\ Len(M) # 0
  /\ \A n \in 1..Len(P) : Follows(h, s, P[n]) /\ P[n][1] \in Free
  /\ \A n \in 1..Len(M) :
       Follows(h, s, M[n]) /\ M[n][1] \notin {"modules", "primitive", "import", "apply"}
  /\ \A n \in 1..Len(M) : Takes(M[n]) # NoIndex => n > 1 /\ Gives(M[n - 1]) = Takes(M[n])
  /\ \A n \in 1..Len(M) : \A t \in NeedsTypes(M[n]) :
       \E m \in 1..Len(P) : P[m][1] = "type" /\ P[m][3] = t
  /\ \A n \in 1..Len(M) : \A o \in NeedsOptions(M[n]) :
       \E m \in 1..Len(P) : P[m][1] = "require" /\ P[m][3] = o
  /\ Gives(h) # NoIndex => Gives(M[Len(M)]) = Gives(h)
  /\ h[1] \in {"type", "define", "remember"} =>
       \E m \in 1..Len(M) : TypeCall(M[m], h[2], h[3])

\* What such calls need comes before it.
LEMMA ExpandsList ==
  ASSUME NEW h, NEW s \in Scopes, NEW P, NEW M, Listed(h, s, P, M)
  PROVE  Expands(h, P \o M) /\ IsSequence(P \o M)
  <1>. DEFINE L == P \o M
  <1>0. /\ IsSequence(P \o M) /\ Len(P) \in Nat /\ Len(M) \in Nat
        /\ Len(P \o M) = Len(P) + Len(M)
        /\ \A n \in 1..Len(P \o M) :
             (P \o M)[n] = IF n <= Len(P) THEN P[n] ELSE M[n - Len(P)]
    BY Joined DEF Listed
  <1>a. /\ Len(M) # 0
        /\ \A n \in 1..Len(P) : Follows(h, s, P[n]) /\ P[n][1] \in Free
        /\ \A n \in 1..Len(M) :
             Follows(h, s, M[n]) /\ M[n][1] \notin {"modules", "primitive", "import", "apply"}
    BY DEF Listed
  <1>b. \A n \in 1..Len(M) : Takes(M[n]) # NoIndex => n > 1 /\ Gives(M[n - 1]) = Takes(M[n])
    BY DEF Listed
  <1>c. \A n \in 1..Len(M) : \A t \in NeedsTypes(M[n]) :
          \E m \in 1..Len(P) : P[m][1] = "type" /\ P[m][3] = t
    BY DEF Listed
  <1>d. \A n \in 1..Len(M) : \A o \in NeedsOptions(M[n]) :
          \E m \in 1..Len(P) : P[m][1] = "require" /\ P[m][3] = o
    BY DEF Listed
  <1>e. /\ Gives(h) # NoIndex => Gives(M[Len(M)]) = Gives(h)
        /\ h[1] \in {"type", "define", "remember"} =>
             \E m \in 1..Len(M) : TypeCall(M[m], h[2], h[3])
    BY DEF Listed
  <1>1. /\ \A n \in 1..Len(P) : n \in 1..Len(L) /\ L[n] = P[n]
        /\ \A n \in 1..Len(M) :
             n + Len(P) \in 1..Len(L) /\ L[n + Len(P)] = M[n]
    BY <1>0
  <1>2. \A n \in 1..Len(L) : \/ n \in 1..Len(P) /\ L[n] = P[n]
                             \/ \E m \in 1..Len(M) : n = m + Len(P) /\ L[n] = M[m]
    <2>1. TAKE n \in 1..Len(L)
    <2>2. CASE n <= Len(P)
      BY <1>0, <2>2
    <2>3. CASE n > Len(P)
      <3>1. n - Len(P) \in 1..Len(M) /\ n = (n - Len(P)) + Len(P) /\ ~(n <= Len(P))
        BY <1>0, <2>3
      <3>. QED  BY <1>0, <3>1
    <2>. QED  BY <1>0, <2>2, <2>3
  <1>3. \A n \in 1..Len(L) : /\ Follows(h, s, L[n])
                             /\ L[n][1] \notin {"modules", "primitive", "import", "apply"}
    BY <1>2, <1>a DEF Free
  <1>4. \A m, n \in 1..Len(L) : Ordered(L[m], L[n])
    BY <1>3, ScopeWithin DEF Ordered, Follows
  <1>5. \A n \in 1..Len(P) : Takes(P[n]) = NoIndex /\ NeedsTypes(P[n]) = {} /\ NeedsOptions(P[n]) = {}
    BY <1>a DEF Free, Takes, NeedsTypes, NeedsOptions
  <1>6. ASSUME NEW n \in 1..Len(L), Takes(L[n]) # NoIndex
        PROVE  n > 1 /\ Gives(L[n - 1]) = Takes(L[n])
    <2>1. PICK m \in 1..Len(M) : n = m + Len(P) /\ L[n] = M[m]
      BY <1>2, <1>5, <1>6
    <2>2. m > 1 /\ Gives(M[m - 1]) = Takes(M[m])
      BY <1>6, <1>b, <2>1
    <2>3. m - 1 \in 1..Len(M) /\ n > 1 /\ n - 1 = (m - 1) + Len(P)
      BY <1>0, <2>1, <2>2
    <2>. QED  BY <1>1, <2>1, <2>2, <2>3
  <1>7. ASSUME NEW n \in 1..Len(L)
        PROVE  Supplied(L, n)
    <2>1. CASE n \in 1..Len(P) /\ L[n] = P[n]
      BY <1>3, <1>5, <2>1 DEF Supplied
    <2>2. ASSUME NEW m \in 1..Len(M), n = m + Len(P), L[n] = M[m]
          PROVE  Supplied(L, n)
      <3>1. \A k \in 1..Len(P) : k \in 1..n - 1 /\ L[k] = P[k] /\ P[k][2] = s
        BY <1>0, <1>1, <1>a, <2>2 DEF Follows
      <3>2. L[n][2] = s /\ L[n][1] # "apply"
        BY <1>3 DEF Follows
      <3>3. ASSUME NEW t \in NeedsTypes(L[n])
            PROVE  existing[s][t] # Absent \/ TypeComes(L, n, s, t)
        <4>1. PICK k \in 1..Len(P) : P[k][1] = "type" /\ P[k][3] = t
          BY <1>c, <2>2, <3>3
        <4>2. k \in 1..n - 1 /\ L[k] = P[k] /\ P[k][2] = s
          BY <3>1
        <4>3. L[k][1] = "type" /\ L[k][2] = s /\ L[k][3] = t
          BY <4>1, <4>2
        <4>. QED  BY <4>2, <4>3 DEF TypeComes
      <3>4. ASSUME NEW o \in NeedsOptions(L[n])
            PROVE  cached[o] # Absent \/ OptionComes(L, n, o)
        <4>1. PICK k \in 1..Len(P) : P[k][1] = "require" /\ P[k][3] = o
          BY <1>d, <2>2, <3>4
        <4>2. k \in 1..n - 1 /\ L[k] = P[k]
          BY <3>1
        <4>3. L[k][1] = "require" /\ L[k][3] = o
          BY <4>1, <4>2
        <4>. QED  BY <4>2, <4>3 DEF OptionComes
      <3>. QED  BY <3>2, <3>3, <3>4 DEF Supplied
    <2>3. \/ n \in 1..Len(P) /\ L[n] = P[n]
          \/ \E m \in 1..Len(M) : n = m + Len(P) /\ L[n] = M[m]
      BY <1>2
    <2>. HIDE DEF L
    <2>. QED  BY <2>1, <2>2, <2>3
  <1>8. Gives(h) # NoIndex => Gives(L[Len(L)]) = Gives(h)
    <2>1. Len(M) \in 1..Len(M) /\ Len(L) = Len(M) + Len(P)
      BY <1>0, <1>a
    <2>. QED  BY <1>1, <1>e, <2>1
  <1>9. h[1] \in {"type", "define", "remember"} =>
          existing[h[2]][h[3]] # Absent \/ \E m \in 1..Len(L) : TypeCall(L[m], h[2], h[3])
    BY <1>1, <1>e
  <1>. QED  BY <1>0, <1>3, <1>4, <1>6, <1>7, <1>8, <1>9 DEF Expands, Follows

\* Sequences of one, two and three calls.
LEMMA Short ==
  /\ \A a : /\ IsSequence(<<a>>) /\ Len(<<a>>) = 1 /\ 1..Len(<<a>>) = {1} /\ <<a>>[1] = a
  /\ \A a, b : /\ IsSequence(<<a, b>>) /\ Len(<<a, b>>) = 2 /\ 1..Len(<<a, b>>) = {1, 2}
               /\ <<a, b>>[1] = a /\ <<a, b>>[2] = b /\ <<>> \o <<a, b>> = <<a, b>>
  /\ \A a, b, c : /\ IsSequence(<<a, b, c>>) /\ Len(<<a, b, c>>) = 3
                  /\ 1..Len(<<a, b, c>>) = {1, 2, 3}
                  /\ <<a, b, c>>[1] = a /\ <<a, b, c>>[2] = b /\ <<a, b, c>>[3] = c
  <1>1. \A a : <<a>> \in Seq({a})
    OBVIOUS
  <1>2. \A a, b : <<a, b>> \in Seq({a, b})
    OBVIOUS
  <1>3. \A a, b, c : <<a, b, c>> \in Seq({a, b, c})
    OBVIOUS
  <1>4. \A a, b : <<>> \o <<a, b>> = <<a, b>>
    BY <1>2, ConcatEmptySeq
  <1>5. 1..1 = {1} /\ 1..2 = {1, 2} /\ 1..3 = {1, 2, 3}
    OBVIOUS
  <1>6. \A a : IsSequence(<<a>>)
    BY <1>1, SequenceOver
  <1>7. \A a, b : IsSequence(<<a, b>>)
    BY <1>2, SequenceOver
  <1>8. \A a, b, c : IsSequence(<<a, b, c>>)
    BY <1>3, SequenceOver
  <1>9. /\ \A a : Len(<<a>>) = 1 /\ <<a>>[1] = a
        /\ \A a, b : Len(<<a, b>>) = 2 /\ <<a, b>>[1] = a /\ <<a, b>>[2] = b
        /\ \A a, b, c : /\ Len(<<a, b, c>>) = 3
                        /\ <<a, b, c>>[1] = a /\ <<a, b, c>>[2] = b /\ <<a, b, c>>[3] = c
    OBVIOUS
  <1>. QED  BY <1>4, <1>5, <1>6, <1>7, <1>8, <1>9

\* Two calls, of which the second may take what the first one returns.
LEMMA ExpandsPair ==
  ASSUME NEW h, NEW s \in Scopes, NEW a, NEW b, Follows(h, s, a), Follows(h, s, b),
         a[1] \notin {"modules", "primitive", "import", "apply"},
         b[1] \notin {"modules", "primitive", "import", "apply"},
         Takes(a) = NoIndex, Takes(b) # NoIndex => Gives(a) = Takes(b),
         NeedsTypes(a) = {}, NeedsTypes(b) = {}, NeedsOptions(a) = {}, NeedsOptions(b) = {},
         Gives(h) # NoIndex => Gives(b) = Gives(h),
         h[1] \in {"type", "define", "remember"} => TypeCall(b, h[2], h[3])
  PROVE  Expands(h, <<a, b>>) /\ IsSequence(<<a, b>>) /\ Len(<<a, b>>) = 2
  <1>. DEFINE P == <<>>  M == <<a, b>>
  <1>1. /\ IsSequence(M) /\ Len(M) = 2 /\ 1..Len(M) = {1, 2} /\ M[1] = a /\ M[2] = b
        /\ P \o M = M
    BY Short
  <1>2. IsSequence(P) /\ Len(P) = 0 /\ 1..Len(P) = {}
    BY EmptySeq DEF IsSequence
  <1>3. \A n \in 1..Len(M) : M[n] = a \/ M[n] = b
    BY <1>1
  <1>4. \A n \in 1..Len(M) : Takes(M[n]) # NoIndex => n > 1 /\ Gives(M[n - 1]) = Takes(M[n])
    BY <1>1
  <1>5. M[Len(M)] = b /\ 2 \in 1..Len(M)
    BY <1>1
  <1>6. /\ \A n \in 1..Len(M) : Follows(h, s, M[n])
        /\ \A n \in 1..Len(M) : M[n][1] \notin {"modules", "primitive", "import", "apply"}
        /\ \A n \in 1..Len(M) : NeedsTypes(M[n]) = {} /\ NeedsOptions(M[n]) = {}
    BY <1>3
  <1>7. h[1] \in {"type", "define", "remember"} =>
           \E m \in 1..Len(M) : TypeCall(M[m], h[2], h[3])
    BY <1>1, <1>5
  <1>8. Len(M) # 0 /\ (Gives(h) # NoIndex => Gives(M[Len(M)]) = Gives(h))
    BY <1>1, <1>5
  <1>10. \A n \in 1..Len(P) : FALSE
    BY <1>2
  <1>. HIDE DEF M, P
  <1>9. Expands(h, P \o M)
    <2>1. Listed(h, s, P, M)
      BY <1>1, <1>2, <1>4, <1>6, <1>7, <1>8, <1>10 DEF Listed
    <2>. QED  BY <2>1, ExpandsList
  <1>. QED  BY <1>1, <1>9 DEF M

\* Calls for the elements of a sequence, none of which needs anything.
LEMMA EachFollows ==
  ASSUME NEW h, NEW s, NEW S, NEW q \in Seq(S), NEW name \in Free,
         \A x \in ToSet(q) : Follows(h, s, Call(name, s, x))
  PROVE  /\ IsSequence(Each(name, s, q))
         /\ \A n \in 1..Len(Each(name, s, q)) :
              Follows(h, s, Each(name, s, q)[n]) /\ Each(name, s, q)[n][1] \in Free
  <1>1. /\ IsSequence(Each(name, s, q)) /\ Len(Each(name, s, q)) = Len(q)
        /\ \A n \in 1..Len(q) : Each(name, s, q)[n] = Call(name, s, q[n])
        /\ DOMAIN q = 1..Len(q)
    BY EachSequence, LenProperties
  <1>2. \A n \in 1..Len(q) : q[n] \in ToSet(q)
    BY <1>1 DEF ToSet
  <1>3. \A n \in 1..Len(q) :
          Follows(h, s, Each(name, s, q)[n]) /\ Each(name, s, q)[n][1] \in Free
    <2>1. TAKE n \in 1..Len(q)
    <2>2. Each(name, s, q)[n] = Call(name, s, q[n]) /\ Follows(h, s, Call(name, s, q[n]))
      BY <1>1, <1>2
    <2>3. Call(name, s, q[n])[1] = name
      BY DEF Call
    <2>. QED  BY <2>2, <2>3
  <1>. QED  BY <1>1, <1>3

\* There is a call for every element.
LEMMA EachMade ==
  ASSUME NEW S, NEW q \in Seq(S), NEW name, NEW s, NEW x \in ToSet(q)
  PROVE  \E m \in 1..Len(Each(name, s, q)) :
           Each(name, s, q)[m][1] = name /\ Each(name, s, q)[m][3] = x
  <1>1. /\ Len(Each(name, s, q)) = Len(q)
        /\ \A n \in 1..Len(q) : Each(name, s, q)[n] = Call(name, s, q[n])
        /\ DOMAIN q = 1..Len(q)
    BY EachSequence, LenProperties
  <1>2. PICK m \in 1..Len(q) : q[m] = x
    BY <1>1 DEF ToSet
  <1>3. Each(name, s, q)[m][1] = name /\ Each(name, s, q)[m][3] = x
    BY <1>1, <1>2 DEF Call
  <1>. QED  BY <1>1, <1>3

\* Calls of an expansion that need nothing.
Frees(h, s, P) ==
  IsSequence(P) /\ \A n \in 1..Len(P) : Follows(h, s, P[n]) /\ P[n][1] \in Free

\* Two sequences of calls that need nothing.
LEMMA BothFree ==
  ASSUME NEW h, NEW s, NEW P, NEW Q, Frees(h, s, P), Frees(h, s, Q)
  PROVE  Frees(h, s, P \o Q)
  <1>1. /\ IsSequence(P \o Q) /\ Len(P) \in Nat /\ Len(Q) \in Nat
        /\ Len(P \o Q) = Len(P) + Len(Q)
        /\ \A n \in 1..Len(P \o Q) :
             (P \o Q)[n] = IF n <= Len(P) THEN P[n] ELSE Q[n - Len(P)]
    BY Joined DEF Frees
  <1>2. ASSUME NEW n \in 1..Len(P \o Q)
        PROVE  Follows(h, s, (P \o Q)[n]) /\ (P \o Q)[n][1] \in Free
    <2>1. CASE n <= Len(P)
      <3>1. n \in 1..Len(P) /\ (P \o Q)[n] = P[n]
        BY <1>1, <2>1
      <3>. QED  BY <3>1 DEF Frees
    <2>2. CASE n > Len(P)
      <3>1. n - Len(P) \in 1..Len(Q) /\ (P \o Q)[n] = Q[n - Len(P)]
        BY <1>1, <2>2
      <3>. QED  BY <3>1 DEF Frees
    <2>. QED  BY <1>1, <2>1, <2>2
  <1>. QED  BY <1>1, <1>2 DEF Frees

\* Nothing is lost in a concatenation.
LEMMA Kept ==
  ASSUME NEW P, NEW Q, IsSequence(P), IsSequence(Q)
  PROVE  /\ \A n \in 1..Len(P) : \E m \in 1..Len(P \o Q) : (P \o Q)[m] = P[n]
         /\ \A n \in 1..Len(Q) : \E m \in 1..Len(P \o Q) : (P \o Q)[m] = Q[n]
  <1>1. /\ IsSequence(P \o Q) /\ Len(P) \in Nat /\ Len(Q) \in Nat
        /\ Len(P \o Q) = Len(P) + Len(Q)
        /\ \A n \in 1..Len(P \o Q) :
             (P \o Q)[n] = IF n <= Len(P) THEN P[n] ELSE Q[n - Len(P)]
    BY Joined
  <1>2. ASSUME NEW n \in 1..Len(P) PROVE n \in 1..Len(P \o Q) /\ (P \o Q)[n] = P[n]
    BY <1>1
  <1>3. ASSUME NEW n \in 1..Len(Q)
        PROVE  n + Len(P) \in 1..Len(P \o Q) /\ (P \o Q)[n + Len(P)] = Q[n]
    BY <1>1
  <1>. QED  BY <1>2, <1>3

\* A call that only makes others.
LEMMA ExpandStill ==
  ASSUME LinkerInv, agenda # <<>>, NEW h, h = Head(agenda), NEW L, IsSequence(L), Then(L),
         UNCHANGED <<abi, result, builder, linker, inlineExports>>, returned' \in Index,
         h[1] \notin {"modules", "primitive"},
         h[1] = "require" => cached[h[3]] # Absent,
         Expands(h, L),
         Len(L) = 0 /\ Gives(h) # NoIndex => Found(Gives(h), returned')
  PROVE  LinkerInv'
  <1>1. h = agenda[1]
    BY Current
  <1>2. inlineExports' \subseteq Refs /\ inlineExports' = inlineExports
    BY DEF LinkerInv, TypeOK
  <1>. QED  BY <1>1, <1>2, ExpandStep

\* What is in a map is returned.
LEMMA KnownStep == LinkerInv /\ Known => LinkerInv'
  <1>. SUFFICES ASSUME LinkerInv, Known, NEW h, h = Head(agenda) PROVE LinkerInv'
    OBVIOUS
  <1>1. /\ agenda # <<>> /\ Memo(h) # Absent /\ returned' = Memo(h) /\ Then(<<>>)
        /\ UNCHANGED <<abi, result, builder, linker, inlineExports>>
    BY DEF Known
  <1>2. h[2] \in Scopes /\ h[3] \in Operands(h[1])
    BY <1>1, Current
  <1>0. /\ existing \in [Scopes -> [Types -> Index]]
        /\ instances \in [Interfaces -> Index] /\ interfaces \in [Interfaces -> Index]
        /\ \A s \in Scopes : \A t \in Types : existing[s][t] # Absent =>
             Found(<<s, "componentType", TypeEntity(t)>>, existing[s][t])
        /\ \A i \in Interfaces : instances[i] # Absent =>
             Found(<<Component, "componentInstance", <<"import", i>>>>, instances[i])
        /\ \A i \in Interfaces : interfaces[i] # Absent =>
             Found(<<Component, "componentType", <<"interface", i>>>>, interfaces[i])
    BY DEF LinkerInv, TypeOK, Memos
  <1>3. h[1] \in {"type", "require", "importInstance", "interfaceType"}
    BY <1>1 DEF Memo
  <1>4. Memo(h) \in Index /\ (Gives(h) # NoIndex => Found(Gives(h), Memo(h)))
    <2>1. CASE h[1] = "type"
      <3>1. h[3] \in Types /\ Memo(h) = existing[h[2]][h[3]]
            /\ Gives(h) = <<h[2], "componentType", TypeEntity(h[3])>>
        BY <1>2, <2>1 DEF Operands, Memo, Gives
      <3>. QED  BY <1>0, <1>1, <1>2, <3>1
    <2>2. CASE h[1] = "require"
      <3>1. h[3] \in Options /\ Memo(h) = cached[h[3]] /\ Gives(h) = NoIndex
        BY <1>2, <2>2 DEF Operands, Memo, Gives
      <3>. QED  BY <3>1 DEF LinkerInv, TypeOK
    <2>3. CASE h[1] = "importInstance"
      <3>1. h[3] \in Interfaces /\ Memo(h) = instances[h[3]]
            /\ Gives(h) = <<Component, "componentInstance", <<"import", h[3]>>>>
        BY <1>2, <2>3 DEF Operands, Memo, Gives
      <3>. QED  BY <1>0, <1>1, <3>1
    <2>4. CASE h[1] = "interfaceType"
      <3>1. h[3] \in Interfaces /\ Memo(h) = interfaces[h[3]]
            /\ Gives(h) = <<Component, "componentType", <<"interface", h[3]>>>>
        BY <1>2, <2>4 DEF Operands, Memo, Gives
      <3>. QED  BY <1>0, <1>1, <3>1
    <2>. QED  BY <1>3, <2>1, <2>2, <2>3, <2>4
  <1>5. h[1] \in {"type", "define", "remember"} => existing[h[2]][h[3]] # Absent
    BY <1>1, <1>3 DEF Memo
  <1>6. h[1] = "require" => cached[h[3]] # Absent
    BY <1>1 DEF Memo
  <1>7. Expands(h, <<>>) /\ IsSequence(<<>>) /\ Len(<<>>) = 0
    BY <1>5, ExpandsNothing
  <1>. QED  BY <1>1, <1>3, <1>4, <1>6, <1>7, ExpandStill

\* The type of an interface comes before its import.
LEMMA ImportInstanceStep == LinkerInv /\ ImportInstance => LinkerInv'
  <1>. SUFFICES ASSUME LinkerInv, ImportInstance, NEW h, h = Head(agenda) PROVE LinkerInv'
    OBVIOUS
  <1>. DEFINE a == Call("interfaceType", h[2], h[3])  b == Call("import", h[2], h[3])
              L == <<a, b>>
  <1>1. /\ agenda # <<>> /\ h[1] = "importInstance" /\ instances[h[3]] = Absent /\ Then(L)
        /\ UNCHANGED <<abi, result, builder, linker, inlineExports, returned>>
    BY DEF ImportInstance, At, This, Here
  <1>2. h[2] \in Scopes /\ h[3] \in Interfaces /\ Under(h[3], h[2]) /\ returned' \in Index
    BY <1>1, Current DEF Operands, Placed
  <1>3. /\ IsSequence(L) /\ Len(L) = 2 /\ 1..Len(L) = {1, 2} /\ L[1] = a /\ L[2] = b
    BY Short
  <1>4. /\ a[1] = "interfaceType" /\ a[2] = h[2] /\ a[3] = h[3]
        /\ b[1] = "import" /\ b[2] = h[2] /\ b[3] = h[3]
    BY DEF Call
  <1>. HIDE DEF a, b, L
  <1>5. a[3] \in Operands(a[1]) /\ b[3] \in Operands(b[1])
    BY <1>2, <1>4 DEF Operands
  <1>6. Placed(a) /\ Placed(b)
    BY <1>2, <1>4 DEF Placed, TypeCalls, InterfaceTypeCalls, InterfaceCalls, Typing
  <1>7. \A d : Ordered(h, d) => Ordered(a, d) /\ Ordered(b, d)
    BY <1>1, <1>4, Inherit DEF Typing
  <1>8. Ordered(a, b)
    BY <1>2, <1>4, ScopeWithin DEF Ordered
  <1>9. Takes(a) = NoIndex /\ Gives(a) = Takes(b) /\ Gives(h) = Gives(b)
    BY <1>1, <1>4 DEF Takes, Gives, NoIndex
  <1>10. Supplied(L, 1) /\ Supplied(L, 2)
    <2>1. \A c : c = a \/ c = b => NeedsTypes(c) = {} /\ NeedsOptions(c) = {} /\ c[1] # "apply"
      BY <1>4 DEF NeedsTypes, NeedsOptions
    <2>. QED  BY <1>3, <2>1 DEF Supplied
  <1>11. \A m, n \in {1, 2} : m < n => m = 1 /\ n = 2
    OBVIOUS
  <1>12. Expands(h, L)
    <2>1. /\ \A n \in 1..Len(L) : L[n][2] \in Scopes /\ L[n][3] \in Operands(L[n][1]) /\ Placed(L[n])
          /\ \A n \in 1..Len(L) : L[n][1] \notin {"modules", "primitive"}
          /\ \A n \in 1..Len(L) : L[n][1] = "import" => instances[L[n][3]] = Absent
      BY <1>1, <1>2, <1>3, <1>4, <1>5, <1>6
    <2>2. /\ \A n \in 1..Len(L) : \A d : Ordered(h, d) => Ordered(L[n], d)
          /\ \A m, n \in 1..Len(L) : m < n => Ordered(L[m], L[n])
      BY <1>3, <1>7, <1>8, <1>11
    <2>3. \A n \in 1..Len(L) : Takes(L[n]) # NoIndex => n > 1 /\ Gives(L[n - 1]) = Takes(L[n])
      BY <1>3, <1>9
    <2>4. \A n \in 1..Len(L) : Supplied(L, n)
      BY <1>3, <1>10
    <2>5. Gives(L[Len(L)]) = Gives(h)
      BY <1>3, <1>9
    <2>6. h[1] \notin {"type", "define", "remember"}
      BY <1>1
    <2>7. h[1] \in {"type", "define", "remember"} =>
            existing[h[2]][h[3]] # Absent \/ \E m \in 1..Len(L) : TypeCall(L[m], h[2], h[3])
      BY <2>6
    <2>8. Len(L) # 0 /\ Gives(h) # NoIndex => Gives(L[Len(L)]) = Gives(h)
      BY <2>5
    <2>. QED  BY <2>1, <2>2, <2>3, <2>4, <2>7, <2>8, Zenon DEF Expands
  <1>13. /\ UNCHANGED <<abi, result, builder, linker, inlineExports>>
         /\ h[1] \notin {"modules", "primitive", "require"} /\ Len(L) # 0
    BY <1>1, <1>3
  <1>. QED  BY <1>1, <1>2, <1>3, <1>12, <1>13, ExpandStill

\* A call for the scope of the one that makes it.
LEMMA FollowsHere ==
  ASSUME NEW h, h[1] # "interfaceType", NEW name, NEW x, x \in Operands(name),
         h[1] \in Typing => name \in Typing, Placed(Call(name, h[2], x))
  PROVE  Follows(h, h[2], Call(name, h[2], x))
  <1>. DEFINE c == Call(name, h[2], x)
  <1>1. c[1] = name /\ c[2] = h[2] /\ c[3] = x
    BY DEF Call
  <1>2. \A d : Ordered(h, d) => Ordered(c, d)
    BY <1>1, Inherit
  <1>. QED  BY <1>1, <1>2 DEF Follows

\* A call that makes two others.
LEMMA PairStep ==
  ASSUME LinkerInv, agenda # <<>>, NEW h, h = Head(agenda), NEW name1, NEW name2, NEW x1, NEW x2,
         Then(<<Call(name1, h[2], x1), Call(name2, h[2], x2)>>),
         UNCHANGED <<abi, result, builder, linker, inlineExports, returned>>,
         h[1] \notin {"modules", "primitive", "require", "interfaceType"},
         h[1] \in Typing => name1 \in Typing /\ name2 \in Typing,
         x1 \in Operands(name1), x2 \in Operands(name2),
         Placed(Call(name1, h[2], x1)), Placed(Call(name2, h[2], x2)),
         name1 \notin {"modules", "primitive", "import", "apply", "define", "functionType",
                       "lower", "allocate", "canonLift"},
         name2 \notin {"modules", "primitive", "import", "apply", "define", "functionType",
                       "lower", "allocate", "canonLift"},
         Takes(Call(name1, h[2], x1)) = NoIndex,
         Takes(Call(name2, h[2], x2)) # NoIndex =>
           Gives(Call(name1, h[2], x1)) = Takes(Call(name2, h[2], x2)),
         Gives(h) # NoIndex => Gives(Call(name2, h[2], x2)) = Gives(h),
         h[1] \in {"type", "define", "remember"} => TypeCall(Call(name2, h[2], x2), h[2], h[3])
  PROVE  LinkerInv'
  <1>. DEFINE a == Call(name1, h[2], x1)  b == Call(name2, h[2], x2)
  <1>1. h[2] \in Scopes /\ returned \in Index
    BY Current
  <1>2. a[1] = name1 /\ b[1] = name2
    BY DEF Call
  <1>3. Follows(h, h[2], a) /\ Follows(h, h[2], b)
    BY FollowsHere
  <1>4. /\ NeedsTypes(a) = {} /\ NeedsTypes(b) = {} /\ NeedsOptions(a) = {} /\ NeedsOptions(b) = {}
    BY <1>2 DEF NeedsTypes, NeedsOptions
  <1>. HIDE DEF a, b
  <1>5. Expands(h, <<a, b>>) /\ IsSequence(<<a, b>>) /\ Len(<<a, b>>) = 2
    BY <1>1, <1>2, <1>3, <1>4, ExpandsPair DEF a, b
  <1>6. Then(<<a, b>>) /\ UNCHANGED <<abi, result, builder, linker, inlineExports>>
        /\ returned' \in Index
    BY <1>1 DEF a, b
  <1>7. h[1] # "require" /\ Len(<<a, b>>) # 0
    BY <1>5
  <1>. QED  BY <1>5, <1>6, <1>7, ExpandStill

\* A type is there before it is exported.
LEMMA ExportTypeStep == LinkerInv /\ ExportType => LinkerInv'
  <1>. SUFFICES ASSUME LinkerInv, ExportType, NEW h, h = Head(agenda) PROVE LinkerInv'
    OBVIOUS
  <1>. DEFINE name == IF Kind[h[3]] = "import" THEN "importFromOuter" ELSE "type"
  <1>1. /\ agenda # <<>> /\ h[1] = "exportType"
        /\ Then(<<Call(name, h[2], h[3]), Call("exportTypeEq", h[2], h[3])>>)
        /\ UNCHANGED <<abi, result, builder, linker, inlineExports, returned>>
    BY DEF ExportType, At, This, Here
  <1>2. h[3] \in Types /\ h[2] \in Interfaces /\ h[3] \in Mentions(h[2])
    BY <1>1, Current DEF Operands, Placed, InterfaceCalls, InterfaceTypeCalls
  <1>3. h[3] \in Operands(name) /\ h[3] \in Operands("exportTypeEq")
    BY <1>2 DEF Operands
  <1>4. Placed(Call(name, h[2], h[3])) /\ Placed(Call("exportTypeEq", h[2], h[3]))
    BY <1>2 DEF Placed, Call, Typing, InterfaceCalls, InterfaceTypeCalls, TypeCalls
  <1>5. /\ name \in Typing /\ "exportTypeEq" \in Typing
        /\ name \in {"importFromOuter", "type"}
    BY DEF Typing, InterfaceCalls, InterfaceTypeCalls
  <1>6. /\ Takes(Call(name, h[2], h[3])) = NoIndex
        /\ Gives(Call(name, h[2], h[3])) = Takes(Call("exportTypeEq", h[2], h[3]))
    BY <1>5 DEF Takes, Gives, Call
  <1>7. Gives(h) = NoIndex
    BY <1>1 DEF Gives
  <1>. HIDE DEF name
  <1>. QED  BY <1>1, <1>3, <1>4, <1>5, <1>6, <1>7, PairStep

\* A type of another interface is imported into the component and aliased from there.
LEMMA ImportFromOuterStep == LinkerInv /\ ImportFromOuter => LinkerInv'
  <1>. SUFFICES ASSUME LinkerInv, ImportFromOuter, NEW h, h = Head(agenda) PROVE LinkerInv'
    OBVIOUS
  <1>1. /\ agenda # <<>> /\ h[1] = "importFromOuter" /\ Home[h[3]] # h[2]
        /\ Then(<<Call("importType", h[2], h[3]), Call("outer", h[2], h[3])>>)
        /\ UNCHANGED <<abi, result, builder, linker, inlineExports, returned>>
    BY DEF ImportFromOuter, At, This, Here
  <1>2. h[3] \in Types /\ h[2] \in Interfaces /\ h[3] \in Mentions(h[2]) /\ Kind[h[3]] = "import"
    BY <1>1, Current DEF Operands, Placed, InterfaceCalls, InterfaceTypeCalls
  <1>3. h[3] \in Operands("importType") /\ h[3] \in Operands("outer")
    BY <1>2 DEF Operands
  <1>4. Under(Home[h[3]], h[2])
    BY <1>1, <1>2, DepthAssumption DEF Under
  <1>5. Placed(Call("importType", h[2], h[3])) /\ Placed(Call("outer", h[2], h[3]))
    BY <1>2, <1>4 DEF Placed, Call, Typing, InterfaceCalls, InterfaceTypeCalls, TypeCalls
  <1>6. "importType" \in Typing /\ "outer" \in Typing
    BY DEF Typing, InterfaceCalls, InterfaceTypeCalls
  <1>7. /\ Takes(Call("importType", h[2], h[3])) = NoIndex
        /\ Gives(Call("importType", h[2], h[3])) = Takes(Call("outer", h[2], h[3]))
        /\ Gives(h) = Gives(Call("outer", h[2], h[3]))
    BY <1>1 DEF Takes, Gives, Call
  <1>. QED  BY <1>1, <1>3, <1>5, <1>6, <1>7, PairStep

\* The interface of a type comes before the alias.
LEMMA ImportTypeStep == LinkerInv /\ ImportType => LinkerInv'
  <1>. SUFFICES ASSUME LinkerInv, ImportType, NEW h, h = Head(agenda) PROVE LinkerInv'
    OBVIOUS
  <1>. DEFINE i == Home[h[3]]
  <1>1. /\ agenda # <<>> /\ h[1] = "importType"
        /\ Then(<<Call("importInstance", h[2], i), Call("alias", h[2], h[3])>>)
        /\ UNCHANGED <<abi, result, builder, linker, inlineExports, returned>>
    BY DEF ImportType, At, This, Here
  <1>2. /\ h[3] \in Types /\ Kind[h[3]] # "plain" /\ Under(i, h[2])
        /\ h[2] \in Interfaces => h[3] \in Mentions(h[2])
    BY <1>1, Current DEF Operands, Placed, TypeCalls
  <1>3. i \in Interfaces
    BY <1>2, AbiAssumption
  <1>4. i \in Operands("importInstance") /\ h[3] \in Operands("alias")
    BY <1>2, <1>3 DEF Operands
  <1>5. Placed(Call("importInstance", h[2], i)) /\ Placed(Call("alias", h[2], h[3]))
    BY <1>2 DEF Placed, Call, Typing, InterfaceCalls, InterfaceTypeCalls, TypeCalls
  <1>6. "importInstance" \in Typing /\ "alias" \in Typing
    BY DEF Typing
  <1>7. /\ Takes(Call("importInstance", h[2], i)) = NoIndex
        /\ Gives(Call("importInstance", h[2], i)) = Takes(Call("alias", h[2], h[3]))
        /\ Gives(h) = Gives(Call("alias", h[2], h[3]))
    BY <1>1 DEF Takes, Gives, Call
  <1>. QED  BY <1>1, <1>4, <1>5, <1>6, <1>7, PairStep

\* A type of the same interface is another name of one that is there.
LEMMA ImportFromSameStep == LinkerInv /\ ImportFromSame => LinkerInv'
  <1>. SUFFICES ASSUME LinkerInv, ImportFromSame, NEW h, h = Head(agenda) PROVE LinkerInv'
    OBVIOUS
  <1>. DEFINE same == Same[h[3]]
  <1>1. /\ agenda # <<>> /\ h[1] = "importFromOuter" /\ same \in Types
        /\ existing[h[2]][same] # Absent /\ returned' = existing[h[2]][same]
        /\ Then(<<>>)
        /\ UNCHANGED <<abi, result, builder, linker, inlineExports>>
    BY DEF ImportFromSame, At, This, Here
  <1>2. h[3] \in Types /\ h[2] \in Scopes /\ Kind[h[3]] = "import"
    BY <1>1, Current DEF Operands, Placed
  <1>3. Root[h[3]] = Root[same]
    BY <1>1, <1>2, RootAssumption
  <1>4. /\ existing[h[2]][same] \in Index
        /\ Found(<<h[2], "componentType", TypeEntity(same)>>, existing[h[2]][same])
    BY <1>1, <1>2 DEF LinkerInv, TypeOK, Memos
  <1>5. Gives(h) = <<h[2], "componentType", TypeEntity(same)>>
    BY <1>1, <1>3 DEF Gives, TypeEntity
  <1>6. Expands(h, <<>>) /\ IsSequence(<<>>) /\ Len(<<>>) = 0
    BY <1>1, ExpandsNothing
  <1>7. Found(Gives(h), returned') /\ returned' \in Index
    BY <1>1, <1>4, <1>5
  <1>. QED  BY <1>1, <1>6, <1>7, ExpandStill

\* A call that makes calls of which the first need nothing.
LEMMA ListStep ==
  ASSUME LinkerInv, agenda # <<>>, NEW h, h = Head(agenda), NEW s \in Scopes, NEW P, NEW M,
         Listed(h, s, P, M), Then(P \o M),
         UNCHANGED <<abi, result, builder, linker, inlineExports, returned>>,
         h[1] \notin {"modules", "primitive", "require"}
  PROVE  LinkerInv'
  <1>1. Expands(h, P \o M) /\ IsSequence(P \o M)
    BY ExpandsList
  <1>2. Len(P \o M) = Len(P) + Len(M) /\ Len(P) \in Nat /\ Len(M) \in Nat
    BY Joined DEF Listed
  <1>3. Len(P \o M) # 0
    BY <1>2 DEF Listed
  <1>4. UNCHANGED <<abi, result, builder, linker, inlineExports>> /\ returned' \in Index
    BY Current
  <1>. QED  BY <1>1, <1>3, <1>4, ExpandStill

\* The types of a function come before its type, and that before its declaration.
LEMMA ExportFunctionStep == LinkerInv /\ ExportFunction => LinkerInv'
  <1>. SUFFICES ASSUME LinkerInv, ExportFunction, NEW h, h = Head(agenda) PROVE LinkerInv'
    OBVIOUS
  <1>. DEFINE q == Signature[h[3]]
              P == Each("type", h[2], q)
              a == Call("functionType", h[2], h[3])
              b == Call("declareFunction", h[2], h[3])
              M == <<a, b>>
  <1>1. /\ agenda # <<>> /\ h[1] = "exportFunction" /\ Then(P \o M)
        /\ UNCHANGED <<abi, result, builder, linker, inlineExports, returned>>
    BY DEF ExportFunction, At, This, Here
  <1>2. /\ h[2] \in Interfaces /\ h[2] \in Scopes /\ h[3] \in Funcs
        /\ ToSet(q) \subseteq Mentions(h[2])
    BY <1>1, Current DEF Operands, Placed, InterfaceCalls
  <1>3. q \in Seq(Types) /\ ToSet(q) \subseteq Types
    BY <1>2, AbiAssumption, MentionsClosed
  <1>4. \A x \in ToSet(q) : Follows(h, h[2], Call("type", h[2], x))
    <2>1. TAKE x \in ToSet(q)
    <2>2. x \in Operands("type") /\ "type" \in Typing
      BY <1>3 DEF Operands, Typing
    <2>3. Placed(Call("type", h[2], x))
      BY <1>2 DEF Placed, Call, Typing, InterfaceCalls, InterfaceTypeCalls, TypeCalls
    <2>. QED  BY <1>1, <2>2, <2>3, FollowsHere
  <1>5. /\ IsSequence(P)
        /\ \A n \in 1..Len(P) : Follows(h, h[2], P[n]) /\ P[n][1] \in Free
        /\ \A x \in ToSet(q) : \E m \in 1..Len(P) : P[m][1] = "type" /\ P[m][3] = x
    <2>1. "type" \in Free
      BY DEF Free
    <2>. HIDE DEF q
    <2>2. q \in Seq(Types)
      BY <1>3
    <2>3. \A x \in ToSet(q) : Follows(h, h[2], Call("type", h[2], x))
      BY <1>4
    <2>4. IsSequence(P)
      BY <2>1, <2>2, <2>3, EachFollows
    <2>5. \A n \in 1..Len(P) : Follows(h, h[2], P[n]) /\ P[n][1] \in Free
      BY <2>1, <2>2, <2>3, EachFollows
    <2>6. \A x \in ToSet(q) : \E m \in 1..Len(P) : P[m][1] = "type" /\ P[m][3] = x
      <3>1. TAKE x \in ToSet(q)
      <3>. QED  BY <2>2, EachMade
    <2>. QED  BY <2>4, <2>5, <2>6
  <1>6. Follows(h, h[2], a) /\ Follows(h, h[2], b)
    <2>1. h[3] \in Operands("functionType") /\ h[3] \in Operands("declareFunction")
          /\ "functionType" \in Typing /\ "declareFunction" \in Typing
      BY <1>2 DEF Operands, Typing, InterfaceCalls
    <2>2. Placed(a) /\ Placed(b)
      BY <1>2 DEF Placed, Call, Typing, InterfaceCalls, InterfaceTypeCalls, TypeCalls
    <2>. QED  BY <1>1, <2>1, <2>2, FollowsHere
  <1>7. IsSequence(M) /\ Len(M) = 2 /\ 1..Len(M) = {1, 2} /\ M[1] = a /\ M[2] = b
    BY Short
  <1>8. /\ a[1] = "functionType" /\ b[1] = "declareFunction"
        /\ Takes(a) = NoIndex /\ Gives(a) = Takes(b)
        /\ NeedsTypes(a) = ToSet(q) /\ NeedsTypes(b) = {}
        /\ NeedsOptions(a) = {} /\ NeedsOptions(b) = {}
    BY DEF Call, Takes, Gives, NeedsTypes, NeedsOptions
  <1>9. Gives(h) = NoIndex
    BY <1>1 DEF Gives
  <1>. HIDE DEF a, b, P, M, q
  <1>10. /\ \A n \in 1..Len(M) : Follows(h, h[2], M[n])
         /\ \A n \in 1..Len(M) : M[n][1] \notin {"modules", "primitive", "import", "apply"}
         /\ \A n \in 1..Len(M) : Takes(M[n]) # NoIndex => n > 1 /\ Gives(M[n - 1]) = Takes(M[n])
    BY <1>6, <1>7, <1>8
  <1>11. /\ \A n \in 1..Len(M) : \A t \in NeedsTypes(M[n]) :
              \E m \in 1..Len(P) : P[m][1] = "type" /\ P[m][3] = t
         /\ \A n \in 1..Len(M) : NeedsOptions(M[n]) = {}
    BY <1>5, <1>7, <1>8
  <1>12. Len(M) # 0
    BY <1>7
  <1>13. Listed(h, h[2], P, M)
    BY <1>1, <1>5, <1>7, <1>9, <1>10, <1>11, <1>12 DEF Listed
  <1>. QED  BY <1>1, <1>2, <1>13, ListStep

\* The types that a type is made of come before its definition.
LEMMA AddTypeStep == LinkerInv /\ AddType => LinkerInv'
  <1>. SUFFICES ASSUME LinkerInv, AddType, NEW h, h = Head(agenda) PROVE LinkerInv'
    OBVIOUS
  <1>. DEFINE t == h[3]  s == h[2]
  <1>1. /\ agenda # <<>> /\ h[1] = "type" /\ existing[s][t] = Absent
        /\ UNCHANGED <<abi, result, builder, linker, inlineExports, returned>>
    BY DEF AddType, At, This, Here
  <1>2. /\ t \in Types /\ s \in Scopes
        /\ s \in Interfaces => t \in Mentions(s)
        /\ s = Component \/ s \in Interfaces
    BY <1>1, Current DEF Operands, Placed, TypeCalls, Scopes
  <1>3. Gives(h) = <<s, "componentType", TypeEntity(t)>>
    BY <1>1 DEF Gives
  <1>4. \/ Kind[t] = "plain" /\ Then(Each("type", s, Inner[t]) \o <<Call("define", s, t)>>)
        \/ /\ Kind[t] = "import"
           /\ Then(<<Call(IF s = Component THEN "importType" ELSE "importFromOuter", s, t),
                     Call("remember", s, t)>>)
        \/ /\ Kind[t] = "resource" /\ s = Component
           /\ Then(<<Call("importType", s, t), Call("remember", s, t)>>)
    BY DEF AddType, At, This, Here
  <1>5. CASE Kind[t] = "plain" /\ Then(Each("type", s, Inner[t]) \o <<Call("define", s, t)>>)
    <2>. DEFINE q == Inner[t]
                P == Each("type", s, q)
                a == Call("define", s, t)
                M == <<a>>
    <2>1. q \in Seq(Types) /\ ToSet(q) \subseteq Types
          /\ (s \in Interfaces => ToSet(q) \subseteq Mentions(s))
      BY <1>2, <1>5, AbiAssumption, MentionsClosed DEF ToSet
    <2>2. \A x \in ToSet(q) : Follows(h, s, Call("type", s, x))
      <3>1. TAKE x \in ToSet(q)
      <3>2. x \in Operands("type") /\ "type" \in Typing
        BY <2>1 DEF Operands, Typing
      <3>3. Placed(Call("type", s, x))
        BY <2>1 DEF Placed, Call, Typing, InterfaceCalls, InterfaceTypeCalls, TypeCalls
      <3>. QED  BY <1>1, <3>2, <3>3, FollowsHere
    <2>3. /\ IsSequence(P)
          /\ \A n \in 1..Len(P) : Follows(h, s, P[n]) /\ P[n][1] \in Free
          /\ \A x \in ToSet(q) : \E m \in 1..Len(P) : P[m][1] = "type" /\ P[m][3] = x
      <3>1. "type" \in Free
        BY DEF Free
      <3>2. \A x \in ToSet(q) : \E m \in 1..Len(P) : P[m][1] = "type" /\ P[m][3] = x
        <4>1. TAKE x \in ToSet(q)
        <4>. QED  BY <2>1, EachMade
      <3>3. IsSequence(P) /\ \A n \in 1..Len(P) : Follows(h, s, P[n]) /\ P[n][1] \in Free
        BY <2>1, <2>2, <3>1, EachFollows
      <3>. QED  BY <3>2, <3>3
    <2>4. Follows(h, s, a)
      <3>1. t \in Operands("define") /\ "define" \in Typing
        BY <1>2 DEF Operands, Typing
      <3>2. Placed(a)
        BY <1>2 DEF Placed, Call, Typing, InterfaceCalls, InterfaceTypeCalls, TypeCalls
      <3>. QED  BY <1>1, <3>1, <3>2, FollowsHere
    <2>5. IsSequence(M) /\ Len(M) = 1 /\ 1..Len(M) = {1} /\ M[1] = a
      BY Short
    <2>6. /\ a[1] = "define" /\ Takes(a) = NoIndex /\ Gives(a) = Gives(h)
          /\ NeedsTypes(a) = ToSet(q) /\ NeedsOptions(a) = {} /\ TypeCall(a, s, t)
      BY <1>3 DEF Call, Takes, Gives, NeedsTypes, NeedsOptions, TypeCall
    <2>7. Then(P \o M)
      BY <1>5
    <2>. HIDE DEF a, P, M, q
    <2>8. /\ \A n \in 1..Len(M) : Follows(h, s, M[n])
          /\ \A n \in 1..Len(M) : M[n][1] \notin {"modules", "primitive", "import", "apply"}
          /\ \A n \in 1..Len(M) : Takes(M[n]) # NoIndex => n > 1 /\ Gives(M[n - 1]) = Takes(M[n])
      BY <2>4, <2>5, <2>6
    <2>9. /\ \A n \in 1..Len(M) : \A u \in NeedsTypes(M[n]) :
               \E m \in 1..Len(P) : P[m][1] = "type" /\ P[m][3] = u
          /\ \A n \in 1..Len(M) : NeedsOptions(M[n]) = {}
      BY <2>3, <2>5, <2>6
    <2>10. /\ Len(M) # 0 /\ Gives(M[Len(M)]) = Gives(h)
           /\ \E m \in 1..Len(M) : TypeCall(M[m], s, t)
      BY <2>5, <2>6
    <2>11. Listed(h, s, P, M)
      BY <2>3, <2>5, <2>8, <2>9, <2>10 DEF Listed
    <2>. QED  BY <1>1, <1>2, <2>7, <2>11, ListStep
  <1>6. ASSUME Kind[t] # "plain", NEW name \in {"importType", "importFromOuter"},
               Then(<<Call(name, s, t), Call("remember", s, t)>>),
               name = "importType" => s = Component,
               name = "importFromOuter" => s \in Interfaces /\ Kind[t] = "import"
        PROVE  LinkerInv'
    <2>1. t \in Operands(name) /\ t \in Operands("remember")
      BY <1>2 DEF Operands
    <2>2. Placed(Call(name, s, t)) /\ Placed(Call("remember", s, t))
      BY <1>2, <1>6, ComponentAssumption
         DEF Placed, Call, Under, Typing, InterfaceCalls, InterfaceTypeCalls, TypeCalls
    <2>3. name \in Typing /\ "remember" \in Typing
      BY DEF Typing, InterfaceCalls, InterfaceTypeCalls
    <2>4. /\ Takes(Call(name, s, t)) = NoIndex
          /\ Gives(Call(name, s, t)) = Takes(Call("remember", s, t))
          /\ Gives(Call("remember", s, t)) = Gives(h)
          /\ TypeCall(Call("remember", s, t), s, t)
      BY <1>3, <1>6 DEF Takes, Gives, Call, TypeCall
    <2>. QED  BY <1>1, <1>6, <2>1, <2>2, <2>3, <2>4, PairStep
  <1>7. CASE /\ Kind[t] = "import"
             /\ Then(<<Call(IF s = Component THEN "importType" ELSE "importFromOuter", s, t),
                       Call("remember", s, t)>>)
    <2>1. CASE s = Component
      <3>1. Then(<<Call("importType", s, t), Call("remember", s, t)>>)
        BY <1>7, <2>1
      <3>. QED  BY <1>6, <1>7, <2>1, <3>1
    <2>2. CASE s # Component
      <3>1. Then(<<Call("importFromOuter", s, t), Call("remember", s, t)>>)
        BY <1>7, <2>2
      <3>. QED  BY <1>2, <1>6, <1>7, <2>2, <3>1
    <2>. QED  BY <2>1, <2>2
  <1>8. CASE /\ Kind[t] = "resource" /\ s = Component
             /\ Then(<<Call("importType", s, t), Call("remember", s, t)>>)
    BY <1>6, <1>8
  <1>. QED  BY <1>4, <1>5, <1>7, <1>8

\* A call outside of types is one for the component.
LEMMA ForComponent ==
  ASSUME LinkerInv, agenda # <<>>, NEW h, h = Head(agenda), h[1] \notin Typing,
         NEW name, NEW x, x \in Operands(name), name \notin InterfaceCalls
  PROVE  h[2] = Component /\ Component \in Scopes /\ Component \notin Interfaces /\
         (Placed(Call(name, Component, x)) => Follows(h, Component, Call(name, Component, x)))
  <1>1. h[2] = Component
    BY Current DEF Placed
  <1>2. h[1] # "interfaceType"
    BY DEF Typing
  <1>3. Component \in Scopes /\ Component \notin Interfaces
    BY ComponentAssumption DEF Scopes
  <1>4. Placed(Call(name, Component, x)) => Follows(h, Component, Call(name, Component, x))
    BY <1>1, <1>2, FollowsHere
  <1>. QED  BY <1>1, <1>3, <1>4

\* Whatever is not declared in an instance type, or imported, may be called there.
LEMMA PlacedInComponent ==
  ASSUME NEW name, NEW x, name \notin InterfaceCalls, name # "importType", name # "alias"
  PROVE  Placed(Call(name, Component, x))
  BY ComponentAssumption DEF Placed, Call, Under, Typing, InterfaceCalls, InterfaceTypeCalls, TypeCalls

\* The options of an imported function come before it.
LEMMA ResolveStep == LinkerInv /\ Resolve => LinkerInv'
  <1>. SUFFICES ASSUME LinkerInv, Resolve, NEW h, h = Head(agenda) PROVE LinkerInv'
    OBVIOUS
  <1>. DEFINE k == h[3]
              import == abi.imports[k]
              q == import.options
              P == Each("require", Component, q)
              a == Call("importInstance", Component, import.interface)
              b == Call("aliasFunction", Component, k)
              c == Call("lower", Component, k)
              d == Call("allocate", Component, k)
  <1>1. /\ agenda # <<>> /\ h[1] = "resolve"
        /\ Then(P \o IF import.is = "lower" THEN <<a, b, c>> ELSE <<d>>)
        /\ UNCHANGED <<abi, result, builder, linker, inlineExports, returned>>
    BY DEF Resolve, At, This, Here, requireDefinitions
  <1>2. k \in DOMAIN abi.imports /\ abi \in Abis
    BY <1>1, Current DEF Operands, LinkerInv, TypeOK
  <1>3. q \in Seq(Options) /\ (import.is = "lower" => import.interface \in Interfaces)
    BY <1>2, AbiTyped
  <1>4. h[1] \notin Typing /\ Component \in Scopes
    BY <1>1 DEF Typing, InterfaceCalls, InterfaceTypeCalls, Scopes
  <1>5. \A x \in ToSet(q) : Follows(h, Component, Call("require", Component, x))
    <2>1. TAKE x \in ToSet(q)
    <2>2. x \in Operands("require") /\ "require" \notin InterfaceCalls
      BY <1>3 DEF Operands, InterfaceCalls, InterfaceTypeCalls, ToSet
    <2>. QED  BY <1>1, <1>4, <2>2, ForComponent, PlacedInComponent
  <1>6. "require" \in Free /\ Gives(h) = NoIndex
    BY <1>1 DEF Free, Gives
  <1>7. /\ IsSequence(P)
        /\ \A n \in 1..Len(P) : Follows(h, Component, P[n]) /\ P[n][1] \in Free
    BY <1>3, <1>5, <1>6, EachFollows
  <1>8. \A x \in ToSet(q) : \E m \in 1..Len(P) : P[m][1] = "require" /\ P[m][3] = x
    <2>1. TAKE x \in ToSet(q)
    <2>. QED  BY <1>3, EachMade
  <1>9. /\ import.is = "lower" => Follows(h, Component, b) /\ Follows(h, Component, c)
        /\ Follows(h, Component, d)
    <2>1. /\ import.is = "lower" => k \in Operands("aliasFunction") /\ k \in Operands("lower")
          /\ k \in Operands("allocate")
      BY <1>2 DEF Operands
    <2>2. /\ "aliasFunction" \notin InterfaceCalls /\ "lower" \notin InterfaceCalls
          /\ "allocate" \notin InterfaceCalls
      BY DEF InterfaceCalls, InterfaceTypeCalls
    <2>. QED  BY <1>1, <1>4, <2>1, <2>2, ForComponent, PlacedInComponent
  <1>10. import.is = "lower" => Follows(h, Component, a)
    <2>1. import.is = "lower" => import.interface \in Operands("importInstance")
      BY <1>3 DEF Operands
    <2>2. "importInstance" \notin InterfaceCalls
      BY DEF InterfaceCalls, InterfaceTypeCalls
    <2>. QED  BY <1>1, <1>4, <2>1, <2>2, ForComponent, PlacedInComponent
  <1>11. /\ a[1] = "importInstance" /\ b[1] = "aliasFunction" /\ c[1] = "lower" /\ d[1] = "allocate"
         /\ Takes(a) = NoIndex /\ Gives(a) = Takes(b) /\ Gives(b) = Takes(c) /\ Takes(d) = NoIndex
         /\ NeedsTypes(a) = {} /\ NeedsTypes(b) = {} /\ NeedsTypes(c) = {} /\ NeedsTypes(d) = {}
         /\ NeedsOptions(a) = {} /\ NeedsOptions(b) = {}
         /\ NeedsOptions(c) = ToSet(q) /\ NeedsOptions(d) = ToSet(q)
    BY DEF Call, Takes, Gives, NeedsTypes, NeedsOptions
  <1>. HIDE DEF a, b, c, d, P, q
  <1>12. CASE import.is = "lower"
    <2>. DEFINE M == <<a, b, c>>
    <2>1. /\ IsSequence(M) /\ Len(M) = 3 /\ 1..Len(M) = {1, 2, 3}
          /\ M[1] = a /\ M[2] = b /\ M[3] = c
      BY Short
    <2>2. Then(P \o M)
      BY <1>1, <1>12
    <2>. HIDE DEF M
    <2>3. /\ \A n \in 1..Len(M) : Follows(h, Component, M[n])
          /\ \A n \in 1..Len(M) : M[n][1] \notin {"modules", "primitive", "import", "apply"}
      BY <1>9, <1>10, <1>11, <1>12, <2>1
    <2>4. \A n \in 1..Len(M) : Takes(M[n]) # NoIndex => n > 1 /\ Gives(M[n - 1]) = Takes(M[n])
      BY <1>11, <2>1
    <2>5. /\ \A n \in 1..Len(M) : NeedsTypes(M[n]) = {}
          /\ \A n \in 1..Len(M) : \A o \in NeedsOptions(M[n]) :
               \E m \in 1..Len(P) : P[m][1] = "require" /\ P[m][3] = o
      BY <1>8, <1>11, <2>1
    <2>6. Len(M) # 0
      BY <2>1
    <2>7. Listed(h, Component, P, M)
      BY <1>1, <1>6, <1>7, <2>1, <2>3, <2>4, <2>5, <2>6 DEF Listed
    <2>. QED  BY <1>1, <1>4, <2>2, <2>7, ListStep
  <1>13. CASE import.is # "lower"
    <2>. DEFINE M == <<d>>
    <2>1. IsSequence(M) /\ Len(M) = 1 /\ 1..Len(M) = {1} /\ M[1] = d
      BY Short
    <2>2. Then(P \o M)
      BY <1>1, <1>13
    <2>. HIDE DEF M
    <2>3. /\ \A n \in 1..Len(M) : Follows(h, Component, M[n])
          /\ \A n \in 1..Len(M) : M[n][1] \notin {"modules", "primitive", "import", "apply"}
          /\ \A n \in 1..Len(M) : Takes(M[n]) = NoIndex
      BY <1>9, <1>11, <2>1
    <2>4. /\ \A n \in 1..Len(M) : NeedsTypes(M[n]) = {}
          /\ \A n \in 1..Len(M) : \A o \in NeedsOptions(M[n]) :
               \E m \in 1..Len(P) : P[m][1] = "require" /\ P[m][3] = o
      BY <1>8, <1>11, <2>1
    <2>5. Len(M) # 0
      BY <2>1
    <2>6. Listed(h, Component, P, M)
      BY <1>1, <1>6, <1>7, <2>1, <2>3, <2>4, <2>5 DEF Listed
    <2>. QED  BY <1>1, <1>4, <2>2, <2>6, ListStep
  <1>. QED  BY <1>12, <1>13

\* A type that an exported interface exports is mapped before it is listed.
LEMMA MapExportedStep == LinkerInv /\ MapExported => LinkerInv'
  <1>. SUFFICES ASSUME LinkerInv, MapExported, NEW h, h = Head(agenda) PROVE LinkerInv'
    OBVIOUS
  <1>1. /\ agenda # <<>> /\ h[1] = "listType"
        /\ Then(IF Kind[h[3]] = "import" THEN <<>>
                ELSE <<Call("type", Component, h[3]), Call("listed", Component, h[3])>>)
        /\ UNCHANGED <<abi, result, builder, linker, inlineExports, returned>>
    BY DEF MapExported, At, This, Here
  <1>2. h[3] \in Types /\ h[2] = Component /\ returned' \in Index
    BY <1>1, Current DEF Operands, Placed, Typing, InterfaceCalls, InterfaceTypeCalls
  <1>3. CASE Kind[h[3]] = "import"
    <2>1. Then(<<>>) /\ Gives(h) = NoIndex
      BY <1>1, <1>3 DEF Gives
    <2>2. Expands(h, <<>>) /\ IsSequence(<<>>) /\ Len(<<>>) = 0
      BY <1>1, ExpandsNothing
    <2>. QED  BY <1>1, <1>2, <2>1, <2>2, ExpandStill
  <1>4. CASE Kind[h[3]] # "import"
    <2>1. Then(<<Call("type", h[2], h[3]), Call("listed", h[2], h[3])>>)
      BY <1>1, <1>2, <1>4
    <2>2. h[3] \in Operands("type") /\ h[3] \in Operands("listed")
      BY <1>2 DEF Operands
    <2>3. "type" \notin InterfaceCalls /\ "listed" \notin InterfaceCalls
      BY DEF InterfaceCalls, InterfaceTypeCalls
    <2>4. Placed(Call("type", h[2], h[3])) /\ Placed(Call("listed", h[2], h[3]))
      BY <1>2, <2>3, PlacedInComponent
    <2>5. /\ Takes(Call("type", h[2], h[3])) = NoIndex /\ Gives(h) = NoIndex
          /\ Gives(Call("type", h[2], h[3])) = Takes(Call("listed", h[2], h[3]))
      BY <1>1, <1>2 DEF Takes, Gives, Call
    <2>6. h[1] \notin Typing
      BY <1>1 DEF Typing, InterfaceCalls, InterfaceTypeCalls
    <2>. QED  BY <1>1, <2>1, <2>2, <2>4, <2>5, <2>6, PairStep
  <1>. QED  BY <1>3, <1>4

\* The index that is listed is the one of the type.
LEMMA ListTypeStep == LinkerInv /\ ListType => LinkerInv'
  <1>. SUFFICES ASSUME LinkerInv, ListType, NEW h, h = Head(agenda) PROVE LinkerInv'
    OBVIOUS
  <1>. DEFINE r == Ref("componentType", returned, TypeEntity(h[3]))
  <1>1. /\ agenda # <<>> /\ h[1] = "listed" /\ Then(<<>>)
        /\ inlineExports' = inlineExports \cup {r}
        /\ UNCHANGED <<abi, result, builder, linker, returned>>
    BY DEF ListType, At, This, Here
  <1>2. /\ h[3] \in Types /\ returned \in Index /\ h = agenda[1]
        /\ Found(<<Component, "componentType", TypeEntity(h[3])>>, returned)
    <2>1. Takes(h) = <<Component, "componentType", TypeEntity(h[3])>>
      BY <1>1 DEF Takes
    <2>2. Takes(h) # NoIndex
      BY <2>1 DEF NoIndex
    <2>3. h = agenda[1] /\ returned \in Index /\ h[3] \in Operands(h[1])
          /\ Found(Takes(h), returned)
      BY <1>1, <2>2, Current
    <2>4. h[3] \in Types
      BY <1>1, <2>3 DEF Operands
    <2>. QED  BY <2>1, <2>3, <2>4
  <1>3. r \in Refs /\ r.sort # "componentInstance" /\ Sound(Component, r)
    <2>1. TypeEntity(h[3]) \in Entities
      BY <1>2, RootAssumption DEF TypeEntity, Entities
    <2>. QED  BY <1>2, <2>1 DEF Ref, Refs, Sorts, Sound
  <1>4. inlineExports \subseteq Refs
    BY DEF LinkerInv, TypeOK
  <1>5. Expands(h, <<>>) /\ IsSequence(<<>>) /\ Len(<<>>) = 0
    BY <1>1, ExpandsNothing
  <1>6. Gives(h) = NoIndex
    BY <1>1 DEF Gives
  <1>. HIDE DEF r
  <1>7. /\ inlineExports' \subseteq Refs
        /\ \A ref \in inlineExports' :
             ref \in inlineExports \/ (ref.sort # "componentInstance" /\ Sound(Component, ref))
    BY <1>1, <1>3, <1>4
  <1>. QED  BY <1>1, <1>2, <1>5, <1>6, <1>7, ExpandStep

\* The result alone changes nothing of it.
LEMMA StillStep ==
  ASSUME LinkerInv, result' \in {"running", "done", "illegal"},
         UNCHANGED <<abi, agenda, builder, linker, inlineExports, returned>>
  PROVE  LinkerInv'
  <1>. USE DEF builder, linker
  <1>1. TypeOK'
    <2>1. \A name : Operands(name)' = Operands(name)
      BY DEF Operands
    <2>2. ASSUME NEW n \in DOMAIN agenda'
          PROVE  (agenda[n][2] \in Scopes /\ agenda[n][3] \in Operands(agenda[n][1]))'
      <3>. SUFFICES ASSUME NEW c, c = agenda[n]
                    PROVE  c[2] \in Scopes /\ c[3] \in Operands(c[1])'
        OBVIOUS
      <3>. QED  BY <2>1, <2>2 DEF LinkerInv, TypeOK
    <2>3. Called'
      BY <2>2 DEF Called
    <2>. QED  BY <2>3 DEF LinkerInv, TypeOK, Called
  <1>2. ReferencesResolve' /\ ImportedOnce'
    BY DEF LinkerInv, ReferencesResolve, AfterExport, ImportedOnce
  <1>3. Counted' /\ Imports'
    BY DEF LinkerInv, Counted, Pending, Exporting, Imports
  <1>4. Memos'
    BY DEF LinkerInv, Memos, Found, Exporting
  <1>5. Written' /\ Inlined'
    BY DEF LinkerInv, Written, Inlined, Sound, Found, Exporting
  <1>6. Started'
    BY DEF LinkerInv, Started, Found, Exporting
  <1>7. AgendaPlaced' /\ AgendaOrdered'
    BY DEF LinkerInv, AgendaPlaced, AgendaOrdered
  <1>8. Chained'
    <2>1. \A c : Takes(c)' = Takes(c)
      BY DEF Takes, Exported, TypeEntity
    <2>2. \A what, index : Found(what, index)' <=> Found(what, index)
      BY DEF Found, Exporting
    <2>3. \A n : Takes(agenda[n])' = Takes(agenda[n])
      <3>1. \A n : agenda'[n] = agenda[n]
        OBVIOUS
      <3>. SUFFICES ASSUME NEW c PROVE Takes(c)' = Takes(c)
        OBVIOUS
      <3>. QED  BY <2>1
    <2>. QED  BY <2>1, <2>2, <2>3 DEF LinkerInv, Chained
  <1>9. Coming'
    <2>1. /\ abi' = abi /\ agenda' = agenda /\ existing' = existing /\ cached' = cached
          /\ definitions' = definitions
      OBVIOUS
    <2>2. \A c : NeedsTypes(c)' = NeedsTypes(c)
      BY <2>1 DEF NeedsTypes
    <2>3. \A c : NeedsOptions(c)' = NeedsOptions(c)
      BY <2>1 DEF NeedsOptions, Exported
    <2>4. ASSUME NEW n \in DOMAIN agenda'
          PROVE  Supplied(agenda, n)'
      <3>1. Supplied(agenda, n) /\ agenda'[n] = agenda[n]
        BY <2>1, <2>4 DEF LinkerInv, Coming
      <3>2. \A s, t : TypeComes(agenda, n, s, t)' <=> TypeComes(agenda, n, s, t)
        BY <2>1 DEF TypeComes
      <3>3. \A o : OptionComes(agenda, n, o)' <=> OptionComes(agenda, n, o)
        BY <2>1 DEF OptionComes
      <3>4. ASSUME NEW t \in NeedsTypes(agenda[n])'
            PROVE  (existing[agenda[n][2]][t] # Absent \/ TypeComes(agenda, n, agenda[n][2], t))'
        BY <2>1, <2>2, <3>1, <3>2, <3>4 DEF Supplied
      <3>5. ASSUME NEW o \in NeedsOptions(agenda[n])'
            PROVE  (cached[o] # Absent \/ OptionComes(agenda, n, o))'
        BY <2>1, <2>3, <3>1, <3>3, <3>5 DEF Supplied
      <3>6. (agenda[n][1] = "apply" =>
              LET option == agenda[n][3][2]
                  definition == definitions[Component][agenda[n][3][1]] IN
              cached[option] # Absent /\ cached[option] < definition.seen[SortOf(option)])'
        BY <2>1, <3>1 DEF Supplied
      <3>. QED  BY <3>4, <3>5, <3>6 DEF Supplied
    <2>. QED  BY <2>4 DEF Coming
  <1>. QED  BY <1>1, <1>2, <1>3, <1>4, <1>5, <1>6, <1>7, <1>8, <1>9 DEF LinkerInv

\* The end.
LEMMA EndStep == LinkerInv /\ (IllegalReference \/ Done) => LinkerInv'
  <1>. SUFFICES ASSUME LinkerInv, result' \in {"running", "done", "illegal"},
                       UNCHANGED <<abi, agenda, builder, linker, inlineExports, returned>>
                PROVE  LinkerInv'
    BY DEF IllegalReference, Done
  <1>. QED  BY StillStep

\* Options, core function, types and function type come before a lifted function.
LEMMA LiftStep == LinkerInv /\ Lift => LinkerInv'
  <1>. SUFFICES ASSUME LinkerInv, Lift, NEW h, h = Head(agenda) PROVE LinkerInv'
    OBVIOUS
  <1>. DEFINE f == Exported(h[3])
              g == f.function
              q == f.options
              types == Signature[g]
              R == Each("require", Component, q)
              r == Call("require", Component, f.name)
              N == <<r>>
              T == Each("type", Component, types)
              P == (R \o N) \o T
              a == Call("functionType", Component, g)
              b == Call("canonLift", Component, h[3])
              M == <<a, b>>
  <1>1. /\ agenda # <<>> /\ h[1] = "lift" /\ Then(P \o M)
        /\ UNCHANGED <<abi, result, builder, linker, inlineExports, returned>>
    BY DEF Lift, At, This, Here, requireDefinitions
  <1>2. /\ h[3] \in (DOMAIN abi.exports) \X Nat
        /\ h[3][2] \in DOMAIN abi.exports[h[3][1]].functions /\ abi \in Abis
    BY <1>1, Current DEF Operands, LinkerInv, TypeOK
  <1>3. g \in Funcs /\ f.name \in Options /\ q \in Seq(Options) /\ types \in Seq(Types)
    <2>1. g \in Funcs /\ f.name \in Options /\ q \in Seq(Options)
      BY <1>2, AbiTyped DEF Exported
    <2>. QED  BY <2>1, AbiAssumption
  <1>4. h[1] \notin Typing /\ Component \in Scopes /\ Gives(h) = NoIndex
    BY <1>1 DEF Typing, InterfaceCalls, InterfaceTypeCalls, Scopes, Gives
  <1>5. /\ "require" \notin InterfaceCalls /\ "type" \notin InterfaceCalls
        /\ "functionType" \notin InterfaceCalls /\ "canonLift" \notin InterfaceCalls
        /\ "require" \in Free /\ "type" \in Free
    BY DEF InterfaceCalls, InterfaceTypeCalls, Free
  <1>6. \A x \in ToSet(q) : Follows(h, Component, Call("require", Component, x))
    <2>1. TAKE x \in ToSet(q)
    <2>2. x \in Operands("require")
      BY <1>3 DEF Operands, ToSet
    <2>. QED  BY <1>1, <1>4, <1>5, <2>2, ForComponent, PlacedInComponent
  <1>7. \A x \in ToSet(types) : Follows(h, Component, Call("type", Component, x))
    <2>1. TAKE x \in ToSet(types)
    <2>2. x \in Operands("type")
      BY <1>3 DEF Operands, ToSet
    <2>. QED  BY <1>1, <1>4, <1>5, <2>2, ForComponent, PlacedInComponent
  <1>8. Follows(h, Component, r) /\ Follows(h, Component, a) /\ Follows(h, Component, b)
    <2>1. /\ f.name \in Operands("require") /\ g \in Operands("functionType")
          /\ h[3] \in Operands("canonLift")
      BY <1>2, <1>3 DEF Operands
    <2>. QED  BY <1>1, <1>4, <1>5, <2>1, ForComponent, PlacedInComponent
  <1>9. /\ r[1] = "require" /\ r[3] = f.name
        /\ a[1] = "functionType" /\ b[1] = "canonLift"
        /\ Takes(a) = NoIndex /\ Gives(a) = Takes(b)
        /\ NeedsTypes(a) = ToSet(types) /\ NeedsTypes(b) = {}
        /\ NeedsOptions(a) = {} /\ NeedsOptions(b) = ToSet(q) \cup {f.name}
    BY DEF Call, Takes, Gives, NeedsTypes, NeedsOptions
  <1>. HIDE DEF f, g, q, types, r, a, b
  <1>q. q \in Seq(Options) /\ types \in Seq(Types)
    BY <1>3
  <1>10. Frees(h, Component, R)
    BY <1>5, <1>6, <1>q, EachFollows DEF Frees
  <1>11. \A x \in ToSet(q) : \E m \in 1..Len(R) : R[m][1] = "require" /\ R[m][3] = x
    <2>1. \A p \in Seq(Options) : \A x \in ToSet(p) :
            \E m \in 1..Len(Each("require", Component, p)) :
              /\ Each("require", Component, p)[m][1] = "require"
              /\ Each("require", Component, p)[m][3] = x
      BY EachMade
    <2>. QED  BY <1>q, <2>1
  <1>12. Frees(h, Component, T)
    BY <1>5, <1>7, <1>q, EachFollows DEF Frees
  <1>13. \A x \in ToSet(types) : \E m \in 1..Len(T) : T[m][1] = "type" /\ T[m][3] = x
    <2>1. \A p \in Seq(Types) : \A x \in ToSet(p) :
            \E m \in 1..Len(Each("type", Component, p)) :
              /\ Each("type", Component, p)[m][1] = "type"
              /\ Each("type", Component, p)[m][3] = x
      BY EachMade
    <2>. QED  BY <1>q, <2>1
  <1>14. /\ IsSequence(N) /\ 1..Len(N) = {1} /\ N[1] = r
    BY Short
  <1>15. IsSequence(M) /\ Len(M) = 2 /\ 1..Len(M) = {1, 2} /\ M[1] = a /\ M[2] = b
    BY Short
  <1>. HIDE DEF R, N, T, M
  <1>16. Frees(h, Component, N)
    BY <1>5, <1>8, <1>9, <1>14 DEF Frees
  <1>. DEFINE Q == R \o N
  <1>17. Frees(h, Component, Q)
    BY <1>10, <1>16, BothFree
  <1>18. Frees(h, Component, P)
    <2>. HIDE DEF Q
    <2>1. Frees(h, Component, Q \o T)
      BY <1>12, <1>17, BothFree
    <2>. QED  BY <2>1 DEF Q
  <1>19. /\ \A n \in 1..Len(R) : \E m \in 1..Len(Q) : Q[m] = R[n]
         /\ \A n \in 1..Len(N) : \E m \in 1..Len(Q) : Q[m] = N[n]
    <2>1. IsSequence(R) /\ IsSequence(N)
      BY <1>10, <1>16 DEF Frees
    <2>. QED  BY <2>1, Kept
  <1>20. /\ \A n \in 1..Len(Q) : \E m \in 1..Len(P) : P[m] = Q[n]
         /\ \A n \in 1..Len(T) : \E m \in 1..Len(P) : P[m] = T[n]
    <2>1. IsSequence(Q) /\ IsSequence(T)
      BY <1>12, <1>17 DEF Frees
    <2>. HIDE DEF Q
    <2>2. /\ \A n \in 1..Len(Q) : \E m \in 1..Len(Q \o T) : (Q \o T)[m] = Q[n]
          /\ \A n \in 1..Len(T) : \E m \in 1..Len(Q \o T) : (Q \o T)[m] = T[n]
      BY <2>1, Kept
    <2>. QED  BY <2>2 DEF Q
  <1>. HIDE DEF P, Q
  <1>21. \A t \in ToSet(types) : \E m \in 1..Len(P) : P[m][1] = "type" /\ P[m][3] = t
    <2>1. TAKE t \in ToSet(types)
    <2>2. PICK n \in 1..Len(T) : T[n][1] = "type" /\ T[n][3] = t
      BY <1>13
    <2>. QED  BY <1>20, <2>2
  <1>22. \A o \in ToSet(q) \cup {f.name} :
           \E m \in 1..Len(P) : P[m][1] = "require" /\ P[m][3] = o
    <2>1. TAKE o \in ToSet(q) \cup {f.name}
    <2>2. CASE o \in ToSet(q)
      <3>1. PICK n \in 1..Len(R) : R[n][1] = "require" /\ R[n][3] = o
        BY <1>11, <2>2
      <3>2. PICK m \in 1..Len(Q) : Q[m] = R[n]
        BY <1>19
      <3>. QED  BY <1>20, <3>1, <3>2
    <2>3. CASE o = f.name
      <3>1. PICK m \in 1..Len(Q) : Q[m] = N[1]
        BY <1>14, <1>19
      <3>. QED  BY <1>9, <1>14, <1>20, <2>3, <3>1
    <2>. QED  BY <2>1, <2>2, <2>3
  <1>23. /\ \A n \in 1..Len(M) : Follows(h, Component, M[n])
         /\ \A n \in 1..Len(M) : M[n][1] \notin {"modules", "primitive", "import", "apply"}
         /\ \A n \in 1..Len(M) : Takes(M[n]) # NoIndex => n > 1 /\ Gives(M[n - 1]) = Takes(M[n])
    BY <1>8, <1>9, <1>15
  <1>24. \A n \in 1..Len(M) : \A t \in NeedsTypes(M[n]) :
           \E m \in 1..Len(P) : P[m][1] = "type" /\ P[m][3] = t
    BY <1>9, <1>15, <1>21
  <1>25. \A n \in 1..Len(M) : \A o \in NeedsOptions(M[n]) :
           \E m \in 1..Len(P) : P[m][1] = "require" /\ P[m][3] = o
    BY <1>9, <1>15, <1>22
  <1>26. Listed(h, Component, P, M)
    <2>1. Len(M) # 0
      BY <1>15
    <2>. QED  BY <1>1, <1>4, <1>15, <1>18, <1>23, <1>24, <1>25, <2>1 DEF Listed, Frees
  <1>. QED  BY <1>1, <1>4, <1>26, ListStep

\* What an exported interface is put together of comes before its instance.
LEMMA InstantiateStep == LinkerInv /\ Instantiate => LinkerInv'
  <1>. SUFFICES ASSUME LinkerInv, Instantiate, NEW h, h = Head(agenda) PROVE LinkerInv'
    OBVIOUS
  <1>. DEFINE export == abi.exports[h[3]]
              types == ExportedTypes[export.interface]
              T == Each("listType", Component, types)
              F == [m \in DOMAIN export.functions |-> Call("lift", Component, <<h[3], m>>)]
              P == T \o F
              a == Call("instance", Component, h[3])
              b == Call("export", Component, h[3])
              M == <<a, b>>
  <1>1. /\ agenda # <<>> /\ h[1] = "instantiate" /\ Then(P \o M) /\ inlineExports' = {}
        /\ UNCHANGED <<abi, result, builder, linker, returned>>
    BY DEF Instantiate, At, This, Here
  <1>2. h[3] \in DOMAIN abi.exports /\ abi \in Abis /\ DOMAIN abi.exports = 1..Len(abi.exports)
    BY <1>1, Current, AbiTyped DEF Operands, LinkerInv, TypeOK
  <1>3. /\ export.interface \in Interfaces /\ export.functions \in Seq(ExportedFunction)
        /\ DOMAIN export.functions = 1..Len(export.functions)
        /\ types \in Seq(Types)
    <2>1. /\ export.interface \in Interfaces /\ export.functions \in Seq(ExportedFunction)
          /\ DOMAIN export.functions = 1..Len(export.functions)
      BY <1>2, AbiTyped
    <2>. QED  BY <2>1, AbiAssumption
  <1>4. h[1] \notin Typing /\ Component \in Scopes /\ Gives(h) = NoIndex
    BY <1>1 DEF Typing, InterfaceCalls, InterfaceTypeCalls, Scopes, Gives
  <1>5. /\ "listType" \notin InterfaceCalls /\ "lift" \notin InterfaceCalls
        /\ "instance" \notin InterfaceCalls /\ "export" \notin InterfaceCalls
        /\ "listType" \in Free /\ "lift" \in Free
    BY DEF InterfaceCalls, InterfaceTypeCalls, Free
  <1>6. \A x \in ToSet(types) : Follows(h, Component, Call("listType", Component, x))
    <2>1. TAKE x \in ToSet(types)
    <2>2. x \in Operands("listType")
      BY <1>3 DEF Operands, ToSet
    <2>. QED  BY <1>1, <1>4, <1>5, <2>2, ForComponent, PlacedInComponent
  <1>7. \A m \in DOMAIN export.functions : Follows(h, Component, Call("lift", Component, <<h[3], m>>))
    <2>1. TAKE m \in DOMAIN export.functions
    <2>2. m \in Nat
      BY <1>3
    <2>3. <<h[3], m>> \in Operands("lift")
      BY <1>2, <2>2 DEF Operands
    <2>. QED  BY <1>1, <1>4, <1>5, <2>3, ForComponent, PlacedInComponent
  <1>8. Follows(h, Component, a) /\ Follows(h, Component, b)
    <2>1. h[3] \in Operands("instance") /\ h[3] \in Operands("export")
      BY <1>2 DEF Operands
    <2>. QED  BY <1>1, <1>4, <1>5, <2>1, ForComponent, PlacedInComponent
  <1>9. /\ a[1] = "instance" /\ b[1] = "export"
        /\ Takes(a) = NoIndex /\ Gives(a) = Takes(b)
        /\ NeedsTypes(a) = {} /\ NeedsTypes(b) = {}
        /\ NeedsOptions(a) = {} /\ NeedsOptions(b) = {}
    BY DEF Call, Takes, Gives, NeedsTypes, NeedsOptions
  <1>10. Frees(h, Component, T)
    <2>1. types \in Seq(Types)
      BY <1>3
    <2>. HIDE DEF types
    <2>. QED  BY <1>5, <1>6, <2>1, EachFollows DEF Frees
  <1>11. Frees(h, Component, F)
    <2>. DEFINE C == {Call("lift", Component, <<h[3], m>>) : m \in DOMAIN export.functions}
                len == Len(export.functions)
    <2>1. len \in Nat
      BY <1>3, LenProperties
    <2>a. F = [m \in 1..len |-> Call("lift", Component, <<h[3], m>>)]
      BY <1>3
    <2>b. \A m \in 1..len : Call("lift", Component, <<h[3], m>>) \in C
      BY <1>3
    <2>. HIDE DEF F, len, C
    <2>2. F \in [1..len -> C]
      BY <2>a, <2>b
    <2>3. F \in Seq(C) /\ Len(F) = len
      BY <2>1, <2>2, SeqDef
    <2>4. IsSequence(F)
      BY <2>3, SequenceOver
    <2>5. ASSUME NEW n \in 1..Len(F) PROVE Follows(h, Component, F[n]) /\ F[n][1] \in Free
      <3>1. n \in DOMAIN export.functions /\ F[n] = Call("lift", Component, <<h[3], n>>)
        BY <1>3, <2>a, <2>3, <2>5 DEF len
      <3>2. F[n][1] = "lift"
        BY <3>1 DEF Call
      <3>. QED  BY <1>5, <1>7, <3>1, <3>2
    <2>. QED  BY <2>4, <2>5 DEF Frees
  <1>12. IsSequence(M) /\ Len(M) = 2 /\ 1..Len(M) = {1, 2} /\ M[1] = a /\ M[2] = b
    BY Short
  <1>. HIDE DEF T, F, a, b, M
  <1>13. Frees(h, Component, P)
    BY <1>10, <1>11, BothFree
  <1>. HIDE DEF P
  <1>14. /\ \A n \in 1..Len(M) : Follows(h, Component, M[n])
         /\ \A n \in 1..Len(M) : M[n][1] \notin {"modules", "primitive", "import", "apply"}
         /\ \A n \in 1..Len(M) : Takes(M[n]) # NoIndex => n > 1 /\ Gives(M[n - 1]) = Takes(M[n])
         /\ \A n \in 1..Len(M) : NeedsTypes(M[n]) = {} /\ NeedsOptions(M[n]) = {}
    BY <1>8, <1>9, <1>12
  <1>15. Listed(h, Component, P, M)
    <2>1. Len(M) # 0
      BY <1>12
    <2>. QED  BY <1>1, <1>4, <1>12, <1>13, <1>14, <2>1 DEF Listed, Frees
  <1>16. Expands(h, P \o M) /\ IsSequence(P \o M)
    BY <1>4, <1>15, ExpandsList
  <1>17. Len(P \o M) # 0
    <2>1. Len(P \o M) = Len(P) + Len(M) /\ Len(P) \in Nat /\ Len(M) = 2
      BY <1>12, <1>13, Joined DEF Frees
    <2>. QED  BY <2>1
  <1>18. h = agenda[1] /\ returned \in Index
    BY <1>1, Current
  <1>19. UNCHANGED <<abi, result, builder, linker>> /\ returned' \in Index
    BY <1>1, <1>18
  <1>20. inlineExports' \subseteq Refs /\ \A ref \in inlineExports' : FALSE
    BY <1>1
  <1>21. h[1] \notin {"modules", "primitive", "require"}
    BY <1>1
  <1>. QED  BY <1>1, <1>16, <1>17, <1>18, <1>19, <1>20, <1>21, ExpandStep

-----------------------------------------------------------------------------
(* Calls that add a definition.                                            *)

\* What the maps hold is what they held, or is found.
Updated ==
  /\ existing' \in [Scopes -> [Types -> Index]]
  /\ instances' \in [Interfaces -> Index] /\ interfaces' \in [Interfaces -> Index]
  /\ cached' \in [Options -> Index] /\ core' \in [{"libc", "program"} -> Index]
  /\ \A s \in Scopes : \A t \in Types : existing'[s][t] = existing[s][t] \/
       (existing'[s][t] # Absent /\ Found(<<s, "componentType", TypeEntity(t)>>, existing[s][t])')
  /\ \A i \in Interfaces : instances'[i] = instances[i] \/
       (instances'[i] # Absent /\
        Found(<<Component, "componentInstance", <<"import", i>>>>, instances[i])')
  /\ \A i \in Interfaces : interfaces'[i] = interfaces[i] \/
       (interfaces'[i] # Absent /\
        Found(<<Component, "componentType", <<"interface", i>>>>, interfaces[i])')
  /\ \A o \in Options : cached'[o] = cached[o] \/
       (cached[o] = Absent /\ cached'[o] # Absent /\
        Found(<<Component, SortOf(o), <<"core export", o>>>>, cached[o])')
  /\ \A c \in {"libc", "program"} : core'[c] = core[c] \/
       (core'[c] # Absent /\ Found(<<Component, "coreInstance", <<"core", c>>>>, core[c])')

\* The maps hold what they held, and what has been found.
LEMMA MemosStep ==
  ASSUME Memos, space \in SpaceType, space' \in SpaceType, Grown, Updated
  PROVE  Memos'
  <1>0. /\ Component \in Scopes
        /\ {"componentType", "componentInstance", "coreInstance"} \subseteq Sorts
        /\ \A o : SortOf(o) \in Sorts
    BY DEF Scopes, Sorts, SortOf
  <1>1. ASSUME NEW s \in Scopes, NEW t \in Types, existing'[s][t] # Absent
        PROVE  Found(<<s, "componentType", TypeEntity(t)>>, existing[s][t])'
    <2>. SUFFICES ASSUME NEW new, new = existing'[s][t], new = existing[s][t]
                  PROVE  Found(<<s, "componentType", TypeEntity(t)>>, new)'
      BY <1>1 DEF Updated
    <2>1. Found(<<s, "componentType", TypeEntity(t)>>, new)
      BY <1>1 DEF Memos
    <2>2. Found(<<s, "componentType", TypeEntity(t)>>, new)'
      <3>. DEFINE means == TypeEntity(t)
      <3>. HIDE DEF means
      <3>1. Found(<<s, "componentType", means>>, new)
        BY <2>1 DEF means
      <3>2. Found(<<s, "componentType", means>>, new)'
        BY <1>0, <3>1, FoundPersists
      <3>. QED  BY <3>2 DEF means
    <2>. QED  BY <2>2
  <1>2. ASSUME NEW i \in Interfaces, instances'[i] # Absent
        PROVE  Found(<<Component, "componentInstance", <<"import", i>>>>, instances[i])'
    <2>. SUFFICES ASSUME NEW new, new = instances'[i], new = instances[i]
                  PROVE  Found(<<Component, "componentInstance", <<"import", i>>>>, new)'
      BY <1>2 DEF Updated
    <2>1. Found(<<Component, "componentInstance", <<"import", i>>>>, new)
      BY <1>2 DEF Memos
    <2>. QED  BY <1>0, <2>1, FoundPersists
  <1>3. ASSUME NEW i \in Interfaces, interfaces'[i] # Absent
        PROVE  Found(<<Component, "componentType", <<"interface", i>>>>, interfaces[i])'
    <2>. SUFFICES ASSUME NEW new, new = interfaces'[i], new = interfaces[i]
                  PROVE  Found(<<Component, "componentType", <<"interface", i>>>>, new)'
      BY <1>3 DEF Updated
    <2>1. Found(<<Component, "componentType", <<"interface", i>>>>, new)
      BY <1>3 DEF Memos
    <2>. QED  BY <1>0, <2>1, FoundPersists
  <1>4. ASSUME NEW o \in Options, cached'[o] # Absent
        PROVE  Found(<<Component, SortOf(o), <<"core export", o>>>>, cached[o])'
    <2>. SUFFICES ASSUME NEW new, new = cached'[o], new = cached[o]
                  PROVE  Found(<<Component, SortOf(o), <<"core export", o>>>>, new)'
      BY <1>4 DEF Updated
    <2>1. Found(<<Component, SortOf(o), <<"core export", o>>>>, new)
      BY <1>4 DEF Memos
    <2>. QED  BY <1>0, <2>1, FoundPersists
  <1>5. ASSUME NEW c \in {"libc", "program"}, core'[c] # Absent
        PROVE  Found(<<Component, "coreInstance", <<"core", c>>>>, core[c])'
    <2>. SUFFICES ASSUME NEW new, new = core'[c], new = core[c]
                  PROVE  Found(<<Component, "coreInstance", <<"core", c>>>>, new)'
      BY <1>5 DEF Updated
    <2>1. Found(<<Component, "coreInstance", <<"core", c>>>>, new)
      BY <1>5 DEF Memos
    <2>. QED  BY <1>0, <2>1, FoundPersists
  <1>. QED  BY <1>1, <1>2, <1>3, <1>4, <1>5 DEF Memos

\* The index that a definition takes is the one it is found at.
LEMMA FreshFound ==
  ASSUME LinkerInv, NEW scope \in Scopes, NEW sort \in Sorts, NEW entity \in Entities,
         NEW refs \in SUBSET Refs, NEW outer \in SUBSET Refs, NEW means,
         Define(scope, sort, entity, refs, outer), Denotes(entity, means),
         scope = Component /\ sort = "coreFunction" => ~Pending,
         NEW index, index = Fresh(scope, sort)
  PROVE  Found(<<scope, sort, means>>, index)' /\ index \in Index /\ index # Absent
  <1>1. /\ Len(space'[scope][sort]) = Len(space[scope][sort]) + 1
        /\ space'[scope][sort][Len(space[scope][sort]) + 1] = entity
        /\ Exporting => Exporting'
    <2>1. TypeOK /\ Add(scope, sort, entity, entity, refs, outer)
      BY DEF LinkerInv, Define
    <2>2. space'[scope][sort] = Append(space[scope][sort], entity)
          /\ space[scope][sort] \in Seq(Entities)
      BY <2>1 DEF Add, TypeOK
    <2>3. /\ Len(space'[scope][sort]) = Len(space[scope][sort]) + 1
          /\ space'[scope][sort][Len(space[scope][sort]) + 1] = entity
      BY <2>2, AppendProperties
    <2>4. Grown
      BY <2>1, Added
    <2>. QED  BY <2>3, <2>4 DEF Grown
  <1>2. Len(space[scope][sort]) \in Nat /\ index \in Nat
    BY DEF LinkerInv, TypeOK, Fresh
  <1>3. CASE sort = "componentInstance" /\ scope = Component /\ Exporting
    <2>1. index <= Len(space[scope][sort])
      BY <1>3 DEF LinkerInv, Counted, Fresh
    <2>2. index \in 0..Len(space'[scope][sort]) - 1
      BY <1>1, <1>2, <2>1
    <2>. QED  BY <1>1, <1>2, <1>3, <2>2 DEF Found, Index, Absent
  <1>4. CASE ~(sort = "componentInstance" /\ scope = Component /\ Exporting)
    <2>1. index = Len(space[scope][sort])
      <3>1. CASE scope # Component \/ sort \notin {"coreFunction", "componentInstance"}
        BY <3>1 DEF LinkerInv, Counted, Fresh
      <3>2. CASE scope = Component /\ sort = "coreFunction"
        <4>1. index = Len(space[scope][sort]) + 0
          BY <3>2 DEF LinkerInv, Counted, Fresh
        <4>. QED  BY <1>2, <4>1
      <3>3. CASE scope = Component /\ sort = "componentInstance" /\ ~Exporting
        BY <3>3 DEF LinkerInv, Counted, Fresh
      <3>. QED  BY <1>4, <3>1, <3>2, <3>3
    <2>2. index \in 0..Len(space'[scope][sort]) - 1 /\ space'[scope][sort][index + 1] = entity
      BY <1>1, <1>2, <2>1
    <2>. QED  BY <1>2, <2>2 DEF Found, Index, Absent
  <1>. QED  BY <1>3, <1>4

\* What the calls that a definition is left with are.
Applies(h, L) ==
  /\ \A n \in 1..Len(L) :
       /\ L[n][1] = "apply" /\ L[n][2] = Component /\ (L[n][3] \in Operands("apply"))'
       /\ cached'[L[n][3][2]] # Absent
       /\ cached'[L[n][3][2]] < definitions'[Component][L[n][3][1]].seen[SortOf(L[n][3][2])]
  /\ Len(L) # 0 => h[1] \notin Typing /\ h[2] = Component /\ Gives(h) = NoIndex

\* How a call that adds a definition leaves the rest.
Leaves(h, L, scope, entity) ==
  /\ abi' = abi /\ result' = result /\ IsSequence(L) /\ Then(L)
  /\ Updated /\ Applies(h, L)
  /\ h[1] \notin {"modules", "interfaceType"}
  /\ returned' \in Index /\ (Len(L) = 0 /\ Gives(h) # NoIndex => Found(Gives(h), returned)')
  /\ inlineExports' \subseteq Refs
  /\ \A ref \in inlineExports' :
       ref \in inlineExports \/ (ref.sort # "componentInstance" /\ Sound(Component, ref)')
  /\ \A i \in Interfaces : instances'[i] # instances[i] => h[1] = "import" /\ h[3] = i
  /\ \A i \in Interfaces : scope = Component /\ entity = <<"import", i>> =>
       instances[i] = Absent /\ instances'[i] # Absent
  /\ h[1] \in {"type", "define", "remember"} => existing'[h[2]][h[3]] # Absent
  /\ h[1] = "require" => cached'[h[3]] # Absent

\* A call that adds a definition, and counts it.
LEMMA AddStep ==
  ASSUME LinkerInv, agenda # <<>>, NEW h, h = Head(agenda), NEW L,
         NEW scope \in Scopes, NEW sort \in Sorts, NEW entity \in Entities, NEW found \in Entities,
         NEW refs \in SUBSET Refs, NEW outer \in SUBSET Refs,
         Add(scope, sort, entity, found, refs, outer),
         \A ref \in refs :
           Sound(scope, ref) /\ (ref.sort = "componentInstance" => scope = Component),
         \A ref \in outer : Sound(Component, ref),
         counters' \in [Scopes -> [Sorts -> Nat]], Counted',
         Leaves(h, L, scope, entity)
  PROVE  LinkerInv'
  <1>0. /\ TypeOK /\ Component \in Scopes /\ IsSequence(agenda) /\ h = agenda[1]
        /\ space \in SpaceType
    BY Current DEF LinkerInv, TypeOK, Scopes, SpaceType
  <1>1. definitions' \in [Scopes -> Seq(Definitions)] /\ space' \in SpaceType /\ Grown
    BY <1>0, Added
  <1>2. /\ \A s \in Scopes : s # scope => definitions'[s] = definitions[s]
        /\ Len(definitions'[scope]) = Len(definitions[scope]) + 1
    BY <1>0, Added
  <1>3. /\ \A n \in 1..Len(definitions[scope]) : definitions'[scope][n] = definitions[scope][n]
        /\ definitions'[scope][Len(definitions[scope]) + 1].defines = entity
    <2>. DEFINE def == [defines |-> entity, refs |-> refs, outer |-> outer,
                        seen |-> [q \in Sorts |-> Len(space[scope][q])]]
    <2>0. def.defines = entity
      OBVIOUS
    <2>a. definitions[scope] \in Seq(Definitions) /\ definitions \in [Scopes -> Seq(Definitions)]
      BY <1>0 DEF TypeOK
    <2>b. definitions' = [definitions EXCEPT ![scope] = Append(@, def)]
      BY DEF Add
    <2>. HIDE DEF def
    <2>c. definitions'[scope] = Append(definitions[scope], def)
      BY <2>a, <2>b
    <2>1. definitions'[scope][Len(definitions[scope]) + 1] = def
      BY <2>a, <2>c
    <2>2. \A n \in 1..Len(definitions[scope]) : definitions'[scope][n] = definitions[scope][n]
      BY <1>0, Added
    <2>. QED  BY <2>0, <2>1, <2>2
  <1>4. /\ \A s \in Scopes : Len(definitions[s]) \in Nat /\ DOMAIN definitions[s] = 1..Len(definitions[s])
        /\ \A s \in Scopes : DOMAIN definitions'[s] = 1..Len(definitions'[s])
    BY <1>0, <1>1 DEF TypeOK
  <1>5. \A n \in DOMAIN definitions[Component] :
          n \in DOMAIN definitions'[Component] /\ definitions'[Component][n] = definitions[Component][n]
    <2>1. CASE scope = Component
      BY <1>0, <1>2, <1>3, <1>4, <2>1
    <2>2. CASE scope # Component
      BY <1>0, <1>2, <2>2
    <2>. QED  BY <2>1, <2>2
  <1>6. abi' = abi /\ result' = result /\ IsSequence(L) /\ Then(L) /\ Updated /\ Applies(h, L)
    BY DEF Leaves
  <1>7. /\ \A n \in 1..Len(L) : L[n][1] = "apply" /\ L[n][2] = Component
        /\ \A n \in 1..Len(L) : (L[n][3] \in Operands("apply"))'
        /\ \A n \in 1..Len(L) : h[1] \notin Typing /\ h[2] = Component /\ Gives(h) = NoIndex
    <2>1. ASSUME NEW n \in 1..Len(L) PROVE Len(L) # 0
      OBVIOUS
    <2>. QED  BY <1>6, <2>1 DEF Applies
  <1>8. AgendaPlaced' /\ AgendaOrdered' /\ Chained' /\ Coming' /\ IsSequence(agenda')
    <2>1. \A n \in 1..Len(L) : Placed(L[n])
      BY <1>7 DEF Placed, TypeCalls, InterfaceTypeCalls, InterfaceCalls
    <2>2. \A n \in 1..Len(L) : \A d : Ordered(h, d) => Ordered(L[n], d)
      <3>1. TAKE n \in 1..Len(L)
      <3>2. L[n][2] = h[2] /\ h[1] \notin Typing /\ h[1] # "interfaceType"
        BY <1>7 DEF Typing
      <3>. QED  BY <3>2, Inherit
    <2>3. \A m, n \in 1..Len(L) : m < n => Ordered(L[m], L[n])
      BY <1>0, <1>7, ScopeWithin DEF Ordered
    <2>4. \A n \in 1..Len(L) : Takes(L[n])' = NoIndex
      <3>1. \A c : c[1] = "apply" => Takes(c)' = NoIndex
        BY DEF Takes
      <3>. QED  BY <1>7, <3>1
    <2>5. Gives(h) # NoIndex => IF Len(L) = 0 THEN Found(Gives(h), returned)'
                                ELSE Gives(L[Len(L)]) = Gives(h)
      <3>1. Len(L) # 0 => Gives(h) = NoIndex
        BY <1>6 DEF Applies
      <3>. QED  BY <3>1 DEF Leaves
    <2>6. \A n \in 1..Len(L) : Supplied(L, n)'
      <3>1. \A c : c[1] = "apply" => NeedsTypes(c)' = {} /\ NeedsOptions(c)' = {}
        BY DEF NeedsTypes, NeedsOptions
      <3>2. \A n \in 1..Len(L) :
              /\ cached'[L[n][3][2]] # Absent
              /\ cached'[L[n][3][2]] < definitions'[Component][L[n][3][1]].seen[SortOf(L[n][3][2])]
        BY <1>6 DEF Applies
      <3>. QED  BY <1>7, <3>1, <3>2 DEF Supplied
    <2>7. /\ \A s \in Scopes : \A t \in Types : existing[s][t] # Absent => existing'[s][t] # Absent
          /\ \A o \in Options : cached[o] # Absent => cached'[o] = cached[o]
      BY <1>6 DEF Updated
    <2>8. \A n \in DOMAIN definitions[Component] :
            definitions'[Component][n].seen = definitions[Component][n].seen
      BY <1>5
    <2>9. /\ h[1] \in {"type", "define", "remember"} => existing'[h[2]][h[3]] # Absent
          /\ h[1] = "require" => cached'[h[3]] # Absent
      BY DEF Leaves
    <2>10. AgendaPlaced /\ AgendaOrdered /\ Chained /\ Coming
      BY DEF LinkerInv
    <2>. QED  BY <1>0, <1>6, <2>1, <2>2, <2>3, <2>4, <2>5, <2>6, <2>7, <2>8, <2>9, <2>10, AgendaStep
  <1>9. /\ Called'
        /\ \A n \in DOMAIN agenda' : agenda'[n][1] # "modules"
        /\ \A n \in DOMAIN agenda' : agenda'[n][1] = "import" => instances'[agenda'[n][3]] = Absent
    <2>1. \A n \in 1..Len(L) : L[n][2] \in Scopes /\ L[n][3] \in Operands(L[n][1])'
      BY <1>0, <1>7
    <2>2. \A n \in 1..Len(L) : L[n][1] # "modules" /\ L[n][1] # "import"
      BY <1>7
    <2>3. \A i \in Interfaces : instances'[i] # instances[i] => h[1] = "import" /\ h[3] = i
      BY DEF Leaves
    <2>4. AgendaPlaced /\ AgendaOrdered /\ Imports
      BY DEF LinkerInv
    <2>. QED  BY <1>0, <1>5, <1>6, <2>1, <2>2, <2>3, <2>4, CallsStep
  <1>10. TypeOK'
    <2>1. /\ returned' \in Index /\ inlineExports' \subseteq Refs
          /\ abi' \in Abis /\ result' \in {"running", "done", "illegal"}
      BY <1>0 DEF Leaves, TypeOK
    <2>. QED  BY <1>1, <1>6, <1>8, <1>9, <2>1 DEF TypeOK, SpaceType, Called, Updated, IsSequence
  <1>11. Written' /\ ReferencesResolve'
    BY <1>0, Wrote DEF LinkerInv
  <1>12. Memos'
    BY <1>0, <1>1, <1>6, MemosStep DEF LinkerInv
  <1>13. Inlined'
    <2>. SUFFICES ASSUME NEW ref \in inlineExports'
                  PROVE  ref.sort # "componentInstance" /\ Sound(Component, ref)'
      BY DEF Inlined
    <2>1. CASE ref \in inlineExports
      <3>1. ref.sort # "componentInstance" /\ Found(<<Component, ref.sort, ref.means>>, ref.index)
        BY <2>1 DEF LinkerInv, Inlined, Sound
      <3>2. ref.sort \in Sorts
        BY <1>0, <2>1 DEF TypeOK, Refs
      <3>3. Found(<<Component, ref.sort, ref.means>>, ref.index)'
        BY <1>0, <1>1, <3>1, <3>2, FoundPersists
      <3>. QED  BY <3>1, <3>3 DEF Sound
    <2>. QED  BY <2>1 DEF Leaves
  <1>14. ASSUME NEW n \in DOMAIN definitions'[Component], n \notin DOMAIN definitions[Component]
         PROVE  scope = Component /\ definitions'[Component][n].defines = entity
                /\ n = Len(definitions[Component]) + 1
    BY <1>0, <1>2, <1>3, <1>4, <1>14
  <1>15. \A i \in Interfaces : \A n \in DOMAIN definitions[Component] :
           definitions[Component][n].defines = <<"import", i>> => instances[i] # Absent
    BY DEF LinkerInv, Imports
  <1>16. \A i \in Interfaces : scope = Component /\ entity = <<"import", i>> =>
           instances[i] = Absent /\ instances'[i] # Absent
    BY DEF Leaves
  <1>17. ImportedOnce'
    <2>. SUFFICES ASSUME NEW m \in DOMAIN definitions'[Component],
                         NEW n \in DOMAIN definitions'[Component], NEW i \in Interfaces,
                         definitions'[Component][m].defines = <<"import", i>>,
                         definitions'[Component][n].defines = <<"import", i>>
                  PROVE  m = n
      BY DEF ImportedOnce
    <2>1. CASE m \in DOMAIN definitions[Component] /\ n \in DOMAIN definitions[Component]
      BY <1>5, <2>1 DEF LinkerInv, ImportedOnce
    <2>2. CASE m \notin DOMAIN definitions[Component] /\ n \in DOMAIN definitions[Component]
      BY <1>5, <1>14, <1>15, <1>16, <2>2
    <2>3. CASE m \in DOMAIN definitions[Component] /\ n \notin DOMAIN definitions[Component]
      BY <1>5, <1>14, <1>15, <1>16, <2>3
    <2>4. CASE m \notin DOMAIN definitions[Component] /\ n \notin DOMAIN definitions[Component]
      BY <1>14, <2>4
    <2>. QED  BY <2>1, <2>2, <2>3, <2>4
  <1>18. Imports'
    <2>1. ASSUME NEW n \in DOMAIN definitions'[Component], NEW i \in Interfaces,
                 definitions'[Component][n].defines = <<"import", i>>
          PROVE  instances'[i] # Absent
      <3>1. CASE n \in DOMAIN definitions[Component]
        <4>1. instances[i] # Absent
          BY <1>5, <1>15, <2>1, <3>1
        <4>. QED  BY <1>6, <4>1 DEF Updated
      <3>2. CASE n \notin DOMAIN definitions[Component]
        BY <1>14, <1>16, <2>1, <3>2
      <3>. QED  BY <3>1, <3>2
    <2>. QED  BY <1>9, <2>1 DEF Imports
  <1>19. Started'
    <2>1. agenda' # <<>> => agenda'[1][1] # "modules"
      BY <1>0, <1>6, <1>9, Positions
    <2>2. /\ core["libc"] # Absent
          /\ Found(<<Component, "coreModule", <<"module", "program">>>>, 1)
      BY <1>0 DEF LinkerInv, Started, Leaves
    <2>3. core'["libc"] # Absent
      BY <1>6, <2>2 DEF Updated
    <2>4. Found(<<Component, "coreModule", <<"module", "program">>>>, 1)'
      <3>1. "coreModule" \in Sorts
        BY DEF Sorts
      <3>. QED  BY <1>0, <1>1, <2>2, <3>1, FoundPersists
    <2>. QED  BY <2>1, <2>3, <2>4 DEF Started
  <1>. QED  BY <1>8, <1>10, <1>11, <1>12, <1>13, <1>17, <1>18, <1>19 DEF LinkerInv

\* An index that is counted with its definition.
LEMMA CountedStep ==
  ASSUME LinkerInv, agenda # <<>>, NEW h, h = Head(agenda), NEW L,
         NEW scope \in Scopes, NEW sort \in Sorts, NEW entity \in Entities,
         NEW refs \in SUBSET Refs, NEW outer \in SUBSET Refs,
         Define(scope, sort, entity, refs, outer),
         scope = Component /\ sort = "coreFunction" => h[1] \notin Typing, h[1] # "primitive",
         Leaves(h, L, scope, entity)
  PROVE  Counted' /\ counters' \in [Scopes -> [Sorts -> Nat]]
         /\ (scope = Component /\ sort = "coreFunction" => ~Pending)
  <1>0. /\ TypeOK /\ Component \in Scopes /\ IsSequence(agenda) /\ h = agenda[1] /\ Counted
        /\ Add(scope, sort, entity, entity, refs, outer) /\ {"coreFunction", "componentInstance"} \subseteq Sorts
    BY Current DEF LinkerInv, Scopes, Define, Sorts
  <1>1. /\ \A s \in Scopes : \A q \in Sorts : s # scope \/ q # sort => space'[s][q] = space[s][q]
        /\ Grown
    <2>1. \A s \in Scopes : \A q \in Sorts : s # scope \/ q # sort => space'[s][q] = space[s][q]
      <3>1. /\ space' = [space EXCEPT ![scope][sort] = Append(@, entity)]
            /\ space \in [Scopes -> [Sorts -> Seq(Entities)]]
        BY <1>0 DEF Add, TypeOK
      <3>. QED  BY <3>1
    <2>2. Grown
      BY <1>0, Added
    <2>. QED  BY <2>1, <2>2
  <1>2. Len(space'[scope][sort]) = Len(space[scope][sort]) + 1
    <2>1. space'[scope][sort] = Append(space[scope][sort], entity)
          /\ space[scope][sort] \in Seq(Entities)
      BY <1>0 DEF Add, TypeOK
    <2>. QED  BY <2>1, AppendProperties
  <1>3. \A s \in Scopes : \A q \in Sorts : Len(space[s][q]) \in Nat
    BY <1>0 DEF TypeOK
  <1>4. counters' \in [Scopes -> [Sorts -> Nat]]
    <2>1. /\ counters' = [counters EXCEPT ![scope][sort] = @ + 1]
          /\ counters \in [Scopes -> [Sorts -> Nat]]
      BY <1>0 DEF TypeOK, Define, increment
    <2>2. [counters[scope] EXCEPT ![sort] = @ + 1] \in [Sorts -> Nat]
      BY <2>1
    <2>3. counters' = [counters EXCEPT ![scope] = [counters[scope] EXCEPT ![sort] = @ + 1]]
      BY <2>1
    <2>. QED  BY <2>1, <2>2, <2>3
  <1>5. /\ \A s \in Scopes : \A q \in Sorts : s # scope \/ q # sort => counters'[s][q] = counters[s][q]
        /\ counters'[scope][sort] = counters[scope][sort] + 1
        /\ \A s \in Scopes : \A q \in Sorts : counters[s][q] \in Nat
    BY <1>0 DEF TypeOK, Define, increment
  <1>6. IsSequence(L) /\ Then(L) /\ \A n \in 1..Len(L) : L[n][1] # "primitive"
    BY DEF Leaves, Applies
  <1>7. /\ Pending' <=> Pending
        /\ h[1] \notin Typing => Pending' = FALSE
        /\ h[1] \notin Typing => Pending = FALSE
        /\ \A n \in DOMAIN agenda' : agenda'[n][1] = "primitive" =>
              \E k \in DOMAIN agenda : agenda'[n] = agenda[k]
    BY <1>0, <1>6, PendingStep DEF LinkerInv
  <1>8. \A s \in Scopes : \A q \in Sorts :
          s # Component \/ q \notin {"coreFunction", "componentInstance"} =>
            counters'[s][q] = Len(space'[s][q])
    <2>. SUFFICES ASSUME NEW s \in Scopes, NEW q \in Sorts,
                         s # Component \/ q \notin {"coreFunction", "componentInstance"}
                  PROVE  counters'[s][q] = Len(space'[s][q])
      OBVIOUS
    <2>1. counters[s][q] = Len(space[s][q])
      BY <1>0 DEF Counted
    <2>2. CASE s = scope /\ q = sort
      BY <1>2, <1>5, <2>1, <2>2
    <2>3. CASE s # scope \/ q # sort
      BY <1>1, <1>5, <2>1, <2>3
    <2>. QED  BY <2>2, <2>3
  <1>9. counters'[Component]["coreFunction"] =
          Len(space'[Component]["coreFunction"]) + (IF Pending' THEN 1 ELSE 0)
    <2>1. counters[Component]["coreFunction"] =
            Len(space[Component]["coreFunction"]) + (IF Pending THEN 1 ELSE 0)
      BY <1>0 DEF Counted
    <2>2. CASE scope = Component /\ sort = "coreFunction"
      <3>1. Pending = FALSE /\ Pending' = FALSE
        BY <1>7, <2>2
      <3>2. /\ counters[Component]["coreFunction"] = Len(space[Component]["coreFunction"]) + 0
            /\ counters'[Component]["coreFunction"] = counters[Component]["coreFunction"] + 1
            /\ Len(space'[Component]["coreFunction"]) = Len(space[Component]["coreFunction"]) + 1
            /\ Len(space[Component]["coreFunction"]) \in Nat
        BY <1>0, <1>2, <1>3, <1>5, <2>1, <2>2, <3>1
      <3>3. counters'[Component]["coreFunction"] = Len(space'[Component]["coreFunction"]) + 0
        BY <3>2
      <3>. QED  BY <3>1, <3>3
    <2>3. CASE scope # Component \/ sort # "coreFunction"
      <3>1. /\ counters'[Component]["coreFunction"] = counters[Component]["coreFunction"]
            /\ space'[Component]["coreFunction"] = space[Component]["coreFunction"]
        BY <1>0, <1>1, <1>5, <2>3
      <3>. QED  BY <1>7, <2>1, <3>1
    <2>. QED  BY <2>2, <2>3
  <1>10. /\ counters'[Component]["componentInstance"] <= Len(space'[Component]["componentInstance"])
         /\ ~Exporting' => counters'[Component]["componentInstance"] =
                           Len(space'[Component]["componentInstance"])
    <2>1. /\ counters[Component]["componentInstance"] <= Len(space[Component]["componentInstance"])
          /\ ~Exporting => counters[Component]["componentInstance"] =
                           Len(space[Component]["componentInstance"])
      BY <1>0 DEF Counted
    <2>2. ~Exporting' => ~Exporting
      BY <1>1 DEF Grown
    <2>3. CASE scope = Component /\ sort = "componentInstance"
      <3>1. /\ counters'[Component]["componentInstance"] = counters[Component]["componentInstance"] + 1
            /\ Len(space'[Component]["componentInstance"]) = Len(space[Component]["componentInstance"]) + 1
            /\ counters[Component]["componentInstance"] \in Nat
            /\ Len(space[Component]["componentInstance"]) \in Nat
        BY <1>0, <1>2, <1>3, <1>5, <2>3
      <3>. QED  BY <2>1, <2>2, <3>1
    <2>4. CASE scope # Component \/ sort # "componentInstance"
      <3>1. /\ counters'[Component]["componentInstance"] = counters[Component]["componentInstance"]
            /\ space'[Component]["componentInstance"] = space[Component]["componentInstance"]
        BY <1>0, <1>1, <1>5, <2>4
      <3>. QED  BY <2>1, <2>2, <3>1
    <2>. QED  BY <2>3, <2>4
  <1>11. \A n \in DOMAIN agenda' : agenda'[n][1] = "primitive" =>
           agenda'[n][3][2] = Len(space'[Component]["coreFunction"])
    <2>. SUFFICES ASSUME NEW n \in DOMAIN agenda', agenda'[n][1] = "primitive"
                  PROVE  agenda'[n][3][2] = Len(space'[Component]["coreFunction"])
      OBVIOUS
    <2>1. PICK k \in DOMAIN agenda : agenda'[n] = agenda[k]
      BY <1>7
    <2>2. agenda'[n][3][2] = Len(space[Component]["coreFunction"]) /\ Pending
      BY <1>0, <2>1 DEF Counted, Pending
    <2>3. scope # Component \/ sort # "coreFunction"
      BY <1>7, <2>2
    <2>. QED  BY <1>0, <1>1, <2>2, <2>3
  <1>12. scope = Component /\ sort = "coreFunction" => ~Pending
    BY <1>7
  <1>. QED  BY <1>4, <1>8, <1>9, <1>10, <1>11, <1>12 DEF Counted

\* A call that adds a definition, which takes an index.
LEMMA DefineStep ==
  ASSUME LinkerInv, agenda # <<>>, NEW h, h = Head(agenda), NEW L,
         NEW scope \in Scopes, NEW sort \in Sorts, NEW entity \in Entities,
         NEW refs \in SUBSET Refs, NEW outer \in SUBSET Refs,
         Define(scope, sort, entity, refs, outer),
         \A ref \in refs :
           Sound(scope, ref) /\ (ref.sort = "componentInstance" => scope = Component),
         \A ref \in outer : Sound(Component, ref),
         scope = Component /\ sort = "coreFunction" => h[1] \notin Typing, h[1] # "primitive",
         Leaves(h, L, scope, entity)
  PROVE  LinkerInv'
  <1>1. Counted' /\ counters' \in [Scopes -> [Sorts -> Nat]]
    BY CountedStep
  <1>2. Add(scope, sort, entity, entity, refs, outer)
    BY DEF Define
  <1>. QED  BY <1>1, <1>2, AddStep

\* The references to types that a definition holds.
LEMMA TypeRefsSound ==
  ASSUME LinkerInv, NEW s \in Scopes, s = Here, NEW types, ToSet(types) \subseteq Types,
         \A t \in ToSet(types) : existing[s][t] # Absent
  PROVE  /\ TypeRefs(types) \in SUBSET Refs
         /\ \A ref \in TypeRefs(types) : Sound(s, ref) /\ ref.sort = "componentType"
  <1>1. ASSUME NEW t \in ToSet(types)
        PROVE  TypeRef(t) \in Refs /\ Sound(s, TypeRef(t)) /\ TypeRef(t).sort = "componentType"
    <2>1. t \in Types /\ existing[s][t] # Absent /\ existing[s][t] \in Index
      BY <1>1 DEF LinkerInv, TypeOK
    <2>2. TypeEntity(t) \in Entities /\ "componentType" \in Sorts
      BY <2>1, RootAssumption DEF TypeEntity, Entities, Sorts
    <2>3. Found(<<s, "componentType", TypeEntity(t)>>, existing[s][t])
      BY <2>1 DEF LinkerInv, Memos
    <2>4. TypeRef(t) = [sort |-> "componentType", index |-> existing[s][t], means |-> TypeEntity(t)]
      BY DEF TypeRef, Ref
    <2>. QED  BY <2>1, <2>2, <2>3, <2>4 DEF Refs, Sound
  <1>. QED  BY <1>1 DEF TypeRefs

\* A reference to an index that has been found.
LEMMA RefSound ==
  ASSUME NEW s \in Scopes, NEW sort \in Sorts, NEW index \in Index, NEW means \in Entities,
         Found(<<s, sort, means>>, index)
  PROVE  /\ Ref(sort, index, means) \in Refs /\ {Ref(sort, index, means)} \in SUBSET Refs
         /\ Ref(sort, index, means).sort = sort
         /\ Sound(s, Ref(sort, index, means))
  BY DEF Ref, Refs, Sound

\* The maps that a call does not change.
LEMMA NotUpdated ==
  ASSUME LinkerInv, UNCHANGED linker
  PROVE  Updated
  BY DEF LinkerInv, TypeOK, Updated, linker

\* A call after which nothing is left to do.
LEMMA NothingApplies ==
  ASSUME NEW h
  PROVE  Applies(h, <<>>) /\ IsSequence(<<>>) /\ Len(<<>>) = 0
  <1>1. Len(<<>>) = 0 /\ 1..0 = {}
    OBVIOUS
  <1>. QED  BY <1>1, EmptySeq DEF Applies, IsSequence

\* Without the inline exports.
LEMMA StillInlined ==
  ASSUME LinkerInv, inlineExports' = inlineExports
  PROVE  inlineExports' \subseteq Refs /\ \A ref \in inlineExports' : ref \in inlineExports
  BY DEF LinkerInv, TypeOK

\* A call that returns the index of what it defines.
LEMMA GiveStep ==
  ASSUME LinkerInv, agenda # <<>>, NEW h, h = Head(agenda),
         NEW scope \in Scopes, NEW sort \in Sorts, NEW entity \in Entities,
         NEW refs \in SUBSET Refs, NEW outer \in SUBSET Refs,
         Define(scope, sort, entity, refs, outer),
         \A ref \in refs :
           Sound(scope, ref) /\ (ref.sort = "componentInstance" => scope = Component),
         \A ref \in outer : Sound(Component, ref),
         Then(<<>>), UNCHANGED <<abi, result, linker, inlineExports>>,
         returned' = Fresh(scope, sort), Gives(h) = <<scope, sort, entity>>,
         h[1] \notin {"modules", "interfaceType", "primitive", "type", "define", "remember", "require"},
         sort # "coreFunction", entity[1] # "import"
  PROVE  LinkerInv'
  <1>1. Applies(h, <<>>) /\ IsSequence(<<>>) /\ Len(<<>>) = 0
    BY NothingApplies
  <1>2. Updated
    BY NotUpdated
  <1>3. Denotes(entity, entity)
    BY DEF Denotes
  <1>4. /\ Found(<<scope, sort, entity>>, returned)' /\ returned' \in Index
    <2>. SUFFICES ASSUME NEW index, index = Fresh(scope, sort)
                  PROVE  Found(<<scope, sort, entity>>, index)' /\ index \in Index
      OBVIOUS
    <2>. QED  BY <1>3, FreshFound
  <1>5. Found(Gives(h), returned)'
    <2>1. Gives(h)' = <<scope, sort, entity>>
      <3>1. Gives(h)' = Gives(h)
        BY DEF Gives, TypeEntity
      <3>. QED  BY <3>1
    <2>. QED  BY <1>4, <2>1
  <1>6. inlineExports' \subseteq Refs /\ \A ref \in inlineExports' : ref \in inlineExports
    BY StillInlined
  <1>7. Leaves(h, <<>>, scope, entity)
    BY <1>1, <1>2, <1>4, <1>5, <1>6 DEF Leaves, linker
  <1>. QED  BY <1>7, DefineStep

\* The type of a function refers to the types of the signature.
LEMMA FunctionTypeStep == LinkerInv /\ FunctionType => LinkerInv'
  <1>. SUFFICES ASSUME LinkerInv, FunctionType, NEW h, h = Head(agenda) PROVE LinkerInv'
    OBVIOUS
  <1>. DEFINE entity == <<"function", h[3]>>  refs == TypeRefs(Signature[h[3]])
  <1>1. /\ agenda # <<>> /\ h[1] = "functionType" /\ Then(<<>>) /\ h[2] = Here
        /\ Define(h[2], "componentType", entity, refs, {})
        /\ returned' = Fresh(h[2], "componentType")
        /\ UNCHANGED <<abi, result, linker, inlineExports>>
    BY DEF FunctionType, At, This, Here
  <1>2. /\ h[2] \in Scopes /\ h[3] \in Funcs
        /\ \A t \in ToSet(Signature[h[3]]) : existing[h[2]][t] # Absent
        /\ ToSet(Signature[h[3]]) \subseteq Types
    <2>1. NeedsTypes(h) = ToSet(Signature[h[3]])
      BY <1>1 DEF NeedsTypes
    <2>2. /\ h[2] \in Scopes /\ h[3] \in Operands(h[1])
          /\ \A t \in NeedsTypes(h) : existing[h[2]][t] # Absent
          /\ NeedsTypes(h) \subseteq Types
      BY <1>1, Current
    <2>. QED  BY <1>1, <2>1, <2>2 DEF Operands
  <1>3. refs \in SUBSET Refs /\ \A ref \in refs : Sound(h[2], ref) /\ ref.sort = "componentType"
    BY <1>1, <1>2, TypeRefsSound
  <1>4. entity \in Entities /\ "componentType" \in Sorts
    BY <1>2 DEF Entities, Sorts
  <1>5. Gives(h) = <<h[2], "componentType", entity>> /\ entity[1] = "function"
    BY <1>1 DEF Gives
  <1>. HIDE DEF entity, refs
  <1>. QED  BY <1>1, <1>2, <1>3, <1>4, <1>5, GiveStep

\* A type is aliased from the instance of its interface.
LEMMA AliasTypeStep == LinkerInv /\ AliasType => LinkerInv'
  <1>. SUFFICES ASSUME LinkerInv, AliasType, NEW h, h = Head(agenda) PROVE LinkerInv'
    OBVIOUS
  <1>. DEFINE entity == TypeEntity(h[3])
              means == <<"import", Home[h[3]]>>
              refs == {Ref("componentInstance", returned, means)}
  <1>1. /\ agenda # <<>> /\ h[1] = "alias" /\ Then(<<>>)
        /\ Define(Component, "componentType", entity, refs, {})
        /\ returned' = Fresh(Component, "componentType")
        /\ UNCHANGED <<abi, result, linker, inlineExports>>
    BY DEF AliasType, At, This, Here
  <1>2. /\ h[3] \in Types /\ Home[h[3]] \in Interfaces /\ returned \in Index
        /\ Found(<<Component, "componentInstance", means>>, returned)
    <2>1. Takes(h) = <<Component, "componentInstance", means>>
      BY <1>1 DEF Takes
    <2>2. Takes(h) # NoIndex
      BY <2>1 DEF NoIndex
    <2>3. Found(Takes(h), returned) /\ returned \in Index /\ h[3] \in Operands(h[1]) /\ Placed(h)
      BY <1>1, <2>2, Current
    <2>4. h[3] \in Types /\ Kind[h[3]] # "plain"
      BY <1>1, <2>3 DEF Operands, Placed
    <2>. QED  BY <2>1, <2>3, <2>4, AbiAssumption
  <1>3. /\ entity \in Entities /\ means \in Entities /\ Component \in Scopes
        /\ "componentType" \in Sorts /\ "componentInstance" \in Sorts
    BY <1>2, RootAssumption DEF Entities, Sorts, TypeEntity, Scopes
  <1>4. Gives(h) = <<Component, "componentType", entity>> /\ entity[1] = "type"
    BY <1>1 DEF Gives, TypeEntity
  <1>. HIDE DEF entity, means
  <1>5. refs \in SUBSET Refs /\ \A ref \in refs : Sound(Component, ref)
    BY <1>2, <1>3, RefSound
  <1>. HIDE DEF refs
  <1>. QED  BY <1>1, <1>3, <1>4, <1>5, GiveStep

\* An instance type aliases the type of the component.
LEMMA AliasOuterStep == LinkerInv /\ AliasOuter => LinkerInv'
  <1>. SUFFICES ASSUME LinkerInv, AliasOuter, NEW h, h = Head(agenda) PROVE LinkerInv'
    OBVIOUS
  <1>. DEFINE entity == TypeEntity(h[3])
              outer == {Ref("componentType", returned, entity)}
  <1>1. /\ agenda # <<>> /\ h[1] = "outer" /\ Then(<<>>)
        /\ Define(h[2], "componentType", entity, {}, outer)
        /\ returned' = Fresh(h[2], "componentType")
        /\ UNCHANGED <<abi, result, linker, inlineExports>>
    BY DEF AliasOuter, At, This, Here
  <1>2. /\ h[3] \in Types /\ h[2] \in Scopes /\ returned \in Index
        /\ Found(<<Component, "componentType", entity>>, returned)
    <2>1. Takes(h) = <<Component, "componentType", entity>>
      BY <1>1 DEF Takes
    <2>2. Takes(h) # NoIndex
      BY <2>1 DEF NoIndex
    <2>3. Found(Takes(h), returned) /\ returned \in Index /\ h[3] \in Operands(h[1]) /\ h[2] \in Scopes
      BY <1>1, <2>2, Current
    <2>4. h[3] \in Types
      BY <1>1, <2>3 DEF Operands
    <2>. QED  BY <2>1, <2>3, <2>4
  <1>3. entity \in Entities /\ Component \in Scopes /\ "componentType" \in Sorts
    BY <1>2, RootAssumption DEF Entities, Sorts, TypeEntity, Scopes
  <1>4. Gives(h) = <<h[2], "componentType", entity>> /\ entity[1] = "type"
    BY <1>1 DEF Gives, TypeEntity
  <1>. HIDE DEF entity
  <1>5. outer \in SUBSET Refs /\ \A ref \in outer : Sound(Component, ref)
    BY <1>2, <1>3, RefSound
  <1>. HIDE DEF outer
  <1>6. {} \in SUBSET Refs
    OBVIOUS
  <1>. QED  BY <1>1, <1>2, <1>3, <1>4, <1>5, <1>6, GiveStep

\* A function is aliased from the instance of its interface.
LEMMA AliasFunctionStep == LinkerInv /\ AliasFunction => LinkerInv'
  <1>. SUFFICES ASSUME LinkerInv, AliasFunction, NEW h, h = Head(agenda) PROVE LinkerInv'
    OBVIOUS
  <1>. DEFINE entity == <<"imported", h[3]>>
              means == <<"import", abi.imports[h[3]].interface>>
              refs == {Ref("componentInstance", returned, means)}
  <1>1. /\ agenda # <<>> /\ h[1] = "aliasFunction" /\ Then(<<>>)
        /\ Define(Component, "componentFunction", entity, refs, {})
        /\ returned' = Fresh(Component, "componentFunction")
        /\ UNCHANGED <<abi, result, linker, inlineExports>>
    BY DEF AliasFunction, At, This, Here
  <1>2. /\ h[3] \in DOMAIN abi.imports /\ abi.imports[h[3]].is = "lower" /\ returned \in Index
        /\ Found(<<Component, "componentInstance", means>>, returned) /\ abi \in Abis
    <2>1. Takes(h) = <<Component, "componentInstance", means>>
      BY <1>1 DEF Takes
    <2>2. Takes(h) # NoIndex
      BY <2>1 DEF NoIndex
    <2>3. Found(Takes(h), returned) /\ returned \in Index /\ h[3] \in Operands(h[1])
      BY <1>1, <2>2, Current
    <2>4. h[3] \in DOMAIN abi.imports /\ abi.imports[h[3]].is = "lower"
      BY <1>1, <2>3 DEF Operands
    <2>. QED  BY <2>1, <2>3, <2>4 DEF LinkerInv, TypeOK
  <1>3. /\ entity \in Entities /\ means \in Entities /\ Component \in Scopes
        /\ "componentFunction" \in Sorts /\ "componentInstance" \in Sorts
    <2>1. abi.imports[h[3]].interface \in Interfaces /\ h[3] \in Nat
      BY <1>2, AbiTyped
    <2>. QED  BY <2>1 DEF Entities, Sorts, Scopes
  <1>4. Gives(h) = <<Component, "componentFunction", entity>> /\ entity[1] = "imported"
    BY <1>1 DEF Gives
  <1>. HIDE DEF entity, means
  <1>5. refs \in SUBSET Refs /\ \A ref \in refs : Sound(Component, ref)
    BY <1>2, <1>3, RefSound
  <1>. HIDE DEF refs
  <1>. QED  BY <1>1, <1>3, <1>4, <1>5, GiveStep

\* What an inline instance exports is sound.
LEMMA InlineSound ==
  ASSUME LinkerInv
  PROVE  /\ inlineExports \in SUBSET Refs
         /\ \A ref \in inlineExports : Sound(Component, ref)
  BY DEF LinkerInv, TypeOK, Inlined

\* The imports of the program have been defined before their instance.
LEMMA CreateImportInstanceStep == LinkerInv /\ CreateImportInstance => LinkerInv'
  <1>. SUFFICES ASSUME LinkerInv, CreateImportInstance, NEW h, h = Head(agenda) PROVE LinkerInv'
    OBVIOUS
  <1>. DEFINE entity == <<"core", "imports">>
  <1>1. /\ agenda # <<>> /\ h[1] = "createImportInstance" /\ Then(<<>>)
        /\ Define(Component, "coreInstance", entity, inlineExports, {})
        /\ returned' = Fresh(Component, "coreInstance")
        /\ UNCHANGED <<abi, result, linker, inlineExports>>
    BY DEF CreateImportInstance, At, This, Here
  <1>2. entity \in Entities /\ Component \in Scopes /\ "coreInstance" \in Sorts
    BY DEF Entities, Sorts, Scopes
  <1>3. Gives(h) = <<Component, "coreInstance", entity>> /\ entity[1] = "core"
    BY <1>1 DEF Gives
  <1>. HIDE DEF entity
  <1>. QED  BY <1>1, <1>2, <1>3, InlineSound, GiveStep

\* What an exported interface exports has been defined before its instance.
LEMMA InstanceStep == LinkerInv /\ Instance => LinkerInv'
  <1>. SUFFICES ASSUME LinkerInv, Instance, NEW h, h = Head(agenda) PROVE LinkerInv'
    OBVIOUS
  <1>. DEFINE entity == <<"export", h[3]>>
  <1>1. /\ agenda # <<>> /\ h[1] = "instance" /\ Then(<<>>)
        /\ Define(Component, "componentInstance", entity, inlineExports, {})
        /\ returned' = Fresh(Component, "componentInstance")
        /\ UNCHANGED <<abi, result, linker, inlineExports>>
    BY DEF Instance, At, This, Here
  <1>2. entity \in Entities /\ Component \in Scopes /\ "componentInstance" \in Sorts
    <2>1. h[3] \in DOMAIN abi.exports /\ abi \in Abis
      BY <1>1, Current DEF Operands, LinkerInv, TypeOK
    <2>2. h[3] \in Nat
      BY <2>1, AbiTyped
    <2>. QED  BY <2>2 DEF Entities, Sorts, Scopes
  <1>3. Gives(h) = <<Component, "componentInstance", entity>> /\ entity[1] = "export"
    BY <1>1 DEF Gives
  <1>. HIDE DEF entity
  <1>. QED  BY <1>1, <1>2, <1>3, InlineSound, GiveStep

\* A function is declared with its own type.
LEMMA DeclareFunctionStep == LinkerInv /\ DeclareFunction => LinkerInv'
  <1>. SUFFICES ASSUME LinkerInv, DeclareFunction, NEW h, h = Head(agenda) PROVE LinkerInv'
    OBVIOUS
  <1>. DEFINE entity == <<"function", h[3]>>
              refs == {Ref("componentType", returned, entity)}
  <1>1. /\ agenda # <<>> /\ h[1] = "declareFunction" /\ Then(<<>>)
        /\ Define(h[2], "componentFunction", entity, refs, {})
        /\ UNCHANGED <<abi, result, linker, inlineExports, returned>>
    BY DEF DeclareFunction, At, This, Here
  <1>2. /\ h[3] \in Funcs /\ h[2] \in Scopes /\ h[2] \in Interfaces /\ returned \in Index
        /\ Found(<<h[2], "componentType", entity>>, returned)
    <2>1. Takes(h) = <<h[2], "componentType", entity>>
      BY <1>1 DEF Takes
    <2>2. Takes(h) # NoIndex
      BY <2>1 DEF NoIndex
    <2>3. /\ Found(Takes(h), returned) /\ returned \in Index /\ h[3] \in Operands(h[1])
          /\ h[2] \in Scopes /\ Placed(h)
      BY <1>1, <2>2, Current
    <2>4. h[3] \in Funcs /\ h[2] \in Interfaces
      BY <1>1, <2>3 DEF Operands, Placed, InterfaceCalls
    <2>. QED  BY <2>1, <2>3, <2>4
  <1>3. /\ entity \in Entities /\ "componentType" \in Sorts /\ "componentFunction" \in Sorts
        /\ entity[1] = "function"
    BY <1>2 DEF Entities, Sorts
  <1>4. Gives(h) = NoIndex
    BY <1>1 DEF Gives
  <1>. HIDE DEF entity
  <1>5. refs \in SUBSET Refs /\ \A ref \in refs : Sound(h[2], ref) /\ ref.sort = "componentType"
    BY <1>2, <1>3, RefSound
  <1>. HIDE DEF refs
  <1>6. Applies(h, <<>>) /\ IsSequence(<<>>) /\ Len(<<>>) = 0
    BY NothingApplies
  <1>7. Updated
    BY <1>1, NotUpdated
  <1>8. inlineExports' \subseteq Refs /\ \A ref \in inlineExports' : ref \in inlineExports
    BY <1>1, StillInlined
  <1>9. \A i : entity # <<"import", i>>
    BY <1>3
  <1>10. Leaves(h, <<>>, h[2], entity)
    BY <1>1, <1>2, <1>4, <1>6, <1>7, <1>8, <1>9 DEF Leaves, linker
  <1>11. {} \in SUBSET Refs
    OBVIOUS
  <1>. QED  BY <1>1, <1>2, <1>3, <1>5, <1>10, <1>11, DefineStep

\* A type is remembered.
LEMMA ExistingUpdated ==
  ASSUME LinkerInv, NEW s \in Scopes, NEW t \in Types, NEW index \in Index, index # Absent,
         existing' = [existing EXCEPT ![s][t] = index],
         Found(<<s, "componentType", TypeEntity(t)>>, index)',
         UNCHANGED <<instances, interfaces, cached, core>>
  PROVE  Updated /\ existing'[s][t] # Absent
  <1>1. existing \in [Scopes -> [Types -> Index]]
    BY DEF LinkerInv, TypeOK
  <1>2. /\ \A r \in Scopes : \A u \in Types :
             existing'[r][u] = IF r = s /\ u = t THEN index ELSE existing[r][u]
        /\ existing' \in [Scopes -> [Types -> Index]]
    <2>1. [existing[s] EXCEPT ![t] = index] \in [Types -> Index]
      BY <1>1
    <2>2. existing' = [existing EXCEPT ![s] = [existing[s] EXCEPT ![t] = index]]
      BY <1>1
    <2>3. existing' \in [Scopes -> [Types -> Index]]
      BY <1>1, <2>1, <2>2
    <2>4. \A r \in Scopes : \A u \in Types :
             existing'[r][u] = IF r = s /\ u = t THEN index ELSE existing[r][u]
      BY <1>1
    <2>. QED  BY <2>3, <2>4
  <1>3. ASSUME NEW r \in Scopes, NEW u \in Types
        PROVE  existing'[r][u] = existing[r][u] \/
                 (existing'[r][u] # Absent /\
                  Found(<<r, "componentType", TypeEntity(u)>>, existing[r][u])')
    <2>1. CASE r = s /\ u = t
      <3>1. existing'[r][u] = index
        BY <1>2, <2>1
      <3>. SUFFICES ASSUME NEW new, new = existing'[r][u]
                    PROVE  Found(<<r, "componentType", TypeEntity(u)>>, new)'
        BY <3>1
      <3>. QED  BY <2>1, <3>1
    <2>2. CASE ~(r = s /\ u = t)
      <3>1. existing'[r][u] = existing[r][u]
        BY <1>2, <2>2
      <3>. QED  BY <3>1
    <2>. QED  BY <2>1, <2>2
  <1>. QED  BY <1>2, <1>3 DEF LinkerInv, TypeOK, Updated

\* A call that remembers the index of what it defines.
LEMMA RecordStep ==
  ASSUME LinkerInv, agenda # <<>>, NEW h, h = Head(agenda),
         h[1] \in {"exportType", "exportTypeEq", "define"},
         NEW entity \in Entities, NEW refs \in SUBSET Refs,
         Define(h[2], "componentType", entity, refs, {}),
         \A ref \in refs : Sound(h[2], ref) /\ ref.sort # "componentInstance",
         Denotes(entity, TypeEntity(h[3])), entity[1] # "import",
         existing' = [existing EXCEPT ![h[2]][h[3]] = Fresh(h[2], "componentType")],
         Then(<<>>), UNCHANGED <<abi, result, instances, interfaces, cached, core, inlineExports>>,
         returned' = IF h[1] = "define" THEN Fresh(h[2], "componentType") ELSE returned
  PROVE  LinkerInv'
  <1>1. h[2] \in Scopes /\ h[3] \in Types /\ returned \in Index /\ "componentType" \in Sorts
    BY Current DEF Operands, Sorts
  <1>. SUFFICES ASSUME NEW index, index = Fresh(h[2], "componentType")
                PROVE  LinkerInv'
    OBVIOUS
  <1>2. Found(<<h[2], "componentType", TypeEntity(h[3])>>, index)' /\ index \in Index /\ index # Absent
    <2>. DEFINE means == TypeEntity(h[3])
    <2>0. {} \in SUBSET Refs
      OBVIOUS
    <2>. HIDE DEF means
    <2>1. Denotes(entity, means)
      BY DEF means
    <2>2. Found(<<h[2], "componentType", means>>, index)' /\ index \in Index /\ index # Absent
      BY <1>1, <2>0, <2>1, FreshFound
    <2>. QED  BY <2>2 DEF means
  <1>3. Updated /\ existing'[h[2]][h[3]] # Absent
    BY <1>1, <1>2, ExistingUpdated
  <1>4. Applies(h, <<>>) /\ IsSequence(<<>>) /\ Len(<<>>) = 0
    BY NothingApplies
  <1>5. returned' \in Index /\ (Gives(h) # NoIndex => Found(Gives(h), returned)')
    <2>1. CASE h[1] = "define"
      <3>1. Gives(h)' = <<h[2], "componentType", TypeEntity(h[3])>>'
        BY <2>1 DEF Gives, TypeEntity
      <3>2. returned' = index
        BY <2>1
      <3>. SUFFICES ASSUME NEW new, new = returned', new = index, NEW what, what = Gives(h)'
                    PROVE  Found(what, new)' /\ new \in Index
        BY <3>2
      <3>. QED  BY <1>2, <3>1
    <2>2. CASE h[1] # "define"
      <3>1. Gives(h) = NoIndex /\ returned' = returned
        BY <2>2 DEF Gives
      <3>. QED  BY <1>1, <3>1
    <2>. QED  BY <2>1, <2>2
  <1>6. inlineExports' \subseteq Refs /\ \A ref \in inlineExports' : ref \in inlineExports
    BY StillInlined
  <1>7. \A i : entity # <<"import", i>>
    OBVIOUS
  <1>8. Leaves(h, <<>>, h[2], entity)
    BY <1>3, <1>4, <1>5, <1>6, <1>7 DEF Leaves
  <1>9. {} \in SUBSET Refs
    OBVIOUS
  <1>. QED  BY <1>1, <1>8, <1>9, DefineStep

\* A resource is exported and remembered.
LEMMA ExportResourceStep == LinkerInv /\ ExportResource => LinkerInv'
  <1>. SUFFICES ASSUME LinkerInv, ExportResource, NEW h, h = Head(agenda) PROVE LinkerInv'
    OBVIOUS
  <1>1. /\ agenda # <<>> /\ h[1] = "exportType" /\ Then(<<>>)
        /\ Define(h[2], "componentType", NamedEntity(h[3]), {}, {})
        /\ existing' = [existing EXCEPT ![h[2]][h[3]] = Fresh(h[2], "componentType")]
        /\ UNCHANGED <<abi, result, instances, interfaces, cached, core, inlineExports, returned>>
    BY DEF ExportResource, At, This, Here
  <1>2. h[3] \in Types
    BY <1>1, Current DEF Operands
  <1>3. /\ NamedEntity(h[3]) \in Entities /\ {} \in SUBSET Refs
        /\ Denotes(NamedEntity(h[3]), TypeEntity(h[3])) /\ NamedEntity(h[3])[1] # "import"
    BY <1>2, RootAssumption DEF NamedEntity, TypeEntity, Entities, Denotes
  <1>. QED  BY <1>1, <1>3, RecordStep

\* An exported type is remembered under its name.
LEMMA exportTypeEqStep == LinkerInv /\ exportTypeEq => LinkerInv'
  <1>. SUFFICES ASSUME LinkerInv, exportTypeEq, NEW h, h = Head(agenda) PROVE LinkerInv'
    OBVIOUS
  <1>. DEFINE means == TypeEntity(h[3])  refs == {Ref("componentType", returned, means)}
  <1>1. /\ agenda # <<>> /\ h[1] = "exportTypeEq" /\ Then(<<>>)
        /\ Define(h[2], "componentType", NamedEntity(h[3]), refs, {})
        /\ existing' = [existing EXCEPT ![h[2]][h[3]] = Fresh(h[2], "componentType")]
        /\ UNCHANGED <<abi, result, instances, interfaces, cached, core, inlineExports, returned>>
    BY DEF exportTypeEq, At, This, Here
  <1>2. /\ h[3] \in Types /\ h[2] \in Scopes /\ returned \in Index
        /\ Found(<<h[2], "componentType", means>>, returned)
    <2>1. Takes(h) = <<h[2], "componentType", means>>
      BY <1>1 DEF Takes
    <2>2. Takes(h) # NoIndex
      BY <2>1 DEF NoIndex
    <2>3. Found(Takes(h), returned) /\ returned \in Index /\ h[3] \in Operands(h[1]) /\ h[2] \in Scopes
      BY <1>1, <2>2, Current
    <2>4. h[3] \in Types
      BY <1>1, <2>3 DEF Operands
    <2>. QED  BY <2>1, <2>3, <2>4
  <1>3. /\ NamedEntity(h[3]) \in Entities /\ means \in Entities /\ "componentType" \in Sorts
        /\ Denotes(NamedEntity(h[3]), TypeEntity(h[3])) /\ NamedEntity(h[3])[1] # "import"
    BY <1>2, RootAssumption DEF NamedEntity, TypeEntity, Entities, Denotes, Sorts
  <1>. HIDE DEF means
  <1>4. refs \in SUBSET Refs /\ \A ref \in refs : Sound(h[2], ref) /\ ref.sort = "componentType"
    BY <1>2, <1>3, RefSound
  <1>5. \A ref \in refs : Sound(h[2], ref) /\ ref.sort # "componentInstance"
    BY <1>4
  <1>. HIDE DEF refs
  <1>. QED  BY <1>1, <1>3, <1>4, <1>5, RecordStep

\* A type refers to the types that it is made of.
LEMMA DefineTypeStep == LinkerInv /\ DefineType => LinkerInv'
  <1>. SUFFICES ASSUME LinkerInv, DefineType, NEW h, h = Head(agenda) PROVE LinkerInv'
    OBVIOUS
  <1>. DEFINE refs == TypeRefs(Inner[h[3]])
  <1>1. /\ agenda # <<>> /\ h[1] = "define" /\ Then(<<>>) /\ h[2] = Here
        /\ Define(h[2], "componentType", TypeEntity(h[3]), refs, {})
        /\ returned' = Fresh(h[2], "componentType")
        /\ existing' = [existing EXCEPT ![h[2]][h[3]] = Fresh(h[2], "componentType")]
        /\ UNCHANGED <<abi, result, instances, interfaces, cached, core, inlineExports>>
    BY DEF DefineType, At, This, Here
  <1>2. /\ h[2] \in Scopes /\ h[3] \in Types
        /\ \A t \in ToSet(Inner[h[3]]) : existing[h[2]][t] # Absent
        /\ ToSet(Inner[h[3]]) \subseteq Types
    <2>1. NeedsTypes(h) = ToSet(Inner[h[3]])
      BY <1>1 DEF NeedsTypes
    <2>2. /\ h[2] \in Scopes /\ h[3] \in Operands(h[1])
          /\ \A t \in NeedsTypes(h) : existing[h[2]][t] # Absent
          /\ NeedsTypes(h) \subseteq Types
      BY <1>1, Current
    <2>. QED  BY <1>1, <2>1, <2>2 DEF Operands
  <1>3. refs \in SUBSET Refs /\ \A ref \in refs : Sound(h[2], ref) /\ ref.sort = "componentType"
    BY <1>1, <1>2, TypeRefsSound
  <1>4. /\ TypeEntity(h[3]) \in Entities /\ Denotes(TypeEntity(h[3]), TypeEntity(h[3]))
        /\ TypeEntity(h[3])[1] # "import"
    BY <1>2, RootAssumption DEF TypeEntity, Entities, Denotes
  <1>. HIDE DEF refs
  <1>5. \A ref \in refs : Sound(h[2], ref) /\ ref.sort # "componentInstance"
    BY <1>3
  <1>. QED  BY <1>1, <1>3, <1>4, <1>5, RecordStep

\* The type of an interface is remembered.
LEMMA InterfacesUpdated ==
  ASSUME LinkerInv, NEW i \in Interfaces, NEW index \in Index, index # Absent,
         interfaces' = [interfaces EXCEPT ![i] = index],
         Found(<<Component, "componentType", <<"interface", i>>>>, index)',
         UNCHANGED <<existing, instances, cached, core>>
  PROVE  Updated
  <1>1. interfaces \in [Interfaces -> Index]
    BY DEF LinkerInv, TypeOK
  <1>2. ASSUME NEW j \in Interfaces
        PROVE  interfaces'[j] = interfaces[j] \/
                 (interfaces'[j] # Absent /\
                  Found(<<Component, "componentType", <<"interface", j>>>>, interfaces[j])')
    <2>1. CASE j = i
      <3>1. interfaces'[j] = index
        BY <1>1, <2>1
      <3>. SUFFICES ASSUME NEW new, new = interfaces'[j]
                    PROVE  Found(<<Component, "componentType", <<"interface", j>>>>, new)'
        BY <3>1
      <3>. QED  BY <2>1, <3>1
    <2>2. CASE j # i
      <3>1. interfaces'[j] = interfaces[j]
        BY <1>1, <2>2
      <3>. QED  BY <3>1
    <2>. QED  BY <2>1, <2>2
  <1>. QED  BY <1>1, <1>2 DEF LinkerInv, TypeOK, Updated

\* An imported interface is remembered.
LEMMA InstancesUpdated ==
  ASSUME LinkerInv, NEW i \in Interfaces, NEW index \in Index, index # Absent,
         instances' = [instances EXCEPT ![i] = index],
         Found(<<Component, "componentInstance", <<"import", i>>>>, index)',
         UNCHANGED <<existing, interfaces, cached, core>>
  PROVE  Updated /\ instances'[i] # Absent /\ \A j \in Interfaces : instances'[j] # instances[j] => j = i
  <1>1. instances \in [Interfaces -> Index]
    BY DEF LinkerInv, TypeOK
  <1>2. ASSUME NEW j \in Interfaces
        PROVE  instances'[j] = instances[j] \/
                 (instances'[j] # Absent /\
                  Found(<<Component, "componentInstance", <<"import", j>>>>, instances[j])')
    <2>1. CASE j = i
      <3>1. instances'[j] = index
        BY <1>1, <2>1
      <3>. SUFFICES ASSUME NEW new, new = instances'[j]
                    PROVE  Found(<<Component, "componentInstance", <<"import", j>>>>, new)'
        BY <3>1
      <3>. QED  BY <2>1, <3>1
    <2>2. CASE j # i
      <3>1. instances'[j] = instances[j]
        BY <1>1, <2>2
      <3>. QED  BY <3>1
    <2>. QED  BY <2>1, <2>2
  <1>3. instances'[i] # Absent /\ \A j \in Interfaces : instances'[j] # instances[j] => j = i
    BY <1>1
  <1>. QED  BY <1>1, <1>2, <1>3 DEF LinkerInv, TypeOK, Updated

\* The alias of an option is remembered.
LEMMA CachedUpdated ==
  ASSUME LinkerInv, NEW o \in Options, NEW index \in Index, index # Absent, cached[o] = Absent,
         cached' = [cached EXCEPT ![o] = index],
         Found(<<Component, SortOf(o), <<"core export", o>>>>, index)',
         UNCHANGED <<existing, instances, interfaces, core>>
  PROVE  Updated /\ cached'[o] # Absent
  <1>1. cached \in [Options -> Index]
    BY DEF LinkerInv, TypeOK
  <1>2. ASSUME NEW p \in Options
        PROVE  cached'[p] = cached[p] \/
                 (cached[p] = Absent /\ cached'[p] # Absent /\
                  Found(<<Component, SortOf(p), <<"core export", p>>>>, cached[p])')
    <2>1. CASE p = o
      <3>1. cached'[p] = index
        BY <1>1, <2>1
      <3>. SUFFICES ASSUME NEW new, new = cached'[p]
                    PROVE  Found(<<Component, SortOf(p), <<"core export", p>>>>, new)'
        BY <2>1, <3>1
      <3>. QED  BY <2>1, <3>1
    <2>2. CASE p # o
      <3>1. cached'[p] = cached[p]
        BY <1>1, <2>2
      <3>. QED  BY <3>1
    <2>. QED  BY <2>1, <2>2
  <1>3. cached'[o] # Absent
    BY <1>1
  <1>. QED  BY <1>1, <1>2, <1>3 DEF LinkerInv, TypeOK, Updated

\* An instance of a module is remembered.
LEMMA CoreUpdated ==
  ASSUME LinkerInv, NEW c \in {"libc", "program"}, NEW index \in Index, index # Absent,
         core' = [core EXCEPT ![c] = index],
         Found(<<Component, "coreInstance", <<"core", c>>>>, index)',
         UNCHANGED <<existing, instances, interfaces, cached>>
  PROVE  Updated
  <1>1. core \in [{"libc", "program"} -> Index]
    BY DEF LinkerInv, TypeOK
  <1>2. ASSUME NEW d \in {"libc", "program"}
        PROVE  core'[d] = core[d] \/
                 (core'[d] # Absent /\
                  Found(<<Component, "coreInstance", <<"core", d>>>>, core[d])')
    <2>1. CASE d = c
      <3>1. core'[d] = index
        BY <1>1, <2>1
      <3>. SUFFICES ASSUME NEW new, new = core'[d]
                    PROVE  Found(<<Component, "coreInstance", <<"core", d>>>>, new)'
        BY <3>1
      <3>. QED  BY <2>1, <3>1
    <2>2. CASE d # c
      <3>1. core'[d] = core[d]
        BY <1>1, <2>2
      <3>. QED  BY <3>1
    <2>. QED  BY <2>1, <2>2
  <1>. QED  BY <1>1, <1>2 DEF LinkerInv, TypeOK, Updated

\* The type of an interface refers to what it aliases from the component.
LEMMA EndInterfaceStep == LinkerInv /\ EndInterface => LinkerInv'
  <1>. SUFFICES ASSUME LinkerInv, EndInterface, NEW h, h = Head(agenda) PROVE LinkerInv'
    OBVIOUS
  <1>. DEFINE entity == <<"interface", h[3]>>
              refs == UNION {definitions[h[3]][n].outer : n \in DOMAIN definitions[h[3]]}
  <1>. SUFFICES ASSUME NEW index, index = Fresh(Component, "componentType") PROVE LinkerInv'
    OBVIOUS
  <1>1. /\ agenda # <<>> /\ h[1] = "endInterface" /\ Then(<<>>)
        /\ Define(Component, "componentType", entity, refs, {})
        /\ returned' = index /\ interfaces' = [interfaces EXCEPT ![h[3]] = index]
        /\ UNCHANGED <<abi, result, existing, instances, cached, core, inlineExports>>
    BY DEF EndInterface, At, This, Here
  <1>2. h[3] \in Interfaces /\ Component \in Scopes /\ h[3] \in Scopes
    BY <1>1, Current DEF Operands, Scopes
  <1>3. /\ entity \in Entities /\ "componentType" \in Sorts /\ {} \in SUBSET Refs
        /\ entity[1] = "interface" /\ Denotes(entity, entity)
    BY <1>2 DEF Entities, Sorts, Denotes
  <1>4. refs \in SUBSET Refs /\ \A ref \in refs : Sound(Component, ref)
    <2>. SUFFICES ASSUME NEW n \in DOMAIN definitions[h[3]], NEW ref \in definitions[h[3]][n].outer
                  PROVE  ref \in Refs /\ Sound(Component, ref)
      OBVIOUS
    <2>1. definitions[h[3]] \in Seq(Definitions)
      BY <1>2 DEF LinkerInv, TypeOK
    <2>2. definitions[h[3]][n] \in Definitions
      BY <2>1
    <2>3. definitions[h[3]][n].outer \in SUBSET Refs
      BY <2>2 DEF Definitions
    <2>. QED  BY <1>2, <2>3 DEF LinkerInv, Written
  <1>5. Gives(h) = <<Component, "componentType", entity>>
    BY <1>1 DEF Gives
  <1>. HIDE DEF entity, refs
  <1>6. Found(<<Component, "componentType", entity>>, index)' /\ index \in Index /\ index # Absent
    BY <1>1, <1>2, <1>3, <1>4, FreshFound
  <1>7. Updated
    <2>1. Found(<<Component, "componentType", <<"interface", h[3]>>>>, index)'
      BY <1>6 DEF entity
    <2>. QED  BY <1>1, <1>2, <1>6, <2>1, InterfacesUpdated
  <1>8. Applies(h, <<>>) /\ IsSequence(<<>>) /\ Len(<<>>) = 0
    BY NothingApplies
  <1>9. returned' \in Index /\ Found(Gives(h), returned)'
    <2>1. Gives(h)' = <<Component, "componentType", entity>>
      BY <1>1 DEF Gives, entity
    <2>. SUFFICES ASSUME NEW new, new = returned', NEW what, what = Gives(h)'
                  PROVE  Found(what, new)' /\ new \in Index
      OBVIOUS
    <2>. QED  BY <1>1, <1>6, <2>1
  <1>10. inlineExports' \subseteq Refs /\ \A ref \in inlineExports' : ref \in inlineExports
    BY <1>1, StillInlined
  <1>11. \A i : entity # <<"import", i>>
    BY <1>3
  <1>12. Leaves(h, <<>>, Component, entity)
    BY <1>1, <1>7, <1>8, <1>9, <1>10, <1>11 DEF Leaves
  <1>. QED  BY <1>1, <1>2, <1>3, <1>4, <1>12, DefineStep

\* An interface that is imported has not been imported before.
LEMMA ImportStep == LinkerInv /\ Import => LinkerInv'
  <1>. SUFFICES ASSUME LinkerInv, Import, NEW h, h = Head(agenda) PROVE LinkerInv'
    OBVIOUS
  <1>. DEFINE entity == <<"import", h[3]>>
              means == <<"interface", h[3]>>
              refs == {Ref("componentType", returned, means)}
  <1>. SUFFICES ASSUME NEW index, index = Fresh(Component, "componentInstance") PROVE LinkerInv'
    OBVIOUS
  <1>1. /\ agenda # <<>> /\ h[1] = "import" /\ Then(<<>>)
        /\ Define(Component, "componentInstance", entity, refs, {})
        /\ returned' = index /\ instances' = [instances EXCEPT ![h[3]] = index]
        /\ UNCHANGED <<abi, result, existing, interfaces, cached, core, inlineExports>>
    BY DEF Import, At, This, Here
  <1>2. /\ h[3] \in Interfaces /\ Component \in Scopes /\ returned \in Index
        /\ Found(<<Component, "componentType", means>>, returned)
        /\ instances[h[3]] = Absent
    <2>1. Takes(h) = <<Component, "componentType", means>>
      BY <1>1 DEF Takes
    <2>2. Takes(h) # NoIndex
      BY <2>1 DEF NoIndex
    <2>3. /\ Found(Takes(h), returned) /\ returned \in Index /\ h[3] \in Operands(h[1])
          /\ 1 \in DOMAIN agenda /\ h = agenda[1]
      BY <1>1, <2>2, Current
    <2>4. h[3] \in Interfaces
      BY <1>1, <2>3 DEF Operands
    <2>5. instances[h[3]] = Absent
      BY <1>1, <2>3 DEF LinkerInv, Imports
    <2>. QED  BY <2>1, <2>3, <2>4, <2>5 DEF Scopes
  <1>3. /\ entity \in Entities /\ means \in Entities /\ {} \in SUBSET Refs
        /\ "componentType" \in Sorts /\ "componentInstance" \in Sorts
        /\ Denotes(entity, entity) /\ \A i : entity = <<"import", i>> => i = h[3]
    BY <1>2 DEF Entities, Sorts, Denotes
  <1>5. Gives(h) = <<Component, "componentInstance", entity>>
    BY <1>1 DEF Gives
  <1>. HIDE DEF entity, means
  <1>4. refs \in SUBSET Refs /\ \A ref \in refs : Sound(Component, ref)
    BY <1>2, <1>3, RefSound
  <1>. HIDE DEF refs
  <1>6. Found(<<Component, "componentInstance", entity>>, index)' /\ index \in Index /\ index # Absent
    BY <1>1, <1>2, <1>3, <1>4, FreshFound
  <1>7. /\ Updated /\ instances'[h[3]] # Absent
        /\ \A j \in Interfaces : instances'[j] # instances[j] => j = h[3]
    <2>1. Found(<<Component, "componentInstance", <<"import", h[3]>>>>, index)'
      BY <1>6 DEF entity
    <2>. QED  BY <1>1, <1>2, <1>6, <2>1, InstancesUpdated
  <1>8. Applies(h, <<>>) /\ IsSequence(<<>>) /\ Len(<<>>) = 0
    BY NothingApplies
  <1>9. returned' \in Index /\ Found(Gives(h), returned)'
    <2>1. Gives(h)' = <<Component, "componentInstance", entity>>
      BY <1>1 DEF Gives, entity
    <2>. SUFFICES ASSUME NEW new, new = returned', NEW what, what = Gives(h)'
                  PROVE  Found(what, new)' /\ new \in Index
      OBVIOUS
    <2>. QED  BY <1>1, <1>6, <2>1
  <1>10. inlineExports' \subseteq Refs /\ \A ref \in inlineExports' : ref \in inlineExports
    BY <1>1, StillInlined
  <1>12. Leaves(h, <<>>, Component, entity)
    BY <1>1, <1>2, <1>3, <1>7, <1>8, <1>9, <1>10 DEF Leaves
  <1>. QED  BY <1>1, <1>2, <1>3, <1>4, <1>12, DefineStep

\* The program is instantiated with the instances of libc and of its imports.
LEMMA InstantiateProgramStep == LinkerInv /\ InstantiateProgram => LinkerInv'
  <1>. SUFFICES ASSUME LinkerInv, InstantiateProgram, NEW h, h = Head(agenda) PROVE LinkerInv'
    OBVIOUS
  <1>. DEFINE entity == <<"core", "program">>
              module == <<"module", "program">>
              libc == <<"core", "libc">>
              imports == <<"core", "imports">>
              a == Ref("coreModule", 1, module)
              b == Ref("coreInstance", core["libc"], libc)
              c == Ref("coreInstance", returned, imports)
              refs == {a, b, c}
  <1>. SUFFICES ASSUME NEW index, index = Fresh(Component, "coreInstance") PROVE LinkerInv'
    OBVIOUS
  <1>1. /\ agenda # <<>> /\ h[1] = "program" /\ Then(<<>>)
        /\ Define(Component, "coreInstance", entity, refs, {})
        /\ core' = [core EXCEPT !["program"] = index]
        /\ UNCHANGED <<abi, result, existing, instances, interfaces, cached, inlineExports, returned>>
    BY DEF InstantiateProgram, At, This, Here, CoreRef
  <1>2. /\ Component \in Scopes /\ returned \in Index /\ h = agenda[1]
        /\ Found(<<Component, "coreInstance", imports>>, returned)
    <2>1. Takes(h) = <<Component, "coreInstance", imports>>
      BY <1>1 DEF Takes
    <2>2. Takes(h) # NoIndex
      BY <2>1 DEF NoIndex
    <2>3. Found(Takes(h), returned) /\ returned \in Index /\ h = agenda[1]
      BY <1>1, <2>2, Current
    <2>. QED  BY <2>1, <2>3 DEF Scopes
  <1>3. /\ core["libc"] # Absent /\ core["libc"] \in Index /\ 1 \in Index
        /\ Found(<<Component, "coreModule", module>>, 1)
        /\ Found(<<Component, "coreInstance", libc>>, core["libc"])
    <2>1. core["libc"] # Absent /\ Found(<<Component, "coreModule", module>>, 1)
      BY <1>1, <1>2 DEF LinkerInv, Started
    <2>. QED  BY <2>1 DEF LinkerInv, Memos, TypeOK, Index
  <1>4. /\ entity \in Entities /\ module \in Entities /\ libc \in Entities /\ imports \in Entities
        /\ "coreModule" \in Sorts /\ "coreInstance" \in Sorts /\ {} \in SUBSET Refs
        /\ entity[1] = "core" /\ Denotes(entity, entity)
    BY DEF Entities, Sorts, Denotes
  <1>5. Gives(h) = NoIndex
    BY <1>1 DEF Gives
  <1>. HIDE DEF entity, module, libc, imports
  <1>6. a \in Refs /\ Sound(Component, a) /\ a.sort = "coreModule"
    BY <1>2, <1>3, <1>4, RefSound
  <1>7. b \in Refs /\ Sound(Component, b) /\ b.sort = "coreInstance"
    BY <1>2, <1>3, <1>4, RefSound
  <1>8. c \in Refs /\ Sound(Component, c) /\ c.sort = "coreInstance"
    BY <1>2, <1>3, <1>4, RefSound
  <1>. HIDE DEF a, b, c
  <1>9. refs \in SUBSET Refs /\ \A ref \in refs : Sound(Component, ref)
    BY <1>6, <1>7, <1>8
  <1>. HIDE DEF refs
  <1>10. Found(<<Component, "coreInstance", entity>>, index)' /\ index \in Index /\ index # Absent
    BY <1>1, <1>2, <1>4, <1>9, FreshFound
  <1>11. Updated
    <2>1. Found(<<Component, "coreInstance", <<"core", "program">>>>, index)'
      BY <1>10 DEF entity
    <2>. QED  BY <1>1, <1>10, <2>1, CoreUpdated
  <1>12. Applies(h, <<>>) /\ IsSequence(<<>>) /\ Len(<<>>) = 0
    BY NothingApplies
  <1>13. inlineExports' \subseteq Refs /\ \A ref \in inlineExports' : ref \in inlineExports
    BY <1>1, StillInlined
  <1>14. \A i : entity # <<"import", i>>
    BY <1>4
  <1>15. Leaves(h, <<>>, Component, entity)
    BY <1>1, <1>2, <1>5, <1>11, <1>12, <1>13, <1>14 DEF Leaves
  <1>. QED  BY <1>1, <1>2, <1>4, <1>9, <1>15, DefineStep

\* A call after which no definition has been allocated.
LEMMA NotPending ==
  ASSUME LinkerInv, agenda # <<>>, NEW h, h = Head(agenda), h[1] \notin Typing, h[1] # "primitive"
  PROVE  ~Pending
  <1>1. h = agenda[1] /\ IsSequence(agenda) /\ 1 \in DOMAIN agenda
    BY Current
  <1>2. DOMAIN agenda = 1..Len(agenda)
    BY <1>1, LenProperties DEF IsSequence
  <1>3. \A n \in DOMAIN agenda : n = 1 \/ n > 1
    BY <1>2
  <1>4. ASSUME NEW n \in DOMAIN agenda, agenda[n][1] = "primitive" PROVE FALSE
    <2>1. n > 1
      BY <1>1, <1>3, <1>4
    <2>2. Ordered(h, agenda[n])
      BY <1>1, <2>1 DEF LinkerInv, AgendaOrdered
    <2>. QED  BY <1>4, <2>2 DEF Ordered
  <1>. QED  BY <1>4 DEF Pending

\* An option is aliased from the instance that provides it.
LEMMA AliasStep == LinkerInv /\ Alias => LinkerInv'
  <1>. SUFFICES ASSUME LinkerInv, Alias, NEW h, h = Head(agenda) PROVE LinkerInv'
    OBVIOUS
  <1>. DEFINE o == h[3]
              sort == SortOf(o)
              entity == <<"core export", o>>
              p == Provider(o)
              means == <<"core", p>>
              refs == {Ref("coreInstance", core[p], means)}
  <1>. SUFFICES ASSUME NEW index, index = Fresh(Component, sort) PROVE LinkerInv'
    OBVIOUS
  <1>1. /\ agenda # <<>> /\ h[1] = "require" /\ Then(<<>>)
        /\ cached[o] = Absent /\ core[p] # Absent
        /\ Define(Component, sort, entity, refs, {})
        /\ cached' = [cached EXCEPT ![o] = index]
        /\ UNCHANGED <<abi, result, existing, instances, interfaces, core, inlineExports, returned>>
    BY DEF Alias, At, This, Here, CoreRef
  <1>2. /\ Component \in Scopes /\ returned \in Index /\ h = agenda[1] /\ o \in Options
        /\ h[1] \notin Typing /\ h[1] # "primitive" /\ ~Pending
    <2>1. returned \in Index /\ h = agenda[1] /\ h[3] \in Operands(h[1])
      BY <1>1, Current
    <2>2. h[1] \notin Typing /\ h[1] # "primitive"
      BY <1>1 DEF Typing, InterfaceCalls, InterfaceTypeCalls
    <2>3. ~Pending
      BY <1>1, <2>2, NotPending
    <2>. QED  BY <1>1, <2>1, <2>2, <2>3 DEF Operands, Scopes
  <1>3. p \in {"libc", "program"} /\ core[p] \in Index
        /\ Found(<<Component, "coreInstance", means>>, core[p])
    <2>1. p \in {"libc", "program"}
      BY DEF Provider
    <2>. QED  BY <1>1, <2>1 DEF LinkerInv, Memos, TypeOK
  <1>4. /\ entity \in Entities /\ means \in Entities
        /\ sort \in Sorts /\ "coreInstance" \in Sorts /\ {} \in SUBSET Refs
        /\ entity[1] = "core export" /\ Denotes(entity, entity)
    BY <1>2, <1>3 DEF Entities, Sorts, Denotes, SortOf
  <1>5. Gives(h) = NoIndex
    BY <1>1 DEF Gives
  <1>. HIDE DEF o, sort, entity, p, means
  <1>9. refs \in SUBSET Refs /\ \A ref \in refs : Sound(Component, ref)
    <2>. DEFINE ref == Ref("coreInstance", core[p], means)
    <2>1. ref \in Refs /\ Sound(Component, ref)
      <3>1. Component \in Scopes /\ core[p] \in Index /\ means \in Entities
            /\ "coreInstance" \in Sorts /\ Found(<<Component, "coreInstance", means>>, core[p])
        BY <1>2, <1>3, <1>4
      <3>. QED  BY <3>1, RefSound
    <2>. HIDE DEF ref
    <2>2. refs = {ref}
      BY DEF ref
    <2>. QED  BY <2>1, <2>2
  <1>. HIDE DEF refs
  <1>10. Found(<<Component, sort, entity>>, index)' /\ index \in Index /\ index # Absent
    BY <1>1, <1>2, <1>4, <1>9, FreshFound
  <1>11. Updated /\ cached'[o] # Absent
    <2>1. Found(<<Component, SortOf(o), <<"core export", o>>>>, index)'
      BY <1>10 DEF entity, sort
    <2>. QED  BY <1>1, <1>2, <1>10, <2>1, CachedUpdated
  <1>12. Applies(h, <<>>) /\ IsSequence(<<>>) /\ Len(<<>>) = 0
    BY NothingApplies
  <1>13. inlineExports' \subseteq Refs /\ \A ref \in inlineExports' : ref \in inlineExports
    BY <1>1, StillInlined
  <1>14. \A i : entity # <<"import", i>>
    BY DEF entity
  <1>15. Leaves(h, <<>>, Component, entity)
    BY <1>1, <1>2, <1>5, <1>11, <1>12, <1>13, <1>14 DEF Leaves, o
  <1>. QED  BY <1>1, <1>2, <1>4, <1>9, <1>15, DefineStep

\* The options of a definition, which are given to it after it has been added.
LEMMA AppliesTo ==
  ASSUME LinkerInv, agenda # <<>>, NEW h, h = Head(agenda),
         NEW options \in Seq(Options), ToSet(options) \subseteq NeedsOptions(h),
         NEW sort \in Sorts, NEW entity \in Entities, NEW found \in Entities,
         NEW refs \in SUBSET Refs, NEW outer \in SUBSET Refs,
         Add(Component, sort, entity, found, refs, outer), cached' = cached,
         h[1] \notin Typing, h[2] = Component, Gives(h) = NoIndex,
         NEW L, L = applyTo(Len(definitions'[Component]), options)
  PROVE  Applies(h, L) /\ IsSequence(L)
  <1>. DEFINE seen == [q \in Sorts |-> Len(space[Component][q])]
  <1>0. TypeOK /\ Component \in Scopes
    BY DEF LinkerInv, Scopes
  <1>. SUFFICES ASSUME NEW n, n = Len(definitions'[Component]) PROVE Applies(h, L) /\ IsSequence(L)
    OBVIOUS
  <1>1. DOMAIN options = 1..Len(options) /\ Len(options) \in Nat
        /\ \A m \in 1..Len(options) : options[m] \in Options /\ options[m] \in ToSet(options)
    <2>1. DOMAIN options = 1..Len(options) /\ Len(options) \in Nat
      BY LenProperties
    <2>2. \A m \in 1..Len(options) : options[m] \in Options
      BY ElementOfSeq
    <2>. QED  BY <2>1, <2>2 DEF ToSet
  <1>2. L = [m \in 1..Len(options) |-> Call("apply", Component, <<n, options[m]>>)]
    BY <1>1 DEF applyTo
  <1>3. IsSequence(L) /\ Len(L) = Len(options)
    <2>. DEFINE C == {Call("apply", Component, <<n, options[m]>>) : m \in 1..Len(options)}
    <2>1. L \in [1..Len(options) -> C]
      BY <1>2
    <2>. HIDE DEF C
    <2>2. L \in Seq(C)
      BY <1>1, <2>1, SeqDef
    <2>3. DOMAIN L = 1..Len(options) /\ DOMAIN L = 1..Len(L) /\ Len(L) \in Nat
      BY <2>1, <2>2, LenProperties
    <2>4. Len(L) = Len(options)
      BY <1>1, <2>3
    <2>. QED  BY <2>2, <2>4, SequenceOver
  <1>4. n \in DOMAIN definitions'[Component] /\ definitions'[Component][n].seen = seen
    <2>. DEFINE def == [defines |-> entity, refs |-> refs, outer |-> outer, seen |-> seen]
    <2>1. def.seen = seen
      OBVIOUS
    <2>2. definitions[Component] \in Seq(Definitions) /\ definitions \in [Scopes -> Seq(Definitions)]
      BY <1>0 DEF TypeOK
    <2>3. definitions' = [definitions EXCEPT ![Component] = Append(@, def)]
      BY DEF Add
    <2>. HIDE DEF def
    <2>4. definitions'[Component] = Append(definitions[Component], def)
      BY <1>0, <2>2, <2>3
    <2>5. /\ definitions'[Component][Len(definitions[Component]) + 1] = def
          /\ n = Len(definitions[Component]) + 1 /\ Len(definitions[Component]) \in Nat
          /\ DOMAIN definitions'[Component] = 1..n
      BY <2>2, <2>4
    <2>. QED  BY <2>1, <2>5
  <1>5. ASSUME NEW m \in 1..Len(L)
        PROVE  /\ L[m][1] = "apply" /\ L[m][2] = Component /\ (L[m][3] \in Operands("apply"))'
               /\ cached'[L[m][3][2]] # Absent
               /\ cached'[L[m][3][2]] < definitions'[Component][L[m][3][1]].seen[SortOf(L[m][3][2])]
    <2>. SUFFICES ASSUME NEW o, o = options[m], NEW c, c = L[m]
                  PROVE  /\ c[1] = "apply" /\ c[2] = Component /\ c[3] \in Operands("apply")'
                         /\ cached'[c[3][2]] # Absent
                         /\ cached'[c[3][2]] < definitions'[Component][c[3][1]].seen[SortOf(c[3][2])]
      OBVIOUS
    <2>1. c[1] = "apply" /\ c[2] = Component /\ c[3] = <<n, o>> /\ c[3][1] = n /\ c[3][2] = o
      BY <1>2, <1>3 DEF Call
    <2>2. o \in Options /\ o \in NeedsOptions(h)
      BY <1>1, <1>3
    <2>3. cached[o] # Absent
      BY <2>2, Current
    <2>4. SortOf(o) \in Sorts
      BY DEF SortOf, Sorts
    <2>5. cached[o] < Len(space[Component][SortOf(o)])
      <3>1. Found(<<Component, SortOf(o), <<"core export", o>>>>, cached[o])
        BY <2>2, <2>3 DEF LinkerInv, Memos
      <3>2. cached[o] \in 0..Len(space[Component][SortOf(o)]) - 1
        BY <3>1 DEF Found
      <3>3. Len(space[Component][SortOf(o)]) \in Nat
        BY <1>0, <2>4 DEF TypeOK
      <3>. QED  BY <3>2, <3>3
    <2>6. seen[SortOf(o)] = Len(space[Component][SortOf(o)])
      BY <2>4
    <2>. HIDE DEF seen
    <2>7. cached'[c[3][2]] < definitions'[Component][c[3][1]].seen[SortOf(c[3][2])]
      BY <1>4, <2>1, <2>5, <2>6
    <2>8. c[3] \in Operands("apply")'
      BY <1>4, <2>1, <2>2 DEF Operands, Options
    <2>. QED  BY <2>1, <2>3, <2>7, <2>8
  <1>. QED  BY <1>3, <1>5 DEF Applies

\* The function that is lowered is the one that has been aliased.
LEMMA CanonLowerStep == LinkerInv /\ CanonLower => LinkerInv'
  <1>. SUFFICES ASSUME LinkerInv, CanonLower, NEW h, h = Head(agenda) PROVE LinkerInv'
    OBVIOUS
  <1>. DEFINE entity == <<"core import", h[3]>>
              means == <<"imported", h[3]>>
              refs == {Ref("componentFunction", returned, means)}
              options == abi.imports[h[3]].options
  <1>. SUFFICES ASSUME NEW index, index = Fresh(Component, "coreFunction"),
                       NEW L, L = applyTo(Len(definitions'[Component]), options)
                PROVE  LinkerInv'
    OBVIOUS
  <1>1. /\ agenda # <<>> /\ h[1] = "lower" /\ Then(L)
        /\ Define(Component, "coreFunction", entity, refs, {})
        /\ inlineExports' = inlineExports \cup {Ref("coreFunction", index, entity)}
        /\ UNCHANGED <<abi, result, linker, returned>>
    BY DEF CanonLower, At, This, Here
  <1>2. /\ Component \in Scopes /\ returned \in Index /\ h[3] \in DOMAIN abi.imports /\ abi \in Abis
        /\ Found(<<Component, "componentFunction", means>>, returned) /\ Placed(h)
    <2>1. Takes(h) = <<Component, "componentFunction", means>>
      BY <1>1 DEF Takes
    <2>2. Takes(h) # NoIndex
      BY <2>1 DEF NoIndex
    <2>3. Found(Takes(h), returned) /\ returned \in Index /\ h[3] \in Operands(h[1]) /\ Placed(h)
      BY <1>1, <2>2, Current
    <2>4. h[3] \in DOMAIN abi.imports
      BY <1>1, <2>3 DEF Operands
    <2>. QED  BY <2>1, <2>3, <2>4 DEF Scopes, LinkerInv, TypeOK
  <1>3. h[3] \in Nat /\ options \in Seq(Options)
    BY <1>2, AbiTyped
  <1>4. /\ entity \in Entities /\ means \in Entities
        /\ "componentFunction" \in Sorts /\ "coreFunction" \in Sorts /\ {} \in SUBSET Refs
        /\ entity[1] = "core import" /\ Denotes(entity, entity)
    BY <1>3 DEF Entities, Sorts, Denotes
  <1>5. /\ Gives(h) = NoIndex /\ h[1] \notin Typing /\ h[1] # "primitive" /\ h[2] = Component
        /\ NeedsOptions(h) = ToSet(options)
    <2>1. h[1] \notin Typing
      BY <1>1 DEF Typing, InterfaceCalls, InterfaceTypeCalls
    <2>2. Gives(h) = NoIndex
      BY <1>1 DEF Gives
    <2>3. NeedsOptions(h) = ToSet(options)
      BY <1>1 DEF NeedsOptions
    <2>. QED  BY <1>1, <1>2, <2>1, <2>2, <2>3 DEF Placed
  <1>6. \A i : entity # <<"import", i>>
    OBVIOUS
  <1>. HIDE DEF entity, means, options
  <1>7. refs \in SUBSET Refs /\ \A ref \in refs : Sound(Component, ref)
    <2>1. /\ Ref("componentFunction", returned, means) \in Refs
          /\ Sound(Component, Ref("componentFunction", returned, means))
      BY <1>2, <1>4, RefSound
    <2>. QED  BY <2>1
  <1>. HIDE DEF refs
  <1>8. ~Pending
    BY <1>1, <1>5, NotPending
  <1>9. Found(<<Component, "coreFunction", entity>>, index)' /\ index \in Index /\ index # Absent
    BY <1>1, <1>2, <1>4, <1>7, <1>8, FreshFound
  <1>10. Updated /\ cached' = cached /\ core' = core /\ existing' = existing
         /\ instances' = instances /\ interfaces' = interfaces
    BY <1>1, NotUpdated DEF linker
  <1>11. Applies(h, L) /\ IsSequence(L)
    <2>1. Add(Component, "coreFunction", entity, entity, refs, {})
      BY <1>1 DEF Define
    <2>. QED  BY <1>1, <1>3, <1>4, <1>5, <1>7, <1>10, <2>1, AppliesTo
  <1>12. /\ inlineExports' \subseteq Refs
         /\ \A ref \in inlineExports' :
              ref \in inlineExports \/ (ref.sort # "componentInstance" /\ Sound(Component, ref)')
    <2>. DEFINE new == Ref("coreFunction", index, entity)
    <2>1. /\ new \in Refs /\ new.sort = "coreFunction" /\ new.index = index /\ new.means = entity
      BY <1>4, <1>9 DEF Ref, Refs
    <2>. HIDE DEF new
    <2>2. inlineExports' = inlineExports \cup {new} /\ inlineExports \subseteq Refs
      BY <1>1 DEF new, LinkerInv, TypeOK
    <2>3. \A ref : ref = new => Sound(Component, ref)'
      BY <1>9, <2>1 DEF Sound
    <2>. QED  BY <2>1, <2>2, <2>3
  <1>15. Leaves(h, L, Component, entity)
    BY <1>1, <1>2, <1>5, <1>6, <1>10, <1>11, <1>12 DEF Leaves
  <1>. QED  BY <1>1, <1>2, <1>4, <1>5, <1>7, <1>15, DefineStep

\* The function that is lifted has its own core function and type.
LEMMA CanonLiftStep == LinkerInv /\ CanonLift => LinkerInv'
  <1>. SUFFICES ASSUME LinkerInv, CanonLift, NEW h, h = Head(agenda) PROVE LinkerInv'
    OBVIOUS
  <1>. DEFINE f == Exported(h[3])
              name == f.name
              options == f.options
              entity == <<"lifted", h[3]>>
              program == <<"core export", name>>
              type == <<"function", f.function>>
              a == Ref("coreFunction", cached[name], program)
              b == Ref("componentType", returned, type)
              refs == {a, b}
  <1>. SUFFICES ASSUME NEW index, index = Fresh(Component, "componentFunction"),
                       NEW L, L = applyTo(Len(definitions'[Component]), options)
                PROVE  LinkerInv'
    OBVIOUS
  <1>1. /\ agenda # <<>> /\ h[1] = "canonLift" /\ Then(L)
        /\ Define(Component, "componentFunction", entity, refs, {})
        /\ inlineExports' = inlineExports \cup {Ref("componentFunction", index, entity)}
        /\ UNCHANGED <<abi, result, linker, returned>>
    BY DEF CanonLift, At, This, Here
  <1>2. /\ Component \in Scopes /\ returned \in Index
        /\ h[3] \in (DOMAIN abi.exports) \X Nat /\ abi \in Abis
        /\ h[3][2] \in DOMAIN abi.exports[h[3][1]].functions
        /\ Found(<<Component, "componentType", type>>, returned) /\ Placed(h)
    <2>1. Takes(h) = <<Component, "componentType", type>>
      BY <1>1 DEF Takes
    <2>2. Takes(h) # NoIndex
      BY <2>1 DEF NoIndex
    <2>3. Found(Takes(h), returned) /\ returned \in Index /\ h[3] \in Operands(h[1]) /\ Placed(h)
      BY <1>1, <2>2, Current
    <2>4. h[3] \in (DOMAIN abi.exports) \X Nat
          /\ h[3][2] \in DOMAIN abi.exports[h[3][1]].functions
      BY <1>1, <2>3 DEF Operands
    <2>. QED  BY <2>1, <2>3, <2>4 DEF Scopes, LinkerInv, TypeOK
  <1>3. f.function \in Funcs /\ name \in Options /\ options \in Seq(Options)
    BY <1>2, AbiTyped DEF Exported
  <1>a. \A e \in DOMAIN abi.exports : e \in Nat
    BY <1>2, AbiTyped
  <1>4. /\ entity \in Entities /\ program \in Entities /\ type \in Entities
        /\ "componentFunction" \in Sorts /\ "coreFunction" \in Sorts /\ "componentType" \in Sorts
        /\ {} \in SUBSET Refs /\ Denotes(entity, entity)
    <2>1. h[3] \in Nat \X Nat
      BY <1>2, <1>a
    <2>2. entity \in Entities
      BY <2>1 DEF Entities
    <2>3. program \in Entities /\ type \in Entities
      BY <1>3 DEF Entities
    <2>. QED  BY <2>2, <2>3 DEF Sorts, Denotes
  <1>5. /\ Gives(h) = NoIndex /\ h[1] \notin Typing /\ h[1] # "primitive" /\ h[2] = Component
        /\ NeedsOptions(h) = ToSet(options) \cup {name}
    <2>1. h[1] \notin Typing
      BY <1>1 DEF Typing, InterfaceCalls, InterfaceTypeCalls
    <2>2. Gives(h) = NoIndex
      BY <1>1 DEF Gives
    <2>3. NeedsOptions(h) = ToSet(options) \cup {name}
      BY <1>1 DEF NeedsOptions
    <2>. QED  BY <1>1, <1>2, <2>1, <2>2, <2>3 DEF Placed
  <1>6. \A i : entity # <<"import", i>>
    OBVIOUS
  <1>7. cached[name] # Absent /\ cached[name] \in Index
        /\ Found(<<Component, "coreFunction", program>>, cached[name])
    <2>1. cached[name] # Absent
      BY <1>1, <1>5, Current
    <2>2. Found(<<Component, SortOf(name), program>>, cached[name])
      BY <1>3, <2>1 DEF LinkerInv, Memos
    <2>3. SortOf(name) = "coreFunction"
      <3>1. name \in Names
        BY <1>2, AbiTyped DEF Exported
      <3>. QED  BY <3>1, NamesAssumption DEF SortOf
    <2>. QED  BY <1>3, <2>1, <2>2, <2>3 DEF LinkerInv, TypeOK
  <1>. HIDE DEF f, name, options, entity, program, type
  <1>8. a \in Refs /\ Sound(Component, a) /\ a.sort = "coreFunction"
    BY <1>2, <1>4, <1>7, RefSound
  <1>9. b \in Refs /\ Sound(Component, b) /\ b.sort = "componentType"
    BY <1>2, <1>4, RefSound
  <1>. HIDE DEF a, b
  <1>10. refs \in SUBSET Refs /\ \A ref \in refs : Sound(Component, ref)
    BY <1>8, <1>9
  <1>. HIDE DEF refs
  <1>11. Found(<<Component, "componentFunction", entity>>, index)' /\ index \in Index /\ index # Absent
    BY <1>1, <1>2, <1>4, <1>10, FreshFound
  <1>12. Updated /\ cached' = cached /\ core' = core /\ existing' = existing
         /\ instances' = instances /\ interfaces' = interfaces
    BY <1>1, NotUpdated DEF linker
  <1>13. Applies(h, L) /\ IsSequence(L)
    <2>1. Add(Component, "componentFunction", entity, entity, refs, {})
      BY <1>1 DEF Define
    <2>. QED  BY <1>1, <1>3, <1>4, <1>5, <1>10, <1>12, <2>1, AppliesTo
  <1>14. /\ inlineExports' \subseteq Refs
         /\ \A ref \in inlineExports' :
              ref \in inlineExports \/ (ref.sort # "componentInstance" /\ Sound(Component, ref)')
    <2>. DEFINE new == Ref("componentFunction", index, entity)
    <2>1. /\ new \in Refs /\ new.sort = "componentFunction" /\ new.index = index /\ new.means = entity
      BY <1>4, <1>11 DEF Ref, Refs
    <2>. HIDE DEF new
    <2>2. inlineExports' = inlineExports \cup {new} /\ inlineExports \subseteq Refs
      BY <1>1 DEF new, LinkerInv, TypeOK
    <2>3. \A ref : ref = new => Sound(Component, ref)'
      BY <1>11, <2>1 DEF Sound
    <2>. QED  BY <2>1, <2>2, <2>3
  <1>15. Leaves(h, L, Component, entity)
    BY <1>1, <1>2, <1>5, <1>6, <1>12, <1>13, <1>14 DEF Leaves
  <1>. QED  BY <1>1, <1>2, <1>4, <1>5, <1>10, <1>15, DefineStep

\* The index that was counted for a primitive is the one that its definition takes.
LEMMA AddCanonPrimitiveStep == LinkerInv /\ AddCanonPrimitive => LinkerInv'
  <1>. SUFFICES ASSUME LinkerInv, AddCanonPrimitive, NEW h, h = Head(agenda) PROVE LinkerInv'
    OBVIOUS
  <1>. DEFINE k == h[3][1]
              entity == <<"core import", k>>
              types == abi.imports[k].types
              refs == TypeRefs(types)
              options == abi.imports[k].options
              new == Ref("coreFunction", h[3][2], entity)
  <1>. SUFFICES ASSUME NEW L, L = IF abi.imports[k].is = "primitive"
                                  THEN applyTo(Len(definitions'[Component]), options) ELSE <<>>
                PROVE  LinkerInv'
    OBVIOUS
  <1>1. /\ agenda # <<>> /\ h[1] = "primitive" /\ Then(L) /\ h[2] = Here
        /\ Add(Component, "coreFunction", entity, entity, refs, {})
        /\ inlineExports' = inlineExports \cup {new}
        /\ UNCHANGED <<abi, result, counters, linker, returned>>
    BY DEF AddCanonPrimitive, At, This, Here
  <1>2. /\ Component \in Scopes /\ returned \in Index /\ h = agenda[1] /\ 1 \in DOMAIN agenda
        /\ h[3] \in (DOMAIN abi.imports) \X Nat /\ abi \in Abis /\ Placed(h) /\ IsSequence(agenda)
        /\ \A t \in NeedsTypes(h) : existing[h[2]][t] # Absent
        /\ NeedsTypes(h) \subseteq Types
    BY <1>1, Current DEF Operands, Scopes, LinkerInv, TypeOK
  <1>3. k \in Nat /\ options \in Seq(Options) /\ types \in Seq(Types)
    BY <1>2, AbiTyped
  <1>4. /\ entity \in Entities /\ "coreFunction" \in Sorts /\ {} \in SUBSET Refs
    BY <1>3 DEF Entities, Sorts
  <1>5. /\ Gives(h) = NoIndex /\ h[1] \notin Typing /\ h[2] = Component
        /\ NeedsOptions(h) = ToSet(options) /\ NeedsTypes(h) = ToSet(types)
    <2>1. h[1] \notin Typing
      BY <1>1 DEF Typing, InterfaceCalls, InterfaceTypeCalls
    <2>2. Gives(h) = NoIndex
      BY <1>1 DEF Gives
    <2>3. NeedsOptions(h) = ToSet(options)
      BY <1>1 DEF NeedsOptions
    <2>4. NeedsTypes(h) = ToSet(types)
      BY <1>1 DEF NeedsTypes
    <2>. QED  BY <1>1, <1>2, <2>1, <2>2, <2>3, <2>4 DEF Placed
  <1>6. \A i : entity # <<"import", i>>
    OBVIOUS
  <1>7. refs \in SUBSET Refs /\ \A ref \in refs : Sound(Component, ref) /\ ref.sort = "componentType"
    BY <1>1, <1>2, <1>5, TypeRefsSound
  <1>8. /\ h[3][2] = Len(space[Component]["coreFunction"]) /\ h[3][2] \in Nat /\ Pending
        /\ counters[Component]["coreFunction"] = Len(space[Component]["coreFunction"]) + 1
    <2>1. Pending
      BY <1>1, <1>2 DEF Pending
    <2>. QED  BY <1>1, <1>2, <2>1 DEF LinkerInv, Counted
  <1>. HIDE DEF entity, options, types, refs
  <1>9. /\ \A s \in Scopes : \A q \in Sorts :
             s # Component \/ q # "coreFunction" => space'[s][q] = space[s][q]
        /\ Grown
    BY <1>1, <1>2, <1>4, <1>7, Added DEF LinkerInv
  <1>10. /\ Len(space'[Component]["coreFunction"]) = Len(space[Component]["coreFunction"]) + 1
         /\ space'[Component]["coreFunction"][Len(space[Component]["coreFunction"]) + 1] = entity
    <2>1. /\ space'[Component]["coreFunction"] = Append(space[Component]["coreFunction"], entity)
          /\ space[Component]["coreFunction"] \in Seq(Entities)
      BY <1>1, <1>2, <1>4 DEF Add, LinkerInv, TypeOK
    <2>. QED  BY <1>4, <2>1, AppendProperties
  <1>11. Updated /\ cached' = cached /\ core' = core /\ existing' = existing
         /\ instances' = instances /\ interfaces' = interfaces
    BY <1>1, NotUpdated DEF linker
  <1>12. Applies(h, L) /\ IsSequence(L)
    <2>1. CASE abi.imports[k].is = "primitive"
      BY <1>1, <1>2, <1>3, <1>4, <1>5, <1>7, <1>11, <2>1, AppliesTo
    <2>2. CASE abi.imports[k].is # "primitive"
      BY <2>2, NothingApplies
    <2>. QED  BY <2>1, <2>2
  <1>13. /\ inlineExports' \subseteq Refs
         /\ \A ref \in inlineExports' :
              ref \in inlineExports \/ (ref.sort # "componentInstance" /\ Sound(Component, ref)')
    <2>1. /\ new \in Refs /\ new.sort = "coreFunction" /\ new.index = h[3][2] /\ new.means = entity
      BY <1>4, <1>8 DEF Ref, Refs, Index
    <2>. HIDE DEF new
    <2>2. inlineExports' = inlineExports \cup {new} /\ inlineExports \subseteq Refs
      BY <1>1 DEF LinkerInv, TypeOK
    <2>3. ASSUME NEW ref, ref = new PROVE Sound(Component, ref)'
      <3>. SUFFICES Found(<<Component, "coreFunction", entity>>, h[3][2])'
        BY <2>1, <2>3 DEF Sound
      <3>. SUFFICES ASSUME NEW index, index = h[3][2]
                    PROVE  Found(<<Component, "coreFunction", entity>>, index)'
        OBVIOUS
      <3>1. index \in 0..Len(space'[Component]["coreFunction"]) - 1
            /\ space'[Component]["coreFunction"][index + 1] = entity
        BY <1>8, <1>10
      <3>. QED  BY <3>1 DEF Found, Denotes
    <2>. QED  BY <2>1, <2>2, <2>3
  <1>14. Pending' = FALSE
    <2>1. \A n \in 1..Len(L) : L[n][1] # "primitive"
      BY <1>12 DEF Applies
    <2>. QED  BY <1>1, <1>2, <1>5, <1>12, <2>1, PendingStep DEF LinkerInv
  <1>15. Counted' /\ counters' \in [Scopes -> [Sorts -> Nat]]
    <2>1. Counted /\ counters \in [Scopes -> [Sorts -> Nat]] /\ counters' = counters
      BY <1>1 DEF LinkerInv, TypeOK
    <2>2. \A n \in DOMAIN agenda' : agenda'[n][1] # "primitive"
      BY <1>14 DEF Pending
    <2>3. counters'[Component]["coreFunction"] = Len(space'[Component]["coreFunction"]) + 0
      BY <1>8, <1>10, <2>1
    <2>4. /\ space'[Component]["componentInstance"] = space[Component]["componentInstance"]
          /\ \A s \in Scopes : \A q \in Sorts :
              s # Component \/ q \notin {"coreFunction", "componentInstance"} =>
                space'[s][q] = space[s][q]
      BY <1>2, <1>9 DEF Sorts
    <2>5. ~Exporting' => ~Exporting
      BY <1>9 DEF Grown
    <2>6. \A s \in Scopes : \A q \in Sorts :
            s # Component \/ q \notin {"coreFunction", "componentInstance"} =>
              counters'[s][q] = Len(space'[s][q])
      BY <2>1, <2>4 DEF Counted
    <2>7. /\ counters'[Component]["componentInstance"] <= Len(space'[Component]["componentInstance"])
          /\ ~Exporting' => counters'[Component]["componentInstance"] =
                            Len(space'[Component]["componentInstance"])
      BY <2>1, <2>4, <2>5 DEF Counted
    <2>. QED  BY <1>14, <2>1, <2>2, <2>3, <2>6, <2>7 DEF Counted
  <1>16. Leaves(h, L, Component, entity)
    BY <1>1, <1>2, <1>5, <1>6, <1>11, <1>12, <1>13 DEF Leaves
  <1>17. \A ref \in refs :
           Sound(Component, ref) /\ (ref.sort = "componentInstance" => Component = Component)
    BY <1>7
  <1>18. \A ref \in {} : Sound(Component, ref)
    OBVIOUS
  <1>. QED  BY <1>1, <1>2, <1>4, <1>7, <1>15, <1>16, <1>17, <1>18, AddStep

\* The export refers to the instance by the index that was returned for it.
LEMMA ExportStep == LinkerInv /\ Export => LinkerInv'
  <1>. SUFFICES ASSUME LinkerInv, Export, NEW h, h = Head(agenda) PROVE LinkerInv'
    OBVIOUS
  <1>. DEFINE entity == <<"exported", h[3]>>
              means == <<"export", h[3]>>
              refs == {Ref("componentInstance", returned, means)}
  <1>. SUFFICES ASSUME NEW found, found = space[Component]["componentInstance"][returned + 1]
                PROVE  LinkerInv'
    OBVIOUS
  <1>1. /\ agenda # <<>> /\ h[1] = "export" /\ Then(<<>>)
        /\ Add(Component, "componentInstance", entity, found, refs, {})
        /\ UNCHANGED <<abi, result, counters, linker, inlineExports, returned>>
    BY DEF Export, At, This, Here
  <1>2. /\ Component \in Scopes /\ returned \in Index /\ h[3] \in DOMAIN abi.exports /\ abi \in Abis
        /\ Found(<<Component, "componentInstance", means>>, returned) /\ h = agenda[1]
        /\ IsSequence(agenda)
    <2>1. Takes(h) = <<Component, "componentInstance", means>>
      BY <1>1 DEF Takes
    <2>2. Takes(h) # NoIndex
      BY <2>1 DEF NoIndex
    <2>3. /\ Found(Takes(h), returned) /\ returned \in Index /\ h[3] \in Operands(h[1])
          /\ h = agenda[1] /\ IsSequence(agenda)
      BY <1>1, <2>2, Current
    <2>4. h[3] \in DOMAIN abi.exports
      BY <1>1, <2>3 DEF Operands
    <2>. QED  BY <2>1, <2>3, <2>4 DEF Scopes, LinkerInv, TypeOK
  <1>3. h[3] \in Nat
    BY <1>2, AbiTyped
  <1>4. /\ entity \in Entities /\ means \in Entities /\ "componentInstance" \in Sorts
        /\ {} \in SUBSET Refs /\ entity[1] = "exported"
    BY <1>3 DEF Entities, Sorts
  <1>5. /\ Gives(h) = NoIndex /\ h[1] \notin Typing /\ h[1] # "primitive"
    BY <1>1 DEF Gives, Typing, InterfaceCalls, InterfaceTypeCalls
  <1>6. \A i : entity # <<"import", i>>
    OBVIOUS
  <1>7. found \in Entities
    <2>1. returned \in 0..Len(space[Component]["componentInstance"]) - 1
      BY <1>2 DEF Found
    <2>2. space[Component]["componentInstance"] \in Seq(Entities)
      BY <1>2, <1>4 DEF LinkerInv, TypeOK
    <2>3. returned + 1 \in 1..Len(space[Component]["componentInstance"])
      BY <2>1, <2>2
    <2>. QED  BY <2>2, <2>3
  <1>. HIDE DEF entity, means
  <1>8. refs \in SUBSET Refs /\ \A ref \in refs : Sound(Component, ref)
    BY <1>2, <1>4, RefSound
  <1>. HIDE DEF refs
  <1>9. /\ \A s \in Scopes : \A q \in Sorts :
             s # Component \/ q # "componentInstance" => space'[s][q] = space[s][q]
        /\ Grown
    BY <1>1, <1>2, <1>4, <1>7, <1>8, Added DEF LinkerInv
  <1>10. Exporting'
    <2>. DEFINE def == [defines |-> entity, refs |-> refs, outer |-> {},
                        seen |-> [q \in Sorts |-> Len(space[Component][q])]]
    <2>1. def.defines = entity
      OBVIOUS
    <2>2. definitions[Component] \in Seq(Definitions) /\ definitions \in [Scopes -> Seq(Definitions)]
      BY <1>2 DEF LinkerInv, TypeOK
    <2>3. definitions' = [definitions EXCEPT ![Component] = Append(@, def)]
      BY <1>1 DEF Add
    <2>. HIDE DEF def
    <2>4. definitions'[Component] = Append(definitions[Component], def)
      BY <1>2, <2>2, <2>3
    <2>5. /\ definitions'[Component][Len(definitions[Component]) + 1] = def
          /\ Len(definitions[Component]) + 1 \in DOMAIN definitions'[Component]
      BY <2>2, <2>4
    <2>. QED  BY <1>4, <2>1, <2>5 DEF Exporting
  <1>11. Updated /\ cached' = cached /\ core' = core /\ existing' = existing
         /\ instances' = instances /\ interfaces' = interfaces
    BY <1>1, NotUpdated DEF linker
  <1>12. Applies(h, <<>>) /\ IsSequence(<<>>) /\ Len(<<>>) = 0
    BY NothingApplies
  <1>13. inlineExports' \subseteq Refs /\ \A ref \in inlineExports' : ref \in inlineExports
    BY <1>1, StillInlined
  <1>14. Pending' = FALSE /\ Pending = FALSE
    <2>1. \A n \in 1..Len(<<>>) : <<>>[n][1] # "primitive"
      BY <1>12
    <2>. QED  BY <1>1, <1>2, <1>5, <1>12, <2>1, PendingStep DEF LinkerInv
  <1>15. Counted' /\ counters' \in [Scopes -> [Sorts -> Nat]]
    <2>1. Counted /\ counters \in [Scopes -> [Sorts -> Nat]] /\ counters' = counters
      BY <1>1 DEF LinkerInv, TypeOK
    <2>2. \A n \in DOMAIN agenda' : agenda'[n][1] # "primitive"
      BY <1>14 DEF Pending
    <2>3. \A s \in Scopes : \A q \in Sorts :
            s # Component \/ q \notin {"coreFunction", "componentInstance"} =>
              counters'[s][q] = Len(space'[s][q])
      BY <1>9, <2>1 DEF Counted
    <2>4. counters'[Component]["coreFunction"] =
            Len(space'[Component]["coreFunction"]) + (IF Pending' THEN 1 ELSE 0)
      <3>1. space'[Component]["coreFunction"] = space[Component]["coreFunction"]
        BY <1>2, <1>9 DEF Sorts
      <3>. QED  BY <1>14, <2>1, <3>1 DEF Counted
    <2>5. counters'[Component]["componentInstance"] <= Len(space'[Component]["componentInstance"])
      <3>1. Len(space[Component]["componentInstance"]) <= Len(space'[Component]["componentInstance"])
        BY <1>2, <1>4, <1>9 DEF Grown
      <3>2. /\ counters[Component]["componentInstance"] <= Len(space[Component]["componentInstance"])
            /\ counters[Component]["componentInstance"] \in Nat
        BY <1>2, <1>4, <2>1 DEF Counted
      <3>3. /\ Len(space[Component]["componentInstance"]) \in Nat
            /\ Len(space'[Component]["componentInstance"]) \in Nat
        <4>1. space' \in SpaceType
          BY <1>1, <1>2, <1>4, <1>7, <1>8, Added DEF LinkerInv
        <4>. QED  BY <1>2, <1>4, <4>1 DEF SpaceType, LinkerInv, TypeOK
      <3>. QED  BY <2>1, <3>1, <3>2, <3>3
    <2>. QED  BY <1>10, <2>1, <2>2, <2>3, <2>4, <2>5 DEF Counted
  <1>16. Leaves(h, <<>>, Component, entity)
    BY <1>1, <1>2, <1>5, <1>6, <1>11, <1>12, <1>13 DEF Leaves, entity
  <1>. QED  BY <1>1, <1>2, <1>4, <1>7, <1>8, <1>15, <1>16, AddStep

\* Nothing is added.
LEMMA SameGrown ==
  ASSUME LinkerInv, space' = space, Exporting => Exporting'
  PROVE  Grown /\ space \in SpaceType /\ space' \in SpaceType
  <1>1. space \in SpaceType
    BY DEF LinkerInv, TypeOK, SpaceType
  <1>2. \A s \in Scopes : \A sort \in Sorts : Len(space[s][sort]) \in Nat
    BY <1>1 DEF SpaceType
  <1>. QED  BY <1>1, <1>2 DEF Grown

\* What is left when a call makes no others.
LEMMA NothingLeft ==
  ASSUME LinkerInv, agenda # <<>>, NEW h, h = Head(agenda), Then(<<>>), abi' = abi,
         h[1] # "interfaceType",
         Gives(h) # NoIndex => Found(Gives(h), returned)',
         \A s \in Scopes : \A t \in Types : existing[s][t] # Absent => existing'[s][t] # Absent,
         \A o \in Options : cached[o] # Absent => cached'[o] = cached[o],
         \A n \in DOMAIN definitions[Component] :
           n \in DOMAIN definitions'[Component]
           /\ definitions'[Component][n].seen = definitions[Component][n].seen,
         h[1] \in {"type", "define", "remember"} => existing'[h[2]][h[3]] # Absent,
         h[1] = "require" => cached'[h[3]] # Absent,
         \A i \in Interfaces : instances'[i] # instances[i] => h[1] = "import" /\ h[3] = i
  PROVE  /\ AgendaPlaced' /\ AgendaOrdered' /\ Chained' /\ Coming' /\ IsSequence(agenda') /\ Called'
         /\ \A n \in DOMAIN agenda' : agenda'[n][1] # "modules"
         /\ \A n \in DOMAIN agenda' : agenda'[n][1] = "import" => instances'[agenda'[n][3]] = Absent
         /\ h[1] # "primitive" => (Pending' <=> Pending)
         /\ \A n \in DOMAIN agenda' : agenda'[n][1] = "primitive" =>
              \E k \in DOMAIN agenda : agenda'[n] = agenda[k]
  <1>. SUFFICES ASSUME NEW L, L = <<>>
                PROVE  /\ AgendaPlaced' /\ AgendaOrdered' /\ Chained' /\ Coming'
                       /\ IsSequence(agenda') /\ Called'
                       /\ \A n \in DOMAIN agenda' : agenda'[n][1] # "modules"
                       /\ \A n \in DOMAIN agenda' : agenda'[n][1] = "import" =>
                            instances'[agenda'[n][3]] = Absent
                       /\ h[1] # "primitive" => (Pending' <=> Pending)
                       /\ \A n \in DOMAIN agenda' : agenda'[n][1] = "primitive" =>
                            \E k \in DOMAIN agenda : agenda'[n] = agenda[k]
    OBVIOUS
  <1>1. h = agenda[1] /\ IsSequence(agenda)
    BY Current
  <1>2. IsSequence(L) /\ Len(L) = 0 /\ Then(L)
    BY NothingApplies
  <1>3. 1..Len(L) = {}
    BY <1>2
  <1>4. TypeOK /\ AgendaPlaced /\ AgendaOrdered /\ Chained /\ Coming /\ Imports
    BY DEF LinkerInv
  <1>5. AgendaPlaced' /\ AgendaOrdered' /\ Chained' /\ Coming' /\ IsSequence(agenda')
    BY <1>1, <1>2, <1>3, <1>4, AgendaStep
  <1>6. /\ Called'
        /\ \A n \in DOMAIN agenda' : agenda'[n][1] # "modules"
        /\ \A n \in DOMAIN agenda' : agenda'[n][1] = "import" => instances'[agenda'[n][3]] = Absent
    BY <1>1, <1>2, <1>3, <1>4, CallsStep
  <1>7. /\ h[1] # "primitive" => (Pending' <=> Pending)
        /\ \A n \in DOMAIN agenda' : agenda'[n][1] = "primitive" =>
              \E k \in DOMAIN agenda : agenda'[n] = agenda[k]
    BY <1>1, <1>2, <1>3, <1>4, PendingStep
  <1>. QED  BY <1>5, <1>6, <1>7

\* A type that has been imported is remembered.
LEMMA RememberStep == LinkerInv /\ Remember => LinkerInv'
  <1>. SUFFICES ASSUME LinkerInv, Remember, NEW h, h = Head(agenda) PROVE LinkerInv'
    OBVIOUS
  <1>. DEFINE means == TypeEntity(h[3])
  <1>1. /\ agenda # <<>> /\ h[1] = "remember" /\ Then(<<>>)
        /\ existing' = [existing EXCEPT ![h[2]][h[3]] = returned]
        /\ UNCHANGED <<abi, result, builder, instances, interfaces, cached, core, inlineExports,
                       returned>>
    BY DEF Remember, At, This, Here
  <1>a. /\ counters' = counters /\ definitions' = definitions /\ space' = space
        /\ (Exporting <=> Exporting')
    BY <1>1 DEF builder, Exporting
  <1>2. /\ h[3] \in Types /\ h[2] \in Scopes /\ returned \in Index /\ h = agenda[1]
        /\ IsSequence(agenda)
        /\ Found(<<h[2], "componentType", means>>, returned)
    <2>1. Takes(h) = <<h[2], "componentType", means>>
      BY <1>1 DEF Takes
    <2>2. Takes(h) # NoIndex
      BY <2>1 DEF NoIndex
    <2>3. /\ Found(Takes(h), returned) /\ returned \in Index /\ h[3] \in Operands(h[1])
          /\ h[2] \in Scopes /\ h = agenda[1] /\ IsSequence(agenda)
      BY <1>1, <2>2, Current
    <2>4. h[3] \in Types
      BY <1>1, <2>3 DEF Operands
    <2>. QED  BY <2>1, <2>3, <2>4
  <1>3. returned # Absent
    <2>1. returned \in 0..Len(space[h[2]]["componentType"]) - 1
      BY <1>2 DEF Found
    <2>. QED  BY <2>1 DEF Absent
  <1>. SUFFICES ASSUME NEW index, index = returned PROVE LinkerInv'
    OBVIOUS
  <1>4. Found(<<h[2], "componentType", TypeEntity(h[3])>>, index)'
    BY <1>2, <1>a DEF Found, TypeEntity
  <1>5. Updated /\ existing'[h[2]][h[3]] # Absent
    BY <1>1, <1>2, <1>3, <1>4, ExistingUpdated
  <1>6. Gives(h) # NoIndex => Found(Gives(h), returned)'
    <2>1. Gives(h)' = <<h[2], "componentType", TypeEntity(h[3])>>'
      BY <1>1 DEF Gives, TypeEntity
    <2>. SUFFICES ASSUME NEW new, new = returned', new = index, NEW what, what = Gives(h)'
                  PROVE  Found(what, new)'
      BY <1>1
    <2>. QED  BY <1>4, <2>1
  <1>7. /\ AgendaPlaced' /\ AgendaOrdered' /\ Chained' /\ Coming' /\ IsSequence(agenda') /\ Called'
        /\ \A n \in DOMAIN agenda' : agenda'[n][1] # "modules"
        /\ \A n \in DOMAIN agenda' : agenda'[n][1] = "import" => instances'[agenda'[n][3]] = Absent
        /\ (Pending' <=> Pending)
        /\ \A n \in DOMAIN agenda' : agenda'[n][1] = "primitive" =>
             \E k \in DOMAIN agenda : agenda'[n] = agenda[k]
    <2>1. \A s \in Scopes : \A t \in Types : existing[s][t] # Absent => existing'[s][t] # Absent
      BY <1>5 DEF Updated
    <2>2. /\ \A o \in Options : cached[o] # Absent => cached'[o] = cached[o]
          /\ \A n \in DOMAIN definitions[Component] :
               n \in DOMAIN definitions'[Component]
               /\ definitions'[Component][n].seen = definitions[Component][n].seen
      BY <1>1, <1>a
    <2>3. /\ h[1] # "interfaceType" /\ h[1] # "primitive" /\ h[1] # "require" /\ abi' = abi
          /\ \A i \in Interfaces : instances'[i] = instances[i]
      BY <1>1
    <2>. QED  BY <1>1, <1>5, <1>6, <2>1, <2>2, <2>3, NothingLeft
  <1>8. TypeOK'
    BY <1>1, <1>5, <1>7, <1>a DEF LinkerInv, TypeOK, Updated, Called, IsSequence
  <1>9. Counted'
    BY <1>7, <1>a DEF LinkerInv, Counted
  <1>10. Memos'
    BY <1>5, <1>a, SameGrown, MemosStep DEF LinkerInv
  <1>11. Written' /\ ReferencesResolve' /\ ImportedOnce'
    <2>1. Written'
      BY <1>a DEF LinkerInv, Written, Sound, Found
    <2>2. ReferencesResolve'
      BY <1>a DEF LinkerInv, ReferencesResolve, AfterExport
    <2>3. ImportedOnce'
      BY <1>a DEF LinkerInv, ImportedOnce
    <2>. QED  BY <2>1, <2>2, <2>3
  <1>12. Inlined'
    BY <1>1, <1>a DEF LinkerInv, Inlined, Sound, Found
  <1>13. Imports'
    BY <1>1, <1>7, <1>a DEF LinkerInv, Imports
  <1>14. Started'
    <2>1. agenda' # <<>> => agenda'[1][1] # "modules"
      <3>1. IsSequence(<<>>)
        BY NothingApplies
      <3>. QED  BY <1>1, <1>2, <1>7, <3>1, Positions
    <2>2. core["libc"] # Absent /\ Found(<<Component, "coreModule", <<"module", "program">>>>, 1)
      BY <1>1, <1>2 DEF LinkerInv, Started
    <2>. QED  BY <1>1, <1>a, <2>1, <2>2 DEF Started, Found
  <1>. QED  BY <1>7, <1>8, <1>9, <1>10, <1>11, <1>12, <1>13, <1>14 DEF LinkerInv

\* An option that a definition refers to has been defined before it.
LEMMA ApplyStep == LinkerInv /\ Apply => LinkerInv'
  <1>. SUFFICES ASSUME LinkerInv, Apply, NEW h, h = Head(agenda) PROVE LinkerInv'
    OBVIOUS
  <1>. DEFINE n == h[3][1]  o == h[3][2]
              means == <<"core export", o>>
              new == Ref(SortOf(o), cached[o], means)
              old == definitions[Component][n]
              def == [old EXCEPT !.refs = @ \cup {new}]
  <1>0. agenda # <<>> /\ h[1] = "apply"
    BY DEF Apply, At
  <1>1. /\ h[3] \in (DOMAIN definitions[Component]) \X Options /\ returned \in Index /\ h = agenda[1]
        /\ IsSequence(agenda) /\ cached[o] # Absent /\ cached[o] < old.seen[SortOf(o)]
        /\ Component \in Scopes
    BY <1>0, Current DEF Operands, Scopes
  <1>2. /\ Then(<<>>)
        /\ definitions' = [definitions EXCEPT ![Component][n].refs = @ \cup {new}]
        /\ UNCHANGED <<abi, result, counters, space, linker, inlineExports, returned>>
    BY <1>1 DEF Apply, At, This
  <1>3. n \in DOMAIN definitions[Component] /\ o \in Options
    BY <1>1
  <1>4. definitions \in [Scopes -> Seq(Definitions)] /\ definitions[Component] \in Seq(Definitions)
        /\ DOMAIN definitions[Component] = 1..Len(definitions[Component])
    BY <1>1 DEF LinkerInv, TypeOK
  <1>5. old \in Definitions
    BY <1>3, <1>4
  <1>6. /\ Found(<<Component, SortOf(o), means>>, cached[o]) /\ cached[o] \in Index
        /\ SortOf(o) \in Sorts /\ SortOf(o) # "componentInstance" /\ means \in Entities
    BY <1>1, <1>3 DEF LinkerInv, Memos, TypeOK, SortOf, Sorts, Entities
  <1>7. new \in Refs /\ new.sort = SortOf(o) /\ new.index = cached[o] /\ new.means = means
    BY <1>6 DEF Ref, Refs
  <1>. HIDE DEF o, means
  <1>8. /\ new.index \in 0..old.seen[new.sort] - 1
        /\ Denotes(space[Component][new.sort][new.index + 1], new.means)
    <2>1. old.seen[SortOf(o)] \in Nat
      BY <1>5, <1>6 DEF Definitions
    <2>2. /\ cached[o] \in 0..Len(space[Component][SortOf(o)]) - 1
          /\ Denotes(space[Component][SortOf(o)][cached[o] + 1], means)
      BY <1>6 DEF Found
    <2>3. Len(space[Component][SortOf(o)]) \in Nat
      <3>1. space \in [Scopes -> [Sorts -> Seq(Entities)]]
        BY DEF LinkerInv, TypeOK
      <3>2. space[Component][SortOf(o)] \in Seq(Entities)
        BY <1>1, <1>6, <3>1
      <3>. QED  BY <3>2
    <2>4. cached[o] \in Nat
      BY <2>2, <2>3
    <2>5. cached[o] \in 0..old.seen[SortOf(o)] - 1
      BY <1>1, <2>1, <2>4
    <2>. QED  BY <1>7, <2>2, <2>5
  <1>. HIDE DEF new
  <1>9. /\ def \in Definitions /\ def.defines = old.defines /\ def.outer = old.outer
        /\ def.seen = old.seen /\ def.refs = old.refs \cup {new}
    BY <1>5, <1>7 DEF Definitions
  <1>10. definitions' = [definitions EXCEPT ![Component] = [definitions[Component] EXCEPT ![n] = def]]
    BY <1>2, <1>3, <1>4, <1>1
  <1>. HIDE DEF n, o, def, old
  <1>11. /\ \A s \in Scopes : s # Component => definitions'[s] = definitions[s]
         /\ definitions'[Component] = [definitions[Component] EXCEPT ![n] = def]
    BY <1>1, <1>4, <1>10
  <1>12. definitions'[Component] \in Seq(Definitions)
    BY <1>3, <1>4, <1>9, <1>11, ExceptSeq
  <1>13. definitions' \in [Scopes -> Seq(Definitions)]
    BY <1>4, <1>10, <1>11, <1>12
  <1>14. /\ DOMAIN definitions'[Component] = DOMAIN definitions[Component]
         /\ \A m \in DOMAIN definitions[Component] :
              definitions'[Component][m] = IF m = n THEN def ELSE definitions[Component][m]
    BY <1>3, <1>4, <1>11
  <1>15. \A s \in Scopes :
           /\ DOMAIN definitions'[s] = DOMAIN definitions[s]
           /\ \A m \in DOMAIN definitions[s] :
                /\ definitions'[s][m].defines = definitions[s][m].defines
                /\ definitions'[s][m].outer = definitions[s][m].outer
                /\ definitions'[s][m].seen = definitions[s][m].seen
                /\ s # Component \/ m # n => definitions'[s][m].refs = definitions[s][m].refs
    <2>. SUFFICES ASSUME NEW s \in Scopes, NEW m \in DOMAIN definitions[s]
                  PROVE  /\ DOMAIN definitions'[s] = DOMAIN definitions[s]
                         /\ definitions'[s][m].defines = definitions[s][m].defines
                         /\ definitions'[s][m].outer = definitions[s][m].outer
                         /\ definitions'[s][m].seen = definitions[s][m].seen
                         /\ s # Component \/ m # n => definitions'[s][m].refs = definitions[s][m].refs
      BY <1>11, <1>14
    <2>1. CASE s # Component
      BY <1>11, <2>1
    <2>2. CASE s = Component /\ m # n
      BY <1>14, <2>2
    <2>3. CASE s = Component /\ m = n
      BY <1>9, <1>14, <2>3 DEF old
    <2>. QED  BY <2>1, <2>2, <2>3, <1>11, <1>14
  <1>16. Exporting <=> Exporting'
    BY <1>1, <1>15 DEF Exporting
  <1>17. /\ counters' = counters /\ space' = space /\ abi' = abi /\ existing' = existing
         /\ cached' = cached /\ instances' = instances /\ interfaces' = interfaces /\ core' = core
         /\ inlineExports' = inlineExports /\ returned' = returned /\ result' = result
    BY <1>2 DEF linker
  <1>18. /\ AgendaPlaced' /\ AgendaOrdered' /\ Chained' /\ Coming' /\ IsSequence(agenda') /\ Called'
         /\ \A m \in DOMAIN agenda' : agenda'[m][1] # "modules"
         /\ \A m \in DOMAIN agenda' : agenda'[m][1] = "import" => instances'[agenda'[m][3]] = Absent
         /\ (Pending' <=> Pending)
         /\ \A m \in DOMAIN agenda' : agenda'[m][1] = "primitive" =>
              \E k \in DOMAIN agenda : agenda'[m] = agenda[k]
    <2>1. Gives(h) = NoIndex
      BY <1>0 DEF Gives
    <2>2. \A m \in DOMAIN definitions[Component] :
            m \in DOMAIN definitions'[Component]
            /\ definitions'[Component][m].seen = definitions[Component][m].seen
      BY <1>1, <1>15
    <2>. QED  BY <1>0, <1>2, <1>17, <2>1, <2>2, NothingLeft
  <1>19. TypeOK'
    BY <1>13, <1>17, <1>18 DEF LinkerInv, TypeOK, Called, IsSequence
  <1>20. Counted'
    BY <1>16, <1>17, <1>18 DEF LinkerInv, Counted
  <1>21. Memos'
    BY <1>16, <1>17 DEF LinkerInv, Memos, Found
  <1>22. Written'
    BY <1>15, <1>16, <1>17 DEF LinkerInv, Written, Sound, Found
  <1>23. ReferencesResolve'
    <2>. SUFFICES ASSUME NEW s \in Scopes, NEW m \in DOMAIN definitions'[s],
                         NEW ref \in definitions'[s][m].refs
                  PROVE  /\ ref.index \in 0..definitions'[s][m].seen[ref.sort] - 1
                         /\ \/ Denotes(space'[s][ref.sort][ref.index + 1], ref.means)
                            \/ ref.sort = "componentInstance" /\ AfterExport(s, m)'
      BY DEF ReferencesResolve, Denotes
    <2>1. m \in DOMAIN definitions[s] /\ definitions'[s][m].seen = definitions[s][m].seen
      BY <1>15
    <2>2. CASE ref \in definitions[s][m].refs
      <3>1. /\ ref.index \in 0..definitions[s][m].seen[ref.sort] - 1
            /\ \/ Denotes(space[s][ref.sort][ref.index + 1], ref.means)
               \/ ref.sort = "componentInstance" /\ AfterExport(s, m)
        BY <2>1, <2>2 DEF LinkerInv, ReferencesResolve
      <3>2. AfterExport(s, m) => AfterExport(s, m)'
        <4>1. definitions[s] \in Seq(Definitions)
          BY <1>4
        <4>2. \A k \in 1..m - 1 : k \in DOMAIN definitions[s]
          BY <2>1, <4>1
        <4>. QED  BY <1>15, <4>2 DEF AfterExport
      <3>. QED  BY <1>17, <2>1, <3>1, <3>2
    <2>3. CASE ref \notin definitions[s][m].refs
      <3>1. s = Component /\ m = n
        BY <1>15, <2>1, <2>3
      <3>2. definitions'[s][m] = def /\ ref = new
        BY <1>9, <1>14, <2>1, <2>3, <3>1 DEF old
      <3>. QED  BY <1>8, <1>9, <1>17, <3>1, <3>2
    <2>. QED  BY <2>2, <2>3
  <1>24. ImportedOnce'
    BY <1>1, <1>15 DEF LinkerInv, ImportedOnce
  <1>25. Inlined'
    BY <1>16, <1>17 DEF LinkerInv, Inlined, Sound, Found
  <1>26. Imports'
    BY <1>1, <1>15, <1>17, <1>18 DEF LinkerInv, Imports
  <1>27. Started'
    <2>1. agenda' # <<>> => agenda'[1][1] # "modules"
      <3>1. IsSequence(<<>>)
        BY NothingApplies
      <3>. QED  BY <1>0, <1>1, <1>2, <1>18, <3>1, Positions
    <2>2. core["libc"] # Absent /\ Found(<<Component, "coreModule", <<"module", "program">>>>, 1)
      BY <1>0, <1>1 DEF LinkerInv, Started
    <2>. QED  BY <1>16, <1>17, <2>1, <2>2 DEF Started, Found
  <1>. QED  BY <1>18, <1>19, <1>20, <1>21, <1>22, <1>23, <1>24, <1>25, <1>26, <1>27 DEF LinkerInv

\* The index of a primitive is counted; the types that come before its definition
\* define no core function.
LEMMA AllocateStep == LinkerInv /\ Allocate => LinkerInv'
  <1>. SUFFICES ASSUME LinkerInv, Allocate, NEW h, h = Head(agenda),
                       NEW types, types = abi.imports[h[3]].types,
                       NEW index, index = Fresh(Component, "coreFunction")
                PROVE  LinkerInv'
    OBVIOUS
  <1>. DEFINE k == h[3]
              c == Call("primitive", Component, <<k, index>>)
              P == Each("type", Component, types)
              M == <<c>>
              L == P \o M
  <1>1. /\ agenda # <<>> /\ h[1] = "allocate" /\ Then(L)
        /\ increment(Component, "coreFunction")
        /\ UNCHANGED <<abi, result, definitions, space, linker, inlineExports, returned>>
    BY DEF Allocate, At, This, Here
  <1>2. /\ Component \in Scopes /\ returned \in Index /\ h = agenda[1] /\ IsSequence(agenda)
        /\ k \in DOMAIN abi.imports /\ abi \in Abis /\ Placed(h)
        /\ \A o \in NeedsOptions(h) : cached[o] # Absent
    BY <1>1, Current DEF Operands, Scopes, LinkerInv, TypeOK
  <1>3. types \in Seq(Types)
    BY <1>2, AbiTyped
  <1>4. /\ h[1] \notin Typing /\ h[2] = Component /\ Gives(h) = NoIndex
        /\ NeedsOptions(h) = ToSet(abi.imports[k].options)
    <2>1. h[1] \notin Typing
      BY <1>1 DEF Typing, InterfaceCalls, InterfaceTypeCalls
    <2>2. Gives(h) = NoIndex
      BY <1>1 DEF Gives
    <2>3. NeedsOptions(h) = ToSet(abi.imports[k].options)
      BY <1>1 DEF NeedsOptions
    <2>. QED  BY <1>2, <2>1, <2>2, <2>3 DEF Placed
  <1>5. ~Pending /\ Counted
    BY <1>1, <1>4, NotPending DEF LinkerInv
  <1>6. /\ index = Len(space[Component]["coreFunction"]) /\ index \in Nat
        /\ counters \in [Scopes -> [Sorts -> Nat]] /\ "coreFunction" \in Sorts
    <2>1. index = Len(space[Component]["coreFunction"]) + 0
      BY <1>5 DEF Counted, Fresh
    <2>2. Len(space[Component]["coreFunction"]) \in Nat /\ "coreFunction" \in Sorts
      BY <1>2 DEF LinkerInv, TypeOK, Sorts
    <2>. QED  BY <2>1, <2>2 DEF LinkerInv, TypeOK
  <1>7. /\ c[1] = "primitive" /\ c[2] = Component /\ c[3] = <<k, index>>
        /\ c[3][1] = k /\ c[3][2] = index
    BY DEF Call
  <1>8. /\ IsSequence(P) /\ Len(P) = Len(types) /\ Len(types) \in Nat
        /\ \A n \in 1..Len(P) : types[n] \in Types /\ P[n] = Call("type", Component, types[n])
    BY <1>3, EachSequence
  <1>9. IsSequence(M) /\ 1..Len(M) = {1} /\ M[1] = c
    BY Short
  <1>. HIDE DEF P, M, L
  <1>10. /\ IsSequence(L) /\ Len(L) = Len(types) + 1
         /\ \A n \in 1..Len(types) : L[n] = Call("type", Component, types[n])
         /\ L[Len(types) + 1] = c
    <2>1. Len(M) = 1
      BY DEF M
    <2>2. /\ IsSequence(L) /\ Len(L) = Len(P) + Len(M)
          /\ \A n \in 1..Len(L) : L[n] = IF n <= Len(P) THEN P[n] ELSE M[n - Len(P)]
      BY <1>8, <1>9, Joined DEF L
    <2>3. Len(types) + 1 \in 1..Len(L) /\ ~(Len(types) + 1 <= Len(P))
          /\ Len(types) + 1 - Len(P) = 1
          /\ \A n \in 1..Len(types) : n \in 1..Len(L) /\ n <= Len(P)
      <3>1. \A a, b, p : a \in Nat /\ p = a /\ b = p + 1 =>
              /\ a + 1 \in 1..b /\ ~(a + 1 <= p) /\ a + 1 - p = 1
              /\ \A n \in 1..a : n \in 1..b /\ n <= p
        OBVIOUS
      <3>2. Len(types) \in Nat /\ Len(P) = Len(types) /\ Len(L) = Len(P) + 1
        BY <1>8, <2>1, <2>2
      <3>. QED  BY <3>1, <3>2
    <2>4. L[Len(types) + 1] = c
      BY <1>9, <2>2, <2>3
    <2>5. \A n \in 1..Len(types) : L[n] = P[n]
      BY <2>2, <2>3
    <2>6. \A n \in 1..Len(types) : P[n] = Call("type", Component, types[n])
      BY <1>8
    <2>7. Len(L) = Len(types) + 1
      BY <1>8, <2>1, <2>2
    <2>. QED  BY <2>2, <2>4, <2>5, <2>6, <2>7
  <1>. HIDE DEF c, k
  <1>11. \A n \in 1..Len(L) : \/ n \in 1..Len(types) /\ L[n][1] = "type" /\ L[n][2] = Component
                                 /\ L[n][3] \in Types
                              \/ n = Len(types) + 1 /\ L[n] = c
    <2>1. TAKE n \in 1..Len(L)
    <2>2. CASE n \in 1..Len(types)
      BY <1>8, <1>10, <2>2 DEF Call
    <2>3. CASE n = Len(types) + 1
      BY <1>10, <2>3
    <2>4. n \in 1..Len(types) \/ n = Len(types) + 1
      BY <1>8, <1>10
    <2>. QED  BY <2>2, <2>3, <2>4
  <1>12. /\ definitions' = definitions /\ space' = space /\ abi' = abi /\ existing' = existing
         /\ cached' = cached /\ instances' = instances /\ interfaces' = interfaces /\ core' = core
         /\ inlineExports' = inlineExports /\ returned' = returned /\ result' = result
    BY <1>1 DEF linker
  <1>13. AgendaPlaced' /\ AgendaOrdered' /\ Chained' /\ Coming' /\ IsSequence(agenda')
    <2>1. \A n \in 1..Len(L) : Placed(L[n])
      <3>1. TAKE n \in 1..Len(L)
      <3>2. L[n][2] = Component /\ L[n][1] \in {"type", "primitive"}
        BY <1>7, <1>11
      <3>. QED  BY <3>2, ComponentAssumption
                DEF Placed, TypeCalls, InterfaceTypeCalls, InterfaceCalls
    <2>2. \A n \in 1..Len(L) : \A d : Ordered(h, d) => Ordered(L[n], d)
      <3>1. TAKE n \in 1..Len(L)
      <3>2. L[n][2] = h[2] /\ h[1] # "interfaceType"
        BY <1>1, <1>4, <1>7, <1>11
      <3>. QED  BY <1>4, <3>2, Inherit
    <2>3. \A m, n \in 1..Len(L) : m < n => Ordered(L[m], L[n])
      <3>. SUFFICES ASSUME NEW m \in 1..Len(L), NEW n \in 1..Len(L), m < n
                    PROVE  Ordered(L[m], L[n])
        OBVIOUS
      <3>1. L[m][2] = Component /\ L[n][2] = Component
        BY <1>7, <1>11
      <3>2. L[n][1] \in {"type", "primitive"}
        BY <1>7, <1>11
      <3>3. L[m][1] = "type"
        BY <1>8, <1>10, <1>11
      <3>. QED  BY <1>2, <3>1, <3>2, <3>3, ScopeWithin DEF Ordered, Typing
    <2>4. \A n \in 1..Len(L) : Takes(L[n])' = NoIndex
      <3>1. \A d : d[1] \in {"type", "primitive"} => Takes(d)' = NoIndex
        BY DEF Takes
      <3>. QED  BY <1>7, <1>11, <3>1
    <2>5. \A n \in 1..Len(L) : Supplied(L, n)'
      <3>. SUFFICES ASSUME NEW n \in 1..Len(L), NEW d, d = L[n] PROVE Supplied(L, n)'
        OBVIOUS
      <3>1. CASE n \in 1..Len(types) /\ d[1] = "type"
        <4>1. NeedsTypes(d)' = {} /\ NeedsOptions(d)' = {}
          BY <3>1 DEF NeedsTypes, NeedsOptions
        <4>. QED  BY <3>1, <4>1 DEF Supplied
      <3>2. CASE n = Len(types) + 1 /\ d = c
        <4>1. NeedsTypes(d)' = ToSet(types)
          BY <1>7, <1>12, <3>2 DEF NeedsTypes, k
        <4>2. NeedsOptions(d)' = NeedsOptions(h)
          BY <1>4, <1>7, <1>12, <3>2 DEF NeedsOptions
        <4>3. ASSUME NEW t \in ToSet(types) PROVE TypeComes(L, n, Component, t)
          <5>1. PICK m \in 1..Len(types) : types[m] = t
            BY <1>3, <4>3, LenProperties DEF ToSet
          <5>2. L[m][1] = "type" /\ L[m][2] = Component /\ L[m][3] = t
            BY <1>10, <5>1 DEF Call
          <5>3. m \in 1..n - 1
            BY <1>8, <3>2
          <5>. QED  BY <5>2, <5>3 DEF TypeComes
        <4>. QED  BY <1>2, <1>7, <1>12, <3>2, <4>1, <4>2, <4>3 DEF Supplied
      <3>. QED  BY <1>11, <3>1, <3>2
    <2>6. h[1] \notin {"type", "define", "remember", "require"}
      BY <1>1
    <2>. QED  BY <1>1, <1>2, <1>4, <1>10, <1>12, <2>1, <2>2, <2>3, <2>4, <2>5, <2>6, AgendaStep
              DEF LinkerInv
  <1>14. /\ Called'
         /\ \A n \in DOMAIN agenda' : agenda'[n][1] # "modules"
         /\ \A n \in DOMAIN agenda' : agenda'[n][1] = "import" => instances'[agenda'[n][3]] = Absent
    <2>1. \A n \in 1..Len(L) : L[n][2] \in Scopes /\ L[n][3] \in Operands(L[n][1])'
      <3>. SUFFICES ASSUME NEW n \in 1..Len(L), NEW d, d = L[n]
                    PROVE  d[2] \in Scopes /\ d[3] \in Operands(d[1])'
        OBVIOUS
      <3>1. CASE d[1] = "type" /\ d[2] = Component /\ d[3] \in Types
        BY <1>2, <3>1 DEF Operands
      <3>2. CASE d = c
        <4>1. <<k, index>> \in Operands("primitive")'
          BY <1>2, <1>6, <1>12 DEF Operands
        <4>. QED  BY <1>2, <1>7, <3>2, <4>1
      <3>. QED  BY <1>11, <3>1, <3>2
    <2>2. \A n \in 1..Len(L) : L[n][1] # "modules" /\ L[n][1] # "import"
      BY <1>7, <1>11
    <2>3. TypeOK /\ AgendaPlaced /\ AgendaOrdered /\ Imports
      BY DEF LinkerInv
    <2>. QED  BY <1>1, <1>2, <1>10, <1>12, <2>1, <2>2, <2>3, CallsStep
  <1>15. /\ Pending'
         /\ \A n \in DOMAIN agenda' : agenda'[n][1] = "primitive" => agenda'[n] = c
    <2>1. \A n \in DOMAIN agenda' :
              \/ \E m \in 1..Len(L) : agenda'[n] = L[m]
              \/ \E j \in DOMAIN agenda : j > 1 /\ agenda'[n] = agenda[j]
      BY <1>1, <1>2, <1>10, Positions
    <2>2. \A j \in DOMAIN agenda : agenda[j][1] # "primitive"
      BY <1>5 DEF Pending
    <2>3. \A n \in DOMAIN agenda' : agenda'[n][1] = "primitive" => agenda'[n] = c
      BY <1>11, <2>1, <2>2
    <2>4. Len(L) \in 1..Len(L) /\ L[Len(L)] = c /\ Len(L) \in DOMAIN agenda'
          /\ agenda'[Len(L)] = L[Len(L)]
      <3>1. /\ DOMAIN agenda' = 1..Len(agenda') /\ Len(agenda) \in Nat \ {0}
            /\ Len(agenda') = Len(L) + Len(agenda) - 1
            /\ \A n \in 1..Len(L) : agenda'[n] = L[n]
        BY <1>1, <1>2, <1>10, Replaced
      <3>2. Len(L) \in Nat \ {0} /\ Len(L) = Len(types) + 1
        BY <1>8, <1>10
      <3>3. Len(L) \in 1..Len(L) /\ Len(L) \in DOMAIN agenda'
        <4>1. \A a, b, p : a \in Nat \ {0} /\ p \in Nat \ {0} /\ b = a + p - 1 =>
                a \in 1..a /\ a \in 1..b
          OBVIOUS
        <4>. QED  BY <3>1, <3>2, <4>1
      <3>4. agenda'[Len(L)] = L[Len(L)]
        BY <3>1, <3>3
      <3>. QED  BY <1>10, <3>2, <3>3, <3>4
    <2>. QED  BY <1>7, <2>3, <2>4 DEF Pending
  <1>16. /\ counters' \in [Scopes -> [Sorts -> Nat]]
         /\ \A s \in Scopes : \A q \in Sorts :
              s # Component \/ q # "coreFunction" => counters'[s][q] = counters[s][q]
         /\ counters'[Component]["coreFunction"] = counters[Component]["coreFunction"] + 1
    <2>1. counters' = [counters EXCEPT ![Component]["coreFunction"] = @ + 1]
      BY <1>1 DEF increment
    <2>2. [counters[Component] EXCEPT !["coreFunction"] = @ + 1] \in [Sorts -> Nat]
      BY <1>2, <1>6
    <2>3. counters' = [counters EXCEPT ![Component] =
                         [counters[Component] EXCEPT !["coreFunction"] = @ + 1]]
      BY <2>1
    <2>4. counters' \in [Scopes -> [Sorts -> Nat]]
      BY <1>2, <1>6, <2>2, <2>3
    <2>. QED  BY <1>2, <1>6, <2>1, <2>4
  <1>17. Counted'
    <2>1. counters'[Component]["coreFunction"] = Len(space'[Component]["coreFunction"]) + 1
      BY <1>6, <1>12, <1>16 DEF Fresh
    <2>2. \A n \in DOMAIN agenda' : agenda'[n][1] = "primitive" =>
            agenda'[n][3][2] = Len(space'[Component]["coreFunction"])
      BY <1>6, <1>7, <1>12, <1>15
    <2>3. \A s \in Scopes : \A q \in Sorts :
            s # Component \/ q \notin {"coreFunction", "componentInstance"} =>
              counters'[s][q] = Len(space'[s][q])
      BY <1>5, <1>12, <1>16 DEF Counted
    <2>4. counters'[Component]["componentInstance"] = counters[Component]["componentInstance"]
      BY <1>2, <1>16 DEF Sorts
    <2>5. /\ counters'[Component]["componentInstance"] <= Len(space'[Component]["componentInstance"])
          /\ ~Exporting' => counters'[Component]["componentInstance"] =
                            Len(space'[Component]["componentInstance"])
      BY <1>5, <1>12, <2>4 DEF Counted, Exporting
    <2>. QED  BY <1>15, <2>1, <2>2, <2>3, <2>5 DEF Counted
  <1>18. TypeOK'
    BY <1>12, <1>13, <1>14, <1>16 DEF LinkerInv, TypeOK, Called, IsSequence
  <1>19. Memos'
    BY <1>12 DEF LinkerInv, Memos, Found, Exporting
  <1>20. Written' /\ ReferencesResolve' /\ ImportedOnce'
    <2>1. Written'
      BY <1>12 DEF LinkerInv, Written, Sound, Found, Exporting
    <2>2. ReferencesResolve'
      BY <1>12 DEF LinkerInv, ReferencesResolve, AfterExport
    <2>3. ImportedOnce'
      BY <1>12 DEF LinkerInv, ImportedOnce
    <2>. QED  BY <2>1, <2>2, <2>3
  <1>21. Inlined'
    BY <1>12 DEF LinkerInv, Inlined, Sound, Found, Exporting
  <1>22. Imports'
    BY <1>12, <1>14 DEF LinkerInv, Imports
  <1>23. Started'
    <2>1. agenda' # <<>> => agenda'[1][1] # "modules"
      BY <1>1, <1>2, <1>10, <1>14, Positions
    <2>2. core["libc"] # Absent /\ Found(<<Component, "coreModule", <<"module", "program">>>>, 1)
      BY <1>1, <1>2 DEF LinkerInv, Started
    <2>. QED  BY <1>12, <2>1, <2>2 DEF Started, Found, Exporting
  <1>. QED  BY <1>13, <1>14, <1>17, <1>18, <1>19, <1>20, <1>21, <1>22, <1>23 DEF LinkerInv

\* The calls for an interface come before whatever its interfaceType comes before.
LEMMA InInterface ==
  ASSUME NEW h, NEW i \in Interfaces, h[1] = "interfaceType", h[3] = i, h[2] \in Scopes, Placed(h),
         NEW c, c[2] = i, c[1] \in Typing, NEW d, Ordered(h, d)
  PROVE  Ordered(c, d)
  <1>1. Under(i, h[2]) /\ Within(h[2], d[2]) /\ d[1] # "modules"
    BY DEF Placed, Ordered
  <1>2. i # Component /\ Component \notin Interfaces
    BY ComponentAssumption
  <1>3. /\ \A j \in Interfaces : Depth[j] \in Nat
        /\ h[2] # Component => h[2] \in Interfaces
    BY DepthAssumption DEF Scopes
  <1>4. Within(i, d[2])
    <2>1. CASE d[2] = Component
      BY <2>1 DEF Within
    <2>2. CASE d[2] # Component
      <3>1. /\ h[2] \in Interfaces /\ d[2] \in Interfaces
            /\ Depth[i] < Depth[h[2]] /\ Depth[h[2]] <= Depth[d[2]]
        BY <1>1, <1>3, <2>2 DEF Within, Under
      <3>2. Depth[i] <= Depth[d[2]]
        BY <1>3, <3>1
      <3>. QED  BY <1>2, <3>1, <3>2 DEF Within
    <2>. QED  BY <2>1, <2>2
  <1>5. ASSUME d[1] = "import"
        PROVE  c[2] \in Interfaces /\ d[3] \in Interfaces /\ Depth[c[2]] <= Depth[d[3]]
    <2>1. \/ d[3] = i
          \/ h[2] \in Interfaces /\ d[3] \in Interfaces /\ Depth[h[2]] <= Depth[d[3]]
      BY <1>5 DEF Ordered
    <2>2. CASE d[3] = i
      BY <1>3, <2>2
    <2>3. CASE h[2] \in Interfaces /\ d[3] \in Interfaces /\ Depth[h[2]] <= Depth[d[3]]
      <3>1. Depth[i] < Depth[h[2]]
        BY <1>1, <1>2, <2>3 DEF Under
      <3>2. Depth[i] <= Depth[d[3]]
        BY <1>3, <2>3, <3>1
      <3>. QED  BY <2>3, <3>2
    <2>. QED  BY <2>1, <2>2, <2>3
  <1>. QED  BY <1>1, <1>4, <1>5 DEF Ordered

\* The type of an interface is put together by calls for what it exports.
Begins(h, L) ==
  /\ Expands(h, L) /\ IsSequence(L) /\ Len(L) # 0
  /\ \A n \in 1..Len(L) : L[n][1] \in {"exportType", "exportFunction", "endInterface"}

\* These calls may come there.
LEMMA InterfaceExpands ==
  ASSUME NEW h, NEW i \in Interfaces, h[1] = "interfaceType", h[3] = i, h[2] \in Scopes, Placed(h),
         NEW P, P = Each("exportType", i, ExportedTypes[i])
                    \o Each("exportFunction", i, ExportedFunctions[i]),
         NEW M, M = <<Call("endInterface", i, i)>>
  PROVE  Begins(h, P \o M)
  <1>. DEFINE T == Each("exportType", i, ExportedTypes[i])
              F == Each("exportFunction", i, ExportedFunctions[i])
              e == Call("endInterface", i, i)
  <1>1. /\ ExportedTypes[i] \in Seq(Types) /\ ExportedFunctions[i] \in Seq(Funcs)
        /\ ToSet(ExportedTypes[i]) \subseteq Types /\ ToSet(ExportedFunctions[i]) \subseteq Funcs
    BY AbiAssumption DEF ToSet
  <1>2. /\ ToSet(ExportedTypes[i]) \subseteq Mentions(i)
        /\ \A f \in ToSet(ExportedFunctions[i]) : ToSet(Signature[f]) \subseteq Mentions(i)
    BY MentionsClosed
  <1>3. \A x \in ToSet(ExportedTypes[i]) : Follows(h, i, Call("exportType", i, x))
    <2>. SUFFICES ASSUME NEW x \in ToSet(ExportedTypes[i]), NEW c, c = Call("exportType", i, x)
                  PROVE  Follows(h, i, c)
      OBVIOUS
    <2>1. /\ c[1] = "exportType" /\ c[2] = i /\ c[3] = x /\ c[1] \in Typing
          /\ x \in Operands("exportType")
      BY <1>1 DEF Call, Operands, Typing, InterfaceCalls, InterfaceTypeCalls
    <2>2. Placed(c)
      BY <1>2, <2>1 DEF Placed, Typing, InterfaceCalls, InterfaceTypeCalls, TypeCalls
    <2>3. \A d : Ordered(h, d) => Ordered(c, d)
      BY <2>1, InInterface
    <2>. QED  BY <2>1, <2>2, <2>3 DEF Follows
  <1>4. \A x \in ToSet(ExportedFunctions[i]) : Follows(h, i, Call("exportFunction", i, x))
    <2>. SUFFICES ASSUME NEW x \in ToSet(ExportedFunctions[i]), NEW c,
                         c = Call("exportFunction", i, x)
                  PROVE  Follows(h, i, c)
      OBVIOUS
    <2>1. /\ c[1] = "exportFunction" /\ c[2] = i /\ c[3] = x /\ c[1] \in Typing
          /\ x \in Operands("exportFunction")
      BY <1>1 DEF Call, Operands, Typing, InterfaceCalls, InterfaceTypeCalls
    <2>2. Placed(c)
      BY <1>2, <2>1 DEF Placed, Typing, InterfaceCalls, InterfaceTypeCalls, TypeCalls
    <2>3. \A d : Ordered(h, d) => Ordered(c, d)
      BY <2>1, InInterface
    <2>. QED  BY <2>1, <2>2, <2>3 DEF Follows
  <1>5. Follows(h, i, e)
    <2>. SUFFICES ASSUME NEW c, c = e PROVE Follows(h, i, c)
      OBVIOUS
    <2>1. /\ c[1] = "endInterface" /\ c[2] = i /\ c[3] = i /\ c[1] \in Typing
          /\ i \in Operands("endInterface")
      BY DEF Call, Operands, Typing, InterfaceCalls, InterfaceTypeCalls
    <2>2. Placed(c)
      BY <2>1 DEF Placed, Typing, InterfaceCalls, InterfaceTypeCalls, TypeCalls
    <2>3. \A d : Ordered(h, d) => Ordered(c, d)
      BY <2>1, InInterface
    <2>. QED  BY <2>1, <2>2, <2>3 DEF Follows
  <1>6. "exportType" \in Free /\ "exportFunction" \in Free
    BY DEF Free
  <1>7. Frees(h, i, T) /\ Frees(h, i, F)
    <2>1. Frees(h, i, T)
      BY <1>1, <1>3, <1>6, EachFollows DEF Frees
    <2>2. Frees(h, i, F)
      BY <1>1, <1>4, <1>6, EachFollows DEF Frees
    <2>. QED  BY <2>1, <2>2
  <1>8. \A n \in 1..Len(T) : T[n][1] = "exportType"
    BY <1>1, EachSequence DEF Call
  <1>9. \A n \in 1..Len(F) : F[n][1] = "exportFunction"
    BY <1>1, EachSequence DEF Call
  <1>10. /\ e[1] = "endInterface" /\ Takes(e) = NoIndex /\ Gives(e) = Gives(h)
         /\ NeedsTypes(e) = {} /\ NeedsOptions(e) = {}
    BY DEF Call, Takes, Gives, NeedsTypes, NeedsOptions
  <1>11. P = T \o F /\ M = <<e>>
    OBVIOUS
  <1>. HIDE DEF T, F, e
  <1>12. Frees(h, i, P)
    BY <1>7, <1>11, BothFree
  <1>13. IsSequence(M) /\ Len(M) = 1 /\ 1..Len(M) = {1} /\ M[1] = e
    BY <1>11, Short
  <1>14. /\ \A n \in 1..Len(M) : Follows(h, i, M[n])
         /\ \A n \in 1..Len(M) : M[n][1] \notin {"modules", "primitive", "import", "apply"}
         /\ \A n \in 1..Len(M) : Takes(M[n]) = NoIndex
         /\ \A n \in 1..Len(M) : NeedsTypes(M[n]) = {} /\ NeedsOptions(M[n]) = {}
    BY <1>5, <1>10, <1>13
  <1>15. Len(M) # 0 /\ M[Len(M)] = e
    BY <1>13
  <1>16. Listed(h, i, P, M)
    BY <1>10, <1>12, <1>13, <1>14, <1>15 DEF Listed, Frees
  <1>17. i \in Scopes
    BY DEF Scopes
  <1>18. Expands(h, P \o M) /\ IsSequence(P \o M)
    BY <1>16, <1>17, ExpandsList
  <1>19. /\ Len(P) \in Nat /\ Len(M) \in Nat /\ Len(P \o M) = Len(P) + Len(M)
         /\ \A n \in 1..Len(P \o M) :
              (P \o M)[n] = IF n <= Len(P) THEN P[n] ELSE M[n - Len(P)]
    BY <1>12, <1>13, Joined DEF Frees
  <1>20. \A n \in 1..Len(P) : P[n][1] \in {"exportType", "exportFunction"}
    <2>1. /\ Len(T) \in Nat /\ Len(F) \in Nat /\ Len(P) = Len(T) + Len(F)
          /\ \A n \in 1..Len(P) : P[n] = IF n <= Len(T) THEN T[n] ELSE F[n - Len(T)]
      <3>1. IsSequence(T) /\ IsSequence(F)
        BY <1>7 DEF Frees
      <3>2. /\ Len(T) \in Nat /\ Len(F) \in Nat /\ Len(T \o F) = Len(T) + Len(F)
            /\ \A n \in 1..Len(T \o F) : (T \o F)[n] = IF n <= Len(T) THEN T[n] ELSE F[n - Len(T)]
        BY <3>1, Joined
      <3>. QED  BY <1>11, <3>2
    <2>. SUFFICES ASSUME NEW n \in 1..Len(P) PROVE P[n][1] \in {"exportType", "exportFunction"}
      OBVIOUS
    <2>2. CASE n <= Len(T)
      <3>1. n \in 1..Len(T) /\ P[n] = T[n]
        BY <2>1, <2>2
      <3>. QED  BY <1>8, <3>1
    <2>3. CASE ~(n <= Len(T))
      <3>1. n - Len(T) \in 1..Len(F) /\ P[n] = F[n - Len(T)]
        BY <2>1, <2>3
      <3>. QED  BY <1>9, <3>1
    <2>. QED  BY <2>2, <2>3
  <1>21. \A n \in 1..Len(P \o M) :
           (P \o M)[n][1] \in {"exportType", "exportFunction", "endInterface"}
    <2>. SUFFICES ASSUME NEW n \in 1..Len(P \o M)
                  PROVE  (P \o M)[n][1] \in {"exportType", "exportFunction", "endInterface"}
      OBVIOUS
    <2>1. CASE n <= Len(P)
      <3>1. n \in 1..Len(P) /\ (P \o M)[n] = P[n]
        BY <1>19, <2>1
      <3>. QED  BY <1>20, <3>1
    <2>2. CASE ~(n <= Len(P))
      <3>1. n - Len(P) = 1 /\ (P \o M)[n] = M[n - Len(P)]
        BY <1>13, <1>19, <2>2
      <3>. QED  BY <1>10, <1>13, <3>1
    <2>. QED  BY <2>1, <2>2
  <1>22. Len(P \o M) # 0
    BY <1>13, <1>19
  <1>. QED  BY <1>18, <1>21, <1>22 DEF Begins

\* What the scope of an interface holds when its type is begun.
Reset(i) ==
  /\ i # Component /\ i \in Scopes
  /\ existing' \in [Scopes -> [Types -> Index]] /\ counters' \in [Scopes -> [Sorts -> Nat]]
  /\ definitions' \in [Scopes -> Seq(Definitions)] /\ space' \in SpaceType
  /\ \A t \in Types : existing'[i][t] = Absent
  /\ \A sort \in Sorts : counters'[i][sort] = 0 /\ Len(space'[i][sort]) = 0
  /\ DOMAIN definitions'[i] = {}
  /\ \A s \in Scopes : s # i => /\ existing'[s] = existing[s] /\ counters'[s] = counters[s]
                                /\ definitions'[s] = definitions[s] /\ space'[s] = space[s]

\* Nothing of the interface is there.
LEMMA ResetScope ==
  ASSUME TypeOK, NEW i \in Interfaces,
         existing' = [existing EXCEPT ![i] = NoTypes],
         counters' = [counters EXCEPT ![i] = Zero],
         definitions' = [definitions EXCEPT ![i] = <<>>],
         space' = [space EXCEPT ![i] = Nothing]
  PROVE  Reset(i)
  <1>1. i # Component /\ i \in Scopes
    BY ComponentAssumption DEF Scopes
  <1>2. /\ existing \in [Scopes -> [Types -> Index]] /\ counters \in [Scopes -> [Sorts -> Nat]]
        /\ definitions \in [Scopes -> Seq(Definitions)] /\ space \in [Scopes -> [Sorts -> Seq(Entities)]]
    BY DEF TypeOK
  <1>3. NoTypes \in [Types -> Index] /\ \A t \in Types : NoTypes[t] = Absent
    BY DEF NoTypes, Index, Absent
  <1>4. Zero \in [Sorts -> Nat] /\ \A sort \in Sorts : Zero[sort] = 0
    BY DEF Zero
  <1>5. /\ <<>> \in Seq(Definitions) /\ <<>> \in Seq(Entities) /\ Len(<<>>) = 0 /\ DOMAIN <<>> = {}
    BY EmptySeq
  <1>6. Nothing \in [Sorts -> Seq(Entities)] /\ \A sort \in Sorts : Nothing[sort] = <<>>
    BY <1>5 DEF Nothing
  <1>7. existing' \in [Scopes -> [Types -> Index]] /\ existing'[i] = NoTypes
    BY <1>1, <1>2, <1>3
  <1>8. counters' \in [Scopes -> [Sorts -> Nat]] /\ counters'[i] = Zero
    BY <1>1, <1>2, <1>4
  <1>9. definitions' \in [Scopes -> Seq(Definitions)] /\ definitions'[i] = <<>>
    BY <1>1, <1>2, <1>5
  <1>10. space' \in SpaceType /\ space'[i] = Nothing
    BY <1>1, <1>2, <1>6 DEF SpaceType
  <1>11. \A s \in Scopes : s # i => /\ existing'[s] = existing[s] /\ counters'[s] = counters[s]
                                    /\ definitions'[s] = definitions[s] /\ space'[s] = space[s]
    BY <1>2
  <1>. QED  BY <1>1, <1>3, <1>4, <1>5, <1>6, <1>7, <1>8, <1>9, <1>10, <1>11 DEF Reset

\* The type of an interface is begun.
LEMMA InterfaceTypeStep == LinkerInv /\ InterfaceType => LinkerInv'
  <1>. SUFFICES ASSUME LinkerInv, InterfaceType, NEW h, h = Head(agenda), NEW i, i = h[3]
                PROVE  LinkerInv'
    OBVIOUS
  <1>a. /\ agenda # <<>> /\ h[1] = "interfaceType"
        /\ existing' = [existing EXCEPT ![i] = NoTypes]
        /\ counters' = [counters EXCEPT ![i] = Zero]
        /\ definitions' = [definitions EXCEPT ![i] = <<>>]
        /\ space' = [space EXCEPT ![i] = Nothing]
        /\ UNCHANGED <<abi, result, instances, interfaces, cached, core, inlineExports, returned>>
    BY DEF InterfaceType, At, This
  <1>2. /\ i \in Interfaces /\ h[2] \in Scopes /\ Placed(h) /\ h = agenda[1] /\ IsSequence(agenda)
    <2>1. h[3] \in Operands(h[1]) /\ h[2] \in Scopes /\ Placed(h) /\ h = agenda[1] /\ IsSequence(agenda)
      BY <1>a, Current
    <2>. QED  BY <1>a, <2>1 DEF Operands
  <1>3. Reset(i)
    BY <1>a, <1>2, ResetScope DEF LinkerInv
  <1>b. SUFFICES ASSUME NEW L, Begins(h, L), Then(L) PROVE LinkerInv'
    <2>1. SUFFICES ASSUME NEW P, P = Each("exportType", i, ExportedTypes[i])
                                     \o Each("exportFunction", i, ExportedFunctions[i]),
                          NEW M, M = <<Call("endInterface", i, i)>>
                   PROVE  Begins(h, P \o M) /\ Then(P \o M)
      OBVIOUS
    <2>2. Begins(h, P \o M)
      BY <1>a, <1>2, <2>1, InterfaceExpands
    <2>3. Then(P \o M)
      BY <2>1 DEF InterfaceType, This
    <2>. QED  BY <2>2, <2>3
  <1>1. /\ agenda # <<>> /\ h[1] = "interfaceType" /\ Then(L)
        /\ UNCHANGED <<abi, result, instances, interfaces, cached, core, inlineExports, returned>>
    BY <1>a, <1>b
  <1>4. /\ Expands(h, L) /\ IsSequence(L) /\ Len(L) # 0
        /\ \A n \in 1..Len(L) : L[n][1] \in {"exportType", "exportFunction", "endInterface"}
    BY <1>b DEF Begins
  <1>5. /\ Component \in Scopes /\ Component # i
        /\ definitions'[Component] = definitions[Component] /\ space'[Component] = space[Component]
        /\ counters'[Component] = counters[Component]
    BY <1>3 DEF Reset, Scopes
  <1>6. Exporting <=> Exporting'
    BY <1>5 DEF Exporting
  <1>7. AgendaPlaced' /\ AgendaOrdered' /\ Chained' /\ Coming' /\ IsSequence(agenda')
    <2>1. \A n \in 1..Len(L) : Supplied(L, n)'
      <3>. SUFFICES ASSUME NEW n \in 1..Len(L) PROVE Supplied(L, n)'
        OBVIOUS
      <3>1. L[n][1] \in {"exportType", "exportFunction", "endInterface"}
        BY <1>4
      <3>2. NeedsTypes(L[n])' = {} /\ NeedsOptions(L[n])' = {} /\ L[n][1] # "apply"
        BY <3>1 DEF NeedsTypes, NeedsOptions
      <3>. QED  BY <3>2 DEF Supplied
    <2>2. \A n \in 1..Len(L) : Takes(L[n])' # NoIndex => n > 1 /\ Gives(L[n - 1]) = Takes(L[n])'
      <3>1. \A c : Takes(c)' = Takes(c)
        BY <1>1 DEF Takes, Exported
      <3>. QED  BY <1>4, <3>1 DEF Expands
    <2>3. \A s \in Scopes : \A t \in Types : existing[s][t] # Absent =>
            existing'[s][t] # Absent \/ (h[1] = "interfaceType" /\ s = h[3])
      BY <1>1, <1>3 DEF Reset
    <2>4. /\ \A n \in DOMAIN definitions[Component] :
               definitions'[Component][n].seen = definitions[Component][n].seen
          /\ \A o \in Options : cached[o] # Absent => cached'[o] = cached[o]
          /\ abi' = abi
      BY <1>1, <1>5
    <2>5. /\ \A n \in 1..Len(L) : Placed(L[n])
          /\ \A n \in 1..Len(L) : \A d : Ordered(h, d) => Ordered(L[n], d)
          /\ \A m, n \in 1..Len(L) : m < n => Ordered(L[m], L[n])
          /\ Gives(h) # NoIndex => IF Len(L) = 0 THEN Found(Gives(h), returned)'
                                   ELSE Gives(L[Len(L)]) = Gives(h)
      BY <1>4 DEF Expands
    <2>6. TypeOK /\ AgendaPlaced /\ AgendaOrdered /\ Chained /\ Coming
      BY DEF LinkerInv
    <2>7. h[1] \notin {"type", "define", "remember"} /\ h[1] # "require"
      BY <1>1
    <2>. QED  BY <1>1, <1>2, <1>4, <2>1, <2>2, <2>3, <2>4, <2>5, <2>6, <2>7, AgendaStep
  <1>8. /\ Called'
        /\ \A n \in DOMAIN agenda' : agenda'[n][1] # "modules"
        /\ \A n \in DOMAIN agenda' : agenda'[n][1] = "import" => instances'[agenda'[n][3]] = Absent
    <2>1. \A n \in 1..Len(L) : L[n][1] # "modules" /\ L[n][1] # "import"
      BY <1>4
    <2>2. \A n \in 1..Len(L) : L[n][2] \in Scopes /\ L[n][3] \in Operands(L[n][1])'
      <3>1. \A c : c[3] \in Operands(c[1]) => c[3] \in Operands(c[1])'
        BY <1>1, <1>5 DEF Operands
      <3>. QED  BY <1>4, <3>1 DEF Expands
    <2>3. TypeOK /\ AgendaPlaced /\ AgendaOrdered /\ Imports
      BY DEF LinkerInv
    <2>4. /\ \A n \in DOMAIN definitions[Component] : n \in DOMAIN definitions'[Component]
          /\ \A j \in Interfaces : instances'[j] = instances[j]
      BY <1>1, <1>5
    <2>. QED  BY <1>1, <1>2, <1>4, <2>1, <2>2, <2>3, <2>4, CallsStep
  <1>9. /\ Pending' <=> Pending
        /\ \A n \in DOMAIN agenda' : agenda'[n][1] = "primitive" =>
             \E k \in DOMAIN agenda : agenda'[n] = agenda[k]
    <2>1. \A n \in 1..Len(L) : L[n][1] # "primitive"
      BY <1>4
    <2>. QED  BY <1>1, <1>2, <1>4, <2>1, PendingStep DEF LinkerInv
  <1>10. TypeOK'
    BY <1>1, <1>3, <1>7, <1>8 DEF LinkerInv, TypeOK, Reset, SpaceType, Called, IsSequence
  <1>11. Counted'
    <2>1. \A s \in Scopes : \A sort \in Sorts :
            s # Component \/ sort \notin {"coreFunction", "componentInstance"}
            => counters'[s][sort] = Len(space'[s][sort])
      <3>. SUFFICES ASSUME NEW s \in Scopes, NEW sort \in Sorts,
                           s # Component \/ sort \notin {"coreFunction", "componentInstance"}
                    PROVE  counters'[s][sort] = Len(space'[s][sort])
        OBVIOUS
      <3>1. CASE s = i
        BY <1>3, <3>1 DEF Reset
      <3>2. CASE s # i
        <4>1. counters'[s] = counters[s] /\ space'[s] = space[s]
          BY <1>3, <3>2 DEF Reset
        <4>2. counters[s][sort] = Len(space[s][sort])
          BY DEF LinkerInv, Counted
        <4>. QED  BY <4>1, <4>2
      <3>. QED  BY <3>1, <3>2
    <2>. QED  BY <1>5, <1>6, <1>9, <2>1 DEF LinkerInv, Counted
  <1>12. Memos'
    <2>1. ASSUME NEW s \in Scopes, NEW t \in Types, existing'[s][t] # Absent
          PROVE  Found(<<s, "componentType", TypeEntity(t)>>, existing[s][t])'
      <3>1. s # i /\ existing'[s][t] = existing[s][t] /\ space'[s] = space[s]
        BY <1>3, <2>1 DEF Reset
      <3>2. Found(<<s, "componentType", TypeEntity(t)>>, existing[s][t])
        BY <2>1, <3>1 DEF LinkerInv, Memos
      <3>. QED  BY <1>6, <3>1, <3>2 DEF Found, TypeEntity
    <2>2. /\ \A j \in Interfaces : instances'[j] # Absent =>
               Found(<<Component, "componentInstance", <<"import", j>>>>, instances[j])'
          /\ \A j \in Interfaces : interfaces'[j] # Absent =>
               Found(<<Component, "componentType", <<"interface", j>>>>, interfaces[j])'
      BY <1>1, <1>5, <1>6 DEF LinkerInv, Memos, Found
    <2>3. /\ \A o \in Options : cached'[o] # Absent =>
               Found(<<Component, SortOf(o), <<"core export", o>>>>, cached[o])'
          /\ \A c \in {"libc", "program"} : core'[c] # Absent =>
               Found(<<Component, "coreInstance", <<"core", c>>>>, core[c])'
      BY <1>1, <1>5, <1>6 DEF LinkerInv, Memos, Found
    <2>. QED  BY <2>1, <2>2, <2>3 DEF Memos
  <1>13. Written'
    <2>. SUFFICES ASSUME NEW s \in Scopes, NEW n \in DOMAIN definitions'[s]
                  PROVE  /\ \A sort \in Sorts : definitions'[s][n].seen[sort] <= Len(space'[s][sort])
                         /\ \A ref \in definitions'[s][n].outer : Sound(Component, ref)'
      BY DEF Written
    <2>1. /\ s # i /\ definitions'[s] = definitions[s] /\ space'[s] = space[s]
      BY <1>3 DEF Reset
    <2>2. /\ \A sort \in Sorts : definitions[s][n].seen[sort] <= Len(space[s][sort])
          /\ \A ref \in definitions[s][n].outer : Sound(Component, ref)
      BY <2>1 DEF LinkerInv, Written
    <2>3. \A ref : Sound(Component, ref) => Sound(Component, ref)'
      BY <1>5, <1>6 DEF Sound, Found
    <2>. QED  BY <2>1, <2>2, <2>3
  <1>14. ReferencesResolve'
    <2>. SUFFICES ASSUME NEW s \in Scopes, NEW n \in DOMAIN definitions'[s],
                         NEW ref \in definitions'[s][n].refs
                  PROVE  /\ ref.index \in 0..definitions'[s][n].seen[ref.sort] - 1
                         /\ \/ Denotes(space'[s][ref.sort][ref.index + 1], ref.means)
                            \/ ref.sort = "componentInstance" /\ AfterExport(s, n)'
      BY DEF ReferencesResolve
    <2>1. s # i /\ definitions'[s] = definitions[s] /\ space'[s] = space[s]
      BY <1>3 DEF Reset
    <2>2. /\ ref.index \in 0..definitions[s][n].seen[ref.sort] - 1
          /\ \/ Denotes(space[s][ref.sort][ref.index + 1], ref.means)
             \/ ref.sort = "componentInstance" /\ AfterExport(s, n)
      BY <2>1 DEF LinkerInv, ReferencesResolve
    <2>3. AfterExport(s, n) => AfterExport(s, n)'
      BY <2>1 DEF AfterExport
    <2>. QED  BY <2>1, <2>2, <2>3
  <1>15. ImportedOnce' /\ Imports' /\ Inlined'
    <2>1. ImportedOnce'
      BY <1>5 DEF LinkerInv, ImportedOnce
    <2>2. Imports'
      BY <1>1, <1>5, <1>8 DEF LinkerInv, Imports
    <2>3. Inlined'
      BY <1>1, <1>5, <1>6 DEF LinkerInv, Inlined, Sound, Found
    <2>. QED  BY <2>1, <2>2, <2>3
  <1>16. Started'
    <2>1. agenda' # <<>> => agenda'[1][1] # "modules"
      BY <1>1, <1>2, <1>4, <1>8, Positions
    <2>2. core["libc"] # Absent /\ Found(<<Component, "coreModule", <<"module", "program">>>>, 1)
      BY <1>1, <1>2 DEF LinkerInv, Started
    <2>. QED  BY <1>1, <1>5, <1>6, <2>1, <2>2 DEF Started, Found
  <1>. QED  BY <1>7, <1>10, <1>11, <1>12, <1>13, <1>14, <1>15, <1>16 DEF LinkerInv

\* Before the first definition the maps are empty.
LEMMA Blank ==
  ASSUME LinkerInv, agenda # <<>>, NEW h, h = Head(agenda), h[1] = "modules"
  PROVE  /\ \A s \in Scopes : \A t \in Types : existing[s][t] = Absent
         /\ \A i \in Interfaces : instances[i] = Absent /\ interfaces[i] = Absent
         /\ \A o \in Options : cached[o] = Absent
         /\ \A c \in {"libc", "program"} : core[c] = Absent
         /\ inlineExports = {}
         /\ definitions = [s \in Scopes |-> <<>>]
         /\ space = [s \in Scopes |-> Nothing] /\ counters = [s \in Scopes |-> Zero]
  <1>1. h = agenda[1]
    BY Current
  <1>2. /\ definitions = [s \in Scopes |-> <<>>] /\ space = [s \in Scopes |-> Nothing]
        /\ counters = [s \in Scopes |-> Zero]
    BY <1>1 DEF LinkerInv, Started
  <1>3. /\ Component \in Scopes /\ \A o : SortOf(o) \in Sorts
        /\ {"componentType", "componentInstance", "coreInstance"} \subseteq Sorts
    BY DEF Scopes, Sorts, SortOf
  <1>4. \A s \in Scopes : \A sort \in Sorts : Len(space[s][sort]) = 0
    <2>1. Len(<<>>) = 0
      OBVIOUS
    <2>. QED  BY <1>2, <2>1 DEF Nothing
  <1>5. \A s \in Scopes : \A sort \in Sorts : \A means, index : ~Found(<<s, sort, means>>, index)
    <2>. SUFFICES ASSUME NEW s \in Scopes, NEW sort \in Sorts, NEW means, NEW index,
                         Found(<<s, sort, means>>, index)
                  PROVE  FALSE
      OBVIOUS
    <2>1. index \in 0..Len(space[s][sort]) - 1
      BY DEF Found
    <2>2. Len(space[s][sort]) = 0
      BY <1>4
    <2>. QED  BY <2>1, <2>2
  <1>6. \A s \in Scopes : \A t \in Types : existing[s][t] = Absent
    <2>. SUFFICES ASSUME NEW s \in Scopes, NEW t \in Types, existing[s][t] # Absent PROVE FALSE
      OBVIOUS
    <2>1. Found(<<s, "componentType", TypeEntity(t)>>, existing[s][t])
      BY DEF LinkerInv, Memos
    <2>. QED  BY <1>3, <1>5, <2>1
  <1>7. \A i \in Interfaces : instances[i] = Absent /\ interfaces[i] = Absent
    BY <1>3, <1>5 DEF LinkerInv, Memos
  <1>8. \A o \in Options : cached[o] = Absent
    BY <1>3, <1>5 DEF LinkerInv, Memos
  <1>9. \A c \in {"libc", "program"} : core[c] = Absent
    BY <1>3, <1>5 DEF LinkerInv, Memos
  <1>10. inlineExports = {}
    <2>1. \A ref \in inlineExports : ref.sort \in Sorts /\ Sound(Component, ref)
      BY DEF LinkerInv, TypeOK, Inlined, Refs
    <2>. QED  BY <1>3, <1>5, <2>1 DEF Sound
  <1>. QED  BY <1>2, <1>6, <1>7, <1>8, <1>9, <1>10

\* The definitions of the modules and of the instance of libc.
First(d) == d = [defines |-> <<"module", "libc">>, refs |-> {}, outer |-> {}, seen |-> Zero]
Second(d) ==
  d = [defines |-> <<"module", "program">>, refs |-> {}, outer |-> {},
       seen |-> [Zero EXCEPT !["coreModule"] = 1]]
Third(d) ==
  d = [defines |-> <<"core", "libc">>, refs |-> {Ref("coreModule", 0, <<"module", "libc">>)},
       outer |-> {}, seen |-> [Zero EXCEPT !["coreModule"] = 2]]

\* What these definitions refer to, define and have seen.
LEMMA ThreeDefinitions ==
  ASSUME NEW a, NEW b, NEW c, First(a), Second(b), Third(c)
  PROVE  /\ {a, b, c} \subseteq Definitions
         /\ a.refs = {} /\ b.refs = {} /\ c.refs = {Ref("coreModule", 0, <<"module", "libc">>)}
         /\ a.outer = {} /\ b.outer = {} /\ c.outer = {}
         /\ a.defines[1] = "module" /\ b.defines[1] = "module" /\ c.defines[1] = "core"
         /\ \A sort \in Sorts : /\ a.seen[sort] = 0
                                /\ b.seen[sort] = IF sort = "coreModule" THEN 1 ELSE 0
                                /\ c.seen[sort] = IF sort = "coreModule" THEN 2 ELSE 0
  <1>1. Zero \in [Sorts -> Nat] /\ \A sort \in Sorts : Zero[sort] = 0
    BY DEF Zero
  <1>2. /\ [Zero EXCEPT !["coreModule"] = 1] \in [Sorts -> Nat]
        /\ \A sort \in Sorts : [Zero EXCEPT !["coreModule"] = 1][sort] =
             IF sort = "coreModule" THEN 1 ELSE 0
    BY <1>1
  <1>3. /\ [Zero EXCEPT !["coreModule"] = 2] \in [Sorts -> Nat]
        /\ \A sort \in Sorts : [Zero EXCEPT !["coreModule"] = 2][sort] =
             IF sort = "coreModule" THEN 2 ELSE 0
    BY <1>1
  <1>4. /\ <<"module", "libc">> \in Entities /\ <<"module", "program">> \in Entities
        /\ <<"core", "libc">> \in Entities
    BY DEF Entities
  <1>5. Ref("coreModule", 0, <<"module", "libc">>) \in Refs
    BY <1>4 DEF Ref, Refs, Sorts, Index
  <1>6. a \in Definitions
    BY <1>1, <1>4 DEF First, Definitions
  <1>7. b \in Definitions
    BY <1>2, <1>4 DEF Second, Definitions
  <1>8. c \in Definitions
    BY <1>3, <1>4, <1>5 DEF Third, Definitions
  <1>. QED  BY <1>1, <1>2, <1>3, <1>6, <1>7, <1>8 DEF First, Second, Third

\* The component with the modules and the instance of libc.
Begun ==
  /\ definitions \in [Scopes -> Seq(Definitions)] /\ space \in SpaceType
  /\ counters \in [Scopes -> [Sorts -> Nat]]
  /\ DOMAIN definitions[Component] = {1, 2, 3}
  /\ First(definitions[Component][1]) /\ Second(definitions[Component][2])
  /\ Third(definitions[Component][3])
  /\ \A s \in Scopes : s # Component => DOMAIN definitions[s] = {}
  /\ \A s \in Scopes : \A sort \in Sorts :
       Len(space[s][sort]) =
         IF s # Component THEN 0 ELSE CASE sort = "coreModule" -> 2 [] sort = "coreInstance" -> 1 [] OTHER -> 0
  /\ space[Component]["coreModule"][1] = <<"module", "libc">>
  /\ space[Component]["coreModule"][2] = <<"module", "program">>
  /\ space[Component]["coreInstance"][1] = <<"core", "libc">>
  /\ \A s \in Scopes : \A sort \in Sorts : counters[s][sort] = Len(space[s][sort])

\* Modules begins the component like that.
LEMMA ModulesBegin ==
  ASSUME LinkerInv, Modules
  PROVE  Begun'
  <1>. DEFINE a == [defines |-> <<"module", "libc">>, refs |-> {}, outer |-> {}, seen |-> Zero]
              p == [defines |-> <<"module", "program">>, refs |-> {}, outer |-> {}, seen |-> Zero]
              b == [p EXCEPT !.seen["coreModule"] = 1]
              c == [defines |-> <<"core", "libc">>, outer |-> {},
                    seen |-> [Zero EXCEPT !["coreModule"] = 2],
                    refs |-> {Ref("coreModule", 0, <<"module", "libc">>)}]
              D == <<a, b, c>>
              m == <<<<"module", "libc">>, <<"module", "program">>>>
              n == <<<<"core", "libc">>>>
  <1>1. /\ definitions' = [definitions EXCEPT ![Component] = D]
        /\ space' = [space EXCEPT ![Component]["coreModule"] = m, ![Component]["coreInstance"] = n]
        /\ counters' = [counters EXCEPT ![Component]["coreModule"] = 2,
                                        ![Component]["coreInstance"] = 1]
    BY DEF Modules
  <1>2. /\ definitions = [s \in Scopes |-> <<>>] /\ space = [s \in Scopes |-> Nothing]
        /\ counters = [s \in Scopes |-> Zero]
    <2>1. agenda # <<>> /\ Head(agenda)[1] = "modules"
      BY DEF Modules, At
    <2>. QED  BY <2>1, Blank
  <1>3. /\ Component \in Scopes /\ "coreModule" \in Sorts /\ "coreInstance" \in Sorts
        /\ "coreModule" # "coreInstance"
    BY DEF Scopes, Sorts
  <1>4. First(a) /\ Second(b) /\ Third(c)
    <2>1. b = [p EXCEPT !.seen = [p.seen EXCEPT !["coreModule"] = 1]]
      OBVIOUS
    <2>2. Second(b)
      BY <2>1 DEF Second
    <2>. QED  BY <2>2 DEF First, Third
  <1>. HIDE DEF a, b, c
  <1>5. {a, b, c} \subseteq Definitions
    BY <1>4, ThreeDefinitions
  <1>6. /\ D \in Seq(Definitions) /\ Len(D) = 3 /\ DOMAIN D = {1, 2, 3}
        /\ D[1] = a /\ D[2] = b /\ D[3] = c
    <2>1. Len(D) = 3 /\ DOMAIN D = 1..3 /\ D[1] = a /\ D[2] = b /\ D[3] = c
      OBVIOUS
    <2>2. D \in Seq(Definitions)
      BY <1>5
    <2>3. 1..3 = {1, 2, 3}
      OBVIOUS
    <2>. QED  BY <2>1, <2>2, <2>3
  <1>7. /\ m \in Seq(Entities) /\ Len(m) = 2 /\ m[1] = <<"module", "libc">>
        /\ m[2] = <<"module", "program">>
        /\ n \in Seq(Entities) /\ Len(n) = 1 /\ n[1] = <<"core", "libc">>
    <2>1. /\ <<"module", "libc">> \in Entities /\ <<"module", "program">> \in Entities
          /\ <<"core", "libc">> \in Entities
      BY DEF Entities
    <2>2. m \in Seq(Entities) /\ n \in Seq(Entities)
      BY <2>1
    <2>. QED  BY <2>2
  <1>. HIDE DEF D, m, n
  <1>8. /\ <<>> \in Seq(Definitions) /\ <<>> \in Seq(Entities) /\ Len(<<>>) = 0 /\ DOMAIN <<>> = {}
    BY EmptySeq
  <1>9. /\ definitions' \in [Scopes -> Seq(Definitions)] /\ definitions'[Component] = D
        /\ \A s \in Scopes : s # Component => definitions'[s] = <<>>
    BY <1>1, <1>2, <1>3, <1>6, <1>8
  <1>10. /\ space' \in SpaceType
         /\ space'[Component]["coreModule"] = m /\ space'[Component]["coreInstance"] = n
         /\ \A s \in Scopes : \A sort \in Sorts :
              s # Component \/ sort \notin {"coreModule", "coreInstance"} => space'[s][sort] = <<>>
    <2>. DEFINE q == [Nothing EXCEPT !["coreModule"] = m]
                r == [q EXCEPT !["coreInstance"] = n]
    <2>1. Nothing \in [Sorts -> Seq(Entities)] /\ \A sort \in Sorts : Nothing[sort] = <<>>
      BY <1>8 DEF Nothing
    <2>2. /\ q \in [Sorts -> Seq(Entities)] /\ q["coreModule"] = m
          /\ \A sort \in Sorts : sort # "coreModule" => q[sort] = <<>>
      BY <1>3, <1>7, <2>1
    <2>3. /\ r \in [Sorts -> Seq(Entities)] /\ r["coreModule"] = m /\ r["coreInstance"] = n
          /\ \A sort \in Sorts : sort \notin {"coreModule", "coreInstance"} => r[sort] = <<>>
      <3>. HIDE DEF q
      <3>. QED  BY <1>3, <1>7, <2>2
    <2>4. space' = [space EXCEPT ![Component] = r]
      BY <1>1, <1>2, <1>3
    <2>. HIDE DEF q, r
    <2>5. /\ space' \in SpaceType /\ space'[Component] = r
          /\ \A s \in Scopes : s # Component => space'[s] = Nothing
      BY <1>2, <1>3, <2>1, <2>3, <2>4 DEF SpaceType
    <2>. QED  BY <2>1, <2>3, <2>5
  <1>11. /\ counters' \in [Scopes -> [Sorts -> Nat]]
         /\ counters'[Component]["coreModule"] = 2 /\ counters'[Component]["coreInstance"] = 1
         /\ \A s \in Scopes : \A sort \in Sorts :
              s # Component \/ sort \notin {"coreModule", "coreInstance"} => counters'[s][sort] = 0
    <2>. DEFINE q == [Zero EXCEPT !["coreModule"] = 2]
                r == [q EXCEPT !["coreInstance"] = 1]
    <2>1. Zero \in [Sorts -> Nat] /\ \A sort \in Sorts : Zero[sort] = 0
      BY DEF Zero
    <2>2. /\ q \in [Sorts -> Nat] /\ q["coreModule"] = 2
          /\ \A sort \in Sorts : sort # "coreModule" => q[sort] = 0
      BY <1>3, <2>1
    <2>3. /\ r \in [Sorts -> Nat] /\ r["coreModule"] = 2 /\ r["coreInstance"] = 1
          /\ \A sort \in Sorts : sort \notin {"coreModule", "coreInstance"} => r[sort] = 0
      <3>. HIDE DEF q
      <3>. QED  BY <1>3, <2>2
    <2>4. counters' = [counters EXCEPT ![Component] = r]
      BY <1>1, <1>2, <1>3
    <2>. HIDE DEF q, r
    <2>5. /\ counters' \in [Scopes -> [Sorts -> Nat]] /\ counters'[Component] = r
          /\ \A s \in Scopes : s # Component => counters'[s] = Zero
      BY <1>2, <1>3, <2>1, <2>3, <2>4
    <2>. QED  BY <2>1, <2>3, <2>5
  <1>12. \A s \in Scopes : \A sort \in Sorts :
           /\ Len(space'[s][sort]) =
                IF s # Component THEN 0
                ELSE CASE sort = "coreModule" -> 2 [] sort = "coreInstance" -> 1 [] OTHER -> 0
           /\ counters'[s][sort] = Len(space'[s][sort])
    <2>. SUFFICES ASSUME NEW s \in Scopes, NEW sort \in Sorts
                  PROVE  /\ Len(space'[s][sort]) =
                              IF s # Component THEN 0
                              ELSE CASE sort = "coreModule" -> 2
                                     [] sort = "coreInstance" -> 1 [] OTHER -> 0
                         /\ counters'[s][sort] = Len(space'[s][sort])
      OBVIOUS
    <2>1. CASE s # Component
      BY <1>8, <1>10, <1>11, <2>1
    <2>2. CASE s = Component /\ sort = "coreModule"
      BY <1>3, <1>7, <1>10, <1>11, <2>2
    <2>3. CASE s = Component /\ sort = "coreInstance"
      BY <1>3, <1>7, <1>10, <1>11, <2>3
    <2>4. CASE s = Component /\ sort \notin {"coreModule", "coreInstance"}
      BY <1>8, <1>10, <1>11, <2>4
    <2>. QED  BY <2>1, <2>2, <2>3, <2>4
  <1>13. /\ DOMAIN definitions'[Component] = {1, 2, 3}
         /\ First(definitions'[Component][1]) /\ Second(definitions'[Component][2])
         /\ Third(definitions'[Component][3])
         /\ \A s \in Scopes : s # Component => DOMAIN definitions'[s] = {}
    BY <1>4, <1>6, <1>8, <1>9
  <1>. QED  BY <1>7, <1>9, <1>10, <1>11, <1>12, <1>13 DEF Begun, SpaceType, First, Second, Third

\* What a component that has just been begun holds is sound.
BegunSound ==
  /\ ReferencesResolve /\ ImportedOnce /\ Written /\ ~Exporting
  /\ Found(<<Component, "coreInstance", <<"core", "libc">>>>, 0)
  /\ Found(<<Component, "coreModule", <<"module", "program">>>>, 1)
  /\ \A n \in DOMAIN definitions[Component] : \A i \in Interfaces :
       definitions[Component][n].defines # <<"import", i>>

\* What they refer to is there.
LEMMA BegunIsSound == Begun => BegunSound
  <1>. SUFFICES ASSUME Begun PROVE BegunSound
    OBVIOUS
  <1>. DEFINE D == definitions[Component]
  <1>1. /\ DOMAIN D = {1, 2, 3} /\ First(D[1]) /\ Second(D[2]) /\ Third(D[3])
        /\ \A s \in Scopes : s # Component => DOMAIN definitions[s] = {}
        /\ \A s \in Scopes : \A sort \in Sorts :
             Len(space[s][sort]) =
               IF s # Component THEN 0
               ELSE CASE sort = "coreModule" -> 2 [] sort = "coreInstance" -> 1 [] OTHER -> 0
    BY DEF Begun
  <1>2. /\ D[1].refs = {} /\ D[2].refs = {}
        /\ D[3].refs = {Ref("coreModule", 0, <<"module", "libc">>)}
        /\ D[1].outer = {} /\ D[2].outer = {} /\ D[3].outer = {}
        /\ D[1].defines[1] = "module" /\ D[2].defines[1] = "module" /\ D[3].defines[1] = "core"
    <2>1. \A a, b, c : First(a) /\ Second(b) /\ Third(c) =>
            /\ a.refs = {} /\ b.refs = {} /\ c.refs = {Ref("coreModule", 0, <<"module", "libc">>)}
            /\ a.outer = {} /\ b.outer = {} /\ c.outer = {}
            /\ a.defines[1] = "module" /\ b.defines[1] = "module" /\ c.defines[1] = "core"
      BY ThreeDefinitions
    <2>. QED  BY <1>1, <2>1
  <1>3. \A sort \in Sorts : /\ D[1].seen[sort] = 0
                            /\ D[2].seen[sort] = IF sort = "coreModule" THEN 1 ELSE 0
                            /\ D[3].seen[sort] = IF sort = "coreModule" THEN 2 ELSE 0
    <2>1. \A a, b, c : First(a) /\ Second(b) /\ Third(c) =>
            \A sort \in Sorts : /\ a.seen[sort] = 0
                                /\ b.seen[sort] = IF sort = "coreModule" THEN 1 ELSE 0
                                /\ c.seen[sort] = IF sort = "coreModule" THEN 2 ELSE 0
      BY ThreeDefinitions
    <2>. QED  BY <1>1, <2>1
  <1>4. Component \in Scopes /\ "coreModule" \in Sorts /\ "coreInstance" \in Sorts
    BY DEF Scopes, Sorts
  <1>5. /\ space[Component]["coreModule"][1] = <<"module", "libc">>
        /\ space[Component]["coreModule"][2] = <<"module", "program">>
        /\ space[Component]["coreInstance"][1] = <<"core", "libc">>
        /\ Len(space[Component]["coreModule"]) = 2 /\ Len(space[Component]["coreInstance"]) = 1
    BY <1>1, <1>4 DEF Begun
  <1>. HIDE DEF D
  <1>6. \A n \in DOMAIN D : D[n].defines[1] \in {"module", "core"}
    BY <1>1, <1>2
  <1>7. ~Exporting
    BY <1>6 DEF Exporting, D
  <1>8. \A n \in DOMAIN D : \A i \in Interfaces : D[n].defines # <<"import", i>>
    <2>. SUFFICES ASSUME NEW n \in DOMAIN D, NEW i \in Interfaces, D[n].defines = <<"import", i>>
                  PROVE  FALSE
      OBVIOUS
    <2>1. D[n].defines[1] = "import"
      OBVIOUS
    <2>. QED  BY <1>6, <2>1
  <1>9. ImportedOnce
    BY <1>8 DEF ImportedOnce, D
  <1>10. Found(<<Component, "coreInstance", <<"core", "libc">>>>, 0)
    BY <1>5 DEF Found, Denotes
  <1>11. Found(<<Component, "coreModule", <<"module", "program">>>>, 1)
    BY <1>5 DEF Found, Denotes
  <1>12. Written
    <2>. SUFFICES ASSUME NEW s \in Scopes, NEW n \in DOMAIN definitions[s]
                  PROVE  /\ \A sort \in Sorts : definitions[s][n].seen[sort] <= Len(space[s][sort])
                         /\ definitions[s][n].outer = {}
      BY DEF Written
    <2>1. s = Component /\ n \in DOMAIN D /\ definitions[s][n] = D[n]
      BY <1>1 DEF D
    <2>2. D[n].outer = {}
      BY <1>1, <1>2, <2>1
    <2>3. ASSUME NEW sort \in Sorts PROVE D[n].seen[sort] <= Len(space[Component][sort])
      <3>1. Len(space[Component][sort]) \in {0, 1, 2}
        BY <1>1, <1>4
      <3>2. CASE sort = "coreModule"
        <4>1. Len(space[Component][sort]) = 2 /\ D[n].seen[sort] \in {0, 1, 2}
          BY <1>1, <1>3, <1>5, <2>1, <3>2
        <4>. QED  BY <4>1
      <3>3. CASE sort # "coreModule"
        <4>1. D[n].seen[sort] = 0
          BY <1>1, <1>3, <2>1, <3>3
        <4>. QED  BY <3>1, <4>1
      <3>. QED  BY <3>2, <3>3
    <2>. QED  BY <2>1, <2>2, <2>3
  <1>13. ReferencesResolve
    <2>. SUFFICES ASSUME NEW s \in Scopes, NEW n \in DOMAIN definitions[s],
                         NEW ref \in definitions[s][n].refs
                  PROVE  /\ ref.index \in 0..definitions[s][n].seen[ref.sort] - 1
                         /\ Denotes(space[s][ref.sort][ref.index + 1], ref.means)
      BY DEF ReferencesResolve
    <2>1. s = Component /\ n \in DOMAIN D /\ definitions[s][n] = D[n]
      BY <1>1 DEF D
    <2>2. n = 3 /\ ref = Ref("coreModule", 0, <<"module", "libc">>)
      BY <1>1, <1>2, <2>1
    <2>3. ref.sort = "coreModule" /\ ref.index = 0 /\ ref.means = <<"module", "libc">>
      BY <2>2 DEF Ref
    <2>4. D[3].seen["coreModule"] = 2
      BY <1>3, <1>4
    <2>5. ref.index + 1 = 1 /\ 0 \in 0..2 - 1
      BY <2>3
    <2>. QED  BY <1>5, <2>1, <2>2, <2>3, <2>4, <2>5 DEF Denotes
  <1>. QED  BY <1>7, <1>8, <1>9, <1>10, <1>11, <1>12, <1>13 DEF D, BegunSound

\* The modules and the instance of libc.
LEMMA ModulesStep == LinkerInv /\ Modules => LinkerInv'
  <1>. SUFFICES ASSUME LinkerInv, Modules, NEW h, h = Head(agenda) PROVE LinkerInv'
    OBVIOUS
  <1>1. /\ agenda # <<>> /\ h[1] = "modules" /\ Then(<<>>)
        /\ core' = [core EXCEPT !["libc"] = 0]
        /\ UNCHANGED <<abi, result, existing, instances, interfaces, cached, inlineExports, returned>>
    BY DEF Modules, At
  <1>2. Begun'
    BY ModulesBegin
  <1>3. /\ ReferencesResolve' /\ ImportedOnce' /\ Written' /\ ~Exporting'
        /\ Found(<<Component, "coreInstance", <<"core", "libc">>>>, 0)'
        /\ Found(<<Component, "coreModule", <<"module", "program">>>>, 1)'
        /\ \A n \in DOMAIN definitions'[Component] : \A i \in Interfaces :
             definitions'[Component][n].defines # <<"import", i>>
    <2>1. BegunSound'
      BY <1>2, BegunIsSound, PTL
    <2>. QED  BY <2>1 DEF BegunSound
  <1>4. /\ \A s \in Scopes : \A t \in Types : existing[s][t] = Absent
        /\ \A i \in Interfaces : instances[i] = Absent /\ interfaces[i] = Absent
        /\ \A o \in Options : cached[o] = Absent
        /\ \A c \in {"libc", "program"} : core[c] = Absent
        /\ inlineExports = {}
        /\ definitions = [s \in Scopes |-> <<>>]
    BY <1>1, Blank
  <1>5. /\ Component \in Scopes /\ h = agenda[1] /\ IsSequence(agenda)
    BY <1>1, Current DEF Scopes
  <1>6. core' \in [{"libc", "program"} -> Index] /\ core'["libc"] = 0 /\ core'["program"] = Absent
    BY <1>1, <1>4 DEF LinkerInv, TypeOK, Index
  <1>7. /\ AgendaPlaced' /\ AgendaOrdered' /\ Chained' /\ Coming' /\ IsSequence(agenda') /\ Called'
        /\ \A n \in DOMAIN agenda' : agenda'[n][1] # "modules"
        /\ \A n \in DOMAIN agenda' : agenda'[n][1] = "import" => instances'[agenda'[n][3]] = Absent
        /\ Pending' <=> Pending
        /\ \A n \in DOMAIN agenda' : agenda'[n][1] = "primitive" =>
             \E k \in DOMAIN agenda : agenda'[n] = agenda[k]
    <2>1. Gives(h) = NoIndex
      BY <1>1 DEF Gives
    <2>2. DOMAIN definitions[Component] = {}
      <3>1. DOMAIN <<>> = {}
        BY EmptySeq
      <3>. QED  BY <1>4, <1>5, <3>1
    <2>3. /\ \A s \in Scopes : \A t \in Types : existing[s][t] # Absent => existing'[s][t] # Absent
          /\ \A o \in Options : cached[o] # Absent => cached'[o] = cached[o]
          /\ \A i \in Interfaces : instances'[i] = instances[i]
      BY <1>1
    <2>4. h[1] \notin {"type", "define", "remember", "interfaceType", "require", "primitive"}
      BY <1>1
    <2>. QED  BY <1>1, <2>1, <2>2, <2>3, <2>4, NothingLeft
  <1>8. ~Pending'
    <2>1. h[1] \notin Typing /\ h[1] # "primitive"
      BY <1>1 DEF Typing, InterfaceCalls, InterfaceTypeCalls
    <2>2. ~Pending
      BY <1>1, <2>1, NotPending
    <2>. QED  BY <1>7, <2>2
  <1>9. TypeOK'
    <2>1. /\ definitions' \in [Scopes -> Seq(Definitions)] /\ space' \in [Scopes -> [Sorts -> Seq(Entities)]]
          /\ counters' \in [Scopes -> [Sorts -> Nat]]
      BY <1>2 DEF Begun, SpaceType
    <2>. QED  BY <1>1, <1>6, <1>7, <2>1 DEF LinkerInv, TypeOK, Called, IsSequence
  <1>10. Counted'
    <2>1. \A s \in Scopes : \A sort \in Sorts : counters'[s][sort] = Len(space'[s][sort])
      BY <1>2 DEF Begun
    <2>2. "coreFunction" \in Sorts /\ "componentInstance" \in Sorts
      BY DEF Sorts
    <2>3. Len(space'[Component]["coreFunction"]) \in Nat
          /\ Len(space'[Component]["componentInstance"]) \in Nat
      BY <1>2, <1>5, <2>2 DEF Begun, SpaceType
    <2>4. /\ counters'[Component]["coreFunction"] = Len(space'[Component]["coreFunction"])
          /\ counters'[Component]["componentInstance"] = Len(space'[Component]["componentInstance"])
      BY <1>5, <2>1, <2>2
    <2>5. \A n \in DOMAIN agenda' : agenda'[n][1] # "primitive"
      BY <1>8 DEF Pending
    <2>6. counters'[Component]["coreFunction"] =
            Len(space'[Component]["coreFunction"]) + (IF Pending' THEN 1 ELSE 0)
      BY <1>8, <2>3, <2>4
    <2>7. counters'[Component]["componentInstance"] <= Len(space'[Component]["componentInstance"])
      BY <2>3, <2>4
    <2>. QED  BY <2>1, <2>4, <2>5, <2>6, <2>7 DEF Counted
  <1>11. Memos'
    <2>1. \A s \in Scopes : \A t \in Types : existing'[s][t] = Absent
      BY <1>1, <1>4
    <2>2. /\ \A i \in Interfaces : instances'[i] = Absent /\ interfaces'[i] = Absent
          /\ \A o \in Options : cached'[o] = Absent
      BY <1>1, <1>4
    <2>3. \A c \in {"libc", "program"} : core'[c] # Absent =>
            Found(<<Component, "coreInstance", <<"core", c>>>>, core[c])'
      <3>. SUFFICES ASSUME NEW c \in {"libc", "program"}, core'[c] # Absent, NEW new, new = core'[c]
                    PROVE  Found(<<Component, "coreInstance", <<"core", c>>>>, new)'
        OBVIOUS
      <3>1. c = "libc" /\ new = 0
        BY <1>6
      <3>. QED  BY <1>3, <3>1
    <2>. QED  BY <2>1, <2>2, <2>3 DEF Memos
  <1>12. Inlined' /\ Imports'
    <2>1. Inlined'
      BY <1>1, <1>4 DEF Inlined
    <2>2. Imports'
      BY <1>3, <1>7 DEF Imports
    <2>. QED  BY <2>1, <2>2
  <1>13. Started'
    <2>1. agenda' # <<>> => agenda'[1][1] # "modules"
      <3>1. IsSequence(<<>>)
        BY NothingApplies
      <3>. QED  BY <1>1, <1>5, <1>7, <3>1, Positions
    <2>2. core'["libc"] # Absent
      BY <1>6 DEF Absent
    <2>. QED  BY <1>3, <2>1, <2>2 DEF Started
  <1>. QED  BY <1>3, <1>7, <1>9, <1>10, <1>11, <1>12, <1>13 DEF LinkerInv

\* The calls to begin with.
Opening ==
  /\ IsSequence(agenda) /\ DOMAIN agenda = 1..Len(agenda) /\ Len(agenda) \in Nat \ {0}
  /\ agenda[1] = Call("modules", Component, Component)
  /\ \A n \in DOMAIN agenda : n # 1 =>
       \/ \E k \in DOMAIN abi.imports : agenda[n] = Call("resolve", Component, k)
       \/ agenda[n] = Call("createImportInstance", Component, Component)
       \/ /\ agenda[n] = Call("program", Component, Component)
          /\ agenda[n - 1] = Call("createImportInstance", Component, Component)
       \/ \E e \in DOMAIN abi.exports : agenda[n] = Call("instantiate", Component, e)

\* Calls for the numbers of a list.
LEMMA CallsFor ==
  ASSUME NEW m \in Nat, NEW name
  PROVE  LET s == [k \in 1..m |-> Call(name, Component, k)]
         IN  IsSequence(s) /\ Len(s) = m /\ \A k \in 1..m : s[k] = Call(name, Component, k)
  <1>. DEFINE s == [k \in 1..m |-> Call(name, Component, k)]
              S == {Call(name, Component, k) : k \in 1..m}
  <1>1. s \in [1..m -> S] /\ \A k \in 1..m : s[k] = Call(name, Component, k)
    OBVIOUS
  <1>. HIDE DEF s, S
  <1>2. s \in Seq(S) /\ Len(s) = m
    BY <1>1
  <1>. QED  BY <1>1, <1>2, SequenceOver DEF s

\* They are what the linker starts with.
LEMMA InitOpening == Init => Opening
  <1>. SUFFICES ASSUME Init PROVE Opening
    OBVIOUS
  <1>. DEFINE A == <<Call("modules", Component, Component)>>
              R == [k \in DOMAIN abi.imports |-> Call("resolve", Component, k)]
              B == <<Call("createImportInstance", Component, Component),
                     Call("program", Component, Component)>>
              I == [e \in DOMAIN abi.exports |-> Call("instantiate", Component, e)]
  <1>1. agenda = A \o R \o B \o I /\ abi \in Abis
    BY DEF Init
  <1>. SUFFICES ASSUME NEW r \in Nat, DOMAIN abi.imports = 1..r,
                       NEW x \in Nat, DOMAIN abi.exports = 1..x
                PROVE  Opening
    <2>1. /\ DOMAIN abi.imports = 1..Len(abi.imports) /\ DOMAIN abi.exports = 1..Len(abi.exports)
      BY <1>1, AbiTyped
    <2>2. Len(abi.imports) \in Nat /\ Len(abi.exports) \in Nat
      BY <1>1, AbiAssumption DEF ProgramAbi
    <2>. QED  BY <2>1, <2>2
  <1>2. /\ IsSequence(A) /\ Len(A) = 1 /\ A[1] = Call("modules", Component, Component)
        /\ IsSequence(B) /\ Len(B) = 2
        /\ B[1] = Call("createImportInstance", Component, Component)
        /\ B[2] = Call("program", Component, Component)
    BY Short
  <1>3. /\ IsSequence(R) /\ Len(R) = r
        /\ \A k \in 1..r : R[k] = Call("resolve", Component, k)
    BY CallsFor
  <1>4. /\ IsSequence(I) /\ Len(I) = x
        /\ \A e \in 1..x : I[e] = Call("instantiate", Component, e)
    BY CallsFor
  <1>. HIDE DEF A, R, B, I
  <1>5. /\ IsSequence(A \o R) /\ Len(A \o R) = r + 1
        /\ \A n \in 1..r + 1 : (A \o R)[n] = IF n <= 1 THEN A[n] ELSE R[n - 1]
    <2>1. /\ IsSequence(A \o R) /\ Len(A \o R) = Len(A) + Len(R)
          /\ \A n \in 1..Len(A \o R) : (A \o R)[n] = IF n <= Len(A) THEN A[n] ELSE R[n - Len(A)]
      BY <1>2, <1>3, Joined
    <2>. QED  BY <1>2, <1>3, <2>1
  <1>. DEFINE C == A \o R
  <1>6. /\ IsSequence(C \o B) /\ Len(C \o B) = r + 3
        /\ \A n \in 1..r + 3 : (C \o B)[n] = IF n <= r + 1 THEN C[n] ELSE B[n - (r + 1)]
    <2>. HIDE DEF C
    <2>0. IsSequence(C) /\ Len(C) = r + 1
      BY <1>5 DEF C
    <2>1. /\ IsSequence(C \o B) /\ Len(C \o B) = Len(C) + Len(B)
          /\ \A n \in 1..Len(C \o B) : (C \o B)[n] = IF n <= Len(C) THEN C[n] ELSE B[n - Len(C)]
      BY <1>2, <2>0, Joined
    <2>. QED  BY <1>2, <2>0, <2>1
  <1>. DEFINE D == C \o B
  <1>7. /\ IsSequence(agenda) /\ Len(agenda) = r + 3 + x
        /\ \A n \in 1..r + 3 + x : agenda[n] = IF n <= r + 3 THEN D[n] ELSE I[n - (r + 3)]
    <2>0. agenda = D \o I
      BY <1>1
    <2>. HIDE DEF C, D
    <2>1. IsSequence(D) /\ Len(D) = r + 3
      BY <1>6 DEF D
    <2>2. /\ IsSequence(D \o I) /\ Len(D \o I) = Len(D) + Len(I)
          /\ \A n \in 1..Len(D \o I) : (D \o I)[n] = IF n <= Len(D) THEN D[n] ELSE I[n - Len(D)]
      BY <1>4, <2>1, Joined
    <2>. QED  BY <1>4, <2>0, <2>1, <2>2
  <1>8. /\ \A n \in 1..r + 1 : C[n] = IF n <= 1 THEN A[n] ELSE R[n - 1]
        /\ \A n \in 1..r + 3 : D[n] = IF n <= r + 1 THEN C[n] ELSE B[n - (r + 1)]
    BY <1>5, <1>6
  <1>. HIDE DEF C, D
  <1>9. agenda[1] = Call("modules", Component, Component)
    <2>1. 1 \in 1..r + 1 /\ 1 \in 1..r + 3 /\ 1 \in 1..r + 3 + x /\ 1 <= 1 /\ 1 <= r + 1 /\ 1 <= r + 3
      OBVIOUS
    <2>. QED  BY <1>2, <1>7, <1>8, <2>1
  <1>10. agenda[r + 2] = Call("createImportInstance", Component, Component)
    <2>1. /\ r + 2 \in 1..r + 3 + x /\ r + 2 \in 1..r + 3 /\ r + 2 <= r + 3 /\ ~(r + 2 <= r + 1)
          /\ r + 2 - (r + 1) = 1
      OBVIOUS
    <2>2. agenda[r + 2] = D[r + 2] /\ D[r + 2] = B[r + 2 - (r + 1)]
      BY <1>7, <1>8, <2>1
    <2>. QED  BY <1>2, <2>1, <2>2
  <1>11. agenda[r + 3] = Call("program", Component, Component)
    <2>1. /\ r + 3 \in 1..r + 3 + x /\ r + 3 \in 1..r + 3 /\ r + 3 <= r + 3 /\ ~(r + 3 <= r + 1)
          /\ r + 3 - (r + 1) = 2
      OBVIOUS
    <2>2. agenda[r + 3] = D[r + 3] /\ D[r + 3] = B[r + 3 - (r + 1)]
      BY <1>7, <1>8, <2>1
    <2>. QED  BY <1>2, <2>1, <2>2
  <1>12. ASSUME NEW n \in 2..r + 1 PROVE n - 1 \in 1..r /\ agenda[n] = Call("resolve", Component, n - 1)
    <2>1. /\ n \in 1..r + 3 + x /\ n \in 1..r + 3 /\ n \in 1..r + 1 /\ n <= r + 3 /\ n <= r + 1
          /\ ~(n <= 1) /\ n - 1 \in 1..r
      OBVIOUS
    <2>2. agenda[n] = D[n] /\ D[n] = C[n] /\ C[n] = R[n - 1]
      BY <1>7, <1>8, <2>1
    <2>. QED  BY <1>3, <2>1, <2>2
  <1>13. ASSUME NEW n \in r + 4..r + 3 + x
         PROVE  n - (r + 3) \in 1..x /\ agenda[n] = Call("instantiate", Component, n - (r + 3))
    <2>1. n \in 1..r + 3 + x /\ ~(n <= r + 3) /\ n - (r + 3) \in 1..x
      OBVIOUS
    <2>2. agenda[n] = I[n - (r + 3)]
      BY <1>7, <2>1
    <2>. QED  BY <1>4, <2>1, <2>2
  <1>14. DOMAIN agenda = 1..Len(agenda) /\ Len(agenda) \in Nat \ {0}
    BY <1>7, LenProperties DEF IsSequence
  <1>15. ASSUME NEW n \in DOMAIN agenda, n # 1
         PROVE  \/ \E k \in DOMAIN abi.imports : agenda[n] = Call("resolve", Component, k)
                \/ agenda[n] = Call("createImportInstance", Component, Component)
                \/ /\ agenda[n] = Call("program", Component, Component)
                   /\ agenda[n - 1] = Call("createImportInstance", Component, Component)
                \/ \E e \in DOMAIN abi.exports : agenda[n] = Call("instantiate", Component, e)
    <2>1. n \in 2..r + 1 \/ n = r + 2 \/ n = r + 3 \/ n \in r + 4..r + 3 + x
      BY <1>7, <1>14, <1>15
    <2>2. CASE n \in 2..r + 1
      BY <1>12, <2>2
    <2>3. CASE n = r + 3
      <3>1. n - 1 = r + 2
        BY <2>3
      <3>. QED  BY <1>10, <1>11, <2>3, <3>1
    <2>4. CASE n \in r + 4..r + 3 + x
      BY <1>13, <2>4
    <2>. QED  BY <1>10, <2>1, <2>2, <2>3, <2>4
  <1>. QED  BY <1>7, <1>9, <1>14, <1>15 DEF Opening

\* The invariant holds at the beginning.
LEMMA InitInv == Init => LinkerInv
  <1>. SUFFICES ASSUME Init PROVE LinkerInv
    OBVIOUS
  <1>1. Opening
    BY InitOpening
  <1>2. /\ abi \in Abis /\ result = "running" /\ counters = [s \in Scopes |-> Zero]
        /\ definitions = [s \in Scopes |-> <<>>] /\ space = [s \in Scopes |-> Nothing]
        /\ existing = [s \in Scopes |-> NoTypes]
        /\ instances = [i \in Interfaces |-> Absent] /\ interfaces = [i \in Interfaces |-> Absent]
        /\ cached = [o \in Options |-> Absent] /\ core = [c \in {"libc", "program"} |-> Absent]
        /\ inlineExports = {} /\ returned = Absent
    BY DEF Init
  <1>3. Component \in Scopes /\ "coreFunction" \in Sorts /\ "componentInstance" \in Sorts
    BY DEF Scopes, Sorts
  <1>4. /\ \A s \in Scopes : DOMAIN definitions[s] = {} /\ definitions[s] \in Seq(Definitions)
        /\ \A s \in Scopes : \A sort \in Sorts : Len(space[s][sort]) = 0 /\ counters[s][sort] = 0
    <2>1. DOMAIN <<>> = {} /\ Len(<<>>) = 0 /\ <<>> \in Seq(Definitions)
      BY EmptySeq
    <2>. QED  BY <1>2, <2>1 DEF Nothing, Zero
  <1>5. /\ DOMAIN agenda = 1..Len(agenda) /\ Len(agenda) \in Nat \ {0} /\ IsSequence(agenda)
        /\ 1 \in DOMAIN agenda /\ agenda # <<>>
        /\ agenda[1] = Call("modules", Component, Component)
    <2>1. 1 \in DOMAIN agenda
      BY <1>1 DEF Opening
    <2>2. agenda # <<>>
      BY <2>1, EmptySeq
    <2>. QED  BY <1>1, <2>1, <2>2 DEF Opening
  <1>6. \A n \in DOMAIN agenda :
          /\ agenda[n][1] \in {"modules", "resolve", "createImportInstance", "program", "instantiate"}
          /\ agenda[n][2] = Component /\ agenda[n][3] \in Operands(agenda[n][1])
          /\ n # 1 => agenda[n][1] # "modules"
          /\ agenda[n][1] = "program" =>
               n # 1 /\ agenda[n - 1] = Call("createImportInstance", Component, Component)
    <2>. SUFFICES ASSUME NEW n \in DOMAIN agenda, NEW c, c = agenda[n]
                  PROVE  /\ c[1] \in {"modules", "resolve", "createImportInstance", "program", "instantiate"}
                         /\ c[2] = Component /\ c[3] \in Operands(c[1])
                         /\ n # 1 => c[1] # "modules"
                         /\ c[1] = "program" =>
                              n # 1 /\ agenda[n - 1] = Call("createImportInstance", Component, Component)
      OBVIOUS
    <2>1. CASE n = 1
      BY <1>5, <2>1 DEF Call, Operands
    <2>2. ASSUME NEW k \in DOMAIN abi.imports, c = Call("resolve", Component, k), n # 1
          PROVE  /\ c[1] = "resolve" /\ c[2] = Component /\ c[3] \in Operands(c[1])
      BY <2>2 DEF Call, Operands
    <2>3. ASSUME c = Call("createImportInstance", Component, Component)
          PROVE  /\ c[1] = "createImportInstance" /\ c[2] = Component /\ c[3] \in Operands(c[1])
      BY <2>3 DEF Call, Operands
    <2>4. ASSUME c = Call("program", Component, Component)
          PROVE  /\ c[1] = "program" /\ c[2] = Component /\ c[3] \in Operands(c[1])
      BY <2>4 DEF Call, Operands
    <2>5. ASSUME NEW e \in DOMAIN abi.exports, c = Call("instantiate", Component, e)
          PROVE  /\ c[1] = "instantiate" /\ c[2] = Component /\ c[3] \in Operands(c[1])
      BY <2>5 DEF Call, Operands
    <2>6. n # 1 =>
            \/ \E k \in DOMAIN abi.imports : c = Call("resolve", Component, k)
            \/ c = Call("createImportInstance", Component, Component)
            \/ /\ c = Call("program", Component, Component)
               /\ agenda[n - 1] = Call("createImportInstance", Component, Component)
            \/ \E e \in DOMAIN abi.exports : c = Call("instantiate", Component, e)
      BY <1>1 DEF Opening
    <2>. QED  BY <2>1, <2>2, <2>3, <2>4, <2>5, <2>6
  <1>7. TypeOK
    <2>1. /\ NoTypes \in [Types -> Index] /\ Zero \in [Sorts -> Nat]
          /\ Nothing \in [Sorts -> Seq(Entities)] /\ Absent \in Index
      <3>1. <<>> \in Seq(Entities)
        BY EmptySeq
      <3>. QED  BY <3>1 DEF NoTypes, Zero, Nothing, Index, Absent
    <2>2. \A n \in DOMAIN agenda : agenda[n][2] \in Scopes /\ agenda[n][3] \in Operands(agenda[n][1])
      BY <1>3, <1>6
    <2>3. definitions \in [Scopes -> Seq(Definitions)]
      BY <1>2, <1>4
    <2>. QED  BY <1>2, <1>5, <2>1, <2>2, <2>3 DEF TypeOK, IsSequence
  <1>8. ReferencesResolve /\ ImportedOnce /\ Written /\ Inlined
    BY <1>2, <1>3, <1>4 DEF ReferencesResolve, ImportedOnce, Written, Inlined
  <1>9. ~Pending /\ ~Exporting /\ \A n \in DOMAIN agenda : agenda[n][1] \notin {"primitive", "import", "apply"}
    BY <1>3, <1>4, <1>6 DEF Pending, Exporting
  <1>10. Counted
    <2>1. counters[Component]["coreFunction"] =
            Len(space[Component]["coreFunction"]) + (IF Pending THEN 1 ELSE 0)
      BY <1>3, <1>4, <1>9
    <2>2. counters[Component]["componentInstance"] <= Len(space[Component]["componentInstance"])
      BY <1>3, <1>4
    <2>. QED  BY <1>3, <1>4, <1>9, <2>1, <2>2 DEF Counted
  <1>11. Memos
    BY <1>2 DEF Memos, NoTypes
  <1>12. Imports
    BY <1>3, <1>4, <1>9 DEF Imports
  <1>13. Started
    <2>1. agenda[1][1] = "modules"
      BY <1>5 DEF Call
    <2>. QED  BY <1>2, <1>5, <2>1 DEF Started
  <1>14. AgendaPlaced
    <2>. SUFFICES ASSUME NEW n \in DOMAIN agenda, NEW c, c = agenda[n] PROVE Placed(c)
      BY DEF AgendaPlaced
    <2>1. /\ c[1] \in {"modules", "resolve", "createImportInstance", "program", "instantiate"}
          /\ c[2] = Component
      BY <1>6
    <2>. QED  BY <2>1 DEF Placed, InterfaceCalls, InterfaceTypeCalls, TypeCalls
  <1>15. AgendaOrdered
    <2>. SUFFICES ASSUME NEW m \in DOMAIN agenda, NEW n \in DOMAIN agenda, m < n,
                         NEW c, c = agenda[m], NEW d, d = agenda[n]
                  PROVE  Ordered(c, d)
      BY DEF AgendaOrdered
    <2>1. n # 1
      BY <1>5
    <2>2. d[1] \notin {"modules", "primitive", "import"} /\ d[2] = Component
      BY <1>6, <2>1
    <2>. QED  BY <2>2 DEF Ordered, Within
  <1>16. Chained
    <2>. SUFFICES ASSUME NEW n \in DOMAIN agenda, NEW c, c = agenda[n], Takes(c) # NoIndex
                  PROVE  n # 1 /\ Gives(agenda[n - 1]) = Takes(c)
      BY DEF Chained
    <2>1. c[1] = "program"
      <3>1. c[1] \in {"modules", "resolve", "createImportInstance", "program", "instantiate"}
        BY <1>6
      <3>. QED  BY <3>1 DEF Takes
    <2>2. n # 1 /\ agenda[n - 1] = Call("createImportInstance", Component, Component)
      BY <1>6, <2>1
    <2>3. Takes(c) = <<Component, "coreInstance", <<"core", "imports">>>>
      BY <2>1 DEF Takes
    <2>4. Gives(Call("createImportInstance", Component, Component))
            = <<Component, "coreInstance", <<"core", "imports">>>>
      BY DEF Gives, Call
    <2>. QED  BY <2>2, <2>3, <2>4
  <1>17. Coming
    <2>. SUFFICES ASSUME NEW n \in DOMAIN agenda PROVE Supplied(agenda, n)
      BY DEF Coming
    <2>1. agenda[n][1] \in {"modules", "resolve", "createImportInstance", "program", "instantiate"}
      BY <1>6
    <2>2. NeedsTypes(agenda[n]) = {} /\ NeedsOptions(agenda[n]) = {}
      BY <2>1 DEF NeedsTypes, NeedsOptions
    <2>. QED  BY <2>1, <2>2 DEF Supplied
  <1>. QED  BY <1>7, <1>8, <1>10, <1>11, <1>12, <1>13, <1>14, <1>15, <1>16, <1>17 DEF LinkerInv

\* Without a call, everything stays.
LEMMA StutterStep == LinkerInv /\ UNCHANGED vars => LinkerInv'
  <1>. SUFFICES ASSUME LinkerInv, UNCHANGED vars PROVE LinkerInv'
    OBVIOUS
  <1>1. /\ result' \in {"running", "done", "illegal"}
        /\ UNCHANGED <<abi, agenda, builder, linker, inlineExports, returned>>
    BY DEF vars, LinkerInv, TypeOK
  <1>. QED  BY <1>1, StillStep

\* LinkerInv is inductive.
THEOREM Invariance == Spec => []LinkerInv
  <1>1. LinkerInv /\ [Next]_vars => LinkerInv'
    <2>. SUFFICES ASSUME LinkerInv, [Next]_vars PROVE LinkerInv'
      OBVIOUS
    <2>1. CASE Alias \/ Apply \/ Known
      BY <2>1, AliasStep, ApplyStep, KnownStep
    <2>2. CASE ImportInstance \/ Import \/ InterfaceType \/ EndInterface
      BY <2>2, ImportInstanceStep, ImportStep, InterfaceTypeStep, EndInterfaceStep
    <2>3. CASE ExportResource \/ ExportType \/ exportTypeEq
      BY <2>3, ExportResourceStep, ExportTypeStep, exportTypeEqStep
    <2>4. CASE ExportFunction \/ FunctionType \/ DeclareFunction
      BY <2>4, ExportFunctionStep, FunctionTypeStep, DeclareFunctionStep
    <2>5. CASE AddType \/ DefineType \/ Remember
      BY <2>5, AddTypeStep, DefineTypeStep, RememberStep
    <2>6. CASE ImportFromSame \/ ImportFromOuter \/ ImportType
      BY <2>6, ImportFromSameStep, ImportFromOuterStep, ImportTypeStep
    <2>7. CASE AliasType \/ AliasOuter \/ IllegalReference \/ Done
      BY <2>7, AliasTypeStep, AliasOuterStep, EndStep
    <2>8. CASE Modules \/ Resolve \/ AliasFunction \/ CanonLower
      BY <2>8, ModulesStep, ResolveStep, AliasFunctionStep, CanonLowerStep
    <2>9. CASE Allocate \/ AddCanonPrimitive \/ CreateImportInstance \/ InstantiateProgram
      BY <2>9, AllocateStep, AddCanonPrimitiveStep, CreateImportInstanceStep, InstantiateProgramStep
    <2>10. CASE Instantiate \/ MapExported \/ ListType \/ Lift
      BY <2>10, InstantiateStep, MapExportedStep, ListTypeStep, LiftStep
    <2>11. CASE CanonLift \/ Instance \/ Export
      BY <2>11, CanonLiftStep, InstanceStep, ExportStep
    <2>12. CASE UNCHANGED vars
      BY <2>12, StutterStep
    <2>. QED
      BY <2>1, <2>2, <2>3, <2>4, <2>5, <2>6, <2>7, <2>8, <2>9, <2>10, <2>11, <2>12 DEF Next
  <1>. QED  BY <1>1, InitInv, PTL DEF Spec

\* Calls carry what they need, and the maps of the linker hold indices.
THEOREM TypeCorrect == Spec => []TypeOK
  <1>1. LinkerInv => TypeOK
    BY DEF LinkerInv
  <1>. QED  BY <1>1, Invariance, PTL

\* Whatever a definition refers to has been defined before it and is what the linker took
\* it for.
THEOREM ReferencesAreSound == Spec => []ReferencesResolve
  <1>1. LinkerInv => ReferencesResolve
    BY DEF LinkerInv
  <1>. QED  BY <1>1, Invariance, PTL

\* No interface is imported twice.
THEOREM InterfacesImportedOnce == Spec => []ImportedOnce
  <1>1. LinkerInv => ImportedOnce
    BY DEF LinkerInv
  <1>. QED  BY <1>1, Invariance, PTL

=============================================================================
