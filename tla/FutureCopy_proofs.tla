------------------------- MODULE FutureCopy_proofs -------------------------
(***************************************************************************)
(* Proofs about FutureCopy for any set of futures.                         *)
(***************************************************************************)
EXTENDS FutureCopy, TLAPS

\* Where the value of a future is, by how far each end is: an end never
\* completes unless the other one has, or had its copy waiting.
ValueFollowsEnds(f) ==
  \/ /\ writer[f] = "open" /\ reader[f] \in {"open", "reading", "closed"}
     /\ value[f] = "source" /\ answer[f] = "none"
  \/ /\ writer[f] = "writing" /\ reader[f] = "open"
     /\ value[f] = "write" /\ answer[f] = "none"
  \/ /\ writer[f] = "dropped" /\ reader[f] = "closed"
     /\ value[f] = "write" /\ answer[f] = "none"
  \/ /\ writer[f] = "completed" /\ reader[f] = "closed"
     /\ value[f] = "dart" /\ answer[f] = "value"
  \/ /\ writer[f] = "closed" /\ reader[f] = "completed"
     /\ value[f] = "read" /\ answer[f] = "none"
  \/ /\ writer[f] = "closed" /\ reader[f] = "closed"
     /\ \/ value[f] = "dart" /\ answer[f] = "value"
        \/ value[f] = "freed" /\ answer[f] = "none"

\* The inductive invariant.  Where the value ends says nothing of the steps on the
\* way there, so ValueMovesOnce alone is not preserved.
IInv == TypeOK /\ BuffersFollowCopies /\ \A f \in Futures : ValueFollowsEnds(f)

-----------------------------------------------------------------------------

\* The inductive invariant holds initially.
LEMMA InitInv == Init => IInv
  BY DEF Init, IInv, TypeOK, ValueFollowsEnds, BuffersFollowCopies, BuffersOf, Results

\* A step at one future leaves every other one as it is.
LEMMA OthersUnchanged ==
  ASSUME IInv, NEW f \in Futures, NEW g \in Futures, g # f,
         source'[g] = source[g], writer'[g] = writer[g], reader'[g] = reader[g],
         value'[g] = value[g], buffers'[g] = buffers[g], answer'[g] = answer[g]
  PROVE  ValueFollowsEnds(g)' /\ BuffersOf(g)'
  BY DEF IInv, ValueFollowsEnds, BuffersFollowCopies, BuffersOf

\* Every step at a future preserves the invariant.
LEMMA StepInv ==
  ASSUME IInv, NEW f \in Futures,
         \/ \E r \in {"value", "error"} : SourceCompletes(f, r)
         \/ WriteValue(f) \/ WriterEvent(f)
         \/ ReadFuture(f) \/ ReaderEvent(f)
         \/ DropReadable(f)
  PROVE  IInv'
<1> USE DEF Results
<1>t. TypeOK /\ ValueFollowsEnds(f) /\ BuffersOf(f)
  BY DEF IInv, BuffersFollowCopies
<1>g. SUFFICES /\ TypeOK'
               /\ ValueFollowsEnds(f)' /\ BuffersOf(f)'
               /\ \A g \in Futures \ {f} :
                    /\ source'[g] = source[g] /\ writer'[g] = writer[g]
                    /\ reader'[g] = reader[g] /\ value'[g] = value[g]
                    /\ buffers'[g] = buffers[g] /\ answer'[g] = answer[g]
  BY OthersUnchanged DEF IInv, BuffersFollowCopies
<1>1. ASSUME NEW r \in {"value", "error"}, SourceCompletes(f, r)
      PROVE  <1>g!1
  BY <1>1, <1>t DEF SourceCompletes, TypeOK, ValueFollowsEnds, BuffersOf
<1>2. CASE WriteValue(f)
  <2>1. CASE reader[f] = "open"
    BY <1>2, <1>t, <2>1 DEF WriteValue, TypeOK, ValueFollowsEnds, BuffersOf
  <2>2. CASE reader[f] = "reading"
    BY <1>2, <1>t, <2>2
       DEF WriteValue, WriterApplies, Freed, ContainsValue,
           TypeOK, ValueFollowsEnds, BuffersOf
  <2>3. CASE reader[f] \notin {"open", "reading"}
    BY <1>2, <1>t, <2>3
       DEF WriteValue, WriterApplies, Freed, ContainsValue,
           TypeOK, ValueFollowsEnds, BuffersOf
  <2> QED BY <2>1, <2>2, <2>3
<1>3. CASE WriterEvent(f)
  BY <1>3, <1>t DEF WriterEvent, WriterApplies, Freed, ContainsValue,
                    TypeOK, ValueFollowsEnds, BuffersOf
<1>4. CASE ReadFuture(f)
  <2>1. CASE writer[f] = "writing"
    BY <1>4, <1>t, <2>1
       DEF ReadFuture, ReaderApplies, Answer, TypeOK, ValueFollowsEnds, BuffersOf
  <2>2. CASE writer[f] # "writing"
    BY <1>4, <1>t, <2>2 DEF ReadFuture, TypeOK, ValueFollowsEnds, BuffersOf
  <2> QED BY <2>1, <2>2
<1>5. CASE ReaderEvent(f)
  BY <1>5, <1>t DEF ReaderEvent, ReaderApplies, Answer,
                    TypeOK, ValueFollowsEnds, BuffersOf
<1>6. CASE DropReadable(f)
  BY <1>6, <1>t DEF DropReadable, TypeOK, ValueFollowsEnds, BuffersOf
<1> QED BY <1>1, <1>2, <1>3, <1>4, <1>5, <1>6

\* Every step preserves the invariant.
LEMMA NextInv == IInv /\ [Next]_vars => IInv'
<1>1. ASSUME IInv, UNCHANGED vars PROVE IInv'
  BY <1>1 DEF IInv, TypeOK, ValueFollowsEnds, BuffersFollowCopies, BuffersOf, vars
<1> QED BY <1>1, StepInv DEF Next

\* The inductive invariant holds in every reachable state.
THEOREM Invariance == Spec => []IInv
  BY InitInv, NextInv, PTL DEF Spec

\* Every variable has a value of its type, and no value is freed twice.
THEOREM TypeCorrect == Spec => []TypeOK
<1>1. IInv => TypeOK
  BY DEF IInv
<1> QED BY <1>1, Invariance, PTL

\* Whichever end of a future comes first and whichever is dropped, each end
\* holds its buffer exactly while its copy is on the way, and the value ends in
\* the reader's completer or is freed with the writer's buffer.
THEOREM BuffersHaveOneOwner == Spec => []CopiesOwnBuffers
<1>1. IInv => CopiesOwnBuffers
  BY DEF IInv, CopiesOwnBuffers, BuffersFollowCopies, ValueMovesOnce,
         ValueFollowsEnds, BuffersOf, Results
<1> QED BY <1>1, Invariance, PTL
=============================================================================
