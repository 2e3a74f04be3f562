------------------------ MODULE StreamSink_proofs ------------------------
(***************************************************************************)
(* Proofs about StreamSink for any size of elements and of the lists the   *)
(* source emits, and any number of them.  Elements of more than one byte   *)
(* are written over each other (WriteToBuffer), so that who owns which     *)
(* element is proved for elements of one byte.                             *)
(***************************************************************************)
EXTENDS StreamSink, TLAPS, SequenceTheorems

\* The elements of s are those after the k-th, where they were written whole.
Follows(s, k) ==
  \A i \in 1 .. Len(s) : s[i] = k + i \/ (ElementSize # 1 /\ s[i] = Garbage)

\* The n elements after the l-th.
After(l, n) == [i \in 1 .. n |-> l + i]

Buffers == [held : BOOLEAN, mem : Seq(Elements), ack : Nat]
Types ==
  /\ pc \in {"new", "rest", "loop"}
  /\ code \in {None, Blocked} \cup HostResults
  /\ event \in {None, Blocked} \cup HostResults
  /\ buffer \in Buffers
  /\ otherDropped \in BOOLEAN /\ doneEvent \in BOOLEAN /\ dropped \in BOOLEAN
  /\ source \in {"active", "ended", "cancelling", "cancelled"}
  /\ paused \in BOOLEAN
  /\ emitted \in Elements
  /\ got \in Seq(Elements) /\ freed \in Seq(Elements)

\* A buffer is held during a write, until its result was looked at; the result
\* acknowledges no more than the write was given, which was emitted before.
BufferIsWritten ==
  /\ buffer.held \/ buffer = NoBuffer
  /\ buffer.ack <= Len(buffer.mem) /\ Len(buffer.mem) <= emitted
  /\ pc = "new" => ~buffer.held /\ event = None
  /\ pc = "loop" =>
       /\ buffer.held
       /\ \/ code = Blocked /\ event = Blocked
          \/ code \in HostResults /\ event = None /\ code.n <= Remaining(buffer)
  /\ pc = "rest" =>
       /\ buffer.held <=> event # None
       /\ event.n <= Remaining(buffer)

\* Nothing is written for a source that is over, and an active source that is
\* paused waits for a write.
SourceIsHeldBack ==
  /\ pc # "rest" \/ buffer.held => source = "active" /\ paused
  /\ pc = "rest" /\ source = "active" /\ paused => buffer.held

\* Which end of the stream is over, by what became of the source.
EndsFollowSource ==
  /\ otherDropped <=> source \in {"cancelling", "cancelled"}
  /\ doneEvent <=> source = "ended"
  /\ dropped <=> source \in {"ended", "cancelled"}

\* Every element is with the peer, in the buffer or freed, in the order in which
\* the source emitted them.
ElementsInOrder ==
  /\ Follows(got, 0)
  /\ Follows(buffer.mem, emitted - Len(buffer.mem))
  /\ Follows(freed, Len(got))
  /\ ~otherDropped => freed = <<>>
  /\ Len(got) + (Remaining(buffer) - InFlight) + Len(freed) = emitted

\* The inductive invariant.
IInv == Types /\ BufferIsWritten /\ SourceIsHeldBack /\ EndsFollowSource /\ ElementsInOrder
-----------------------------------------------------------------------------
(* Sequences of elements, and results.                                     *)

\* Elements that follow each other follow each other in one sequence.
LEMMA ConcatFollows ==
  ASSUME NEW s \in Seq(Elements), NEW u \in Seq(Elements), NEW k \in Int,
         NEW j \in Int, j = k + Len(s), Follows(s, k), Follows(u, j)
  PROVE  s \o u \in Seq(Elements) /\ Len(s \o u) = Len(s) + Len(u) /\ Follows(s \o u, k)
<1>1. /\ s \o u \in Seq(Elements) /\ Len(s \o u) = Len(s) + Len(u)
      /\ \A i \in 1 .. Len(s) + Len(u) :
           (s \o u)[i] = IF i <= Len(s) THEN s[i] ELSE u[i - Len(s)]
      /\ Len(s) \in Nat /\ Len(u) \in Nat
  BY ConcatProperties, LenProperties
<1>2. ASSUME NEW i \in 1 .. Len(s \o u)
      PROVE  (s \o u)[i] = k + i \/ (ElementSize # 1 /\ (s \o u)[i] = Garbage)
  <2>1. CASE i <= Len(s)
    BY <1>1, <2>1 DEF Follows
  <2>2. CASE i > Len(s)
    <3>1. i - Len(s) \in 1 .. Len(u)
      BY <1>1, <2>2
    <3>2. \/ u[i - Len(s)] = k + Len(s) + (i - Len(s))
          \/ ElementSize # 1 /\ u[i - Len(s)] = Garbage
      BY <3>1 DEF Follows
    <3> QED BY <1>1, <2>2, <3>1, <3>2
  <2> QED BY <1>1, <2>1, <2>2
<1> QED BY <1>1, <1>2 DEF Follows

\* A part of a sequence of elements that follow each other.
LEMMA PartFollows ==
  ASSUME NEW s \in Seq(Elements), NEW p \in Int, NEW q \in Int, NEW j \in Int,
         p >= 1, p <= q + 1, q <= Len(s), Follows(s, j - p + 1)
  PROVE  /\ SubSeq(s, p, q) \in Seq(Elements)
         /\ Len(SubSeq(s, p, q)) = q - p + 1
         /\ Follows(SubSeq(s, p, q), j)
<1>1. Len(s) \in Nat /\ \A i \in 1 .. Len(s) : s[i] \in Elements
  BY LenProperties, ElementOfSeq
<1>2. \A i \in p .. q : s[i] \in Elements
  BY <1>1
<1>3. /\ SubSeq(s, p, q) \in Seq(Elements)
      /\ Len(SubSeq(s, p, q)) = q - p + 1
      /\ \A i \in 1 .. q - p + 1 : SubSeq(s, p, q)[i] = s[p + i - 1]
  BY <1>2, SubSeqProperties
<1>4. ASSUME NEW i \in 1 .. q - p + 1
      PROVE  \/ SubSeq(s, p, q)[i] = j + i
             \/ ElementSize # 1 /\ SubSeq(s, p, q)[i] = Garbage
  BY <1>1, <1>3 DEF Follows
<1> QED BY <1>3, <1>4 DEF Follows

\* No elements at all.
LEMMA EmptyFollows ==
  <<>> \in Seq(Elements) /\ Len(<<>>) = 0 /\ \A k \in Int : Follows(<<>>, k)
  BY EmptySeq DEF Follows

\* An element of one byte is written whole, and so is a list of them.
LEMMA WrittenFollow ==
  ASSUME NEW n \in Nat, emitted \in Nat, emitted + n <= MaxElements
  PROVE  /\ WriteToBuffer(n) \in Seq(Elements) /\ Len(WriteToBuffer(n)) = n
         /\ Follows(WriteToBuffer(n), emitted)
<1> USE SizesAssumption
<1>1. WriteToBuffer(n) = [j \in 1 .. n |-> IF Intact(n, j - 1) THEN emitted + j ELSE Garbage]
  BY DEF WriteToBuffer
<1>2. \A j \in 1 .. n : (IF Intact(n, j - 1) THEN emitted + j ELSE Garbage) \in Elements
  BY DEF Elements, Garbage
<1>3. WriteToBuffer(n) \in Seq(Elements) /\ Len(WriteToBuffer(n)) = n
  BY <1>1, <1>2
<1>4. ASSUME ElementSize = 1, NEW j \in 1 .. n PROVE Intact(n, j - 1)
  BY <1>4 DEF Intact, ByteAt
<1>5. \A j \in 1 .. n : WriteToBuffer(n)[j] = IF Intact(n, j - 1) THEN emitted + j ELSE Garbage
  BY <1>1
<1> QED BY <1>3, <1>4, <1>5 DEF Follows

\* Results, and what stands for none.
LEMMA Results ==
  /\ None # Blocked /\ None \notin HostResults /\ Blocked \notin HostResults
  /\ None.n = 0 /\ Blocked.n = 0
  /\ \A r \in HostResults : r.n \in Nat /\ r.n \in 0 .. MaxChunk
  /\ \A k \in {"completed", "dropped"}, n \in 0 .. MaxChunk :
       Result(k, n) \in HostResults /\ Result(k, n).n = n
  BY SizesAssumption DEF None, Blocked, HostResults, Result

\* What the peer has after it took n elements of a buffer that holds those which
\* follow the ones it had.
LEMMA TakesFollow ==
  ASSUME NEW b \in Buffers, NEW n \in Nat, NEW e \in Int,
         b.ack <= Len(b.mem), n <= Remaining(b), got \in Seq(Elements), Follows(got, 0),
         Follows(b.mem, e - Len(b.mem)), Len(got) + Remaining(b) = e
  PROVE  /\ Takes(b, n) \in Seq(Elements) /\ Len(Takes(b, n)) = Len(got) + n
         /\ Follows(Takes(b, n), 0)
         /\ ElementSize = 1 => Takes(b, n) = got \o After(Len(got), n)
<1>1. PICK m \in Seq(Elements), a \in Nat : m = b.mem /\ a = b.ack
  BY DEF Buffers
<1>2. Len(m) \in Nat /\ Len(got) \in Nat
  BY LenProperties
<1>3. PICK k \in Int : k = e - Len(m)
  BY <1>2
<1>4. PICK p \in Int, q \in Int : p = a + 1 /\ q = a + n
  BY <1>2
<1>5. PICK l \in Int, g \in Seq(Elements) : l = Len(got) /\ g = got
  BY <1>2
<1>6. Follows(m, k) /\ Follows(g, 0) /\ l = Len(g)
  BY <1>1, <1>3, <1>5
<1>7. Len(got) + (Len(m) - a) = e /\ a <= Len(m) /\ n <= Len(m) - a
  BY <1>1 DEF Remaining
<1>8. p >= 1 /\ p <= q + 1 /\ q <= Len(m) /\ l - p + 1 = k /\ n = q - p + 1
  BY <1>2, <1>3, <1>4, <1>5, <1>7
<1>9. PICK u \in Seq(Elements) : u = SubSeq(m, p, q) /\ Len(u) = n /\ Follows(u, l)
  <2>1. Follows(m, l - p + 1)
    BY <1>6, <1>8
  <2>2. /\ SubSeq(m, p, q) \in Seq(Elements) /\ Len(SubSeq(m, p, q)) = q - p + 1
        /\ Follows(SubSeq(m, p, q), l)
    BY <2>1, <1>8, PartFollows
  <2> QED BY <1>8, <2>2
<1>10. g \o u \in Seq(Elements) /\ Len(g \o u) = l + n /\ Follows(g \o u, 0)
  <2>1. 0 \in Int /\ l = 0 + Len(g)
    BY <1>6
  <2>2. g \o u \in Seq(Elements) /\ Len(g \o u) = Len(g) + Len(u) /\ Follows(g \o u, 0)
    BY <2>1, <1>6, <1>9, ConcatFollows
  <2> QED BY <1>6, <1>9, <2>2
<1>11. ElementSize = 1 => u = After(l, n)
  <2>1. ElementSize = 1 => \A i \in 1 .. n : u[i] = l + i
    BY <1>9 DEF Follows
  <2>2. u \in [1 .. n -> Elements]
    BY <1>9, LenProperties
  <2> QED BY <2>1, <2>2 DEF After
<1>12. Takes(b, n) = g \o u
  BY <1>1, <1>4, <1>5, <1>9 DEF Takes
<1> QED BY <1>5, <1>10, <1>11, <1>12

\* A write of b: its result says how much of b the peer has.
LEMMA WriteResult ==
  ASSUME NEW b \in Buffers, NEW e \in Int, b.ack <= Len(b.mem), got \in Seq(Elements),
         Follows(got, 0), Follows(b.mem, e - Len(b.mem)), Len(got) + Remaining(b) = e,
         Write(b)
  PROVE  /\ \/ code' = Blocked /\ event' = Blocked
            \/ code' \in HostResults /\ event' = None
         /\ got' \in Seq(Elements) /\ Follows(got', 0)
         /\ \E n \in 0 .. MaxChunk :
              /\ n <= Remaining(b) /\ code'.n = n /\ Len(got') = Len(got) + n
              /\ ElementSize = 1 => got' = got \o After(Len(got), n)
<1> USE SizesAssumption
<1>1. Len(b.mem) \in Nat /\ b.ack \in Nat /\ Len(got) \in Nat
  BY LenProperties DEF Buffers
<1>2. CASE code' = Blocked /\ event' = Blocked /\ got' = got
  <2>1. 0 \in 0 .. MaxChunk /\ 0 <= Remaining(b) /\ code'.n = 0 /\ Len(got') = Len(got) + 0
    BY <1>1, <1>2, Results DEF Remaining
  <2>2. After(Len(got), 0) = <<>>
    BY DEF After
  <2>3. got' = got \o After(Len(got), 0)
    BY <1>2, <2>2, ConcatEmptySeq
  <2> QED BY <1>2, <2>1, <2>3
<1>3. ASSUME NEW k \in {"completed", "dropped"}, NEW n \in 0 .. MaxChunk,
             Transfers(k, n, b), code' = Result(k, n), got' = Takes(b, n), event' = None
      PROVE  /\ code' \in HostResults /\ code'.n = n /\ n <= Remaining(b)
             /\ got' \in Seq(Elements) /\ Follows(got', 0) /\ Len(got') = Len(got) + n
             /\ ElementSize = 1 => got' = got \o After(Len(got), n)
  <2>1. n \in Nat /\ n <= Remaining(b)
    BY <1>3 DEF Transfers
  <2>2. /\ Takes(b, n) \in Seq(Elements) /\ Len(Takes(b, n)) = Len(got) + n
        /\ Follows(Takes(b, n), 0)
        /\ ElementSize = 1 => Takes(b, n) = got \o After(Len(got), n)
    BY <2>1, TakesFollow
  <2> QED BY <1>3, <2>1, <2>2, Results
<1> QED BY <1>2, <1>3 DEF Write
-----------------------------------------------------------------------------
(* The invariant is inductive: one lemma for each step.                    *)

\* Buffers as the code makes them.
LEMMA BufferValues ==
  /\ NoBuffer \in Buffers /\ NoBuffer.mem = <<>> /\ NoBuffer.ack = 0 /\ ~NoBuffer.held
  /\ \A m \in Seq(Elements) :
       Buffer(m) \in Buffers /\ Buffer(m).mem = m /\ Buffer(m).ack = 0 /\ Buffer(m).held
  /\ \A n \in Nat : buffer \in Buffers =>
       /\ Advance(n) \in Buffers /\ Advance(n).mem = buffer.mem
       /\ Advance(n).ack = buffer.ack + n /\ Advance(n).held = buffer.held
<1>1. /\ NoBuffer \in Buffers /\ NoBuffer.mem = <<>> /\ NoBuffer.ack = 0 /\ ~NoBuffer.held
  BY EmptySeq DEF NoBuffer, Buffers
<1>2. \A m \in Seq(Elements) :
       Buffer(m) \in Buffers /\ Buffer(m).mem = m /\ Buffer(m).ack = 0 /\ Buffer(m).held
  BY DEF Buffer, Buffers
<1>3. ASSUME NEW n \in Nat, buffer \in Buffers
      PROVE  /\ Advance(n) \in Buffers /\ Advance(n).mem = buffer.mem
             /\ Advance(n).ack = buffer.ack + n /\ Advance(n).held = buffer.held
  <2>1. PICK h \in BOOLEAN, m \in Seq(Elements), a \in Nat :
          buffer = [held |-> h, mem |-> m, ack |-> a]
    BY <1>3 DEF Buffers
  <2>2. Advance(n) = [held |-> h, mem |-> m, ack |-> a + n] /\ a + n \in Nat
    BY <2>1 DEF Advance
  <2>3. Advance(n) \in Buffers
    BY <2>2 DEF Buffers
  <2>4. Advance(n).held = h /\ Advance(n).mem = m /\ Advance(n).ack = a + n
    BY <2>2
  <2>5. buffer.held = h /\ buffer.mem = m /\ buffer.ack = a
    BY <2>1
  <2> QED BY <2>3, <2>4, <2>5
<1> QED BY <1>1, <1>2, <1>3, Zenon

\* Before the first write there is nothing anywhere.
LEMMA InitInv == Init => IInv
<1> SUFFICES ASSUME Init PROVE IInv
  OBVIOUS
<1> USE Results, BufferValues, EmptyFollows
<1>1. Types
  <2>1. 0 \in Elements
    BY SizesAssumption DEF Elements
  <2>2. NoBuffer \in Buffers /\ <<>> \in Seq(Elements)
    BY BufferValues, EmptyFollows
  <2> QED BY <2>1, <2>2, Zenon DEF Init, Types
<1>2. BufferIsWritten /\ SourceIsHeldBack /\ EndsFollowSource
  BY DEF Init, BufferIsWritten, SourceIsHeldBack, EndsFollowSource
<1>3. ElementsInOrder
  BY DEF Init, ElementsInOrder, Remaining, InFlight
<1> QED BY <1>1, <1>2, <1>3 DEF IInv

\* A step that writes b, with the elements emitted after what the peer has.
LEMMA WriteStep ==
  ASSUME IInv, NEW b \in Buffers, b.held, b.ack <= Len(b.mem), emitted' \in Elements,
         Len(b.mem) <= emitted',
         Follows(b.mem, emitted' - Len(b.mem)), Len(got) + Remaining(b) = emitted',
         source = "active", Write(b), pc' = "loop", paused' = TRUE,
         UNCHANGED <<sink, source, freed>>
  PROVE  IInv'
<1> USE SizesAssumption, Results
<1>1. PICK e \in Int : e = emitted'
  BY DEF Elements
<1>2. got \in Seq(Elements) /\ Follows(got, 0)
  BY DEF IInv, Types, ElementsInOrder
<1>3. Follows(b.mem, e - Len(b.mem)) /\ Len(got) + Remaining(b) = e
  BY <1>1
<1>4. /\ \/ code' = Blocked /\ event' = Blocked
         \/ code' \in HostResults /\ event' = None
      /\ got' \in Seq(Elements) /\ Follows(got', 0)
      /\ \E n \in 0 .. MaxChunk :
           n <= Remaining(b) /\ code'.n = n /\ Len(got') = Len(got) + n
  BY <1>2, <1>3, WriteResult
<1>5. buffer' = b
  BY DEF Write
<1>6. freed = <<>> /\ ~otherDropped /\ freed' = <<>> /\ ~otherDropped'
  BY DEF IInv, EndsFollowSource, ElementsInOrder, sink
<1>7. Types'
  BY <1>4, <1>5 DEF IInv, Types, sink
<1>8. BufferIsWritten' /\ SourceIsHeldBack' /\ EndsFollowSource'
  BY <1>4, <1>5 DEF IInv, BufferIsWritten, SourceIsHeldBack, EndsFollowSource, Remaining, sink
<1>9. ElementsInOrder'
  <2>1. Len(got') \in Int /\ Len(freed') = 0 /\ Follows(freed', Len(got'))
    BY <1>4, <1>6, EmptyFollows, LenProperties
  <2>2. PICK n \in Nat : n = code'.n /\ Len(got') = Len(got) + n
    BY <1>4
  <2>3. event'.n = 0 /\ InFlight' = n
    BY <1>4, <2>2 DEF InFlight
  <2>4. PICK r \in Int, l \in Int : r = Remaining(b) /\ l = Len(got)
    BY <1>2, LenProperties DEF Buffers, Remaining
  <2>5. Remaining(buffer)' = r
    BY <1>5, <2>4 DEF Remaining
  <2>6. Len(got') + (Remaining(buffer)' - InFlight') + Len(freed') = emitted'
    <3>1. Len(got') = l + n /\ l + r = e
      BY <1>3, <2>2, <2>4
    <3>2. l + n + (r - n) + 0 = e
      BY <3>1
    <3> QED BY <3>1, <3>2, <1>1, <2>1, <2>3, <2>5
  <2>7. Follows(got', 0) /\ Follows(buffer'.mem, emitted' - Len(buffer'.mem))
    BY <1>4, <1>5
  <2>8. ~otherDropped' => freed' = <<>>
    BY <1>6
  <2> QED BY <2>1, <2>6, <2>7, <2>8 DEF ElementsInOrder
<1> QED BY <1>7, <1>8, <1>9 DEF IInv

\* What is left of a buffer, as a number.
LEMMA Counts ==
  ASSUME IInv
  PROVE  /\ Len(buffer.mem) \in Nat /\ buffer.ack \in Nat /\ Len(got) \in Nat
         /\ Len(freed) \in Nat /\ emitted \in Nat
         /\ Remaining(buffer) = Len(buffer.mem) - buffer.ack /\ Remaining(buffer) \in Nat
         /\ code.n \in Nat /\ event.n \in Nat
<1>1. buffer \in Buffers /\ got \in Seq(Elements) /\ freed \in Seq(Elements)
  BY DEF IInv, Types
<1>2. buffer.mem \in Seq(Elements) /\ buffer.ack \in Nat /\ buffer.ack <= Len(buffer.mem)
  BY <1>1 DEF Buffers, IInv, BufferIsWritten
<1>3. Len(buffer.mem) \in Nat /\ Len(got) \in Nat /\ Len(freed) \in Nat /\ emitted \in Nat
  BY <1>1, <1>2, LenProperties, SizesAssumption DEF Elements, IInv, Types
<1>4. code.n \in Nat /\ event.n \in Nat
  BY Results DEF IInv, Types
<1> QED BY <1>2, <1>3, <1>4 DEF Remaining

\* The empty write of newReadableStream.
LEMMA CreateStep == IInv /\ Create => IInv'
<1> SUFFICES ASSUME IInv, Create PROVE IInv'
  OBVIOUS
<1>1. buffer = NoBuffer /\ event = None /\ pc = "new"
  BY DEF IInv, BufferIsWritten, Create
<1>2. /\ buffer' \in Buffers /\ buffer'.mem = <<>> /\ buffer'.ack = 0 /\ buffer'.held
  BY BufferValues, EmptyFollows DEF Create
<1>3. Types'
  BY <1>2, Results DEF IInv, Types, Create, sink, subscription
<1>4. BufferIsWritten' /\ SourceIsHeldBack' /\ EndsFollowSource'
  BY <1>1, <1>2, Results, EmptyFollows, Counts
  DEF IInv, BufferIsWritten, SourceIsHeldBack, EndsFollowSource, Create, Remaining, sink,
      subscription
<1>5. Remaining(buffer) = 0 /\ InFlight = 0 /\ Remaining(buffer)' = 0 /\ InFlight' = 0
  BY <1>1, <1>2, Results, EmptyFollows, BufferValues DEF Create, Remaining, InFlight
<1>6. ElementsInOrder'
  <2>1. Follows(buffer'.mem, emitted' - Len(buffer'.mem))
    BY <1>2, EmptyFollows, Counts DEF Create, subscription
  <2> QED BY <1>5, <2>1, Counts DEF IInv, ElementsInOrder, Create, sink, subscription
<1> QED BY <1>3, <1>4, <1>6 DEF IInv

\* The elements that _onData writes follow those before.
LEMMA OnDataWrites ==
  ASSUME IInv, NEW n \in 0 .. MaxChunk, OnData(n)
  PROVE  LET b == Buffer(WriteToBuffer(n)) IN
         /\ b \in Buffers /\ b.held /\ b.ack <= Len(b.mem) /\ emitted' \in Elements
         /\ Len(b.mem) <= emitted'
         /\ Follows(b.mem, emitted' - Len(b.mem)) /\ Len(got) + Remaining(b) = emitted'
         /\ Remaining(b) = n
         /\ source = "active" /\ ~otherDropped /\ ~dropped
<1>1. n \in Nat /\ emitted \in Nat /\ emitted + n <= MaxElements /\ emitted' = emitted + n
  BY Counts, SizesAssumption DEF OnData
<1>2. PICK m \in Seq(Elements) :
        m = WriteToBuffer(n) /\ Len(m) = n /\ Follows(m, emitted)
  BY <1>1, WrittenFollow
<1>3. PICK b \in Buffers : b = Buffer(m) /\ b.mem = m /\ b.ack = 0 /\ b.held
  BY BufferValues
<1>4. pc = "rest" /\ source = "active" /\ ~paused /\ ~buffer.held /\ ~otherDropped
  BY DEF OnData, SourceIsHeard, IInv, SourceIsHeldBack, EndsFollowSource
<1>5. buffer = NoBuffer /\ event = None /\ freed = <<>>
  BY <1>4 DEF IInv, BufferIsWritten, ElementsInOrder
<1>6. Remaining(buffer) = 0 /\ InFlight = 0 /\ Len(freed) = 0
  BY <1>4, <1>5, BufferValues, EmptyFollows, Results DEF Remaining, InFlight
<1>7. Len(got) = emitted
  BY <1>6, Counts DEF IInv, ElementsInOrder
<1>8. /\ Remaining(b) = n /\ emitted' - Len(b.mem) = emitted /\ b.ack <= Len(b.mem)
      /\ Len(b.mem) <= emitted'
  BY <1>1, <1>2, <1>3 DEF Remaining
<1>9. emitted' \in Elements
  BY <1>1 DEF Elements
<1>10. Follows(b.mem, emitted' - Len(b.mem)) /\ Len(got) + Remaining(b) = emitted'
  BY <1>1, <1>2, <1>3, <1>7, <1>8
<1>11. ~dropped
  BY <1>4 DEF IInv, EndsFollowSource
<1> QED BY <1>2, <1>3, <1>4, <1>8, <1>9, <1>10, <1>11

\* _onData.
LEMMA OnDataStep == ASSUME IInv, NEW n \in 0 .. MaxChunk, OnData(n) PROVE IInv'
<1>1. PICK b \in Buffers :
        /\ b = Buffer(WriteToBuffer(n)) /\ b.held /\ b.ack <= Len(b.mem)
        /\ Len(b.mem) <= emitted'
        /\ emitted' \in Elements /\ Follows(b.mem, emitted' - Len(b.mem))
        /\ Len(got) + Remaining(b) = emitted' /\ source = "active"
  BY OnDataWrites
<1>2. Write(b) /\ pc' = "loop" /\ paused' = TRUE /\ UNCHANGED <<sink, source, freed>>
  BY <1>1 DEF OnData
<1> QED BY <1>1, <1>2, WriteStep

\* The loop looks at the result of a write: the source waits for it.
LEMMA LoopState ==
  ASSUME IInv, pc = "loop", NEW n \in 0 .. MaxChunk, NEW k \in {"completed", "dropped"},
         code = Result(k, n)
  PROVE  /\ source = "active" /\ ~otherDropped /\ ~doneEvent /\ ~dropped /\ paused
         /\ buffer.held /\ event = None /\ freed = <<>> /\ n <= Remaining(buffer)
         /\ Len(got) + (Remaining(buffer) - n) = emitted
         /\ Advance(n) \in Buffers /\ Advance(n).held /\ Advance(n).mem = buffer.mem
         /\ Advance(n).ack = buffer.ack + n /\ Advance(n).ack <= Len(buffer.mem)
         /\ Remaining(Advance(n)) = Remaining(buffer) - n
<1>1. code # Blocked /\ code.n = n /\ n \in Nat
  BY Results
<1>2. buffer \in Buffers /\ buffer.held /\ event = None /\ n <= Remaining(buffer)
  BY <1>1 DEF IInv, Types, BufferIsWritten
<1>3. source = "active" /\ paused
  BY <1>2 DEF IInv, SourceIsHeldBack
<1>4. ~otherDropped /\ ~doneEvent /\ ~dropped
  BY <1>3 DEF IInv, EndsFollowSource
<1>5. freed = <<>> /\ Len(freed) = 0
  BY <1>4, EmptyFollows DEF IInv, ElementsInOrder
<1>6. InFlight = n
  BY <1>1, <1>2, Results DEF InFlight
<1>7. Len(got) + (Remaining(buffer) - n) = emitted
  BY <1>5, <1>6, Counts, <1>1 DEF IInv, ElementsInOrder
<1>8. /\ Advance(n) \in Buffers /\ Advance(n).mem = buffer.mem
      /\ Advance(n).ack = buffer.ack + n /\ Advance(n).held = buffer.held
  BY <1>1, <1>2, BufferValues
<1>9. /\ Advance(n).ack <= Len(buffer.mem)
      /\ Remaining(Advance(n)) = Remaining(buffer) - n
  BY <1>1, <1>2, <1>8, Counts DEF Remaining
<1> QED BY <1>2, <1>3, <1>4, <1>5, <1>7, <1>8, <1>9

\* A write took n elements, and was given more.
LEMMA LoopWrites ==
  ASSUME IInv, NEW n \in 0 .. MaxChunk, LoopCompleted(n), Remaining(buffer) > n
  PROVE  LET b == Advance(n) IN
         /\ b \in Buffers /\ b.held /\ b.ack <= Len(b.mem) /\ emitted' \in Elements
         /\ Len(b.mem) <= emitted'
         /\ Follows(b.mem, emitted' - Len(b.mem)) /\ Len(got) + Remaining(b) = emitted'
         /\ Write(b) /\ pc' = "loop" /\ paused' = TRUE /\ UNCHANGED <<sink, source, freed>>
         /\ source = "active" /\ ~otherDropped /\ ~dropped /\ emitted' = emitted
<1>1. PICK b \in Buffers :
        /\ b = Advance(n) /\ b.held /\ b.mem = buffer.mem
        /\ b.ack <= Len(buffer.mem) /\ Remaining(b) = Remaining(buffer) - n
        /\ source = "active" /\ ~otherDropped /\ ~dropped /\ paused
        /\ Len(got) + (Remaining(buffer) - n) = emitted
  BY LoopState DEF LoopCompleted
<1>2. /\ Write(b) /\ UNCHANGED <<pc, paused, dropped, otherDropped, doneEvent>>
      /\ UNCHANGED <<source, emitted, freed>> /\ pc = "loop"
  BY <1>1 DEF LoopCompleted
<1>3. Len(got) + Remaining(b) = emitted'
  BY <1>1, <1>2
<1>4. /\ emitted' \in Elements /\ Follows(b.mem, emitted' - Len(b.mem))
      /\ Len(b.mem) <= emitted'
  BY <1>1, <1>2 DEF IInv, Types, BufferIsWritten, ElementsInOrder
<1>5. paused' = TRUE
  BY <1>1, <1>2 DEF IInv, Types
<1> QED BY <1>1, <1>2, <1>3, <1>4, <1>5 DEF sink

\* The loop goes on with what is left of the buffer, or is over.
LEMMA LoopCompletedStep == ASSUME IInv, NEW n \in 0 .. MaxChunk, LoopCompleted(n) PROVE IInv'
<1>1. CASE Remaining(buffer) > n
  <2>1. PICK b \in Buffers :
          /\ b = Advance(n) /\ b.held /\ b.ack <= Len(b.mem)
          /\ Len(b.mem) <= emitted'
          /\ emitted' \in Elements /\ Follows(b.mem, emitted' - Len(b.mem))
          /\ Len(got) + Remaining(b) = emitted' /\ source = "active"
          /\ Write(b) /\ pc' = "loop" /\ paused' = TRUE /\ UNCHANGED <<sink, source, freed>>
    BY <1>1, LoopWrites
  <2> QED BY <2>1, WriteStep
<1>2. CASE ~(Remaining(buffer) > n)
  <2>1. /\ source = "active" /\ ~otherDropped /\ ~doneEvent /\ ~dropped /\ paused
        /\ event = None /\ freed = <<>> /\ n <= Remaining(buffer)
        /\ Len(got) + (Remaining(buffer) - n) = emitted
    BY LoopState DEF LoopCompleted
  <2>2. /\ buffer' = NoBuffer /\ dropped' = doneEvent /\ paused' = (paused /\ doneEvent)
        /\ pc' = "rest" /\ UNCHANGED <<code, event, got>>
        /\ UNCHANGED <<otherDropped, doneEvent, source, emitted, freed>>
    BY <1>2 DEF LoopCompleted
  <2>3. dropped' = FALSE /\ paused' = FALSE
    BY <2>1, <2>2 DEF IInv, Types
  <2>4. buffer' \in Buffers /\ buffer'.mem = <<>> /\ buffer'.ack = 0 /\ ~buffer'.held
    BY <2>2, BufferValues
  <2>5. Types'
    BY <2>2, <2>3, <2>4 DEF IInv, Types
  <2>6. BufferIsWritten' /\ SourceIsHeldBack' /\ EndsFollowSource'
    BY <2>1, <2>2, <2>3, <2>4, Results, EmptyFollows, Counts
    DEF IInv, BufferIsWritten, SourceIsHeldBack, EndsFollowSource, Remaining
  <2>7. Remaining(buffer)' = 0 /\ InFlight' = 0 /\ Len(got) = emitted /\ Len(freed) = 0
    BY <1>2, <2>1, <2>2, <2>4, Results, EmptyFollows, Counts DEF Remaining, InFlight
  <2>8. Follows(buffer'.mem, emitted' - Len(buffer'.mem))
    BY <2>2, <2>4, EmptyFollows, Counts
  <2>9. ElementsInOrder'
    BY <2>2, <2>7, <2>8, Counts DEF IInv, ElementsInOrder
  <2> QED BY <2>5, <2>6, <2>9 DEF IInv
<1> QED BY <1>1, <1>2

\* The peer is gone: what it has not taken is freed.
LEMMA LoopDroppedStep == ASSUME IInv, NEW n \in 0 .. MaxChunk, LoopDropped(n) PROVE IInv'
<1>1. /\ source = "active" /\ ~otherDropped /\ ~doneEvent /\ ~dropped /\ paused
      /\ buffer.held /\ event = None /\ freed = <<>> /\ n <= Remaining(buffer)
      /\ Len(got) + (Remaining(buffer) - n) = emitted
      /\ Advance(n).mem = buffer.mem /\ Advance(n).ack = buffer.ack + n
      /\ Advance(n).ack <= Len(buffer.mem)
  BY LoopState DEF LoopDropped
<1>2. /\ freed' = freed \o Rest(Advance(n)) /\ buffer' = NoBuffer /\ otherDropped' = TRUE
      /\ dropped' = doneEvent /\ source' = IF doneEvent THEN source ELSE "cancelling"
      /\ pc' = "rest"
      /\ UNCHANGED <<code, doneEvent, paused, emitted, event, got>>
  BY DEF LoopDropped
<1>3. dropped' = FALSE /\ source' = "cancelling"
  BY <1>1, <1>2 DEF IInv, Types
<1>4. buffer' \in Buffers /\ buffer'.mem = <<>> /\ buffer'.ack = 0 /\ ~buffer'.held
  BY <1>2, BufferValues
<1>5. PICK m \in Seq(Elements), l \in Int, a \in Int, e \in Int, q \in Int :
        m = buffer.mem /\ l = Len(got) /\ a = buffer.ack /\ e = emitted /\ q = Len(m)
  <2>1. buffer.mem \in Seq(Elements)
    BY DEF IInv, Types, Buffers
  <2>2. PICK m \in Seq(Elements) : m = buffer.mem
    BY <2>1
  <2>3. Len(m) \in Int /\ Len(got) \in Int /\ buffer.ack \in Int /\ emitted \in Int
    BY <2>2, Counts
  <2> QED BY <2>2, <2>3, Zenon
<1>6. l + (q - a - n) = e /\ a + n <= q /\ a >= 0 /\ n \in Nat
  <2>1. Remaining(buffer) = q - a /\ a >= 0
    BY <1>5, Counts
  <2>2. PICK r \in Int : r = Remaining(buffer)
    BY <2>1
  <2>3. l + (r - n) = e /\ n <= r /\ r = q - a /\ n \in Nat
    BY <2>1, <2>2, <1>1, <1>5
  <2> QED BY <2>1, <2>3
<1>7. PICK u \in Seq(Elements) : u = SubSeq(m, a + n + 1, q) /\ Len(u) = e - l /\ Follows(u, l)
  <2>1. PICK p \in Int : p = a + n + 1
    BY <1>6
  <2>2. p >= 1 /\ p <= q + 1 /\ q - p + 1 = e - l /\ l - p + 1 = e - q
    BY <1>6, <2>1
  <2>3. Follows(m, e - q) /\ q <= Len(m)
    BY <1>5 DEF IInv, ElementsInOrder
  <2>4. Follows(m, l - p + 1)
    BY <2>2, <2>3
  <2>5. /\ SubSeq(m, p, q) \in Seq(Elements) /\ Len(SubSeq(m, p, q)) = q - p + 1
        /\ Follows(SubSeq(m, p, q), l)
    BY <2>2, <2>3, <2>4, PartFollows
  <2> QED BY <2>1, <2>2, <2>5
<1>8. Rest(Advance(n)) = u /\ freed' = u
  <2>1. Rest(Advance(n)) = u
    BY <1>1, <1>5, <1>7 DEF Rest
  <2>2. <<>> \o u = u
    BY <1>7, ConcatEmptySeq
  <2> QED BY <1>1, <1>2, <2>1, <2>2
<1>9. Types'
  BY <1>2, <1>3, <1>4, <1>7, <1>8 DEF IInv, Types
<1>10. BufferIsWritten' /\ SourceIsHeldBack' /\ EndsFollowSource'
  BY <1>1, <1>2, <1>3, <1>4, Results, EmptyFollows, Counts
  DEF IInv, BufferIsWritten, SourceIsHeldBack, EndsFollowSource, Remaining
<1>11. Remaining(buffer)' = 0 /\ InFlight' = 0
  BY <1>1, <1>2, <1>4, Results, EmptyFollows DEF Remaining, InFlight
<1>12. ElementsInOrder'
  <2>1. Follows(buffer'.mem, emitted' - Len(buffer'.mem))
    BY <1>2, <1>4, EmptyFollows, Counts
  <2>2. Follows(got', 0) /\ Follows(freed', Len(got'))
    BY <1>2, <1>5, <1>7, <1>8 DEF IInv, ElementsInOrder
  <2>3. Len(got') = l /\ Len(freed') = emitted - l /\ emitted' = emitted
    BY <1>2, <1>5, <1>7, <1>8
  <2>4. Len(got') + (Remaining(buffer)' - InFlight') + Len(freed') = emitted'
    BY <1>11, <2>3, Counts
  <2> QED BY <1>2, <2>1, <2>2, <2>4 DEF ElementsInOrder
<1> QED BY <1>9, <1>10, <1>12 DEF IInv

\* A write that blocks.
LEMMA LoopBlockedStep == IInv /\ LoopBlocked => IInv'
<1> SUFFICES ASSUME IInv, LoopBlocked PROVE IInv'
  OBVIOUS
<1>1. /\ pc = "loop" /\ code = Blocked /\ pc' = "rest"
      /\ UNCHANGED <<code, buffer, otherDropped, doneEvent, dropped>>
      /\ UNCHANGED <<source, paused, emitted, event, got, freed>>
  BY DEF LoopBlocked, sink, subscription
<1>2. event = Blocked /\ buffer.held /\ 0 <= Remaining(buffer)
  BY <1>1, Results, Counts DEF IInv, BufferIsWritten
<1>3. Types' /\ SourceIsHeldBack' /\ EndsFollowSource'
  BY <1>1, <1>2 DEF IInv, Types, BufferIsWritten, SourceIsHeldBack, EndsFollowSource
<1>4. BufferIsWritten'
  BY <1>1, <1>2, Results DEF IInv, BufferIsWritten, Remaining
<1>5. InFlight' = InFlight /\ Remaining(buffer)' = Remaining(buffer)
  BY <1>1, <1>2, Results DEF InFlight, Remaining
<1>6. ElementsInOrder'
  BY <1>1, <1>5 DEF IInv, ElementsInOrder
<1> QED BY <1>3, <1>4, <1>6 DEF IInv

\* The loop goes on with the result of a write that blocked.
LEMMA DispatchEventStep == IInv /\ DispatchEvent => IInv'
<1> SUFFICES ASSUME IInv, DispatchEvent PROVE IInv'
  OBVIOUS
<1>1. /\ pc = "rest" /\ event.kind \in {"completed", "dropped"}
      /\ code' = event /\ event' = None /\ pc' = "loop"
      /\ UNCHANGED <<buffer, otherDropped, doneEvent, dropped>>
      /\ UNCHANGED <<source, paused, emitted, got, freed>>
  BY DEF DispatchEvent, sink, subscription
<1>2. event \in HostResults /\ event # None
  BY <1>1 DEF IInv, Types, None, Blocked
<1>3. buffer.held /\ event.n <= Remaining(buffer) /\ source = "active" /\ paused
  BY <1>1, <1>2 DEF IInv, BufferIsWritten, SourceIsHeldBack
<1>4. Types' /\ SourceIsHeldBack' /\ EndsFollowSource'
  BY <1>1, <1>2, <1>3 DEF IInv, Types, SourceIsHeldBack, EndsFollowSource
<1>5. BufferIsWritten'
  BY <1>1, <1>2, <1>3 DEF IInv, BufferIsWritten, Remaining
<1>6. InFlight' = InFlight /\ Remaining(buffer)' = Remaining(buffer)
  BY <1>1, Results, Counts DEF InFlight, Remaining
<1>7. ElementsInOrder'
  BY <1>1, <1>6 DEF IInv, ElementsInOrder
<1> QED BY <1>4, <1>5, <1>7 DEF IInv

\* The source ends: it is heard only while nothing is written.
LEMMA OnDoneStep == IInv /\ OnDone => IInv'
<1> SUFFICES ASSUME IInv, OnDone PROVE IInv'
  OBVIOUS
<1>1. /\ pc = "rest" /\ source = "active" /\ ~paused
      /\ doneEvent' = TRUE /\ source' = "ended" /\ dropped' = ~buffer.held
      /\ UNCHANGED <<pc, code, buffer, otherDropped, paused, emitted, event, got, freed>>
  BY DEF OnDone, SourceIsHeard
<1>2. ~buffer.held
  BY <1>1 DEF IInv, SourceIsHeldBack
<1>3. dropped' = TRUE
  BY <1>1, <1>2
<1>4. Types' /\ SourceIsHeldBack' /\ EndsFollowSource'
  BY <1>1, <1>2, <1>3 DEF IInv, Types, SourceIsHeldBack, EndsFollowSource
<1>5. BufferIsWritten' /\ ElementsInOrder'
  BY <1>1 DEF IInv, BufferIsWritten, ElementsInOrder, InFlight, Remaining
<1> QED BY <1>4, <1>5 DEF IInv

\* The source of a peer that is gone is cancelled.
LEMMA CancelCompletesStep == IInv /\ CancelCompletes => IInv'
<1> SUFFICES ASSUME IInv, CancelCompletes PROVE IInv'
  OBVIOUS
<1>1. /\ pc = "rest" /\ source = "cancelling" /\ source' = "cancelled" /\ dropped' = TRUE
      /\ UNCHANGED <<pc, code, buffer, otherDropped, doneEvent, paused>>
      /\ UNCHANGED <<emitted, event, got, freed>>
  BY DEF CancelCompletes
<1>2. Types' /\ SourceIsHeldBack' /\ EndsFollowSource'
  BY <1>1 DEF IInv, Types, SourceIsHeldBack, EndsFollowSource
<1>3. BufferIsWritten' /\ ElementsInOrder'
  BY <1>1 DEF IInv, BufferIsWritten, ElementsInOrder, InFlight, Remaining
<1> QED BY <1>2, <1>3 DEF IInv

\* A blocked write is over: what the peer has of the buffer, and what stays.
LEMMA HostResultTakes ==
  ASSUME IInv, NEW k \in {"completed", "dropped"}, NEW n \in 0 .. MaxChunk, HostResult(k, n)
  PROVE  /\ source = "active" /\ ~otherDropped /\ ~dropped /\ buffer.held /\ freed = <<>>
         /\ n <= Remaining(buffer) /\ Len(got) + Remaining(buffer) = emitted
         /\ got' \in Seq(Elements) /\ Len(got') = Len(got) + n /\ Follows(got', 0)
         /\ ElementSize = 1 => got' = got \o After(Len(got), n)
<1>1. pc = "rest" /\ event = Blocked /\ Transfers(k, n, buffer) /\ got' = Takes(buffer, n)
  BY DEF HostResult
<1>2. buffer.held /\ source = "active" /\ ~otherDropped /\ ~dropped /\ InFlight = 0
  BY <1>1, Results
  DEF IInv, BufferIsWritten, SourceIsHeldBack, EndsFollowSource, InFlight
<1>3. freed = <<>> /\ Len(freed) = 0 /\ Len(got) + Remaining(buffer) = emitted
  BY <1>2, EmptyFollows, Counts DEF IInv, ElementsInOrder
<1>4. n \in Nat /\ n <= Remaining(buffer)
  BY <1>1, SizesAssumption DEF Transfers
<1>5. PICK e \in Int, b \in Buffers : e = emitted /\ b = buffer
  BY Counts DEF IInv, Types
<1>6. /\ b.ack <= Len(b.mem) /\ got \in Seq(Elements) /\ Follows(got, 0)
      /\ Follows(b.mem, e - Len(b.mem)) /\ Len(got) + Remaining(b) = e /\ n <= Remaining(b)
  BY <1>3, <1>4, <1>5 DEF IInv, Types, BufferIsWritten, ElementsInOrder
<1>7. /\ Takes(b, n) \in Seq(Elements) /\ Len(Takes(b, n)) = Len(got) + n
      /\ Follows(Takes(b, n), 0)
      /\ ElementSize = 1 => Takes(b, n) = got \o After(Len(got), n)
  BY <1>4, <1>6, TakesFollow
<1> QED BY <1>1, <1>2, <1>3, <1>4, <1>5, <1>7

\* The host finishes a blocked write.
LEMMA HostResultStep ==
  ASSUME IInv, NEW k \in {"completed", "dropped"}, NEW n \in 0 .. MaxChunk, HostResult(k, n)
  PROVE  IInv'
<1>1. /\ pc = "rest" /\ event = Blocked /\ event' = Result(k, n)
      /\ UNCHANGED <<pc, code, buffer, otherDropped, doneEvent, dropped>>
      /\ UNCHANGED <<source, paused, emitted, freed>>
  BY DEF HostResult, sink, subscription
<1>2. /\ source = "active" /\ ~otherDropped /\ buffer.held /\ freed = <<>>
      /\ n <= Remaining(buffer) /\ Len(got) + Remaining(buffer) = emitted
      /\ got' \in Seq(Elements) /\ Len(got') = Len(got) + n /\ Follows(got', 0)
  BY HostResultTakes
<1>3. event' \in HostResults /\ event'.n = n /\ event' # None /\ n \in Nat
  BY <1>1, Results
<1>4. Types' /\ SourceIsHeldBack' /\ EndsFollowSource'
  BY <1>1, <1>2, <1>3 DEF IInv, Types, SourceIsHeldBack, EndsFollowSource
<1>5. BufferIsWritten'
  BY <1>1, <1>2, <1>3 DEF IInv, BufferIsWritten, Remaining
<1>6. InFlight' = n /\ Remaining(buffer)' = Remaining(buffer) /\ Len(freed') = 0
  BY <1>1, <1>2, <1>3, EmptyFollows DEF InFlight, Remaining
<1>7. Len(got') + (Remaining(buffer)' - InFlight') + Len(freed') = emitted'
  BY <1>1, <1>2, <1>3, <1>6, Counts
<1>8. Follows(freed', Len(got'))
  BY <1>1, <1>2, <1>3, EmptyFollows, Counts
<1>9. ElementsInOrder'
  BY <1>1, <1>2, <1>7, <1>8 DEF IInv, ElementsInOrder
<1> QED BY <1>4, <1>5, <1>9 DEF IInv

\* Every step preserves the invariant.
LEMMA NextInv == IInv /\ [Next]_vars => IInv'
<1> SUFFICES ASSUME IInv, [Next]_vars PROVE IInv'
  OBVIOUS
<1>1. CASE Create BY <1>1, CreateStep
<1>2. CASE \E n \in 0 .. MaxChunk : OnData(n) BY <1>2, OnDataStep
<1>3. CASE OnDone BY <1>3, OnDoneStep
<1>4. CASE Loop
  BY <1>4, LoopBlockedStep, LoopCompletedStep, LoopDroppedStep DEF Loop
<1>5. CASE CancelCompletes BY <1>5, CancelCompletesStep
<1>6. CASE DispatchEvent BY <1>6, DispatchEventStep
<1>7. CASE Host BY <1>7, HostResultStep DEF Host
<1>8. CASE UNCHANGED vars
  <2>1. /\ UNCHANGED <<pc, code, buffer, otherDropped, doneEvent, dropped>>
        /\ UNCHANGED <<source, paused, emitted, event, got, freed>>
    BY <1>8 DEF vars, sink, subscription
  <2> QED BY <2>1
      DEF IInv, Types, BufferIsWritten, SourceIsHeldBack, EndsFollowSource, ElementsInOrder,
          Remaining, InFlight
<1> QED BY <1>1, <1>2, <1>3, <1>4, <1>5, <1>6, <1>7, <1>8 DEF Next
-----------------------------------------------------------------------------
(* What follows.                                                           *)

\* No reachable state of a sink violates the inductive invariant.
THEOREM Invariance == Spec => []IInv
  BY InitInv, NextInv, PTL DEF Spec

\* The peer took no more of the buffer than there was.
LEMMA InFlightFits == IInv => InFlight \in Nat /\ InFlight <= Remaining(buffer)
  BY Results, Counts DEF IInv, Types, BufferIsWritten, InFlight

\* The variables of a sink have values of their types, for lists and elements of
\* any size: a write never acknowledges more than its buffer holds.
THEOREM TypeCorrect == Spec => []TypeOK
<1>1. IInv => TypeOK
  <2> SUFFICES ASSUME IInv PROVE TypeOK
    OBVIOUS
  <2>1. /\ Len(buffer.mem) <= MaxElements /\ Len(got) <= MaxElements
        /\ Len(freed) <= MaxElements /\ buffer.ack \in 0 .. Len(buffer.mem)
    <3>1. emitted <= MaxElements /\ emitted \in Nat /\ MaxElements \in Nat
      BY SizesAssumption DEF IInv, Types, Elements
    <3>2. InFlight <= Remaining(buffer) /\ InFlight \in Nat
      BY InFlightFits
    <3>3. Len(got) + (Remaining(buffer) - InFlight) + Len(freed) = emitted
          /\ buffer.ack <= Len(buffer.mem) /\ Len(buffer.mem) <= emitted
      BY DEF IInv, ElementsInOrder, BufferIsWritten
    <3>4. Len(got) <= emitted /\ Len(freed) <= emitted
      BY <3>1, <3>2, <3>3, Counts
    <3> QED BY <3>1, <3>3, <3>4, Counts
  <2>2. IsRun(buffer.mem) /\ IsRun(got) /\ IsRun(freed)
    <3>1. \A s \in Seq(Elements) : \A i \in 1 .. Len(s) : s[i] \in Elements
      BY ElementOfSeq
    <3>2. buffer.mem \in Seq(Elements) /\ got \in Seq(Elements) /\ freed \in Seq(Elements)
      BY DEF IInv, Types, Buffers
    <3> QED BY <2>1, <3>1, <3>2 DEF IsRun
  <2> QED BY <2>1, <2>2 DEF TypeOK, IInv, Types, Buffers
<1> QED BY <1>1, Invariance, PTL

\* A source is held back exactly while a write refers to its elements, and the
\* writable end is never dropped during one, whatever the sizes.
THEOREM SourceWaits == Spec => []PausedWhileWriting
<1>1. IInv => PausedWhileWriting
  BY DEF IInv, BufferIsWritten, SourceIsHeldBack, EndsFollowSource, PausedWhileWriting
<1> QED BY <1>1, Invariance, PTL

\* Elements of one byte that follow each other from the first are those emitted.
LEMMA FromTheFirst ==
  ASSUME ElementSize = 1, NEW s \in Seq(Elements), Follows(s, 0)
  PROVE  s = [i \in 1 .. Len(s) |-> i]
<1>1. \A i \in 1 .. Len(s) : s[i] = i
  BY DEF Follows
<1>2. s \in [1 .. Len(s) -> Elements]
  BY LenProperties
<1> QED BY <1>1, <1>2

\* So are three sequences of them that follow each other.
LEMMA ThreeFollow ==
  ASSUME NEW s \in Seq(Elements), NEW u \in Seq(Elements), NEW w \in Seq(Elements),
         NEW l \in Int, NEW j \in Int, l = Len(s), j = l + Len(u),
         Follows(s, 0), Follows(u, l), Follows(w, j)
  PROVE  /\ s \o u \o w \in Seq(Elements) /\ Len(s \o u \o w) = j + Len(w)
         /\ Follows(s \o u \o w, 0)
<1>1. l = 0 + Len(s) /\ 0 \in Int
  OBVIOUS
<1>2. s \o u \in Seq(Elements) /\ Len(s \o u) = Len(s) + Len(u) /\ Follows(s \o u, 0)
  BY <1>1, ConcatFollows
<1>3. PICK x \in Seq(Elements) : x = s \o u /\ Len(x) = j /\ Follows(x, 0)
  BY <1>2
<1>4. j = 0 + Len(x)
  BY <1>3
<1>5. x \o w \in Seq(Elements) /\ Len(x \o w) = Len(x) + Len(w) /\ Follows(x \o w, 0)
  BY <1>1, <1>3, <1>4, ConcatFollows
<1> QED BY <1>3, <1>5

\* Elements of one byte have one owner each, with the peer, in the buffer or
\* freed with it: partial writes and a peer that leaves neither leak an element
\* nor free one that was transferred.
THEOREM ElementsHaveOneOwner ==
  ASSUME ElementSize = 1
  PROVE  Spec => []WritesAreExclusive
<1>1. IInv => OneOwner
  <2> SUFFICES ASSUME IInv PROVE OneOwner
    OBVIOUS
  <2>1. /\ got \in Seq(Elements) /\ freed \in Seq(Elements) /\ Follows(got, 0)
        /\ Follows(freed, Len(got))
        /\ Len(got) + (Remaining(buffer) - InFlight) + Len(freed) = emitted
    BY DEF IInv, Types, ElementsInOrder
  <2>2. PICK m \in Seq(Elements), q \in Nat : m = buffer.mem /\ q = Len(m)
    BY Counts DEF IInv, Types, Buffers
  <2>3. PICK a \in Nat, f \in Nat, e \in Nat, l \in Nat :
          a = buffer.ack /\ f = InFlight /\ e = emitted /\ l = Len(got)
    BY Counts, InFlightFits
  <2>4. Remaining(buffer) = q - a /\ f <= q - a
    BY <2>2, <2>3, Counts, InFlightFits
  <2>5. l + (q - a - f) + Len(freed) = e
    BY <2>1, <2>2, <2>3, <2>4
  <2>6. PICK p \in Int, j \in Int : p = a + f + 1 /\ j = e - (q - a - f)
    OBVIOUS
  <2>7. PICK u \in Seq(Elements) : u = SubSeq(m, p, q) /\ Len(u) = q - a - f /\ Follows(u, j)
    <3>1. p >= 1 /\ p <= q + 1 /\ q - p + 1 = q - a - f /\ j - p + 1 = e - q
      BY <2>4, <2>6
    <3>2. Follows(m, e - q) /\ q <= Len(m)
      BY <2>2, <2>3 DEF IInv, ElementsInOrder
    <3>3. Follows(m, j - p + 1)
      BY <3>1, <3>2
    <3>4. /\ SubSeq(m, p, q) \in Seq(Elements) /\ Len(SubSeq(m, p, q)) = q - p + 1
          /\ Follows(SubSeq(m, p, q), j)
      BY <3>1, <3>2, <3>3, PartFollows
    <3> QED BY <3>1, <3>4
  <2>8. PICK i \in Int : i = l + Len(u) /\ Len(u) = q - a - f
    BY <2>7
  <2>9. Follows(u, l) /\ Follows(freed, i)
    <3>1. CASE freed = <<>>
      <4>1. Len(freed) = 0
        BY <3>1, EmptyFollows
      <4>2. j = l
        BY <2>5, <2>6, <4>1
      <4>3. Follows(u, l)
        BY <2>7, <4>2
      <4>4. Follows(freed, i)
        BY <3>1, EmptyFollows
      <4> QED BY <4>3, <4>4
    <3>2. CASE freed # <<>>
      <4>1. otherDropped
        BY <3>2 DEF IInv, ElementsInOrder
      <4>2. source # "active"
        BY <4>1 DEF IInv, EndsFollowSource
      <4>3. buffer = NoBuffer
        BY <4>2 DEF IInv, SourceIsHeldBack, BufferIsWritten
      <4>4. q = 0
        BY <2>2, <4>3, BufferValues, EmptyFollows
      <4>5. Len(u) = 0
        BY <2>4, <2>8, <4>4
      <4>6. u = <<>> /\ i = Len(got)
        BY <2>3, <2>7, <2>8, <4>5, EmptySeq
      <4> QED BY <2>1, <4>6, EmptyFollows
    <3> QED BY <3>1, <3>2
  <2>10. got \o u \o freed = [n \in 1 .. e |-> n]
    <3>1. i + Len(freed) = e
      BY <2>5, <2>8
    <3>2. /\ got \o u \o freed \in Seq(Elements) /\ Len(got \o u \o freed) = i + Len(freed)
          /\ Follows(got \o u \o freed, 0)
      <4>1. l \in Int /\ l = Len(got) /\ i = l + Len(u)
        BY <2>3, <2>8
      <4>2. Follows(got, 0) /\ Follows(u, l) /\ Follows(freed, i)
        BY <2>1, <2>9
      <4>3. got \in Seq(Elements) /\ freed \in Seq(Elements)
        BY <2>1
      <4> QED BY <4>1, <4>2, <4>3, ThreeFollow
    <3>3. PICK x \in Seq(Elements) : x = got \o u \o freed /\ Len(x) = e /\ Follows(x, 0)
      BY <3>1, <3>2
    <3>4. x = [n \in 1 .. Len(x) |-> n]
      BY <3>3, FromTheFirst
    <3> QED BY <3>3, <3>4
  <2> QED BY <2>2, <2>3, <2>6, <2>7, <2>10 DEF OneOwner
<1>2. IInv => PausedWhileWriting
  BY DEF IInv, BufferIsWritten, SourceIsHeldBack, EndsFollowSource, PausedWhileWriting
<1>3. IInv => WritesAreExclusive
  BY <1>1, <1>2 DEF WritesAreExclusive
<1> QED BY <1>3, Invariance, PTL
-----------------------------------------------------------------------------
(* A sink of elements of one byte implements the pipe.                     *)

\* Taking m elements after n were emitted, as a step of the pipe.
LEMMA PutGetStep ==
  ASSUME IInv, NEW n \in Nat, NEW m \in Nat, ~otherDropped, ~dropped,
         UNCHANGED <<otherDropped, dropped>>, emitted' \in Elements, emitted' = emitted + n,
         Len(got) + m <= emitted', got' = got \o After(Len(got), m)
  PROVE  Stream!Next
<1>1. emitted \in Nat /\ Len(got) \in Nat
  BY Counts
<1>2. emitted' <= MaxElements
  BY SizesAssumption DEF Elements
<1>3. n \in 0 .. MaxElements /\ m \in 0 .. MaxElements /\ emitted + n <= MaxElements
      /\ Len(got) + m <= emitted + n
  BY <1>1, <1>2, SizesAssumption
<1>4. got' = got \o [i \in 1 .. m |-> Len(got) + i]
  BY DEF After
<1>5. Stream!PutGet
  BY <1>3, <1>4 DEF Stream!PutGet
<1> QED BY <1>5 DEF Stream!Next

\* The empty sink is an empty pipe.
LEMMA InitImplements == Init => Stream!Init
  BY DEF Init, Stream!Init

\* Emitted elements enter the pipe, and the peer may take some at once.
LEMMA OnDataImplements ==
  ASSUME ElementSize = 1, IInv, NEW n \in 0 .. MaxChunk, OnData(n)
  PROVE  Stream!Next
<1>1. PICK b \in Buffers :
        /\ b = Buffer(WriteToBuffer(n)) /\ b.ack <= Len(b.mem)
        /\ emitted' \in Elements /\ Follows(b.mem, emitted' - Len(b.mem))
        /\ Len(got) + Remaining(b) = emitted' /\ ~otherDropped /\ ~dropped
  BY OnDataWrites
<1>2. Write(b) /\ UNCHANGED <<otherDropped, dropped>> /\ emitted' = emitted + n
  BY <1>1 DEF OnData, sink
<1>3. PICK e \in Int : e = emitted' /\ Follows(b.mem, e - Len(b.mem))
  BY <1>1 DEF Elements
<1>4. got \in Seq(Elements) /\ Follows(got, 0) /\ Len(got) + Remaining(b) = e
  BY <1>1, <1>3 DEF IInv, Types, ElementsInOrder
<1>5. PICK m \in 0 .. MaxChunk : m <= Remaining(b) /\ got' = got \o After(Len(got), m)
  BY <1>1, <1>2, <1>3, <1>4, WriteResult
<1>6. n \in Nat /\ m \in Nat /\ Remaining(b) \in Int
  BY SizesAssumption, LenProperties DEF Remaining, Buffers
<1>7. Len(got) + m <= emitted'
  BY <1>1, <1>5, <1>6, Counts
<1> QED BY <1>1, <1>2, <1>5, <1>6, <1>7, PutGetStep

\* The rest of a buffer is written, and the peer may take some of it at once.
LEMMA LoopCompletedImplements ==
  ASSUME ElementSize = 1, IInv, NEW n \in 0 .. MaxChunk, LoopCompleted(n)
  PROVE  [Stream!Next]_Stream!vars
<1>1. CASE Remaining(buffer) > n
  <2>1. PICK b \in Buffers :
          /\ b = Advance(n) /\ b.ack <= Len(b.mem)
          /\ emitted' \in Elements /\ Follows(b.mem, emitted' - Len(b.mem))
          /\ Len(got) + Remaining(b) = emitted' /\ ~otherDropped /\ ~dropped
          /\ Write(b) /\ UNCHANGED sink /\ emitted' = emitted
    BY <1>1, LoopWrites
  <2>2. PICK e \in Int : e = emitted' /\ Follows(b.mem, e - Len(b.mem))
    BY <2>1 DEF Elements
  <2>3. got \in Seq(Elements) /\ Follows(got, 0) /\ Len(got) + Remaining(b) = e
    BY <2>1, <2>2 DEF IInv, Types, ElementsInOrder
  <2>4. PICK m \in 0 .. MaxChunk : m <= Remaining(b) /\ got' = got \o After(Len(got), m)
    BY <2>1, <2>2, <2>3, WriteResult
  <2>5. 0 \in Nat /\ m \in Nat /\ Remaining(b) \in Int /\ emitted' = emitted + 0
    BY <2>1, SizesAssumption, LenProperties, Counts DEF Remaining, Buffers
  <2>6. Len(got) + m <= emitted' /\ UNCHANGED <<otherDropped, dropped>>
    BY <2>1, <2>4, <2>5, Counts DEF sink
  <2> QED BY <2>1, <2>4, <2>5, <2>6, PutGetStep
<1>2. CASE ~(Remaining(buffer) > n)
  <2>1. ~dropped /\ ~doneEvent
    BY LoopState DEF LoopCompleted
  <2>2. UNCHANGED <<emitted, got, otherDropped>> /\ dropped' = doneEvent
    BY <1>2 DEF LoopCompleted
  <2>3. ~dropped'
    BY <2>1, <2>2
  <2> QED BY <2>1, <2>2, <2>3 DEF Stream!vars
<1> QED BY <1>1, <1>2

\* The peer that is gone has given the pipe up.
LEMMA LoopDroppedImplements ==
  ASSUME IInv, NEW n \in 0 .. MaxChunk, LoopDropped(n)
  PROVE  Stream!Next
<1>1. ~otherDropped /\ ~dropped
  BY LoopState DEF LoopDropped
<1>2. otherDropped' = TRUE /\ UNCHANGED <<emitted, got>>
  BY DEF LoopDropped
<1>3. Stream!Cut
  BY <1>1, <1>2 DEF Stream!Cut
<1> QED BY <1>3 DEF Stream!Next

\* The end of the source is seen after all that it emitted.
LEMMA OnDoneImplements == IInv /\ OnDone => Stream!Next
<1> SUFFICES ASSUME IInv, OnDone PROVE Stream!Next
  OBVIOUS
<1>1. /\ pc = "rest" /\ source = "active" /\ ~paused
      /\ dropped' = ~buffer.held /\ UNCHANGED <<otherDropped, emitted, got, buffer>>
  BY DEF OnDone, SourceIsHeard
<1>2. ~buffer.held /\ ~otherDropped /\ ~dropped /\ freed = <<>>
  BY <1>1 DEF IInv, SourceIsHeldBack, EndsFollowSource, ElementsInOrder
<1>3. buffer = NoBuffer /\ event = None
  BY <1>1, <1>2 DEF IInv, BufferIsWritten
<1>4. Remaining(buffer) = 0 /\ InFlight = 0 /\ Len(freed) = 0
  BY <1>1, <1>2, <1>3, BufferValues, EmptyFollows, Results DEF Remaining, InFlight
<1>5. Len(got) = emitted
  BY <1>4, Counts DEF IInv, ElementsInOrder
<1>6. dropped' = TRUE
  BY <1>1, <1>2
<1>7. Stream!End
  BY <1>1, <1>2, <1>5, <1>6 DEF Stream!End
<1> QED BY <1>7 DEF Stream!Next

\* The peer takes elements of a write that blocked.
LEMMA HostResultImplements ==
  ASSUME ElementSize = 1, IInv, NEW k \in {"completed", "dropped"}, NEW n \in 0 .. MaxChunk,
         HostResult(k, n)
  PROVE  Stream!Next
<1>1. /\ ~otherDropped /\ ~dropped /\ n <= Remaining(buffer)
      /\ Len(got) + Remaining(buffer) = emitted /\ got' = got \o After(Len(got), n)
  BY HostResultTakes
<1>2. UNCHANGED <<otherDropped, dropped, emitted>>
  BY DEF HostResult, sink, subscription
<1>3. 0 \in Nat /\ n \in Nat /\ emitted' = emitted + 0 /\ Len(got) + n <= emitted'
  BY <1>1, <1>2, SizesAssumption, Counts
<1>4. emitted' \in Elements
  BY <1>2 DEF IInv, Types
<1> QED BY <1>1, <1>2, <1>3, <1>4, PutGetStep

\* Every step of a sink is a step of the pipe, or leaves it alone.
LEMMA NextImplements ==
  ASSUME ElementSize = 1, IInv, [Next]_vars
  PROVE  [Stream!Next]_Stream!vars
<1>1. CASE Create \/ LoopBlocked \/ DispatchEvent \/ UNCHANGED vars
  <2>1. UNCHANGED <<emitted, got, otherDropped, dropped>>
    BY <1>1 DEF Create, LoopBlocked, DispatchEvent, vars, sink, subscription
  <2> QED BY <2>1 DEF Stream!vars
<1>2. CASE \E n \in 0 .. MaxChunk : OnData(n) BY <1>2, OnDataImplements
<1>3. CASE OnDone BY <1>3, OnDoneImplements
<1>4. CASE \E n \in 0 .. MaxChunk : LoopCompleted(n) \/ LoopDropped(n)
  BY <1>4, LoopCompletedImplements, LoopDroppedImplements
<1>5. CASE CancelCompletes
  <2>1. otherDropped /\ UNCHANGED <<otherDropped, emitted, got>>
    BY <1>5 DEF CancelCompletes, IInv, EndsFollowSource
  <2> QED BY <2>1 DEF Stream!vars
<1>6. CASE Host BY <1>6, HostResultImplements DEF Host
<1> QED BY <1>1, <1>2, <1>3, <1>4, <1>5, <1>6 DEF Next, Loop

\* What the peer sees is a pipe, when elements are of one byte: all of them in
\* order, each once, and the end of the source after the last.
THEOREM PeerSeesPipe ==
  ASSUME ElementSize = 1
  PROVE  Spec => ImplementsPipe
<1>1. IInv /\ [Next]_vars => [Stream!Next]_Stream!vars
  BY NextImplements
<1> QED BY <1>1, InitImplements, Invariance, PTL DEF Spec, ImplementsPipe, Stream!Spec
=============================================================================
