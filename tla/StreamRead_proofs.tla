------------------------ MODULE StreamRead_proofs ------------------------
(***************************************************************************)
(* Proofs about StreamRead for buffers, elements and streams of any size:  *)
(* the elements that the peer wrote go to the listener once and in order,  *)
(* reads follow what the listener does, and it sees a pipe.                *)
(***************************************************************************)
EXTENDS StreamRead, TLAPS, SequenceTheorems

\* The n elements after the k-th.
Following(k, n) == [j \in 1 .. n |-> k + j]

Buffers == [held : BOOLEAN, ack : 0 .. Capacity - 1]
Memories == [0 .. Capacity - 1 -> Elements]
Subscriptions == [state : {"listening", "cancelled", "done"},
                  paused : BOOLEAN, inputPaused : BOOLEAN]
Types ==
  /\ pc \in {"new", "rest", "loop", "trapped"}
  /\ async \in BOOLEAN /\ waiting \in BOOLEAN
  /\ dropped \in BOOLEAN /\ doneNext \in BOOLEAN
  /\ code \in {None, Blocked} \cup HostResults
  /\ event \in {None, Blocked} \cup HostResults
  /\ buffer \in Buffers /\ mem \in Memories
  /\ sub \in Subscriptions
  /\ pending \in Seq(Chunks)
  /\ sent \in Elements /\ got \in Seq(Elements)
  /\ drops \in 0 .. 2

\* The read that the loop, or the host, works on: it has a buffer, its result
\* fits, and nothing is read once the readable end is dropped.
OneRead ==
  /\ buffer.held \/ buffer = NoBuffer
  /\ pc = "new" => event = None /\ ~waiting /\ ~dropped
  /\ pc = "loop" =>
       /\ buffer.held /\ ~waiting /\ ~dropped
       /\ \/ code = Blocked /\ event = Blocked
          \/ code \in HostResults /\ event = None
       /\ code.kind = "completed" => code.n > 0
  /\ pc = "rest" => (waiting <=> event # None)
  /\ event # None => buffer.held /\ (event.kind = "completed" => event.n > 0)
  /\ dropped => event = None /\ ~waiting /\ buffer = NoBuffer
  /\ ~dropped => drops = 0 /\ pc # "trapped"
  /\ buffer.ack + InFlight <= Capacity

\* Behind the acknowledged elements, which stay where they are, the memory of the
\* buffer holds those in flight, and no others: nothing is freed with it.
MemoryInFlight ==
  /\ \A i \in 0 .. Capacity - 1 :
       buffer.ack <= i =>
         mem[i] = IF i < buffer.ack + InFlight
                  THEN sent - InFlight + 1 + (i - buffer.ack) ELSE Garbage
  /\ freed \subseteq {Garbage}

\* What the listener is owed: a read while it wants one, the done event after
\* the readable end was dropped, and nothing any more once it has left.
ListenerServed ==
  /\ IdleOnlyWhenPaused
  /\ doneNext => dropped
  /\ pc = "new" => HasListener
  /\ ~HasListener => pending = <<>> /\ ~doneNext
  /\ pc = "rest" /\ ~HasListener /\ ~waiting => dropped

\* The chunks of p follow the first g elements: e[i] is the last of the i-th.
Marks(p, g, e) ==
  /\ e \in [0 .. Len(p) -> Elements]
  /\ e[0] = g
  /\ \A i, j \in 0 .. Len(p) : i <= j => e[i] + (j - i) <= e[j]
  /\ \A i \in 1 .. Len(p) : p[i] = Following(e[i - 1], e[i] - e[i - 1])

\* The listener has some of the elements, and the queue those after them; while
\* someone listens, all that left the buffer.
QueueInOrder ==
  \E e \in [0 .. Len(pending) -> Elements] :
    /\ Marks(pending, Len(got), e)
    /\ HasListener => e[Len(pending)] + InFlight = sent

\* The inductive invariant.
IInv == Types /\ OneRead /\ MemoryInFlight /\ ListenerServed /\ QueueInOrder
-----------------------------------------------------------------------------
(* Buffers, results and queues.                                            *)

\* Whole elements fit into what is at least as large as one.
LEMMA DivPositive ==
  ASSUME NEW a \in Nat, NEW b \in Nat \ {0}, a >= b
  PROVE  (a \div b) \in Nat /\ (a \div b) > 0
<1>1. (a \div b) \in Int
  OBVIOUS
<1>2. (a \div b) > 0
  OBVIOUS
<1> QED BY <1>1, <1>2

\* A buffer has room for an element.
LEMMA CapacityPositive == Capacity \in Nat /\ Capacity > 0
<1>1. CASE BufferSize < ElementSize
  BY <1>1 DEF Capacity
<1>2. CASE ~(BufferSize < ElementSize)
  BY <1>2, SizesAssumption, DivPositive DEF Capacity
<1> QED BY <1>1, <1>2

\* Results, and what stands for none.
LEMMA Results ==
  /\ None # Blocked /\ None \notin HostResults /\ Blocked \notin HostResults
  /\ None.n = 0 /\ Blocked.n = 0
  /\ None.kind = "none" /\ Blocked.kind = "blocked"
  /\ \A r \in HostResults : r.n \in Nat /\ r.n <= Capacity /\ r.kind \in {"completed", "dropped"}
  /\ \A k \in {"completed", "dropped"}, n \in 0 .. Capacity :
       Result(k, n) \in HostResults /\ Result(k, n).n = n /\ Result(k, n).kind = k
  BY CapacityPositive DEF None, Blocked, HostResults, Result

\* The numbers of a state.
LEMMA Counts ==
  ASSUME Types
  PROVE  /\ sent \in Nat /\ buffer.ack \in Nat /\ buffer.ack < Capacity
         /\ Len(got) \in Nat /\ Len(pending) \in Nat /\ InFlight \in Nat
         /\ code.n \in Nat /\ event.n \in Nat
<1>1. sent \in Nat /\ Len(got) \in Nat /\ Len(pending) \in Nat
  BY LenProperties, SizesAssumption DEF Types, Elements
<1>2. buffer.ack \in Nat /\ buffer.ack < Capacity
  BY CapacityPositive DEF Types, Buffers
<1>3. code.n \in Nat /\ event.n \in Nat
  BY Results DEF Types
<1> QED BY <1>1, <1>2, <1>3 DEF InFlight

\* An empty queue.
LEMMA MarksNone ==
  ASSUME NEW g \in Elements
  PROVE  \E e \in [0 .. Len(<<>>) -> Elements] : Marks(<<>>, g, e) /\ e[Len(<<>>)] = g
<1>1. Len(<<>>) = 0
  BY EmptySeq
<1>2. PICK e \in [0 .. 0 -> Elements] : e = [i \in 0 .. 0 |-> g]
  OBVIOUS
<1>3. Elements \subseteq Int
  BY SizesAssumption DEF Elements
<1>4. Marks(<<>>, g, e) /\ e[0] = g
  BY <1>1, <1>2, <1>3 DEF Marks
<1> QED BY <1>1, <1>4

\* A chunk is queued behind the others.
LEMMA MarksAppend ==
  ASSUME NEW p \in Seq(Chunks), NEW g \in Elements, NEW e \in [0 .. Len(p) -> Elements],
         Marks(p, g, e), NEW n \in Nat, n > 0, NEW c \in Chunks,
         c = Following(e[Len(p)], n), e[Len(p)] + n \in Elements
  PROVE  \E x \in [0 .. Len(Append(p, c)) -> Elements] :
           Marks(Append(p, c), g, x) /\ x[Len(Append(p, c))] = e[Len(p)] + n
<1>0. PICK l \in Elements : l = e[Len(p)] + n
  OBVIOUS
<1> DEFINE q == Append(p, c)
           x == [i \in 0 .. Len(p) + 1 |-> IF i <= Len(p) THEN e[i] ELSE l]
<1>1. Len(p) \in Nat /\ Elements \subseteq Int
  BY LenProperties, SizesAssumption DEF Elements
<1>2. /\ Len(q) = Len(p) + 1 /\ \A i \in 1 .. Len(p) : q[i] = p[i]
      /\ q[Len(p) + 1] = c
  BY AppendProperties
<1>3. x \in [0 .. Len(p) + 1 -> Elements] /\ x[0] = e[0] /\ x[Len(p) + 1] = l
      /\ \A i \in 0 .. Len(p) : x[i] = e[i]
  BY <1>1
<1> HIDE DEF q, x
<1>4. \A i, j \in 0 .. Len(p) + 1 : i <= j => x[i] + (j - i) <= x[j]
  <2> TAKE i, j \in 0 .. Len(p) + 1
  <2> HAVE i <= j
  <2>1. \A a \in 0 .. Len(p) : e[a] \in Int
    BY <1>1
  <2>2. CASE j <= Len(p)
    <3>1. i \in 0 .. Len(p) /\ j \in 0 .. Len(p)
      BY <1>1, <2>2
    <3>2. e[i] + (j - i) <= e[j]
      BY <3>1 DEF Marks
    <3> QED BY <1>3, <3>1, <3>2
  <2>3. CASE i <= Len(p) /\ j = Len(p) + 1
    <3>1. e[i] + (Len(p) - i) <= e[Len(p)]
      BY <1>1, <2>3 DEF Marks
    <3>2. x[i] = e[i] /\ x[j] = l /\ e[i] \in Int /\ e[Len(p)] \in Int /\ l \in Int
      BY <1>1, <1>3, <2>1, <2>3
    <3> QED BY <1>0, <1>1, <2>3, <3>1, <3>2
  <2>4. CASE i = Len(p) + 1 /\ j = Len(p) + 1
    BY <1>1, <1>3, <2>4
  <2> QED BY <1>1, <2>2, <2>3, <2>4
<1>5. \A i \in 1 .. Len(p) + 1 : q[i] = Following(x[i - 1], x[i] - x[i - 1])
  <2> TAKE i \in 1 .. Len(p) + 1
  <2>1. CASE i <= Len(p)
    <3>1. q[i] = p[i] /\ x[i] = e[i] /\ x[i - 1] = e[i - 1]
      BY <1>1, <1>2, <1>3, <2>1
    <3> QED BY <1>1, <2>1, <3>1 DEF Marks
  <2>2. CASE i = Len(p) + 1
    <3>1. q[i] = c /\ x[i] = l /\ x[i - 1] = e[Len(p)]
      BY <1>1, <1>2, <1>3, <2>2
    <3>2. l - e[Len(p)] = n
      BY <1>0, <1>1
    <3> QED BY <3>1, <3>2
  <2> QED BY <1>1, <2>1, <2>2
<1>6. Marks(q, g, x)
  BY <1>2, <1>3, <1>4, <1>5 DEF Marks
<1> QED BY <1>0, <1>2, <1>3, <1>6 DEF q

\* The first chunk leaves the queue.
LEMMA MarksTail ==
  ASSUME NEW p \in Seq(Chunks), NEW g \in Elements, NEW e \in [0 .. Len(p) -> Elements],
         Marks(p, g, e), p # <<>>
  PROVE  /\ e[1] \in Elements /\ e[1] > g /\ Head(p) = Following(g, e[1] - g)
         /\ \E x \in [0 .. Len(Tail(p)) -> Elements] :
              Marks(Tail(p), e[1], x) /\ x[Len(Tail(p))] = e[Len(p)]
<1> DEFINE q == Tail(p)
           x == [i \in 0 .. Len(p) - 1 |-> e[i + 1]]
<1>1. Len(p) \in Nat /\ Len(p) > 0 /\ Elements \subseteq Int
  BY LenProperties, EmptySeq, SizesAssumption DEF Elements
<1>2. Len(q) = Len(p) - 1 /\ \A i \in 1 .. Len(p) - 1 : q[i] = p[i + 1]
  BY HeadTailProperties
<1>3. Head(p) = p[1]
  OBVIOUS
<1>4. x \in [0 .. Len(p) - 1 -> Elements] /\ \A i \in 0 .. Len(p) - 1 : x[i] = e[i + 1]
  BY <1>1
<1> HIDE DEF q, x
<1>5. e[1] \in Elements /\ e[0] \in Elements /\ e[0] + 1 <= e[1] /\ e[0] = g
  <2>1. 0 \in 0 .. Len(p) /\ 1 \in 0 .. Len(p) /\ 0 <= 1
    BY <1>1
  <2>2. e[0] + (1 - 0) <= e[1] /\ e[0] = g
    BY <2>1 DEF Marks
  <2> QED BY <2>1, <2>2
<1>6. p[1] = Following(e[0], e[1] - e[0])
  BY <1>1 DEF Marks
<1>7. \A i, j \in 0 .. Len(p) - 1 : i <= j => x[i] + (j - i) <= x[j]
  <2> TAKE i, j \in 0 .. Len(p) - 1
  <2> HAVE i <= j
  <2>1. e[i + 1] + ((j + 1) - (i + 1)) <= e[j + 1]
    BY <1>1 DEF Marks
  <2> QED BY <1>1, <1>4, <2>1
<1>8. \A i \in 1 .. Len(p) - 1 : q[i] = Following(x[i - 1], x[i] - x[i - 1])
  <2> TAKE i \in 1 .. Len(p) - 1
  <2>1. q[i] = p[i + 1] /\ x[i] = e[i + 1] /\ x[i - 1] = e[i]
    BY <1>1, <1>2, <1>4
  <2>2. p[i + 1] = Following(e[(i + 1) - 1], e[i + 1] - e[(i + 1) - 1])
    BY <1>1 DEF Marks
  <2> QED BY <2>1, <2>2
<1>9. Marks(q, e[1], x)
  BY <1>1, <1>2, <1>4, <1>7, <1>8 DEF Marks
<1>10. x[Len(q)] = e[Len(p)]
  BY <1>1, <1>2, <1>4
<1>11. e[1] > g /\ Head(p) = Following(g, e[1] - g)
  <2>1. g \in Int /\ e[1] \in Int /\ g + 1 <= e[1]
    BY <1>1, <1>5
  <2> QED BY <2>1, <1>3, <1>5, <1>6
<1>12. x \in [0 .. Len(q) -> Elements]
  BY <1>2, <1>4
<1>13. \E y \in [0 .. Len(q) -> Elements] : Marks(q, e[1], y) /\ y[Len(q)] = e[Len(p)]
  BY <1>9, <1>10, <1>12
<1> QED BY <1>5, <1>11, <1>13 DEF q
-----------------------------------------------------------------------------
(* Reads, and the end of them.                                             *)

\* Nothing is in the memory behind the first a elements.
EmptyFrom(m, a) == \A i \in 0 .. Capacity - 1 : a <= i => m[i] = Garbage

\* A transfer into the rest of a memory, behind what was acknowledged of the buffer.
LEMMA FilledStep ==
  ASSUME Types, NEW m \in Memories, NEW a \in 0 .. Capacity - 1, EmptyFrom(m, a),
         NEW k \in {"completed", "dropped"}, NEW n \in 0 .. Capacity, Transfers(k, n, a)
  PROVE  /\ n \in Nat /\ a + n <= Capacity /\ (k = "completed" => n > 0)
         /\ sent + n \in Elements /\ Filled(m, a, n) \in Memories
         /\ \A i \in 0 .. Capacity - 1 :
              a <= i => Filled(m, a, n)[i] = IF i < a + n
                                             THEN (sent + n) - n + 1 + (i - a) ELSE Garbage
<1>1. a \in Nat /\ a < Capacity /\ sent \in Nat /\ Capacity \in Nat
  BY CapacityPositive, Counts
<1>2. n \in Nat /\ a + n <= Capacity /\ sent + n <= MaxElements /\ (k = "completed" => n > 0)
  BY <1>1 DEF Transfers
<1>3. \A i \in 0 .. Capacity - 1 :
        Filled(m, a, n)[i] = IF a <= i /\ i < a + n THEN sent + 1 + i - a ELSE m[i]
  <2>1. DOMAIN m = 0 .. Capacity - 1
    BY DEF Memories
  <2>2. \A i \in 0 .. Capacity - 1 :
          Filled(m, a, n)[i] = IF i \in a .. a + n - 1 THEN sent + 1 + i - a ELSE m[i]
    BY <2>1 DEF Filled
  <2>3. \A i \in 0 .. Capacity - 1 : i \in a .. a + n - 1 <=> a <= i /\ i < a + n
    BY <1>1, <1>2
  <2> QED BY <2>2, <2>3
<1>4. \A i \in 0 .. Capacity - 1 : Filled(m, a, n)[i] \in Elements
  BY <1>1, <1>2, <1>3, SizesAssumption DEF Elements, Memories
<1>5. Filled(m, a, n) = [i \in 0 .. Capacity - 1 |-> Filled(m, a, n)[i]]
  BY DEF Filled, Memories
<1>6. Filled(m, a, n) \in Memories
  BY <1>4, <1>5 DEF Memories
<1>7. \A i \in 0 .. Capacity - 1 :
        a <= i => Filled(m, a, n)[i] = IF i < a + n
                                       THEN (sent + n) - n + 1 + (i - a) ELSE Garbage
  <2>1. \A i \in 0 .. Capacity - 1 : sent + 1 + i - a = (sent + n) - n + 1 + (i - a)
    BY <1>1, <1>2
  <2> QED BY <1>3, <2>1 DEF EmptyFrom
<1>8. sent + n \in Elements
  BY <1>1, <1>2, SizesAssumption DEF Elements
<1> QED BY <1>2, <1>6, <1>7, <1>8

\* A read into an empty buffer, or behind what was acknowledged of one: what
\* it transfers at once is in flight.
LEMMA StartReadStep ==
  ASSUME Types, NEW b \in Buffers, NEW m \in Memories, b.held \/ b = NoBuffer,
         EmptyFrom(m, b.ack), StartRead(b, m), pc' = "loop", waiting' = FALSE, dropped' = FALSE, drops' = 0,
         freed' \subseteq {Garbage}
  PROVE  /\ buffer' \in Buffers /\ mem' \in Memories /\ sent' \in Elements
         /\ code' \in {None, Blocked} \cup HostResults
         /\ event' \in {None, Blocked} \cup HostResults
         /\ OneRead' /\ MemoryInFlight'
         /\ \E n \in Nat : InFlight' = n /\ sent' = sent + n
<1>1. PICK a \in 0 .. Capacity - 1 :
        /\ a = IF b.held THEN b.ack ELSE 0
        /\ a = b.ack
        /\ buffer' = [held |-> TRUE, ack |-> a]
  <2>1. b.ack \in 0 .. Capacity - 1 /\ NoBuffer.ack = 0
    BY DEF Buffers, NoBuffer
  <2> QED BY <2>1 DEF StartRead
<1>2. a \in Nat /\ a < Capacity /\ sent \in Nat
  BY CapacityPositive, Counts
<1>3. buffer' \in Buffers /\ buffer'.held /\ buffer'.ack = a
  BY <1>1 DEF Buffers
<1>4. CASE code' = Blocked /\ event' = Blocked /\ mem' = m /\ sent' = sent
  <2>1. code'.n = 0 /\ event'.n = 0 /\ code'.kind # "completed" /\ event' # None
        /\ event'.kind # "completed"
    BY <1>4, Results
  <2>2. InFlight' = 0
    BY <2>1 DEF InFlight
  <2>3. OneRead'
    <3>1. buffer'.ack + InFlight' <= Capacity
      BY <1>2, <1>3, <2>2, CapacityPositive
    <3> QED BY <1>3, <1>4, <2>1, <3>1 DEF OneRead
  <2>4. MemoryInFlight'
    <3>1. \A i \in 0 .. Capacity - 1 : ~(a <= i /\ i < a + 0)
      BY <1>2, CapacityPositive
    <3> QED BY <1>1, <1>3, <1>4, <2>2, <3>1 DEF MemoryInFlight, EmptyFrom
  <2>5. InFlight' = 0 /\ sent' = sent + 0
    BY <1>2, <1>4, <2>2
  <2> QED BY <1>3, <1>4, <2>3, <2>4, <2>5 DEF Types
<1>5. ASSUME NEW k \in {"completed", "dropped"}, NEW n \in 0 .. Capacity,
             Transfers(k, n, a), code' = Result(k, n), mem' = Filled(m, a, n),
             sent' = sent + n, event' = None
      PROVE  /\ mem' \in Memories /\ sent' \in Elements
             /\ code' \in {None, Blocked} \cup HostResults
             /\ event' \in {None, Blocked} \cup HostResults
             /\ OneRead' /\ MemoryInFlight'
             /\ \E l \in Nat : InFlight' = l /\ sent' = sent + l
  <2>1. /\ n \in Nat /\ a + n <= Capacity /\ (k = "completed" => n > 0)
        /\ sent' \in Elements /\ mem' \in Memories
        /\ \A i \in 0 .. Capacity - 1 :
             a <= i => mem'[i] = IF i < a + n THEN sent' - n + 1 + (i - a) ELSE Garbage
    BY <1>1, <1>5, FilledStep
  <2>2. code' \in HostResults /\ code'.n = n /\ code'.kind = k /\ event'.n = 0
    BY <1>5, Results
  <2>3. InFlight' = n
    BY <2>1, <2>2 DEF InFlight
  <2>4. OneRead'
    BY <1>2, <1>3, <1>5, <2>1, <2>2, <2>3 DEF OneRead
  <2>5. MemoryInFlight'
    BY <1>3, <2>1, <2>3 DEF MemoryInFlight
  <2> QED BY <1>5, <2>1, <2>2, <2>3, <2>4, <2>5
<1> QED BY <1>1, <1>3, <1>4, <1>5 DEF StartRead

\* The readable end is dropped for the first time, with nothing in the buffer.
LEMMA CloseStep ==
  ASSUME Types, OneRead, MemoryInFlight, NEW b \in Buffers, NEW m \in Memories,
         EmptyFrom(m, b.ack), event = None, ~waiting, ~dropped, NEW n \in 1 .. 2, Close(b, m, n)
  PROVE  /\ buffer' \in Buffers /\ mem' \in Memories /\ dropped' = TRUE /\ drops' \in 0 .. 2
         /\ OneRead' /\ MemoryInFlight' /\ InFlight' = 0
         /\ pc' = (IF n = 1 THEN "rest" ELSE "trapped")
<1>1. drops = 0
  BY DEF OneRead
<1>2. /\ buffer' = NoBuffer /\ mem' = EmptyMem /\ dropped' = TRUE /\ drops' = n
      /\ pc' = (IF n = 1 THEN "rest" ELSE "trapped")
      /\ UNCHANGED <<async, waiting, code, sent, event>>
  BY <1>1 DEF Close
<1>3. buffer' \in Buffers /\ buffer'.ack = 0 /\ ~buffer'.held
  BY <1>2, CapacityPositive DEF NoBuffer, Buffers
<1>4. mem' \in Memories /\ EmptyFrom(mem', 0)
  BY <1>2, SizesAssumption DEF EmptyMem, Memories, EmptyFrom, Garbage, Elements
<1>5. InFlight' = 0
  BY <1>2, Results DEF InFlight
<1>6. freed' \subseteq {Garbage}
  <2>1. \A i \in b.ack .. Capacity - 1 : m[i] = Garbage
    BY CapacityPositive DEF EmptyFrom, Buffers
  <2>2. freed' = freed \cup (IF b.held THEN {m[i] : i \in b.ack .. Capacity - 1} ELSE {})
    BY DEF Close
  <2> QED BY <2>1, <2>2 DEF MemoryInFlight
<1>7. OneRead'
  BY <1>2, <1>3, <1>5, CapacityPositive DEF OneRead
<1>8. MemoryInFlight'
  BY <1>3, <1>4, <1>5, <1>6, CapacityPositive DEF MemoryInFlight, EmptyFrom
<1> QED BY <1>2, <1>3, <1>4, <1>5, <1>7, <1>8

\* Between runs of the loop without a read, the buffer has only what it has handed on.
LEMMA IdleMemory ==
  ASSUME Types, OneRead, MemoryInFlight, pc # "loop", event = None
  PROVE  InFlight = 0 /\ EmptyFrom(mem, buffer.ack)
<1>1. InFlight = 0
  BY Results DEF InFlight
<1> QED BY <1>1, Counts DEF MemoryInFlight, EmptyFrom

\* The loop takes the elements of a result out of the buffer: they are those
\* that the peer wrote last, and nothing is behind them.
LEMMA LoopTakes ==
  ASSUME Types, OneRead, MemoryInFlight, pc = "loop", NEW n \in 0 .. Capacity,
         NEW k \in {"completed", "dropped"}, code = Result(k, n)
  PROVE  /\ event = None /\ ~waiting /\ ~dropped /\ drops = 0 /\ InFlight = n
         /\ (k = "completed" => n > 0)
         /\ After(n) \in Buffers /\ (After(n).held \/ After(n) = NoBuffer)
         /\ MemAfter(n) \in Memories /\ EmptyFrom(MemAfter(n), After(n).ack)
         /\ Chunk(n) = Following(sent - n, n)
         /\ Chunk(n) \in Seq(Elements) /\ Len(Chunk(n)) = n
         /\ (n > 0 => Chunk(n) \in Chunks)
<1>1. code # Blocked /\ code.n = n /\ code.kind = k
  BY Results
<1>2. buffer.held /\ event = None /\ ~waiting /\ ~dropped /\ drops = 0
      /\ (k = "completed" => n > 0)
  BY <1>1 DEF OneRead
<1>3. InFlight = n
  BY <1>1, <1>2, Results, CapacityPositive DEF InFlight
<1>4. PICK a \in 0 .. Capacity - 1 : a = buffer.ack /\ buffer = [held |-> TRUE, ack |-> a]
  BY <1>2 DEF Types, Buffers
<1>5. a \in Nat /\ n \in Nat /\ a + n <= Capacity /\ sent \in Nat
  BY <1>3, <1>4, CapacityPositive, Counts DEF OneRead
<1>6. \A i \in 0 .. Capacity - 1 :
        a <= i => mem[i] = IF i < a + n THEN sent - n + 1 + (i - a) ELSE Garbage
  BY <1>3, <1>4 DEF MemoryInFlight
<1>7. After(n) \in Buffers /\ (After(n).held \/ After(n) = NoBuffer)
  <2>1. CASE a + n = Capacity
    BY <1>4, <2>1, CapacityPositive DEF After, NoBuffer, Buffers
  <2>2. CASE a + n # Capacity
    <3>1. a + n \in 0 .. Capacity - 1
      BY <1>5, <2>2, CapacityPositive
    <3>2. PICK h \in BOOLEAN : h = buffer.held /\ buffer = [held |-> h, ack |-> a]
      BY <1>4 DEF Types, Buffers
    <3>3. After(n) = [buffer EXCEPT !.ack = @ + n]
      BY <1>4, <2>2 DEF After
    <3>4. After(n) = [held |-> h, ack |-> a + n]
      BY <3>2, <3>3
    <3>5. After(n).held = h
      BY <3>4
    <3> QED BY <1>2, <3>1, <3>2, <3>4, <3>5 DEF Buffers
  <2> QED BY <2>1, <2>2
<1>8. MemAfter(n) \in Memories /\ EmptyFrom(MemAfter(n), After(n).ack)
  <2>1. CASE a + n = Capacity
    <3>1. MemAfter(n) = EmptyMem
      BY <1>4, <2>1 DEF MemAfter
    <3> QED BY <3>1, SizesAssumption DEF EmptyMem, Memories, EmptyFrom, Garbage, Elements
  <2>2. CASE a + n # Capacity
    <3>1. MemAfter(n) = mem /\ After(n).ack = a + n
      BY <1>4, <2>2 DEF MemAfter, After
    <3>2. \A i \in 0 .. Capacity - 1 : a + n <= i => a <= i /\ ~(i < a + n)
      BY <1>5, CapacityPositive
    <3> QED BY <1>6, <3>1, <3>2 DEF EmptyFrom, Types
  <2> QED BY <2>1, <2>2
<1>9. \A i \in 1 .. n : Chunk(n)[i] = sent - n + i /\ Chunk(n)[i] \in Elements
  <2> TAKE i \in 1 .. n
  <2>1. PICK o \in 0 .. Capacity - 1 : o = a + i - 1 /\ a <= o /\ o < a + n
    BY <1>5, CapacityPositive
  <2>2. Chunk(n)[i] = mem[o]
    BY <1>4, <2>1 DEF Chunk
  <2>3. mem[o] = sent - n + 1 + (o - a) /\ mem[o] \in Elements
    BY <1>6, <2>1 DEF Types, Memories
  <2> QED BY <1>5, <2>1, <2>2, <2>3
<1>10. Chunk(n) = [i \in 1 .. n |-> Chunk(n)[i]]
  BY DEF Chunk
<1>11. Chunk(n) = Following(sent - n, n)
  BY <1>9, <1>10 DEF Following
<1>12. Chunk(n) \in [1 .. n -> Elements]
  BY <1>9, <1>10
<1>13. Chunk(n) \in Seq(Elements) /\ Len(Chunk(n)) = n
  BY <1>5, <1>12, SeqDef, LenProperties
<1>14. n > 0 => Chunk(n) \in Chunks
  <2>1. n > 0 => n \in 1 .. Capacity
    BY CapacityPositive
  <2> QED BY <1>12, <2>1 DEF Chunks
<1> QED BY <1>2, <1>3, <1>7, <1>8, <1>11, <1>13, <1>14

\* onResume reads again, where no read is outstanding.
LEMMA ResumeStep ==
  ASSUME Types, OneRead, MemoryInFlight, pc = "rest", OnResume
  PROVE  /\ buffer' \in Buffers /\ mem' \in Memories /\ sent' \in Elements
         /\ code' \in {None, Blocked} \cup HostResults
         /\ event' \in {None, Blocked} \cup HostResults
         /\ async' \in BOOLEAN /\ pc' \in {"rest", "loop"}
         /\ UNCHANGED <<waiting, dropped, drops>>
         /\ OneRead' /\ MemoryInFlight'
         /\ \E n \in Nat : InFlight' = InFlight + n /\ sent' = sent + n
         /\ (pc' = "rest" => dropped \/ waiting)
<1>1. CASE Resume
  <2>1. ~dropped /\ ~waiting /\ event = None /\ drops = 0 /\ freed \subseteq {Garbage}
        /\ (buffer.held \/ buffer = NoBuffer) /\ buffer \in Buffers /\ mem \in Memories
    BY <1>1 DEF Resume, OneRead, MemoryInFlight, Types
  <2>2. InFlight = 0 /\ EmptyFrom(mem, buffer.ack)
    BY <2>1, IdleMemory
  <2>3. /\ StartRead(buffer, mem) /\ pc' = "loop" /\ async' = FALSE
        /\ UNCHANGED <<waiting, dropped, drops, freed>>
    BY <1>1 DEF OnResume
  <2>4. waiting' = FALSE /\ dropped' = FALSE /\ drops' = 0 /\ freed' \subseteq {Garbage}
    BY <2>1, <2>3 DEF Types
  <2>5. /\ buffer' \in Buffers /\ mem' \in Memories /\ sent' \in Elements
        /\ code' \in {None, Blocked} \cup HostResults
        /\ event' \in {None, Blocked} \cup HostResults
        /\ OneRead' /\ MemoryInFlight'
        /\ \E n \in Nat : InFlight' = n /\ sent' = sent + n
    BY <2>1, <2>2, <2>3, <2>4, StartReadStep
  <2>6. PICK n \in Nat : InFlight' = n /\ sent' = sent + n
    BY <2>5
  <2>7. InFlight' = InFlight + n
    BY <2>2, <2>6
  <2>8. async' \in BOOLEAN /\ pc' # "rest" /\ pc' \in {"rest", "loop"}
        /\ UNCHANGED <<waiting, dropped, drops>>
    BY <2>3
  <2> QED BY <2>5, <2>6, <2>7, <2>8
<1>2. CASE ~Resume
  <2>1. UNCHANGED <<pc, async, code, buffer, mem, waiting, dropped, drops, freed, sent, event>>
    BY <1>2 DEF OnResume, state
  <2>2. UNCHANGED InFlight /\ sent' = sent + 0 /\ InFlight' = InFlight + 0
    BY <2>1, Counts DEF InFlight
  <2>3. OneRead' /\ MemoryInFlight'
    BY <2>1, <2>2 DEF OneRead, MemoryInFlight
  <2> QED BY <1>2, <2>1, <2>2, <2>3 DEF Types, Resume
<1> QED BY <1>1, <1>2

\* onCancel drops the readable end, unless a read is outstanding.
LEMMA CancelStep ==
  ASSUME Types, OneRead, MemoryInFlight, pc = "rest", OnCancel
  PROVE  /\ buffer' \in Buffers /\ mem' \in Memories /\ drops' \in 0 .. 2
         /\ dropped' \in BOOLEAN /\ pc' = "rest"
         /\ UNCHANGED <<async, waiting, code, sent, event>>
         /\ OneRead' /\ MemoryInFlight'
         /\ InFlight' = InFlight
         /\ (dropped' \/ waiting') /\ (dropped => dropped')
<1>1. CASE ~waiting /\ ~dropped
  <2>1. event = None /\ buffer \in Buffers /\ mem \in Memories /\ 1 \in 1 .. 2
    BY <1>1 DEF OneRead, Types
  <2>2. InFlight = 0 /\ EmptyFrom(mem, buffer.ack)
    BY <2>1, IdleMemory
  <2>3. Close(buffer, mem, 1)
    BY <1>1 DEF OnCancel
  <2>4. /\ buffer' \in Buffers /\ mem' \in Memories /\ dropped' = TRUE /\ drops' \in 0 .. 2
        /\ OneRead' /\ MemoryInFlight' /\ InFlight' = 0 /\ pc' = "rest"
    BY <1>1, <2>1, <2>2, <2>3, CloseStep
  <2>5. UNCHANGED <<async, waiting, code, sent, event>>
    BY <2>3 DEF Close
  <2> QED BY <2>2, <2>4, <2>5
<1>2. CASE ~(~waiting /\ ~dropped)
  <2>1. UNCHANGED <<pc, async, code, buffer, mem, waiting, dropped, drops, freed, sent, event>>
    BY <1>2 DEF OnCancel, state
  <2>2. UNCHANGED InFlight
    BY <2>1 DEF InFlight
  <2>3. OneRead' /\ MemoryInFlight'
    BY <2>1, <2>2 DEF OneRead, MemoryInFlight
  <2> QED BY <1>2, <2>1, <2>2, <2>3 DEF Types
<1> QED BY <1>1, <1>2

\* The loop stops with a paused listener, or reads again.
LEMMA ContinueStep ==
  ASSUME Types, OneRead, MemoryInFlight, pc = "loop", NEW n \in 0 .. Capacity,
         NEW k \in {"completed", "dropped"}, code = Result(k, n),
         Continue(After(n), MemAfter(n))
  PROVE  /\ buffer' \in Buffers /\ mem' \in Memories /\ sent' \in Elements
         /\ code' \in {None, Blocked} \cup HostResults
         /\ event' \in {None, Blocked} \cup HostResults
         /\ pc' \in {"rest", "loop"}
         /\ UNCHANGED <<async, waiting, dropped, drops>>
         /\ OneRead' /\ MemoryInFlight'
         /\ \E l \in Nat : InFlight' = l /\ sent' = sent + l
         /\ (pc' = "rest" => sub'.inputPaused)
<1>1. PICK b \in Buffers, m \in Memories :
        /\ b = After(n) /\ m = MemAfter(n) /\ (b.held \/ b = NoBuffer) /\ EmptyFrom(m, b.ack)
        /\ event = None /\ ~waiting /\ ~dropped /\ drops = 0
  BY LoopTakes
<1>2. CASE sub'.inputPaused
  <2>1. /\ buffer' = b /\ mem' = m /\ pc' = "rest"
        /\ UNCHANGED <<async, code, waiting, dropped, drops, freed, sent, event>>
    BY <1>1, <1>2 DEF Continue
  <2>2. InFlight' = 0 /\ sent' = sent + 0 /\ InFlight' \in Nat
    BY <1>1, <2>1, Results, Counts DEF InFlight
  <2>3. b.ack \in Nat /\ b.ack < Capacity /\ b.ack + 0 <= Capacity
    BY CapacityPositive DEF Buffers
  <2>4. OneRead'
    BY <1>1, <2>1, <2>2, <2>3 DEF OneRead
  <2>5. MemoryInFlight'
    <3>1. \A i \in 0 .. Capacity - 1 : ~(b.ack <= i /\ i < b.ack + 0)
      BY <2>3, CapacityPositive
    <3> QED BY <1>1, <2>1, <2>2, <3>1 DEF MemoryInFlight, EmptyFrom
  <2> QED BY <1>1, <1>2, <2>1, <2>2, <2>4, <2>5 DEF Types
<1>3. CASE ~sub'.inputPaused
  <2>1. StartRead(b, m) /\ UNCHANGED <<pc, async, waiting, dropped, drops, freed>>
    BY <1>1, <1>3 DEF Continue
  <2>2. /\ pc' = "loop" /\ waiting' = FALSE /\ dropped' = FALSE /\ drops' = 0
        /\ freed' \subseteq {Garbage}
    BY <1>1, <2>1 DEF Types, MemoryInFlight
  <2>3. /\ buffer' \in Buffers /\ mem' \in Memories /\ sent' \in Elements
        /\ code' \in {None, Blocked} \cup HostResults
        /\ event' \in {None, Blocked} \cup HostResults
        /\ OneRead' /\ MemoryInFlight'
        /\ \E l \in Nat : InFlight' = l /\ sent' = sent + l
    BY <1>1, <2>1, <2>2, StartReadStep
  <2> QED BY <2>1, <2>2, <2>3
<1> QED BY <1>2, <1>3

\* The loop drops the readable end.
LEMMA LoopCloseStep ==
  ASSUME Types, OneRead, MemoryInFlight, pc = "loop", NEW n \in 0 .. Capacity,
         NEW k \in {"completed", "dropped"}, code = Result(k, n),
         NEW i \in 1 .. 2, Close(After(n), MemAfter(n), i)
  PROVE  /\ buffer' \in Buffers /\ mem' \in Memories /\ dropped' = TRUE /\ drops' \in 0 .. 2
         /\ UNCHANGED <<async, waiting, code, sent, event>>
         /\ OneRead' /\ MemoryInFlight' /\ InFlight' = 0
         /\ pc' = (IF i = 1 THEN "rest" ELSE "trapped")
<1>1. PICK b \in Buffers, m \in Memories :
        /\ b = After(n) /\ m = MemAfter(n) /\ EmptyFrom(m, b.ack)
        /\ event = None /\ ~waiting /\ ~dropped
  BY LoopTakes
<1>2. Close(b, m, i)
  BY <1>1
<1>3. /\ buffer' \in Buffers /\ mem' \in Memories /\ dropped' = TRUE /\ drops' \in 0 .. 2
      /\ OneRead' /\ MemoryInFlight' /\ InFlight' = 0
      /\ pc' = (IF i = 1 THEN "rest" ELSE "trapped")
  BY <1>1, <1>2, CloseStep
<1>4. UNCHANGED <<async, waiting, code, sent, event>>
  BY <1>2 DEF Close
<1> QED BY <1>3, <1>4
-----------------------------------------------------------------------------
(* The queue and the listener.                                             *)

\* A chunk is a sequence of at least one element.
LEMMA ChunkSeq ==
  ASSUME NEW c \in Chunks
  PROVE  c \in Seq(Elements) /\ Len(c) \in Nat /\ Len(c) > 0
<1>1. PICK n \in 1 .. Capacity : c \in [1 .. n -> Elements]
  BY DEF Chunks
<1>2. n \in Nat /\ n > 0
  BY CapacityPositive
<1>3. c \in Seq(Elements) /\ Len(c) = n
  BY <1>1, <1>2, SeqDef, LenProperties
<1> QED BY <1>2, <1>3

\* What the listener has is part of what the peer wrote.
LEMMA GotFits ==
  ASSUME Types, QueueInOrder
  PROVE  Len(got) \in Elements
<1>1. 0 \in 0 .. Len(pending)
  BY LenProperties DEF Types
<1> QED BY <1>1 DEF QueueInOrder, Marks

\* What is queued is not touched, and what is still to come neither.
LEMMA QueueKept ==
  ASSUME QueueInOrder, Types, UNCHANGED <<pending, got>>, sent' \in Nat, InFlight' \in Nat,
         HasListener' => HasListener /\ sent' + InFlight = sent + InFlight'
  PROVE  QueueInOrder'
<1>1. PICK e \in [0 .. Len(pending) -> Elements] :
        Marks(pending, Len(got), e) /\ (HasListener => e[Len(pending)] + InFlight = sent)
  BY DEF QueueInOrder
<1>2. PICK l \in Int : l = e[Len(pending)]
  BY Counts, SizesAssumption DEF Elements
<1>3. HasListener' => l + InFlight' = sent'
  <2> SUFFICES ASSUME HasListener' PROVE l + InFlight' = sent'
    OBVIOUS
  <2>1. l + InFlight = sent /\ sent' + InFlight = sent + InFlight'
    BY <1>1, <1>2
  <2>2. PICK f \in Int, i \in Int, s \in Int, t \in Int :
          f = InFlight /\ i = InFlight' /\ s = sent /\ t = sent'
    BY Counts
  <2>3. l + f = s /\ t + f = s + i
    BY <2>1, <2>2
  <2>4. l + i = t
    BY <2>3
  <2> QED BY <2>2, <2>4
<1>4. Marks(pending, Len(got), e) /\ (HasListener' => e[Len(pending)] + InFlight' = sent')
  BY <1>1, <1>2, <1>3
<1> QED BY <1>4 DEF QueueInOrder

\* Nothing is queued any more.
LEMMA QueueReset ==
  ASSUME pending' = <<>>, Len(got') \in Elements,
         HasListener' => Len(got') + InFlight' = sent'
  PROVE  QueueInOrder'
<1>1. PICK g \in Elements : g = Len(got')
  OBVIOUS
<1>2. PICK e \in [0 .. Len(<<>>) -> Elements] : Marks(<<>>, g, e) /\ e[Len(<<>>)] = g
  BY MarksNone
<1> QED BY <1>1, <1>2 DEF QueueInOrder

\* With nothing queued the listener has all that left the buffer.
LEMMA QueueEmpty ==
  ASSUME QueueInOrder, pending = <<>>
  PROVE  Len(got) \in Elements /\ (HasListener => Len(got) + InFlight = sent)
<1>1. PICK e \in [0 .. Len(pending) -> Elements] :
        Marks(pending, Len(got), e) /\ (HasListener => e[Len(pending)] + InFlight = sent)
  BY DEF QueueInOrder
<1>2. Len(pending) = 0 /\ e[0] = Len(got) /\ e[0] \in Elements
  BY <1>1, EmptySeq DEF Marks
<1> QED BY <1>1, <1>2

\* The elements that the loop took out of the buffer are queued.
LEMMA QueueAppend ==
  ASSUME Types, QueueInOrder, HasListener, NEW n \in Nat, n > 0, InFlight = n,
         Chunk(n) \in Chunks, Chunk(n) = Following(sent - n, n),
         pending' = Append(pending, Chunk(n)), got' = got, InFlight' \in Nat,
         sent' = sent + InFlight'
  PROVE  QueueInOrder'
<1>1. PICK e \in [0 .. Len(pending) -> Elements] :
        Marks(pending, Len(got), e) /\ e[Len(pending)] + InFlight = sent
  BY DEF QueueInOrder
<1>2. PICK p \in Seq(Chunks), g \in Elements, l \in Elements, c \in Chunks :
        p = pending /\ g = Len(got) /\ l = sent /\ c = Chunk(n)
  BY GotFits DEF Types
<1>3. e[Len(p)] \in Int
  BY <1>2, LenProperties, SizesAssumption DEF Elements
<1>4. l = e[Len(p)] + n /\ l \in Int
  BY <1>1, <1>2, SizesAssumption DEF Elements
<1>5. sent - n = e[Len(p)]
  BY <1>2, <1>3, <1>4
<1>6. c = Following(e[Len(p)], n) /\ Marks(p, g, e)
  BY <1>1, <1>2, <1>5
<1>7. PICK x \in [0 .. Len(Append(p, c)) -> Elements] :
        Marks(Append(p, c), g, x) /\ x[Len(Append(p, c))] = l
  <2>1. PICK y \in [0 .. Len(p) -> Elements] : y = e
    BY <1>1, <1>2
  <2>2. c = Following(y[Len(p)], n) /\ Marks(p, g, y) /\ y[Len(p)] + n \in Elements
    BY <2>1, <1>4, <1>6
  <2>3. \E x \in [0 .. Len(Append(p, c)) -> Elements] :
          Marks(Append(p, c), g, x) /\ x[Len(Append(p, c))] = y[Len(p)] + n
    BY <2>2, MarksAppend
  <2> QED BY <2>1, <2>3, <1>4
<1>8. x[Len(Append(p, c))] + InFlight' = sent'
  BY <1>2, <1>7
<1> QED BY <1>2, <1>7, <1>8 DEF QueueInOrder

\* The first chunk of the queue follows what the listener has.
LEMMA QueueHead ==
  ASSUME Types, QueueInOrder, pending # <<>>
  PROVE  /\ Head(pending) \in Seq(Elements) /\ got \o Head(pending) \in Seq(Elements)
         /\ \E n \in Nat :
              /\ n > 0 /\ Head(pending) = Following(Len(got), n)
              /\ Len(got \o Head(pending)) = Len(got) + n /\ Len(got) + n \in Elements
              /\ \E x \in [0 .. Len(Tail(pending)) -> Elements] :
                   /\ Marks(Tail(pending), Len(got) + n, x)
                   /\ HasListener => x[Len(Tail(pending))] + InFlight = sent
<1>1. PICK e \in [0 .. Len(pending) -> Elements] :
        Marks(pending, Len(got), e) /\ (HasListener => e[Len(pending)] + InFlight = sent)
  BY DEF QueueInOrder
<1>2. PICK p \in Seq(Chunks), g \in Elements : p = pending /\ g = Len(got) /\ p # <<>>
  BY GotFits DEF Types
<1>3. /\ e[1] \in Elements /\ e[1] > g /\ Head(p) = Following(g, e[1] - g)
      /\ \E x \in [0 .. Len(Tail(p)) -> Elements] :
           Marks(Tail(p), e[1], x) /\ x[Len(Tail(p))] = e[Len(p)]
  BY <1>1, <1>2, MarksTail
<1>4. PICK n \in Nat : n = e[1] - g /\ n > 0 /\ e[1] = Len(got) + n
  <2>1. PICK h \in Int, i \in Int : h = e[1] /\ i = g /\ h > i
    BY <1>3, SizesAssumption DEF Elements
  <2>2. h - i \in Nat /\ h - i > 0 /\ h = i + (h - i)
    BY <2>1
  <2> QED BY <1>2, <2>1, <2>2
<1>5. Head(p) \in Chunks /\ Head(p) \in Seq(Elements)
  BY <1>2, HeadTailProperties, ChunkSeq
<1>6. Len(Head(p)) = n
  BY <1>3, <1>4, LenProperties, <1>5 DEF Following
<1>7. got \o Head(p) \in Seq(Elements) /\ Len(got \o Head(p)) = Len(got) + n
  BY <1>5, <1>6, ConcatProperties DEF Types
<1>8. PICK x \in [0 .. Len(Tail(p)) -> Elements] :
        Marks(Tail(p), Len(got) + n, x) /\ x[Len(Tail(p))] = e[Len(p)]
  BY <1>3, <1>4
<1>9. HasListener => x[Len(Tail(p))] + InFlight = sent
  BY <1>1, <1>2, <1>8
<1> QED BY <1>2, <1>3, <1>4, <1>5, <1>7, <1>8, <1>9

\* What a call of the subscription, or a reaction of the listener, leaves of it.
LEMMA Subscribed ==
  ASSUME sub \in Subscriptions
  PROVE  /\ \A x \in {"listening", "cancelled", "done"} :
              /\ [sub EXCEPT !.state = x] \in Subscriptions
              /\ [sub EXCEPT !.state = x].state = x
         /\ \A x, y \in BOOLEAN :
              /\ Paused(x, y) \in Subscriptions /\ Paused(x, y).state = sub.state
              /\ Paused(x, y).paused = x /\ Paused(x, y).inputPaused = y
         /\ \A y \in BOOLEAN :
              LET t == [sub EXCEPT !.inputPaused = y]
              IN  t \in Subscriptions /\ t.state = sub.state /\ t.paused = sub.paused
                  /\ t.inputPaused = y
<1>1. PICK a \in {"listening", "cancelled", "done"}, b \in BOOLEAN, c \in BOOLEAN :
        sub = [state |-> a, paused |-> b, inputPaused |-> c]
  BY DEF Subscriptions
<1>2. ASSUME NEW x \in {"listening", "cancelled", "done"}
      PROVE  [sub EXCEPT !.state = x] \in Subscriptions /\ [sub EXCEPT !.state = x].state = x
  <2>1. [sub EXCEPT !.state = x] = [state |-> x, paused |-> b, inputPaused |-> c]
    BY <1>1
  <2> QED BY <2>1 DEF Subscriptions
<1>3. ASSUME NEW x \in BOOLEAN, NEW y \in BOOLEAN
      PROVE  /\ Paused(x, y) \in Subscriptions /\ Paused(x, y).state = sub.state
             /\ Paused(x, y).paused = x /\ Paused(x, y).inputPaused = y
  <2>1. Paused(x, y) = [state |-> sub.state, paused |-> x, inputPaused |-> y]
    BY DEF Paused
  <2>2. sub.state \in {"listening", "cancelled", "done"}
    BY <1>1
  <2>3. Paused(x, y) \in Subscriptions
    BY <2>1, <2>2 DEF Subscriptions
  <2>4. Paused(x, y).state = sub.state
    BY <2>1
  <2>5. Paused(x, y).paused = x
    BY Zenon DEF Paused
  <2>6. Paused(x, y).inputPaused = y
    BY Zenon DEF Paused
  <2> QED BY <2>3, <2>4, <2>5, <2>6, Zenon
<1>4. ASSUME NEW y \in BOOLEAN
      PROVE  LET t == [sub EXCEPT !.inputPaused = y]
             IN  t \in Subscriptions /\ t.state = sub.state /\ t.paused = sub.paused
                 /\ t.inputPaused = y
  <2>1. [sub EXCEPT !.inputPaused = y] = [state |-> a, paused |-> b, inputPaused |-> y]
    BY <1>1
  <2>2. [state |-> a, paused |-> b, inputPaused |-> y] \in Subscriptions
    BY DEF Subscriptions
  <2> QED BY <1>1, <2>1, <2>2, Zenon
<1> QED BY <1>2, <1>3, <1>4
-----------------------------------------------------------------------------
(* Every step keeps the inductive invariant.                               *)

\* Nothing is read, queued or received at first.
LEMMA InitInv == Init => IInv
<1> SUFFICES ASSUME Init PROVE IInv
  OBVIOUS
<1>1. /\ buffer \in Buffers /\ buffer.ack = 0 /\ buffer = NoBuffer
      /\ mem \in Memories /\ EmptyFrom(mem, 0)
  BY CapacityPositive, SizesAssumption
     DEF Init, NoBuffer, EmptyMem, Buffers, Memories, EmptyFrom, Garbage, Elements
<1>2. pending \in Seq(Chunks) /\ got \in Seq(Elements) /\ Len(got) = 0 /\ Len(pending) = 0
  BY EmptySeq DEF Init
<1>3. Types
  <2>1. sub \in Subscriptions
    BY DEF Init, Subscriptions
  <2>2. sent \in Elements /\ drops \in 0 .. 2
    BY SizesAssumption DEF Init, Elements
  <2>3. /\ async \in BOOLEAN /\ waiting \in BOOLEAN
        /\ dropped \in BOOLEAN /\ doneNext \in BOOLEAN
    BY DEF Init
  <2> QED BY <1>1, <1>2, <2>1, <2>2, <2>3 DEF Init, Types
<1>4. InFlight = 0
  BY Results DEF Init, InFlight
<1>5. OneRead
  BY <1>1, <1>4, CapacityPositive DEF Init, OneRead
<1>6. MemoryInFlight
  BY <1>1, <1>4, CapacityPositive DEF Init, MemoryInFlight, EmptyFrom
<1>7. ListenerServed
  BY DEF Init, ListenerServed, IdleOnlyWhenPaused, HasListener
<1>8. QueueInOrder
  <2>1. PICK g \in Elements : g = 0
    BY SizesAssumption DEF Elements
  <2>2. PICK e \in [0 .. Len(<<>>) -> Elements] : Marks(<<>>, g, e) /\ e[Len(<<>>)] = g
    BY MarksNone
  <2>3. pending = <<>> /\ Len(got) = g /\ e[Len(pending)] + InFlight = sent
    BY <1>2, <1>4, <2>1, <2>2 DEF Init
  <2> QED BY <2>2, <2>3 DEF QueueInOrder
<1> QED BY <1>3, <1>5, <1>6, <1>7, <1>8 DEF IInv

\* listen starts the first read.
LEMMA ListenStep == IInv /\ Listen => IInv'
<1> SUFFICES ASSUME IInv, Listen PROVE IInv'
  OBVIOUS
<1> USE DEF IInv
<1>1. /\ event = None /\ ~waiting /\ ~dropped /\ drops = 0 /\ freed \subseteq {Garbage}
      /\ (buffer.held \/ buffer = NoBuffer) /\ buffer \in Buffers /\ mem \in Memories
      /\ pc # "loop"
  BY DEF Listen, OneRead, MemoryInFlight, Types
<1>2. InFlight = 0 /\ EmptyFrom(mem, buffer.ack)
  BY <1>1, IdleMemory
<1>3. /\ StartRead(buffer, mem) /\ pc' = "loop" /\ async' = FALSE
      /\ waiting' = FALSE /\ dropped' = FALSE /\ drops' = 0 /\ freed' \subseteq {Garbage}
      /\ UNCHANGED <<sub, pending, doneNext, got>>
  BY <1>1 DEF Listen, Types, sdk
<1>4. /\ buffer' \in Buffers /\ mem' \in Memories /\ sent' \in Elements
      /\ code' \in {None, Blocked} \cup HostResults
      /\ event' \in {None, Blocked} \cup HostResults
      /\ OneRead' /\ MemoryInFlight'
      /\ \E n \in Nat : InFlight' = n /\ sent' = sent + n
  <2>1. Types /\ pc' = "loop" /\ waiting' = FALSE /\ dropped' = FALSE /\ drops' = 0
    BY <1>3
  <2>2. StartRead(buffer, mem) /\ freed' \subseteq {Garbage}
    BY <1>3
  <2> QED BY <1>1, <1>2, <2>1, <2>2, StartReadStep
<1>5. Types'
  <2>1. /\ async' \in BOOLEAN /\ waiting' \in BOOLEAN /\ dropped' \in BOOLEAN
        /\ doneNext' \in BOOLEAN
    BY <1>3 DEF Types
  <2>2. pc' = "loop" /\ drops' = 0
    BY <1>3
  <2> QED BY <1>3, <1>4, <2>1, <2>2 DEF Types
<1>6. ListenerServed'
  BY <1>1, <1>3 DEF ListenerServed, IdleOnlyWhenPaused, HasListener
<1>7. QueueInOrder'
  <2>1. PICK n \in Nat : InFlight' = n /\ sent' = sent + n
    BY <1>4
  <2>2. sent' \in Nat /\ InFlight' \in Nat /\ sent' + InFlight = sent + InFlight'
    BY <1>2, <2>1, Counts
  <2>3. HasListener' => HasListener
    BY <1>3 DEF HasListener
  <2>4. UNCHANGED <<pending, got>>
    BY <1>3
  <2> QED BY <2>2, <2>3, <2>4, QueueKept
<1> QED BY <1>4, <1>5, <1>6, <1>7

\* The host fills the buffer behind the acknowledged elements.
LEMMA HostResultStep ==
  ASSUME IInv, NEW k \in {"completed", "dropped"}, NEW n \in 0 .. Capacity, HostResult(k, n)
  PROVE  IInv'
<1> USE DEF IInv
<1>1. /\ event = Blocked /\ pc = "rest" /\ buffer.held /\ event # None
      /\ UNCHANGED <<pc, async, code, buffer, waiting, dropped, drops, freed,
                     sub, pending, doneNext, got>>
  BY Results DEF HostResult, OneRead, sdk
<1>2. PICK a \in 0 .. Capacity - 1 : a = buffer.ack
  BY DEF Types, Buffers
<1>3. InFlight = 0 /\ EmptyFrom(mem, buffer.ack)
  <2>1. InFlight = 0
    BY <1>1, Results DEF InFlight
  <2> QED BY <2>1, Counts DEF MemoryInFlight, EmptyFrom
<1>4. /\ Transfers(k, n, a) /\ event' = Result(k, n) /\ mem' = Filled(mem, a, n)
      /\ sent' = sent + n /\ mem \in Memories
  BY <1>2 DEF HostResult, Types
<1>5. /\ n \in Nat /\ a + n <= Capacity /\ (k = "completed" => n > 0)
      /\ sent' \in Elements /\ mem' \in Memories
      /\ \A i \in 0 .. Capacity - 1 :
           a <= i => mem'[i] = IF i < a + n THEN sent' - n + 1 + (i - a) ELSE Garbage
  BY <1>2, <1>3, <1>4, FilledStep
<1>6. event' \in HostResults /\ event'.n = n /\ event'.kind = k /\ event' # None
  BY <1>4, Results
<1>7. InFlight' = n
  BY <1>1, <1>5, <1>6 DEF InFlight
<1>8. Types'
  BY <1>1, <1>5, <1>6 DEF Types
<1>9. OneRead'
  BY <1>1, <1>2, <1>5, <1>6, <1>7 DEF OneRead
<1>10. MemoryInFlight'
  BY <1>1, <1>2, <1>5, <1>7 DEF MemoryInFlight
<1>11. ListenerServed'
  BY <1>1 DEF ListenerServed, IdleOnlyWhenPaused, HasListener
<1>12. QueueInOrder'
  <2>1. sent' \in Nat /\ InFlight' \in Nat /\ sent' + InFlight = sent + InFlight'
    BY <1>3, <1>4, <1>5, <1>7, Counts
  <2>2. HasListener' => HasListener
    BY <1>1 DEF HasListener
  <2>3. UNCHANGED <<pending, got>>
    BY <1>1
  <2> QED BY <2>1, <2>2, <2>3, QueueKept
<1> QED BY <1>8, <1>9, <1>10, <1>11, <1>12

\* The event loop hands a result to the loop.
LEMMA DispatchEventStep == IInv /\ DispatchEvent => IInv'
<1> SUFFICES ASSUME IInv, DispatchEvent PROVE IInv'
  OBVIOUS
<1> USE DEF IInv
<1>1. /\ pc = "rest" /\ event.kind \in {"completed", "dropped"} /\ waiting' = FALSE
      /\ async' = TRUE /\ code' = event /\ event' = None /\ pc' = "loop"
      /\ UNCHANGED <<buffer, mem, dropped, drops, freed, sub, pending, doneNext, sent, got>>
  BY DEF DispatchEvent, sdk
<1>2. event \in HostResults /\ event # None
  BY <1>1, Results DEF Types
<1>3. InFlight' = InFlight
  BY <1>1, Results, Counts DEF InFlight
<1>4. Types'
  BY <1>1, <1>2 DEF Types
<1>5. OneRead'
  BY <1>1, <1>2, <1>3 DEF OneRead
<1>6. MemoryInFlight'
  BY <1>1, <1>3 DEF MemoryInFlight
<1>7. ListenerServed'
  BY <1>1 DEF ListenerServed, IdleOnlyWhenPaused, HasListener
<1>8. QueueInOrder'
  <2>1. sent' \in Nat /\ InFlight' \in Nat /\ sent' + InFlight = sent + InFlight'
    BY <1>1, <1>3, Counts
  <2>2. HasListener' => HasListener
    BY <1>1 DEF HasListener
  <2>3. UNCHANGED <<pending, got>>
    BY <1>1
  <2> QED BY <2>1, <2>2, <2>3, QueueKept
<1> QED BY <1>4, <1>5, <1>6, <1>7, <1>8

\* The loop ends with a read outstanding.
LEMMA LoopBlockedStep == IInv /\ LoopBlocked => IInv'
<1> SUFFICES ASSUME IInv, LoopBlocked PROVE IInv'
  OBVIOUS
<1> USE DEF IInv
<1>1. /\ pc = "loop" /\ code = Blocked /\ waiting' = TRUE /\ pc' = "rest"
      /\ UNCHANGED <<async, code, buffer, mem, dropped, drops, freed, sub, pending, doneNext,
                     sent, event, got>>
  BY DEF LoopBlocked, sdk
<1>2. event = Blocked /\ event # None /\ event' = Blocked /\ ~waiting /\ ~dropped
  BY <1>1, Results DEF OneRead
<1>3. InFlight' = InFlight
  BY <1>1, Results, Counts DEF InFlight
<1>4. Types'
  BY <1>1 DEF Types
<1>5. OneRead'
  BY <1>1, <1>2, <1>3 DEF OneRead
<1>6. MemoryInFlight'
  BY <1>1, <1>3 DEF MemoryInFlight
<1>7. ListenerServed'
  BY <1>1 DEF ListenerServed, IdleOnlyWhenPaused, HasListener
<1>8. QueueInOrder'
  <2>1. sent' \in Nat /\ InFlight' \in Nat /\ sent' + InFlight = sent + InFlight'
    BY <1>1, <1>3, Counts
  <2>2. HasListener' => HasListener
    BY <1>1 DEF HasListener
  <2>3. UNCHANGED <<pending, got>>
    BY <1>1
  <2> QED BY <2>1, <2>2, <2>3, QueueKept
<1> QED BY <1>4, <1>5, <1>6, <1>7, <1>8

\* A listener that is called at once gets all elements that the peer wrote.
LEMMA LoopReceives ==
  ASSUME IInv, pc = "loop", NEW n \in 0 .. Capacity, NEW k \in {"completed", "dropped"},
         code = Result(k, n), CanFire, got' = got \o Chunk(n)
  PROVE  /\ Len(got) + n = sent /\ Chunk(n) = Following(Len(got), n)
         /\ got' \in Seq(Elements) /\ Len(got') = sent /\ Len(got') \in Elements
<1> USE DEF IInv
<1>1. InFlight = n /\ Chunk(n) \in Seq(Elements) /\ Len(Chunk(n)) = n
      /\ Chunk(n) = Following(sent - n, n)
  BY LoopTakes
<1>2. Len(got) \in Elements /\ Len(got) + n = sent
  BY <1>1, QueueEmpty DEF CanFire
<1>3. got' \in Seq(Elements) /\ Len(got') = Len(got) + n
  BY <1>1, ConcatProperties DEF Types
<1>4. sent \in Elements /\ Len(got) = sent - n
  <2>1. Len(got) \in Int /\ sent \in Int /\ n \in Int /\ sent \in Elements
    BY Counts, CapacityPositive DEF Types
  <2> QED BY <1>2, <2>1
<1> QED BY <1>1, <1>2, <1>3, <1>4

\* The listener's reaction changes its subscription only.
LEMMA ReactedTypes ==
  ASSUME Types, HasListener, NEW r \in Reactions
  PROVE  /\ Reacted(r) \in Subscriptions
         /\ (r = "cancel" => Reacted(r).state = "cancelled")
         /\ (r # "cancel" => Reacted(r).state = "listening")
         /\ (r = "pause" => Reacted(r) = Paused(TRUE, TRUE))
         /\ (r = "go" => Reacted(r) = sub)
<1>1. sub \in Subscriptions /\ sub.state = "listening"
  BY DEF Types, HasListener
<1>2. /\ [sub EXCEPT !.state = "cancelled"] \in Subscriptions
      /\ [sub EXCEPT !.state = "cancelled"].state = "cancelled"
  BY <1>1, Subscribed
<1>3. Paused(TRUE, TRUE) \in Subscriptions /\ Paused(TRUE, TRUE).state = sub.state
  BY <1>1, Subscribed
<1>4. CASE r = "go"
  BY <1>1, <1>4 DEF Reacted
<1>5. CASE r = "pause"
  BY <1>1, <1>3, <1>5 DEF Reacted
<1>6. CASE r = "cancel"
  BY <1>2, <1>6 DEF Reacted
<1> QED BY <1>4, <1>5, <1>6 DEF Reactions

\* Elements that the listener gets at once, and the next read or the end.
LEMMA LoopCompletedSyncStep ==
  ASSUME IInv, NEW n \in 0 .. Capacity, NEW r \in Reactions, LoopCompletedSync(n, r)
  PROVE  IInv'
<1> USE DEF IInv
<1> DEFINE k == "completed"
<1>1. /\ pc = "loop" /\ code = Result(k, n) /\ CanFire /\ HasListener /\ ~doneNext
      /\ pending = <<>> /\ got' = got \o Chunk(n) /\ sub' = Reacted(r)
      /\ UNCHANGED <<pending, doneNext>>
  BY DEF LoopCompletedSync, CanFire
<1>2. got' \in Seq(Elements) /\ Len(got') = sent /\ Len(got') \in Elements
  BY <1>1, LoopReceives
<1>3. /\ sub' \in Subscriptions /\ (r = "cancel" => sub'.state = "cancelled")
      /\ (r # "cancel" => sub'.state = "listening")
  BY <1>1, ReactedTypes
<1>4. ~dropped
  BY <1>1, LoopTakes
<1>5. CASE r = "cancel"
  <2>0. PICK i \in 1 .. 2 : i = 2
    OBVIOUS
  <2>1. Close(After(n), MemAfter(n), i)
    BY <1>5, <2>0 DEF LoopCompletedSync
  <2>2. /\ buffer' \in Buffers /\ mem' \in Memories /\ dropped' = TRUE /\ drops' \in 0 .. 2
        /\ UNCHANGED <<async, waiting, code, sent, event>>
        /\ OneRead' /\ MemoryInFlight' /\ InFlight' = 0
        /\ pc' = (IF i = 1 THEN "rest" ELSE "trapped")
    BY <1>1, <2>1, LoopCloseStep
  <2>3. Types'
    BY <1>1, <1>2, <1>3, <2>2 DEF Types
  <2>4. ListenerServed'
    BY <1>1, <1>3, <1>5, <2>0, <2>2 DEF ListenerServed, IdleOnlyWhenPaused, HasListener
  <2>5. QueueInOrder'
    <3>1. pending' = <<>> /\ Len(got') \in Elements /\ ~HasListener'
      BY <1>1, <1>2, <1>3, <1>5 DEF HasListener
    <3> QED BY <3>1, QueueReset
  <2> QED BY <2>2, <2>3, <2>4, <2>5
<1>6. CASE r # "cancel"
  <2>1. Continue(After(n), MemAfter(n))
    BY <1>6 DEF LoopCompletedSync
  <2>2. /\ buffer' \in Buffers /\ mem' \in Memories /\ sent' \in Elements
        /\ code' \in {None, Blocked} \cup HostResults
        /\ event' \in {None, Blocked} \cup HostResults
        /\ pc' \in {"rest", "loop"}
        /\ UNCHANGED <<async, waiting, dropped, drops>>
        /\ OneRead' /\ MemoryInFlight'
        /\ \E l \in Nat : InFlight' = l /\ sent' = sent + l
        /\ (pc' = "rest" => sub'.inputPaused)
    BY <1>1, <2>1, ContinueStep
  <2>3. Types'
    BY <1>1, <1>2, <1>3, <2>2 DEF Types
  <2>4. ListenerServed'
    BY <1>1, <1>3, <1>6, <2>2 DEF ListenerServed, IdleOnlyWhenPaused, HasListener
  <2>5. QueueInOrder'
    <3>1. pending' = <<>> /\ Len(got') \in Elements /\ Len(got') + InFlight' = sent'
      BY <1>1, <1>2, <2>2
    <3> QED BY <3>1, QueueReset
  <2> QED BY <2>2, <2>3, <2>4, <2>5
<1> QED BY <1>5, <1>6

\* The last elements that the listener gets at once.
LEMMA LoopDroppedSyncStep ==
  ASSUME IInv, NEW n \in 0 .. Capacity, NEW r \in Reactions, LoopDroppedSync(n, r)
  PROVE  IInv'
<1> USE DEF IInv
<1> DEFINE k == "dropped"
<1>1. /\ pc = "loop" /\ code = Result(k, n) /\ CanFire /\ HasListener
      /\ pending = <<>> /\ got' = got \o Chunk(n) /\ UNCHANGED pending
      /\ sub' = (IF r = "go" THEN [sub EXCEPT !.state = "done"] ELSE Reacted(r))
      /\ doneNext' = (r = "pause") /\ doneNext' \in BOOLEAN
  BY DEF LoopDroppedSync, CanFire
<1>2. got' \in Seq(Elements) /\ Len(got') = sent /\ Len(got') \in Elements
  BY <1>1, LoopReceives
<1>3. sub' \in Subscriptions /\ (r # "pause" => sub'.state # "listening")
  <2>1. sub \in Subscriptions
    BY DEF Types
  <2>2. /\ [sub EXCEPT !.state = "done"] \in Subscriptions
        /\ [sub EXCEPT !.state = "done"].state = "done"
    BY <2>1, Subscribed
  <2>3. CASE r = "go"
    BY <1>1, <2>2, <2>3
  <2>4. CASE r = "pause"
    BY <1>1, <2>4, ReactedTypes
  <2>5. CASE r = "cancel"
    BY <1>1, <2>5, ReactedTypes
  <2> QED BY <2>3, <2>4, <2>5 DEF Reactions
<1>4. PICK i \in 1 .. 2 : i = IF r = "pause" THEN 1 ELSE 2
  OBVIOUS
<1>5. Close(After(n), MemAfter(n), i)
  BY <1>4 DEF LoopDroppedSync
<1>6. /\ buffer' \in Buffers /\ mem' \in Memories /\ dropped' = TRUE /\ drops' \in 0 .. 2
      /\ UNCHANGED <<async, waiting, code, sent, event>>
      /\ OneRead' /\ MemoryInFlight' /\ InFlight' = 0
      /\ pc' = (IF i = 1 THEN "rest" ELSE "trapped")
  BY <1>1, <1>5, LoopCloseStep
<1>7. Types'
  BY <1>1, <1>2, <1>3, <1>6 DEF Types
<1>8. ListenerServed'
  <2>1. r # "pause" => ~HasListener' /\ ~doneNext' /\ pending' = <<>>
    BY <1>1, <1>3 DEF HasListener
  <2>2. r = "pause" => HasListener'
    BY <1>1, ReactedTypes DEF HasListener
  <2> QED BY <1>6, <2>1, <2>2 DEF ListenerServed, IdleOnlyWhenPaused
<1>9. QueueInOrder'
  <2>1. pending' = <<>> /\ Len(got') \in Elements /\ Len(got') + InFlight' = sent'
    BY <1>1, <1>2, <1>6, Counts
  <2> QED BY <2>1, QueueReset
<1> QED BY <1>6, <1>7, <1>8, <1>9

\* Elements that are queued, or dropped for want of a listener.
LEMMA LoopCompletedQueuedStep ==
  ASSUME IInv, NEW n \in 0 .. Capacity, LoopCompletedQueued(n)
  PROVE  IInv'
<1> USE DEF IInv
<1> DEFINE k == "completed"
<1>1. /\ pc = "loop" /\ code = Result(k, n) /\ UNCHANGED <<sub, doneNext, got>>
      /\ pending' = IF HasListener THEN Append(pending, Chunk(n)) ELSE pending
  BY DEF LoopCompletedQueued
<1>2. /\ InFlight = n /\ ~dropped /\ n > 0 /\ n \in Nat
      /\ Chunk(n) \in Chunks /\ Chunk(n) = Following(sent - n, n)
  BY <1>1, LoopTakes, CapacityPositive
<1>3. pending' \in Seq(Chunks)
  BY <1>1, <1>2, AppendProperties DEF Types
<1>4. CASE HasListener
  <2>1. Continue(After(n), MemAfter(n))
    BY <1>4 DEF LoopCompletedQueued
  <2>2. /\ buffer' \in Buffers /\ mem' \in Memories /\ sent' \in Elements
        /\ code' \in {None, Blocked} \cup HostResults
        /\ event' \in {None, Blocked} \cup HostResults
        /\ pc' \in {"rest", "loop"}
        /\ UNCHANGED <<async, waiting, dropped, drops>>
        /\ OneRead' /\ MemoryInFlight'
        /\ \E l \in Nat : InFlight' = l /\ sent' = sent + l
        /\ (pc' = "rest" => sub'.inputPaused)
    BY <1>1, <2>1, ContinueStep
  <2>3. Types'
    BY <1>1, <1>3, <2>2 DEF Types
  <2>4. ListenerServed'
    BY <1>1, <1>4, <2>2 DEF ListenerServed, IdleOnlyWhenPaused, HasListener
  <2>5. QueueInOrder'
    <3>1. pending' = Append(pending, Chunk(n)) /\ got' = got
          /\ InFlight' \in Nat /\ sent' = sent + InFlight'
      BY <1>1, <1>4, <2>2
    <3> QED BY <1>2, <1>4, <3>1, QueueAppend
  <2> QED BY <2>2, <2>3, <2>4, <2>5
<1>5. CASE ~HasListener
  <2>1. Close(After(n), MemAfter(n), 1) /\ 1 \in 1 .. 2
    BY <1>5 DEF LoopCompletedQueued
  <2>2. /\ buffer' \in Buffers /\ mem' \in Memories /\ dropped' = TRUE /\ drops' \in 0 .. 2
        /\ UNCHANGED <<async, waiting, code, sent, event>>
        /\ OneRead' /\ MemoryInFlight' /\ InFlight' = 0 /\ pc' = "rest"
    BY <1>1, <2>1, LoopCloseStep
  <2>3. Types'
    BY <1>1, <1>3, <2>2 DEF Types
  <2>4. ~HasListener' /\ UNCHANGED <<pending, got>>
    BY <1>1, <1>5 DEF HasListener
  <2>5. ListenerServed'
    BY <1>1, <1>5, <2>2, <2>4 DEF ListenerServed, IdleOnlyWhenPaused
  <2>6. QueueInOrder'
    <3>1. sent' \in Nat /\ InFlight' \in Nat
      BY <2>2, Counts
    <3> QED BY <2>4, <3>1, QueueKept
  <2> QED BY <2>2, <2>3, <2>5, <2>6
<1> QED BY <1>4, <1>5

\* The last elements are queued, and the done event behind them.
LEMMA LoopDroppedQueuedStep ==
  ASSUME IInv, NEW n \in 0 .. Capacity, LoopDroppedQueued(n)
  PROVE  IInv'
<1> USE DEF IInv
<1> DEFINE k == "dropped"
<1>1. /\ pc = "loop" /\ code = Result(k, n) /\ UNCHANGED <<sub, got>>
      /\ pending' = (IF HasListener /\ n > 0 THEN Append(pending, Chunk(n)) ELSE pending)
      /\ doneNext' = HasListener
  BY DEF LoopDroppedQueued
<1>2. /\ InFlight = n /\ n \in Nat
      /\ (n > 0 => Chunk(n) \in Chunks) /\ Chunk(n) = Following(sent - n, n)
  BY <1>1, LoopTakes, CapacityPositive
<1>3. pending' \in Seq(Chunks)
  BY <1>1, <1>2, AppendProperties DEF Types
<1>4. Close(After(n), MemAfter(n), 1) /\ 1 \in 1 .. 2
  BY DEF LoopDroppedQueued
<1>5. /\ buffer' \in Buffers /\ mem' \in Memories /\ dropped' = TRUE /\ drops' \in 0 .. 2
      /\ UNCHANGED <<async, waiting, code, sent, event>>
      /\ OneRead' /\ MemoryInFlight' /\ InFlight' = 0 /\ pc' = "rest"
  BY <1>1, <1>4, LoopCloseStep
<1>6. doneNext' \in BOOLEAN
  BY <1>1 DEF HasListener
<1>7. Types'
  BY <1>1, <1>3, <1>5, <1>6 DEF Types
<1>8. HasListener' = HasListener
  BY <1>1 DEF HasListener
<1>9. ListenerServed'
  BY <1>1, <1>5, <1>8 DEF ListenerServed, IdleOnlyWhenPaused
<1>10. QueueInOrder'
  <2>1. sent' \in Nat /\ InFlight' \in Nat /\ sent' = sent + InFlight' /\ got' = got
    BY <1>1, <1>5, Counts
  <2>2. CASE HasListener /\ n > 0
    <3>1. pending' = Append(pending, Chunk(n)) /\ HasListener /\ Chunk(n) \in Chunks
      BY <1>1, <1>2, <2>2
    <3> QED BY <1>2, <2>1, <2>2, <3>1, QueueAppend
  <2>3. CASE ~HasListener \/ n = 0
    <3>1. UNCHANGED <<pending, got>>
      BY <1>1, <2>3
    <3>2. HasListener' => HasListener /\ sent' + InFlight = sent + InFlight'
      BY <1>2, <1>5, <1>8, <2>1, <2>3, Counts
    <3> QED BY <2>1, <3>1, <3>2, QueueKept
  <2> QED BY <1>2, <2>2, <2>3
<1> QED BY <1>5, <1>7, <1>9, <1>10

\* A step of the subscription that neither reads nor drops the readable end.
LEMMA StreamKept ==
  ASSUME Types, OneRead, MemoryInFlight, UNCHANGED <<pc, async, code, state, sent, event>>
  PROVE  /\ UNCHANGED <<pc, async, code, buffer, mem, waiting, dropped, drops, sent, event>>
         /\ OneRead' /\ MemoryInFlight' /\ InFlight' = InFlight
         /\ sent' \in Nat /\ InFlight' \in Nat /\ sent' + InFlight = sent + InFlight'
<1>1. UNCHANGED <<pc, async, code, buffer, mem, waiting, dropped, drops, freed, sent, event>>
  BY DEF state
<1>2. InFlight' = InFlight
  BY <1>1 DEF InFlight
<1>3. OneRead' /\ MemoryInFlight'
  BY <1>1, <1>2 DEF OneRead, MemoryInFlight
<1> QED BY <1>1, <1>2, <1>3, Counts

\* The listener pauses.
LEMMA UserPauseStep == IInv /\ UserPause => IInv'
<1> SUFFICES ASSUME IInv, UserPause PROVE IInv'
  OBVIOUS
<1> USE DEF IInv
<1>1. /\ pc = "rest" /\ HasListener /\ sub' = Paused(TRUE, TRUE)
      /\ UNCHANGED <<pending, doneNext, got>>
      /\ UNCHANGED <<pc, async, code, state, sent, event>>
  BY DEF UserPause
<1>2. sub' \in Subscriptions /\ sub'.state = sub.state /\ sub'.inputPaused = TRUE
  <2>1. sub \in Subscriptions
    BY DEF Types
  <2> QED BY <1>1, <2>1, Subscribed
<1>3. /\ UNCHANGED <<pc, async, code, buffer, mem, waiting, dropped, drops, sent, event>>
      /\ OneRead' /\ MemoryInFlight' /\ InFlight' = InFlight
      /\ sent' \in Nat /\ InFlight' \in Nat /\ sent' + InFlight = sent + InFlight'
  BY <1>1, StreamKept
<1>4. Types'
  BY <1>1, <1>2, <1>3 DEF Types
<1>5. HasListener' = HasListener
  BY <1>2 DEF HasListener
<1>6. ListenerServed'
  BY <1>1, <1>2, <1>3, <1>5 DEF ListenerServed, IdleOnlyWhenPaused
<1>7. QueueInOrder'
  <2>1. UNCHANGED <<pending, got>>
    BY <1>1
  <2> QED BY <1>3, <1>5, <2>1, QueueKept
<1> QED BY <1>3, <1>4, <1>6, <1>7

\* The listener resumes: nothing is read while chunks, or done, are queued.
LEMMA UserResumeStep == IInv /\ UserResume => IInv'
<1> SUFFICES ASSUME IInv, UserResume PROVE IInv'
  OBVIOUS
<1> USE DEF IInv
<1>1. PICK y \in BOOLEAN : y = (pending # <<>> \/ doneNext)
  OBVIOUS
<1>2. pc = "rest" /\ HasListener /\ sub' = Paused(FALSE, y) /\ UNCHANGED <<pending, doneNext, got>>
  BY <1>1 DEF UserResume
<1>3. sub \in Subscriptions
  BY DEF Types
<1>4. sub' \in Subscriptions /\ sub'.state = sub.state /\ sub'.inputPaused = y
  BY <1>2, <1>3, Subscribed
<1>5. HasListener' = HasListener /\ UNCHANGED <<pending, got>>
  BY <1>2, <1>4 DEF HasListener
<1>6. CASE y
  <2>1. UNCHANGED <<pc, async, code, state, sent, event>>
    BY <1>4, <1>6 DEF UserResume
  <2>2. /\ UNCHANGED <<pc, async, code, buffer, mem, waiting, dropped, drops, sent, event>>
        /\ OneRead' /\ MemoryInFlight' /\ InFlight' = InFlight
        /\ sent' \in Nat /\ InFlight' \in Nat /\ sent' + InFlight = sent + InFlight'
    BY <2>1, StreamKept
  <2>3. Types'
    BY <1>2, <1>4, <2>2 DEF Types
  <2>4. ListenerServed'
    BY <1>2, <1>4, <1>5, <1>6, <2>2 DEF ListenerServed, IdleOnlyWhenPaused
  <2>5. QueueInOrder'
    BY <1>5, <2>2, QueueKept
  <2> QED BY <2>2, <2>3, <2>4, <2>5
<1>7. CASE ~y
  <2>1. OnResume
    BY <1>4, <1>7 DEF UserResume
  <2>2. /\ buffer' \in Buffers /\ mem' \in Memories /\ sent' \in Elements
        /\ code' \in {None, Blocked} \cup HostResults
        /\ event' \in {None, Blocked} \cup HostResults
        /\ async' \in BOOLEAN /\ pc' \in {"rest", "loop"}
        /\ UNCHANGED <<waiting, dropped, drops>>
        /\ OneRead' /\ MemoryInFlight'
        /\ \E n \in Nat : InFlight' = InFlight + n /\ sent' = sent + n
        /\ (pc' = "rest" => dropped \/ waiting)
    BY <1>2, <2>1, ResumeStep
  <2>3. Types'
    BY <1>2, <1>4, <2>2 DEF Types
  <2>4. ListenerServed'
    BY <1>2, <1>5, <2>2 DEF ListenerServed, IdleOnlyWhenPaused
  <2>5. sent' \in Nat /\ InFlight' \in Nat /\ sent' + InFlight = sent + InFlight'
    BY <2>2, Counts
  <2>6. QueueInOrder'
    BY <1>5, <2>5, QueueKept
  <2> QED BY <2>2, <2>3, <2>4, <2>6
<1> QED BY <1>6, <1>7

\* The listener leaves, and what is queued with it.
LEMMA LeaveStep ==
  ASSUME IInv, pc = "rest", pending' = <<>>, doneNext' = FALSE, OnCancel,
         sub' \in Subscriptions, sub'.state # "listening",
         got' \in Seq(Elements), Len(got') \in Elements
  PROVE  IInv'
<1> USE DEF IInv
<1>1. /\ buffer' \in Buffers /\ mem' \in Memories /\ drops' \in 0 .. 2
      /\ dropped' \in BOOLEAN /\ pc' = "rest"
      /\ UNCHANGED <<async, waiting, code, sent, event>>
      /\ OneRead' /\ MemoryInFlight' /\ InFlight' = InFlight
      /\ (dropped' \/ waiting') /\ (dropped => dropped')
  BY CancelStep
<1>2. pending' \in Seq(Chunks)
  BY EmptySeq
<1>3. Types'
  BY <1>1, <1>2 DEF Types
<1>4. ~HasListener'
  BY DEF HasListener
<1>5. ListenerServed'
  BY <1>1, <1>4 DEF ListenerServed, IdleOnlyWhenPaused
<1>6. QueueInOrder'
  BY <1>4, QueueReset
<1> QED BY <1>1, <1>3, <1>5, <1>6

\* The listener cancels.
LEMMA UserCancelStep == IInv /\ UserCancel => IInv'
<1> SUFFICES ASSUME IInv, UserCancel PROVE IInv'
  OBVIOUS
<1>1. sub \in Subscriptions /\ got \in Seq(Elements) /\ Len(got) \in Elements
  BY GotFits DEF IInv, Types
<1>2. sub' \in Subscriptions /\ sub'.state # "listening"
  <2>1. [sub EXCEPT !.state = "cancelled"] \in Subscriptions
        /\ [sub EXCEPT !.state = "cancelled"].state = "cancelled"
    BY <1>1, Subscribed
  <2> QED BY <2>1 DEF UserCancel
<1>3. pc = "rest" /\ pending' = <<>> /\ doneNext' = FALSE /\ OnCancel /\ got' = got
  BY DEF UserCancel
<1> QED BY <1>1, <1>2, <1>3, LeaveStep

\* The listener is told that the stream is done.
LEMMA DeliverDoneStep == IInv /\ DeliverDone => IInv'
<1> SUFFICES ASSUME IInv, DeliverDone PROVE IInv'
  OBVIOUS
<1>1. sub \in Subscriptions /\ got \in Seq(Elements) /\ Len(got) \in Elements
  BY GotFits DEF IInv, Types
<1>2. sub' \in Subscriptions /\ sub'.state # "listening"
  <2>1. [sub EXCEPT !.state = "done"] \in Subscriptions
        /\ [sub EXCEPT !.state = "done"].state = "done"
    BY <1>1, Subscribed
  <2> QED BY <2>1 DEF DeliverDone
<1>3. pc = "rest" /\ pending' = <<>> /\ doneNext' = FALSE /\ OnCancel /\ got' = got
  BY DEF DeliverDone
<1> QED BY <1>1, <1>2, <1>3, LeaveStep

\* The first chunk moves from the queue to the listener.
LEMMA Delivered ==
  ASSUME IInv, pending # <<>>, got' = got \o Head(pending), pending' = Tail(pending),
         sent' \in Nat, InFlight' \in Nat,
         HasListener' => HasListener /\ sent' + InFlight = sent + InFlight'
  PROVE  pending' \in Seq(Chunks) /\ QueueInOrder'
<1> USE DEF IInv
<1>1. PICK n \in Nat :
        /\ Len(got') = Len(got) + n /\ Len(got) + n \in Elements
        /\ \E x \in [0 .. Len(Tail(pending)) -> Elements] :
             /\ Marks(Tail(pending), Len(got) + n, x)
             /\ HasListener => x[Len(Tail(pending))] + InFlight = sent
  BY QueueHead
<1>2. PICK x \in [0 .. Len(pending') -> Elements] :
        Marks(pending', Len(got'), x) /\ (HasListener => x[Len(pending')] + InFlight = sent)
  BY <1>1
<1>3. pending' \in Seq(Chunks)
  BY HeadTailProperties DEF Types
<1>4. x[Len(pending')] \in Int
  <2>1. Len(pending') \in Nat /\ Elements \subseteq Int
    BY <1>3, LenProperties, SizesAssumption DEF Elements
  <2>2. Len(pending') \in 0 .. Len(pending')
    BY <2>1
  <2>3. x \in [0 .. Len(pending') -> Elements]
    BY <1>2
  <2> QED BY <2>1, <2>2, <2>3
<1>5. HasListener' => x[Len(pending')] + InFlight' = sent'
  <2> SUFFICES ASSUME HasListener' PROVE x[Len(pending')] + InFlight' = sent'
    OBVIOUS
  <2>1. PICK l \in Int : l = x[Len(pending')]
    BY <1>4
  <2>2. l + InFlight = sent /\ sent' + InFlight = sent + InFlight'
    BY <1>2, <2>1
  <2>3. PICK f \in Int, i \in Int, s \in Int, t \in Int :
          f = InFlight /\ i = InFlight' /\ s = sent /\ t = sent'
    BY Counts
  <2>4. l + f = s /\ t + f = s + i
    BY <2>2, <2>3
  <2>5. l + i = t
    BY <2>4
  <2> QED BY <2>1, <2>3, <2>5
<1>6. QueueInOrder'
  BY <1>2, <1>5 DEF QueueInOrder
<1> QED BY <1>3, <1>6

\* A queued chunk is delivered, and the listener reacts to it.
LEMMA DeliverChunkStep ==
  ASSUME IInv, NEW r \in Reactions, DeliverChunk(r)
  PROVE  IInv'
<1> USE DEF IInv
<1>1. /\ pc = "rest" /\ HasListener /\ pending # <<>> /\ got' = got \o Head(pending)
      /\ sub \in Subscriptions
  BY DEF DeliverChunk, Types
<1>2. got' \in Seq(Elements) /\ Len(got') \in Elements
  BY <1>1, QueueHead
<1>3. CASE r = "cancel"
  <2>1. sub' = Reacted(r) /\ pending' = <<>> /\ doneNext' = FALSE /\ OnCancel
    BY <1>3 DEF DeliverChunk
  <2>2. sub' \in Subscriptions /\ sub'.state # "listening"
    BY <1>1, <1>3, <2>1, ReactedTypes
  <2> QED BY <1>1, <1>2, <2>1, <2>2, LeaveStep
<1>4. CASE r = "pause"
  <2>1. /\ sub' = Reacted(r) /\ pending' = Tail(pending) /\ UNCHANGED doneNext
        /\ UNCHANGED <<pc, async, code, state, sent, event>>
    BY <1>4 DEF DeliverChunk
  <2>2. sub' \in Subscriptions /\ sub'.state = "listening" /\ sub' = Paused(TRUE, TRUE)
    BY <1>1, <1>4, <2>1, ReactedTypes
  <2>3. sub'.inputPaused = TRUE
    BY <1>1, <2>2, Subscribed
  <2>4. /\ UNCHANGED <<pc, async, code, buffer, mem, waiting, dropped, drops, sent, event>>
        /\ OneRead' /\ MemoryInFlight' /\ InFlight' = InFlight
        /\ sent' \in Nat /\ InFlight' \in Nat /\ sent' + InFlight = sent + InFlight'
    BY <2>1, StreamKept
  <2>5. pending' \in Seq(Chunks) /\ QueueInOrder'
    BY <1>1, <2>1, <2>4, Delivered
  <2>6. Types'
    BY <1>2, <2>1, <2>2, <2>4, <2>5 DEF Types
  <2>7. HasListener'
    BY <2>2 DEF HasListener
  <2>8. ListenerServed'
    BY <1>1, <2>1, <2>3, <2>4, <2>7 DEF ListenerServed, IdleOnlyWhenPaused
  <2> QED BY <2>4, <2>5, <2>6, <2>8
<1>5. CASE r = "go"
  <2>1. PICK y \in BOOLEAN : y = (sub.inputPaused /\ (Len(pending) > 1 \/ doneNext))
    OBVIOUS
  <2>2. /\ pending' = Tail(pending) /\ UNCHANGED doneNext
        /\ sub' = [sub EXCEPT !.inputPaused = y]
    BY <1>5, <2>1 DEF DeliverChunk
  <2>3. sub' \in Subscriptions /\ sub'.state = sub.state /\ sub'.inputPaused = y
    BY <1>1, <2>2, Subscribed
  <2>4. HasListener'
    BY <1>1, <2>3 DEF HasListener
  <2>5. CASE sub'.inputPaused = sub.inputPaused
    <3>1. UNCHANGED <<pc, async, code, state, sent, event>>
      BY <1>5, <2>5 DEF DeliverChunk
    <3>2. /\ UNCHANGED <<pc, async, code, buffer, mem, waiting, dropped, drops, sent, event>>
          /\ OneRead' /\ MemoryInFlight' /\ InFlight' = InFlight
          /\ sent' \in Nat /\ InFlight' \in Nat /\ sent' + InFlight = sent + InFlight'
      BY <3>1, StreamKept
    <3>3. pending' \in Seq(Chunks) /\ QueueInOrder'
      BY <1>1, <2>2, <3>2, Delivered
    <3>4. Types'
      BY <1>2, <2>2, <2>3, <3>2, <3>3 DEF Types
    <3>5. ListenerServed'
      BY <1>1, <2>2, <2>4, <2>5, <3>2 DEF ListenerServed, IdleOnlyWhenPaused
    <3> QED BY <3>2, <3>3, <3>4, <3>5
  <2>6. CASE sub'.inputPaused # sub.inputPaused
    <3>1. OnResume
      BY <1>5, <2>6 DEF DeliverChunk
    <3>2. /\ buffer' \in Buffers /\ mem' \in Memories /\ sent' \in Elements
          /\ code' \in {None, Blocked} \cup HostResults
          /\ event' \in {None, Blocked} \cup HostResults
          /\ async' \in BOOLEAN /\ pc' \in {"rest", "loop"}
          /\ UNCHANGED <<waiting, dropped, drops>>
          /\ OneRead' /\ MemoryInFlight'
          /\ \E n \in Nat : InFlight' = InFlight + n /\ sent' = sent + n
          /\ (pc' = "rest" => dropped \/ waiting)
      BY <1>1, <3>1, ResumeStep
    <3>3. sent' \in Nat /\ InFlight' \in Nat /\ sent' + InFlight = sent + InFlight'
      BY <3>2, Counts
    <3>4. pending' \in Seq(Chunks) /\ QueueInOrder'
      BY <1>1, <2>2, <3>3, Delivered
    <3>5. Types'
      BY <1>2, <2>2, <2>3, <3>2, <3>4 DEF Types
    <3>6. ListenerServed'
      BY <2>2, <2>4, <3>2 DEF ListenerServed, IdleOnlyWhenPaused
    <3> QED BY <3>2, <3>4, <3>5, <3>6
  <2> QED BY <2>5, <2>6
<1> QED BY <1>3, <1>4, <1>5 DEF Reactions

\* Every step keeps the invariant.
LEMMA NextInv == IInv /\ [Next]_vars => IInv'
<1> SUFFICES ASSUME IInv, [Next]_vars PROVE IInv'
  OBVIOUS
<1>1. CASE UNCHANGED vars
  <2>1. UNCHANGED <<pc, async, code, buffer, mem, waiting, dropped, drops, freed, sub, pending,
                    doneNext, sent, event, got>>
    BY <1>1 DEF vars, state, sdk
  <2>2. UNCHANGED InFlight
    BY <2>1 DEF InFlight
  <2> QED BY <2>1, <2>2 DEF IInv, Types, OneRead, MemoryInFlight, ListenerServed,
                            IdleOnlyWhenPaused, HasListener, QueueInOrder
<1>2. CASE Listen
  BY <1>2, ListenStep
<1>3. CASE \E k \in {"completed", "dropped"}, n \in 0 .. Capacity : HostResult(k, n)
  BY <1>3, HostResultStep
<1>4. CASE DispatchEvent
  BY <1>4, DispatchEventStep
<1>5. CASE Loop
  BY <1>5, LoopBlockedStep, LoopCompletedSyncStep, LoopDroppedSyncStep,
     LoopCompletedQueuedStep, LoopDroppedQueuedStep DEF Loop
<1>6. CASE UserPause \/ UserResume \/ UserCancel
  BY <1>6, UserPauseStep, UserResumeStep, UserCancelStep
<1>7. CASE \E r \in Reactions : DeliverChunk(r)
  BY <1>7, DeliverChunkStep
<1>8. CASE DeliverDone
  BY <1>8, DeliverDoneStep
<1> QED BY <1>1, <1>2, <1>3, <1>4, <1>5, <1>6, <1>7, <1>8 DEF Next

\* The inductive invariant holds in every reachable state.
THEOREM Invariance == Spec => []IInv
  BY InitInv, NextInv, PTL DEF Spec
-----------------------------------------------------------------------------
(* Types, elements and reads.                                              *)

\* The queue is no longer than what the peer wrote.
LEMMA QueueBounds ==
  ASSUME Types, NEW p \in Seq(Chunks), NEW g \in Elements,
         NEW e \in [0 .. Len(p) -> Elements], Marks(p, g, e)
  PROVE  /\ g \in Int /\ e[Len(p)] \in Int /\ g + Len(p) <= e[Len(p)]
         /\ e[Len(p)] <= MaxElements /\ Len(p) <= MaxElements
<1>1. Len(p) \in Nat
  BY LenProperties
<1>2. PICK l \in Elements : l = e[Len(p)]
  BY <1>1
<1>3. e[0] + (Len(p) - 0) <= e[Len(p)] /\ e[0] = g
  BY <1>1 DEF Marks
<1>4. g \in Nat /\ l \in Nat /\ l <= MaxElements /\ MaxElements \in Nat
  BY SizesAssumption DEF Elements
<1>5. g + Len(p) <= l
  BY <1>1, <1>2, <1>3, <1>4
<1> QED BY <1>1, <1>2, <1>4, <1>5

\* Every variable has a value of its type, whatever the sizes.
THEOREM TypeCorrect == Spec => []TypeOK
<1>1. IInv => TypeOK
  <2> SUFFICES ASSUME IInv PROVE TypeOK
    OBVIOUS
  <2> USE DEF IInv
  <2>1. PICK p \in Seq(Chunks), g \in Elements : p = pending /\ g = Len(got)
    BY GotFits DEF Types
  <2>2. PICK e \in [0 .. Len(p) -> Elements] : Marks(p, g, e)
    BY <2>1 DEF QueueInOrder
  <2>3. Len(pending) <= MaxElements
    BY <2>1, <2>2, QueueBounds
  <2>4. Len(got) <= MaxElements
    BY <2>1, SizesAssumption DEF Elements
  <2>5. \A i \in 1 .. Len(pending) : pending[i] \in Chunks
    BY ElementOfSeq DEF Types
  <2>6. freed \subseteq Elements
    BY SizesAssumption DEF MemoryInFlight, Garbage, Elements
  <2> QED BY <2>3, <2>4, <2>5, <2>6 DEF Types, TypeOK, Buffers, Memories, Subscriptions
<1> QED BY <1>1, Invariance, PTL

\* A chunk ends with the element that its mark names.
LEMMA LastOfChunk ==
  ASSUME NEW p \in Seq(Chunks), NEW g \in Elements,
         NEW e \in [0 .. Len(p) -> Elements], Marks(p, g, e), NEW i \in 1 .. Len(p)
  PROVE  /\ Len(p[i]) \in Nat
         /\ p[i] = [j \in 1 .. Len(p[i]) |-> e[i - 1] + j] /\ p[i][Len(p[i])] = e[i]
<1>1. Len(p) \in Nat /\ Elements \subseteq Int
  BY LenProperties, SizesAssumption DEF Elements
<1>2. p[i] \in Chunks
  BY ElementOfSeq
<1>3. Len(p[i]) \in Nat /\ Len(p[i]) > 0 /\ p[i] \in Seq(Elements)
  BY <1>2, ChunkSeq
<1>4. PICK a \in Int, b \in Int : a = e[i - 1] /\ b = e[i]
  <2>1. i - 1 \in 0 .. Len(p) /\ i \in 0 .. Len(p)
    BY <1>1
  <2>2. e[i - 1] \in Int /\ e[i] \in Int
    BY <1>1, <2>1
  <2> QED BY <2>2
<1>5. p[i] = Following(a, b - a)
  BY <1>4 DEF Marks
<1>6. PICK l \in Nat : l = Len(p[i]) /\ l > 0
  BY <1>3
<1>7. a + 1 <= b
  <2>1. i - 1 \in 0 .. Len(p) /\ i \in 0 .. Len(p) /\ i - 1 <= i
    BY <1>1
  <2>2. e[i - 1] + (i - (i - 1)) <= e[i]
    BY <2>1 DEF Marks
  <2>3. i - (i - 1) = 1
    BY <1>1
  <2> QED BY <1>4, <2>2, <2>3
<1>8. l = b - a
  <2>1. DOMAIN p[i] = 1 .. l
    BY <1>3, <1>6, LenProperties
  <2>2. DOMAIN p[i] = 1 .. b - a
    BY <1>5 DEF Following
  <2>3. b - a \in Nat /\ b - a > 0
    BY <1>7
  <2>4. l \in 1 .. b - a /\ b - a \in 1 .. l
    BY <1>6, <2>1, <2>2, <2>3
  <2> QED BY <1>6, <2>3, <2>4
<1>9. p[i] = [j \in 1 .. l |-> a + j]
  BY <1>5, <1>8 DEF Following
<1>10. p[i][l] = a + l
  BY <1>6, <1>9
<1>11. p[i][l] = b
  BY <1>6, <1>8, <1>10
<1> QED BY <1>4, <1>6, <1>9, <1>11

\* What was handed to the controller ends with the last mark.
LEMMA ForwardedIsMark ==
  ASSUME Types, NEW e \in [0 .. Len(pending) -> Elements], Marks(pending, Len(got), e)
  PROVE  Forwarded = e[Len(pending)]
<1>1. PICK p \in Seq(Chunks), g \in Elements : p = pending /\ g = Len(got)
  <2>1. Len(got) \in Elements
    <3>1. 0 \in 0 .. Len(pending)
      BY LenProperties DEF Types
    <3> QED BY <3>1 DEF Marks
  <2> QED BY <2>1 DEF Types
<1>2. Marks(p, g, e) /\ Len(p) \in Nat
  BY <1>1, LenProperties
<1>3. CASE p = <<>>
  BY <1>1, <1>2, <1>3, EmptySeq DEF Forwarded, Marks
<1>4. CASE p # <<>>
  <2>1. Len(p) \in 1 .. Len(p)
    BY <1>2, <1>4, EmptySeq
  <2>2. p[Len(p)][Len(p[Len(p)])] = e[Len(p)]
    BY <1>1, <1>2, <2>1, LastOfChunk
  <2> QED BY <1>1, <1>4, <2>2 DEF Forwarded
<1> QED BY <1>3, <1>4

\* Elements are neither lost, nor repeated, nor reordered between the peer and a
\* listener, for buffers, elements and streams of any size.
THEOREM ElementsArrive == Spec => []NothingLost
<1>1. IInv => NothingLost
  <2> SUFFICES ASSUME IInv, HasListener PROVE NothingLost
    BY DEF NothingLost, HasListener
  <2> USE DEF IInv
  <2>1. PICK e \in [0 .. Len(pending) -> Elements] :
          Marks(pending, Len(got), e) /\ e[Len(pending)] + InFlight = sent
    BY DEF QueueInOrder
  <2>2. Forwarded = e[Len(pending)]
    BY <2>1, ForwardedIsMark
  <2>3. PICK p \in Seq(Chunks), g \in Elements : p = pending /\ g = Len(got)
    BY GotFits DEF Types
  <2>4. /\ e \in [0 .. Len(p) -> Elements] /\ Marks(p, g, e) /\ Len(p) \in Nat
        /\ DOMAIN p = 1 .. Len(p)
    BY <2>1, <2>3, LenProperties
  <2>5. \A i \in 1 .. Len(p) : p[i] = [j \in 1 .. Len(p[i]) |-> e[i - 1] + j]
                               /\ p[i][Len(p[i])] = e[i]
    BY <2>4, LastOfChunk
  <2>6. \A i \in DOMAIN p :
          LET before == IF i = 1 THEN g ELSE p[i - 1][Len(p[i - 1])]
          IN  p[i] = [j \in 1 .. Len(p[i]) |-> before + j]
    <3> TAKE i \in DOMAIN p
    <3>1. PICK b : b = IF i = 1 THEN g ELSE p[i - 1][Len(p[i - 1])]
      OBVIOUS
    <3>2. b = e[i - 1]
      <4>1. CASE i = 1
        BY <2>4, <3>1, <4>1 DEF Marks
      <4>2. CASE i # 1
        <5>1. i - 1 \in 1 .. Len(p)
          BY <2>4, <4>2
        <5> QED BY <2>5, <3>1, <4>2, <5>1
      <4> QED BY <4>1, <4>2
    <3>3. p[i] = [j \in 1 .. Len(p[i]) |-> e[i - 1] + j]
      BY <2>4, <2>5
    <3> QED BY <3>1, <3>2, <3>3
  <2>7. \A i \in 0 .. InFlight - 1 : mem[buffer.ack + i] = Forwarded + 1 + i
    <3> TAKE i \in 0 .. InFlight - 1
    <3>1. PICK a \in Nat, f \in Nat, s \in Nat, l \in Int :
            a = buffer.ack /\ f = InFlight /\ s = sent /\ l = Forwarded /\ l + f = s
            /\ a + f <= Capacity
      <4>1. e[Len(pending)] \in Int
        BY <2>3, <2>4, SizesAssumption DEF Elements
      <4> QED BY <2>1, <2>2, <4>1, Counts DEF OneRead
    <3>2. PICK o \in 0 .. Capacity - 1 : o = a + i /\ a <= o /\ o < a + f
      BY <3>1, CapacityPositive
    <3>3. mem[o] = s - f + 1 + (o - a)
      BY <3>1, <3>2 DEF MemoryInFlight
    <3>4. s - f + 1 + (o - a) = l + 1 + i
      <4>1. PICK h \in Int : h = i
        BY <3>1
      <4>2. o - a = h
        BY <3>2, <4>1
      <4>3. l + f = s
        BY <3>1
      <4>4. s - f + 1 + h = l + 1 + h
        BY <4>3
      <4> QED BY <4>1, <4>2, <4>4
    <3>5. buffer.ack + i = o
      BY <3>1, <3>2
    <3>6. Forwarded + 1 + i = l + 1 + i
      BY <3>1
    <3>7. mem[o] = l + 1 + i
      BY <3>3, <3>4
    <3> QED BY <3>5, <3>6, <3>7
  <2>8. Forwarded + InFlight = sent
    BY <2>1, <2>2
  <2>9. \A i \in DOMAIN pending :
          LET before == IF i = 1 THEN Len(got) ELSE pending[i - 1][Len(pending[i - 1])]
          IN  pending[i] = [j \in 1 .. Len(pending[i]) |-> before + j]
    BY <2>3, <2>6
  <2> QED BY <2>7, <2>8, <2>9 DEF NothingLost
<1> QED BY <1>1, Invariance, PTL

\* A read is outstanding when a listener wants one, _waitingForRead says so, and
\* nothing is kept for a listener that has left, nor freed that was handed on.
THEOREM ReadsFollow == Spec => []ReadsFollowListener
<1>1. IInv => ReadsFollowListener
  <2> SUFFICES ASSUME IInv PROVE ReadsFollowListener
    OBVIOUS
  <2> USE DEF IInv
  <2>1. WaitingIsRead
    BY Results DEF OneRead, WaitingIsRead
  <2>2. IdleOnlyWhenPaused
    BY DEF ListenerServed
  <2>3. FinishedIsDropped
    BY DEF ListenerServed, OneRead, FinishedIsDropped, NoBuffer
  <2>4. HandedOnAreKept
    <3>1. \A i \in 1 .. sent : i # 0
      BY Counts
    <3>2. freed \subseteq {0}
      BY DEF MemoryInFlight, Garbage
    <3> QED BY <3>1, <3>2 DEF HandedOnAreKept
  <2> QED BY <2>1, <2>2, <2>3, <2>4 DEF ReadsFollowListener
<1> QED BY <1>1, Invariance, PTL
-----------------------------------------------------------------------------
(* The listener sees a pipe.                                               *)

\* The pipe is open while someone listens.
LEMMA ClosedValues ==
  ASSUME sub \in Subscriptions
  PROVE  /\ (HasListener => Closed = "no")
         /\ (sub.state = "done" => Closed = "ended")
         /\ (sub.state = "cancelled" => Closed = "cut")
<1>1. sub.state \in {"listening", "cancelled", "done"}
  BY DEF Subscriptions
<1> QED BY <1>1 DEF HasListener, Closed

\* Elements that the peer writes enter the pipe.
LEMMA PutStep ==
  ASSUME Types, Types', got' = got, sub'.state = sub.state, NEW n \in Nat, sent' = sent + n
  PROVE  [Stream!Next]_Stream!vars
<1>1. Closed' = Closed
  BY DEF Closed
<1>2. sent \in Nat /\ sent + n <= MaxElements /\ MaxElements \in Nat
  BY SizesAssumption, Counts DEF Types, Elements
<1>3. CASE n = 0
  BY <1>1, <1>2, <1>3 DEF Stream!vars
<1>4. CASE n # 0
  <2>1. n \in 1 .. MaxElements
    BY <1>2, <1>4
  <2>2. Stream!Put
    BY <1>1, <1>2, <2>1 DEF Stream!Put
  <2> QED BY <2>2 DEF Stream!Next
<1> QED BY <1>3, <1>4

\* The listener takes m elements out of it, after the peer put n in, and may
\* leave it with that, or see its end when it has all.
LEMMA TakeStep ==
  ASSUME Types, Types', HasListener, NEW n \in Nat, sent' = sent + n, NEW m \in Nat,
         got' = got \o Following(Len(got), m), NEW l \in Int, l = Len(got) + m, l <= sent',
         sub'.state = "done" => l = sent'
  PROVE  Stream!Next
<1>1. sent \in Nat /\ Len(got) \in Nat /\ sent + n <= MaxElements /\ MaxElements \in Nat
  BY SizesAssumption, Counts DEF Types, Elements
<1>2. n \in 0 .. MaxElements /\ m \in 0 .. MaxElements /\ Len(got) + m <= sent + n
  BY <1>1
<1>3. Closed = "no"
  BY ClosedValues DEF Types
<1>4. Closed' \in {"no", "cut"} \cup (IF Len(got) + m = sent + n THEN {"ended"} ELSE {})
  <2>1. sub'.state \in {"listening", "cancelled", "done"}
    BY DEF Types, Subscriptions
  <2>2. CASE sub'.state = "listening"
    BY <2>2 DEF Closed
  <2>3. CASE sub'.state = "cancelled"
    BY <2>3 DEF Closed
  <2>4. CASE sub'.state = "done"
    <3>1. Closed' = "ended"
      BY <2>4 DEF Closed
    <3>2. Len(got) + m = sent + n
      BY <2>4
    <3> QED BY <3>1, <3>2
  <2> QED BY <2>1, <2>2, <2>3, <2>4
<1>5. got' = got \o [i \in 1 .. m |-> Len(got) + i]
  BY DEF Following
<1>6. Stream!PutGet
  BY <1>1, <1>2, <1>3, <1>4, <1>5 DEF Stream!PutGet
<1> QED BY <1>6 DEF Stream!Next

\* A read transfers what the peer writes; ending one does not.
LEMMA ReadWrites ==
  ASSUME Types
  PROVE  /\ \A b, m : StartRead(b, m) => \E n \in Nat : sent' = sent + n
         /\ \A b, m : Continue(b, m) => \E n \in Nat : sent' = sent + n
         /\ (OnResume => \E n \in Nat : sent' = sent + n)
         /\ \A b, m, n : Close(b, m, n) => sent' = sent + 0
         /\ (OnCancel => sent' = sent)
<1>1. sent = sent + 0 /\ \A n \in 0 .. Capacity : n \in Nat
  BY Counts, CapacityPositive
<1>2. ASSUME NEW b, NEW m, StartRead(b, m)
      PROVE  \E n \in Nat : sent' = sent + n
  <2>1. CASE sent' = sent
    BY <1>1, <2>1
  <2>2. CASE \E n \in 0 .. Capacity : sent' = sent + n
    BY <1>1, <2>2
  <2> QED BY <1>2, <2>1, <2>2 DEF StartRead
<1>3. ASSUME NEW b, NEW m, Continue(b, m)
      PROVE  \E n \in Nat : sent' = sent + n
  <2>1. CASE sent' = sent
    BY <1>1, <2>1
  <2>2. CASE StartRead(b, m)
    BY <1>2, <2>2
  <2> QED BY <1>3, <2>1, <2>2 DEF Continue
<1>4. OnResume => \E n \in Nat : sent' = sent + n
  <2>1. sent' = sent => \E n \in Nat : sent' = sent + n
    BY <1>1
  <2> QED BY <1>2, <2>1 DEF OnResume
<1>5. \A b, m, n : Close(b, m, n) => sent' = sent /\ sent' = sent + 0
  BY <1>1 DEF Close
<1>6. OnCancel => sent' = sent
  BY <1>5 DEF OnCancel
<1> QED BY <1>2, <1>3, <1>4, <1>5, <1>6

\* Nothing is in the pipe at first.
LEMMA InitImplements == Init => Stream!Init
  BY DEF Init, Stream!Init, Closed

\* Steps that only read, or end a read.
LEMMA ReadImplements ==
  ASSUME IInv, IInv',
         \/ Listen \/ DispatchEvent \/ LoopBlocked
         \/ \E k \in {"completed", "dropped"}, n \in 0 .. Capacity : HostResult(k, n)
         \/ \E n \in 0 .. Capacity : LoopCompletedQueued(n) \/ LoopDroppedQueued(n)
  PROVE  [Stream!Next]_Stream!vars
<1> USE DEF IInv
<1>1. sent = sent + 0 /\ 0 \in Nat
  BY Counts
<1>2. \E n \in Nat : sent' = sent + n
  <2>1. CASE Listen
    BY <2>1, ReadWrites DEF Listen
  <2>2. CASE DispatchEvent \/ LoopBlocked
    <3>1. sent' = sent
      BY <2>2 DEF DispatchEvent, LoopBlocked
    <3> QED BY <1>1, <3>1
  <2>3. CASE \E k \in {"completed", "dropped"}, n \in 0 .. Capacity : HostResult(k, n)
    BY <2>3, CapacityPositive DEF HostResult
  <2>4. ASSUME NEW n \in 0 .. Capacity, LoopCompletedQueued(n)
        PROVE  \E i \in Nat : sent' = sent + i
    BY <1>1, <2>4, ReadWrites DEF LoopCompletedQueued
  <2>5. ASSUME NEW n \in 0 .. Capacity, LoopDroppedQueued(n)
        PROVE  \E i \in Nat : sent' = sent + i
    BY <1>1, <2>5, ReadWrites DEF LoopDroppedQueued
  <2> QED BY <2>1, <2>2, <2>3, <2>4, <2>5
<1>3. got' = got /\ sub' = sub
  BY DEF Listen, DispatchEvent, LoopBlocked, HostResult, LoopCompletedQueued,
         LoopDroppedQueued, sdk
<1>4. sub'.state = sub.state
  BY <1>3
<1> QED BY <1>2, <1>3, <1>4, PutStep

\* The listener pauses or resumes.
LEMMA PauseImplements ==
  ASSUME IInv, IInv', UserPause \/ UserResume
  PROVE  [Stream!Next]_Stream!vars
<1> USE DEF IInv
<1>1. sub \in Subscriptions /\ sent = sent + 0 /\ 0 \in Nat
  BY Counts DEF Types
<1>2. CASE UserPause
  <2>1. sub' = Paused(TRUE, TRUE) /\ got' = got /\ sent' = sent + 0
    BY <1>1, <1>2 DEF UserPause
  <2>2. sub'.state = sub.state
    BY <1>1, <2>1, Subscribed
  <2> QED BY <1>1, <2>1, <2>2, PutStep
<1>3. CASE UserResume
  <2>1. PICK y \in BOOLEAN : y = (pending # <<>> \/ doneNext)
    OBVIOUS
  <2>2. sub' = Paused(FALSE, y) /\ got' = got
    BY <1>3, <2>1 DEF UserResume
  <2>3. sub'.state = sub.state
    BY <1>1, <2>2, Subscribed
  <2>4. sent' = sent \/ OnResume
    BY <1>3 DEF UserResume
  <2>5. \E n \in Nat : sent' = sent + n
    <3>1. CASE sent' = sent
      BY <1>1, <3>1
    <3>2. CASE OnResume
      BY <3>2, ReadWrites
    <3> QED BY <2>4, <3>1, <3>2
  <2> QED BY <2>2, <2>3, <2>5, PutStep
<1> QED BY <1>2, <1>3

\* The listener cancels.
LEMMA CancelImplements == IInv /\ UserCancel => Stream!Next
<1> SUFFICES ASSUME IInv, UserCancel PROVE Stream!Next
  OBVIOUS
<1>1. sub \in Subscriptions
  BY DEF IInv, Types
<1>2. HasListener /\ got' = got /\ sub'.state = "cancelled"
  BY <1>1, Subscribed DEF UserCancel
<1>3. sent' = sent
  BY ReadWrites DEF UserCancel, IInv
<1>4. Closed = "no" /\ Closed' = "cut"
  BY <1>1, <1>2, ClosedValues DEF Closed
<1>5. Stream!Cut
  BY <1>2, <1>3, <1>4 DEF Stream!Cut
<1> QED BY <1>5 DEF Stream!Next

\* The listener is told that the stream is done: it has all elements.
LEMMA DoneImplements == IInv /\ DeliverDone => Stream!Next
<1> SUFFICES ASSUME IInv, DeliverDone PROVE Stream!Next
  OBVIOUS
<1>1. sub \in Subscriptions
  BY DEF IInv, Types
<1>2. HasListener /\ got' = got /\ sub'.state = "done" /\ pending = <<>> /\ doneNext /\ pc = "rest"
  BY <1>1, Subscribed DEF DeliverDone
<1>3. sent' = sent
  BY ReadWrites DEF DeliverDone, IInv
<1>4. Closed = "no" /\ Closed' = "ended"
  BY <1>1, <1>2, ClosedValues DEF Closed
<1>5. Len(got) = sent
  <2>1. event = None
    BY <1>2 DEF IInv, ListenerServed, OneRead
  <2>2. InFlight = 0
    BY <1>2, <2>1, Results DEF InFlight
  <2> QED BY <1>2, <2>2, QueueEmpty, Counts DEF IInv
<1>6. Stream!End
  BY <1>2, <1>3, <1>4, <1>5 DEF Stream!End
<1> QED BY <1>6 DEF Stream!Next

\* The listener gets elements at once.
LEMMA LoopImplements ==
  ASSUME IInv, IInv', NEW n \in 0 .. Capacity, NEW r \in Reactions,
         LoopCompletedSync(n, r) \/ LoopDroppedSync(n, r)
  PROVE  Stream!Next
<1> USE DEF IInv
<1>1. HasListener /\ n \in Nat
  BY CapacityPositive DEF LoopCompletedSync, LoopDroppedSync, CanFire
<1>2. PICK k \in {"completed", "dropped"} :
        /\ pc = "loop" /\ code = Result(k, n) /\ CanFire /\ got' = got \o Chunk(n)
  BY DEF LoopCompletedSync, LoopDroppedSync
<1>3. Len(got) + n = sent /\ Chunk(n) = Following(Len(got), n)
  BY <1>2, LoopReceives
<1>4. got' = got \o Following(Len(got), n)
  BY <1>2, <1>3
<1>5. sent \in Int /\ sent = Len(got) + n
  BY <1>3, Counts
<1>6. CASE LoopCompletedSync(n, r)
  <2>1. sub' = Reacted(r)
    BY <1>6 DEF LoopCompletedSync
  <2>2. sub'.state # "done"
    BY <1>1, <2>1, ReactedTypes
  <2>3. PICK i \in Nat : sent' = sent + i
    BY <1>6, ReadWrites DEF LoopCompletedSync
  <2>4. sent <= sent'
    BY <1>5, <2>3
  <2> QED BY <1>1, <1>4, <1>5, <2>2, <2>3, <2>4, TakeStep
<1>7. CASE LoopDroppedSync(n, r)
  <2>1. sent' = sent + 0 /\ 0 \in Nat
    BY <1>7, ReadWrites DEF LoopDroppedSync
  <2>2. sent <= sent' /\ sent = sent'
    BY <1>5, <2>1
  <2> QED BY <1>1, <1>4, <1>5, <2>1, <2>2, TakeStep
<1> QED BY <1>6, <1>7

\* The listener gets the first queued chunk.
LEMMA DeliverImplements ==
  ASSUME IInv, IInv', NEW r \in Reactions, DeliverChunk(r)
  PROVE  Stream!Next
<1> USE DEF IInv
<1>1. pending # <<>> /\ HasListener /\ got' = got \o Head(pending)
  BY DEF DeliverChunk
<1>2. PICK m \in Nat :
        /\ Head(pending) = Following(Len(got), m) /\ Len(got) + m \in Elements
        /\ \E x \in [0 .. Len(Tail(pending)) -> Elements] :
             /\ Marks(Tail(pending), Len(got) + m, x)
             /\ HasListener => x[Len(Tail(pending))] + InFlight = sent
  BY <1>1, QueueHead
<1>3. PICK l \in Elements : l = Len(got) + m
  BY <1>2
<1>4. PICK p \in Seq(Chunks) : p = Tail(pending)
  BY <1>1, HeadTailProperties DEF Types
<1>5. PICK x \in [0 .. Len(p) -> Elements] : Marks(p, l, x) /\ x[Len(p)] + InFlight = sent
  BY <1>1, <1>2, <1>3, <1>4
<1>6. l <= sent /\ l \in Int
  <2>1. l \in Int /\ x[Len(p)] \in Int /\ l + Len(p) <= x[Len(p)]
    BY <1>5, QueueBounds
  <2>2. PICK z \in Int : z = x[Len(p)]
    BY <2>1
  <2>3. Len(p) \in Nat /\ InFlight \in Nat /\ sent \in Int
    BY Counts, LenProperties
  <2> QED BY <1>5, <2>1, <2>2, <2>3
<1>7. \E n \in Nat : sent' = sent + n
  <2>1. sent = sent + 0 /\ 0 \in Nat
    BY Counts
  <2>2. sent' = sent \/ OnResume \/ OnCancel
    BY DEF DeliverChunk
  <2>3. CASE sent' = sent
    BY <2>1, <2>3
  <2>4. CASE OnResume
    BY <2>4, ReadWrites
  <2>5. CASE OnCancel
    BY <2>1, <2>5, ReadWrites
  <2> QED BY <2>2, <2>3, <2>4, <2>5
<1>8. PICK n \in Nat : sent' = sent + n
  BY <1>7
<1>9. l <= sent'
  BY <1>6, <1>8, Counts
<1>10. sub'.state # "done"
  <2>1. sub \in Subscriptions /\ sub.state = "listening"
    BY <1>1 DEF Types, HasListener
  <2>2. CASE sub' = Reacted(r)
    BY <1>1, <2>2, ReactedTypes
  <2>3. CASE \E y \in BOOLEAN : sub' = [sub EXCEPT !.inputPaused = y]
    BY <2>1, <2>3, Subscribed
  <2>4. PICK y \in BOOLEAN : y = (sub.inputPaused /\ (Len(pending) > 1 \/ doneNext))
    OBVIOUS
  <2>5. sub' = Reacted(r) \/ sub' = [sub EXCEPT !.inputPaused = y]
    BY <2>4 DEF DeliverChunk
  <2> QED BY <2>2, <2>3, <2>5
<1>11. got' = got \o Following(Len(got), m)
  BY <1>1, <1>2
<1> QED BY <1>1, <1>3, <1>6, <1>8, <1>9, <1>10, <1>11, TakeStep

\* Every step is a step of the pipe, or leaves it alone.
LEMMA NextImplements == IInv /\ IInv' /\ [Next]_vars => [Stream!Next]_Stream!vars
<1> SUFFICES ASSUME IInv, IInv', [Next]_vars PROVE [Stream!Next]_Stream!vars
  OBVIOUS
<1>1. CASE UNCHANGED vars
  <2>1. UNCHANGED <<sent, got, Closed>>
    BY <1>1 DEF vars, sdk, Closed
  <2> QED BY <2>1 DEF Stream!vars
<1>2. CASE \/ Listen \/ DispatchEvent
           \/ \E k \in {"completed", "dropped"}, n \in 0 .. Capacity : HostResult(k, n)
  BY <1>2, ReadImplements
<1>3. CASE Loop
  BY <1>3, ReadImplements, LoopImplements DEF Loop
<1>4. CASE UserPause \/ UserResume
  BY <1>4, PauseImplements
<1>5. CASE UserCancel
  BY <1>5, CancelImplements
<1>6. CASE \E r \in Reactions : DeliverChunk(r)
  BY <1>6, DeliverImplements
<1>7. CASE DeliverDone
  BY <1>7, DoneImplements
<1> QED BY <1>1, <1>2, <1>3, <1>4, <1>5, <1>6, <1>7 DEF Next

\* What the listener sees is a pipe, for buffers, elements and streams of any
\* size: all elements in order, each once, and the end after the last.
THEOREM ListenerSeesPipe == Spec => ImplementsPipe
  BY InitImplements, NextImplements, Invariance, PTL DEF Spec, ImplementsPipe, Stream!Spec
=============================================================================
