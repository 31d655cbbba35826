----------------------- MODULE RemoteReporter_proofs -----------------------
(***************************************************************************)
(* Proofs about RemoteReporter for every set of threads and spans, every   *)
(* packet and vector size, and an allocator and a socket that may fail.    *)
(***************************************************************************)
EXTENDS RemoteReporter, SequenceLemmas

\* Capacities are positive, and a vector starts with one of them.
LEMMA CapacityFacts ==
  /\ Capacities \subseteq Nat \ {0}
  /\ InitCapacity \in Capacities
  /\ InitCapacity \in Nat \ {0}
<1>1. \A a, b \in Nat \ {0} : a * b \in Nat \ {0}
  OBVIOUS
<1>2. Capacities \subseteq Nat \ {0}
  BY <1>1, VectorAssumption DEF Capacities
<1>3. PICK k \in 0 .. MaxDoublings : ResizeFactor ^ k = 1
  BY VectorAssumption
<1>4. InitCapacity * ResizeFactor ^ k = InitCapacity
  BY <1>3, VectorAssumption
<1>5. InitCapacity \in Capacities
  BY <1>4 DEF Capacities
<1> QED
  BY <1>2, <1>5, VectorAssumption

\* The loop of jaeger_vector_reserve returns a capacity with room for n
\* elements, and no larger than any other capacity that has it.
LEMMA AlignedFacts ==
  ASSUME NEW n \in Nat, NEW c \in AlignedCapacities(n)
  PROVE  /\ c \in Capacities
         /\ c >= n
         /\ \A d \in Capacities : d >= n => c <= d
BY DEF AlignedCapacities

\* The loop of build_batch stops between 0 and the number of queued spans.
LEMMA RemainingType ==
  ASSUME entries \in Seq(Spans \cup {NULL}), NEW n \in 0 .. Len(entries)
  PROVE  /\ Remaining(n) \in Seq(Spans \cup {NULL})
         /\ Len(Remaining(n)) = Len(entries) - n
         /\ \A i \in 1 .. Len(Remaining(n)) : Remaining(n)[i] = entries[n + i]
BY DEF Remaining

\* p is a prefix of q; the elements of e stand in b behind the first n ones.
Prefix(p, q) == Len(p) <= Len(q) /\ \A i \in 1 .. Len(p) : p[i] = q[i]
Behind(e, b, n) ==
  n + Len(e) <= Len(b) /\ \A i \in 1 .. Len(e) : e[i] = b[n + i]

\* The pieces of a sequence that build_batch makes, or the first one alone.
LEMMA PieceFacts ==
  ASSUME NEW S, NEW b \in Seq(S), NEW n \in 1 .. Len(b)
  PROVE  /\ SubSeq(b, 1, n) \in Seq(S)
         /\ Len(SubSeq(b, 1, n)) = n
         /\ Prefix(SubSeq(b, 1, n), b)
         /\ Behind(SubSeq(b, n + 1, Len(b)), b, n)
         /\ Behind(<<>>, b, n)
<1>1. Prefix(SubSeq(b, 1, n), b)
  BY DEF Prefix
<1>2. Behind(SubSeq(b, n + 1, Len(b)), b, n)
  BY DEF Behind
<1>3. Behind(<<>>, b, n)
  BY DEF Behind
<1> QED
  BY <1>1, <1>2, <1>3

\* Take a sequence b, a prefix x of it, and in e what follows x or nothing:
\* behind any a, the pieces are a prefix of the whole.
LEMMA SplitConcat ==
  ASSUME NEW S, NEW a \in Seq(S), NEW b \in Seq(S),
         NEW x \in Seq(S), NEW e \in Seq(S)
  PROVE  Prefix(x, b) /\ Behind(e, b, Len(x)) => Prefix((a \o x) \o e, a \o b)
<1> DEFINE n == Len(x)
           y == a \o x
           p == y \o e
           q == a \o b
<1>0. y \in Seq(S)
  OBVIOUS
<1>1. Len(y) = Len(a) + Len(x)
  OBVIOUS
<1>2. \A i \in 1 .. Len(y) : y[i] = IF i <= Len(a) THEN a[i] ELSE x[i - Len(a)]
  OBVIOUS
<1>3. Len(q) = Len(a) + Len(b)
  OBVIOUS
<1>4. \A i \in 1 .. Len(q) : q[i] = IF i <= Len(a) THEN a[i] ELSE b[i - Len(a)]
  OBVIOUS
<1> HIDE DEF y
<1>5. Len(p) = Len(y) + Len(e)
  BY <1>0
<1>6. \A i \in 1 .. Len(p) : p[i] = IF i <= Len(y) THEN y[i] ELSE e[i - Len(y)]
  BY <1>0
<1> HIDE DEF p, q
<1>7. n \in Nat /\ Len(a) \in Nat /\ Len(b) \in Nat /\ Len(e) \in Nat
  OBVIOUS
<1>8. SUFFICES ASSUME n + Len(e) <= Len(b),
                      \A i \in 1 .. n : x[i] = b[i],
                      \A i \in 1 .. Len(e) : e[i] = b[n + i]
               PROVE  Len(p) <= Len(q) /\ \A i \in 1 .. Len(p) : p[i] = q[i]
  BY DEF p, q, y, Prefix, Behind
<1>9. Len(p) <= Len(q)
  BY <1>1, <1>3, <1>5, <1>7, <1>8
<1>10. ASSUME NEW i \in 1 .. Len(p)
      PROVE  p[i] = q[i]
  <2>0. i \in Int /\ 1 <= i /\ i <= Len(a) + n + Len(e) /\ i \in 1 .. Len(q)
    BY <1>1, <1>3, <1>5, <1>7, <1>8
  <2>1. CASE i <= Len(a)
    <3>1. i \in 1 .. Len(y) /\ i <= Len(y)
      BY <1>1, <1>7, <1>8, <2>0, <2>1
    <3> QED
      BY <1>2, <1>4, <1>6, <2>0, <2>1, <3>1
  <2>2. CASE ~(i <= Len(a)) /\ i <= Len(a) + n
    <3>1. i - Len(a) \in 1 .. n /\ i \in 1 .. Len(y) /\ i <= Len(y)
      BY <1>1, <1>7, <1>8, <2>0, <2>2
    <3>2. p[i] = x[i - Len(a)] /\ q[i] = b[i - Len(a)]
      BY <1>2, <1>4, <1>6, <2>0, <2>2, <3>1
    <3> QED
      BY <1>8, <3>1, <3>2
  <2>3. CASE ~(i <= Len(a) + n)
    <3>1. /\ i - Len(y) \in 1 .. Len(e) /\ ~(i <= Len(a)) /\ ~(i <= Len(y))
          /\ n + (i - Len(y)) = i - Len(a)
      BY <1>1, <1>7, <1>8, <2>0, <2>3
    <3>2. e[i - Len(y)] = b[n + (i - Len(y))]
      BY <1>8, <3>1
    <3>3. p[i] = e[i - Len(y)] /\ q[i] = b[i - Len(a)]
      BY <1>4, <1>6, <2>0, <3>1
    <3> QED
      BY <3>1, <3>2, <3>3
  <2> QED
    BY <1>7, <2>0, <2>1, <2>2, <2>3
<1> QED
  BY <1>9, <1>10

\* Counting a drop, a success or a failure keeps the counters natural numbers.
LEMMA MetricsFacts ==
  ASSUME NEW m \in Counters, NEW i \in Nat, NEW j \in Nat
  PROVE  /\ [m EXCEPT !.dropped = @ + i] \in Counters
         /\ [m EXCEPT !.success = @ + i, !.dropped = @ + j] \in Counters
         /\ [m EXCEPT !.failure = @ + i, !.dropped = @ + j] \in Counters
<1>1. m.success + i \in Nat /\ m.failure + i \in Nat
  BY DEF Counters
<1>2. m.dropped + i \in Nat /\ m.dropped + j \in Nat
  BY DEF Counters
<1>3. [m EXCEPT !.dropped = @ + i] \in Counters
  BY <1>2 DEF Counters
<1>4. [m EXCEPT !.success = @ + i, !.dropped = @ + j] \in Counters
  BY <1>1, <1>2 DEF Counters
<1>5. [m EXCEPT !.failure = @ + i, !.dropped = @ + j] \in Counters
  BY <1>1, <1>2 DEF Counters
<1> QED
  BY <1>3, <1>4, <1>5

---------------------------------------------------------------------------
\* The initial state of jaeger_remote_reporter_init satisfies the invariant.
LEMMA InitIndInv == Init => IndInv
<1> SUFFICES ASSUME Init PROVE IndInv
  OBVIOUS
<1> USE DEF Init
<1>1. TypeOK
  <2>1. data \in Capacities \cup {0} /\ capacity \in Capacities
    BY CapacityFacts
  <2>2. batch \in [spans : Seq(Spans \cup {NULL}), n : Nat,
                   size : Capacities \cup {0}]
    BY DEF NoBatch
  <2>3. result \in [Threads -> BOOLEAN] /\ process \in BOOLEAN
    OBVIOUS
  <2>4. flushes \in 0 .. MaxFlushes
    BY EnvironmentAssumption
  <2>5. pc \in [Threads -> Locked \cup {"idle", "free"}]
    OBVIOUS
  <2>6. pending \in [Threads -> SUBSET Spans]
    OBVIOUS
  <2>7. metrics \in Counters
    BY DEF Counters
  <2>8. entries \in Seq(Spans \cup {NULL}) /\ sent \in Seq(Spans \cup {NULL})
    OBVIOUS
  <2> QED
    BY <2>1, <2>2, <2>3, <2>4, <2>5, <2>6, <2>7, <2>8 DEF TypeOK
<1>2. MutexInv /\ RoomInv /\ CurInv
  BY DEF MutexInv, RoomInv, CurInv, Locked, ReportSteps, FlushSteps
<1>3. BatchInv /\ ArraySafe
  BY CapacityFacts DEF BatchInv, ArraySafe, NoBatch
<1>4. Pipeline = <<>>
  BY DEF Pipeline, NoBatch
<1>5. TicketInv /\ InOrderOnce
  BY <1>4 DEF TicketInv, InOrderOnce
<1> QED
  BY <1>1, <1>2, <1>3, <1>5 DEF IndInv

---------------------------------------------------------------------------
\* Steps that leave the vector, the batch and the tickets alone.
LEMMA QuietStep ==
  ASSUME IndInv, NEW t \in Threads,
         UNCHANGED <<entries, data, capacity, batch, ticket, accepted, sent>>,
         TypeOK', MutexInv', RoomInv', CurInv',
         pc[t] # "write", pc'[t] # "write",
         \A u \in Threads \ {t} : pc'[u] = pc[u],
         \A s \in Spans : life'[s] = "fresh" => life[s] = "fresh"
  PROVE  IndInv'
<1>1. Pipeline' = Pipeline
  BY DEF Pipeline
<1>2. BatchInv'
  BY DEF IndInv, BatchInv
<1>3. ArraySafe'
  BY DEF IndInv, ArraySafe
<1>4. TicketInv'
  BY <1>1 DEF IndInv, TicketInv
<1>5. InOrderOnce'
  BY <1>1 DEF IndInv, InOrderOnce
<1> QED
  BY <1>2, <1>3, <1>4, <1>5 DEF IndInv

\* An assertion that fails ends the process and touches nothing else.
LEMMA CrashStep == ASSUME IndInv, Crash PROVE IndInv'
<1>1. Pipeline' = Pipeline
  BY DEF Crash, Pipeline, vector, ghosts
<1>2. TypeOK'
  BY DEF IndInv, TypeOK, Crash, vector, ghosts
<1>3. (MutexInv /\ RoomInv /\ BatchInv /\ ArraySafe)'
  BY DEF IndInv, MutexInv, RoomInv, BatchInv, ArraySafe, Crash, vector, ghosts
<1>4. (CurInv /\ TicketInv /\ InOrderOnce)'
  BY <1>1 DEF IndInv, CurInv, TicketInv, InOrderOnce, Crash, vector, ghosts
<1> QED
  BY <1>2, <1>3, <1>4 DEF IndInv

\* remote_reporter_report takes the mutex.
LEMMA ReportLockStep ==
  ASSUME IndInv, NEW t \in Threads, NEW s \in Spans, ReportLock(t, s)
  PROVE  IndInv'
<1> USE DEF ReportLock, vector, ghosts, Goto
<1>1. TypeOK'
  BY DEF IndInv, TypeOK, Locked, ReportSteps
<1>2. MutexInv'
  BY ThreadAssumption DEF IndInv, MutexInv, TypeOK, Locked
<1>3. RoomInv'
  BY DEF IndInv, RoomInv, TypeOK
<1>4. CurInv'
  BY DEF IndInv, CurInv, TicketInv, TypeOK
<1> QED
  BY <1>1, <1>2, <1>3, <1>4, QuietStep DEF IndInv, TypeOK

\* jaeger_vector_reserve finds room in the array it has.
LEMMA ReserveRoomStep ==
  ASSUME IndInv, NEW t \in Threads, ReserveRoom(t)
  PROVE  IndInv'
<1> USE DEF ReserveRoom, vector, ghosts, Goto
<1>1. TypeOK'
  BY DEF IndInv, TypeOK, Locked, ReportSteps, FlushSteps
<1>2. MutexInv'
  BY ThreadAssumption DEF IndInv, MutexInv, TypeOK, Locked, ReportSteps, FlushSteps
<1>3. RoomInv'
  BY CapacityFacts DEF IndInv, RoomInv, TypeOK
<1>4. CurInv'
  BY DEF IndInv, CurInv, TicketInv, TypeOK
<1> QED
  BY <1>1, <1>2, <1>3, <1>4, QuietStep DEF IndInv, TypeOK

\* jaeger_vector_reserve finds no memory and the span is dropped.
LEMMA ReserveFailStep ==
  ASSUME IndInv, NEW t \in Threads, ReserveFail(t)
  PROVE  IndInv'
<1> USE DEF ReserveFail, vector, ghosts, Goto, DropSilently
<1>1. TypeOK'
  BY DEF IndInv, TypeOK, Locked, ReportSteps, FlushSteps
<1>2. MutexInv'
  BY ThreadAssumption DEF IndInv, MutexInv, TypeOK, Locked, ReportSteps, FlushSteps
<1>3. RoomInv'
  BY DEF IndInv, RoomInv, TypeOK
<1>4. CurInv'
  BY DEF IndInv, CurInv, TicketInv, TypeOK
<1> QED
  BY <1>1, <1>2, <1>3, <1>4, QuietStep DEF IndInv, TypeOK

\* The span is converted to its protobuf copy.
LEMMA ConvertStep ==
  ASSUME IndInv, NEW t \in Threads, Convert(t)
  PROVE  IndInv'
<1> USE DEF Convert, vector, ghosts, Goto
<1>1. TypeOK'
  BY DEF IndInv, TypeOK, Locked, ReportSteps, FlushSteps
<1>2. MutexInv'
  BY ThreadAssumption DEF IndInv, MutexInv, TypeOK, Locked, ReportSteps, FlushSteps
<1>3. RoomInv'
  BY DEF IndInv, RoomInv, TypeOK
<1>4. CurInv'
  BY DEF IndInv, CurInv, TicketInv, TypeOK
<1> QED
  BY <1>1, <1>2, <1>3, <1>4, QuietStep DEF IndInv, TypeOK

\* The conversion fails and the span is dropped without a count.
LEMMA ConvertFailStep ==
  ASSUME IndInv, NEW t \in Threads, ConvertFail(t)
  PROVE  IndInv'
<1> USE DEF ConvertFail, vector, ghosts, Goto, DropSilently
<1>1. TypeOK'
  BY DEF IndInv, TypeOK, Locked, ReportSteps, FlushSteps
<1>2. MutexInv'
  BY ThreadAssumption DEF IndInv, MutexInv, TypeOK, Locked, ReportSteps, FlushSteps
<1>3. RoomInv'
  BY DEF IndInv, RoomInv, TypeOK
<1>4. CurInv'
  BY DEF IndInv, CurInv, TicketInv, TypeOK
<1> QED
  BY <1>1, <1>2, <1>3, <1>4, QuietStep DEF IndInv, TypeOK

\* build_process, on the first span, succeeds or fails.
LEMMA BuildProcessStep ==
  ASSUME IndInv, NEW t \in Threads, BuildProcess(t)
  PROVE  IndInv'
<1> USE DEF BuildProcess, vector, ghosts, Goto
<1>1. TypeOK'
  BY DEF IndInv, TypeOK, Locked, ReportSteps, FlushSteps
<1>2. MutexInv'
  BY ThreadAssumption DEF IndInv, MutexInv, TypeOK, Locked, ReportSteps, FlushSteps
<1>3. RoomInv'
  BY DEF IndInv, RoomInv, TypeOK
<1>4. CurInv'
  BY DEF IndInv, CurInv, TicketInv, TypeOK
<1> QED
  BY <1>1, <1>2, <1>3, <1>4, QuietStep DEF IndInv, TypeOK

\* remote_reporter_flush takes the mutex.
LEMMA FlushLockStep ==
  ASSUME IndInv, NEW t \in Threads, FlushLock(t)
  PROVE  IndInv'
<1> USE DEF FlushLock, vector, ghosts, Goto, Range
<1>1. TypeOK'
  BY SpanAssumption, EnvironmentAssumption DEF IndInv, TypeOK, Locked, ReportSteps, FlushSteps
<1>2. MutexInv'
  BY ThreadAssumption DEF IndInv, MutexInv, TypeOK, Locked, ReportSteps, FlushSteps
<1>3. RoomInv'
  BY DEF IndInv, RoomInv, TypeOK
<1>4. CurInv'
  BY DEF IndInv, CurInv, TicketInv, TypeOK
<1> QED
  BY <1>1, <1>2, <1>3, <1>4, QuietStep DEF IndInv, TypeOK

\* The loop of flush ends with an empty queue.
LEMMA FlushDoneStep ==
  ASSUME IndInv, NEW t \in Threads, FlushDone(t)
  PROVE  IndInv'
<1> USE DEF FlushDone, vector, ghosts, Goto
<1>1. TypeOK'
  BY DEF IndInv, TypeOK, Locked, ReportSteps, FlushSteps
<1>2. MutexInv'
  BY ThreadAssumption DEF IndInv, MutexInv, TypeOK, Locked, ReportSteps, FlushSteps
<1>3. RoomInv'
  BY DEF IndInv, RoomInv, TypeOK
<1>4. CurInv'
  BY DEF IndInv, CurInv, TicketInv, TypeOK
<1> QED
  BY <1>1, <1>2, <1>3, <1>4, QuietStep DEF IndInv, TypeOK

\* A thread gives the mutex back.
LEMMA UnlockStep ==
  ASSUME IndInv, NEW t \in Threads, Unlock(t)
  PROVE  IndInv'
<1> USE DEF Unlock, vector, ghosts, Goto
<1>1. TypeOK'
  BY DEF IndInv, TypeOK, Locked, ReportSteps, FlushSteps
<1>2. MutexInv'
  BY ThreadAssumption DEF IndInv, MutexInv, TypeOK, Locked, ReportSteps, FlushSteps
<1>3. RoomInv'
  BY DEF IndInv, RoomInv, TypeOK
<1>4. CurInv'
  BY DEF IndInv, CurInv, TicketInv, TypeOK
<1> QED
  BY <1>1, <1>2, <1>3, <1>4, QuietStep DEF IndInv, TypeOK

\* remote_reporter_destroy begins with a flush.
LEMMA DestroyFlushStep ==
  ASSUME IndInv, NEW t \in Threads, DestroyFlush(t)
  PROVE  IndInv'
<1> USE DEF DestroyFlush, vector, ghosts, Goto, Range
<1>1. TypeOK'
  BY SpanAssumption DEF IndInv, TypeOK, Locked, ReportSteps, FlushSteps
<1>2. MutexInv'
  BY ThreadAssumption DEF IndInv, MutexInv, TypeOK, Locked, ReportSteps, FlushSteps
<1>3. RoomInv'
  BY DEF IndInv, RoomInv, TypeOK
<1>4. CurInv'
  BY DEF IndInv, CurInv, TicketInv, TypeOK
<1> QED
  BY <1>1, <1>2, <1>3, <1>4, QuietStep DEF IndInv, TypeOK

---------------------------------------------------------------------------
(* Steps that move spans *)

\* jaeger_vector_reserve may clear entries, but it makes the room it promises.
LEMMA ReserveGrowStep ==
  ASSUME IndInv, NEW t \in Threads, ReserveGrow(t)
  PROVE  IndInv'
<1> USE DEF ReserveGrow, vector, ghosts, Goto
<1>a. Len(entries) + 1 \in Nat
  BY DEF IndInv, TypeOK
<1>0. PICK c \in AlignedCapacities(Len(entries) + 1) : capacity' = c /\ data' = c
  OBVIOUS
<1>1. c \in Capacities /\ c >= Len(entries) + 1 /\ c \in Nat
  BY <1>a, AlignedFacts, CapacityFacts
<1>2. /\ entries' \in Seq(Spans \cup {NULL})
      /\ Len(entries') = Len(entries)
      /\ \A i \in 1 .. Len(entries) : entries'[i] \in {entries[i], NULL}
  BY DEF IndInv, TypeOK, ClearFrom
<1>3. batch = NoBatch
  BY DEF IndInv, BatchInv, MutexInv, TypeOK, Locked, ReportSteps, FlushSteps
<1>4. TypeOK'
  BY <1>0, <1>1, <1>2 DEF IndInv, TypeOK, Locked, ReportSteps
<1>5. MutexInv' /\ CurInv'
  BY DEF IndInv, MutexInv, CurInv, TypeOK, Locked, ReportSteps
<1>6. RoomInv'
  BY <1>0, <1>1, <1>2 DEF IndInv, RoomInv, MutexInv, TypeOK, Locked, ReportSteps
<1>7. BatchInv'
  BY <1>3 DEF IndInv, BatchInv, MutexInv, TypeOK, Locked, FlushSteps, ReportSteps
<1>8. ArraySafe'
  BY <1>0, <1>1, <1>2, <1>3 DEF IndInv, ArraySafe, NoBatch
<1>9. Pipeline = sent \o entries /\ Pipeline' = sent \o entries'
  BY <1>3 DEF Pipeline, NoBatch
<1>10. /\ Len(Pipeline') = Len(Pipeline)
       /\ \A i \in 1 .. Len(Pipeline) : Pipeline'[i] \in {Pipeline[i], NULL}
  <2> DEFINE S == Spans \cup {NULL}
  <2>1. sent \in Seq(S) /\ entries \in Seq(S) /\ entries' \in Seq(S)
    BY <1>2 DEF IndInv, TypeOK
  <2> HIDE DEF S
  <2>2. Len(Pipeline') = Len(Pipeline)
    <3>1. Len(sent \o entries) = Len(sent) + Len(entries)
      BY <2>1
    <3>2. Len(sent \o entries') = Len(sent) + Len(entries')
      BY <2>1
    <3> QED
      BY <1>2, <1>9, <3>1, <3>2
  <2>3. ASSUME NEW i \in 1 .. Len(Pipeline)
        PROVE  Pipeline'[i] \in {Pipeline[i], NULL}
    <3>1. CASE i \in 1 .. Len(sent)
      BY <1>9, <2>1, <3>1, ConcatFacts
    <3>2. CASE i \notin 1 .. Len(sent)
      <4>1. PICK k \in 1 .. Len(entries) : i = Len(sent) + k
        <5>1. Len(Pipeline) = Len(sent) + Len(entries)
          BY <1>9, <2>1
        <5>2. Len(sent) \in Nat /\ Len(entries) \in Nat /\ i \in Nat
          BY <2>1, <5>1
        <5>3. i - Len(sent) \in 1 .. Len(entries) /\ i = Len(sent) + (i - Len(sent))
          BY <3>2, <5>1, <5>2
        <5> QED
          BY <5>3
      <4>2. Pipeline[i] = entries[k] /\ Pipeline'[i] = entries'[k]
        BY <1>2, <1>9, <2>1, <4>1, ConcatFacts
      <4> QED
        BY <1>2, <4>2
    <3> QED
      BY <3>1, <3>2
  <2> QED
    BY <2>2, <2>3
<1>11. TicketInv'
  BY <1>10 DEF IndInv, TicketInv, TypeOK
<1>12. InOrderOnce'
  BY <1>10 DEF IndInv, InOrderOnce
<1> QED
  BY <1>4, <1>5, <1>6, <1>7, <1>8, <1>11, <1>12 DEF IndInv

\* The array append finds is the one reserve made room in, and the new span
\* takes a ticket behind all others.
LEMMA AppendSpanStep ==
  ASSUME IndInv, NEW t \in Threads, AppendSpan(t)
  PROVE  IndInv'
<1> USE DEF AppendSpan, Goto
<1>1. batch = NoBatch
  BY DEF IndInv, BatchInv, MutexInv, TypeOK, Locked, ReportSteps, FlushSteps
<1>2. cur[t] \in Spans /\ ticket[cur[t]] = 0 /\ life[cur[t]] # "fresh"
  BY DEF IndInv, CurInv
<1>3. /\ capacity \in Nat /\ data \in Nat
      /\ Len(entries) < capacity /\ capacity <= data
  BY CapacityFacts DEF IndInv, TypeOK, RoomInv, ArraySafe
<1>4. TypeOK'
  <2>1. entries' \in Seq(Spans \cup {NULL}) /\ accepted' \in Nat
    BY <1>2 DEF IndInv, TypeOK
  <2>2. ticket' \in [Spans -> Nat]
    BY <1>2 DEF IndInv, TypeOK
  <2>3. metrics' \in Counters
    BY MetricsFacts DEF IndInv, TypeOK
  <2>4. pc' \in [Threads -> Locked \cup {"idle", "free"}]
    BY DEF IndInv, TypeOK, Locked, ReportSteps
  <2> QED
    BY <2>1, <2>2, <2>3, <2>4 DEF IndInv, TypeOK
<1>5. MutexInv'
  BY DEF IndInv, MutexInv, TypeOK, Locked, ReportSteps
<1>6. RoomInv' /\ CurInv'
  BY DEF IndInv, RoomInv, CurInv, MutexInv, TypeOK, Locked, ReportSteps
<1>7. BatchInv'
  BY <1>1 DEF IndInv, BatchInv, MutexInv, TypeOK, Locked, FlushSteps, ReportSteps
<1>8. ArraySafe'
  BY <1>1, <1>3 DEF IndInv, ArraySafe, NoBatch, TypeOK
<1>9. /\ Pipeline \in Seq(Spans \cup {NULL})
      /\ Pipeline' = Append(Pipeline, cur[t])
  BY <1>1, <1>2 DEF IndInv, TypeOK, Pipeline, NoBatch
<1>10. /\ \A s \in Spans : s # cur[t] => ticket'[s] = ticket[s]
       /\ ticket'[cur[t]] = accepted + 1
  BY <1>2 DEF IndInv, TypeOK
<1>11. \A i \in 1 .. Len(Pipeline) :
         /\ Pipeline'[i] = Pipeline[i]
         /\ Pipeline[i] # NULL =>
              /\ Pipeline[i] \in Spans
              /\ ticket'[Pipeline[i]] = ticket[Pipeline[i]]
              /\ ticket[Pipeline[i]] > 0
              /\ ticket[Pipeline[i]] <= accepted
  BY <1>2, <1>9, <1>10 DEF IndInv, TicketInv
<1>12. /\ Len(Pipeline') = Len(Pipeline) + 1 /\ Len(Pipeline) \in Nat
       /\ Pipeline'[Len(Pipeline) + 1] = cur[t]
  BY <1>9
<1>13. TicketInv'
  <2>1. accepted \in Nat /\ accepted' = accepted + 1
    BY DEF IndInv, TypeOK
  <2>2. \A s \in Spans : ticket'[s] <= accepted'
    BY <1>10, <2>1 DEF IndInv, TicketInv, TypeOK
  <2>3. \A s \in Spans : life'[s] = "fresh" => ticket'[s] = 0
    BY <1>2, <1>10 DEF IndInv, TicketInv
  <2>4. \A i \in 1 .. Len(Pipeline') :
          Pipeline'[i] # NULL => ticket'[Pipeline'[i]] > 0
    BY <1>10, <1>11, <1>12, <2>1
  <2> QED
    BY <2>2, <2>3, <2>4 DEF TicketInv
<1>14. InOrderOnce'
  <2> SUFFICES ASSUME NEW i \in 1 .. Len(Pipeline'), NEW j \in 1 .. Len(Pipeline'),
                      i < j, Pipeline'[i] # NULL, Pipeline'[j] # NULL
               PROVE  ticket'[Pipeline'[i]] < ticket'[Pipeline'[j]]
    BY DEF InOrderOnce
  <2>1. i \in 1 .. Len(Pipeline)
    BY <1>12
  <2>2. CASE j \in 1 .. Len(Pipeline)
    BY <1>11, <2>1, <2>2 DEF IndInv, InOrderOnce
  <2>3. CASE j = Len(Pipeline) + 1
    <3>1. /\ ticket'[Pipeline'[i]] <= accepted
          /\ ticket'[Pipeline'[j]] = accepted + 1
      BY <1>10, <1>11, <1>12, <2>1, <2>3
    <3>2. Pipeline'[i] \in Spans /\ ticket'[Pipeline'[i]] \in Nat
      BY <1>4, <1>11, <2>1 DEF TypeOK
    <3> QED
      BY <3>1, <3>2 DEF IndInv, TypeOK
  <2> QED
    BY <1>12, <2>2, <2>3
<1> QED
  BY <1>4, <1>5, <1>6, <1>7, <1>8, <1>13, <1>14 DEF IndInv

\* Losing spans from the pipeline disturbs neither tickets nor order: if every
\* remaining span stood in the pipeline before, in the same order, all is well.
LEMMA SubPipeline ==
  ASSUME IndInv, ticket' = ticket, accepted' = accepted,
         \A s \in Spans : life'[s] = "fresh" => life[s] = "fresh",
         NEW f \in [1 .. Len(Pipeline') -> 1 .. Len(Pipeline)],
         \A i, j \in 1 .. Len(Pipeline') : i < j => f[i] < f[j],
         \A i \in 1 .. Len(Pipeline') : Pipeline'[i] = Pipeline[f[i]]
  PROVE  TicketInv' /\ InOrderOnce'
<1>1. TicketInv'
  BY DEF IndInv, TicketInv
<1>2. InOrderOnce'
  BY DEF IndInv, InOrderOnce
<1> QED
  BY <1>1, <1>2

\* While a thread is in the loop of flush no batch is in flight.
LEMMA LoopFacts ==
  ASSUME IndInv, NEW t \in Threads, pc[t] = "loop"
  PROVE  /\ batch = NoBatch
         /\ mutex = t
         /\ \A u \in Threads \ {t} : pc[u] \notin Locked
         /\ Pipeline = sent \o entries
<1>1. mutex = t /\ \A u \in Threads \ {t} : pc[u] \notin Locked
  BY DEF IndInv, MutexInv, Locked, FlushSteps
<1>2. batch = NoBatch
  BY <1>1 DEF IndInv, BatchInv, Locked, FlushSteps
<1> QED
  BY <1>1, <1>2 DEF Pipeline, NoBatch

\* large_batch_error puts the array back and removes the first span.
LEMMA LargeBatchErrorStep ==
  ASSUME IndInv, NEW t \in Threads, LargeBatchError(t)
  PROVE  IndInv'
<1> USE DEF LargeBatchError, Goto, ghosts
<1> DEFINE S == Spans \cup {NULL}
<1>1. /\ batch = NoBatch /\ mutex = t
      /\ \A u \in Threads \ {t} : pc[u] \notin Locked
      /\ Pipeline = sent \o entries
  BY LoopFacts
<1>2. /\ entries \in Seq(S) /\ sent \in Seq(S) /\ entries' \in Seq(S)
      /\ Len(entries') = Len(entries) - 1
      /\ \A i \in 1 .. Len(entries') : entries'[i] = entries[i + 1]
  BY DEF IndInv, TypeOK
<1>3. TypeOK'
  <2>1. life' \in [Spans -> {"fresh", "reporting", "lost", "live", "freed"}]
    BY DEF IndInv, TypeOK, Freed
  <2>2. metrics' \in Counters
    BY MetricsFacts DEF IndInv, TypeOK
  <2>3. pc' \in [Threads -> Locked \cup {"idle", "free"}]
    BY DEF IndInv, TypeOK, Locked
  <2> QED
    BY <1>2, <2>1, <2>2, <2>3 DEF IndInv, TypeOK
<1>4. MutexInv' /\ RoomInv' /\ CurInv'
  BY <1>1 DEF IndInv, MutexInv, RoomInv, CurInv, TypeOK, Locked, ReportSteps, FlushSteps
<1>5. BatchInv' /\ ArraySafe'
  BY <1>1, <1>2, CapacityFacts
  DEF IndInv, BatchInv, ArraySafe, NoBatch, TypeOK, Locked, FlushSteps
<1>6. Pipeline' = sent \o entries'
  BY <1>1 DEF Pipeline, NoBatch
<1> HIDE DEF S
<1> DEFINE f == [i \in 1 .. Len(Pipeline') |->
                   IF i <= Len(sent) THEN i ELSE i + 1]
<1>7. /\ Len(Pipeline') = Len(sent) + Len(entries) - 1
      /\ Len(Pipeline) = Len(sent) + Len(entries)
      /\ Len(sent) \in Nat /\ Len(entries) \in Nat
  BY <1>1, <1>2, <1>6, ConcatFacts
<1>8. \A i \in 1 .. Len(Pipeline') : Pipeline'[i] = Pipeline[f[i]]
  <2> SUFFICES ASSUME NEW i \in 1 .. Len(Pipeline')
               PROVE  Pipeline'[i] = Pipeline[f[i]]
    OBVIOUS
  <2>1. CASE i <= Len(sent)
    BY <1>1, <1>2, <1>6, <2>1, ConcatFacts
  <2>2. CASE ~(i <= Len(sent))
    <3> DEFINE k == i - Len(sent)
    <3>1. /\ k \in 1 .. Len(entries') /\ i = Len(sent) + k
          /\ k + 1 \in 1 .. Len(entries)
      <4>1. i \in Int /\ i <= Len(sent) + Len(entries) - 1 /\ i > Len(sent)
        BY <1>7, <2>2
      <4>2. Len(entries') = Len(entries) - 1
        BY <1>2
      <4> QED
        BY <1>7, <4>1, <4>2
    <3> HIDE DEF k
    <3>2. Pipeline'[i] = entries'[k]
      BY <1>2, <1>6, <3>1, ConcatFacts
    <3>4. Pipeline[Len(sent) + (k + 1)] = entries[k + 1]
      BY <1>1, <1>2, <3>1, ConcatFacts
    <3>3. f[i] = Len(sent) + (k + 1)
      BY <1>2, <2>2, <3>1
    <3> QED
      BY <1>2, <3>1, <3>2, <3>3, <3>4
  <2> QED
    BY <2>1, <2>2
<1>9. TicketInv' /\ InOrderOnce'
  <2>1. f \in [1 .. Len(Pipeline') -> 1 .. Len(Pipeline)]
    BY <1>2, <1>7
  <2>2. \A i, j \in 1 .. Len(Pipeline') : i < j => f[i] < f[j]
    BY <1>2, <1>7
  <2>3. \A s \in Spans : life'[s] = "fresh" => life[s] = "fresh"
    BY DEF Freed
  <2> HIDE DEF f
  <2> QED
    BY <1>8, <2>1, <2>2, <2>3, SubPipeline
<1> QED
  BY <1>3, <1>4, <1>5, <1>9 DEF IndInv

\* Moving the array into a batch: the pipeline does not change as long as the
\* queue holds what stands behind the batch, or nothing.
LEMMA TakeStep ==
  ASSUME IndInv, NEW t \in Threads, NEW n \in 1 .. Len(entries),
         pc[t] = "loop", Goto(t, "write"), TakeArray(n), TypeOK',
         UNCHANGED <<mutex, cur, sent, ticket, accepted>>,
         \A s \in Spans : life'[s] = "fresh" => life[s] = "fresh",
         capacity' <= data,
         entries' = <<>> \/ entries' = SubSeq(entries, n + 1, Len(entries)),
         Len(entries') <= data',
         data' # 0 => capacity' <= data'
  PROVE  IndInv'
<1>1. /\ batch = NoBatch /\ mutex = t
      /\ \A u \in Threads \ {t} : pc[u] \notin Locked
      /\ Pipeline = sent \o entries
  BY LoopFacts
<1>2. batch'.spans = entries /\ batch'.n = n /\ batch'.size = data
  BY DEF TakeArray
<1>3. MutexInv' /\ RoomInv' /\ CurInv'
  BY <1>1, SMTT(30) DEF IndInv, MutexInv, RoomInv, CurInv, TypeOK, Goto, Locked, ReportSteps, FlushSteps
<1>4. pc'[t] = "write"
  BY DEF Goto, IndInv, TypeOK
<1>5. BatchInv'
  BY <1>2, <1>4 DEF BatchInv
<1>6. ArraySafe'
  BY <1>2 DEF IndInv, ArraySafe
<1>7. Pipeline' = Pipeline
  <2>1. batch'.n > 0 /\ batch'.spans = entries /\ sent' = sent
    BY <1>2
  <2>2. Pipeline' = sent \o entries
    BY <2>1 DEF Pipeline
  <2> QED
    BY <2>2, <1>1
<1>8. TicketInv' /\ InOrderOnce'
  BY <1>7 DEF IndInv, TicketInv, InOrderOnce
<1> QED
  BY <1>3, <1>5, <1>6, <1>8 DEF IndInv

\* build_batch when everything fits.
LEMMA BatchAllStep ==
  ASSUME IndInv, NEW t \in Threads, BatchAll(t)
  PROVE  IndInv'
<1> USE DEF BatchAll, ghosts
<1>1. /\ Len(entries) \in 1 .. Len(entries)
      /\ data # 0 /\ data \in Nat /\ capacity <= data
  BY CapacityFacts DEF IndInv, TypeOK, ArraySafe
<1>2. batch' \in [spans : Seq(Spans \cup {NULL}), n : Nat,
                  size : Capacities \cup {0}]
  BY DEF IndInv, TypeOK, TakeArray
<1>3. TypeOK'
  BY <1>2 DEF IndInv, TypeOK, Goto, CapacityAfterTake, Locked, FlushSteps
<1> QED
  BY <1>1, <1>3, TakeStep DEF CapacityAfterTake

\* build_batch when some spans remain: their new array is no larger than the
\* one the batch took, so a failed write may put that one back.
LEMMA BatchSplitStep ==
  ASSUME IndInv, NEW t \in Threads, BatchSplit(t)
  PROVE  IndInv'
<1> DEFINE n == FittingPrefix(entries)
<1>0. Splits(t, n) /\ entries' = Remaining(n)
  BY DEF BatchSplit
<1> USE DEF Splits, ghosts
<1>1. /\ n \in 1 .. Len(entries)
      /\ Remaining(n) \in Seq(Spans \cup {NULL})
      /\ Len(Remaining(n)) = Len(entries) - n
      /\ Len(entries) \in Nat
  <2>1. entries \in Seq(Spans \cup {NULL}) /\ Len(entries) \in Nat
    BY DEF IndInv, TypeOK
  <2>2. n \in 1 .. (Len(entries) - 1)
    BY <1>0
  <2>3. n \in 0 .. Len(entries) /\ n \in 1 .. Len(entries)
    BY <2>1, <2>2
  <2> HIDE DEF n
  <2> QED
    BY <2>1, <2>2, <2>3, RemainingType
<1>2. data # 0 /\ data \in Capacities /\ data \in Nat /\ Len(entries) <= data
  BY <1>1, CapacityFacts DEF IndInv, TypeOK, ArraySafe
<1>3. PICK c \in AlignedCapacities(Len(Remaining(n))) : capacity' = c /\ data' = c
  BY DEF BatchSplit
<1> HIDE DEF n
<1>4. c \in Capacities /\ c \in Nat /\ c >= Len(entries') /\ c <= data
  <2>1. Len(Remaining(n)) \in Nat /\ Len(Remaining(n)) <= data
    BY <1>1, <1>2
  <2>2. c \in Capacities /\ c >= Len(Remaining(n)) /\ c <= data
    BY <1>2, <1>3, <2>1, AlignedFacts
  <2> QED
    BY <1>0, <2>2, CapacityFacts
<1>5. batch' \in [spans : Seq(Spans \cup {NULL}), n : Nat,
                  size : Capacities \cup {0}]
  BY <1>0, <1>1 DEF IndInv, TypeOK, TakeArray
<1>6. UNCHANGED <<mutex, cur, addr, process, metrics, status, result, life,
                  ticket, accepted, sent, pending, flushes, faults>>
  BY DEF BatchSplit
<1>7. TypeOK'
  <2>1. pc' \in [Threads -> Locked \cup {"idle", "free"}]
    BY <1>0 DEF IndInv, TypeOK, Goto, Locked, FlushSteps
  <2> QED
    BY <1>0, <1>1, <1>3, <1>4, <1>5, <1>6, <2>1 DEF IndInv, TypeOK
<1> QED
  BY <1>0, <1>1, <1>3, <1>4, <1>6, <1>7, TakeStep DEF Remaining

\* build_batch when the remaining spans find no memory.
LEMMA BatchSplitFailStep ==
  ASSUME IndInv, NEW t \in Threads, BatchSplitFail(t)
  PROVE  IndInv'
<1> DEFINE n == FittingPrefix(entries)
<1>0. Splits(t, n) /\ entries' = <<>>
  BY DEF BatchSplitFail
<1> USE DEF Splits, ghosts
<1>1. /\ n \in 1 .. Len(entries)
      /\ Len(Remaining(n)) = Len(entries) - n
      /\ Len(entries) \in Nat /\ Len(Remaining(n)) \in Nat
      /\ Len(Remaining(n)) <= Len(entries)
  <2>1. entries \in Seq(Spans \cup {NULL}) /\ Len(entries) \in Nat
    BY DEF IndInv, TypeOK
  <2>2. n \in 1 .. (Len(entries) - 1)
    BY <1>0
  <2>3. n \in 0 .. Len(entries) /\ n \in 1 .. Len(entries)
    BY <2>1, <2>2
  <2> HIDE DEF n
  <2> QED
    BY <2>1, <2>2, <2>3, RemainingType
<1>2. /\ data # 0 /\ data \in Capacities /\ data \in Nat
      /\ Len(entries) <= data /\ capacity <= data
  BY <1>1, CapacityFacts DEF IndInv, TypeOK, ArraySafe
<1>3. \/ data' = 0 /\ capacity' = capacity
      \/ /\ Len(Remaining(n)) > InitCapacity
         /\ data' = InitCapacity
         /\ capacity' = InitCapacity
  BY DEF BatchSplitFail, CapacityAfterTake
<1>4. UNCHANGED <<mutex, cur, addr, process, status, result, ticket, accepted,
                  sent, pending, flushes, faults>>
  BY DEF BatchSplitFail
<1>5. life' = Freed(Range(Remaining(n)))
      /\ metrics' = [metrics EXCEPT !.dropped = @ + Len(Remaining(n))]
  BY DEF BatchSplitFail
<1> HIDE DEF n
<1>6. capacity' <= data /\ (data' # 0 => capacity' <= data') /\ 0 <= data'
  BY <1>1, <1>2, <1>3, CapacityFacts
<1>7. TypeOK'
  <2>1. batch' \in [spans : Seq(Spans \cup {NULL}), n : Nat,
                    size : Capacities \cup {0}]
    BY <1>0, <1>1 DEF IndInv, TypeOK, TakeArray
  <2>2. life' \in [Spans -> {"fresh", "reporting", "lost", "live", "freed"}]
    BY <1>5 DEF IndInv, TypeOK, Freed
  <2>3. metrics' \in Counters
    BY <1>1, <1>5, MetricsFacts DEF IndInv, TypeOK
  <2>4. pc' \in [Threads -> Locked \cup {"idle", "free"}]
    BY <1>0 DEF IndInv, TypeOK, Goto, Locked, FlushSteps
  <2>5. entries' \in Seq(Spans \cup {NULL})
    BY <1>0
  <2> QED
    BY <1>3, <1>4, <2>1, <2>2, <2>3, <2>4, <2>5, CapacityFacts DEF IndInv, TypeOK
<1>8. \A s \in Spans : life'[s] = "fresh" => life[s] = "fresh"
  BY <1>5 DEF Freed
<1>9. Len(entries') <= data'
  BY <1>0, <1>6
<1> QED
  BY <1>0, <1>1, <1>4, <1>6, <1>7, <1>8, <1>9, TakeStep

\* What is known while a packet is written.
LEMMA WriteFacts ==
  ASSUME IndInv, NEW t \in Threads, pc[t] = "write"
  PROVE  /\ mutex = t
         /\ \A u \in Threads \ {t} : pc[u] \notin Locked
         /\ batch.spans \in Seq(Spans \cup {NULL})
         /\ batch.n \in 1 .. Len(batch.spans)
         /\ Len(batch.spans) <= batch.size
         /\ batch.size \in Capacities /\ batch.size \in Nat
         /\ capacity <= batch.size
         /\ \/ entries = <<>>
            \/ entries = SubSeq(batch.spans, batch.n + 1, Len(batch.spans))
         /\ Pipeline = sent \o batch.spans
<1>1. mutex = t /\ \A u \in Threads \ {t} : pc[u] \notin Locked
  BY DEF IndInv, MutexInv, Locked, FlushSteps
<1>2. /\ 0 < batch.n
      /\ capacity <= batch.size
      /\ \/ entries = <<>>
         \/ entries = SubSeq(batch.spans, batch.n + 1, Len(batch.spans))
  BY DEF IndInv, BatchInv
<1>3. /\ batch.spans \in Seq(Spans \cup {NULL})
      /\ batch.n \in Nat /\ batch.size \in Capacities \cup {0}
  BY DEF IndInv, TypeOK
<1>4. batch.n <= Len(batch.spans) /\ Len(batch.spans) <= batch.size
  BY DEF IndInv, ArraySafe
<1>5. batch.size \in Capacities /\ batch.size \in Nat
  <2>1. batch.size \in Nat
    <3>1. \A c \in Capacities \cup {0} : c \in Nat
      BY CapacityFacts
    <3> QED
      BY <1>3, <3>1
  <2>2. batch.size # 0
    <3>1. Len(batch.spans) \in Nat
      BY <1>3
    <3> QED
      BY <1>2, <1>3, <1>4, <2>1, <3>1
  <2> QED
    BY <1>3, <2>1, <2>2
<1>6. Pipeline = sent \o batch.spans
  BY <1>2 DEF Pipeline
<1> QED
  BY <1>1, <1>2, <1>3, <1>4, <1>5, <1>6

\* The failed write of flush_batch: array and length come back together, and
\* the capacity kept from the other array is not too large for this one.
LEMMA FlushBatchFailStep ==
  ASSUME IndInv, NEW t \in Threads, FlushBatchFail(t)
  PROVE  IndInv'
<1> USE DEF FlushBatchFail, ghosts, Goto, Restored, RestoredSize
<1>1. /\ mutex = t
      /\ \A u \in Threads \ {t} : pc[u] \notin Locked
      /\ batch.spans \in Seq(Spans \cup {NULL})
      /\ Len(batch.spans) <= batch.size
      /\ batch.size \in Capacities /\ capacity <= batch.size
      /\ Pipeline = sent \o batch.spans
  BY WriteFacts
<1>2. TypeOK'
  <2>1. metrics' \in Counters
    BY MetricsFacts DEF IndInv, TypeOK
  <2>2. pc' \in [Threads -> Locked \cup {"idle", "free"}]
    BY DEF IndInv, TypeOK, Locked
  <2>3. batch' \in [spans : Seq(Spans \cup {NULL}), n : Nat,
                    size : Capacities \cup {0}]
    BY DEF NoBatch
  <2>4. addr' \in {"candidates", "known", "zero"}
    BY DEF IndInv, TypeOK, WriteFails
  <2> QED
    BY <1>1, <2>1, <2>2, <2>3, <2>4 DEF IndInv, TypeOK
<1>3. MutexInv' /\ RoomInv' /\ CurInv'
  BY <1>1 DEF IndInv, MutexInv, RoomInv, CurInv, TypeOK, Locked, ReportSteps, FlushSteps
<1>4. BatchInv'
  BY <1>1 DEF IndInv, BatchInv, TypeOK, Locked, FlushSteps
<1>5. ArraySafe'
  BY <1>1 DEF ArraySafe, NoBatch
<1>6. Pipeline' = Pipeline
  BY <1>1 DEF Pipeline, NoBatch
<1>7. TicketInv' /\ InOrderOnce'
  BY <1>6 DEF IndInv, TicketInv, InOrderOnce
<1> QED
  BY <1>2, <1>3, <1>4, <1>5, <1>7 DEF IndInv

\* The successful write: the spans of the packet move to the sent ones and
\* the queue goes on right behind them, or is empty.
LEMMA FlushBatchOkStep ==
  ASSUME IndInv, NEW t \in Threads, FlushBatchOk(t)
  PROVE  IndInv'
<1> DEFINE S == Spans \cup {NULL}
<1>0. /\ pc[t] = "write" /\ pc' = [pc EXCEPT ![t] = "loop"]
      /\ sent' = sent \o Flushed /\ batch' = NoBatch
      /\ life' = Freed(Range(Flushed))
      /\ metrics' = [metrics EXCEPT !.success = @ + batch.n, !.dropped = @ + 1]
      /\ addr' = "known"
      /\ UNCHANGED <<mutex, cur, entries, data, capacity, process, status,
                     result, ticket, accepted, pending, flushes, faults>>
  BY DEF FlushBatchOk, vector, Goto, NumFlushed, WriteSucceeds
<1> HIDE DEF FlushBatchOk
<1>1. /\ mutex = t
      /\ \A u \in Threads \ {t} : pc[u] \notin Locked
  BY <1>0, WriteFacts
<1>2. batch.spans \in Seq(S) /\ batch.n \in 1 .. Len(batch.spans)
  BY <1>0, WriteFacts
<1>3. sent \in Seq(S) /\ entries \in Seq(S)
  BY DEF IndInv, TypeOK
<1>4. Flushed \in Seq(S)
  BY <1>2 DEF Flushed
<1>5. TypeOK'
  <2>1. metrics' \in Counters
    BY <1>0, <1>2, MetricsFacts DEF IndInv, TypeOK
  <2>2. pc' \in [Threads -> Locked \cup {"idle", "free"}]
    BY <1>0 DEF IndInv, TypeOK, Locked, FlushSteps
  <2>3. batch' \in [spans : Seq(S), n : Nat, size : Capacities \cup {0}]
    BY <1>0 DEF NoBatch
  <2>4. life' \in [Spans -> {"fresh", "reporting", "lost", "live", "freed"}]
    BY <1>0 DEF IndInv, TypeOK, Freed
  <2>5. sent' \in Seq(S)
    BY <1>0, <1>3, <1>4, ConcatFacts
  <2> QED
    BY <1>0, <2>1, <2>2, <2>3, <2>4, <2>5 DEF IndInv, TypeOK
<1>6. MutexInv' /\ RoomInv' /\ CurInv'
  BY <1>0, <1>1
  DEF IndInv, MutexInv, RoomInv, CurInv, TypeOK, Locked, ReportSteps, FlushSteps
<1>7. BatchInv'
  BY <1>0, <1>1 DEF IndInv, BatchInv, TypeOK, Locked, FlushSteps
<1>8. ArraySafe'
  BY <1>0, CapacityFacts DEF IndInv, TypeOK, ArraySafe, NoBatch
<1>9. /\ Len(Pipeline') \in Nat /\ Len(Pipeline) \in Nat
      /\ Len(Pipeline') <= Len(Pipeline)
      /\ \A i \in 1 .. Len(Pipeline') : Pipeline'[i] = Pipeline[i]
  <2>1. Pipeline' = (sent \o Flushed) \o entries /\ Pipeline = sent \o batch.spans
    BY <1>0, WriteFacts DEF Pipeline, NoBatch
  <2>2. Len(Flushed) = batch.n /\ Prefix(Flushed, batch.spans)
    BY <1>2, PieceFacts, Zenon DEF Flushed
  <2>3. Behind(entries, batch.spans, batch.n)
    <3>1. Behind(<<>>, batch.spans, batch.n)
      BY <1>2, PieceFacts, Zenon
    <3>2. Behind(SubSeq(batch.spans, batch.n + 1, Len(batch.spans)), batch.spans, batch.n)
      BY <1>2, PieceFacts, Zenon
    <3>3. \/ entries = <<>>
          \/ entries = SubSeq(batch.spans, batch.n + 1, Len(batch.spans))
      BY <1>0, WriteFacts
    <3> QED
      BY <3>1, <3>2, <3>3, Zenon
  <2>4. Len(Pipeline') \in Nat /\ Len(Pipeline) \in Nat
    <3>1. sent \o Flushed \in Seq(S)
      BY <1>3, <1>4
    <3>2. Pipeline' \in Seq(S) /\ Pipeline \in Seq(S)
      BY <1>2, <1>3, <2>1, <3>1
    <3> QED
      BY <3>2
  <2> HIDE DEF S
  <2>5. Prefix((sent \o Flushed) \o entries, sent \o batch.spans)
    BY <1>2, <1>3, <1>4, <2>2, <2>3, SplitConcat, Zenon
  <2> QED
    BY <2>1, <2>4, <2>5 DEF Prefix
<1>10. TicketInv' /\ InOrderOnce'
  <2> DEFINE f == [i \in 1 .. Len(Pipeline') |-> i]
  <2>1. f \in [1 .. Len(Pipeline') -> 1 .. Len(Pipeline)]
    BY <1>9
  <2>2. \A i, j \in 1 .. Len(Pipeline') : i < j => f[i] < f[j]
    OBVIOUS
  <2>3. \A i \in 1 .. Len(Pipeline') : Pipeline'[i] = Pipeline[f[i]]
    BY <1>9
  <2>4. \A s \in Spans : life'[s] = "fresh" => life[s] = "fresh"
    BY <1>0 DEF Freed
  <2> HIDE DEF f
  <2> QED
    BY <1>0, <2>1, <2>2, <2>3, <2>4, SubPipeline
<1> QED
  BY <1>5, <1>6, <1>7, <1>8, <1>10 DEF IndInv

\* remote_reporter_destroy: what was sent is all that is left.
LEMMA DestroyFreeStep ==
  ASSUME IndInv, NEW t \in Threads, DestroyFree(t)
  PROVE  IndInv'
<1> DEFINE S == Spans \cup {NULL}
<1>0. /\ pc[t] = "free" /\ pc' = [pc EXCEPT ![t] = "idle"]
      /\ entries' = <<>> /\ data' = 0 /\ process' = FALSE
      /\ status' = "destroyed" /\ life' = Freed(Range(entries))
      /\ UNCHANGED <<mutex, cur, capacity, batch, addr, metrics, result,
                     ticket, accepted, sent, pending, flushes, faults>>
  BY DEF DestroyFree, Goto, ghosts
<1>1. TypeOK'
  <2>1. life' \in [Spans -> {"fresh", "reporting", "lost", "live", "freed"}]
    BY <1>0 DEF IndInv, TypeOK, Freed
  <2>2. pc' \in [Threads -> Locked \cup {"idle", "free"}]
    BY <1>0 DEF IndInv, TypeOK
  <2>3. entries' \in Seq(S)
    BY <1>0
  <2> QED
    BY <1>0, <2>1, <2>2, <2>3 DEF IndInv, TypeOK
<1>2. MutexInv'
  BY <1>0 DEF IndInv, MutexInv, TypeOK, Locked, ReportSteps, FlushSteps
<1>3. RoomInv'
  <2>1. Len(entries') = 0 /\ capacity' \in Nat \ {0}
    BY <1>0, <1>1, CapacityFacts DEF TypeOK
  <2> QED
    BY <2>1 DEF RoomInv
<1>4. CurInv'
  BY <1>0 DEF IndInv, CurInv, TypeOK, Freed
<1>5. BatchInv'
  BY <1>0 DEF IndInv, BatchInv, TypeOK
<1>6. ArraySafe'
  BY <1>0 DEF IndInv, ArraySafe
<1>7. TicketInv' /\ InOrderOnce'
  <2>1. sent \in Seq(S) /\ entries \in Seq(S) /\ batch.spans \in Seq(S)
    BY DEF IndInv, TypeOK
  <2>2. CASE batch.n > 0
    <3>1. Pipeline' = Pipeline
      BY <1>0, <2>2 DEF Pipeline
    <3> QED
      BY <1>0, <3>1 DEF IndInv, TicketInv, InOrderOnce, Freed
  <2>3. CASE ~(batch.n > 0)
    <3>1. Pipeline' = sent \o <<>> /\ Pipeline = sent \o entries
      BY <1>0, <2>3 DEF Pipeline
    <3>2. /\ Len(Pipeline') = Len(sent) /\ Len(sent) \in Nat
          /\ \A i \in 1 .. Len(sent) : Pipeline'[i] = sent[i]
      BY <2>1, <3>1
    <3>3. /\ Len(sent) <= Len(Pipeline) /\ Len(Pipeline) \in Nat
          /\ \A i \in 1 .. Len(sent) : Pipeline[i] = sent[i]
      BY <2>1, <3>1
    <3> DEFINE f == [i \in 1 .. Len(Pipeline') |-> i]
    <3>4. /\ f \in [1 .. Len(Pipeline') -> 1 .. Len(Pipeline)]
          /\ \A i, j \in 1 .. Len(Pipeline') : i < j => f[i] < f[j]
          /\ \A i \in 1 .. Len(Pipeline') : Pipeline'[i] = Pipeline[f[i]]
      BY <3>2, <3>3
    <3>5. \A s \in Spans : life'[s] = "fresh" => life[s] = "fresh"
      BY <1>0 DEF Freed
    <3> HIDE DEF f
    <3> QED
      BY <1>0, <3>4, <3>5, SubPipeline
  <2> QED
    BY <2>2, <2>3
<1> QED
  BY <1>1, <1>2, <1>3, <1>4, <1>5, <1>6, <1>7 DEF IndInv

---------------------------------------------------------------------------
\* Every operation of the reporter preserves the invariant.
LEMMA NextIndInv == IndInv /\ [Next]_vars => IndInv'
<1> SUFFICES ASSUME IndInv, [Next]_vars PROVE IndInv'
  OBVIOUS
<1>1. CASE UNCHANGED vars
  <2>1. Pipeline' = Pipeline
    BY <1>1 DEF vars, Pipeline
  <2>2. TypeOK'
    BY <1>1 DEF IndInv, TypeOK, vars
  <2>3. (MutexInv /\ RoomInv /\ CurInv /\ BatchInv /\ ArraySafe)'
    BY <1>1 DEF IndInv, MutexInv, RoomInv, CurInv, BatchInv, ArraySafe, vars
  <2>4. (TicketInv /\ InOrderOnce)'
    BY <1>1, <2>1 DEF IndInv, TicketInv, InOrderOnce, vars
  <2> QED
    BY <2>2, <2>3, <2>4 DEF IndInv
<1>2. ASSUME NEW t \in Threads, NEW s \in Spans, ReportLock(t, s) PROVE IndInv'
  BY <1>2, ReportLockStep
<1>3. ASSUME NEW t \in Threads, FlushLock(t) \/ DestroyFlush(t) PROVE IndInv'
  BY <1>3, FlushLockStep, DestroyFlushStep
<1>4. ASSUME NEW t \in Threads, Step(t) PROVE IndInv'
  <2>1. CASE ReserveRoom(t) \/ ReserveGrow(t) \/ ReserveFail(t)
    BY <2>1, ReserveRoomStep, ReserveGrowStep, ReserveFailStep
  <2>2. CASE Convert(t) \/ ConvertFail(t)
    BY <2>2, ConvertStep, ConvertFailStep
  <2>3. CASE AppendSpan(t) \/ BuildProcess(t)
    BY <2>3, AppendSpanStep, BuildProcessStep
  <2>4. CASE AppendCrash(t) \/ BuildProcessFail(t) \/ BatchCrash(t) \/ DestroyCrash(t)
    BY <2>4, CrashStep DEF AppendCrash, BuildProcessFail, BatchCrash, DestroyCrash
  <2>5. CASE FlushDone(t) \/ LargeBatchError(t)
    BY <2>5, FlushDoneStep, LargeBatchErrorStep
  <2>6. CASE BatchAll(t) \/ BatchSplit(t) \/ BatchSplitFail(t)
    BY <2>6, BatchAllStep, BatchSplitStep, BatchSplitFailStep
  <2>7. CASE FlushBatchOk(t) \/ FlushBatchFail(t)
    BY <2>7, FlushBatchOkStep, FlushBatchFailStep
  <2>8. CASE Unlock(t) \/ DestroyFree(t)
    BY <2>8, UnlockStep, DestroyFreeStep
  <2> QED
    BY <1>4, <2>1, <2>2, <2>3, <2>4, <2>5, <2>6, <2>7, <2>8 DEF Step
<1> QED
  BY <1>1, <1>2, <1>3, <1>4 DEF Next

\* The invariant holds in every state the reporter reaches.
THEOREM ReporterInvariant == Spec => []IndInv
BY InitIndInv, NextIndInv, PTL DEF Spec

\* Type correctness, with a vector capacity that is never 0.
THEOREM ReporterTypeCorrect == Spec => []TypeOK
<1>1. IndInv => TypeOK
  BY DEF IndInv
<1> QED
  BY <1>1, ReporterInvariant, PTL

\* Neither the length nor the capacity of the span vector ever exceeds the
\* array behind it, although flush_batch forgets to restore the capacity and
\* build_batch forgets to reset it.
THEOREM ReporterArraySafe == Spec => []ArraySafe
<1>1. IndInv => ArraySafe
  BY DEF IndInv
<1> QED
  BY <1>1, ReporterInvariant, PTL

\* Spans are sent at most once, in the order report queued them, however
\* often batches are split, refused by the socket and tried again.
THEOREM ReporterInOrderOnce == Spec => []InOrderOnce
<1>1. IndInv => InOrderOnce
  BY DEF IndInv
<1> QED
  BY <1>1, ReporterInvariant, PTL

---------------------------------------------------------------------------
(* What becomes of the spans: which are sent, counted, freed or lost when
   writes and allocations fail. *)

\* Two places of the array in flight or, without one, of the queue never hold
\* the same span.
LEMMA Distinct ==
  ASSUME IndInv,
         NEW s, s = (IF batch.n > 0 THEN batch.spans ELSE entries),
         NEW i \in 1 .. Len(s), NEW j \in 1 .. Len(s), i < j,
         s[i] # NULL, s[j] # NULL
  PROVE  s[i] # s[j]
<1>1. s \in Seq(Spans \cup {NULL}) /\ sent \in Seq(Spans \cup {NULL})
  BY DEF IndInv, TypeOK
<1>2. Pipeline = sent \o s
  BY DEF Pipeline
<1>3. /\ Len(sent) \in Nat /\ Len(s) \in Nat
      /\ Len(Pipeline) = Len(sent) + Len(s)
      /\ Pipeline[Len(sent) + i] = s[i]
      /\ Pipeline[Len(sent) + j] = s[j]
  BY <1>1, <1>2, ConcatFacts
<1>4. /\ Len(sent) + i \in 1 .. Len(Pipeline)
      /\ Len(sent) + j \in 1 .. Len(Pipeline)
      /\ Len(sent) + i < Len(sent) + j
  BY <1>3
<1>5. ticket[s[i]] < ticket[s[j]]
  BY <1>3, <1>4 DEF IndInv, InOrderOnce
<1>6. s[i] \in Spans /\ ticket[s[i]] \in Nat
  BY <1>1 DEF IndInv, TypeOK
<1> QED
  BY <1>5, <1>6

\* The two halves of a cut have no span in common.
LEMMA HalvesDisjoint ==
  ASSUME IndInv,
         NEW s, s = (IF batch.n > 0 THEN batch.spans ELSE entries),
         NEW n \in 0 .. Len(s),
         NEW x, x # NULL,
         x \in Range(SubSeq(s, 1, n)), x \in Range(SubSeq(s, n + 1, Len(s)))
  PROVE  FALSE
<1>1. s \in Seq(Spans \cup {NULL}) /\ Len(s) \in Nat
  BY DEF IndInv, TypeOK
<1> DEFINE a == SubSeq(s, 1, n)
           b == SubSeq(s, n + 1, Len(s))
<1>a. /\ a \in Seq(Spans \cup {NULL}) /\ Len(a) = n
      /\ \A i \in 1 .. n : a[i] = s[i]
      /\ x \in Range(a)
  BY <1>1
<1>b. /\ b \in Seq(Spans \cup {NULL}) /\ Len(b) = Len(s) - n
      /\ \A j \in 1 .. Len(b) : b[j] = s[n + j]
      /\ x \in Range(b)
  BY <1>1
<1> HIDE DEF a, b
<1>2. PICK i \in 1 .. n : s[i] = x
  BY <1>a, RangeMembers
<1>3. PICK j \in 1 .. Len(s) : n < j /\ s[j] = x
  <2>1. PICK j \in 1 .. Len(b) : b[j] = x
    BY <1>b, RangeMembers
  <2>2. n + j \in 1 .. Len(s) /\ n < n + j /\ s[n + j] = x
    BY <1>1, <1>b, <2>1, SMTT(30)
  <2> QED
    BY <2>2
<1>4. i \in 1 .. Len(s) /\ i < j
  BY <1>1, <1>3
<1> QED
  BY <1>2, <1>3, <1>4, Distinct

---------------------------------------------------------------------------
\* A thread inside report or flush is the only one there.
LEMMA Alone ==
  ASSUME IndInv, NEW t \in Threads, pc[t] \in Locked
  PROVE  \A u \in Threads \ {t} : pc[u] \notin Locked
BY DEF IndInv, MutexInv

\* Without a batch there is nothing in a packet.
LEMMA NoPacket ==
  ASSUME batch = NoBatch
  PROVE  InPacket = {} /\ InArray = {}
BY DEF InPacket, InArray, Flushed, NoBatch, Range

\* The mutex is taken by report: nothing moves.
LEMMA ReportLockFate ==
  ASSUME IndInv, FateInv, NEW t \in Threads, NEW s \in Spans, ReportLock(t, s)
  PROVE  FateInv'
<1> USE DEF ReportLock, vector, ghosts, Goto, DropSilently
<1>1. UNCHANGED <<Queued, InPacket, InArray, sent, faults, addr, metrics>>
  BY DEF Queued, InPacket, InArray, Flushed
<1>2. SuccessIsSent' /\ AddressInv'
  BY <1>1 DEF FateInv, SuccessIsSent, AddressInv, SendMayFail
<1>3. CopyInv' /\ EndInv'
  BY ThreadAssumption DEF FateInv, CopyInv, EndInv, IndInv, MutexInv, CurInv,
     TypeOK, Locked, ReportSteps, FlushSteps
<1>4. ValidInv'
  BY <1>1 DEF FateInv, ValidInv, Alive, MallocMayFail, SendMayFail, IndInv,
     CurInv, TypeOK
<1>5. ReachInv'
  BY <1>1 DEF FateInv, ReachInv, SendMayFail, IndInv, CurInv, TypeOK
<1>6. PendingInv'
  BY <1>1 DEF FateInv, PendingInv, MallocMayFail, IndInv, TypeOK, Queued,
     FlushSteps
<1> QED
  BY <1>2, <1>3, <1>4, <1>5, <1>6 DEF FateInv

\* There is room.
LEMMA ReserveRoomFate ==
  ASSUME IndInv, FateInv, NEW t \in Threads, ReserveRoom(t)
  PROVE  FateInv'
<1> USE DEF ReserveRoom, vector, ghosts, Goto, DropSilently
<1>1. UNCHANGED <<Queued, InPacket, InArray, sent, faults, addr, metrics>>
  BY DEF Queued, InPacket, InArray, Flushed
<1>2. SuccessIsSent' /\ AddressInv'
  BY <1>1 DEF FateInv, SuccessIsSent, AddressInv, SendMayFail
<1>3. CopyInv' /\ EndInv'
  BY ThreadAssumption DEF FateInv, CopyInv, EndInv, IndInv, MutexInv, CurInv,
     TypeOK, Locked, ReportSteps, FlushSteps
<1>4. ValidInv'
  BY <1>1 DEF FateInv, ValidInv, Alive, MallocMayFail, SendMayFail, IndInv,
     CurInv, TypeOK
<1>5. ReachInv'
  BY <1>1 DEF FateInv, ReachInv, SendMayFail, IndInv, CurInv, TypeOK
<1>6. PendingInv'
  BY <1>1 DEF FateInv, PendingInv, MallocMayFail, IndInv, TypeOK, Queued,
     FlushSteps
<1> QED
  BY <1>2, <1>3, <1>4, <1>5, <1>6 DEF FateInv

\* The span is lost before there is a copy.
LEMMA ReserveFailFate ==
  ASSUME IndInv, FateInv, NEW t \in Threads, ReserveFail(t)
  PROVE  FateInv'
<1> USE DEF ReserveFail, vector, ghosts, Goto, DropSilently
<1>1. UNCHANGED <<Queued, InPacket, InArray, sent, faults, addr, metrics>>
  BY DEF Queued, InPacket, InArray, Flushed
<1>2. SuccessIsSent' /\ AddressInv'
  BY <1>1 DEF FateInv, SuccessIsSent, AddressInv, SendMayFail
<1>3. CopyInv' /\ EndInv'
  BY ThreadAssumption DEF FateInv, CopyInv, EndInv, IndInv, MutexInv, CurInv,
     TypeOK, Locked, ReportSteps, FlushSteps
<1>4. ValidInv'
  BY <1>1 DEF FateInv, ValidInv, Alive, MallocMayFail, SendMayFail, IndInv,
     CurInv, TypeOK
<1>5. ReachInv'
  BY <1>1 DEF FateInv, ReachInv, SendMayFail, IndInv, CurInv, TypeOK
<1>6. PendingInv'
  BY <1>1 DEF FateInv, PendingInv, MallocMayFail, IndInv, TypeOK, Queued,
     FlushSteps
<1> QED
  BY <1>2, <1>3, <1>4, <1>5, <1>6 DEF FateInv

\* The copy is made and is about to be appended.
LEMMA ConvertFate ==
  ASSUME IndInv, FateInv, NEW t \in Threads, Convert(t)
  PROVE  FateInv'
<1> USE DEF Convert, vector, ghosts, Goto, DropSilently
<1>1. UNCHANGED <<Queued, InPacket, InArray, sent, faults, addr, metrics>>
  BY DEF Queued, InPacket, InArray, Flushed
<1>2. SuccessIsSent' /\ AddressInv'
  BY <1>1 DEF FateInv, SuccessIsSent, AddressInv, SendMayFail
<1>3. CopyInv' /\ EndInv'
  BY ThreadAssumption DEF FateInv, CopyInv, EndInv, IndInv, MutexInv, CurInv,
     TypeOK, Locked, ReportSteps, FlushSteps
<1>4. ValidInv'
  BY <1>1 DEF FateInv, ValidInv, Alive, MallocMayFail, SendMayFail, IndInv,
     CurInv, TypeOK
<1>5. ReachInv'
  BY <1>1 DEF FateInv, ReachInv, SendMayFail, IndInv, CurInv, TypeOK
<1>6. PendingInv'
  BY <1>1 DEF FateInv, PendingInv, MallocMayFail, IndInv, TypeOK, Queued,
     FlushSteps
<1> QED
  BY <1>2, <1>3, <1>4, <1>5, <1>6 DEF FateInv

\* The span is lost.
LEMMA ConvertFailFate ==
  ASSUME IndInv, FateInv, NEW t \in Threads, ConvertFail(t)
  PROVE  FateInv'
<1> USE DEF ConvertFail, vector, ghosts, Goto, DropSilently
<1>1. UNCHANGED <<Queued, InPacket, InArray, sent, faults, addr, metrics>>
  BY DEF Queued, InPacket, InArray, Flushed
<1>2. SuccessIsSent' /\ AddressInv'
  BY <1>1 DEF FateInv, SuccessIsSent, AddressInv, SendMayFail
<1>3. CopyInv' /\ EndInv'
  BY ThreadAssumption DEF FateInv, CopyInv, EndInv, IndInv, MutexInv, CurInv,
     TypeOK, Locked, ReportSteps, FlushSteps
<1>4. ValidInv'
  BY <1>1 DEF FateInv, ValidInv, Alive, MallocMayFail, SendMayFail, IndInv,
     CurInv, TypeOK
<1>5. ReachInv'
  BY <1>1 DEF FateInv, ReachInv, SendMayFail, IndInv, CurInv, TypeOK
<1>6. PendingInv'
  BY <1>1 DEF FateInv, PendingInv, MallocMayFail, IndInv, TypeOK, Queued,
     FlushSteps
<1> QED
  BY <1>2, <1>3, <1>4, <1>5, <1>6 DEF FateInv

\* The process message is none of the spans' business.
LEMMA BuildProcessFate ==
  ASSUME IndInv, FateInv, NEW t \in Threads, BuildProcess(t)
  PROVE  FateInv'
<1> USE DEF BuildProcess, vector, ghosts, Goto, DropSilently
<1>1. UNCHANGED <<Queued, InPacket, InArray, sent, faults, addr, metrics>>
  BY DEF Queued, InPacket, InArray, Flushed
<1>2. SuccessIsSent' /\ AddressInv'
  BY <1>1 DEF FateInv, SuccessIsSent, AddressInv, SendMayFail
<1>3. CopyInv' /\ EndInv'
  BY ThreadAssumption DEF FateInv, CopyInv, EndInv, IndInv, MutexInv, CurInv,
     TypeOK, Locked, ReportSteps, FlushSteps
<1>4. ValidInv'
  BY <1>1 DEF FateInv, ValidInv, Alive, MallocMayFail, SendMayFail, IndInv,
     CurInv, TypeOK
<1>5. ReachInv'
  BY <1>1 DEF FateInv, ReachInv, SendMayFail, IndInv, CurInv, TypeOK
<1>6. PendingInv'
  BY <1>1 DEF FateInv, PendingInv, MallocMayFail, IndInv, TypeOK, Queued,
     FlushSteps
<1> QED
  BY <1>2, <1>3, <1>4, <1>5, <1>6 DEF FateInv

\* A flush takes note of what is queued.
LEMMA FlushLockFate ==
  ASSUME IndInv, FateInv, NEW t \in Threads, FlushLock(t)
  PROVE  FateInv'
<1> USE DEF FlushLock, vector, ghosts, Goto, DropSilently
<1>1. UNCHANGED <<Queued, InPacket, InArray, sent, faults, addr, metrics>>
  BY DEF Queued, InPacket, InArray, Flushed
<1>2. SuccessIsSent' /\ AddressInv'
  BY <1>1 DEF FateInv, SuccessIsSent, AddressInv, SendMayFail
<1>3. CopyInv' /\ EndInv'
  BY ThreadAssumption DEF FateInv, CopyInv, EndInv, IndInv, MutexInv, CurInv,
     TypeOK, Locked, ReportSteps, FlushSteps
<1>4. ValidInv'
  BY <1>1 DEF FateInv, ValidInv, Alive, MallocMayFail, SendMayFail, IndInv,
     CurInv, TypeOK
<1>5. ReachInv'
  BY <1>1 DEF FateInv, ReachInv, SendMayFail, IndInv, CurInv, TypeOK
<1>6. PendingInv'
  BY <1>1 DEF FateInv, PendingInv, MallocMayFail, IndInv, TypeOK, Queued,
     FlushSteps
<1> QED
  BY <1>2, <1>3, <1>4, <1>5, <1>6 DEF FateInv

\* The queue is empty: what was pending is sent.
LEMMA FlushDoneFate ==
  ASSUME IndInv, FateInv, NEW t \in Threads, FlushDone(t)
  PROVE  FateInv'
<1> USE DEF FlushDone, vector, ghosts, Goto, DropSilently
<1>1. UNCHANGED <<Queued, InPacket, InArray, sent, faults, addr, metrics>>
  BY DEF Queued, InPacket, InArray, Flushed
<1>2. SuccessIsSent' /\ AddressInv'
  BY <1>1 DEF FateInv, SuccessIsSent, AddressInv, SendMayFail
<1>3. CopyInv' /\ EndInv'
  BY ThreadAssumption DEF FateInv, CopyInv, EndInv, IndInv, MutexInv, CurInv,
     TypeOK, Locked, ReportSteps, FlushSteps
<1>4. ValidInv'
  BY <1>1 DEF FateInv, ValidInv, Alive, MallocMayFail, SendMayFail, IndInv,
     CurInv, TypeOK
<1>5. ReachInv'
  BY <1>1 DEF FateInv, ReachInv, SendMayFail, IndInv, CurInv, TypeOK
<1>6. PendingInv'
  <2>1. Queued = {} /\ InPacket = {}
    BY NoPacket, LoopFacts DEF Queued, Range, IndInv, TypeOK
  <2> QED
    BY <1>1, <2>1 DEF FateInv, PendingInv, MallocMayFail, IndInv, TypeOK,
       FlushSteps
<1> QED
  BY <1>2, <1>3, <1>4, <1>5, <1>6 DEF FateInv

\* The end of report and flush.
LEMMA UnlockFate ==
  ASSUME IndInv, FateInv, NEW t \in Threads, Unlock(t)
  PROVE  FateInv'
<1> USE DEF Unlock, vector, ghosts, Goto, DropSilently
<1>1. UNCHANGED <<Queued, InPacket, InArray, sent, faults, addr, metrics>>
  BY DEF Queued, InPacket, InArray, Flushed
<1>2. SuccessIsSent' /\ AddressInv'
  BY <1>1 DEF FateInv, SuccessIsSent, AddressInv, SendMayFail
<1>3. CopyInv' /\ EndInv'
  BY ThreadAssumption DEF FateInv, CopyInv, EndInv, IndInv, MutexInv, CurInv,
     TypeOK, Locked, ReportSteps, FlushSteps
<1>4. ValidInv'
  BY <1>1 DEF FateInv, ValidInv, Alive, MallocMayFail, SendMayFail, IndInv,
     CurInv, TypeOK
<1>5. ReachInv'
  BY <1>1 DEF FateInv, ReachInv, SendMayFail, IndInv, CurInv, TypeOK
<1>6. PendingInv'
  BY <1>1 DEF FateInv, PendingInv, MallocMayFail, IndInv, TypeOK, Queued,
     FlushSteps
<1> QED
  BY <1>2, <1>3, <1>4, <1>5, <1>6 DEF FateInv

\* destroy takes note of what is queued.
LEMMA DestroyFlushFate ==
  ASSUME IndInv, FateInv, NEW t \in Threads, DestroyFlush(t)
  PROVE  FateInv'
<1> USE DEF DestroyFlush, vector, ghosts, Goto, DropSilently
<1>1. UNCHANGED <<Queued, InPacket, InArray, sent, faults, addr, metrics>>
  BY DEF Queued, InPacket, InArray, Flushed
<1>2. SuccessIsSent' /\ AddressInv'
  BY <1>1 DEF FateInv, SuccessIsSent, AddressInv, SendMayFail
<1>3. CopyInv' /\ EndInv'
  BY ThreadAssumption DEF FateInv, CopyInv, EndInv, IndInv, MutexInv, CurInv,
     TypeOK, Locked, ReportSteps, FlushSteps
<1>4. ValidInv'
  BY <1>1 DEF FateInv, ValidInv, Alive, MallocMayFail, SendMayFail, IndInv,
     CurInv, TypeOK
<1>5. ReachInv'
  BY <1>1 DEF FateInv, ReachInv, SendMayFail, IndInv, CurInv, TypeOK
<1>6. PendingInv'
  BY <1>1 DEF FateInv, PendingInv, MallocMayFail, IndInv, TypeOK, Queued,
     FlushSteps
<1> QED
  BY <1>2, <1>3, <1>4, <1>5, <1>6 DEF FateInv

\* The process ends as it is.
LEMMA CrashFate == ASSUME FateInv, Crash PROVE FateInv'
<1> USE DEF Crash, vector, ghosts
<1>1. UNCHANGED <<Queued, InPacket, InArray>>
  BY DEF Queued, InPacket, InArray, Flushed
<1> QED
  BY <1>1 DEF FateInv, SuccessIsSent, AddressInv, CopyInv, EndInv, ValidInv,
     ReachInv, PendingInv, Alive, MallocMayFail, SendMayFail

---------------------------------------------------------------------------
(* The operations that move spans *)

\* Growing clears what lies beyond the old capacity, which is nothing as long
\* as no write failed.
LEMMA ReserveGrowFate ==
  ASSUME IndInv, FateInv, NEW t \in Threads, ReserveGrow(t)
  PROVE  FateInv'
<1> USE DEF ReserveGrow, ghosts, Goto
<1>1. /\ entries \in Seq(Spans \cup {NULL}) /\ capacity \in Nat
      /\ entries' = ClearFrom(entries, capacity)
      /\ \A u \in Threads \ {t} : pc[u] \notin Locked
  BY Alone, CapacityFacts DEF IndInv, TypeOK, Locked, ReportSteps
<1>2. /\ entries' \in Seq(Spans \cup {NULL})
      /\ Len(entries') = Len(entries) /\ Len(entries) \in Nat
      /\ \A i \in 1 .. Len(entries) : entries'[i] \in {entries[i], NULL}
      /\ \A i \in 1 .. Len(entries) : i <= capacity => entries'[i] = entries[i]
  BY <1>1 DEF ClearFrom
<1>3. Queued' \subseteq Queued
  <2>1. ASSUME NEW x \in Range(entries'), x # NULL
        PROVE  x \in Range(entries)
    BY <1>1, <1>2, <2>1, RangeMembers
  <2> QED
    BY <2>1 DEF Queued, Range
<1>4. Len(entries) <= capacity => Queued' = Queued
  <2>1. ASSUME Len(entries) <= capacity, NEW x \in Range(entries)
        PROVE  x \in Range(entries')
    <3>1. PICK i \in 1 .. Len(entries) : entries[i] = x
      BY <1>1, RangeMembers
    <3>2. entries'[i] = x /\ i \in 1 .. Len(entries')
      BY <1>1, <1>2, <2>1, <3>1
    <3> QED
      BY <1>2, <3>2, RangeMembers
  <2> QED
    BY <1>3, <2>1 DEF Queued, Range
<1>5. UNCHANGED <<InPacket, InArray, sent, faults, addr, metrics, life>>
  BY DEF InPacket, InArray, Flushed
<1>6. Len(entries') <= capacity'
  <2>1. PICK c \in AlignedCapacities(Len(entries) + 1) : capacity' = c
    OBVIOUS
  <2>2. Len(entries) + 1 \in Nat
    BY <1>2
  <2>3. c >= Len(entries) + 1 /\ c \in Nat
    BY <2>2, CapacityFacts, AlignedFacts
  <2> QED
    BY <1>2, <2>1, <2>3
<1>7. SuccessIsSent' /\ AddressInv'
  BY <1>5 DEF FateInv, SuccessIsSent, AddressInv, SendMayFail
<1>8. CopyInv' /\ EndInv'
  BY <1>1 DEF FateInv, CopyInv, EndInv, IndInv, TypeOK, Locked, ReportSteps
<1>9. ValidInv'
  BY <1>3, <1>5 DEF FateInv, ValidInv, Alive, MallocMayFail, SendMayFail
<1>10. ReachInv'
  BY <1>1, <1>4, <1>5, <1>6 DEF FateInv, ReachInv, SendMayFail, IndInv, TypeOK,
     Locked, ReportSteps
<1>11. PendingInv'
  BY <1>1 DEF FateInv, PendingInv, IndInv, TypeOK, Locked, ReportSteps,
     FlushSteps
<1> QED
  BY <1>7, <1>8, <1>9, <1>10, <1>11 DEF FateInv

\* A live copy joins the queue.
LEMMA AppendSpanFate ==
  ASSUME IndInv, FateInv, NEW t \in Threads, AppendSpan(t)
  PROVE  FateInv'
<1> USE DEF AppendSpan, Goto
<1>1. /\ cur[t] \in Spans /\ life[cur[t]] = "live" /\ cur[t] # NULL
      /\ \A u \in Threads \ {t} : pc[u] \notin Locked
      /\ entries \in Seq(Spans \cup {NULL})
      /\ Len(entries) \in Nat /\ capacity \in Nat /\ Len(entries) < capacity
  BY Alone, SpanAssumption, CapacityFacts
  DEF IndInv, CurInv, RoomInv, FateInv, CopyInv, TypeOK, Locked, ReportSteps
<1>2. Queued' = Queued \cup {cur[t]}
  <2>1. Range(Append(entries, cur[t])) = Range(entries) \cup {cur[t]}
    BY <1>1, RangeAppend
  <2> QED
    BY <1>1, <2>1, ZenonT(60) DEF Queued, Range
<1>3. UNCHANGED <<InPacket, InArray, sent, faults, addr, life, status>>
  BY DEF InPacket, InArray, Flushed
<1>4. metrics'.success = metrics.success
  BY DEF IndInv, TypeOK, Counters
<1>5. Len(entries') <= capacity'
  BY <1>1
<1>6. SuccessIsSent' /\ AddressInv'
  BY <1>3, <1>4 DEF FateInv, SuccessIsSent, AddressInv, SendMayFail
<1>7. CopyInv' /\ EndInv'
  BY <1>1 DEF FateInv, CopyInv, EndInv, IndInv, TypeOK, Locked, ReportSteps
<1>8. ValidInv'
  BY <1>1, <1>2, <1>3 DEF FateInv, ValidInv, Alive, MallocMayFail, SendMayFail
<1>9. ReachInv'
  BY <1>1, <1>2, <1>3, <1>5 DEF FateInv, ReachInv, SendMayFail, IndInv, TypeOK
<1>10. PendingInv'
  BY <1>1 DEF FateInv, PendingInv, IndInv, TypeOK, Locked, ReportSteps,
     FlushSteps
<1> QED
  BY <1>6, <1>7, <1>8, <1>9, <1>10 DEF FateInv

\* What is behind the head of the queue is all the rest of it.
LEMMA HeadLeaves ==
  ASSUME IndInv, batch = NoBatch, Len(entries) > 0, Head(entries) # NULL
  PROVE  /\ Range(entries) = {Head(entries)} \cup Range(Tail(entries))
         /\ Head(entries) \notin Range(Tail(entries))
         /\ Len(Tail(entries)) = Len(entries) - 1
<1> DEFINE q == Tail(entries)
           h == Head(entries)
           n == Len(entries)
<1>1. /\ entries \in Seq(Spans \cup {NULL}) /\ n \in Nat
      /\ entries = (IF batch.n > 0 THEN batch.spans ELSE entries)
  BY DEF IndInv, TypeOK, NoBatch
<1>2. /\ q \in Seq(Spans \cup {NULL}) /\ Len(q) = n - 1 /\ h = entries[1]
      /\ \A i \in 1 .. Len(q) : q[i] = entries[i + 1]
  BY <1>1
<1> HIDE DEF q, h, n
<1>3. \A i \in 1 .. Len(q) : i + 1 \in 1 .. n /\ 1 < i + 1
  BY <1>1, <1>2
<1>4. \A i \in 1 .. n : i = 1 \/ (i - 1 \in 1 .. Len(q) /\ (i - 1) + 1 = i)
  BY <1>1, <1>2
<1>5. 1 \in 1 .. n
  BY <1>1 DEF n
<1>6. h \notin Range(q)
  <2> SUFFICES ASSUME NEW i \in 1 .. Len(q), q[i] = h
               PROVE  FALSE
    BY <1>2, RangeMembers
  <2>1. entries[1] = h /\ entries[i + 1] = h /\ h # NULL
    BY <1>2 DEF h
  <2> QED
    BY <1>1, <1>3, <1>5, <2>1, Distinct DEF n
<1>7. ASSUME NEW x \in Range(entries)
      PROVE  x \in {h} \cup Range(q)
  <2>1. PICK i \in 1 .. n : entries[i] = x
    BY <1>1, RangeMembers DEF n
  <2>2. CASE i = 1
    BY <1>2, <2>1, <2>2
  <2>3. CASE i - 1 \in 1 .. Len(q) /\ (i - 1) + 1 = i
    <3>1. q[i - 1] = x
      BY <1>2, <2>1, <2>3
    <3> QED
      BY <1>2, <2>3, <3>1, RangeMembers
  <2> QED
    BY <1>4, <2>2, <2>3
<1>8. ASSUME NEW x \in Range(q)
      PROVE  x \in Range(entries)
  <2>1. PICK i \in 1 .. Len(q) : q[i] = x
    BY <1>2, RangeMembers
  <2>2. entries[i + 1] = x /\ i + 1 \in 1 .. Len(entries)
    BY <1>2, <1>3, <2>1 DEF n
  <2> QED
    BY <1>1, <2>2, RangeMembers
<1>9. h \in Range(entries)
  BY <1>1, <1>2, <1>5, RangeMembers DEF n
<1> QED
  BY <1>2, <1>6, <1>7, <1>8, <1>9 DEF q, h, n

\* The first span, which fits into no packet, leaves the queue and is freed.
LEMMA LargeBatchErrorFate ==
  ASSUME IndInv, FateInv, NEW t \in Threads, LargeBatchError(t)
  PROVE  FateInv'
<1> USE DEF LargeBatchError, Goto, ghosts
<1> DEFINE h == Head(entries)
<1>1. /\ batch = NoBatch
      /\ \A u \in Threads \ {t} : pc[u] \notin Locked
      /\ entries \in Seq(Spans \cup {NULL}) /\ Len(entries) \in Nat
  BY LoopFacts DEF IndInv, TypeOK
<1>2. h # NULL
  <2>1. h = entries[1] /\ 1 \in 1 .. Len(entries)
    BY <1>1
  <2> QED
    BY <2>1 DEF Readable
<1>3. Queued = Queued' \cup {h} /\ h \notin Queued' /\ Len(entries') = Len(entries) - 1
  BY <1>1, <1>2, HeadLeaves DEF Queued, Range
<1> HIDE DEF h
<1>4. /\ UNCHANGED <<InPacket, InArray, sent, faults, addr, status, capacity>>
      /\ life' = Freed({h}) /\ InPacket = {} /\ InArray = {}
  BY <1>1, NoPacket DEF InPacket, InArray, Flushed, h
<1>5. metrics'.success = metrics.success
  BY DEF IndInv, TypeOK, Counters
<1>6. SuccessIsSent' /\ AddressInv'
  BY <1>4, <1>5 DEF FateInv, SuccessIsSent, AddressInv, SendMayFail
<1>7. CopyInv' /\ EndInv'
  BY <1>1 DEF FateInv, CopyInv, EndInv, IndInv, TypeOK, Locked, ReportSteps
<1>8. ValidInv'
  <2>1. \A s \in Queued' : s \in Spans
    BY <1>1, <1>3, RangeMembers DEF Queued
  <2> QED
    BY <1>3, <1>4, <2>1 DEF FateInv, ValidInv, Alive, MallocMayFail,
       SendMayFail, Freed
<1>9. ReachInv'
  <2>1. ~SendMayFail => Len(entries') <= capacity'
    BY <1>1, <1>3, <1>4, CapacityFacts DEF FateInv, ReachInv, IndInv, TypeOK
  <2>2. ASSUME ~SendMayFail, NEW s \in Spans, life'[s] = "live"
        PROVE  s \in Queued'
    BY <1>1, <1>3, <1>4, <2>2 DEF FateInv, ReachInv, Freed, Locked, ReportSteps
  <2> QED
    BY <1>4, <2>1, <2>2 DEF ReachInv, SendMayFail
<1>10. PendingInv'
  BY <1>1 DEF FateInv, PendingInv, IndInv, TypeOK, Locked, ReportSteps,
     FlushSteps
<1> QED
  BY <1>6, <1>7, <1>8, <1>9, <1>10 DEF FateInv

\* What build_batch takes, in terms of sets: the packet, and what is left, are
\* the queue, and have nothing in common.
LEMMA TakeFacts ==
  ASSUME IndInv, NEW t \in Threads, pc[t] = "loop",
         NEW n \in 1 .. Len(entries), TakeArray(n)
  PROVE  /\ InArray' = Queued
         /\ Queued = InPacket' \cup (Range(Remaining(n)) \ {NULL})
         /\ InPacket' \cap (Range(Remaining(n)) \ {NULL}) = {}
         /\ InPacket = {} /\ InArray = {}
         /\ Queued \subseteq Spans
         /\ \A u \in Threads \ {t} : pc[u] \notin Locked
<1>1. /\ batch = NoBatch /\ entries \in Seq(Spans \cup {NULL})
      /\ \A u \in Threads \ {t} : pc[u] \notin Locked
  BY LoopFacts DEF IndInv, TypeOK
<1>2. batch'.spans = entries /\ batch'.n = n
  BY DEF TakeArray
<1>3. /\ InArray' = Range(entries) \ {NULL}
      /\ InPacket' = Range(SubSeq(entries, 1, n)) \ {NULL}
  BY <1>2 DEF InArray, InPacket, Flushed, Range
<1>4. n \in 0 .. Len(entries)
  BY <1>1
<1>5. Range(entries) = Range(SubSeq(entries, 1, n)) \cup Range(Remaining(n))
  BY <1>1, <1>4, RangeSplit DEF Remaining
<1>6. entries = (IF batch.n > 0 THEN batch.spans ELSE entries)
  BY <1>1 DEF NoBatch
<1>7. ASSUME NEW x \in Range(SubSeq(entries, 1, n)), x \in Range(Remaining(n)), x # NULL
      PROVE  FALSE
  BY <1>4, <1>6, <1>7, HalvesDisjoint DEF Remaining
<1>8. InPacket = {} /\ InArray = {}
  BY <1>1, NoPacket
<1>9. Queued \subseteq Spans
  BY <1>1, RangeMembers DEF Queued
<1> QED
  BY <1>1, <1>3, <1>5, <1>7, <1>8, <1>9 DEF Queued

\* The whole queue becomes the packet.
LEMMA BatchAllFate ==
  ASSUME IndInv, FateInv, NEW t \in Threads, BatchAll(t)
  PROVE  FateInv'
<1> USE DEF BatchAll, Goto, ghosts
<1> DEFINE n == Len(entries)
<1>1. n \in 1 .. Len(entries) /\ capacity \in Nat /\ CapacityAfterTake \in Nat
  BY CapacityFacts DEF IndInv, TypeOK, CapacityAfterTake
<1>2. /\ InArray' = Queued
      /\ Queued = InPacket' \cup (Range(Remaining(n)) \ {NULL})
      /\ InPacket = {} /\ InArray = {}
      /\ \A u \in Threads \ {t} : pc[u] \notin Locked
  BY <1>1, TakeFacts
<1>3. Range(Remaining(n)) = {} /\ Queued' = {}
  <2>1. Remaining(n) = <<>>
    BY <1>1 DEF Remaining, IndInv, TypeOK
  <2> QED
    BY <2>1 DEF Range, Queued
<1>4. InPacket' = Queued
  BY <1>2, <1>3
<1>5. SuccessIsSent' /\ AddressInv'
  BY DEF FateInv, SuccessIsSent, AddressInv, SendMayFail
<1>6. CopyInv' /\ EndInv'
  BY <1>2 DEF FateInv, CopyInv, EndInv, IndInv, TypeOK, Locked, ReportSteps
<1>7. ValidInv'
  BY <1>2, <1>3, <1>4 DEF FateInv, ValidInv, Alive, MallocMayFail, SendMayFail
<1>8. ReachInv'
  BY <1>1, <1>2, <1>3, <1>4 DEF FateInv, ReachInv, SendMayFail, IndInv, TypeOK,
     Locked, ReportSteps
<1>9. PendingInv'
  BY <1>2, <1>3, <1>4 DEF FateInv, PendingInv, MallocMayFail, IndInv, TypeOK,
     Locked, ReportSteps, FlushSteps
<1> QED
  BY <1>5, <1>6, <1>7, <1>8, <1>9 DEF FateInv

\* The queue is cut: what does not fit waits in a new array.
LEMMA BatchSplitFate ==
  ASSUME IndInv, FateInv, NEW t \in Threads, BatchSplit(t)
  PROVE  FateInv'
<1> DEFINE n == FittingPrefix(entries)
<1>0. /\ Splits(t, n) /\ entries' = Remaining(n)
      /\ \E c \in AlignedCapacities(Len(Remaining(n))) : capacity' = c
      /\ UNCHANGED <<mutex, cur, addr, metrics, status, result, life, sent,
                     pending, faults>>
  BY DEF BatchSplit, ghosts
<1> HIDE DEF n
<1> USE DEF Splits, Goto
<1>1. n \in 1 .. Len(entries) /\ n \in 0 .. Len(entries)
      /\ entries \in Seq(Spans \cup {NULL})
  BY <1>0 DEF IndInv, TypeOK
<1>2. /\ InArray' = Queued
      /\ Queued = InPacket' \cup (Range(Remaining(n)) \ {NULL})
      /\ InPacket = {} /\ InArray = {}
      /\ \A u \in Threads \ {t} : pc[u] \notin Locked
  BY <1>0, <1>1, TakeFacts
<1>3. Queued' = Range(Remaining(n)) \ {NULL}
  BY <1>0 DEF Queued, Range
<1>4. Len(entries') <= capacity'
  <2>1. Len(Remaining(n)) \in Nat
    BY <1>1, RemainingType
  <2> QED
    BY <1>0, <2>1, CapacityFacts, AlignedFacts
<1>5. SuccessIsSent' /\ AddressInv'
  BY <1>0 DEF FateInv, SuccessIsSent, AddressInv, SendMayFail
<1>6. CopyInv' /\ EndInv'
  BY <1>0, <1>2 DEF FateInv, CopyInv, EndInv, IndInv, TypeOK, Locked, ReportSteps
<1>7. ValidInv'
  BY <1>0, <1>2, <1>3 DEF FateInv, ValidInv, Alive, MallocMayFail, SendMayFail
<1>8. ReachInv'
  BY <1>0, <1>2, <1>3, <1>4 DEF FateInv, ReachInv, SendMayFail, IndInv, TypeOK,
     Locked, ReportSteps
<1>9. PendingInv'
  BY <1>0, <1>2, <1>3 DEF FateInv, PendingInv, MallocMayFail, IndInv, TypeOK,
     Locked, ReportSteps, FlushSteps
<1> QED
  BY <1>5, <1>6, <1>7, <1>8, <1>9 DEF FateInv

\* The queue is cut without memory: what does not fit is freed, the packet is
\* not.
LEMMA BatchSplitFailFate ==
  ASSUME IndInv, FateInv, NEW t \in Threads, BatchSplitFail(t)
  PROVE  FateInv'
<1> DEFINE n == FittingPrefix(entries)
<1>0. /\ MallocMayFail /\ Splits(t, n) /\ entries' = <<>>
      /\ life' = Freed(Range(Remaining(n)))
      /\ metrics' = [metrics EXCEPT !.dropped = @ + Len(Remaining(n))]
      /\ capacity' \in {CapacityAfterTake, InitCapacity}
      /\ UNCHANGED <<mutex, cur, addr, status, result, sent, pending, faults>>
  BY DEF BatchSplitFail, ghosts
<1> HIDE DEF n
<1> USE DEF Splits, Goto
<1>1. n \in 1 .. Len(entries) /\ capacity' \in Nat
  BY <1>0, CapacityFacts DEF IndInv, TypeOK, CapacityAfterTake
<1>2. /\ Queued = InPacket' \cup (Range(Remaining(n)) \ {NULL})
      /\ InPacket' \cap (Range(Remaining(n)) \ {NULL}) = {}
      /\ InPacket = {} /\ InArray = {} /\ Queued \subseteq Spans
      /\ \A u \in Threads \ {t} : pc[u] \notin Locked
  BY <1>0, <1>1, TakeFacts
<1>3. Queued' = {} /\ Len(entries') = 0
  BY <1>0 DEF Queued, Range
<1>4. metrics'.success = metrics.success
  BY <1>0 DEF IndInv, TypeOK, Counters
<1>5. SuccessIsSent' /\ AddressInv'
  BY <1>0, <1>4 DEF FateInv, SuccessIsSent, AddressInv, SendMayFail
<1>6. CopyInv' /\ EndInv'
  BY <1>0, <1>2 DEF FateInv, CopyInv, EndInv, IndInv, TypeOK, Locked, ReportSteps
<1>7. ValidInv'
  <2>1. \A s \in InPacket' : s \in Queued /\ s \notin Range(Remaining(n)) /\ s \in Spans
    BY <1>2, SpanAssumption
  <2> QED
    BY <1>0, <1>3, <2>1 DEF FateInv, ValidInv, Alive, MallocMayFail,
       SendMayFail, Freed
<1>8. ReachInv'
  <2>1. ASSUME ~SendMayFail, NEW s \in Spans, life'[s] = "live"
        PROVE  s \in InPacket'
    <3>1. s \notin Range(Remaining(n)) /\ life[s] = "live"
      BY <1>0, <2>1 DEF Freed
    <3>2. s \in Queued
      BY <1>0, <1>2, <2>1, <3>1 DEF FateInv, ReachInv, Locked, ReportSteps
    <3> QED
      BY <1>2, <3>1, <3>2
  <2> QED
    BY <1>0, <1>1, <1>3, <2>1 DEF ReachInv, SendMayFail
<1>9. PendingInv'
  BY <1>0, <1>2 DEF FateInv, PendingInv, MallocMayFail, IndInv, TypeOK,
     Locked, ReportSteps, FlushSteps
<1> QED
  BY <1>5, <1>6, <1>7, <1>8, <1>9 DEF FateInv

\* While a packet is written, the queue has no span of it, and the packet is a
\* part of the array.
LEMMA PacketFacts ==
  ASSUME IndInv, NEW t \in Threads, pc[t] = "write"
  PROVE  /\ Queued \cap InPacket = {}
         /\ InPacket \subseteq InArray /\ Queued \subseteq InArray
         /\ InArray \subseteq Spans
         /\ Len(Flushed) = batch.n /\ batch.n \in Nat
         /\ Flushed \in Seq(Spans \cup {NULL})
         /\ \A u \in Threads \ {t} : pc[u] \notin Locked
<1> DEFINE b == batch.spans
           n == batch.n
<1>1. /\ b \in Seq(Spans \cup {NULL}) /\ n \in 0 .. Len(b) /\ n > 0 /\ n \in Nat
      /\ \/ entries = <<>>
         \/ entries = SubSeq(b, n + 1, Len(b))
  BY DEF IndInv, TypeOK, ArraySafe, BatchInv
<1>2. \A u \in Threads \ {t} : pc[u] \notin Locked
  BY Alone DEF Locked, FlushSteps
<1>3. Flushed = SubSeq(b, 1, n)
  BY DEF Flushed
<1>4. Len(Flushed) = n /\ Flushed \in Seq(Spans \cup {NULL})
  BY <1>1, <1>3
<1>5. Range(b) = Range(SubSeq(b, 1, n)) \cup Range(SubSeq(b, n + 1, Len(b)))
  BY <1>1, RangeSplit
<1>6. Range(<<>>) = {}
  BY DEF Range
<1>7. InPacket \subseteq InArray /\ Queued \subseteq InArray
  BY <1>1, <1>3, <1>5, <1>6 DEF InPacket, InArray, Queued
<1>8. ASSUME NEW x \in Queued, x \in InPacket
      PROVE  FALSE
  <2>1. /\ x # NULL /\ x \in Range(SubSeq(b, 1, n))
        /\ x \in Range(SubSeq(b, n + 1, Len(b)))
    BY <1>1, <1>3, <1>6, <1>8 DEF InPacket, Queued
  <2>2. b = (IF batch.n > 0 THEN batch.spans ELSE entries)
    BY <1>1
  <2> QED
    BY <1>1, <2>1, <2>2, HalvesDisjoint
<1>9. InArray \subseteq Spans
  BY <1>1, RangeMembers DEF InArray
<1> QED
  BY <1>1, <1>2, <1>4, <1>7, <1>8, <1>9

\* The packet is sent, counted and freed.
LEMMA FlushBatchOkFate ==
  ASSUME IndInv, FateInv, NEW t \in Threads, FlushBatchOk(t)
  PROVE  FateInv'
<1> USE DEF FlushBatchOk, Goto, vector
<1>1. /\ Queued \cap InPacket = {}
      /\ InArray \subseteq Spans /\ Queued \subseteq InArray
      /\ Len(Flushed) = batch.n /\ batch.n \in Nat
      /\ Flushed \in Seq(Spans \cup {NULL})
      /\ \A u \in Threads \ {t} : pc[u] \notin Locked
  BY PacketFacts
<1>2. /\ Queued' = Queued /\ InPacket' = {} /\ InArray' = {}
      /\ addr' = "known" /\ life' = Freed(Range(Flushed))
  BY NoPacket DEF Queued, InPacket, InArray, Flushed, NoBatch, Range, WriteSucceeds
<1>3. /\ Range(sent') = Range(sent) \cup Range(Flushed)
      /\ Len(sent') = Len(sent) + batch.n
  <2>1. sent \in Seq(Spans \cup {NULL}) /\ sent' = sent \o Flushed
    BY DEF IndInv, TypeOK
  <2>2. Range(sent \o Flushed) = Range(sent) \cup Range(Flushed)
    BY <1>1, <2>1, RangeConcat
  <2>3. Len(sent \o Flushed) = Len(sent) + batch.n
    BY <1>1, <2>1
  <2> QED
    BY <2>1, <2>2, <2>3
<1>4. SuccessIsSent'
  BY <1>3 DEF FateInv, SuccessIsSent, NumFlushed, IndInv, TypeOK, Counters
<1>5. AddressInv'
  BY <1>2 DEF AddressInv
<1>6. CopyInv' /\ EndInv'
  BY <1>1 DEF FateInv, CopyInv, EndInv, IndInv, TypeOK, Locked, ReportSteps
<1>7. \A s \in Spans : s \in Range(Flushed) <=> s \in InPacket
  BY SpanAssumption DEF InPacket
<1>8. ValidInv'
  BY <1>1, <1>2, <1>7 DEF FateInv, ValidInv, Alive, MallocMayFail, SendMayFail,
     Freed
<1>9. ReachInv'
  <2>1. ASSUME ~SendMayFail, NEW s \in Spans, life'[s] = "live"
        PROVE  s \in Queued'
    BY <1>1, <1>2, <1>7, <2>1 DEF FateInv, ReachInv, Freed, Locked, ReportSteps
  <2> QED
    BY <2>1 DEF FateInv, ReachInv, SendMayFail
<1>10. PendingInv'
  <2>1. InPacket \subseteq Range(sent')
    BY <1>3 DEF InPacket
  <2>2. \A u \in Threads \ {t} : pc'[u] = pc[u]
    BY DEF IndInv, TypeOK
  <2> QED
    BY <1>1, <1>2, <1>3, <2>1, <2>2 DEF FateInv, PendingInv, MallocMayFail,
       IndInv, TypeOK, Locked, ReportSteps, FlushSteps
<1> QED
  BY <1>4, <1>5, <1>6, <1>8, <1>9, <1>10 DEF FateInv

\* The array is put back.  With writes that succeed this does not happen;
\* with memory to spare nothing in the array was freed.
LEMMA FlushBatchFailFate ==
  ASSUME IndInv, FateInv, NEW t \in Threads, FlushBatchFail(t)
  PROVE  FateInv'
<1> USE DEF FlushBatchFail, Goto, ghosts
<1>1. SendMayFail
  BY DEF WriteFails, FateInv, AddressInv
<1>2. \A u \in Threads \ {t} : pc[u] \notin Locked
  BY PacketFacts
<1>3. /\ Queued' = InArray /\ InPacket' = {} /\ InArray' = {}
      /\ UNCHANGED <<sent, life, faults, status>>
  BY NoPacket DEF Queued, InPacket, InArray, Flushed, NoBatch, Range, Restored
<1>4. SuccessIsSent'
  BY <1>3 DEF FateInv, SuccessIsSent, IndInv, TypeOK, Counters
<1>5. AddressInv'
  BY <1>1, <1>3 DEF FateInv, AddressInv, WriteFails, SendMayFail, IndInv, TypeOK
<1>6. CopyInv' /\ EndInv'
  BY <1>2 DEF FateInv, CopyInv, EndInv, IndInv, TypeOK, Locked, ReportSteps
<1>7. ValidInv'
  BY <1>1, <1>3 DEF FateInv, ValidInv, Alive, MallocMayFail, SendMayFail
<1>8. ReachInv'
  BY <1>1 DEF ReachInv, SendMayFail
<1>9. PendingInv'
  BY <1>2, <1>3 DEF FateInv, PendingInv, MallocMayFail, IndInv, TypeOK, Locked,
     ReportSteps, FlushSteps
<1> QED
  BY <1>4, <1>5, <1>6, <1>7, <1>8, <1>9 DEF FateInv

\* destroy frees what is queued, which is all that is left.
LEMMA DestroyFreeFate ==
  ASSUME IndInv, FateInv, NEW t \in Threads, DestroyFree(t)
  PROVE  FateInv'
<1> USE DEF DestroyFree, Goto, ghosts
<1>1. mutex = NoThread /\ \A u \in Threads : pc[u] \notin Locked
  BY ThreadAssumption DEF FateInv, EndInv, IndInv, MutexInv
<1>2. batch = NoBatch
  BY <1>1 DEF IndInv, BatchInv, Locked, FlushSteps
<1>3. /\ Queued' = {} /\ InPacket = {} /\ InArray = {}
      /\ InPacket' = {} /\ InArray' = {}
      /\ life' = Freed(Range(entries))
      /\ UNCHANGED <<sent, faults, addr, metrics, capacity>>
      /\ Len(entries') = 0
  <2>1. UNCHANGED <<InPacket, InArray>> /\ InPacket = {} /\ InArray = {}
    BY <1>2, NoPacket DEF InPacket, InArray, Flushed
  <2>2. Queued' = {}
    BY DEF Queued, Range
  <2> QED
    BY <2>1, <2>2
<1>4. SuccessIsSent' /\ AddressInv'
  BY <1>3 DEF FateInv, SuccessIsSent, AddressInv, SendMayFail
<1>5. CopyInv' /\ EndInv'
  BY <1>1 DEF FateInv, EndInv, CopyInv, IndInv, TypeOK, Locked, ReportSteps
<1>6. ValidInv'
  BY DEF ValidInv, Alive
<1>7. ReachInv'
  <2>1. ASSUME ~SendMayFail, NEW s \in Spans, life'[s] = "live"
        PROVE  FALSE
    <3>1. s \notin Range(entries) /\ life[s] = "live"
      BY <1>3, <2>1 DEF Freed
    <3>2. s \in Queued
      BY <1>1, <1>3, <2>1, <3>1 DEF FateInv, ReachInv, Locked, ReportSteps
    <3> QED
      BY <3>1, <3>2 DEF Queued
  <2> QED
    BY <1>3, <2>1, CapacityFacts DEF ReachInv, SendMayFail, IndInv, TypeOK
<1>8. PendingInv'
  BY <1>1, <1>3 DEF FateInv, PendingInv, MallocMayFail, IndInv, TypeOK, Locked,
     FlushSteps
<1> QED
  BY <1>4, <1>5, <1>6, <1>7, <1>8 DEF FateInv

---------------------------------------------------------------------------
\* Nothing has happened to any span at first.
LEMMA FateInit == Init => FateInv
<1> SUFFICES ASSUME Init PROVE FateInv
  OBVIOUS
<1> USE DEF Init
<1>1. Queued = {} /\ InPacket = {} /\ InArray = {}
  BY NoPacket DEF Queued, Range
<1>2. InitCapacity \in Nat /\ Len(<<>>) = 0
  BY VectorAssumption
<1> QED
  BY <1>1, <1>2 DEF FateInv, SuccessIsSent, AddressInv, CopyInv, EndInv,
     ValidInv, ReachInv, PendingInv, FlushSteps

\* Every step of every thread preserves the invariant.
LEMMA FateNext == IndInv /\ FateInv /\ [Next]_vars => FateInv'
<1> SUFFICES ASSUME IndInv, FateInv, [Next]_vars PROVE FateInv'
  OBVIOUS
<1>1. CASE UNCHANGED vars
  <2>1. UNCHANGED <<Queued, InPacket, InArray>>
    BY <1>1 DEF vars, Queued, InPacket, InArray, Flushed
  <2> QED
    BY <1>1, <2>1 DEF vars, FateInv, SuccessIsSent, AddressInv, CopyInv, EndInv,
       ValidInv, ReachInv, PendingInv, Alive, MallocMayFail, SendMayFail
<1>2. ASSUME NEW t \in Threads, Step(t)
      PROVE  FateInv'
  <2>1. CASE AppendCrash(t) \/ BuildProcessFail(t) \/ BatchCrash(t) \/ DestroyCrash(t)
    BY <2>1, CrashFate DEF AppendCrash, BuildProcessFail, BatchCrash, DestroyCrash
  <2> QED
    BY <1>2, <2>1, ReserveRoomFate, ReserveGrowFate, ReserveFailFate,
       ConvertFate, ConvertFailFate, AppendSpanFate, BuildProcessFate,
       FlushDoneFate, LargeBatchErrorFate, BatchAllFate, BatchSplitFate,
       BatchSplitFailFate, FlushBatchOkFate, FlushBatchFailFate, UnlockFate,
       DestroyFreeFate DEF Step
<1> QED
  BY <1>1, <1>2, ReportLockFate, FlushLockFate, DestroyFlushFate DEF Next

\* Whatever fails, the fate of every span is what FateInv says.
THEOREM ReporterFate == Spec => []FateInv
<1> QED
  BY ReporterInvariant, FateInit, FateNext, PTL DEF Spec

\* The success counter is the number of spans handed to the socket, through
\* splits, failed writes and failed allocations (flush_batch).
THEOREM ReporterSuccessIsSent == Spec => []SuccessIsSent
<1>1. FateInv => SuccessIsSent
  BY DEF FateInv
<1> QED
  BY <1>1, ReporterFate, PTL

\* A reporter whose first write failed never sends anything (write_to_socket).
THEOREM ReporterMute == Spec => []MuteAfterFirstFailure
<1>1. FateInv => MuteAfterFirstFailure
  BY DEF FateInv, AddressInv, MuteAfterFirstFailure
<1> QED
  BY <1>1, ReporterFate, PTL

\* Unless an allocation and a write may both fail, no freed span is queued or
\* being written (build_batch, flush_batch).
THEOREM ReporterNoDangling == Spec => []NoDanglingUnlessBoth
<1>1. FateInv => NoDanglingUnlessBoth
  BY DEF FateInv, ValidInv, NoDanglingUnlessBoth, NoDangling, Queued, InPacket
<1> QED
  BY <1>1, ReporterFate, PTL

\* While writes succeed no copy is lost, whatever allocations fail (report,
\* build_batch, destroy).
THEOREM ReporterNoLeak == Spec => []NoLeakWhileSending
<1>1. ASSUME IndInv, FateInv PROVE NoLeakWhileSending
  <2>1. InPacket \subseteq InArray
    <3>1. CASE \E t \in Threads : pc[t] = "write"
      BY <1>1, <3>1, PacketFacts
    <3>2. CASE \A t \in Threads : pc[t] # "write"
      BY <1>1, <3>2, NoPacket DEF IndInv, BatchInv
    <3> QED
      BY <3>1, <3>2
  <2> QED
    BY <1>1, <2>1 DEF FateInv, ReachInv, NoLeakWhileSending, NoLeak, Queued,
       InArray
<1> QED
  BY <1>1, ReporterInvariant, ReporterFate, PTL

\* With memory to spare, a flush that returns true has sent everything that
\* was queued when it took the mutex (remote_reporter_flush).
THEOREM ReporterFlushTrue == Spec => []FlushTrueWithMemory
<1>1. FateInv => FlushTrueWithMemory
  BY DEF FateInv, PendingInv, FlushTrueWithMemory, FlushTrueDelivers
<1> QED
  BY <1>1, ReporterFate, PTL
====
