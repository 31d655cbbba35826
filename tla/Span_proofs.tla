---------------------------- MODULE Span_proofs ----------------------------
(***************************************************************************)
(* Proofs about the locking of spans, for every number of threads, spans   *)
(* and calls and every choice of operations per thread.  IndInv says where *)
(* the owner of a mutex is; a step of one thread leaves the others where   *)
(* they are, so each lemma looks at the thread that moves and at those     *)
(* that share its span.                                                    *)
(***************************************************************************)
EXTENDS Span, TLAPS

USE DEF vars, mutexes, members, setup, Goto, RecordOps, PairOps, AllOps,
        InnerOps, Labels, Owners

---------------------------------------------------------------------------
(* jaeger_lock *)

\* The first lock of jaeger_lock: the thread owns the mutex it waited for.
LEMMA Lock0Inv ==
  ASSUME IndInv, NEW t \in Threads, Lock0(t)
  PROVE  IndInv'
<1> USE DEF Lock0, First, SetFirst
<1>1. TypeOK'
  <2>1. CASE swapped[t]
    BY <2>1 DEF IndInv, TypeOK
  <2>2. CASE ~(swapped[t])
    BY <2>2 DEF IndInv, TypeOK
  <2> QED
    BY <2>1, <2>2
<1>2. OpInv'
  BY DEF IndInv, TypeOK, OpInv
<1>3. OwnerInv'
  BY ThreadAssumption DEF IndInv, TypeOK, OpInv, OwnerInv, HoldsSpan,
     HoldsContext, HoldsReporter
<1>4. HolderInv'
  BY ThreadAssumption DEF IndInv, TypeOK, OpInv, HolderInv, HoldsSpan,
     HoldsContext, Disciplined
<1>5. SnapshotInv'
  BY DEF IndInv, TypeOK, OpInv, HolderInv, SnapshotInv, HoldsSpan, Disciplined
<1>6. FinishInv'
  BY DEF IndInv, TypeOK, OpInv, HolderInv, FinishInv, HoldsSpan, Disciplined
<1>7. ReportInv'
  BY DEF IndInv, TypeOK, OpInv, SnapshotInv, FinishInv, ReportInv, Disciplined
<1> QED
  BY <1>1, <1>2, <1>3, <1>4, <1>5, <1>6, <1>7 DEF IndInv

\* The trylock succeeds: the thread owns both mutexes.
LEMMA TryLock1Inv ==
  ASSUME IndInv, NEW t \in Threads, TryLock1(t)
  PROVE  IndInv'
<1> USE DEF TryLock1, Second, SetSecond
<1>1. TypeOK'
  <2>1. CASE swapped[t]
    BY <2>1 DEF IndInv, TypeOK
  <2>2. CASE ~(swapped[t])
    BY <2>2 DEF IndInv, TypeOK
  <2> QED
    BY <2>1, <2>2
<1>2. OpInv'
  BY DEF IndInv, TypeOK, OpInv
<1>3. OwnerInv'
  BY ThreadAssumption DEF IndInv, TypeOK, OpInv, OwnerInv, HoldsSpan,
     HoldsContext, HoldsReporter
<1>4. HolderInv'
  BY ThreadAssumption DEF IndInv, TypeOK, OpInv, HolderInv, HoldsSpan,
     HoldsContext, Disciplined
<1>5. SnapshotInv'
  BY DEF IndInv, TypeOK, OpInv, HolderInv, SnapshotInv, HoldsSpan, Disciplined
<1>6. FinishInv'
  BY DEF IndInv, TypeOK, OpInv, HolderInv, FinishInv, HoldsSpan, Disciplined
<1>7. ReportInv'
  BY DEF IndInv, TypeOK, OpInv, SnapshotInv, FinishInv, ReportInv, Disciplined
<1> QED
  BY <1>1, <1>2, <1>3, <1>4, <1>5, <1>6, <1>7 DEF IndInv

\* The trylock fails: the thread still owns the first mutex.
LEMMA TryLock1BusyInv ==
  ASSUME IndInv, NEW t \in Threads, TryLock1Busy(t)
  PROVE  IndInv'
<1> USE DEF TryLock1Busy, Second
<1>1. TypeOK'
  BY DEF IndInv, TypeOK
<1>2. OpInv'
  BY DEF IndInv, TypeOK, OpInv
<1>3. OwnerInv'
  BY ThreadAssumption DEF IndInv, TypeOK, OpInv, OwnerInv, HoldsSpan,
     HoldsContext, HoldsReporter
<1>4. HolderInv'
  BY ThreadAssumption DEF IndInv, TypeOK, OpInv, HolderInv, HoldsSpan,
     HoldsContext, Disciplined
<1>5. SnapshotInv'
  BY DEF IndInv, TypeOK, OpInv, HolderInv, SnapshotInv, HoldsSpan, Disciplined
<1>6. FinishInv'
  BY DEF IndInv, TypeOK, OpInv, HolderInv, FinishInv, HoldsSpan, Disciplined
<1>7. ReportInv'
  BY DEF IndInv, TypeOK, OpInv, SnapshotInv, FinishInv, ReportInv, Disciplined
<1> QED
  BY <1>1, <1>2, <1>3, <1>4, <1>5, <1>6, <1>7 DEF IndInv

\* The first mutex is given back before the two are exchanged.
LEMMA BackoffInv ==
  ASSUME IndInv, NEW t \in Threads, Backoff(t)
  PROVE  IndInv'
<1> USE DEF Backoff, SetFirst
<1>1. TypeOK'
  BY DEF IndInv, TypeOK
<1>2. OpInv'
  BY DEF IndInv, TypeOK, OpInv
<1>3. OwnerInv'
  BY ThreadAssumption DEF IndInv, TypeOK, OpInv, OwnerInv, HoldsSpan,
     HoldsContext, HoldsReporter
<1>4. HolderInv'
  BY ThreadAssumption DEF IndInv, TypeOK, OpInv, HolderInv, HoldsSpan,
     HoldsContext, Disciplined
<1>5. SnapshotInv'
  BY DEF IndInv, TypeOK, OpInv, HolderInv, SnapshotInv, HoldsSpan, Disciplined
<1>6. FinishInv'
  BY DEF IndInv, TypeOK, OpInv, HolderInv, FinishInv, HoldsSpan, Disciplined
<1>7. ReportInv'
  BY DEF IndInv, TypeOK, OpInv, SnapshotInv, FinishInv, ReportInv, Disciplined
<1> QED
  BY <1>1, <1>2, <1>3, <1>4, <1>5, <1>6, <1>7 DEF IndInv

---------------------------------------------------------------------------
(* Operations under span->mutex *)

\* span->mutex is taken by a recording operation, start_span or span_copy.
LEMMA LockSpanInv ==
  ASSUME IndInv, NEW t \in Threads, LockSpan(t)
  PROVE  IndInv'
<1> USE DEF LockSpan
<1>1. TypeOK'
  BY DEF IndInv, TypeOK
<1>2. OpInv'
  BY DEF IndInv, TypeOK, OpInv
<1>3. OwnerInv'
  <2> SUFFICES ASSUME NEW u \in Threads, NEW s \in Spans
               PROVE  /\ spanMutex'[s] = u => on'[u] = s /\ HoldsSpan(u)'
                      /\ contextMutex'[s] = u => on'[u] = s /\ HoldsContext(u)'
                      /\ reporterMutex' = u => HoldsReporter(u)'
    BY SpanAssumption DEF OwnerInv
  <2>1. CASE u = t
    <3>1. /\ op[t] \in RecordOps \cup {"start", "copy"}
          /\ op[t] = "start" => ~swapped[t]
      BY DEF IndInv, OpInv
    <3>2. ~HoldsContext(t) /\ contextMutex[s] # t
      BY DEF IndInv, OwnerInv, HoldsContext
    <3>3. reporterMutex = t => HoldsReporter(t)'
      BY SMTT(30) DEF IndInv, TypeOK, OwnerInv, HoldsReporter
    <3> QED
      BY <2>1, <3>1, <3>2, <3>3 DEF IndInv, TypeOK, OwnerInv, HoldsSpan
  <2>2. CASE u # t
    BY <2>2, ThreadAssumption DEF IndInv, TypeOK, OwnerInv, HoldsSpan,
       HoldsContext, HoldsReporter
  <2> QED
    BY <2>1, <2>2
<1>4. HolderInv'
  <2> SUFFICES ASSUME Disciplined, NEW u \in Threads
               PROVE  /\ HoldsSpan(u)' => spanMutex'[on'[u]] = u
                      /\ HoldsContext(u)' => contextMutex'[on'[u]] = u
                      /\ op'[u] = "start" =>
                           pc'[u] \in {"lock_span", "lock0"} /\ ~swapped'[u]
    BY DEF HolderInv, Disciplined
  <2>1. CASE u = t
    BY <2>1 DEF IndInv, TypeOK, OpInv, HoldsContext
  <2>2. CASE u # t
    <3>1. HoldsSpan(u)' = HoldsSpan(u) /\ HoldsContext(u)' = HoldsContext(u)
      BY <2>2 DEF IndInv, TypeOK, HoldsSpan, HoldsContext
    <3>2. HoldsSpan(u) => spanMutex[on[u]] = u /\ on[u] # on[t]
      BY ThreadAssumption DEF IndInv, HolderInv
    <3> QED
      BY <2>2, <3>1, <3>2 DEF IndInv, TypeOK, HolderInv
  <2> QED
    BY <2>1, <2>2
<1>5. SnapshotInv'
  BY DEF IndInv, TypeOK, OpInv, HolderInv, SnapshotInv, HoldsSpan, Disciplined
<1>6. FinishInv'
  BY DEF IndInv, TypeOK, OpInv, HolderInv, FinishInv, HoldsSpan, Disciplined
<1>7. ReportInv'
  BY DEF IndInv, TypeOK, OpInv, SnapshotInv, FinishInv, ReportInv, Disciplined
<1> QED
  BY <1>1, <1>2, <1>3, <1>4, <1>5, <1>6, <1>7 DEF IndInv

\* The flag is read under span->mutex and holds until the mutex is released.
LEMMA CheckSampledInv ==
  ASSUME IndInv, NEW t \in Threads, CheckSampled(t)
  PROVE  IndInv'
<1> USE DEF CheckSampled
<1>1. TypeOK'
  BY DEF IndInv, TypeOK
<1>2. OpInv'
  BY DEF IndInv, TypeOK, OpInv
<1>3. OwnerInv'
  BY ThreadAssumption DEF IndInv, TypeOK, OpInv, OwnerInv, HoldsSpan,
     HoldsContext, HoldsReporter
<1>4. HolderInv'
  <2> SUFFICES ASSUME Disciplined, NEW u \in Threads
               PROVE  /\ HoldsSpan(u)' => spanMutex[on[u]] = u
                      /\ HoldsContext(u)' => contextMutex[on[u]] = u
                      /\ op[u] = "start" =>
                           pc'[u] \in {"lock_span", "lock0"} /\ ~swapped[u]
    BY DEF HolderInv, Disciplined
  <2>1. CASE u = t
    BY <2>1 DEF IndInv, TypeOK, OpInv, HolderInv, HoldsSpan, HoldsContext
  <2>2. CASE u # t
    <3>1. HoldsSpan(u)' = HoldsSpan(u) /\ HoldsContext(u)' = HoldsContext(u)
      BY <2>2 DEF IndInv, TypeOK, HoldsSpan, HoldsContext
    <3> QED
      BY <2>2, <3>1 DEF IndInv, TypeOK, HolderInv
  <2> QED
    BY <2>1, <2>2
<1>5. SnapshotInv'
  BY DEF IndInv, TypeOK, OpInv, HolderInv, SnapshotInv, HoldsSpan, Disciplined
<1>6. FinishInv'
  BY DEF IndInv, TypeOK, OpInv, HolderInv, FinishInv, HoldsSpan, Disciplined
<1>7. ReportInv'
  BY DEF IndInv, TypeOK, OpInv, SnapshotInv, FinishInv, ReportInv, Disciplined
<1> QED
  BY <1>1, <1>2, <1>3, <1>4, <1>5, <1>6, <1>7 DEF IndInv

\* A name, a tag or a log is recorded; no copy of the span is under way.
LEMMA RecordInv ==
  ASSUME IndInv, NEW t \in Threads, Record(t)
  PROVE  IndInv'
<1> USE DEF Record
<1>1. TypeOK'
  <2>1. recorded' \in [Spans -> Nat]
    BY DEF IndInv, TypeOK
  <2> QED
    BY <2>1 DEF IndInv, TypeOK
<1>2. OpInv'
  BY DEF IndInv, TypeOK, OpInv
<1>3. OwnerInv'
  BY ThreadAssumption DEF IndInv, TypeOK, OpInv, OwnerInv, HoldsSpan,
     HoldsContext, HoldsReporter
<1>4. HolderInv'
  BY ThreadAssumption DEF IndInv, TypeOK, OpInv, HolderInv, HoldsSpan,
     HoldsContext, Disciplined
<1>5. SnapshotInv'
  BY DEF IndInv, TypeOK, OpInv, HolderInv, SnapshotInv, HoldsSpan, Disciplined
<1>6. FinishInv'
  <2>1. op[t] \in RecordOps \ {"finish"} /\ pc[t] = "record"
    BY DEF IndInv, OpInv
  <2>2. /\ op' = op /\ on' = on /\ sampled' = sampled /\ late' = late
        /\ duration' = duration /\ Disciplined' = Disciplined
        /\ \A u \in Threads : u # t => pc'[u] = pc[u]
        /\ pc'[t] = "unlock_span"
    BY DEF IndInv, TypeOK, Disciplined
  <2> QED
    BY <2>1, <2>2 DEF IndInv, FinishInv
<1>7. ReportInv'
  BY DEF IndInv, TypeOK, OpInv, SnapshotInv, FinishInv, ReportInv, Disciplined
<1> QED
  BY <1>1, <1>2, <1>3, <1>4, <1>5, <1>6, <1>7 DEF IndInv

\* finish sets the duration; no copy of the span is under way.
LEMMA RecordFinishInv ==
  ASSUME IndInv, NEW t \in Threads, RecordFinish(t)
  PROVE  IndInv'
<1> USE DEF RecordFinish
<1>1. TypeOK'
  <2>1. recorded' \in [Spans -> Nat]
    BY DEF IndInv, TypeOK
  <2> QED
    BY <2>1 DEF IndInv, TypeOK
<1>2. OpInv'
  BY DEF IndInv, TypeOK, OpInv
<1>3. OwnerInv'
  BY ThreadAssumption DEF IndInv, TypeOK, OpInv, OwnerInv, HoldsSpan,
     HoldsContext, HoldsReporter
<1>4. HolderInv'
  BY ThreadAssumption DEF IndInv, TypeOK, OpInv, HolderInv, HoldsSpan,
     HoldsContext, Disciplined
<1>5. SnapshotInv'
  <2> SUFFICES ASSUME Disciplined, NEW u \in Threads, u # t
               PROVE  /\ pc[u] = "record" => sampled[on[u]]
                      /\ op[u] = "copy" /\ pc[u] \in {"lock_context", "context",
                                      "unlock_context", "copy_rest"} =>
                         copied[u] = [duration |-> duration'[on[u]],
                                      recorded |-> recorded'[on[u]]]
    BY DEF IndInv, TypeOK, SnapshotInv, Disciplined
  <2>1. HoldsSpan(t)
    BY DEF HoldsSpan
  <2>2. HoldsSpan(u) => on[u] # on[t]
    BY <2>1 DEF IndInv, HolderInv
  <2>3. /\ op[u] = "copy"
        /\ pc[u] \in {"lock_context", "context", "unlock_context", "copy_rest"}
        => HoldsSpan(u)
    BY DEF HoldsSpan
  <2>4. on[u] # on[t] => /\ duration'[on[u]] = duration[on[u]]
                         /\ recorded'[on[u]] = recorded[on[u]]
    BY DEF IndInv, TypeOK
  <2> QED
    BY <2>2, <2>3, <2>4 DEF IndInv, SnapshotInv, Disciplined
<1>6. FinishInv'
  BY DEF IndInv, TypeOK, OpInv, HolderInv, FinishInv, HoldsSpan, Disciplined
<1>7. ReportInv'
  BY DEF IndInv, TypeOK, OpInv, SnapshotInv, FinishInv, ReportInv, Disciplined
<1> QED
  BY <1>1, <1>2, <1>3, <1>4, <1>5, <1>6, <1>7 DEF IndInv

---------------------------------------------------------------------------
(* Operations under both mutexes *)

\* A span that is still sampled goes on to the reporter.
LEMMA ReadSampledInv ==
  ASSUME IndInv, NEW t \in Threads, ReadSampled(t)
  PROVE  IndInv'
<1> USE DEF ReadSampled
<1>1. TypeOK'
  BY DEF IndInv, TypeOK
<1>2. OpInv'
  BY DEF IndInv, TypeOK, OpInv
<1>3. OwnerInv'
  BY ThreadAssumption DEF IndInv, TypeOK, OpInv, OwnerInv, HoldsSpan,
     HoldsContext, HoldsReporter
<1>4. HolderInv'
  BY ThreadAssumption DEF IndInv, TypeOK, OpInv, HolderInv, HoldsSpan,
     HoldsContext, Disciplined
<1>5. SnapshotInv'
  BY DEF IndInv, TypeOK, OpInv, HolderInv, SnapshotInv, HoldsSpan, Disciplined
<1>6. FinishInv'
  BY DEF IndInv, TypeOK, OpInv, HolderInv, FinishInv, HoldsSpan, Disciplined
<1>7. ReportInv'
  BY DEF IndInv, TypeOK, OpInv, SnapshotInv, FinishInv, ReportInv, Disciplined
<1> QED
  BY <1>1, <1>2, <1>3, <1>4, <1>5, <1>6, <1>7 DEF IndInv

\* Writing the baggage touches nothing the invariant speaks of.
LEMMA SetBaggageItemInv ==
  ASSUME IndInv, NEW t \in Threads, SetBaggageItem(t)
  PROVE  IndInv'
<1> USE DEF SetBaggageItem
<1>1. TypeOK'
  BY SMTT(30) DEF IndInv, TypeOK
<1>2. OpInv'
  BY DEF IndInv, TypeOK, OpInv
<1>3. OwnerInv'
  BY ThreadAssumption DEF IndInv, TypeOK, OpInv, OwnerInv, HoldsSpan,
     HoldsContext, HoldsReporter
<1>4. HolderInv'
  BY ThreadAssumption DEF IndInv, TypeOK, OpInv, HolderInv, HoldsSpan,
     HoldsContext, Disciplined
<1>5. SnapshotInv'
  BY DEF IndInv, TypeOK, OpInv, HolderInv, SnapshotInv, HoldsSpan, Disciplined
<1>6. FinishInv'
  BY DEF IndInv, TypeOK, OpInv, HolderInv, FinishInv, HoldsSpan, Disciplined
<1>7. ReportInv'
  BY DEF IndInv, TypeOK, OpInv, SnapshotInv, FinishInv, ReportInv, Disciplined
<1> QED
  BY <1>1, <1>2, <1>3, <1>4, <1>5, <1>6, <1>7 DEF IndInv

\* Nor does reading it.
LEMMA BaggageItemInv ==
  ASSUME IndInv, NEW t \in Threads, BaggageItem(t)
  PROVE  IndInv'
<1> USE DEF BaggageItem
<1>1. TypeOK'
  BY DEF IndInv, TypeOK
<1>2. OpInv'
  BY DEF IndInv, TypeOK, OpInv
<1>3. OwnerInv'
  BY ThreadAssumption DEF IndInv, TypeOK, OpInv, OwnerInv, HoldsSpan,
     HoldsContext, HoldsReporter
<1>4. HolderInv'
  BY ThreadAssumption DEF IndInv, TypeOK, OpInv, HolderInv, HoldsSpan,
     HoldsContext, Disciplined
<1>5. SnapshotInv'
  BY DEF IndInv, TypeOK, OpInv, HolderInv, SnapshotInv, HoldsSpan, Disciplined
<1>6. FinishInv'
  BY DEF IndInv, TypeOK, OpInv, HolderInv, FinishInv, HoldsSpan, Disciplined
<1>7. ReportInv'
  BY DEF IndInv, TypeOK, OpInv, SnapshotInv, FinishInv, ReportInv, Disciplined
<1> QED
  BY <1>1, <1>2, <1>3, <1>4, <1>5, <1>6, <1>7 DEF IndInv

\* Sampling changes while nobody is between check and record; a span that
\* is being reported becomes late.
LEMMA SetSamplingPriorityInv ==
  ASSUME IndInv, NEW t \in Threads, SetSamplingPriority(t)
  PROVE  IndInv'
<1> USE DEF SetSamplingPriority
<1>1. TypeOK'
  BY DEF IndInv, TypeOK
<1>2. OpInv'
  BY DEF IndInv, TypeOK, OpInv
<1>3. OwnerInv'
  BY ThreadAssumption DEF IndInv, TypeOK, OpInv, OwnerInv, HoldsSpan,
     HoldsContext, HoldsReporter
<1>4. HolderInv'
  BY ThreadAssumption DEF IndInv, TypeOK, OpInv, HolderInv, HoldsSpan,
     HoldsContext, Disciplined
<1>5. SnapshotInv'
  BY DEF IndInv, TypeOK, OpInv, HolderInv, SnapshotInv, HoldsSpan, Disciplined
<1>6. FinishInv'
  BY DEF IndInv, TypeOK, OpInv, HolderInv, FinishInv, HoldsSpan, Disciplined
<1>7. ReportInv'
  BY DEF IndInv, TypeOK, OpInv, SnapshotInv, FinishInv, ReportInv, Disciplined
<1> QED
  BY <1>1, <1>2, <1>3, <1>4, <1>5, <1>6, <1>7 DEF IndInv

\* The remote reporter keeps a copy made under both mutexes.
LEMMA ToProtobufInv ==
  ASSUME IndInv, NEW t \in Threads, ToProtobuf(t)
  PROVE  IndInv'
<1> USE DEF ToProtobuf, Keep, Report
<1>1. TypeOK'
  <2>1. on[t] \in Spans /\ recorded[on[t]] \in Nat /\ reports \subseteq Report
    BY DEF IndInv, TypeOK
  <2>2. [span |-> on[t], duration |-> FALSE, before |-> recorded[on[t]],
         after |-> recorded[on[t]]] \in Report
    BY <2>1
  <2>3. reports' \subseteq Report
    BY <2>1, <2>2
  <2> QED
    BY <2>3 DEF IndInv, TypeOK
<1>2. OpInv'
  BY DEF IndInv, TypeOK, OpInv
<1>3. OwnerInv'
  BY ThreadAssumption DEF IndInv, TypeOK, OpInv, OwnerInv, HoldsSpan,
     HoldsContext, HoldsReporter
<1>4. HolderInv'
  BY ThreadAssumption DEF IndInv, TypeOK, OpInv, HolderInv, HoldsSpan,
     HoldsContext, Disciplined
<1>5. SnapshotInv'
  BY DEF IndInv, TypeOK, OpInv, HolderInv, SnapshotInv, HoldsSpan, Disciplined
<1>6. FinishInv'
  BY DEF IndInv, TypeOK, OpInv, HolderInv, FinishInv, HoldsSpan, Disciplined
<1>7. ReportInv'
  BY DEF IndInv, TypeOK, OpInv, SnapshotInv, FinishInv, ReportInv, Disciplined
<1> QED
  BY <1>1, <1>2, <1>3, <1>4, <1>5, <1>6, <1>7 DEF IndInv

---------------------------------------------------------------------------
(* Operations under context.mutex *)

\* context.mutex is taken by foreach_baggage_item or, inside span_copy, by a
\* thread that owns span->mutex.
LEMMA LockContextInv ==
  ASSUME IndInv, NEW t \in Threads, LockContext(t)
  PROVE  IndInv'
<1> USE DEF LockContext
<1>1. TypeOK'
  BY DEF IndInv, TypeOK
<1>2. OpInv'
  BY DEF IndInv, TypeOK, OpInv
<1>3. OwnerInv'
  BY ThreadAssumption DEF IndInv, TypeOK, OpInv, OwnerInv, HoldsSpan,
     HoldsContext, HoldsReporter
<1>4. HolderInv'
  BY ThreadAssumption DEF IndInv, TypeOK, OpInv, HolderInv, HoldsSpan,
     HoldsContext, Disciplined
<1>5. SnapshotInv'
  BY DEF IndInv, TypeOK, OpInv, HolderInv, SnapshotInv, HoldsSpan, Disciplined
<1>6. FinishInv'
  BY DEF IndInv, TypeOK, OpInv, HolderInv, FinishInv, HoldsSpan, Disciplined
<1>7. ReportInv'
  BY DEF IndInv, TypeOK, OpInv, SnapshotInv, FinishInv, ReportInv, Disciplined
<1> QED
  BY <1>1, <1>2, <1>3, <1>4, <1>5, <1>6, <1>7 DEF IndInv

\* The context is read.
LEMMA ReadContextInv ==
  ASSUME IndInv, NEW t \in Threads, ReadContext(t)
  PROVE  IndInv'
<1> USE DEF ReadContext
<1>1. TypeOK'
  BY DEF IndInv, TypeOK
<1>2. OpInv'
  BY DEF IndInv, TypeOK, OpInv
<1>3. OwnerInv'
  BY ThreadAssumption DEF IndInv, TypeOK, OpInv, OwnerInv, HoldsSpan,
     HoldsContext, HoldsReporter
<1>4. HolderInv'
  BY ThreadAssumption DEF IndInv, TypeOK, OpInv, HolderInv, HoldsSpan,
     HoldsContext, Disciplined
<1>5. SnapshotInv'
  BY DEF IndInv, TypeOK, OpInv, HolderInv, SnapshotInv, HoldsSpan, Disciplined
<1>6. FinishInv'
  BY DEF IndInv, TypeOK, OpInv, HolderInv, FinishInv, HoldsSpan, Disciplined
<1>7. ReportInv'
  BY DEF IndInv, TypeOK, OpInv, SnapshotInv, FinishInv, ReportInv, Disciplined
<1> QED
  BY <1>1, <1>2, <1>3, <1>4, <1>5, <1>6, <1>7 DEF IndInv

---------------------------------------------------------------------------
(* Unlocking *)

\* span->mutex is given back; finish goes on to report.
LEMMA UnlockSpanInv ==
  ASSUME IndInv, NEW t \in Threads, UnlockSpan(t)
  PROVE  IndInv'
<1> USE DEF UnlockSpan
<1>1. TypeOK'
  BY DEF IndInv, TypeOK
<1>2. OpInv'
  BY DEF IndInv, TypeOK, OpInv
<1>3. OwnerInv'
  BY ThreadAssumption DEF IndInv, TypeOK, OpInv, OwnerInv, HoldsSpan,
     HoldsContext, HoldsReporter
<1>4. HolderInv'
  BY ThreadAssumption DEF IndInv, TypeOK, OpInv, HolderInv, HoldsSpan,
     HoldsContext, Disciplined
<1>5. SnapshotInv'
  BY DEF IndInv, TypeOK, OpInv, HolderInv, SnapshotInv, HoldsSpan, Disciplined
<1>6. FinishInv'
  BY DEF IndInv, TypeOK, OpInv, HolderInv, FinishInv, HoldsSpan, Disciplined
<1>7. ReportInv'
  BY DEF IndInv, TypeOK, OpInv, SnapshotInv, FinishInv, ReportInv, Disciplined
<1> QED
  BY <1>1, <1>2, <1>3, <1>4, <1>5, <1>6, <1>7 DEF IndInv

\* context.mutex is given back; a report goes on to the reporter.
LEMMA UnlockContextInv ==
  ASSUME IndInv, NEW t \in Threads, UnlockContext(t)
  PROVE  IndInv'
<1> USE DEF UnlockContext
<1>1. TypeOK'
  BY DEF IndInv, TypeOK
<1>2. OpInv'
  BY DEF IndInv, TypeOK, OpInv
<1>3. OwnerInv'
  BY ThreadAssumption DEF IndInv, TypeOK, OpInv, OwnerInv, HoldsSpan,
     HoldsContext, HoldsReporter
<1>4. HolderInv'
  BY ThreadAssumption DEF IndInv, TypeOK, OpInv, HolderInv, HoldsSpan,
     HoldsContext, Disciplined
<1>5. SnapshotInv'
  BY DEF IndInv, TypeOK, OpInv, HolderInv, SnapshotInv, HoldsSpan, Disciplined
<1>6. FinishInv'
  BY DEF IndInv, TypeOK, OpInv, HolderInv, FinishInv, HoldsSpan, Disciplined
<1>7. ReportInv'
  BY DEF IndInv, TypeOK, OpInv, SnapshotInv, FinishInv, ReportInv, Disciplined
<1> QED
  BY <1>1, <1>2, <1>3, <1>4, <1>5, <1>6, <1>7 DEF IndInv

\* baggage_item returns and holds nothing.
LEMMA ReturnItemInv ==
  ASSUME IndInv, NEW t \in Threads, ReturnItem(t)
  PROVE  IndInv'
<1> USE DEF ReturnItem
<1>1. TypeOK'
  BY DEF IndInv, TypeOK
<1>2. OpInv'
  BY DEF IndInv, TypeOK, OpInv
<1>3. OwnerInv'
  BY ThreadAssumption DEF IndInv, TypeOK, OpInv, OwnerInv, HoldsSpan,
     HoldsContext, HoldsReporter
<1>4. HolderInv'
  BY ThreadAssumption DEF IndInv, TypeOK, OpInv, HolderInv, HoldsSpan,
     HoldsContext, Disciplined
<1>5. SnapshotInv'
  BY DEF IndInv, TypeOK, OpInv, HolderInv, SnapshotInv, HoldsSpan, Disciplined
<1>6. FinishInv'
  BY DEF IndInv, TypeOK, OpInv, HolderInv, FinishInv, HoldsSpan, Disciplined
<1>7. ReportInv'
  BY DEF IndInv, TypeOK, OpInv, SnapshotInv, FinishInv, ReportInv, Disciplined
<1> QED
  BY <1>1, <1>2, <1>3, <1>4, <1>5, <1>6, <1>7 DEF IndInv

---------------------------------------------------------------------------
(* Reporting *)

\* The reporter's mutex is taken by a thread that owns no other.
LEMMA LockReporterInv ==
  ASSUME IndInv, NEW t \in Threads, LockReporter(t)
  PROVE  IndInv'
<1> USE DEF LockReporter
<1>1. TypeOK'
  BY DEF IndInv, TypeOK
<1>2. OpInv'
  BY DEF IndInv, TypeOK, OpInv
<1>3. OwnerInv'
  BY ThreadAssumption DEF IndInv, TypeOK, OpInv, OwnerInv, HoldsSpan,
     HoldsContext, HoldsReporter
<1>4. HolderInv'
  BY ThreadAssumption DEF IndInv, TypeOK, OpInv, HolderInv, HoldsSpan,
     HoldsContext, Disciplined
<1>5. SnapshotInv'
  BY DEF IndInv, TypeOK, OpInv, HolderInv, SnapshotInv, HoldsSpan, Disciplined
<1>6. FinishInv'
  BY DEF IndInv, TypeOK, OpInv, HolderInv, FinishInv, HoldsSpan, Disciplined
<1>7. ReportInv'
  BY DEF IndInv, TypeOK, OpInv, SnapshotInv, FinishInv, ReportInv, Disciplined
<1> QED
  BY <1>1, <1>2, <1>3, <1>4, <1>5, <1>6, <1>7 DEF IndInv

\* The copy of the span is about to be made.
LEMMA ConvertInv ==
  ASSUME IndInv, NEW t \in Threads, Convert(t)
  PROVE  IndInv'
<1> USE DEF Convert
<1>1. TypeOK'
  <2>1. op' \in [Threads -> AllOps \cup InnerOps \cup {"none"}]
    BY DEF IndInv, TypeOK
  <2>2. pc' \in [Threads -> Labels] /\ swapped' \in [Threads -> BOOLEAN]
    BY DEF IndInv, TypeOK
  <2> QED
    BY <2>1, <2>2 DEF IndInv, TypeOK
<1>2. OpInv'
  BY DEF IndInv, TypeOK, OpInv
<1>3. OwnerInv'
  BY ThreadAssumption DEF IndInv, TypeOK, OpInv, OwnerInv, HoldsSpan,
     HoldsContext, HoldsReporter
<1>4. HolderInv'
  BY ThreadAssumption DEF IndInv, TypeOK, OpInv, HolderInv, HoldsSpan,
     HoldsContext, Disciplined
<1>5. SnapshotInv'
  BY DEF IndInv, TypeOK, OpInv, HolderInv, SnapshotInv, HoldsSpan, Disciplined
<1>6. FinishInv'
  BY DEF IndInv, TypeOK, OpInv, FinishInv, Disciplined
<1>7. ReportInv'
  BY DEF IndInv, TypeOK, OpInv, SnapshotInv, FinishInv, ReportInv, Disciplined
<1> QED
  BY <1>1, <1>2, <1>3, <1>4, <1>5, <1>6, <1>7 DEF IndInv

\* There is no memory for it.
LEMMA ConvertNoRoomInv ==
  ASSUME IndInv, NEW t \in Threads, ConvertNoRoom(t)
  PROVE  IndInv'
<1> USE DEF ConvertNoRoom
<1>1. TypeOK'
  BY DEF IndInv, TypeOK
<1>2. OpInv'
  BY DEF IndInv, TypeOK, OpInv
<1>3. OwnerInv'
  BY ThreadAssumption DEF IndInv, TypeOK, OpInv, OwnerInv, HoldsSpan,
     HoldsContext, HoldsReporter
<1>4. HolderInv'
  BY ThreadAssumption DEF IndInv, TypeOK, OpInv, HolderInv, HoldsSpan,
     HoldsContext, Disciplined
<1>5. SnapshotInv'
  BY DEF IndInv, TypeOK, OpInv, HolderInv, SnapshotInv, HoldsSpan, Disciplined
<1>6. FinishInv'
  BY DEF IndInv, TypeOK, OpInv, HolderInv, FinishInv, HoldsSpan, Disciplined
<1>7. ReportInv'
  BY DEF IndInv, TypeOK, OpInv, SnapshotInv, FinishInv, ReportInv, Disciplined
<1> QED
  BY <1>1, <1>2, <1>3, <1>4, <1>5, <1>6, <1>7 DEF IndInv

\* The cleanup without locks: this thread pretends to hold both mutexes, which
\* OwnerInv allows and HolderInv excuses.
LEMMA ToProtobufEarlyFailInv ==
  ASSUME IndInv, NEW t \in Threads, ToProtobufEarlyFail(t)
  PROVE  IndInv'
<1> USE DEF ToProtobufEarlyFail
<1>1. TypeOK'
  BY DEF IndInv, TypeOK
<1>2. OpInv'
  BY DEF IndInv, TypeOK, OpInv
<1>3. OwnerInv'
  BY ThreadAssumption DEF IndInv, TypeOK, OpInv, OwnerInv, HoldsSpan,
     HoldsContext, HoldsReporter
<1>4. HolderInv'
  BY ThreadAssumption DEF IndInv, TypeOK, OpInv, HolderInv, HoldsSpan,
     HoldsContext, Disciplined
<1>5. SnapshotInv'
  BY DEF IndInv, TypeOK, OpInv, HolderInv, SnapshotInv, HoldsSpan, Disciplined
<1>6. FinishInv'
  BY DEF IndInv, TypeOK, OpInv, HolderInv, FinishInv, HoldsSpan, Disciplined
<1>7. ReportInv'
  BY DEF IndInv, TypeOK, OpInv, SnapshotInv, FinishInv, ReportInv, Disciplined
<1> QED
  BY <1>1, <1>2, <1>3, <1>4, <1>5, <1>6, <1>7 DEF IndInv

\* The first part of the copy is what the span is.
LEMMA CopySpanInv ==
  ASSUME IndInv, NEW t \in Threads, CopySpan(t)
  PROVE  IndInv'
<1> USE DEF CopySpan
<1>1. TypeOK'
  BY DEF IndInv, TypeOK
<1>2. OpInv'
  BY DEF IndInv, TypeOK, OpInv
<1>3. OwnerInv'
  BY ThreadAssumption DEF IndInv, TypeOK, OpInv, OwnerInv, HoldsSpan,
     HoldsContext, HoldsReporter
<1>4. HolderInv'
  BY ThreadAssumption DEF IndInv, TypeOK, OpInv, HolderInv, HoldsSpan,
     HoldsContext, Disciplined
<1>5. SnapshotInv'
  BY DEF IndInv, TypeOK, OpInv, HolderInv, SnapshotInv, HoldsSpan, Disciplined
<1>6. FinishInv'
  BY DEF IndInv, TypeOK, OpInv, HolderInv, FinishInv, HoldsSpan, Disciplined
<1>7. ReportInv'
  BY DEF IndInv, TypeOK, OpInv, SnapshotInv, FinishInv, ReportInv, Disciplined
<1> QED
  BY <1>1, <1>2, <1>3, <1>4, <1>5, <1>6, <1>7 DEF IndInv

\* The copy is completed with what the span still is.
LEMMA CopyRestInv ==
  ASSUME IndInv, NEW t \in Threads, CopyRest(t)
  PROVE  IndInv'
<1> USE DEF CopyRest, Keep, Report
<1>1. TypeOK'
  BY DEF IndInv, TypeOK
<1>2. OpInv'
  BY DEF IndInv, TypeOK, OpInv
<1>3. OwnerInv'
  BY ThreadAssumption DEF IndInv, TypeOK, OpInv, OwnerInv, HoldsSpan,
     HoldsContext, HoldsReporter
<1>4. HolderInv'
  BY ThreadAssumption DEF IndInv, TypeOK, OpInv, HolderInv, HoldsSpan,
     HoldsContext, Disciplined
<1>5. SnapshotInv'
  BY DEF IndInv, TypeOK, OpInv, HolderInv, SnapshotInv, HoldsSpan, Disciplined
<1>6. FinishInv'
  BY DEF IndInv, TypeOK, OpInv, HolderInv, FinishInv, HoldsSpan, Disciplined
<1>7. ReportInv'
  BY DEF IndInv, TypeOK, OpInv, SnapshotInv, FinishInv, ReportInv, Disciplined
<1> QED
  BY <1>1, <1>2, <1>3, <1>4, <1>5, <1>6, <1>7 DEF IndInv

\* The reporter's mutex is given back.
LEMMA UnlockReporterInv ==
  ASSUME IndInv, NEW t \in Threads, UnlockReporter(t)
  PROVE  IndInv'
<1> USE DEF UnlockReporter
<1>1. TypeOK'
  BY DEF IndInv, TypeOK
<1>2. OpInv'
  BY DEF IndInv, TypeOK, OpInv
<1>3. OwnerInv'
  BY ThreadAssumption DEF IndInv, TypeOK, OpInv, OwnerInv, HoldsSpan,
     HoldsContext, HoldsReporter
<1>4. HolderInv'
  BY ThreadAssumption DEF IndInv, TypeOK, OpInv, HolderInv, HoldsSpan,
     HoldsContext, Disciplined
<1>5. SnapshotInv'
  BY DEF IndInv, TypeOK, OpInv, HolderInv, SnapshotInv, HoldsSpan, Disciplined
<1>6. FinishInv'
  BY DEF IndInv, TypeOK, OpInv, HolderInv, FinishInv, HoldsSpan, Disciplined
<1>7. ReportInv'
  BY DEF IndInv, TypeOK, OpInv, SnapshotInv, FinishInv, ReportInv, Disciplined
<1> QED
  BY <1>1, <1>2, <1>3, <1>4, <1>5, <1>6, <1>7 DEF IndInv

---------------------------------------------------------------------------
(* The whole *)

\* A call begins in a thread that holds nothing.
LEMMA CallInv ==
  ASSUME IndInv, NEW t \in Threads, NEW o \in AllOps, NEW s \in Spans, Call(t, o, s)
  PROVE  IndInv'
<1> USE DEF Call, Entry
<1>1. TypeOK'
  BY EnvironmentAssumption DEF IndInv, TypeOK
<1>2. OpInv'
  BY DEF IndInv, TypeOK, OpInv
<1>3. OwnerInv'
  BY ThreadAssumption DEF IndInv, TypeOK, OwnerInv, HoldsSpan, HoldsContext,
     HoldsReporter
<1>4. HolderInv'
  BY DEF IndInv, TypeOK, HolderInv, HoldsSpan, HoldsContext, Disciplined
<1>5. SnapshotInv'
  BY DEF IndInv, TypeOK, SnapshotInv, Disciplined
<1>6. FinishInv'
  BY DEF IndInv, TypeOK, FinishInv, Disciplined
<1>7. ReportInv'
  BY DEF IndInv, ReportInv, Disciplined
<1> QED
  BY <1>1, <1>2, <1>3, <1>4, <1>5, <1>6, <1>7 DEF IndInv

\* Nobody holds anything at first.
LEMMA InitInv == Init => IndInv
<1> SUFFICES ASSUME Init PROVE IndInv
  OBVIOUS
<1>1. TypeOK
  BY SpanAssumption, EnvironmentAssumption DEF Init, TypeOK
<1>2. OpInv /\ HolderInv /\ SnapshotInv /\ FinishInv /\ ReportInv
  BY DEF Init, OpInv, HolderInv, HoldsSpan, HoldsContext, SnapshotInv,
     FinishInv, ReportInv
<1>3. OwnerInv
  BY ThreadAssumption DEF Init, OwnerInv
<1> QED
  BY <1>1, <1>2, <1>3 DEF IndInv

\* Every step of every thread preserves the invariant.
LEMMA NextInv == IndInv /\ [Next]_vars => IndInv'
<1> SUFFICES ASSUME IndInv, [Next]_vars PROVE IndInv'
  OBVIOUS
<1>1. CASE UNCHANGED vars
  BY <1>1 DEF IndInv, TypeOK, OpInv, OwnerInv, HolderInv, SnapshotInv,
     FinishInv, ReportInv, HoldsSpan, HoldsContext, HoldsReporter, Disciplined
<1>2. ASSUME NEW t \in Threads, Step(t)
      PROVE  IndInv'
  BY <1>2, Lock0Inv, TryLock1Inv, TryLock1BusyInv, BackoffInv, LockSpanInv,
     CheckSampledInv, RecordInv, RecordFinishInv, ReadSampledInv,
     SetBaggageItemInv, BaggageItemInv, SetSamplingPriorityInv, ToProtobufInv,
     LockContextInv, ReadContextInv, UnlockSpanInv, UnlockContextInv,
     ReturnItemInv, LockReporterInv, ConvertInv, ConvertNoRoomInv,
     ToProtobufEarlyFailInv, CopySpanInv, CopyRestInv, UnlockReporterInv DEF
     Step
<1>3. ASSUME NEW t \in Threads, NEW o \in AllOps, NEW s \in Spans, Call(t, o, s)
      PROVE  IndInv'
  BY <1>3, CallInv
<1> QED
  BY <1>1, <1>2, <1>3, SpanAssumption DEF Next, Start

\* The owner of a mutex is always where it holds it, a mutex taken is owned
\* unless to_protobuf unlocked it without having it, and spans stay as they
\* were checked and copied (span.c, threading.c, tracer.c).
THEOREM SpanInvariant == Spec => []IndInv
<1> QED
  BY InitInv, NextInv, PTL DEF Spec

\* Whoever writes a member holds a mutex that every reader and writer of that
\* member holds too, but for the reader of a baggage value it has found.
LEMMA OnlyItemRacesFact ==
  ASSUME IndInv
  PROVE  OnlyItemRaces
<1> SUFFICES ASSUME Disciplined, NEW t \in Threads, NEW u \in Threads,
                    t # u, on[t] = on[u],
                    NEW m \in Writing(t), m \in Reading(u) \cup Writing(u)
             PROVE  op[t] = "set_baggage_item" /\ pc[u] = "return_item"
  BY DEF OnlyItemRaces
<1>1. HoldsSpan(t) /\ HoldsSpan(u) => FALSE
  BY DEF IndInv, HolderInv
<1>2. HoldsContext(t) /\ HoldsContext(u) => FALSE
  BY DEF IndInv, HolderInv
<1>3. CASE pc[t] = "record"
  <2>1. m \in {"duration", "recorded"} /\ HoldsSpan(t)
    BY <1>3 DEF Writing, HoldsSpan
  <2>2. HoldsSpan(u)
    BY <2>1 DEF Writing, Reading, HoldsSpan
  <2> QED
    BY <1>1, <2>1, <2>2
<1>4. CASE pc[t] # "record"
  <2>1. /\ HoldsSpan(t) /\ HoldsContext(t)
        /\ \/ m = "flags"
           \/ m = "baggage" /\ op[t] = "set_baggage_item"
    BY <1>4 DEF Writing, HoldsSpan, HoldsContext
  <2>2. \/ HoldsSpan(u) \/ HoldsContext(u)
        \/ m = "baggage" /\ pc[u] = "return_item"
    BY <2>1 DEF Writing, Reading, HoldsSpan, HoldsContext
  <2> QED
    BY <1>1, <1>2, <2>1, <2>2
<1> QED
  BY <1>3, <1>4

\* The owner of a context's mutex waits for nobody, that of a span's for a
\* context at most, that of the reporter's for a span or a context: no cycle.
LEMMA OnlyStartDeadlocksFact ==
  ASSUME IndInv
  PROVE  OnlyStartDeadlocks
<1> SUFFICES ASSUME NEW T \in SUBSET {t \in Threads : op[t] # "start"},
                    NEW t \in T, \A u \in T : Blocker(u) \in T
             PROVE  FALSE
  BY DEF OnlyStartDeadlocks
<1>0. T \subseteq Threads /\ \A u \in T : op[u] # "start"
  OBVIOUS
<1>1. ASSUME NEW u \in T, NEW s \in Spans, contextMutex[s] = u
      PROVE  FALSE
  <2>1. HoldsContext(u)
    BY <1>0, <1>1 DEF IndInv, OwnerInv
  <2>2. Blocker(u) = NoThread
    BY <1>0, <2>1 DEF Blocker, HoldsContext
  <2> QED
    BY <1>0, <2>2, ThreadAssumption
<1>2. ASSUME NEW u \in T, NEW s \in Spans, spanMutex[s] = u
      PROVE  FALSE
  <2>1. HoldsSpan(u) /\ on[u] \in Spans
    BY <1>0, <1>2 DEF IndInv, OwnerInv, TypeOK
  <2>2. Blocker(u) \in {NoThread, contextMutex[on[u]]}
    BY <1>0, <2>1 DEF Blocker, HoldsSpan
  <2> QED
    BY <1>0, <1>1, <2>1, <2>2, ThreadAssumption
<1>3. ASSUME NEW u \in T, reporterMutex = u
      PROVE  FALSE
  <2>1. HoldsReporter(u) /\ on[u] \in Spans
    BY <1>0, <1>3 DEF IndInv, OwnerInv, TypeOK
  <2>2. pc[u] # "lock_reporter"
    BY <1>0, <2>1 DEF HoldsReporter, IndInv, OpInv
  <2>3. Blocker(u) \in {NoThread, spanMutex[on[u]], contextMutex[on[u]]}
    BY <2>2 DEF Blocker, First
  <2> QED
    BY <1>0, <1>1, <1>2, <2>1, <2>3, ThreadAssumption
<1>4. on[t] \in Spans
  BY <1>0 DEF IndInv, TypeOK
<1>5. Blocker(t) \in {NoThread, spanMutex[on[t]], contextMutex[on[t]], reporterMutex}
  BY DEF Blocker, First
<1> QED
  BY <1>0, <1>1, <1>2, <1>3, <1>4, <1>5, ThreadAssumption

\* Every variable keeps its type.
THEOREM SpanTypeCorrect == Spec => []TypeOK
<1>1. IndInv => TypeOK
  BY DEF IndInv
<1> QED
  BY <1>1, SpanInvariant, PTL

\* No set of threads wait for each other, whatever operations they are in and
\* also when allocations fail, but for threads that start a span: start_span
\* locks a mutex it has (tracer.c, update_metrics_for_new_span).
THEOREM SpanOnlyStartDeadlocks == Spec => []OnlyStartDeadlocks
<1> QED
  BY OnlyStartDeadlocksFact, SpanInvariant, PTL

\* As long as jaeger_span_to_protobuf does not fail before its first lock
\* (memory suffices, or the reporter is the one in memory), a member of a span
\* is written while another thread reads or writes it only where baggage_item
\* reads, after both unlocks, the value that set_baggage_item replaces.
THEOREM SpanOnlyItemRaces == Spec => []OnlyItemRaces
<1> QED
  BY OnlyItemRacesFact, SpanInvariant, PTL

\* Under the same condition every copy a reporter keeps is one state of its
\* span.
THEOREM SpanNoTornCopy == Spec => []NoTornCopy
<1>1. IndInv => NoTornCopy
  BY DEF IndInv, ReportInv, NoTornCopy
<1> QED
  BY <1>1, SpanInvariant, PTL

\* What the in-memory reporter keeps has the duration of its finish, unless
\* sampling was enabled in the middle of it; memory may run out.
THEOREM SpanDurationUnlessLate == Spec => []DurationUnlessLate
<1>1. IndInv => DurationUnlessLate
  BY DEF IndInv, Disciplined, ReportInv, DurationUnlessLate
<1> QED
  BY <1>1, SpanInvariant, PTL

\* Only Record and RecordFinish change what is recorded, in a sampled span.
LEMMA RecordsFact ==
  ASSUME IndInv, Disciplined, [Next]_vars, NEW s \in Spans,
         recorded'[s] # recorded[s] \/ duration'[s] # duration[s]
  PROVE  sampled[s]
<1>1. ASSUME NEW t \in Threads, Record(t) \/ RecordFinish(t)
      PROVE  sampled[s]
  BY <1>1 DEF IndInv, TypeOK, SnapshotInv, Record, RecordFinish
<1>2. ASSUME NEW t \in Threads, Step(t)
      PROVE  Record(t) \/ RecordFinish(t) \/ UNCHANGED <<recorded, duration>>
  BY <1>2 DEF Step, Lock0, TryLock1, TryLock1Busy, Backoff, LockSpan,
     CheckSampled, ReadSampled, SetBaggageItem, BaggageItem,
     SetSamplingPriority, ToProtobuf, LockContext, ReadContext, UnlockSpan,
     UnlockContext, ReturnItem, LockReporter, Convert, ConvertNoRoom,
     ToProtobufEarlyFail, CopySpan, CopyRest, UnlockReporter
<1>3. ASSUME NEW t \in Threads, NEW o, NEW r, Call(t, o, r)
      PROVE  UNCHANGED <<recorded, duration>>
  BY <1>3 DEF Call
<1> QED
  BY <1>1, <1>2, <1>3 DEF Next, Start

\* A span changes only at a moment at which it is sampled, under the condition
\* of SpanOnlyItemRaces, although the operations looked at the flag a step
\* earlier.
THEOREM SpanRecordsOnlySampled == Spec => RecordsOnlySampled
<1>1. IndInv /\ [Next]_vars =>
        [Disciplined =>
           \A s \in Spans :
             (recorded'[s] # recorded[s] \/ duration'[s] # duration[s]) =>
               sampled[s]
        ]_vars
  BY RecordsFact
<1> QED
  BY <1>1, SpanInvariant, PTL DEF Spec, RecordsOnlySampled

====
