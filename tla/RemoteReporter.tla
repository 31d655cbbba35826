-------------------------- MODULE RemoteReporter --------------------------
(***************************************************************************)
(* The remote reporter of reporter.c: finished spans are converted to      *)
(* protobuf copies, queued in a jaeger_vector under r->mutex, and sent in  *)
(* UDP packets of at most max_packet_size bytes when somebody flushes.     *)
(*                                                                         *)
(* The vector is modelled by its fields: the pointers it holds (entries),  *)
(* the number of elements its array really has room for (data, 0 when the  *)
(* pointer is NULL) and the capacity it believes in.  malloc, realloc and  *)
(* sendto fail whenever the environment lets them.                         *)
(***************************************************************************)
EXTENDS Integers, Sequences, Functions

CONSTANTS Threads,         \* application threads that share the reporter
          NoThread,        \* the value of mutex when nobody holds it
          Spans,           \* the spans the application may finish
          NULL,            \* a null entry of the span array
          SpanSize,        \* packed size of each span
          BatchOverhead,   \* packed size of a batch without spans
          MaxPacketSize,   \* r->max_packet_size
          InitCapacity,    \* JAEGERTRACINGC_VECTOR_INIT_CAPACITY
          ResizeFactor,    \* JAEGERTRACINGC_VECTOR_RESIZE_FACTOR
          MaxDoublings,    \* bound on how often a vector grows
          MaxFlushes,      \* bound on the calls of flush
          Environments     \* which calls may fail: sets of "malloc", "send"

ASSUME ThreadAssumption == NoThread \notin Threads
ASSUME SpanAssumption == NULL \notin Spans
ASSUME SizeAssumption ==
  /\ SpanSize \in [Spans -> Nat]
  /\ BatchOverhead \in Nat
  /\ MaxPacketSize \in Nat
ASSUME VectorAssumption ==
  /\ InitCapacity \in Nat \ {0}
  /\ ResizeFactor \in Nat \ {0, 1}
  /\ MaxDoublings \in Nat
  /\ \A k \in 0 .. MaxDoublings : ResizeFactor ^ k \in Nat \ {0}
  /\ \E k \in 0 .. MaxDoublings : ResizeFactor ^ k = 1
ASSUME EnvironmentAssumption ==
  /\ MaxFlushes \in Nat
  /\ Environments \subseteq SUBSET {"malloc", "send"}

VARIABLES mutex,     \* the thread that holds r->mutex, or NoThread
          pc,        \* where each thread is
          cur,       \* the span each thread is reporting, or NULL
          entries,   \* the pointers spans.data[0 .. len-1]
          data,      \* elements allocated behind spans.data, 0 for NULL
          capacity,  \* spans.capacity
          batch,     \* the batch that the thread holding the mutex sends
          addr,      \* "candidates", then "known" or "zero"
          process,   \* is process.service_name set?
          metrics,   \* the reporter's counters
          status,    \* "running", "destroying", "destroyed" or "crashed"
          result,    \* what the current flush of each thread will return
          life,      \* fate of each span's protobuf copy
          ticket,    \* acceptance number of each span, 0 if not queued (ghost)
          accepted,  \* number of spans queued so far (ghost)
          sent,      \* spans handed to the socket, in order (ghost)
          pending,   \* what was queued when each flush began (ghost)
          flushes,   \* calls of flush so far (bounded by MaxFlushes)
          faults     \* the calls that may fail in this run of the program

vector == <<entries, data, capacity>>
ghosts == <<ticket, accepted, sent, pending, flushes, faults>>
vars == <<mutex, pc, cur, entries, data, capacity, batch, addr, process,
          metrics, status, result, life, ticket, accepted, sent, pending,
          flushes, faults>>

\* The allocator may return NULL; sendto may fail or send too little.
MallocMayFail == "malloc" \in faults
SendMayFail == "send" \in faults

NoBatch == [spans |-> <<>>, n |-> 0, size |-> 0]

Counters == [success : Nat, failure : Nat, dropped : Nat]

ReportSteps == {"reserve", "convert", "append", "process"}
FlushSteps == {"loop", "write"}
Locked == ReportSteps \cup FlushSteps \cup {"unlock"}

---------------------------------------------------------------------------
(* jaeger_vector *)

\* The capacities a vector can have: it starts with InitCapacity and is only
\* ever multiplied by ResizeFactor.
Capacities == {InitCapacity * ResizeFactor ^ k : k \in 0 .. MaxDoublings}

\* The loop of jaeger_vector_reserve: the least of them with room for n
\* elements (a set of one member, or empty beyond the bound).
AlignedCapacities(n) ==
  {c \in Capacities : c >= n /\ \A d \in Capacities : d >= n => c <= d}

\* ... and its memset, which clears everything from the OLD capacity on.
ClearFrom(s, c) == [i \in 1 .. Len(s) |-> IF i > c THEN NULL ELSE s[i]]

---------------------------------------------------------------------------
(* Packets *)

\* jaeger__model__batch__get_packed_size of the first n spans of s.
PackedSize(s, n) ==
  LET size[i \in 0 .. Len(s)] ==
        IF i = 0 THEN BatchOverhead ELSE size[i - 1] + SpanSize[s[i]]
  IN  size[n]

\* The loop of build_batch: n_spans shrinks until the packet fits or it is 0.
FittingPrefix(s) ==
  CHOOSE n \in 0 .. Len(s) :
    /\ n > 0 => PackedSize(s, n) <= MaxPacketSize
    /\ \A m \in (n + 1) .. Len(s) : PackedSize(s, m) > MaxPacketSize

\* Reading a null or a freed span is undefined; builds stop there.
Readable(s) == \A i \in 1 .. Len(s) : s[i] # NULL /\ life[s[i]] = "live"

Freed(S) == [s \in Spans |-> IF s \in S THEN "freed" ELSE life[s]]

---------------------------------------------------------------------------
Init ==
  /\ mutex = NoThread
  /\ pc = [t \in Threads |-> "idle"]
  /\ cur = [t \in Threads |-> NULL]
  /\ entries = <<>>
  /\ data = InitCapacity
  /\ capacity = InitCapacity
  /\ batch = NoBatch
  /\ addr = "candidates"
  /\ process = FALSE
  /\ metrics = [success |-> 0, failure |-> 0, dropped |-> 0]
  /\ status = "running"
  /\ result = [t \in Threads |-> TRUE]
  /\ life = [s \in Spans |-> "fresh"]
  /\ ticket = [s \in Spans |-> 0]
  /\ accepted = 0
  /\ sent = <<>>
  /\ pending = [t \in Threads |-> {}]
  /\ flushes = 0
  /\ faults \in Environments

Goto(t, label) == pc' = [pc EXCEPT ![t] = label]

Alive == status \in {"running", "destroying"}

\* An assertion fails, a null pointer is written, or free is given a pointer
\* it never returned: the process ends.
Crash == /\ status' = "crashed"
         /\ UNCHANGED <<mutex, pc, cur, vector, batch, addr, process, metrics,
                        result, life, ghosts>>

---------------------------------------------------------------------------
(* remote_reporter_report *)

ReportLock(t, s) ==
  /\ status = "running"
  /\ pc[t] = "idle"
  /\ mutex = NoThread
  /\ life[s] = "fresh"
  /\ mutex' = t
  /\ Goto(t, "reserve")
  /\ cur' = [cur EXCEPT ![t] = s]
  /\ life' = [life EXCEPT ![s] = "reporting"]
  /\ UNCHANGED <<vector, batch, addr, process, metrics, status, result, ghosts>>

MutDropSilently(t) ==
  /\ life' = [life EXCEPT ![cur[t]] = "lost"]
  /\ Goto(t, "idle")

\* The span is given up without a word to the metrics.
DropSilently(t) ==
  /\ life' = [life EXCEPT ![cur[t]] = "lost"]
  /\ Goto(t, "unlock")

ReserveRoom(t) ==
  /\ Alive
  /\ pc[t] = "reserve"
  /\ capacity >= Len(entries) + 1
  /\ Goto(t, "convert")
  /\ UNCHANGED <<mutex, cur, vector, batch, addr, process, metrics, status,
                 result, life, ghosts>>

ReserveGrow(t) ==
  /\ Alive
  /\ pc[t] = "reserve"
  /\ capacity < Len(entries) + 1
  /\ \E c \in AlignedCapacities(Len(entries) + 1) :
       /\ capacity' = c
       /\ data' = c
       /\ entries' = ClearFrom(entries, capacity)
  /\ Goto(t, "convert")
  /\ UNCHANGED <<mutex, cur, batch, addr, process, metrics, status, result,
                 life, ghosts>>

ReserveFail(t) ==
  /\ Alive
  /\ pc[t] = "reserve"
  /\ MallocMayFail
  /\ capacity < Len(entries) + 1
  /\ DropSilently(t)
  /\ UNCHANGED <<mutex, cur, vector, batch, addr, process, metrics, status,
                 result, ghosts>>

\* jaeger_malloc and jaeger_span_to_protobuf.
Convert(t) ==
  /\ Alive
  /\ pc[t] = "convert"
  /\ life' = [life EXCEPT ![cur[t]] = "live"]
  /\ Goto(t, "append")
  /\ UNCHANGED <<mutex, cur, vector, batch, addr, process, metrics, status,
                 result, ghosts>>

ConvertFail(t) ==
  /\ Alive
  /\ pc[t] = "convert"
  /\ MallocMayFail
  /\ DropSilently(t)
  /\ UNCHANGED <<mutex, cur, vector, batch, addr, process, metrics, status,
                 result, ghosts>>

\* jaeger_vector_append returns data + len, which is NULL when both are.
AppendCrash(t) ==
  /\ Alive
  /\ pc[t] = "append"
  /\ data = 0
  /\ Crash

\* remote_reporter_update_queue_length counts a dropped span on every call.
AppendSpan(t) ==
  /\ Alive
  /\ pc[t] = "append"
  /\ data # 0
  /\ entries' = Append(entries, cur[t])
  /\ accepted' = accepted + 1
  /\ ticket' = [ticket EXCEPT ![cur[t]] = accepted + 1]
  /\ metrics' = [metrics EXCEPT !.dropped = @ + 1]
  /\ Goto(t, "process")
  /\ UNCHANGED <<mutex, cur, data, capacity, batch, addr, process, status,
                 result, life, sent, pending, flushes, faults>>

BuildProcess(t) ==
  /\ Alive
  /\ pc[t] = "process"
  /\ process' = TRUE
  /\ Goto(t, "unlock")
  /\ UNCHANGED <<mutex, cur, vector, batch, addr, metrics, status, result,
                 life, ghosts>>

\* build_process frees its argument, a member of the reporter, on failure.
BuildProcessFail(t) ==
  /\ Alive
  /\ pc[t] = "process"
  /\ ~process
  /\ MallocMayFail
  /\ Crash

---------------------------------------------------------------------------
(* remote_reporter_flush and remote_reporter_flush_batch *)

FlushLock(t) ==
  /\ status = "running"
  /\ pc[t] = "idle"
  /\ mutex = NoThread
  /\ flushes < MaxFlushes
  /\ flushes' = flushes + 1
  /\ mutex' = t
  /\ Goto(t, "loop")
  /\ result' = [result EXCEPT ![t] = TRUE]
  /\ pending' = [pending EXCEPT ![t] = Range(entries) \ {NULL}]
  /\ UNCHANGED <<cur, vector, batch, addr, process, metrics, status, life,
                 ticket, accepted, sent, faults>>

FlushDone(t) ==
  /\ Alive
  /\ pc[t] = "loop"
  /\ Len(entries) = 0
  /\ Goto(t, "unlock")
  /\ UNCHANGED <<mutex, cur, vector, batch, addr, process, metrics, status,
                 result, life, ghosts>>

\* get_packed_size walks over every queued span first.
BatchCrash(t) ==
  /\ Alive
  /\ pc[t] = "loop"
  /\ ~Readable(entries)
  /\ Crash

\* build_batch, no span fits: large_batch_error puts the array back and
\* destroys the first span; flush gives up.
LargeBatchError(t) ==
  /\ Alive
  /\ pc[t] = "loop"
  /\ Len(entries) > 0
  /\ Readable(entries)
  /\ FittingPrefix(entries) = 0
  /\ life' = Freed({Head(entries)})
  /\ entries' = Tail(entries)
  /\ metrics' = [metrics EXCEPT !.dropped = @ + 1]
  /\ result' = [result EXCEPT ![t] = FALSE]
  /\ Goto(t, "unlock")
  /\ UNCHANGED <<mutex, cur, data, capacity, batch, addr, process, status,
                 ghosts>>

\* build_batch moves the array into the batch ...
TakeArray(n) == batch' = [spans |-> entries, n |-> n, size |-> data]

MutCapacityAfterTake == 0

\* ... and leaves the vector with the capacity of the array it gave away.
CapacityAfterTake == capacity

BatchAll(t) ==
  /\ Alive
  /\ pc[t] = "loop"
  /\ Len(entries) > 0
  /\ Readable(entries)
  /\ FittingPrefix(entries) = Len(entries)
  /\ TakeArray(Len(entries))
  /\ entries' = <<>>
  /\ data' = 0
  /\ capacity' = CapacityAfterTake
  /\ Goto(t, "write")
  /\ UNCHANGED <<mutex, cur, addr, process, metrics, status, result,
                 life, ghosts>>

MutRemainingTwice(n) == SubSeq(entries, n, Len(entries))
MutRemainingSkip(n) == SubSeq(entries, n + 2, Len(entries))

\* The spans that do not fit, copied to a new vector.
Remaining(n) == SubSeq(entries, n + 1, Len(entries))

Splits(t, n) ==
  /\ Alive
  /\ pc[t] = "loop"
  /\ Readable(entries)
  /\ n \in 1 .. (Len(entries) - 1)
  /\ TakeArray(n)
  /\ Goto(t, "write")

BatchSplit(t) ==
  LET n == FittingPrefix(entries)
      remaining == Remaining(n)
  IN  /\ Splits(t, n)
      /\ entries' = remaining
      /\ \E c \in AlignedCapacities(Len(remaining)) :
           capacity' = c /\ data' = c
      /\ UNCHANGED <<mutex, cur, addr, process, metrics, status, result, life,
                     ghosts>>

\* No room for the remaining spans: they are destroyed, and counted, while
\* the batch's array still points at them.  The vector is what
\* jaeger_vector_init (failed: untouched; succeeded: fresh) left.
BatchSplitFail(t) ==
  LET n == FittingPrefix(entries)
      remaining == Remaining(n)
  IN  /\ MallocMayFail
      /\ Splits(t, n)
      /\ life' = Freed(Range(remaining))
      /\ metrics' = [metrics EXCEPT !.dropped = @ + Len(remaining)]
      /\ entries' = <<>>
      /\ \/ data' = 0 /\ capacity' = CapacityAfterTake
         \/ /\ Len(remaining) > InitCapacity
            /\ data' = InitCapacity
            /\ capacity' = InitCapacity
      /\ UNCHANGED <<mutex, cur, addr, process, status, result, ghosts>>

\* remote_reporter_write_to_socket: the first write picks an address among
\* the candidates and frees them whatever happens.  Writes to the zero
\* address (port 0) never succeed.
WriteSucceeds == addr \in {"candidates", "known"} /\ addr' = "known"

MutWriteFails == (SendMayFail \/ addr = "zero") /\ addr' = "zero"

WriteFails == /\ SendMayFail \/ addr = "zero"
              /\ addr' = IF addr = "candidates" THEN "zero" ELSE addr

Flushed == SubSeq(batch.spans, 1, batch.n)

MutNumFlushed == Len(batch.spans)

NumFlushed == batch.n

FlushBatchOk(t) ==
  /\ Alive
  /\ pc[t] = "write"
  /\ WriteSucceeds
  /\ sent' = sent \o Flushed
  /\ life' = Freed(Range(Flushed))
  /\ metrics' = [metrics EXCEPT !.success = @ + NumFlushed, !.dropped = @ + 1]
  /\ batch' = NoBatch
  /\ Goto(t, "loop")
  /\ UNCHANGED <<mutex, cur, vector, process, status, result, ticket,
                 accepted, pending, flushes, faults>>

\* What the cleanup of flush_batch puts back: the batch's array and its
\* length.  The capacity stays that of the vector it frees.
Restored == batch.spans

MutRestoredSize == data

RestoredSize == batch.size

FlushBatchFail(t) ==
  /\ Alive
  /\ pc[t] = "write"
  /\ WriteFails
  /\ entries' = Restored
  /\ data' = RestoredSize
  /\ metrics' = [metrics EXCEPT !.failure = @ + 1, !.dropped = @ + 1]
  /\ result' = [result EXCEPT ![t] = FALSE]
  /\ batch' = NoBatch
  /\ Goto(t, "unlock")
  /\ UNCHANGED <<mutex, cur, capacity, process, status, life, ghosts>>

---------------------------------------------------------------------------
\* The end of report and of flush; destroy goes on after its flush.
Unlock(t) ==
  /\ Alive
  /\ pc[t] = "unlock"
  /\ mutex' = NoThread
  /\ Goto(t, IF status = "destroying" THEN "free" ELSE "idle")
  /\ cur' = [cur EXCEPT ![t] = NULL]
  /\ pending' = [pending EXCEPT ![t] = {}]
  /\ UNCHANGED <<vector, batch, addr, process, metrics, status, result, life,
                 ticket, accepted, sent, flushes, faults>>

(* remote_reporter_destroy, called once nobody uses the reporter any more *)

DestroyFlush(t) ==
  /\ status = "running"
  /\ \A u \in Threads : pc[u] = "idle"
  /\ status' = "destroying"
  /\ mutex' = t
  /\ Goto(t, "loop")
  /\ result' = [result EXCEPT ![t] = TRUE]
  /\ pending' = [pending EXCEPT ![t] = Range(entries) \ {NULL}]
  /\ UNCHANGED <<cur, vector, batch, addr, process, metrics, life, ticket,
                 accepted, sent, flushes, faults>>

\* Null entries are skipped, freed ones are freed again.
DestroyCrash(t) ==
  /\ status = "destroying"
  /\ pc[t] = "free"
  /\ \E s \in Range(entries) \ {NULL} : life[s] = "freed"
  /\ Crash

DestroyFree(t) ==
  /\ status = "destroying"
  /\ pc[t] = "free"
  /\ \A s \in Range(entries) \ {NULL} : life[s] # "freed"
  /\ life' = Freed(Range(entries))
  /\ entries' = <<>>
  /\ data' = 0
  /\ process' = FALSE
  /\ status' = "destroyed"
  /\ Goto(t, "idle")
  /\ UNCHANGED <<mutex, cur, capacity, batch, addr, metrics, result, ghosts>>

---------------------------------------------------------------------------
\* What a thread does on its own once it holds the mutex.
Step(t) ==
  \/ ReserveRoom(t) \/ ReserveGrow(t) \/ ReserveFail(t)
  \/ Convert(t) \/ ConvertFail(t)
  \/ AppendCrash(t) \/ AppendSpan(t)
  \/ BuildProcess(t) \/ BuildProcessFail(t)
  \/ FlushDone(t) \/ BatchCrash(t) \/ LargeBatchError(t)
  \/ BatchAll(t) \/ BatchSplit(t) \/ BatchSplitFail(t)
  \/ FlushBatchOk(t) \/ FlushBatchFail(t)
  \/ Unlock(t) \/ DestroyCrash(t) \/ DestroyFree(t)

Next == \E t \in Threads :
          \/ \E s \in Spans : ReportLock(t, s)
          \/ FlushLock(t)
          \/ DestroyFlush(t)
          \/ Step(t)

Spec == Init /\ [][Next]_vars

\* A thread inside report, flush or destroy keeps running.
FairSpec == Spec /\ \A t \in Threads : WF_vars(Step(t))

---------------------------------------------------------------------------
(* Properties *)

\* Every variable keeps its type; in particular the vector's capacity is never
\* 0, which jaeger_vector_reserve asserts and its doubling loop needs.
TypeOK ==
  /\ mutex \in Threads \cup {NoThread}
  /\ pc \in [Threads -> Locked \cup {"idle", "free"}]
  /\ cur \in [Threads -> Spans \cup {NULL}]
  /\ entries \in Seq(Spans \cup {NULL})
  /\ data \in Capacities \cup {0}
  /\ capacity \in Capacities
  /\ batch \in [spans : Seq(Spans \cup {NULL}), n : Nat,
                size : Capacities \cup {0}]
  /\ addr \in {"candidates", "known", "zero"}
  /\ process \in BOOLEAN
  /\ metrics \in Counters
  /\ status \in {"running", "destroying", "destroyed", "crashed"}
  /\ result \in [Threads -> BOOLEAN]
  /\ life \in [Spans -> {"fresh", "reporting", "lost", "live", "freed"}]
  /\ ticket \in [Spans -> Nat]
  /\ accepted \in Nat
  /\ sent \in Seq(Spans \cup {NULL})
  /\ pending \in [Threads -> SUBSET Spans]
  /\ flushes \in 0 .. MaxFlushes
  /\ faults \in Environments

\* Memory safety of the span array: through growing, splitting, failed
\* allocations and the restore after a failed write, neither the length nor
\* the capacity of the vector ever exceeds the array behind it, and an array
\* that is gone holds nothing (jaeger_vector_append and flush_batch's cleanup).
ArraySafe ==
  /\ Len(entries) <= data
  /\ data # 0 => capacity <= data
  /\ batch.n <= Len(batch.spans) /\ Len(batch.spans) <= batch.size

\* The spans on their way out: what was sent, then the batch in flight or,
\* when there is none, the queue.
Pipeline == sent \o (IF batch.n > 0 THEN batch.spans ELSE entries)

\* Spans reach the socket at most once and in the order in which report
\* queued them, whatever is split, restored or retried (flush_batch).
InOrderOnce ==
  \A i, j \in 1 .. Len(Pipeline) :
    i < j /\ Pipeline[i] # NULL /\ Pipeline[j] # NULL
      => ticket[Pipeline[i]] < ticket[Pipeline[j]]

\* reporter_success counts exactly the spans that were sent: it neither
\* misses a packet of a split queue nor counts one that sendto refused.
SuccessIsSent == metrics.success = Len(sent)

\* When the very first write fails for every candidate address, the
\* candidates are freed and the reporter stays mute for the rest of its life
\* (write_to_socket).
MuteAfterFirstFailure == addr = "zero" => sent = <<>>

\* No span of the queue, and none of the packet being written, was already
\* freed (build_batch, the cleanup of flush_batch).
NoDangling ==
  Alive => \A s \in (Range(entries) \cup Range(Flushed)) \ {NULL} :
             life[s] # "freed"

\* Every protobuf copy that is still allocated can be reached: from the
\* queue, from the batch, or from the thread about to append it (report and
\* jaeger_vector_reserve, flush_batch, destroy).
NoLeak ==
  \A s \in Spans :
    life[s] = "live" =>
      \/ s \in Range(entries) \cup Range(batch.spans)
      \/ \E t \in Threads : pc[t] = "append" /\ cur[t] = s

\* A flush about to return true has sent every span that was queued when it
\* took the mutex (remote_reporter_flush).
FlushTrueDelivers ==
  \A t \in Threads :
    pc[t] = "unlock" /\ result[t] => pending[t] \subseteq Range(sent)

\* It takes a failed allocation and a failed write together to bring a freed
\* span back into the queue (build_batch, then the cleanup of flush_batch).
NoDanglingUnlessBoth == ~(MallocMayFail /\ SendMayFail) => NoDangling

\* As long as the socket accepts what it is given, failed allocations lose
\* spans but never the memory they occupy.
NoLeakWhileSending == ~SendMayFail => NoLeak

\* With memory to spare, a flush that returns true keeps its promise, however
\* the queue was split and whatever earlier flushes failed to send.
FlushTrueWithMemory == ~MallocMayFail => FlushTrueDelivers

\* Whoever appends finds an array to append to: the assertion of
\* remote_reporter_report on span_ptr.
AppendHasArray == \A t \in Threads : pc[t] = "append" => data # 0

\* report, flush and destroy give the mutex back or end the process: the
\* loop of flush terminates although writes fail and spans do not fit.
MutexReleased ==
  \A t \in Threads : mutex = t ~> (mutex # t \/ status = "crashed")

---------------------------------------------------------------------------
(* The inductive invariant behind TypeOK, ArraySafe and InOrderOnce *)

\* Only the thread that holds the mutex is inside report or flush.
MutexInv == \A t \in Threads : pc[t] \in Locked => mutex = t

\* reserve made room for the span that convert and append work on.
RoomInv ==
  \A t \in Threads : pc[t] \in {"convert", "append"} => Len(entries) < capacity

\* A batch exists exactly while it is written.  Its array could take the
\* vector's capacity back, and the queue holds the spans behind the batch or,
\* after a failed allocation, nothing.
BatchInv ==
  /\ (\A t \in Threads : pc[t] # "write") => batch = NoBatch
  /\ (\E t \in Threads : pc[t] = "write") =>
       /\ 0 < batch.n
       /\ capacity <= batch.size
       /\ \/ entries = <<>>
          \/ entries = SubSeq(batch.spans, batch.n + 1, Len(batch.spans))

\* The span being reported is taken, but has no ticket yet.
CurInv ==
  \A t \in Threads :
    pc[t] \in {"reserve", "convert", "append"} =>
      cur[t] \in Spans /\ ticket[cur[t]] = 0 /\ life[cur[t]] # "fresh"

\* Tickets are handed out once, to spans that went through report, and
\* everything in the pipeline has one.
TicketInv ==
  /\ \A s \in Spans : ticket[s] <= accepted
  /\ \A s \in Spans : life[s] = "fresh" => ticket[s] = 0
  /\ \A i \in 1 .. Len(Pipeline) : Pipeline[i] # NULL => ticket[Pipeline[i]] > 0

\* Everything the induction carries along: the conjunction that each
\* operation of the reporter preserves.
IndInv ==
  /\ TypeOK
  /\ MutexInv
  /\ RoomInv
  /\ BatchInv
  /\ ArraySafe
  /\ CurInv
  /\ TicketInv
  /\ InOrderOnce

---------------------------------------------------------------------------
(* The inductive invariant behind the properties about the fate of spans *)

\* The spans in the queue, in the packet being written, and in its array.
Queued == Range(entries) \ {NULL}
InPacket == Range(Flushed) \ {NULL}
InArray == Range(batch.spans) \ {NULL}

\* Until an address is known nothing was sent, and only a failed write makes
\* it the zero address.
AddressInv ==
  /\ addr # "known" => sent = <<>>
  /\ ~SendMayFail => addr # "zero"

\* The copy about to be appended is allocated.
CopyInv == \A t \in Threads : pc[t] = "append" => life[cur[t]] = "live"

\* Whoever is about to free the reporter is alone with it.
EndInv ==
  \A t \in Threads : pc[t] = "free" => status # "running" /\ mutex = NoThread

\* What is queued or being written is not freed as long as not both kinds of
\* failure occur; nor is the array that a failed write would restore, as long
\* as allocations succeed.
ValidInv ==
  Alive =>
    /\ ~(MallocMayFail /\ SendMayFail) =>
         \A s \in Queued \cup InPacket : life[s] # "freed"
    /\ ~MallocMayFail => \A s \in InArray : life[s] # "freed"

\* While writes succeed, reserve has nothing to clear, and what is allocated
\* is queued, in the packet, or about to be appended.
ReachInv ==
  ~SendMayFail =>
    /\ Len(entries) <= capacity
    /\ \A s \in Spans :
         life[s] = "live" =>
           \/ s \in Queued \cup InPacket
           \/ \E t \in Threads : pc[t] = "append" /\ cur[t] = s

\* A flush that has not failed still has what it found in its hands, or has
\* sent it.
PendingInv ==
  \A t \in Threads :
    /\ pc[t] \notin FlushSteps \cup {"unlock"} => pending[t] = {}
    /\ pc[t] \in FlushSteps /\ ~MallocMayFail =>
         pending[t] \subseteq Range(sent) \cup Queued \cup InPacket
    /\ pc[t] = "unlock" /\ result[t] /\ ~MallocMayFail =>
         pending[t] \subseteq Range(sent)

\* Everything the induction carries along, on top of IndInv: what becomes of
\* a span through batches, failed writes and failed allocations.
FateInv ==
  /\ SuccessIsSent
  /\ AddressInv
  /\ CopyInv
  /\ EndInv
  /\ ValidInv
  /\ ReachInv
  /\ PendingInv
===========================================================================
