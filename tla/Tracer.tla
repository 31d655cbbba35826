------------------------------ MODULE Tracer ------------------------------
(***************************************************************************)
(* The life of a tracer (tracer.c) with the metrics (metrics.c) and the    *)
(* reporters (reporter.c) it is given or makes: the application may put a  *)
(* composite reporter together, initialises the tracer, starts and         *)
(* finishes spans, flushes, and destroys the tracer.                       *)
(*                                                                         *)
(* The calls are those of one thread, in the build without assertions and  *)
(* without threads: in all others jaeger_tracer_start_span does not return *)
(* (assert(span_refs != NULL), and the deadlock Span shows).  init and     *)
(* destroy are a step per member, because any of them may fail.  Of the    *)
(* remote reporter there is what a caller sees (the module RemoteReporter  *)
(* has it in steps): a queue, a network that takes some batches of it, all *)
(* or none, spans too large for any packet, and an array that a failed     *)
(* flush may leave longer than its capacity.                               *)
(***************************************************************************)
EXTENDS Integers, FiniteSets, Sequences, SequencesExt

CONSTANTS Spans,      \* the spans the application starts
          Leaves,     \* reporters, the composite one aside
          Default,    \* the one default_reporter makes
          Kind,       \* of each leaf: "null", "memory" or "remote"
          Sharing,    \* leaves the application gave its metrics to
          Large,      \* of each leaf: the spans that no packet of it holds
          Heap,       \* leaves the application allocated with jaeger_malloc
          Arguments,  \* what a caller may supply to init
          Capacity,   \* JAEGERTRACINGC_VECTOR_INIT_CAPACITY
          MaxChildren \* bound on the children of a composite reporter

Metrics == {"none", "caller", "null"}       \* "null": jaeger_null_metrics()
Samplers == {"none", "simple", "adaptive"}
Reporters == {"none", "single", "composite"}
Parts == {"service_name", "metrics", "sampler", "reporter", "tags"}

ASSUME LeafAssumption ==
  /\ IsFiniteSet(Leaves) /\ Leaves \cap (Parts \cup {"counters"}) = {}
  /\ Default \in Leaves
  /\ Kind \in [Leaves -> {"null", "memory", "remote"}]
  /\ Kind[Default] = "remote"
  /\ Sharing \subseteq Leaves \ {Default}
  /\ Heap \subseteq Leaves \ {Default}
  /\ Large \in [Leaves -> SUBSET Spans]
ASSUME ArgumentAssumption ==
  Arguments \subseteq [metrics : Metrics, sampler : Samplers, reporter : Reporters]
ASSUME CapacityAssumption == Capacity \in Nat \ {0} /\ MaxChildren \in Nat
ASSUME SpansAssumption == IsFiniteSet(Spans)

\* What is allocated: the members, the counters of the metrics, the leaves.
Blocks == Parts \cup {"counters"} \cup Leaves

VARIABLES stage,      \* where the tracer's life is
          crashed,    \* why the process ended, or "no"
          args,       \* the arguments of init: what the caller supplies
          shortage,   \* may memory, sockets or name lookup fail?
          member,     \* the tracer's members that are not NULL
          allocated,  \* tracer->allocated
          made,       \* blocks the tracer allocated (ghost)
          frees,      \* how often each block was freed (ghost)
          by_name,    \* does the sampler in place look at operation names?
          counters,   \* are the pointers in the metrics not NULL?
          count,      \* the counters of these metrics
          children,   \* the leaves the tracer's reporter passes spans to
          leaf,       \* the state of each
          span,       \* the state of each span
          flushed     \* result of the flush that has just returned, or "none"

tracer == <<args, shortage, member, allocated, made, frees>>
reporting == <<children, leaf>>
vars == <<stage, crashed, tracer, by_name, counters, count, reporting, span,
          flushed>>

---------------------------------------------------------------------------
\* queue, sent: the spans a reporter holds and has sent; missed: reported
\* before it was added; lost: accepted and given up; array: is there one
\* behind the queue; network: of the first write; mode: "torn" when the array
\* is longer than the capacity, "spoiled" when it holds spans that are gone;
\* failed: of its last flush; refused: of any flush (lost and refused: ghosts).
NewLeaf == [queue |-> <<>>, sent |-> <<>>, missed |-> {}, lost |-> {},
            array |-> TRUE, network |-> "untried", mode |-> "sound",
            failed |-> FALSE, refused |-> FALSE]

Init ==
  /\ stage = "setup"
  /\ crashed = "no"
  /\ args \in Arguments
  /\ shortage \in BOOLEAN
  /\ member = {}
  /\ allocated = {}
  /\ made = {}
  /\ frees = [b \in Blocks |-> 0]
  /\ by_name = (args.sampler = "adaptive")
  /\ counters = (args.metrics # "none")
  /\ count = [started |-> 0, finished |-> 0, sampled |-> 0,
              traces_sampled |-> 0, traces_not_sampled |-> 0, success |-> 0]
  /\ children \in IF args.reporter = "single"
                  THEN {<<l>> : l \in Leaves \ {Default}} ELSE {<<>>}
  /\ leaf = [l \in Leaves |-> NewLeaf]
  /\ span = [s \in Spans |-> "new"]
  /\ flushed = "none"

Crash(why) ==
  /\ crashed' = why
  /\ UNCHANGED <<stage, tracer, by_name, counters, count, reporting, span,
                 flushed>>

Goto(next) == stage' = next /\ crashed' = crashed /\ flushed' = "none"

\* Has l got a pointer to the tracer's metrics?  default_reporter is given
\* the argument of init, not the metrics the tracer made.
Shares(l) == args.metrics # "none" /\ l \in Sharing \cup {Default}

---------------------------------------------------------------------------
(* The composite reporter *)

Full == Len(children) \in {Capacity * 2 ^ k : k \in 0 .. MaxChildren}
Reported == {s \in Spans : span[s] = "reported"}

\* Before or after the tracer is initialised, a reporter at most once.
MayAdd(l) ==
  /\ args.reporter = "composite"
  /\ stage \in {"setup", "live"}
  /\ Len(children) < MaxChildren
  /\ l \notin Range(children) \cup {Default}

\* jaeger_composite_reporter_add
CompositeAdd(l) ==
  /\ MayAdd(l)
  /\ children' = Append(children, l)
  /\ leaf' = [leaf EXCEPT ![l].missed = Reported]
  /\ Goto(stage)
  /\ UNCHANGED <<tracer, by_name, counters, count, span>>

\* No memory for a longer array.
CompositeAddFails(l) ==
  /\ MayAdd(l)
  /\ shortage /\ Full
  /\ Goto(stage)
  /\ UNCHANGED <<tracer, by_name, counters, count, reporting, span>>

---------------------------------------------------------------------------
(* jaeger_tracer_init, member by member *)

Set(part, new) ==
  /\ member' = member \cup {part}
  /\ made' = IF new THEN made \cup {part} ELSE made
  /\ allocated' = IF new THEN allocated \cup {part} ELSE allocated \ {part}
  /\ UNCHANGED <<args, shortage, frees>>

InitServiceName ==
  /\ stage = "setup"
  /\ member' = member \cup {"service_name"}
  /\ made' = made \cup {"service_name"}
  /\ Goto("metrics")
  /\ UNCHANGED <<args, shortage, allocated, frees, by_name, counters, count,
                 reporting, span>>

\* default_metrics makes the structure and its counters, all or none.
InitMetrics ==
  /\ stage = "metrics"
  /\ member' = member \cup {"metrics"}
  /\ IF args.metrics = "none"
     THEN /\ made' = made \cup {"metrics", "counters"}
          /\ allocated' = allocated \cup {"metrics"}
     ELSE UNCHANGED made /\ allocated' = allocated \ {"metrics"}
  /\ counters' = TRUE
  /\ Goto("sampler")
  /\ UNCHANGED <<args, shortage, frees, by_name, count, reporting, span>>

\* jaeger_default_metrics_init destroys the counters it made; nobody frees
\* the structure.
InitMetricsFails ==
  /\ stage = "metrics"
  /\ args.metrics = "none" /\ shortage
  /\ \/ UNCHANGED <<made, frees>>
     \/ /\ made' = made \cup {"metrics", "counters"}
        /\ frees' = [frees EXCEPT !["counters"] = @ + 1]
  /\ Goto("close")
  /\ UNCHANGED <<args, shortage, member, allocated, by_name, counters, count,
                 reporting, span>>

InitSampler ==
  /\ stage = "sampler"
  /\ Set("sampler", args.sampler = "none")
  /\ Goto("reporter")
  /\ UNCHANGED <<by_name, counters, count, reporting, span>>

InitReporter ==
  /\ stage = "reporter"
  /\ Set("reporter", args.reporter = "none")
  /\ children' = IF args.reporter = "none" THEN <<Default>> ELSE children
  /\ Goto("tags")
  /\ UNCHANGED <<by_name, counters, count, leaf, span>>

\* The service name, the default sampler or the default reporter cannot be
\* made; what was allocated for it is freed, and cleanup destroys the tracer.
InitFails ==
  /\ shortage
  /\ \/ stage = "setup"
     \/ stage = "sampler" /\ args.sampler = "none"
     \/ stage = "reporter" /\ args.reporter = "none"
  /\ Goto("close")
  /\ UNCHANGED <<tracer, by_name, counters, count, reporting, span>>

\* jaeger_remote_reporter_init calls flush before the pointer to it is set,
\* when the host cannot be found or the queue cannot be made.
InitReporterCrash ==
  /\ stage = "reporter" /\ args.reporter = "none" /\ shortage
  /\ Crash("unset_flush")

\* The version, the host name and the address are added as long as there is
\* memory; the tracer does without them.
InitTags ==
  /\ stage = "tags"
  /\ member' = member \cup {"tags"}
  /\ made' = made \cup {"tags"}
  /\ Goto("live")
  /\ UNCHANGED <<args, shortage, allocated, frees, by_name, counters, count,
                 reporting, span>>

\* The only failure after which init returns.
InitTagsFails ==
  /\ stage = "tags" /\ shortage
  /\ Goto("failed")
  /\ UNCHANGED <<tracer, by_name, counters, count, reporting, span>>

---------------------------------------------------------------------------
(* Spans *)

Bump(field) == IF args.metrics = "null" THEN 0 ELSE field + 1

\* update_metrics_for_new_span of a new trace: spans_sampled counts both.
CountNewSpan(sampled) ==
  count' = [count EXCEPT
    !.started = Bump(@), !.sampled = Bump(@),
    !.traces_sampled = IF sampled THEN Bump(@) ELSE @,
    !.traces_not_sampled = IF sampled THEN @ ELSE Bump(@)]

\* jaeger_tracer_start_span_with_options without references, or with such as
\* have no trace, no debug id and no baggage.
Start(s, sampled) ==
  /\ stage = "live"
  /\ span[s] = "new"
  /\ ~by_name
  /\ span' = [span EXCEPT ![s] = IF sampled THEN "sampled" ELSE "unsampled"]
  /\ CountNewSpan(sampled)
  /\ Goto("live")
  /\ UNCHANGED <<tracer, by_name, counters, reporting>>

MutStartFails(s) ==
  /\ stage = "live" /\ shortage
  /\ span[s] = "new"
  /\ span' = [span EXCEPT ![s] = "none"]
  /\ CountNewSpan(FALSE)
  /\ Goto("live")
  /\ UNCHANGED <<tracer, by_name, counters, reporting>>

\* No memory for the span, its baggage or its name.
StartFails(s) ==
  /\ stage = "live" /\ shortage
  /\ span[s] = "new"
  /\ span' = [span EXCEPT ![s] = "none"]
  /\ Goto("live")
  /\ UNCHANGED <<tracer, by_name, counters, count, reporting>>

\* A span without memory for its vectors is destroyed twice, by
\* jaeger_span_init and by its caller, and its buckets are gone the second
\* time; a reference is copied as if it were a jaeger_span_ref; and the
\* sampler is called before the span has a name.
StartCrash(s) ==
  /\ stage = "live"
  /\ span[s] = "new"
  /\ \/ shortage /\ Crash("destroyed_twice")
     \/ Crash("reference")
     \/ by_name /\ Crash("null_name")

\* jaeger_remotely_controlled_sampler_update brings a sampler per operation,
\* or one without.
UpdateSampler ==
  /\ stage = "live"
  /\ args.sampler = "none"
  /\ by_name' \in BOOLEAN
  /\ Goto("live")
  /\ UNCHANGED <<tracer, counters, count, reporting, span>>

\* The lengths a queue may be cut to when it grows: jaeger_vector_reserve
\* clears what is beyond the capacity, which a failed flush may have left
\* smaller than the length.
Cuts(l) ==
  IF leaf[l].mode # "torn" THEN {Len(leaf[l].queue)}
  ELSE {k \in 0 .. Len(leaf[l].queue) : k >= Capacity \/ k = Len(leaf[l].queue)}

\* The spans of a queue after place i, up to place j.
Slice(q, i, j) == {q[x] : x \in i + 1 .. j}

\* Passing s to a leaf: remote_reporter_report, in_memory_reporter_report,
\* null_report.  A copy needs memory.
ReportTo(l, s, kept, k) ==
  IF Kind[l] = "null" THEN leaf[l]
  ELSE [leaf[l] EXCEPT
          !.queue = IF kept THEN Append(SubSeq(@, 1, k), s) ELSE SubSeq(@, 1, k),
          !.lost = @ \cup Slice(leaf[l].queue, k, Len(leaf[l].queue)),
          !.mode = IF k < Len(leaf[l].queue) THEN "spoiled"
                   ELSE IF @ = "torn" /\ kept THEN "sound" ELSE @]

MutReportAll(s, kept, cut) ==
  [l \in Leaves |->
     IF Len(children) > 0 /\ l = Head(children)
     THEN ReportTo(l, s, l \in kept, cut[l]) ELSE leaf[l]]

\* composite_reporter_report; a reporter that is not composite has one child.
ReportAll(s, kept, cut) ==
  [l \in Leaves |->
     IF l \in Range(children) THEN ReportTo(l, s, l \in kept, cut[l])
     ELSE leaf[l]]

\* After a complete flush the remote reporter has room in an array it has
\* given away.
NoArray(l) == Kind[l] = "remote" /\ ~leaf[l].array
\* The first span accepted brings build_process.
NoProcess(l) ==
  Kind[l] = "remote" /\ leaf[l].queue = <<>> /\ leaf[l].sent = <<>> /\ leaf[l].lost = {}

\* jaeger_span_finish, and jaeger_tracer_report_span after it.
Finish(s) ==
  /\ stage = "live"
  /\ span[s] \in {"sampled", "unsampled"}
  /\ IF span[s] = "sampled"
     THEN /\ \A l \in Range(children) : ~NoArray(l)
          /\ \E kept \in SUBSET Range(children),
                cut \in [Range(children) -> 0 .. Cardinality(Spans)] :
               /\ ~shortage => kept = Range(children)
               /\ \A l \in Range(children) : cut[l] \in Cuts(l)
               /\ leaf' = ReportAll(s, kept, cut)
          /\ span' = [span EXCEPT ![s] = "reported"]
     ELSE /\ span' = [span EXCEPT ![s] = "finished"]
          /\ UNCHANGED leaf
  /\ count' = [count EXCEPT !.finished = Bump(@)]
  /\ Goto("live")
  /\ UNCHANGED <<tracer, by_name, counters, children>>

\* The append to an array that was given away writes through NULL, and
\* build_process without memory frees a member of the reporter.
FinishCrash(s) ==
  /\ stage = "live"
  /\ span[s] = "sampled"
  /\ \/ \E l \in Range(children) : NoArray(l) /\ Crash("no_array")
     \/ \E l \in Range(children) : shortage /\ NoProcess(l) /\ Crash("process_freed")

---------------------------------------------------------------------------
(* Flush *)

Waiting(l) == IF Kind[l] = "remote" THEN Len(leaf[l].queue) ELSE 0

Spoiled(l) == leaf[l].mode = "spoiled" /\ Waiting(l) > 0

\* How remote_reporter_flush of l can end after it has sent n spans: all are
\* sent; the next one is too large and is dropped; the write of a batch fails
\* ("torn": its vector was replaced by a shorter one, "freed": by none, and
\* the spans not in the batch were freed); the spans after the last batch
\* cannot be kept for lack of memory, which ends the loop as if all were sent
\* ("renewed": with a new array).  A network that took no first write takes
\* none.
CanEnd(l, o) ==
  LET w == Waiting(l)
      rest == w - o.n
      large == rest > 0 /\ leaf[l].queue[o.n + 1] \in Large[l]
  IN  /\ \A i \in 1 .. o.n : leaf[l].queue[i] \notin Large[l]
      /\ o.n > 0 => leaf[l].network # "mute"
      /\ \/ o.end = "done" /\ rest = 0
         \/ o.end = "large" /\ large
         \/ o.end = "refused" /\ rest > 0 /\ ~large
         \/ o.end = "torn" /\ rest > Capacity /\ ~large
         \/ o.end = "freed" /\ rest > 1 /\ ~large /\ shortage
         \/ o.end = "dropped" /\ rest > 0 /\ o.n > 0 /\ shortage
         \/ o.end = "renewed" /\ rest > Capacity /\ o.n > 0 /\ shortage

Ends == {"done", "large", "refused", "torn", "freed", "dropped", "renewed"}
\* The result of a flush that ends so.
Succeeds(end) == end \in {"done", "dropped", "renewed"}

\* How far it comes in the queue: past what it sends and what it gives up.
Reached(l, o) ==
  CASE o.end = "large" -> o.n + 1
    [] o.end \in {"dropped", "renewed"} -> Waiting(l)
    [] OTHER -> o.n

\* The array of the queue after it; the first write tells about the network.
Mode(l, o) ==
  CASE o.end = "torn" -> "torn"
    [] o.end = "freed" -> "spoiled"
    [] o.n = 0 -> leaf[l].mode
    [] OTHER -> "sound"
Network(l, o) ==
  CASE leaf[l].network # "untried" -> leaf[l].network
    [] o.n > 0 -> "known"
    [] o.end = "large" -> "untried"
    [] OTHER -> "mute"

\* remote_reporter_flush; with nothing to send it returns true.
FlushLeaf(l, o) ==
  IF Waiting(l) = 0 THEN [leaf[l] EXCEPT !.failed = FALSE]
  ELSE [leaf[l] EXCEPT
          !.sent = @ \o SubSeq(leaf[l].queue, 1, o.n),
          !.queue = SubSeq(@, Reached(l, o) + 1, Len(@)),
          !.lost = @ \cup Slice(leaf[l].queue, o.n, Reached(l, o)),
          !.array = o.end \notin {"done", "dropped"},
          !.network = Network(l, o),
          !.mode = Mode(l, o),
          !.failed = ~Succeeds(o.end),
          !.refused = @ \/ ~Succeeds(o.end)]

MutFlushAll(o) ==
  [l \in Leaves |->
     IF /\ l \in Range(children)
        /\ \A i \in 1 .. Len(children) : children[i] = l =>
             \A j \in 1 .. i - 1 : Succeeds(o[children[j]].end)
     THEN FlushLeaf(l, o[l]) ELSE leaf[l]]

\* composite_reporter_flush goes on after a child that fails.
FlushAll(o) ==
  [l \in Leaves |-> IF l \in Range(children) THEN FlushLeaf(l, o[l]) ELSE leaf[l]]

\* The sum of f over L, as the number of places to count.
Total(L, f) == Cardinality(UNION {{l} \X (1 .. f[l]) : l \in L})

\* Every span a reporter sends counts as a success if it has the counter.
CountSent(o) ==
  LET add == Total({l \in Range(children) : Shares(l)},
                   [l \in Range(children) |-> o[l].n])
  IN [count EXCEPT !.success = IF args.metrics = "null" THEN 0 ELSE @ + add]

\* How the flushes of the children can end.
Ways(l) == {o \in [n : 0 .. Waiting(l), end : Ends] : CanEnd(l, o)}
Outcomes ==
  {o \in [Range(children) -> UNION {Ways(l) : l \in Range(children)}] :
     \A l \in Range(children) : o[l] \in Ways(l)}

\* No child reads a span that is gone.
Sound == \A l \in Range(children) : ~Spoiled(l)

\* jaeger_tracer_flush and jaeger_tracer_close.
Flush ==
  /\ stage = "live"
  /\ Sound
  /\ \E o \in Outcomes :
       /\ leaf' = FlushAll(o)
       /\ count' = CountSent(o)
       /\ flushed' = IF \A l \in Range(children) : Succeeds(o[l].end)
                     THEN "ok" ELSE "failed"
  /\ UNCHANGED <<stage, crashed, tracer, by_name, counters, children, span>>

\* build_batch measures every span in the queue, also those that are gone.
FlushCrash ==
  /\ stage \in {"live", "close", "free_reporter"} /\ "reporter" \in member
  /\ ~Sound
  /\ Crash("span_gone")

---------------------------------------------------------------------------
(* jaeger_tracer_destroy, member by member *)

\* The application destroys the tracer, also one whose init returned false.
Destroy ==
  /\ stage \in {"live", "failed"}
  /\ Goto("close")
  /\ UNCHANGED <<tracer, by_name, counters, count, reporting, span>>

MutClose ==
  /\ stage = "close"
  /\ "reporter" \in member
  /\ Goto("free_name")
  /\ UNCHANGED <<tracer, by_name, counters, count, reporting, span>>

\* tracer->close flushes the reporter while the metrics are still there.
Close ==
  /\ stage = "close"
  /\ "reporter" \in member
  /\ Sound
  /\ \E o \in Outcomes : leaf' = FlushAll(o) /\ count' = CountSent(o)
  /\ Goto("free_name")
  /\ UNCHANGED <<tracer, by_name, counters, children, span>>

\* In the cleanup of init there is no reporter yet.
CloseCrash ==
  /\ stage = "close"
  /\ "reporter" \notin member
  /\ Crash("null_reporter")

Freed(blocks) == frees' = [b \in Blocks |-> frees[b] + (IF b \in blocks THEN 1 ELSE 0)]

FreeServiceName ==
  /\ stage = "free_name"
  /\ Freed({"service_name"})
  /\ member' = member \ {"service_name"}
  /\ Goto("free_metrics")
  /\ UNCHANGED <<args, shortage, allocated, made, by_name, counters, count,
                 reporting, span>>

MutDestroyMetrics ==
  /\ stage = "free_metrics"
  /\ args.metrics # "null"
  /\ Freed({"counters"} \cup (allocated \cap {"metrics"}))
  /\ member' = member \ {"metrics"}
  /\ allocated' = allocated \ {"metrics"}
  /\ Goto("free_sampler")
  /\ UNCHANGED <<args, shortage, made, by_name, counters, count, reporting, span>>

\* jaeger_metrics_destroy frees the counters and sets the pointers to NULL.
DestroyMetrics ==
  /\ stage = "free_metrics"
  /\ args.metrics # "null"
  /\ Freed({"counters"} \cup (allocated \cap {"metrics"}))
  /\ counters' = FALSE
  /\ member' = member \ {"metrics"}
  /\ allocated' = allocated \ {"metrics"}
  /\ Goto("free_sampler")
  /\ UNCHANGED <<args, shortage, made, by_name, count, reporting, span>>

\* The counters of the null metrics are static.
DestroyMetricsCrash ==
  /\ stage = "free_metrics"
  /\ args.metrics = "null"
  /\ Crash("static_freed")

MutDestroySampler ==
  /\ stage = "free_sampler"
  /\ member' = member \ {"sampler"}
  /\ Goto("free_reporter")
  /\ UNCHANGED <<args, shortage, allocated, made, frees, by_name, counters,
                 count, reporting, span>>

DestroySampler ==
  /\ stage = "free_sampler"
  /\ Freed(allocated \cap {"sampler"})
  /\ member' = member \ {"sampler"}
  /\ allocated' = allocated \ {"sampler"}
  /\ Goto("free_reporter")
  /\ UNCHANGED <<args, shortage, made, by_name, counters, count, reporting, span>>

\* The leaves whose destroy, which flushes again, counts with a null counter.
Uncounted == {l \in Range(children) : Shares(l) /\ ~counters /\ Waiting(l) > 0}
\* The children composite_reporter_destroy frees ...
Disposed == IF args.reporter = "composite" THEN Range(children) ELSE {}
\* ... and those among them that were not allocated.
Misplaced == Disposed \ Heap

DestroyReporter ==
  /\ stage = "free_reporter"
  /\ Uncounted = {} /\ Misplaced = {} /\ Sound
  /\ \E o \in Outcomes :
       /\ leaf' = [l \in Leaves |->
            IF l \in Range(children)
            THEN [FlushAll(o)[l] EXCEPT !.queue = <<>>, !.array = FALSE] ELSE leaf[l]]
  /\ Freed(Disposed \cup (allocated \cap {"reporter"}))
  /\ member' = member \ {"reporter"}
  /\ allocated' = allocated \ {"reporter"}
  /\ children' = IF args.reporter = "composite" THEN <<>> ELSE children
  /\ Goto("free_tags")
  /\ UNCHANGED <<args, shortage, made, by_name, counters, count, span>>

DestroyReporterCrash ==
  /\ stage = "free_reporter"
  /\ \/ Uncounted # {} /\ Crash("null_counter")
     \/ Misplaced # {} /\ Crash("static_freed")

\* The vector of a tracer without tags is empty.
DestroyTags ==
  /\ stage = "free_tags"
  /\ Freed(member \cap {"tags"})
  /\ member' = member \ {"tags"}
  /\ Goto("destroyed")
  /\ UNCHANGED <<args, shortage, allocated, made, by_name, counters, count,
                 reporting, span>>

\* The application destroys what it supplied once more, as it would without a
\* tracer (reporter_test.c does): nothing is left to free.
Release ==
  /\ stage = "destroyed"
  /\ Freed((IF counters THEN {"counters"} ELSE {}) \cup Disposed)
  /\ Goto("released")
  /\ UNCHANGED <<args, shortage, member, allocated, made, by_name, counters,
                 count, reporting, span>>

---------------------------------------------------------------------------
Next ==
  /\ crashed = "no"
  /\ \/ \E l \in Leaves : CompositeAdd(l) \/ CompositeAddFails(l)
     \/ InitServiceName \/ InitMetrics \/ InitMetricsFails \/ InitSampler
     \/ InitReporter \/ InitReporterCrash \/ InitTags \/ InitTagsFails
     \/ InitFails
     \/ \E s \in Spans, sampled \in BOOLEAN : Start(s, sampled)
     \/ \E s \in Spans : StartFails(s) \/ StartCrash(s) \/ Finish(s)
                         \/ FinishCrash(s)
     \/ UpdateSampler \/ Flush \/ FlushCrash \/ Destroy
     \/ Close \/ CloseCrash \/ FreeServiceName
     \/ DestroyMetrics \/ DestroyMetricsCrash \/ DestroySampler
     \/ DestroyReporter \/ DestroyReporterCrash \/ DestroyTags \/ Release

Spec == Init /\ [][Next]_vars

---------------------------------------------------------------------------
(* Properties *)

Stages == {"setup", "metrics", "sampler", "reporter", "tags", "live", "failed",
           "close", "free_name", "free_metrics", "free_sampler",
           "free_reporter", "free_tags", "destroyed", "released"}

\* Every variable has its type, and only members that are set are marked as
\* allocated (tracer.h: the flags of what the tracer must free).
TypeOK ==
  /\ stage \in Stages
  /\ crashed \in {"no", "unset_flush", "destroyed_twice", "reference",
                  "null_name", "no_array", "null_reporter", "static_freed",
                  "null_counter", "process_freed", "span_gone"}
  /\ member \subseteq Parts
  /\ allocated \subseteq member
  /\ made \subseteq Blocks
  /\ frees \in [Blocks -> Nat]
  /\ by_name \in BOOLEAN /\ counters \in BOOLEAN /\ shortage \in BOOLEAN
  /\ count \in [{"started", "finished", "sampled", "traces_sampled",
                 "traces_not_sampled", "success"} -> Nat]
  /\ Range(children) \subseteq Leaves
  /\ span \in [Spans -> {"new", "none", "sampled", "unsampled", "reported",
                         "finished"}]
  /\ flushed \in {"none", "ok", "failed"}

\* What the tracer is to free: what it allocated, the counters of the
\* caller's metrics, and the children of a composite reporter.
Owned(b) ==
  \/ b \in made
  \/ b = "counters"
  \/ args.reporter = "composite" /\ b \in Heap

\* Nothing is freed twice, and nothing of the caller's that the tracer does
\* not take over, through failures of init, destroy of a tracer whose init
\* returned false, and a second destroy of what the caller supplied; and a
\* destroyed tracer has freed everything it allocated.
FreedOnce ==
  /\ \A b \in Blocks : frees[b] <= (IF Owned(b) THEN 1 ELSE 0)
  /\ stage \in {"destroyed", "released"} =>
       member = {} /\ \A b \in made : frees[b] = 1

\* destroy takes the metrics down before the reporter, whose destroy flushes
\* and counts again.  That is noticed only if the flush of close failed for a
\* reporter that shares the caller's metrics.
MetricsOutliveUse ==
  crashed = "null_counter" =>
    \E l \in Range(children) : Shares(l) /\ leaf[l].failed

\* What l was passed and has not lost, in that order.
Got(l) == leaf[l].sent \o leaf[l].queue
\* What l must still have or have sent.
Due(l) == Reported \ (leaf[l].missed \cup leaf[l].lost)

\* With memory to spare, every child of a composite reporter is passed every
\* sampled span once, in one order: of what was reported since it was added,
\* each span was sent, waits, or was lost, one of the three and once, and
\* spans are lost (too large for a packet, or overwritten in an array that a
\* failed write left too long) only by a child whose flush has returned false.
EveryChildReported ==
  ~shortage /\ stage \in {"setup", "live"} /\ crashed = "no" =>
    \A l \in Range(children) :
      /\ Kind[l] # "null" => Range(Got(l)) = Due(l)
      /\ Len(Got(l)) = Cardinality(Range(Got(l)))
      /\ leaf[l].lost # {} => leaf[l].refused

\* A flush that returns true has left nothing waiting in any child and, with
\* memory to spare, each remote one has sent all it must; one that returns
\* false is explained by a child, and what waits in a child was left by its
\* own failure: a child that fails keeps no other from being flushed.
FlushReachesAll ==
  flushed # "none" =>
    /\ (flushed = "ok") <=> \A l \in Range(children) : ~leaf[l].failed
    /\ \A l \in Range(children) : Waiting(l) > 0 => leaf[l].failed
    /\ flushed = "ok" /\ ~shortage =>
         \A l \in Range(children) :
           Kind[l] = "remote" => Range(leaf[l].sent) = Due(l)

\* The spans in one of these states.
Ever(states) == {s \in Spans : span[s] \in states}
\* How many spans the reporters that share the metrics have sent.
Sent == Total({l \in Leaves : Shares(l)}, [l \in Leaves |-> Len(leaf[l].sent)])

\* The counters of the caller's or the default metrics tell what happened: a
\* span is started once and begins one trace, a failed start counts nothing,
\* success is what the reporters that share the metrics have sent.
CountersAccount ==
  args.metrics # "null" =>
    /\ count.started = Cardinality(Ever({"sampled", "unsampled", "reported", "finished"}))
    /\ count.started = count.traces_sampled + count.traces_not_sampled
    /\ count.finished = Cardinality(Ever({"reported", "finished"}))
    /\ stage \in {"live", "close", "free_name"} => count.success = Sent

---------------------------------------------------------------------------
(* The inductive invariant behind these properties *)

LeafState == [queue : Seq(Spans), sent : Seq(Spans), missed : SUBSET Spans,
              lost : SUBSET Spans, array : BOOLEAN,
              network : {"untried", "mute", "known"},
              mode : {"sound", "torn", "spoiled"},
              failed : BOOLEAN, refused : BOOLEAN]

\* The types TypeOK leaves out.
DataInv ==
  /\ args \in [metrics : Metrics, sampler : Samplers, reporter : Reporters]
  /\ children \in Seq(Leaves)
  /\ leaf \in [Leaves -> LeafState]

\* The stages after the one that destroys a member.
AfterTags == {"destroyed", "released"}
AfterReporter == {"free_tags"} \cup AfterTags
AfterSampler == {"free_reporter"} \cup AfterReporter
AfterMetrics == {"free_sampler"} \cup AfterSampler
AfterName == {"free_metrics"} \cup AfterMetrics
Gone(p) == CASE p = "service_name" -> AfterName
             [] p = "metrics" -> AfterMetrics
             [] p = "sampler" -> AfterSampler
             [] p = "reporter" -> AfterReporter
             [] OTHER -> AfterTags

\* The reporter is the last member whose absence stops destroy (CloseCrash):
\* beyond it init has set all members but the tags.
Complete ==
  \/ stage \in {"tags", "live", "failed", "free_name"} \cup AfterName
  \/ stage = "close" /\ "reporter" \in member

\* Was the member the tracer's own to make?
Own(p) == p \in {"service_name", "tags"} \/ args[p] = "none"

\* Which members are set, and who allocated them.
MemberInv ==
  /\ stage = "setup" => member = {}
  /\ stage \in {"metrics", "sampler", "reporter"} => "service_name" \in member
  /\ stage \in {"sampler", "reporter"} => "metrics" \in member
  /\ stage = "reporter" => "sampler" \in member
  /\ stage \in {"setup", "metrics", "sampler", "reporter"} =>
       "reporter" \notin member /\ made \cap Parts \subseteq member
  /\ Complete => \A p \in Parts : p \in member <=>
       stage \notin Gone(p) /\ (p = "tags" => "tags" \in made)
  /\ \A p \in member : p \in made <=> Own(p)
  /\ \A p \in member \ {"service_name", "tags"} : p \in allocated <=> Own(p)
  /\ allocated \cap {"service_name", "tags"} = {}
  /\ made \subseteq Parts \cup {"counters"}
  /\ Complete => \A p \in Parts \ {"tags"} : p \in made <=> Own(p)

\* What was freed: of a tracer that is not complete only the counters of
\* metrics that could not be made, of one that is what destroy has passed.
FreeInv ==
  /\ \A p \in Parts : frees[p] = IF Complete /\ stage \in Gone(p) /\ p \in made
                                  THEN 1 ELSE 0
  /\ Complete => frees["counters"] = IF stage \in AfterMetrics THEN 1 ELSE 0
  /\ stage # "close" /\ ~Complete => frees["counters"] = 0
  /\ frees["counters"] <= 1
  /\ stage \in AfterMetrics => ~counters
  /\ \A l \in Leaves : frees[l] \in {0, 1}
  /\ \A l \in Leaves : frees[l] = 1 =>
       stage \in AfterReporter /\ args.reporter = "composite" /\ l \in Heap
  /\ stage \in AfterReporter /\ args.reporter = "composite" => children = <<>>

\* The stages before the tracer has a reporter.
Early == {"setup", "metrics", "sampler", "reporter"}

\* What the reporters got: no span but reported ones, none twice, and with
\* memory all of them, where losses have been told.
Passed ==
  /\ stage # "live" => \A s \in Spans : span[s] = "new"
  /\ args.reporter = "none" /\ stage \in Early => children = <<>>
  /\ \A l \in Leaves : /\ leaf[l].missed \subseteq Reported
                       /\ leaf[l].lost \subseteq Reported
                       /\ Range(Got(l)) \subseteq Reported \ leaf[l].lost
                       /\ IsInjective(Got(l))
                       /\ l \notin Range(children) =>
                            Got(l) = <<>> /\ leaf[l].lost = {} /\ leaf[l].mode = "sound"
  /\ ~shortage => \A l \in Range(children) :
       /\ Kind[l] # "null" => Range(Got(l)) = Due(l)
       /\ leaf[l].lost # {} \/ leaf[l].mode = "torn" => leaf[l].refused

\* The stages up to the call of destroy.
Growing == {"setup", "metrics", "sampler", "reporter", "tags", "live"}
PassedInv == stage \in Growing => Passed

\* What close leaves in a queue is what its flush failed to send.
RefusedInv ==
  /\ stage \in {"free_name", "free_metrics", "free_sampler", "free_reporter"} =>
       \A l \in Range(children) : Waiting(l) > 0 => leaf[l].failed
  /\ MetricsOutliveUse /\ FlushReachesAll

\* The counters, also before and after the stages CountersAccount is about.
CountInv ==
  /\ CountersAccount
  /\ args.metrics # "null" /\ stage \notin AfterReporter =>
       count.success = Sent

\* What holds at every stage of a tracer's life, from jaeger_tracer_init to
\* jaeger_tracer_destroy: of its members, of the memory behind them, of what
\* the children of the reporter were passed, and of the counters.
IndInv ==
  /\ TypeOK
  /\ DataInv
  /\ MemberInv
  /\ FreeInv
  /\ PassedInv
  /\ RefusedInv
  /\ CountInv
====
