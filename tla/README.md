# Verification of jaeger-client-c in TLA+

This directory holds TLA+ models of the Jaeger tracing client for C in
`src/src/jaegertracingc/`, TLC configurations that model-check them, and proofs
that TLAPS checks. File names below are relative to that source directory.
`PROJECT.json` maps every definition to the lines it models.

Parse with `tlasany M.tla`, check with `tlc -config X.cfg MCM`, prove with
`tlapm M_proofs.tla`.

## 1. The system

An application asks a *tracer* for *spans*, annotates them from any of its
threads and finishes them. A *sampler* decides when a trace starts whether it
is recorded; finished spans that are sampled go to a *reporter*, which queues
them and, when the application calls flush, sends them in UDP packets.

| Part | State | Operations | Called by |
| --- | --- | --- | --- |
| Remote reporter, `reporter.c` | mutex, vector of protobuf spans, process, socket, candidate addresses, packet limit | `report`, `flush`, `destroy` | tracer, application |
| Other reporters, `reporter.c` | in-memory: mutex and vector of copies; composite: list of reporters; null, logging: none | `report`, `flush`, `destroy` | tracer |
| Span and context, `span.c` | per span two mutexes, times, name, tags, logs; context: ids, flags, baggage | `set_operation_name`, `set_tag`, `log`, `finish`, baggage, `is_sampled`, sampling priority, copy, to_protobuf | application, reporters |
| Mutexes, `threading.c` | the platform's mutexes | `lock`, `try_lock`, `unlock`, `jaeger_lock` (two at once) | everything |
| Token bucket, `token_bucket.c` | balance, last tick | `check_credit` | rate limiter |
| Samplers, `sampler.c` | constant, probabilistic: none; rate limiting: bucket; guaranteed throughput: both; adaptive: sorted array of one sampler per operation; remotely controlled: one of the others | `is_sampled`, `update`, `destroy` | tracer, application |
| HTTP sampling manager, `sampler.c` | TCP connection, HTTP parser, request, response buffer | `get_sampling_strategies` | remotely controlled sampler |
| Tracer, `tracer.c` | service name, sampler, reporter, metrics, tags, options | `init`, `start_span`, `report_span`, `flush`, `destroy` | application, spans |
| Propagation, `propagation.c` | none | extract and inject: text map, HTTP headers, binary, custom | application |
| Vector, list, hash table, `vector.c`, `list.c`, `hashtable.c` | arrays, chains, buckets | usual operations | all of the above |
| Metrics, `metrics.c` | counters and gauges | `inc`, `update` | reporter, sampler, tracer |
| Baggage restrictions, tags, log records, key-value pairs | plain data | constructors, copies | spans |
| Logging, allocator, clock, random, options | global hooks | | everything |

No thread of the library runs by itself: flush and the sampler's update happen
when the application calls them. The hard behaviours are therefore

* threads that meet in one span, in one reporter or in one sampler, with locks
  taken one at a time, in pairs and nested (§3.2);
* allocations and writes that fail half-way through an operation, which must
  leave arrays, lengths and capacities that belong together (§3.1);
* a server that answers anything at any time, and a connection and parser that
  outlive a failed exchange (§3.4);
* a table of linked nodes that is rehashed, copied and iterated over by several
  threads (§3.5);
* carriers that belong to the application: callbacks that fail, headers in any
  order, foreign headers, binary carriers that break off (§3.6);
* construction that fails half-way and destruction of parts that share metrics
  (§3.7);
* arithmetic on time and credit (§3.3);
* sequences of legal calls that no test of the repository makes, such as a
  report after a complete flush.

`PROJECT.json` lists these hazards line by line with the properties that watch
them.

What makes each part correct: the reporter must keep its array memory safe, send
each span at most once and in order, count what it sent, and give its mutex
back. The locking of spans must exclude races and deadlocks (it does not quite:
§3.2), keep copies whole, and record only on sampled spans. The rate limiter
must not admit more than its rate over any stretch of time, nor refuse what is
due. The adaptive sampler must keep its array sorted and searchable, own its
names, apply what the server says and respect its limit; the remotely controlled
one must be able to retry. A hash table must be a function from keys to values;
the tracer must destroy what it created, once, in an order that nobody can
observe; what one process injects another must extract.

## 2. Modules

| Module | Models | Checked by | Proved in |
| --- | --- | --- | --- |
| `RemoteReporter` | remote reporter, with the vector and the counters as it uses them | `MCRemoteReporter`: `reporter_faults`, `reporter_append_assert` | `RemoteReporter_proofs` |
| `Span` | locking of all operations on spans, composed with the reporters and the tracer that call them | `MCSpan`: `span_calls`, `span_start` | `Span_proofs` |
| `TokenBucket` | token bucket inside the rate-limiting and the guaranteed-throughput sampler | `MCTokenBucket`: `token_bucket` | `TokenBucket_proofs` |
| `RemoteSampler` | adaptive and remotely controlled sampler with the HTTP manager | `MCRemoteSampler`: `sampler`, `sampler_retry` | `RemoteSampler_proofs` |
| `KeyValueMap` | nothing: the abstract specification of a hash table | as the property `ImplementsMap` of `hashtable` | - |
| `Hashtable` | hash table, list and key-value nodes as the baggage of a context that threads share | `MCHashtable`: `hashtable`, `hashtable_size` | `Hashtable_proofs` |
| `UriCodec` | percent encoding and decoding of values | through `Propagation` | `Propagation_proofs` |
| `Propagation` | inject and extract with text maps, HTTP headers and binary carriers; formatting and scanning of contexts | `MCPropagation`: `propagation`, `propagation_success` | `Propagation_proofs` |
| `Tracer` | init, spans, flush and destroy of a tracer, composed with metrics and the null, in-memory, composite and (as a queue) remote reporter | `MCTracer`: `tracer` | `Tracer_proofs` |
| `SequenceLemmas` | nothing: facts about sequences, and induction over a set of numbers, that several proofs use | - | itself |

How they fit together: `Span` composes the span's locks with those of the
reporter and the tracer, `Tracer` their lives and counters without threads.
`Tracer` sees of the remote reporter its queue and every way in which a flush of
it can end (all sent, a span too large, a failed write, spans dropped for lack
of memory), which `RemoteReporter` has in steps, and of the sampler whether it
looks at names (`RemoteSampler`). `Propagation` treats extracted baggage as a
map, which is what `Hashtable` shows a table to be, and injected baggage as
buckets.

Definitions named `Mut...` are faulty variants of the definition that follows
them. No specification uses them; with one put in the place of the original,
the property `PROJECT.json` names must fail. They show that the properties can
see the mistakes they are meant for.

## 3. The models

### 3.1 RemoteReporter

The state is the reporter's: `mutex`, the vector (`entries`, `capacity` and
`data`, the number of elements really allocated, 0 for a null pointer), `batch`
(the array a flush has taken), `addr` (candidate addresses not yet tried, one
known to work, or none), whether the process message is set, and the counters.
`life` follows each protobuf copy (not made, live, freed), and the ghosts
`ticket`, `accepted`, `sent` and `pending` remember the order of acceptance,
what left, and what was queued when a flush began. A span is its packed size.

A thread moves by `pc`. `report` is lock, reserve, convert, append, and the
process message where it is missing, each with its failure; `flush` is lock,
then the loop of `flush_batch`: a first span that cannot fit alone is dropped
(`LargeBatchError`), otherwise the largest prefix that fits is taken
(`BatchAll`, `BatchSplit`, `BatchSplitFail`), written (`FlushBatchOk`,
`FlushBatchFail`), and after a failed write the array is put back; `destroy`
flushes and frees. Steps between lock and unlock are separate because failures
happen between them. `faults` says which calls may fail in a run of the program,
so that conditional properties ("as long as the socket accepts ...") are stated
over one model.

Reaching a state in which the C program has undefined behaviour or a failing
assertion ends the process (`Crash`): a null array written (`AppendCrash`), a
null or freed span read (`BatchCrash`, `DestroyCrash`).

Properties (`reporter_faults`):

* `ArraySafe`: the length never exceeds the array behind the vector, nor does
  the capacity while there is an array; the same for the batch's array.
* `InOrderOnce`: what was sent, what is in the batch and what is queued are in
  the order of acceptance, without repetition, through splits, failures and
  restorations.
* `SuccessIsSent`: the success counter is the number of spans sent.
* `MuteAfterFirstFailure`: a first write that fails for every candidate frees
  the candidates, and nothing is ever sent.
* `NoDanglingUnlessBoth`: a freed span returns to the queue only if both an
  allocation and a write may fail.
* `NoLeakWhileSending`: copies get lost only if writes may fail.
* `FlushTrueWithMemory`: with memory to spare, a flush that returns true has
  sent everything that was queued when it began.
* `IndInv`: the inductive invariant of §5; the type invariant is a part of it.
* `MutexReleased`, under weak fairness of every thread inside a call: whoever
  takes the mutex gives it back or the process ends, so that the loop of flush
  ends although writes fail and spans are too large.

Known behaviour, seen in the model:

* `reporter_append_assert` (finding): after a flush that sent everything,
  `data` is null but `capacity` is not, so the next `report` finds room in an
  array that is not there, and the assertion at `reporter.c:426` fails. In all
  other runs this crash is one of the ways a behaviour ends.
* Where an allocation *and* a write fail, `build_batch` has freed the spans
  that did not fit (`reporter.c:339`), and the cleanup of `flush_batch` queues
  them again (`reporter.c:553`) although the comment there says "they are still
  valid". `NoDanglingUnlessBoth` states exactly how far the comment is true.
* The same cleanup restores array and length but not the capacity; a later
  `jaeger_vector_reserve` clears the array from the smaller capacity on and
  forgets queued spans. `NoLeakWhileSending` states the complement.
* A flush that drops spans for lack of memory still returns true
  (`reporter.c:348`).
* The gauge for the queue's length is never written; `update_queue_length`
  increments the counter of dropped spans instead (`metrics.h`).

### 3.2 Span

The state is the owner of each mutex, a program counter per thread, the routine
and span it works on, and of the data what the locks protect: the sampled bit of
`context.flags`, `duration`, a count of recorded changes, a version number of
the baggage value, and what a copy has read so far. The ghost `late` has the
spans whose sampling was switched on while a thread was finishing them. An
action is one lock operation or the code between two of them. `jaeger_lock` is
modelled step by step: lock the first, try the second, on failure release the
first, exchange, start over. `finish` continues into `report_span`, the
reporter's mutex and `jaeger_span_to_protobuf` or `jaeger_span_copy`, which take
the span's locks again. `start` is a tracer's start of a new span with its
metrics.

* `IndInv` (`span_calls`): the inductive invariant of §5; the type invariant is a
  part of it.
* `OnlyItemRaces`: while a thread writes a member nobody else reads or writes
  it, with one exception: `jaeger_span_baggage_item` reads the value it found
  after both unlocks, and `set_baggage_item` may replace and free it meanwhile.
  Everything else rests on a rule no comment states: `context.flags` is written
  under both mutexes and may be read under either.
* `NoTornCopy`: the parts of a copy are of one moment although the copy takes
  and releases the context's mutex in between.
* `RecordsOnlySampled`: a change is recorded only while the span is sampled,
  although the flag was looked at a step earlier.
* These three hold where nobody unlocks what he has not locked (`Disciplined`):
  memory suffices, or the reporter is the one in memory. See the third item
  below.
* `DurationUnlessLate`: every span is reported with its duration, unless its
  sampling was switched on while it was being finished. `finish` looks at the
  flag twice with the mutexes released in between.
* `OnlyStartDeadlocks`: three threads, every operation, both reporters, failing
  allocations; no set of threads waits for itself, except one with a thread that
  starts a span.

Known behaviour:

* `span_start` (finding): `update_metrics_for_new_span` holds the span's mutex
  when it calls `jaeger_span_is_sampled`, which locks it again. With the
  default (not recursive) mutex `jaeger_tracer_start_span` never returns.
* The read after both unlocks that `OnlyItemRaces` names (`span.c:349`, the value
  is freed at `hashtable.c:188`) contradicts `span.h:85`, "Lock to protect
  mutable members".
* `jaeger_span_to_protobuf` unlocks both mutexes on its two first error paths,
  where they are not locked yet, and takes them from whoever holds them. The
  run includes this; `Disciplined` in the properties excludes its consequences.
* A span that becomes sampled between the two looks of `finish` is reported
  without a duration; `DurationUnlessLate` says that this is the only case.
* `jaeger_lock` gives up what it holds and starts over, so that two threads in
  it may find each other's mutex taken any number of times. No liveness of spans
  is claimed.

### 3.3 TokenBucket

The guaranteed-throughput sampler and the rate limiter in it. Time is a number
of ticks, `rate` credits accrue per tick, a trace costs `Cost` (1 in the code;
a finer unit lets rates below one trace per second be integers). Rounding of
doubles is left out. The probabilistic decision is an arbitrary Boolean.
`Update` puts a new, full bucket in place when the lower bound changes. Ghosts:
`earned` and `spent` since the bucket was made, their values at the start of an
arbitrary window (`mark`) and when the bucket was last full (`full`).

* `RateBounded`: over every window, what the lower bound admits costs at most a
  full bucket and what accrued in the window. A window does not reach across an
  `Update`: a new bucket starts full, so that a server that changes the bound
  often admits more.
* `UnsampledOnlyWhenSpent`: is_sampled says no only if all that accrued since
  the bucket was last full, but for less than one trace, has been spent.

### 3.4 RemoteSampler

The state is the sampler in place (`type`, and `ready`: was its initialisation
successful?), the array `ops` and the defaults of the adaptive sampler, what a
query leaves of `connection` and `parser`, and where `update` is. An entry of
the array has a name, the pointer to it (two entries may share one), and the
rate and lower bound of its sampler. Rates are integers that the constructor of
the probabilistic sampler clamps to 0..1 (`Clamp`); the instance has 0 and one
above 1. Names are numbers, in the order of strcmp.
Both binary searches are written out, `jaeger_vector_lower_bound` from the
source and `bsearch` as the C library does it, each as a recursive function of
the two numbers its loop carries; comparing with a null name ends the process.
`Sorted` is what `jaeger_vector_sort` leaves, the one increasing enumeration.

A call of is_sampled is one step, under the mutex, and may come at any time but
during the loop of `update`, whose rounds are steps. A query ends in one of
five ways: strategies, bad JSON, bad HTTP (which breaks the parser for good), a
good answer refused by a broken parser, a lost connection; or an assertion
fails. `environment` says whether memory is short and whether the server lists
operations the sampler does not know. A server lists an operation once.

* `IndInv`: the inductive invariant of §5, with the type invariant.
* `SearchesExact`: the array is ordered, entries without a name are last, and
  both searches find what they are specified to find (a reference definition
  with quantifiers), also in the damaged arrays that occur.
* `StrictOrderUnlessStressed`: with memory and known operations only, names are
  distinct, owned and in strict order, and the adaptive sampler is initialised.
* `ListedRatesApply`: under these conditions every operation has, between two
  updates, the rate, clamped, and the lower bound the server listed last.

Known behaviour:

* `jaeger_adaptive_sampler_update` never sets the
  name of an entry it inserts. The entry keeps the name pointer of the entry
  that moved up, or NULL at the end: destroy then frees a name twice, or the
  next search compares with a null pointer (`sampler_test.c:246` asserts that
  neighbours have names, which differ). `StrictOrderUnlessStressed` states how
  far that is true.
* `sampler_retry` (finding): the HTTP parser refuses all input after an error
  and is initialised once, so after one malformed answer, or one with another
  status than 200 and a body, every retry fails.
* Without memory for its copy of the name, `find_sampler` says "not found", and
  the caller inserts the operation a second time.
* The type is set before the adaptive sampler is initialised; if that fails,
  the next update works on a mutex and a vector that were never initialised.
* `update` leaves the default rate and the lower bound for unlisted operations
  as they were, and does not look at `max_operations`.

### 3.5 Hashtable

The nodes are addresses with key, value, next and prev; a table is size, order
and an array of lists, as in the source. `live` has the allocated nodes. Tables
are the baggage of one context (`Src`) and the copy each thread may be making.
The hash is a constant function, chosen so that keys collide. `InitOrder` is 4
in the code and 1 in the instance, so that two puts rehash.

All operations but one run under the context's mutex: `put`, `find` and
`remove`; `copy` (`jaeger_span_context_copy`), which puts entry after entry
into a table of its own; `foreach` (the callback may stop it). `inject` is the
loop of `jaeger_inject_into_binary`, which takes no lock. A rehash moves one
entry per step, so that everything `inject` can meet is a state of the model;
when it meets a writer the outcome is undefined and the process ends. Any
allocation may fail.

A null array of buckets is `NoBuckets`. Addresses are numbers and malloc returns
the least that is free; when none is left an insertion can only fail. `Chain`
walks a list by its `next` pointers and gives up after as many steps as there
are nodes, so that it is defined for a broken list too: that a list is not
broken is a property, not a precondition.

* `IndInv`: the inductive invariant of §5; the type invariant is a part of it.
* `ListsLinked`: every bucket, those of a rehash under way included, is a
  doubly linked list as long as its size says.
* `NodesOwned`: every allocated node is in one bucket of one table, and what is
  in a bucket is allocated: nothing leaks and nothing is freed twice, through
  failures, rehashes, abandoned copies and destruction. An iteration under the
  mutex always stands on an allocated node.
* `SizeAndLoad`: a table has more buckets than its size and no more entries than
  its size, also in the middle of a rehash; exactly as many in a copy, and as
  long as nothing was removed.
* `CopyFits`: the order that `jaeger_hashtable_minimal_order` gives a copy is
  always enough, so a copy never rehashes; and it misses no entry, so the
  assertion at its end holds if nothing was removed.
* `ImplementsMap`: `Hashtable` implements `KeyValueMap`, where the table is a
  function from keys to values and every operation one step: a failed put
  changes nothing, a find returns the value put last, a copy is the function of
  one moment, an iteration passes each pair once. The refinement mapping takes
  `dict` from the nodes in both the old and the new buckets, which is why a
  rehash is invisible.

Known behaviour:

* `hashtable_size` (finding): `jaeger_hashtable_remove` does not decrement the
  size (`hashtable.c:210`), so after a remove the assertion that a copy has the
  size of its source (`hashtable.c:260`, `CopySizesAgree`) fails; so does that of
  inject (`propagation.c:506`). Nothing in the library calls remove; the tests do.
* A copy whose put fails is destroyed by `jaeger_hashtable_copy` and again by
  `jaeger_span_context_copy`. Its buckets are then NULL and its order is not 0,
  so that clear reads bucket 1 of a null array (`DestroyCrash`).
* `jaeger_inject_into_binary` and the text map helper iterate without the mutex
  that `span.h:85` says protects the baggage (`InjectRace`).
* The `break` in `jaeger_span_context_foreach_baggage_item` leaves the inner
  loop only: a callback that returned false is called again for the next
  bucket.
* Without `HAVE_BUILTIN`, `jaeger_hashtable_minimal_order` rounds differently:
  at powers of two a copy would rehash. The model has the `__builtin_clz` form;
  the mutant of `CopyFits` is the other.

### 3.6 Propagation

One process injects a context (`source`, with its baggage as buckets) and
another extracts it from the carrier (`wire`). Ids are numbers of `Width` digits
in base `Base` (16 and 16 in the code, 2 and 2 in the instance) and are
formatted into digits and scanned back: high and low half, padding, more digits
than one half has, and numbers that `strtoull` cuts off at the largest. Values
are texts of character codes and go through `UriCodec`, which has the encoder
and the three-state decoder of `strings.h`. Keys are symbols with a lower-case
form.

`SetContext` to `WriteBinary` are inject, with callbacks and allocations that
fail. `Deliver` is the world between: other headers join, a binary carrier may
be cut. Extraction takes the headers in any order, one callback each, or reads
the binary fields, whose meaning their position gives (`FieldName`); buffers of
the binary reader are null, live or freed. A number of items above `IntMax` is
negative after the cast to `int`, and the loop reads none (`ItemsWanted`); the
length of a key or value fits, or wraps to 0 when 1 is added to it, and then the
read overruns its buffer (`ReadOverflow`). The decoder's assertion counts for
each header that is decoded (`DecodeCrash`). A key is an item's only if it is
longer than the prefix (`IsItem`). Carriers of foreign origin are initial states
too.

* `IndInv`: the inductive invariant of §5, with the type invariant.
* `RoundTrip`: what was injected completely is extracted: ids, flags, and every
  value under its key, in whatever order the headers come, but for the key ""
  in a text carrier. An empty context arrives as none.
* `ErrorLeavesNothing`: a failed extract leaves neither a context nor a buffer,
  `decoding_errors` counts exactly the corrupted carriers, and a binary carrier
  that breaks off within its first item is refused cleanly.
* `BuffersSuffice`: decoding never writes more than it reads, also for texts
  that end inside an escape; encoding at most three times as much; the upper
  half of a trace id fits the buffer it is copied into.

Known behaviour:

* `propagation_success` (finding): the inner loop of inject goes on after an
  error, and the next success in the same bucket replaces it
  (`propagation.c:426`), although the comment says "Loop will not execute if
  error_code is not" success. So inject can say success and an item is missing
  (`SuccessIsWritten`); what is left, the last entry of every bucket, is
  `LastsWritten` in `IndInv`.
* An item with an empty key is injected as the bare prefix, which extract ignores
  (`propagation.c:97`); a binary carrier keeps it.
* A binary carrier that breaks off after its first item frees both buffers
  twice (`propagation.c:288`, `295`). `ErrorLeavesNothing` states the complement.
* The malloc for a list of baggage is not checked (`propagation.c:87`).
* A context header that comes after the debug header overwrites the debug bits;
  `RoundTrip` has the flags of both orders. The debug id itself is never
  injected.
* The decoder's assertion `(x) < 0x7f` fails for a DEL, in every header it
  decodes.
* A binary carrier with a length of 2^32 - 1 gets a buffer of no bytes
  (`propagation.c:268`, `277`).
* Lack of memory while scanning is counted as a corrupted context; a fourth
  token is not looked at; `jaeger_tracer_extract_custom` bypasses the counter.

### 3.7 Tracer

`args` is what the caller of `jaeger_tracer_init` supplies: metrics (none, its
own, or `jaeger_null_metrics()`), sampler, and reporter (none, one of the
leaves, or a composite of some). `stage` walks through init, life and destroy,
one member per step, because every step may fail. `member` and `allocated` are
the tracer's fields, `made` and `frees` ghosts that remember what was allocated
and how often each block was freed. `leaf` has for each reporter its queue, what
it sent, missed (reported before it was added) and lost, whether there is an
array, what the first write told about the network, whether the array is longer
than its capacity or holds freed spans (`mode`), and whether its last flush
(`failed`) or any (`refused`) returned false; `count` has the counters.

A flush of a remote reporter sends a number of spans and then ends (`CanEnd`):
everything is sent; the next span is too large for a packet and dropped
("large", which returns false, also with nothing left in the queue); the write
of a batch fails, and what was not sent waits in the old array ("refused"), in
one longer than the capacity ("torn") or with freed spans ("freed"); or memory
for the rest is short, which drops it and returns true ("dropped", "renewed").

This is the build with one thread and without assertions. It is the only one in
which `jaeger_tracer_start_span` returns: with assertions
`assert(span_refs != NULL)` fails (`tracer.c:361`, the references are NULL when
there are none), and with threads it deadlocks (§3.2).

* `IndInv`: the inductive invariant of §5, with the type invariant.
* `FreedOnce`: through every failure of init and every choice
  of arguments, what the tracer allocated is freed once and nothing else is,
  except what it takes over (the caller's counters, a composite's children).
* `MetricsOutliveUse`: destroy takes the metrics down before the reporter, and
  this is noticed only if the flush in close failed for a reporter that shares
  the caller's metrics.
* `EveryChildReported`: with memory, every child is passed every sampled span
  reported since it was added. Each was sent, waits, or was lost, one of the
  three and once, and only a child whose flush has returned false loses spans.
* `FlushReachesAll`: a flush that returns true has left nothing waiting in any
  child and, with memory, the remote ones have sent all they must; one that
  returns false is explained by a child, and a child that fails keeps no other
  from being flushed.
* `CountersAccount`: the counters are the numbers of spans started, finished
  and sent, and of traces; a start that fails counts nothing.

Known behaviour:

* `tracer.h` says init returns "True on success, false otherwise". Every
  failure but the last (the vector of tags) goes through destroy, whose close
  flushes a reporter that is not set yet (`CloseCrash`). Before that, the
  cleanup of `jaeger_remote_reporter_init` calls flush through a pointer it has
  not set (`InitReporterCrash`).
* `default_metrics` leaks the structure when its counters cannot be made.
* The default sampler and reporter are given the argument `metrics`, which is
  NULL when the tracer makes its own: they count nothing.
* `jaeger_metrics_destroy` frees the counters of `jaeger_null_metrics()`, which
  are static; a composite reporter frees its children, also the null reporter
  and those on the stack.
* A span whose vectors cannot be made is destroyed by `jaeger_span_init` and
  again by its caller. A reference is copied as a `jaeger_span_ref`, which it is
  not. The sampler is asked before the span has a name; the adaptive one
  compares with it. All three end the model (`StartCrash`).
* `spans_sampled` is incremented for spans that are not sampled too
  (`tracer.c:457`).

## 4. Runs, bounds, fairness

| Run | Instance | Distinct states | Result |
| --- | --- | --- | --- |
| `reporter_faults` | 2 threads; 2 small spans, 1 that fills a packet, 1 too large; capacity 2; 2 flushes; malloc, send or both may fail; fairness | 199,047 | holds |
| `reporter_append_assert` | as above | - | violated: finding |
| `span_calls` | 3 threads, 3 calls of any operation, a shared and a new span, both reporters, malloc may fail | 2,225,542 | holds |
| `span_start` | 2 threads | - | violated: finding |
| `token_bucket` | rates -1, 0, 1, 3 per tick, 2 ticks a second, cost 3, 7 ticks | 28,626 | holds |
| `sampler` | 3 names, rates 0 and one above 1, 2 defaults, lists of at most 2, limit 2, 3 updates, with and without faults | 1,222,936 | holds |
| `sampler_retry` | 2 updates | - | violated: finding |
| `hashtable` | 2 threads, 3 keys of which 2 always collide, 2 values, order 1, 4 calls, malloc may fail | 100,966 | holds |
| `hashtable_size` | as above, without failing malloc and without inject | - | violated: finding |
| `propagation` | all texts of up to 3 of 7 characters, all ids of 2 binary digits a half, up to 3 items in 1 or 2 buckets, the empty key, 6 sets of other headers, foreign text and binary carriers, one kind of fault at a time | 1,091,625 | holds |
| `propagation_success` | as above | - | violated: finding |
| `tracer` | 3 spans, one too large for all remote reporters but one; default, sharing and separate remote, in-memory and null reporter; up to 2 children, capacity 1; every choice of arguments (a composite with one kind of sampler), with and without shortage | 1,182,485 | holds |

Why the bounds are enough for the cases that matter: two packets' worth of
small spans, a capacity that must double, and a span that never fits make every
branch of `build_batch` happen with something left in the queue; two flushes
make one work on what the other left. Three threads are needed for a cycle
through both of a span's mutexes and the reporter's, and three calls put each
of them into one. Seven ticks fill every
bucket twice. Three names allow an insertion in front, in the middle and at the
end; three updates are init, an update that damages the array, and the switch
that destroys it. Four calls on a table of order 1 rehash it once or twice,
with a copy or an iteration in between, and fill a copy at a power of two. Two
binary digits a half have every relation of lengths that 16 hexadecimal ones
have (short, full, padded, too long), and three characters every prefix of an
escape; of `% 0 f F z`, space and DEL each is treated differently by encoder or
decoder. Two children with capacity 1 make the composite's vector grow; three
spans let a queue be sent in part, and a span that fits no packet be dropped
first, in the middle or last. Symmetry is used over threads, values and
spans that the model does not tell apart, and only in runs whose properties are
invariants or a refinement without fairness. Deadlock is not checked in runs whose
behaviours end when bounds are reached or the object is destroyed; the waiting
that matters is `OnlyStartDeadlocks`.

Fairness: `RemoteReporter` assumes weak fairness of each thread once it is
inside a call, as a scheduler gives it; nothing obliges a thread to make a call,
and a blocked mutex is not assumed to be fair. `RemoteSampler` assumes, for
`RetrySucceeds` only, that the updating thread keeps calling `update` and each
query gets an answer; the property itself supposes that the answers are good
and the connection stays.

## 5. Proofs

The theorems hold for every value of the constants that satisfies the named
assumptions of the modules.

**RemoteReporter** (`RemoteReporter_proofs`): `ReporterInvariant` (Spec =>
[]IndInv), and from it `ReporterTypeCorrect`, `ReporterArraySafe`,
`ReporterInOrderOnce`. The assumptions: sizes are natural numbers, the initial
capacity is not 0, the resize factor is at least 2, and its powers up to the
bound are positive with 1 among them (the prover does not know `^`; TLC
evaluates it). Neither property is inductive alone. `ArraySafe` of the vector
after a failed write needs to know of the array the batch took, and a
successful append needs room that reserve made steps earlier; the order of what
is sent needs the order of what waits. `IndInv` adds

* `MutexInv`: only the holder of the mutex is inside a call;
* `RoomInv`: between reserve and append there is room for one more entry;
* `BatchInv`: a batch exists only while it is written; its array is as large
  as the vector's capacity, and the queue is what follows the batch in that
  array or, after a failed allocation, nothing;
* `CurInv`: a span in a thread's hands is not queued yet;
* `TicketInv`: tickets are the numbers of the accepted spans, and what is in
  the pipeline has one.

The proof has a lemma per action. Most actions leave the pipeline alone
(`QuietStep`); those that split, take, drop, restore or send show that the new
pipeline is a subsequence of the old one (`SubPipeline`, `SplitConcat`).

What becomes of a span needs a second invariant on top of the first, `FateInv`
(theorem `ReporterFate`), from which
`ReporterSuccessIsSent`, `ReporterMute`, `ReporterNoDangling`, `ReporterNoLeak`
and `ReporterFlushTrue` follow. It speaks of the three places a copy can be in:
the queue (`Queued`), the packet being written (`InPacket`), and the array that
a failed write would put back (`InArray`), whose spans behind the packet may be
freed already. Its parts:

* `AddressInv`: as long as no address is known nothing was sent;
* `CopyInv`: the copy about to be appended is allocated;
* `EndInv`: whoever is about to free the reporter is alone with it;
* `ValidInv`: what is queued or in the packet is not freed unless both kinds of
  failure occur, nor is what stands in the array while allocations succeed;
* `ReachInv`: while writes succeed, every allocated copy is queued, in the
  packet or in the hands of a thread;
* `PendingInv`: a flush that has not failed has sent what it found, or still
  has it.

The conditions (`faults`) are part of the properties, not hypotheses. TLC has
checked `FateInv` on the instance of `reporter_faults`.

**TokenBucket** (`TokenBucket_proofs`): `BucketInvariant`, and from it
`BucketTypeCorrect`, `BucketRateBounded`, `BucketThroughput`, for all integer
rates, costs and clocks. `IndInv` has the exact account of the balance since
the bucket was last full (`Bookkeeping`), the slack of a window (`WindowInv`:
at `last_tick` the window is within its bound with the balance to spare, or it
began later and nothing was spent), `RefusedInv` (a refusal leaves less than
one trace costs) and `CapInv`. The product of time and rate is not linear; the
lemmas `Accrual` and `NoDebt` are all that the rest uses of it.

**Span** (`Span_proofs`): `SpanInvariant`, and from it the invariants of all
runs. The argument is about who holds what: `HoldsSpan`, `HoldsContext` and
`HoldsReporter` say from a thread's place which mutexes it has taken and not
given back. `OwnerInv` is the direction that always holds (the owner of a mutex
is at such a place), `HolderInv` the converse, which fails when
`jaeger_span_to_protobuf` unlocks what it did not lock. `OpInv` says which
routines come to which places; `SnapshotInv`, `FinishInv` and `ReportInv` carry
what was read under a lock to where it is used.

* `SpanOnlyStartDeadlocks` needs only `OwnerInv`, so it holds with failing
  allocations too: a thread that waits for a mutex is waited for only through
  mutexes of lower rank (reporter, then span, then context), because
  `jaeger_lock` waits with empty hands. Threads that `start`, which deadlocks
  with itself (`span_start`), are left out of the sets it speaks of.
* `SpanOnlyItemRaces`, `SpanNoTornCopy` and the action property
  `SpanRecordsOnlySampled` need `HolderInv`, which `IndInv` has under
  `Disciplined`.
* `SpanDurationUnlessLate` has its conditions in the property.

**RemoteSampler** (`RemoteSampler_proofs`): `SamplerInvariant`, and from it
`SamplerTypeCorrect`, `SamplerSearchesExact`, `SamplerStrictOrder` and
`SamplerListedRates`. Every part of it rests on what the two binary searches
return, so these come first. They are recursive, and the library's induction
theorems cannot be used; `SetInduction` (in `SequenceLemmas`) states induction
over a *set* of numbers, derived from the well-foundedness of `<`, and carries
three kinds of argument: the recursive definitions have a solution (`FindDefined`,
`BoundDefined`), their values are right on every range (`SearchExact`,
`LowerBoundExact`), and a finite set of names has an increasing enumeration
(`IncreasingExists`). `SearchExact` and `LowerBoundExact` hold of every
`Ordered` array: before a named entry all are named and none is above it.
Duplicates and a nameless tail are allowed, which is what insertions of `update`
leave; `OrderedInsert` shows that these keep it so. `IndInv` has the types,
`Ordered`, what the loop of `update` works on, and `CalmInv` for runs without
stress: strict order and ownership, and that the operations the loop has passed
have the rates of the strategy.

**Tracer** (`Tracer_proofs`): `TracerInvariant`, and from it every property of
the run. `MemberInv` and `FreeInv` tie members, allocations and frees to the
stage: a member is set after the stage that makes it and until the one that
frees it, and `Complete` marks the tracers that destroy can take down without
crashing. `PassedInv` has what each child of the reporter got and lost (its
queue and what it sent are distinct spans, all of what is due), `RefusedInv` what
a flush may leave in a queue, `CountInv` the counters. The numbers of spans
sent are sums over the children, written as cardinalities of sets of places
(`Total`), so that adding to one summand is adding to a set. Assumed are that
reporters and spans are finite sets.

**Hashtable** (`Hashtable_proofs`): `HashtableInvariant`, and from it
`HashtableTypes`, `BucketsAreLists`, `SizeCounts`, `CopiesFit`, `NodesAreOwned`
and the refinement `TableIsMap`. Assumed are distinct names, finitely many
addresses that are numbers, at least one key, and a hash that is a number for
every key; nothing about collisions. The argument has four layers:

* *Lists.* `ChainIs` and `ChainFacts` show that `Chain` is the one sequence that
  is linked (`IsChain`), by `SetInduction` over its length; from there on an
  insertion is an `Append`, a removal a sequence without one element, and lists
  that share no node do not see each other's changes.
* *The heap.* `HeapInv(m, L, A, o)` is stated over contents, allocated nodes,
  arrays and orders as parameters, with one *place* for every array: a table, or
  the new array of the rehash in progress. `HeapAppend`, `HeapRemove`, `HeapNew`,
  `HeapDrop` say what joins, leaves, is made and is destroyed, each leaving all
  other places as they were. A rehash step is a removal at one place and an
  append at another.
* *Threads.* `OpInv` ties the place in the code to the operation and the mutex,
  `TableInv` and `RehashInv` say which arrays exist and that a rehash takes the
  head of the first bucket that is not empty, `CursorInv` that an iteration is
  within its bucket, `CopyInv` and `SeenInv` that what it has passed (`Passed`)
  is what the copy has or the callback saw. Only the holder of the mutex
  changes the baggage (`MutexStep`); the owner of a finished copy may free it
  while others work (`KeptThread`).
* *The map.* Keys are unique among the nodes a table holds (`KeysInv`), also
  when half of them are in new buckets, so `Dict` is determined by the set of
  nodes (`DictForm`), and every step either leaves it or is the step of
  `KeyValueMap` with the same result.

`SizeAndLoad` needs that `jaeger_hashtable_put` has checked the threshold before
it inserts (the last part of `TableInv`); `CopyFits` that the order of a copy
exceeds the size of its source, for which `MinimalOrderFits` shows that the
number of bits of a number is the right order. `NodesOwned` also speaks of the
entry a copy that failed still points at, which `IndInv` does not follow:
`RestInv`, a second invariant in the proof, does.

**Propagation** (`Propagation_proofs`): `PropagationInvariant`, and from it
`PropagationTypes`, `RoundTripHolds`, `ErrorsLeaveNothing` and `BuffersHold`,
for every base of at least 2, every width of at least 1, all contexts whose
numbers have that width, all texts without a zero character, any carriers of
others and any headers that join. Assumed besides: the empty key is a key, the
only one whose lower case is empty, the largest int is a number, the mark of a
malformed pair is no text, and contexts, headers and binary carriers have the
types that `IsContext`, `Header` and `IsBinary` give them.

The formats come first. They are recursive functions, so each needs a lemma that
the recursion has a solution: `NatRecursion` and `FiniteRecursion` (in
`SequenceLemmas`, from `SetInduction`) say so once for a step function over a
set. On top of them, by induction over the digits or characters passed:

* `DigitsRead`, `HexRead`, `TraceIdRead`, `ContextRead`: reading k digits of a
  number below base^k gives the number back, so `TraceIdScan` inverts
  `TraceIdFormat`, with and without an upper half;
* `EncodeFacts`, `DecodeFits`: the lengths. For the decoder the induction is over
  the characters written plus those an unfinished escape still owes (`Owed`);
* `DecodeEncoded`: after the code of each character the decoder is back in its
  default state and has written the text so far;
* `FieldsWritten`: which field of a binary carrier is where.

`IndInv` ties these to the steps. `Phases` and `BufferInv` say what is set, and
which buffers are in use, at each place; `LoopInv` how far inject has written:
within a bucket only the entry before, of the buckets before the last ones, as
later successes hide earlier errors (`LastsWritten`). `HeadersInv` is about the
*set* of headers passed, not their order: the context is collected if its header
is among them, each key has a value that was sent under it, and the flags depend
only on whether the debug header came later. `FieldsInv` is its counterpart for
a binary carrier, `CleanupInv` says that only an empty context is freed after a
success.

Only model-checked: all liveness (`MutexReleased`; the prover
does not reason about fairness or ENABLED).

## 6. Not modelled

* Text: URL and HTTP parsing, JSON, logging. Their outcomes (accepted, refused)
  are choices where another model depends on them.
* Custom carriers: inject and extract hand over to the application.
* Starting a span with references: the code copies them through the wrong type,
  which has no defined outcome to model.
* Host name and address in the tracer's tags; contents of tags and log records.
* Protobuf encoding is a size per span. Conversion of the fields is not
  modelled; `jaeger_span_to_protobuf` copies neither start time nor duration.
* Floating-point rounding in samplers and bucket; random numbers and hashing.
* Thread-local storage.
* Baggage restrictions (a length check that nothing calls; `span.c:331` has it
  as a TODO), options: no state that a sequence of calls changes. The logging
  reporter behaves as the null reporter does.

## 7. Plan

Done, in this order: the remote reporter (memory safety and delivery, the core
of the client), its proof, the locking of spans, the rate limiter and its
proof, the remotely controlled sampler, the hash table with its refinement of a
map, propagation, the life of the tracer.

Then the proofs: spans, the fate of spans in the reporter, the life of the
tracer, the sampler's searches and its array, the hash table and its refinement,
the formats and the round trip of propagation.

Next: an abstract reporter (a queue whose spans are sent in order or dropped)
that `RemoteReporter` implements, from `InOrderOnce`.
