------------------------------- MODULE Span -------------------------------
(***************************************************************************)
(* The locking of span.c, threading.c and tracer.c: threads that share     *)
(* spans call the operations of a span, each of which takes the span's     *)
(* mutex, the mutex of its context, or both with jaeger_lock; finishing a  *)
(* span goes on to report it, which takes the reporter's mutex and then    *)
(* the span's two again.                                                   *)
(*                                                                         *)
(* A thread is described by the span it works on, the routine it is in     *)
(* (op) and the point it has reached (pc).  The mutable members of a span  *)
(* that matter here are the sampled bit of context.flags, the duration,    *)
(* the baggage (a version number) and the count of recorded name changes,  *)
(* tags and log records.                                                   *)
(***************************************************************************)
EXTENDS Integers

CONSTANTS Threads,        \* application threads
          NoThread,       \* the owner of a free mutex
          Spans,          \* the spans there can be
          Existing,       \* those that several threads already share
          Operations,     \* the operations each thread calls
          Reporters,      \* of a tracer, one of: "remote", "memory"
          MaxCalls        \* bound on the number of calls

\* Operations that hold span->mutex alone ...
RecordOps == {"set_operation_name", "set_tag", "log", "finish"}
\* ... and those that begin with jaeger_lock(&span->mutex, &context.mutex).
PairOps == {"is_sampled", "set_baggage_item", "baggage_item",
            "enable_sampling", "disable_sampling"}
AllOps == RecordOps \cup PairOps \cup {"foreach_baggage_item", "flush", "start"}
\* Routines that only other routines call.
InnerOps == {"report", "to_protobuf", "copy"}

ASSUME ThreadAssumption == NoThread \notin Threads
ASSUME SpanAssumption == Existing \subseteq Spans /\ Spans # {}
ASSUME OperationAssumption == Operations \in [Threads -> SUBSET AllOps]
ASSUME EnvironmentAssumption ==
  /\ Reporters \subseteq {"remote", "memory"}
  /\ MaxCalls \in Nat

VARIABLES spanMutex,      \* owner of each span's mutex
          contextMutex,   \* owner of each span context's mutex
          reporterMutex,  \* owner of the reporter's mutex
          pc,             \* where each thread is
          op,             \* the routine it executes
          on,             \* the span it works on
          swapped,        \* has jaeger_lock exchanged its two locks?
          sampled,        \* the sampled bit of each span's context.flags
          duration,       \* has duration been set?
          recorded,       \* name changes, tags and logs recorded
          baggage,        \* version of the baggage value, 0 before it is set
          item,           \* the value baggage_item found, 0 for NULL
          copied,         \* the part of a span jaeger_span_copy has copied
          reports,        \* copies the reporter kept (ghost)
          late,           \* spans enabled while being finished (ghost)
          reporter,       \* the tracer's reporter
          scarce,         \* may the allocator return NULL?
          calls           \* calls so far (bounded by MaxCalls)

mutexes == <<spanMutex, contextMutex, reporterMutex>>
members == <<sampled, duration, recorded, baggage>>
setup == <<late, reporter, scarce, calls>>
vars == <<mutexes, pc, op, on, swapped, members, item, copied, reports, setup>>

Owners == Threads \cup {NoThread}

---------------------------------------------------------------------------
Init ==
  /\ spanMutex = [s \in Spans |-> NoThread]
  /\ contextMutex = [s \in Spans |-> NoThread]
  /\ reporterMutex = NoThread
  /\ pc = [t \in Threads |-> "idle"]
  /\ op = [t \in Threads |-> "none"]
  /\ on = [t \in Threads |-> CHOOSE s \in Spans : TRUE]
  /\ swapped = [t \in Threads |-> FALSE]
  /\ sampled \in [Spans -> BOOLEAN]
  /\ duration = [s \in Spans |-> FALSE]
  /\ recorded = [s \in Spans |-> 0]
  /\ baggage = [s \in Spans |-> 0]
  /\ item = [t \in Threads |-> 0]
  /\ copied = [t \in Threads |-> [duration |-> FALSE, recorded |-> 0]]
  /\ reports = {}
  /\ late = {}
  /\ reporter \in Reporters
  /\ scarce \in BOOLEAN
  /\ calls = 0

Goto(t, label) == pc' = [pc EXCEPT ![t] = label]

\* Where an operation begins: with the first lock it takes.
Entry(o) ==
  CASE o \in RecordOps \cup {"start"} -> "lock_span"
    [] o \in PairOps \cup {"report"} -> "lock0"
    [] o = "foreach_baggage_item" -> "lock_context"
    [] o = "flush" -> "lock_reporter"

\* The application calls an operation on a span it has; flushing takes a lock
\* in the remote reporter only.
Call(t, o, s) ==
  /\ pc[t] = "idle"
  /\ o \in Operations[t]
  /\ calls < MaxCalls
  /\ o = "flush" => reporter = "remote"
  /\ calls' = calls + 1
  /\ op' = [op EXCEPT ![t] = o]
  /\ on' = [on EXCEPT ![t] = s]
  /\ swapped' = [swapped EXCEPT ![t] = FALSE]
  /\ Goto(t, Entry(o))
  /\ UNCHANGED <<mutexes, members, item, copied, reports, late, reporter,
                 scarce>>

\* jaeger_tracer_start_span makes a span that nobody else has yet.
Start(t, s) ==
  /\ \A u \in Threads : pc[u] # "idle" => on[u] # s
  /\ Call(t, "start", s)

---------------------------------------------------------------------------
(* jaeger_lock: lock one, try the other, on failure yield and swap them *)

First(t) == IF swapped[t] THEN contextMutex[on[t]] ELSE spanMutex[on[t]]
Second(t) == IF swapped[t] THEN spanMutex[on[t]] ELSE contextMutex[on[t]]

SetFirst(t, owner) ==
  IF swapped[t]
  THEN /\ contextMutex' = [contextMutex EXCEPT ![on[t]] = owner]
       /\ UNCHANGED <<spanMutex, reporterMutex>>
  ELSE /\ spanMutex' = [spanMutex EXCEPT ![on[t]] = owner]
       /\ UNCHANGED <<contextMutex, reporterMutex>>

SetSecond(t, owner) ==
  IF swapped[t]
  THEN /\ spanMutex' = [spanMutex EXCEPT ![on[t]] = owner]
       /\ UNCHANGED <<contextMutex, reporterMutex>>
  ELSE /\ contextMutex' = [contextMutex EXCEPT ![on[t]] = owner]
       /\ UNCHANGED <<spanMutex, reporterMutex>>

Lock0(t) ==
  /\ pc[t] = "lock0"
  /\ First(t) = NoThread
  /\ SetFirst(t, t)
  /\ Goto(t, "try1")
  /\ UNCHANGED <<op, on, swapped, members, item, copied, reports, setup>>

MutTryLock1(t) ==
  /\ pc[t] = "try1"
  /\ Goto(t, "both")
  /\ UNCHANGED <<mutexes, op, on, swapped, members, item, copied, reports, setup>>

TryLock1(t) ==
  /\ pc[t] = "try1"
  /\ Second(t) = NoThread
  /\ SetSecond(t, t)
  /\ Goto(t, "both")
  /\ UNCHANGED <<op, on, swapped, members, item, copied, reports, setup>>

TryLock1Busy(t) ==
  /\ pc[t] = "try1"
  /\ Second(t) # NoThread
  /\ Goto(t, "backoff")
  /\ UNCHANGED <<mutexes, op, on, swapped, members, item, copied, reports, setup>>

MutBackoff(t) ==
  /\ pc[t] = "backoff"
  /\ swapped' = [swapped EXCEPT ![t] = ~@]
  /\ Goto(t, "lock0")
  /\ UNCHANGED <<mutexes, op, on, members, item, copied, reports, setup>>

Backoff(t) ==
  /\ pc[t] = "backoff"
  /\ SetFirst(t, NoThread)
  /\ swapped' = [swapped EXCEPT ![t] = ~@]
  /\ Goto(t, "lock0")
  /\ UNCHANGED <<op, on, members, item, copied, reports, setup>>

---------------------------------------------------------------------------
(* Operations under span->mutex *)

MutLockSpan(t) ==
  /\ pc[t] = "lock_span"
  /\ spanMutex' = [spanMutex EXCEPT ![on[t]] = t]
  /\ Goto(t, CASE op[t] = "start" -> "lock0"
               [] op[t] = "copy" -> "copy_span"
               [] OTHER -> "check")
  /\ UNCHANGED <<contextMutex, reporterMutex, op, on, swapped, members, item,
                 copied, reports, setup>>

\* update_metrics_for_new_span calls jaeger_span_is_sampled with the mutex
\* locked; jaeger_span_copy reads the span; the others look at the sampled bit.
LockSpan(t) ==
  /\ pc[t] = "lock_span"
  /\ spanMutex[on[t]] = NoThread
  /\ spanMutex' = [spanMutex EXCEPT ![on[t]] = t]
  /\ Goto(t, CASE op[t] = "start" -> "lock0"
               [] op[t] = "copy" -> "copy_span"
               [] OTHER -> "check")
  /\ UNCHANGED <<contextMutex, reporterMutex, op, on, swapped, members, item,
                 copied, reports, setup>>

CheckSampled(t) ==
  /\ pc[t] = "check"
  /\ Goto(t, IF sampled[on[t]] THEN "record" ELSE "unlock_span")
  /\ UNCHANGED <<mutexes, op, on, swapped, members, item, copied, reports, setup>>

\* set_operation_name, set_tag or log; nothing changes without memory.
Record(t) ==
  /\ pc[t] = "record"
  /\ op[t] # "finish"
  /\ \/ recorded' = [recorded EXCEPT ![on[t]] = @ + 1]
     \/ scarce /\ UNCHANGED recorded
  /\ Goto(t, "unlock_span")
  /\ UNCHANGED <<mutexes, op, on, swapped, sampled, duration, baggage, item,
                 copied, reports, setup>>

MutRecordFinish(t) ==
  /\ pc[t] = "record"
  /\ op[t] = "finish"
  /\ \/ /\ recorded' = [recorded EXCEPT ![on[t]] = @ + 1]
        /\ duration' = [duration EXCEPT ![on[t]] = TRUE]
     \/ UNCHANGED <<recorded, duration>>
  /\ Goto(t, "unlock_span")
  /\ UNCHANGED <<mutexes, op, on, swapped, sampled, baggage, item, copied,
                 reports, setup>>

\* jaeger_span_finish_with_options sets the duration and logs its records.
RecordFinish(t) ==
  /\ pc[t] = "record"
  /\ op[t] = "finish"
  /\ duration' = [duration EXCEPT ![on[t]] = TRUE]
  /\ \/ recorded' = [recorded EXCEPT ![on[t]] = @ + 1]
     \/ UNCHANGED recorded
  /\ Goto(t, "unlock_span")
  /\ UNCHANGED <<mutexes, op, on, swapped, sampled, baggage, item, copied,
                 reports, setup>>

---------------------------------------------------------------------------
(* Operations under both mutexes *)

\* jaeger_span_is_sampled, for the application or for report_span.
ReadSampled(t) ==
  /\ pc[t] = "both"
  /\ op[t] \in {"is_sampled", "report"}
  /\ op' = [op EXCEPT ![t] = IF op[t] = "report" /\ ~sampled[on[t]]
                             THEN "is_sampled" ELSE op[t]]
  /\ Goto(t, "unlock_span")
  /\ UNCHANGED <<mutexes, on, swapped, members, item, copied, reports, setup>>

SetBaggageItem(t) ==
  /\ pc[t] = "both"
  /\ op[t] = "set_baggage_item"
  /\ \/ baggage' = [baggage EXCEPT ![on[t]] = @ + 1]
     \/ scarce /\ UNCHANGED baggage
  /\ Goto(t, "unlock_span")
  /\ UNCHANGED <<mutexes, op, on, swapped, sampled, duration, recorded, item,
                 copied, reports, setup>>

BaggageItem(t) ==
  /\ pc[t] = "both"
  /\ op[t] = "baggage_item"
  /\ item' = [item EXCEPT ![t] = baggage[on[t]]]
  /\ Goto(t, "unlock_span")
  /\ UNCHANGED <<mutexes, op, on, swapped, members, copied, reports, setup>>

\* jaeger_span_set_sampling_priority, called by jaeger_span_set_tag.
SetSamplingPriority(t) ==
  /\ pc[t] = "both"
  /\ op[t] \in {"enable_sampling", "disable_sampling"}
  /\ sampled' = [sampled EXCEPT ![on[t]] = (op[t] = "enable_sampling")]
  /\ late' = IF op[t] = "enable_sampling"
                /\ \E u \in Threads : on[u] = on[t] /\ op[u] = "report" /\ pc[u] # "idle"
             THEN late \cup {on[t]} ELSE late
  /\ Goto(t, "unlock_span")
  /\ UNCHANGED <<mutexes, op, on, swapped, duration, recorded, baggage, item,
                 copied, reports, reporter, scarce, calls>>

Keep(report) == reports' = reports \cup {report}

\* jaeger_span_to_protobuf copies no times; the copy fails without memory.
ToProtobuf(t) ==
  /\ pc[t] = "both"
  /\ op[t] = "to_protobuf"
  /\ \/ Keep([span |-> on[t], duration |-> FALSE, before |-> recorded[on[t]],
               after |-> recorded[on[t]]])
     \/ scarce /\ UNCHANGED reports
  /\ Goto(t, "unlock_span")
  /\ UNCHANGED <<mutexes, op, on, swapped, members, item, copied, setup>>

---------------------------------------------------------------------------
(* Operations under context.mutex *)

\* jaeger_span_context_foreach_baggage_item, and jaeger_span_context_copy
\* inside jaeger_span_copy (which holds span->mutex).
LockContext(t) ==
  /\ pc[t] = "lock_context"
  /\ contextMutex[on[t]] = NoThread
  /\ contextMutex' = [contextMutex EXCEPT ![on[t]] = t]
  /\ Goto(t, "context")
  /\ UNCHANGED <<spanMutex, reporterMutex, op, on, swapped, members, item,
                 copied, reports, setup>>

ReadContext(t) ==
  /\ pc[t] = "context"
  /\ Goto(t, "unlock_context")
  /\ UNCHANGED <<mutexes, op, on, swapped, members, item, copied, reports, setup>>

---------------------------------------------------------------------------
(* Unlocking, and what comes next *)

\* span->mutex comes first whenever both are held, except in jaeger_span_copy.
UnlockSpan(t) ==
  /\ pc[t] = "unlock_span"
  /\ spanMutex' = [spanMutex EXCEPT ![on[t]] = NoThread]
  /\ op' = [op EXCEPT ![t] = IF op[t] = "finish" THEN "report" ELSE op[t]]
  /\ swapped' = [swapped EXCEPT ![t] = FALSE]
  /\ Goto(t, CASE op[t] = "finish" -> "lock0"
               [] op[t] = "copy" -> "unlock_reporter"
               [] op[t] \in RecordOps \ {"finish"} -> "idle"
               [] OTHER -> "unlock_context")
  /\ UNCHANGED <<contextMutex, reporterMutex, on, members, item, copied,
                 reports, setup>>

MutUnlockContext(t) ==
  /\ pc[t] = "unlock_context"
  /\ op' = [op EXCEPT ![t] = IF op[t] = "enable_sampling" THEN "set_tag"
                             ELSE op[t]]
  /\ Goto(t, CASE op[t] = "enable_sampling" -> "lock_span"
               [] op[t] = "report" -> "lock_reporter"
               [] op[t] = "to_protobuf" -> "unlock_reporter"
               [] op[t] = "copy" -> "copy_rest"
               [] op[t] = "baggage_item" -> "return_item"
               [] OTHER -> "idle")
  /\ UNCHANGED <<mutexes, on, swapped, members, item, copied, reports, setup>>

\* A nonzero sampling.priority becomes an ordinary tag next; a sampled span
\* is handed to the reporter.
UnlockContext(t) ==
  /\ pc[t] = "unlock_context"
  /\ contextMutex' = [contextMutex EXCEPT ![on[t]] = NoThread]
  /\ op' = [op EXCEPT ![t] = IF op[t] = "enable_sampling" THEN "set_tag"
                             ELSE op[t]]
  /\ Goto(t, CASE op[t] = "enable_sampling" -> "lock_span"
               [] op[t] = "report" -> "lock_reporter"
               [] op[t] = "to_protobuf" -> "unlock_reporter"
               [] op[t] = "copy" -> "copy_rest"
               [] op[t] = "baggage_item" -> "return_item"
               [] OTHER -> "idle")
  /\ UNCHANGED <<spanMutex, reporterMutex, on, swapped, members, item, copied,
                 reports, setup>>

\* jaeger_span_baggage_item reads kv->value after both unlocks.
ReturnItem(t) ==
  /\ pc[t] = "return_item"
  /\ Goto(t, "idle")
  /\ UNCHANGED <<mutexes, op, on, swapped, members, item, copied, reports, setup>>

---------------------------------------------------------------------------
(* Reporting *)

LockReporter(t) ==
  /\ pc[t] = "lock_reporter"
  /\ reporterMutex = NoThread
  /\ reporterMutex' = t
  /\ Goto(t, IF op[t] = "flush" THEN "unlock_reporter" ELSE "convert")
  /\ UNCHANGED <<spanMutex, contextMutex, op, on, swapped, members, item,
                 copied, reports, setup>>

\* remote_reporter_report or in_memory_reporter_report copies the span.
Convert(t) ==
  /\ pc[t] = "convert"
  /\ swapped' = [swapped EXCEPT ![t] = FALSE]
  /\ IF reporter = "remote"
     THEN op' = [op EXCEPT ![t] = "to_protobuf"] /\ Goto(t, "lock0")
     ELSE op' = [op EXCEPT ![t] = "copy"] /\ Goto(t, "lock_span")
  /\ UNCHANGED <<mutexes, on, members, item, copied, reports, setup>>

\* No memory for the place of the copy.
ConvertNoRoom(t) ==
  /\ pc[t] = "convert"
  /\ scarce
  /\ Goto(t, "unlock_reporter")
  /\ UNCHANGED <<mutexes, op, on, swapped, members, item, copied, reports, setup>>

\* No memory for the ids: jaeger_span_to_protobuf goes to its cleanup, which
\* unlocks both mutexes, before it has locked them.  Unlocking a default
\* mutex frees it whoever holds it.
ToProtobufEarlyFail(t) ==
  /\ pc[t] = "convert"
  /\ scarce
  /\ reporter = "remote"
  /\ op' = [op EXCEPT ![t] = "to_protobuf"]
  /\ Goto(t, "unlock_span")
  /\ UNCHANGED <<mutexes, on, swapped, members, item, copied, reports, setup>>

\* jaeger_span_copy: the times and the name, then the context, then the rest.
CopySpan(t) ==
  /\ pc[t] = "copy_span"
  /\ copied' = [copied EXCEPT ![t] = [duration |-> duration[on[t]],
                                      recorded |-> recorded[on[t]]]]
  /\ Goto(t, "lock_context")
  /\ UNCHANGED <<mutexes, op, on, swapped, members, item, reports, setup>>

CopyRest(t) ==
  /\ pc[t] = "copy_rest"
  /\ \/ Keep([span |-> on[t], duration |-> copied[t].duration,
               before |-> copied[t].recorded, after |-> recorded[on[t]]])
     \/ scarce /\ UNCHANGED reports
  /\ Goto(t, "unlock_span")
  /\ UNCHANGED <<mutexes, op, on, swapped, members, item, copied, setup>>

UnlockReporter(t) ==
  /\ pc[t] = "unlock_reporter"
  /\ reporterMutex' = NoThread
  /\ Goto(t, "idle")
  /\ UNCHANGED <<spanMutex, contextMutex, op, on, swapped, members, item,
                 copied, reports, setup>>

---------------------------------------------------------------------------
Step(t) ==
  \/ Lock0(t) \/ TryLock1(t) \/ TryLock1Busy(t) \/ Backoff(t)
  \/ LockSpan(t) \/ CheckSampled(t) \/ Record(t) \/ RecordFinish(t)
  \/ ReadSampled(t) \/ SetBaggageItem(t) \/ BaggageItem(t)
  \/ SetSamplingPriority(t) \/ ToProtobuf(t)
  \/ LockContext(t) \/ ReadContext(t)
  \/ UnlockSpan(t) \/ UnlockContext(t) \/ ReturnItem(t)
  \/ LockReporter(t) \/ Convert(t) \/ ConvertNoRoom(t)
  \/ ToProtobufEarlyFail(t) \/ CopySpan(t) \/ CopyRest(t) \/ UnlockReporter(t)

Next ==
  \/ \E t \in Threads, o \in AllOps \ {"start"}, s \in Existing : Call(t, o, s)
  \/ \E t \in Threads, s \in Spans \ Existing : Start(t, s)
  \/ \E t \in Threads : Step(t)

Spec == Init /\ [][Next]_vars

---------------------------------------------------------------------------
(* Properties *)

Labels == {"idle", "lock_span", "lock_context", "lock_reporter", "lock0",
           "try1", "backoff", "both", "check", "record", "context",
           "unlock_span", "unlock_context", "unlock_reporter", "return_item",
           "convert", "copy_span", "copy_rest"}

Report == [span : Spans, duration : BOOLEAN, before : Nat, after : Nat]

\* Every variable has its type.
TypeOK ==
  /\ spanMutex \in [Spans -> Owners]
  /\ contextMutex \in [Spans -> Owners]
  /\ reporterMutex \in Owners
  /\ pc \in [Threads -> Labels]
  /\ op \in [Threads -> AllOps \cup InnerOps \cup {"none"}]
  /\ on \in [Threads -> Spans]
  /\ swapped \in [Threads -> BOOLEAN]
  /\ sampled \in [Spans -> BOOLEAN]
  /\ duration \in [Spans -> BOOLEAN]
  /\ recorded \in [Spans -> Nat]
  /\ baggage \in [Spans -> Nat]
  /\ item \in [Threads -> Nat]
  /\ copied \in [Threads -> [duration : BOOLEAN, recorded : Nat]]
  /\ reports \subseteq Report
  /\ late \subseteq Spans
  /\ reporter \in Reporters
  /\ scarce \in BOOLEAN
  /\ calls \in 0 .. MaxCalls

\* Nobody unlocks what he has not locked: jaeger_span_to_protobuf does, when
\* it fails before its first lock, and takes the mutexes from their owner.
Disciplined == scarce => reporter = "memory"

\* The members a thread is writing, and those it is reading, where it is.
Writing(t) ==
  CASE pc[t] = "record" -> {"duration", "recorded"}
    [] pc[t] = "both" /\ op[t] = "set_baggage_item" -> {"baggage"}
    [] pc[t] = "both" /\ op[t] \in {"enable_sampling", "disable_sampling"} ->
         {"flags"}
    [] OTHER -> {}

Reading(t) ==
  CASE pc[t] = "check" -> {"flags"}
    [] pc[t] = "both" /\ op[t] \in {"is_sampled", "report"} -> {"flags"}
    [] pc[t] = "both" /\ op[t] = "baggage_item" -> {"baggage"}
    [] pc[t] = "both" /\ op[t] = "to_protobuf" -> {"recorded"}
    [] pc[t] = "return_item" /\ item[t] # 0 -> {"baggage"}
    [] pc[t] = "context" -> {"flags", "baggage"}
    [] pc[t] \in {"copy_span", "copy_rest"} -> {"duration", "recorded"}
    [] OTHER -> {}

\* The one data race on the members of a span (span.h, "Mutex to guard mutable
\* members" and "Lock to protect mutable members. @see baggage"): a thread
\* writes a member that another reads or writes only where set_baggage_item
\* replaces, and frees, the value that baggage_item found and reads after both
\* unlocks.  Everywhere else the rule holds that set_sampling_priority, log,
\* finish and foreach_baggage_item rest on: writers of the context hold both
\* mutexes, so that a reader is safe with either.
OnlyItemRaces ==
  Disciplined =>
    \A t, u \in Threads :
      \/ t = u \/ on[t] # on[u]
      \/ Writing(t) \cap (Reading(u) \cup Writing(u)) = {}
      \/ op[t] = "set_baggage_item" /\ pc[u] = "return_item"

\* The owner of the mutex a thread is blocked on.
Blocker(t) ==
  CASE pc[t] = "lock_span" -> spanMutex[on[t]]
    [] pc[t] = "lock_context" -> contextMutex[on[t]]
    [] pc[t] = "lock_reporter" -> reporterMutex
    [] pc[t] = "lock0" -> First(t)
    [] OTHER -> NoThread

\* No set of threads wait for each other (threading.h, jaeger_lock: "deadlock
\* avoidance similar to `std::lock`"), whatever mixture of jaeger_lock,
\* single locks and the reporter's nested locking they are in.
NoDeadlock ==
  \A T \in SUBSET Threads : T # {} => \E t \in T : Blocker(t) \notin T

\* Starting a span deadlocks with itself (tracer.c, update_metrics_for_new_span
\* locks span->mutex twice); apart from the threads that do, no set of threads
\* wait for each other, also where to_protobuf's error path has unlocked the
\* mutexes of others.
OnlyStartDeadlocks ==
  \A T \in SUBSET {t \in Threads : op[t] # "start"} :
    T # {} => \E t \in T : Blocker(t) \notin T

\* Whatever jaeger_span_copy returns is one state of the span: the tags it
\* copies last belong with the times and the name it copied first.  (Where
\* to_protobuf unlocks what it has not locked, no copy is safe.)
NoTornCopy == Disciplined => \A r \in reports : r.before = r.after

\* A copy in the in-memory reporter has the duration that finish sets, unless
\* the span was enabled in the middle of its finish, between the look at the
\* flag that decides on the duration and the one that decides on the report
\* (span.c, finish_with_options; tracer.c, report_span).
DurationUnlessLate ==
  reporter = "memory" =>
    \A r \in reports : ~r.duration => r.span \in late

\* set_operation_name, set_tag, log and finish change a span only at a moment
\* at which it is sampled, although they look at the flag a step earlier and
\* hold one mutex only.
RecordsOnlySampled ==
  [][Disciplined =>
       \A s \in Spans :
         (recorded'[s] # recorded[s] \/ duration'[s] # duration[s]) => sampled[s]
    ]_vars

---------------------------------------------------------------------------
(* The inductive invariant behind the safety properties *)

\* The mutexes a thread has taken and not given back, from where it is.
HoldsSpan(t) ==
  \/ pc[t] \in {"check", "record", "both", "unlock_span", "copy_span", "copy_rest"}
  \/ pc[t] \in {"try1", "backoff"} /\ ~swapped[t]
  \/ pc[t] = "lock0" /\ op[t] = "start" /\ ~swapped[t]
  \/ pc[t] \in {"lock_context", "context", "unlock_context"} /\ op[t] = "copy"

HoldsContext(t) ==
  \/ pc[t] \in {"both", "context", "unlock_context"}
  \/ pc[t] \in {"try1", "backoff"} /\ swapped[t]
  \/ pc[t] = "unlock_span" /\ op[t] \in PairOps \cup {"report", "to_protobuf"}

HoldsReporter(t) ==
  \/ pc[t] \in {"convert", "unlock_reporter"}
  \/ pc[t] # "idle" /\ op[t] \in {"to_protobuf", "copy"}

\* Which routines come to which points.
OpInv ==
  \A t \in Threads :
    /\ pc[t] = "lock_span" => op[t] \in RecordOps \cup {"start", "copy"}
    /\ pc[t] \in {"lock0", "try1", "backoff", "both"} =>
         op[t] \in PairOps \cup {"report", "to_protobuf", "start"}
    /\ pc[t] \in {"check", "record"} => op[t] \in RecordOps
    /\ pc[t] \in {"lock_context", "context"} =>
         op[t] \in {"foreach_baggage_item", "copy"}
    /\ pc[t] = "unlock_span" =>
         op[t] \in RecordOps \cup PairOps \cup {"report", "to_protobuf", "copy"}
    /\ pc[t] = "unlock_context" =>
         op[t] \in PairOps \cup {"report", "to_protobuf", "copy",
                                "foreach_baggage_item"}
    /\ pc[t] \in {"copy_span", "copy_rest"} => op[t] = "copy"
    /\ pc[t] = "lock_reporter" => op[t] \in {"report", "flush"}
    /\ pc[t] = "convert" => op[t] = "report"
    /\ pc[t] = "return_item" => op[t] = "baggage_item"
    /\ op[t] = "to_protobuf" => reporter = "remote"
    /\ op[t] = "start" => "start" \in Operations[t]
    /\ op[t] = "start" /\ pc[t] = "lock_span" => ~swapped[t]

\* The owner of a mutex is where it holds it.
OwnerInv ==
  \A t \in Threads :
    /\ \A s \in Spans : spanMutex[s] = t => on[t] = s /\ HoldsSpan(t)
    /\ \A s \in Spans : contextMutex[s] = t => on[t] = s /\ HoldsContext(t)
    /\ reporterMutex = t => HoldsReporter(t)

\* Under Disciplined a mutex taken is a mutex owned, until it is given back, and a thread
\* that starts a span never gets past the lock it already has.
HolderInv ==
  Disciplined =>
    \A t \in Threads :
      /\ HoldsSpan(t) => spanMutex[on[t]] = t
      /\ HoldsContext(t) => contextMutex[on[t]] = t
      /\ op[t] = "start" => pc[t] \in {"lock_span", "lock0"} /\ ~swapped[t]

\* A span stays as it was checked, or copied, while its mutex is held.
SnapshotInv ==
  Disciplined =>
    \A t \in Threads :
      /\ pc[t] = "record" => sampled[on[t]]
      /\ op[t] = "copy" /\ pc[t] \in {"lock_context", "context",
                                      "unlock_context", "copy_rest"} =>
           copied[t] = [duration |-> duration[on[t]],
                        recorded |-> recorded[on[t]]]

\* A span on its way through finish has its duration, unless it was not
\* sampled when finish looked, or sampling was enabled since.
FinishInv ==
  Disciplined =>
    \A t \in Threads :
      /\ op[t] = "finish" /\ pc[t] = "unlock_span" =>
           duration[on[t]] \/ ~sampled[on[t]]
      /\ op[t] = "report" /\ pc[t] \in {"lock0", "try1", "backoff", "both"} =>
           duration[on[t]] \/ ~sampled[on[t]] \/ on[t] \in late
      /\ op[t] = "report" /\ pc[t] \in {"unlock_span", "unlock_context",
                                        "lock_reporter", "convert"} =>
           duration[on[t]] \/ on[t] \in late
      /\ op[t] = "copy" /\ pc[t] # "idle" =>
           duration[on[t]] \/ on[t] \in late

\* What the reporter keeps is whole, and has its duration or was late.
ReportInv ==
  Disciplined =>
    \A r \in reports :
      /\ r.before = r.after
      /\ reporter = "memory" /\ ~r.duration => r.span \in late

\* Everything the induction carries along: what every step of every thread in
\* a span operation, a finish or a report preserves, whoever else is between
\* two locks (span.c, threading.c, reporter.c).
IndInv ==
  /\ TypeOK
  /\ OpInv
  /\ OwnerInv
  /\ HolderInv
  /\ SnapshotInv
  /\ FinishInv
  /\ ReportInv
====
