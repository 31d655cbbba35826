--------------------------- MODULE RemoteSampler ---------------------------
(***************************************************************************)
(* The remotely controlled sampler of sampler.c: update asks an HTTP       *)
(* server for strategies and puts another sampler in place, or changes the *)
(* rates of the adaptive sampler, which keeps one sampler per operation in *)
(* an array sorted by name; is_sampled looks operations up and adds the    *)
(* ones it does not know.                                                  *)
(*                                                                         *)
(* Names are numbers, in the order of strcmp.  An entry of the array is    *)
(* the name its operation_name points at, the pointer itself (0 for NULL)  *)
(* and the sampling rate and lower bound of its sampler; what those two    *)
(* decide is TokenBucket's subject.  is_sampled and the second part of     *)
(* update hold the sampler's mutex, so that each call of is_sampled and    *)
(* each round of the loops in update is one step.  One thread calls        *)
(* update, as the HTTP manager has no lock.                                *)
(***************************************************************************)
EXTENDS Integers, Sequences, FiniteSets, SequencesExt

CONSTANTS Names,          \* operation names
          Rates,          \* sampling rates a strategy may give
          Defaults,       \* default rate and lower bound of a strategy
          MaxListed,      \* bound on the operations a strategy lists
          MaxOperations,  \* sampler->max_operations
          MaxUpdates,     \* bound on the strategies received
          Environments    \* sets of "malloc", "new"; see Init

ASSUME NameAssumption == Names \subseteq Nat \ {0}
ASSUME RateAssumption ==
  /\ Rates \subseteq Int
  /\ Defaults \subseteq [rate : Rates, lower : Nat]
  /\ Defaults # {}
ASSUME BoundAssumption ==
  /\ MaxOperations \in Nat \ {0}
  /\ MaxListed \in Nat
  /\ MaxUpdates \in Nat
ASSUME EnvironmentAssumption == Environments \subseteq SUBSET {"malloc", "new"}

VARIABLES type,        \* sampler.type
          ready,       \* was the adaptive sampler initialised?
          ops,         \* adaptive_sampler.op_samplers
          default,     \* its default_sampler and lower_bound
          connection,  \* "open" or "closed", as the last query found it
          parser,      \* the HTTP parser: "ready" or "broken"
          pc,          \* where update is
          strategy,    \* the response that update applies
          todo,        \* the operations its loop has not come to yet
          success,     \* the variable of that name
          query,       \* how the last query ended
          updates,     \* strategies received (bounded by MaxUpdates)
          status,      \* "running", "destroyed" or "crashed"
          environment  \* what can happen in this run of the program

sampler == <<type, ready, ops, default>>
manager == <<connection, parser, query>>
updating == <<pc, strategy, todo, success, updates>>
vars == <<sampler, manager, updating, status, environment>>

NoName == 0

\* jaeger_probabilistic_sampler_init: no rate is below 0 or above 1.
Clamp(rate) == CASE rate < 0 -> 0 [] rate > 1 -> 1 [] OTHER -> rate
Clamped == {Clamp(rate) : rate \in Rates}

OpSampler == [name : Names \cup {NoName}, ptr : Nat, rate : Clamped, lower : Nat]

\* jaeger_strategy_response; the parameter of a sampler for all operations
\* plays no role here.
Lists == {S \in SUBSET Names : IsFiniteSet(S) /\ Cardinality(S) <= MaxListed}
PerOperation == [case : {"per_operation"}, default : Defaults,
                 ops : UNION {[S -> Rates] : S \in Lists}]
Responses == PerOperation \cup [case : {"probabilistic", "rate_limiting"}]

---------------------------------------------------------------------------
(* The sorted array *)

Crashed == -1

\* bsearch of the C library: the place of the name, 0 if it is not found.
\* Comparing with a null name ends the process.
Search(s, name) ==
  LET find[r \in (0 .. Len(s)) \X (0 .. Len(s))] ==
        LET l == r[1]
            u == r[2]
            i == (l + u) \div 2
        IN  IF l >= u THEN 0
            ELSE IF s[i + 1].name = NoName THEN Crashed
            ELSE IF s[i + 1].name = name THEN i + 1
            ELSE IF name < s[i + 1].name THEN find[<<l, i>>] ELSE find[<<i + 1, u>>]
  IN  find[<<0, Len(s)>>]

\* As LowerBound, when new entries always go to the end.
MutLowerBound(s, name) == Len(s) + 1

\* jaeger_vector_lower_bound, counting from 1.
LowerBound(s, name) ==
  LET bound[r \in {x \in (0 .. Len(s)) \X (0 .. Len(s)) : x[1] + x[2] <= Len(s)}] ==
        LET pos == r[1]
            count == r[2]
            step == count \div 2
            elem == s[pos + step + 1].name
        IN  IF count = 0 THEN pos + 1
            ELSE IF elem = NoName THEN Crashed
            ELSE IF elem < name THEN bound[<<pos + step + 1, count - step - 1>>]
            ELSE bound[<<pos, step>>]
  IN  bound[<<0, Len(s)>>]

Pointers(s) == {s[i].ptr : i \in DOMAIN s} \ {0}

\* jaeger_strdup returns a pointer that is not in use.
FreshPointer(s) == CHOOSE p \in 1 .. Len(s) + 1 : p \notin Pointers(s)

\* Every name is owned by one entry: they can be freed one by one.
NamesOwned(s) ==
  \A i, j \in DOMAIN s : i # j /\ s[i].ptr # 0 => s[i].ptr # s[j].ptr

---------------------------------------------------------------------------
\* jaeger_remotely_controlled_sampler_init with the default sampler.  In some
\* environments malloc may fail, in some the server comes to list operations
\* that the adaptive sampler does not know.
Init ==
  /\ type = "probabilistic"
  /\ ready = FALSE
  /\ ops = <<>>
  /\ default = CHOOSE d \in Defaults : TRUE
  /\ connection = "open"
  /\ parser = "ready"
  /\ pc = "idle"
  /\ strategy = [case |-> "probabilistic"]
  /\ todo = {}
  /\ success = TRUE
  /\ query = "none"
  /\ updates = 0
  /\ status = "running"
  /\ environment \in Environments

MallocMayFail == "malloc" \in environment
NewMayCome == "new" \in environment

Crash ==
  /\ status' = "crashed"
  /\ UNCHANGED <<sampler, manager, updating, environment>>

Adaptive == status = "running" /\ type = "adaptive" /\ ready

\* jaeger_adaptive_sampler_find_sampler copies the name first; without memory
\* for that it says that there is no such operation.
NotFound(name) == Search(ops, name) = 0 \/ MallocMayFail

Insert(pos, entry) == ops' = InsertAt(ops, pos, entry)

---------------------------------------------------------------------------
(* is_sampled, for the operations that change the adaptive sampler *)

HasRoom == Len(ops) < MaxOperations

IsSampledNew(name) ==
  /\ Adaptive
  /\ pc # "loop"
  /\ NotFound(name)
  /\ HasRoom
  /\ LowerBound(ops, name) # Crashed
  /\ Insert(LowerBound(ops, name),
            [name |-> name, ptr |-> FreshPointer(ops), rate |-> Clamp(default.rate),
             lower |-> default.lower])
  /\ UNCHANGED <<type, ready, default, manager, updating, status, environment>>

IsSampledCrash(name) ==
  /\ Adaptive
  /\ pc # "loop"
  /\ \/ Search(ops, name) = Crashed
     \/ NotFound(name) /\ HasRoom /\ LowerBound(ops, name) = Crashed
  /\ Crash

---------------------------------------------------------------------------
(* jaeger_http_sampling_manager_get_sampling_strategies *)

Request ==
  /\ status = "running"
  /\ pc = "idle"
  /\ updates < MaxUpdates
  /\ pc' = "reading"
  /\ UNCHANGED <<sampler, manager, strategy, todo, success, updates, status,
                 environment>>

\* A response with usable strategies; update goes on with them.
GoodAnswer(s) ==
  /\ status = "running"
  /\ pc = "reading"
  /\ connection = "open"
  /\ parser = "ready"
  /\ Adaptive /\ ~NewMayCome /\ s.case = "per_operation" =>
       DOMAIN s.ops \subseteq {ops[i].name : i \in DOMAIN ops}
  /\ strategy' = s
  /\ updates' = updates + 1
  /\ query' = "ok"
  /\ pc' = "apply"
  /\ UNCHANGED <<sampler, connection, parser, todo, success, status,
                 environment>>

\* The query fails because the answer was bad, or although it was good.
QueryFails(how) ==
  /\ status = "running"
  /\ pc = "reading"
  /\ query' = how
  /\ pc' = "idle"
  /\ UNCHANGED <<sampler, strategy, todo, success, updates, status,
                 environment>>

\* http_parser_execute refuses all input once it has met an error, and the
\* parser is initialised only once.
GoodAnswerRefused ==
  /\ connection = "open"
  /\ parser = "broken"
  /\ QueryFails("refused")
  /\ UNCHANGED <<connection, parser>>

\* Complete, but not the JSON that is expected; or no memory to parse it.
BadJson ==
  /\ connection = "open"
  /\ parser = "ready"
  /\ QueryFails("bad")
  /\ UNCHANGED <<connection, parser>>

\* Not HTTP, or another status than 200 with a body: on_headers_complete makes
\* the parser skip the body, which it then takes for the next response.
BadHttp ==
  /\ connection = "open"
  /\ QueryFails("bad")
  /\ parser' = "broken"
  /\ UNCHANGED connection

\* The server has closed the connection, now or earlier: write fails or read
\* finds the end.  Nothing opens another one.
NoConnection ==
  /\ QueryFails("bad")
  /\ connection' = "closed"
  /\ UNCHANGED parser

\* JSON without any of the three strategies fails an assertion; without memory
\* on_body copies to a null pointer.
AnswerCrash ==
  /\ status = "running"
  /\ pc = "reading"
  /\ connection = "open"
  /\ parser = "ready"
  /\ Crash

---------------------------------------------------------------------------
(* jaeger_remotely_controlled_sampler_update, under the mutex *)

Applies(case) ==
  /\ status = "running"
  /\ pc = "apply"
  /\ strategy.case \in case

\* jaeger_sampler_choice_destroy frees every name of an adaptive sampler.
DestroyChoice == ready => NamesOwned(ops)

DestroyCrash ==
  /\ Applies({"probabilistic", "rate_limiting"})
  /\ ~DestroyChoice
  /\ Crash

ApplyOther ==
  /\ Applies({"probabilistic", "rate_limiting"})
  /\ DestroyChoice
  /\ type' = strategy.case
  /\ ready' = FALSE
  /\ ops' = <<>>
  /\ success' = TRUE
  /\ pc' = "idle"
  /\ UNCHANGED <<default, manager, strategy, todo, updates, status, environment>>

\* jaeger_vector_sort of names.
Sorted(S) ==
  CHOOSE q \in [1 .. Cardinality(S) -> S] :
    \A i, j \in 1 .. Cardinality(S) : i < j => q[i] < q[j]

\* samplers_from_strategies, with its sort.
SamplersFromStrategies ==
  LET names == Sorted(DOMAIN strategy.ops)
  IN  [i \in 1 .. Len(names) |->
         [name |-> names[i], ptr |-> i, rate |-> Clamp(strategy.ops[names[i]]),
          lower |-> strategy.default.lower]]

\* jaeger_adaptive_sampler_init in place of another sampler.
ApplyInit ==
  /\ Applies({"per_operation"})
  /\ type # "adaptive"
  /\ type' = "adaptive"
  /\ ready' = TRUE
  /\ ops' = SamplersFromStrategies
  /\ default' = strategy.default
  /\ success' = TRUE
  /\ pc' = "idle"
  /\ UNCHANGED <<manager, strategy, todo, updates, status, environment>>

\* The type is set before init fails, and stays.
ApplyInitFail ==
  /\ Applies({"per_operation"})
  /\ type # "adaptive"
  /\ MallocMayFail
  /\ type' = "adaptive"
  /\ ready' = FALSE
  /\ success' = FALSE
  /\ pc' = "idle"
  /\ UNCHANGED <<ops, default, manager, strategy, todo, updates, status,
                 environment>>

\* jaeger_adaptive_sampler_update on a sampler that was never initialised: its
\* mutex and its vector are whatever the last sampler left there.
ApplyUninitialised ==
  /\ Applies({"per_operation"})
  /\ type = "adaptive"
  /\ ~ready
  /\ Crash

ApplyUpdate ==
  /\ Applies({"per_operation"})
  /\ Adaptive
  /\ todo' = DOMAIN strategy.ops
  /\ success' = TRUE
  /\ pc' = "loop"
  /\ UNCHANGED <<sampler, manager, strategy, updates, status, environment>>

\* The loop of jaeger_adaptive_sampler_update takes the operations in the
\* server's order, which may be any.
UpdateOne(name) ==
  /\ status = "running"
  /\ pc = "loop"
  /\ name \in todo
  /\ todo' = todo \ {name}
  /\ UNCHANGED <<type, ready, default, manager, pc, strategy, updates, status,
                 environment>>

\* As NewRates, when the lower bound is left alone.
MutNewRates(name, entry) == [entry EXCEPT !.rate = Clamp(strategy.ops[name])]

NewRates(name, entry) ==
  [entry EXCEPT !.rate = Clamp(strategy.ops[name]), !.lower = strategy.default.lower]

UpdateFound(name) ==
  LET i == Search(ops, name)
  IN  /\ UpdateOne(name)
      /\ i \in DOMAIN ops
      /\ ops' = [ops EXCEPT ![i] = NewRates(name, @)]
      /\ UNCHANGED success

\* As StaleSlot, when jaeger_vector_reserve does not clear what it adds.
MutStaleSlot(pos) ==
  IF pos \in DOMAIN ops THEN ops[pos]
  ELSE [name |-> NoName, ptr |-> -1, rate |-> Clamp(default.rate),
        lower |-> default.lower]

\* The slot jaeger_vector_insert opens still holds the bytes of the entry that
\* moved up, or zeros at the end; only its sampler is initialised.
StaleSlot(pos) ==
  IF pos \in DOMAIN ops THEN ops[pos]
  ELSE [name |-> NoName, ptr |-> 0, rate |-> Clamp(default.rate),
        lower |-> default.lower]

UpdateInsert(name) ==
  LET pos == LowerBound(ops, name)
  IN  /\ UpdateOne(name)
      /\ NotFound(name)
      /\ success
      /\ pos # Crashed
      /\ Insert(pos, NewRates(name, StaleSlot(pos)))
      /\ UNCHANGED success

UpdateNoMemory(name) ==
  /\ UpdateOne(name)
  /\ NotFound(name)
  /\ MallocMayFail
  /\ success' = FALSE
  /\ UNCHANGED ops

UpdateCrash(name) ==
  /\ status = "running"
  /\ pc = "loop"
  /\ name \in todo
  /\ \/ Search(ops, name) = Crashed
     \/ NotFound(name) /\ success /\ LowerBound(ops, name) = Crashed
  /\ Crash

UpdateDone ==
  /\ status = "running"
  /\ pc = "loop"
  /\ todo = {}
  /\ pc' = "idle"
  /\ UNCHANGED <<sampler, manager, strategy, todo, success, updates, status,
                 environment>>

---------------------------------------------------------------------------
(* jaeger_remotely_controlled_sampler_destroy, when nobody uses it any more *)

Destroy ==
  /\ status = "running"
  /\ pc = "idle"
  /\ status' = IF DestroyChoice THEN "destroyed" ELSE "crashed"
  /\ ops' = <<>>
  /\ UNCHANGED <<type, ready, default, manager, updating, environment>>

---------------------------------------------------------------------------
Read ==
  \/ \E s \in Responses : GoodAnswer(s)
  \/ GoodAnswerRefused
  \/ BadJson
  \/ BadHttp
  \/ NoConnection
  \/ AnswerCrash

Apply ==
  \/ DestroyCrash
  \/ ApplyOther
  \/ ApplyInit
  \/ ApplyInitFail
  \/ ApplyUninitialised
  \/ ApplyUpdate
  \/ \E name \in Names :
       \/ UpdateFound(name)
       \/ UpdateInsert(name)
       \/ UpdateNoMemory(name)
       \/ UpdateCrash(name)
  \/ UpdateDone

Next ==
  \/ \E name \in Names : IsSampledNew(name) \/ IsSampledCrash(name)
  \/ Request
  \/ Read
  \/ Apply
  \/ Destroy

Spec == Init /\ [][Next]_vars

\* The thread that updates keeps calling update, and each call gets an answer.
FairSpec == Spec /\ WF_vars(Request) /\ WF_vars(Read) /\ WF_vars(Apply)

---------------------------------------------------------------------------
(* Properties *)

\* The types of the sampler's fields, of the parser and of the locals of
\* jaeger_remotely_controlled_sampler_update; a pointer is valid or NULL.
TypeOK ==
  /\ type \in {"probabilistic", "rate_limiting", "adaptive"}
  /\ ready \in BOOLEAN
  /\ ops \in Seq(OpSampler)
  /\ default \in Defaults
  /\ connection \in {"open", "closed"}
  /\ parser \in {"ready", "broken"}
  /\ pc \in {"idle", "reading", "apply", "loop"}
  /\ strategy \in Responses
  /\ todo \subseteq Names
  /\ success \in BOOLEAN
  /\ query \in {"none", "ok", "bad", "refused"}
  /\ updates \in 0 .. MaxUpdates
  /\ status \in {"running", "destroyed", "crashed"}
  /\ environment \in Environments

Named == {i \in DOMAIN ops : ops[i].name # NoName}

\* The array stays in order whatever is inserted where: also with names that
\* belong to the neighbour, and with nameless entries at its end, so that the
\* two binary searches agree with the definition of what they look for
\* (bsearch finds a name that is there, jaeger_vector_lower_bound the first
\* entry not below it).
SearchesExact ==
  /\ \A i, j \in Named : i < j => ops[i].name <= ops[j].name
  /\ \A i \in DOMAIN ops \ Named, j \in Named : j < i
  /\ \A name \in Names :
       LET found == Search(ops, name)
           pos == LowerBound(ops, name)
       IN  /\ found = 0 => \A i \in Named : ops[i].name # name
           /\ found > 0 => ops[found].name = name
           /\ pos > 0 =>
                \A i \in Named : ops[i].name < name <=> i < pos

\* One named entry per operation, in strict order, with a name of its own
\* (sampler_test.c, test_adaptive_sampler).
StrictOrder ==
  /\ Named = DOMAIN ops
  /\ \A i, j \in DOMAIN ops : i < j => ops[i].name < ops[j].name
  /\ NamesOwned(ops)

\* With memory to spare, and a server that lists known operations only, that
\* is so, and a sampler of adaptive type is an initialised one.
StrictOrderUnlessStressed ==
  ~MallocMayFail /\ ~NewMayCome =>
    StrictOrder /\ (status = "running" /\ type = "adaptive" => ready)

\* Under the same conditions an update takes effect: between two updates every
\* operation the server listed last is sampled at the rate (brought into 0 .. 1)
\* and with the lower bound it was given, whatever other operations came in the meantime
\* (jaeger_adaptive_sampler_update, jaeger_adaptive_sampler_init).
ListedRatesApply ==
  /\ ~MallocMayFail /\ ~NewMayCome
  /\ Adaptive /\ pc \in {"idle", "reading"} /\ strategy.case = "per_operation"
  => \A name \in DOMAIN strategy.ops :
       LET i == Search(ops, name)
       IN  /\ i \in DOMAIN ops
           /\ ops[i].rate = Clamp(strategy.ops[name])
           /\ ops[i].lower = strategy.default.lower

\* Once the connection stays and the server answers every query well, queries
\* stop failing ("Cannot get sampling strategies, will retry later",
\* jaeger_remotely_controlled_sampler_update).
ServerAnswersWell ==
  <>[](/\ status = "running"
       /\ connection = "open"
       /\ query \in {"ok", "refused"})

RetrySucceeds == ServerAnswersWell => <>[](query = "ok")

---------------------------------------------------------------------------
(* The inductive invariant behind the safety properties *)

\* The entries before a named one are named, and their names not above it.
Ordered(s) ==
  \A i, j \in DOMAIN s : i < j /\ s[j].name # NoName =>
    s[i].name # NoName /\ s[i].name <= s[j].name

\* The operations the adaptive sampler knows, and those among them that have
\* what the strategy says.
Known == {ops[i].name : i \in DOMAIN ops}
Rated(name) ==
  \E i \in DOMAIN ops : /\ ops[i].name = name
                        /\ ops[i].rate = Clamp(strategy.ops[name])
                        /\ ops[i].lower = strategy.default.lower

\* Without stress: an update meets known operations only, its loop has given
\* their rates to those it has passed, and no other step takes them away.
CalmInv ==
  /\ StrictOrder
  /\ status = "running" /\ type = "adaptive" => ready
  /\ pc = "loop" => /\ type = "adaptive" /\ ready
                    /\ strategy.case = "per_operation"
                    /\ todo \subseteq DOMAIN strategy.ops
  /\ Adaptive /\ pc \in {"apply", "loop"} /\ strategy.case = "per_operation" =>
       DOMAIN strategy.ops \subseteq Known
  /\ Adaptive /\ pc = "loop" => \A name \in DOMAIN strategy.ops \ todo : Rated(name)
  /\ Adaptive /\ pc \in {"idle", "reading"} /\ strategy.case = "per_operation" =>
       \A name \in DOMAIN strategy.ops : Rated(name)

\* What update works on where it is.
UpdateInv ==
  /\ pc = "reading" => updates < MaxUpdates
  /\ pc = "loop" => strategy.case = "per_operation" /\ todo \subseteq DOMAIN strategy.ops

\* What every step of is_sampled, update and destroy preserves: types, an array
\* in order, and without stress that the strategy received last is the one the
\* array has, as far as the loop of update has come.
IndInv ==
  /\ TypeOK
  /\ Ordered(ops)
  /\ UpdateInv
  /\ ~MallocMayFail /\ ~NewMayCome => CalmInv
====
