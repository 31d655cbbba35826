----------------------------- MODULE Hashtable -----------------------------
(***************************************************************************)
(* The hash table of hashtable.c, list.c and key_value.c as the baggage of *)
(* a span context: nodes with two pointers in buckets that grow by         *)
(* rehashing, under the context's mutex, with copies (span_context_copy),  *)
(* iterations (foreach_baggage_item) and the iteration of                  *)
(* jaeger_inject_into_binary, which takes no lock.                         *)
(*                                                                         *)
(* A step is what happens between two allocations, or one round of a loop. *)
(* A step with an undefined outcome or a failing assertion ends the        *)
(* process: crashed says why.                                              *)
(***************************************************************************)
EXTENDS Integers, Sequences, FiniteSets, Functions

CONSTANTS Threads, NoThread,
          Keys, Values, NoValue,
          Hash,        \* jaeger_hashtable_hash
          InitOrder,   \* JAEGERTRACINGC_HASHTABLE_INIT_ORDER
          Nodes,       \* addresses of nodes, numbers (a bound on memory)
          Null,        \* the null pointer to a node
          Src,         \* the baggage; a thread names the copy it makes
          Hazards,     \* what may happen: "malloc" fails, "remove", "inject"
          MaxCalls     \* bound on the number of calls

ASSUME NameAssumption ==
  /\ NoThread \notin Threads \cup {Src} /\ Src \notin Threads
  /\ Null \notin Nodes /\ Nodes \subseteq Nat /\ IsFiniteSet(Nodes)
  /\ NoValue \notin Values
ASSUME HashAssumption == Keys # {} /\ Hash \in [Keys -> Nat]
ASSUME OrderAssumption == InitOrder \in Nat /\ MaxCalls \in Nat
ASSUME HazardAssumption == Hazards \subseteq {"malloc", "remove", "inject"}

VARIABLES node,      \* the key, value, next and prev of every node
          live,      \* the nodes that are allocated
          table,     \* size, order and buckets: the baggage and the copies
          mutex,     \* owner of the context's mutex
          pc, op,    \* where each thread is, in which operation
          arg,       \* the key and value of a put, find or remove
          move,      \* of rehash: new buckets, bucket i and the entry in it
          cursor,    \* of an iteration: bucket i of len, the entry in it
          seen,      \* the pairs the iteration has passed
          result,    \* what the last operation under the mutex returned
          removed,   \* number of entries removed
          crashed,   \* "no", or why the process ended
          calls      \* number of calls so far (bounded by MaxCalls)

memory == <<node, live, table>>
vars == <<memory, mutex, pc, op, arg, move, cursor, seen, result, removed,
          crashed, calls>>

Tables == Threads \cup {Src}
Operations == {"put", "find", "remove", "copy", "foreach", "inject"}

---------------------------------------------------------------------------
(* list.c: the operators return the nodes' new contents *)

EmptyList == [head |-> Null, size |-> 0]

\* a->next = b and b->prev = a, where a or b may be null.
Link(m, a, b) ==
  [n \in Nodes |-> [m[n] EXCEPT !.next = IF n = a THEN b ELSE @,
                                !.prev = IF n = b THEN a ELSE @]]

ListGet(m, list, index) ==
  LET at[i \in 0 .. index] == IF i = 0 THEN list.head ELSE m[at[i - 1]].next
  IN IF index >= list.size THEN Null ELSE at[index]

ListInsert(m, list, index, elem) ==
  [node |-> IF index = 0
            THEN Link(Link(m, elem, list.head), Null, elem)
            ELSE LET n == ListGet(m, list, index - 1)
                 IN Link(Link(m, elem, m[n].next), n, elem),
   list |-> [head |-> IF index = 0 THEN elem ELSE list.head,
             size |-> list.size + 1]]

ListAppend(m, list, elem) == ListInsert(m, list, list.size, elem)

MutListNodeRemove(m, list, n) ==
  [node |-> Link(Link([m EXCEPT ![n].prev = Null], n, Null), Null, n),
   list |-> [head |-> IF list.head = n THEN m[n].next ELSE list.head,
             size |-> list.size - 1]]

ListNodeRemove(m, list, n) ==
  [node |-> Link(Link(Link(m, m[n].prev, m[n].next), n, Null), Null, n),
   list |-> [head |-> IF list.head = n THEN m[n].next ELSE list.head,
             size |-> list.size - 1]]

\* The nodes from a list's head on; a cycle is cut after Cardinality(Nodes).
Chain(m, list) ==
  LET from[i \in 0 .. Cardinality(Nodes)] ==
        [n \in Nodes \cup {Null} |->
           IF i = 0 \/ n = Null THEN <<>> ELSE <<n>> \o from[i - 1][m[n].next]]
  IN from[Cardinality(Nodes)][list.head]

---------------------------------------------------------------------------
(* hashtable.c: helpers *)

\* 1u << order
BucketCount(order) ==
  LET shifted[i \in 0 .. order] == IF i = 0 THEN 1 ELSE 2 * shifted[i - 1]
  IN shifted[order]

NoBuckets == <<>>   \* the null pointer to an array of buckets
Index(key, order) == Hash[key] % BucketCount(order)
EmptyBuckets(order) == [i \in 0 .. BucketCount(order) - 1 |-> EmptyList]
EmptyTable(order) ==
  [size |-> 0, order |-> order, buckets |-> EmptyBuckets(order)]
NoTable == [size |-> 0, order |-> 0, buckets |-> NoBuckets]

MutMinimalOrder(size) ==
  IF size < InitOrder THEN InitOrder
  ELSE CHOOSE order \in 0 .. size :
         /\ BucketCount(order) >= size
         /\ \A o \in 0 .. order - 1 : BucketCount(o) < size

\* With __builtin_clz: the number of bits of size.
MinimalOrder(size) ==
  IF size < InitOrder THEN InitOrder
  ELSE CHOOSE order \in 1 .. size :
         BucketCount(order - 1) <= size /\ size < BucketCount(order)

\* (size + 1) / bucket_count >= 1.0
AtThreshold(t) == t.size + 1 >= BucketCount(t.order)

MutLookup(t, key) ==
  LET head == t.buckets[Index(key, t.order)].head
  IN IF head # Null /\ node[head].key = key THEN head ELSE Null

\* jaeger_hashtable_internal_lookup: the first node with the key.
Lookup(t, key) ==
  LET chain == Chain(node, t.buckets[Index(key, t.order)])
      found == {i \in DOMAIN chain : node[chain[i]].key = key}
  IN IF found = {} THEN Null
     ELSE chain[CHOOSE i \in found : \A j \in found : i <= j]

\* jaeger_key_value_node_dealloc: a node's contents are gone.
NoNode == [key |-> CHOOSE k \in Keys : TRUE, value |-> NoValue,
           next |-> Null, prev |-> Null]
Dealloc(m, nodes) == [n \in Nodes |-> IF n \in nodes THEN NoNode ELSE m[n]]

\* What jaeger_hashtable_clear frees.
NodesIn(buckets) ==
  UNION {Range(Chain(node, buckets[i])) : i \in DOMAIN buckets}

---------------------------------------------------------------------------
NoMove == [new |-> NoBuckets, i |-> 0, entry |-> Null]
Cursor(t) == [i |-> 0, len |-> BucketCount(table[t].order),
              entry |-> table[t].buckets[0].head, all |-> TRUE]
NoCursor == [i |-> 0, len |-> 0, entry |-> Null, all |-> TRUE]
AnyKey == CHOOSE k \in Keys : TRUE
NoArg == [key |-> AnyKey, value |-> NoValue]

\* jaeger_span_context_init has made the table.
Init ==
  /\ node = [n \in Nodes |-> NoNode]
  /\ live = {}
  /\ table = [t \in Tables |-> IF t = Src THEN EmptyTable(InitOrder) ELSE NoTable]
  /\ mutex = NoThread
  /\ pc = [t \in Threads |-> "idle"]
  /\ op = [t \in Threads |-> "none"]
  /\ arg = [t \in Threads |-> NoArg]
  /\ move = [t \in Threads |-> NoMove]
  /\ cursor = [t \in Threads |-> NoCursor]
  /\ seen = [t \in Threads |-> <<>>]
  /\ result = <<>>
  /\ removed = 0
  /\ crashed = "no"
  /\ calls = 0

Goto(t, label) == pc' = [pc EXCEPT ![t] = label]

\* The end of a call: everything local goes out of scope.
Return(t) ==
  /\ Goto(t, "idle")
  /\ op' = [op EXCEPT ![t] = "none"]
  /\ arg' = [arg EXCEPT ![t] = NoArg]
  /\ move' = [move EXCEPT ![t] = NoMove]
  /\ cursor' = [cursor EXCEPT ![t] = NoCursor]
  /\ seen' = [seen EXCEPT ![t] = <<>>]

Unlock(t) == mutex' = IF mutex = t THEN NoThread ELSE mutex

Crash(why) ==
  /\ crashed' = why
  /\ UNCHANGED <<memory, mutex, pc, op, arg, move, cursor, seen, result,
                 removed, calls>>

\* All operations but inject begin by locking the context's mutex.
Lock(t, o) ==
  IF o = "inject" THEN UNCHANGED mutex ELSE mutex = NoThread /\ mutex' = t

\* A thread calls an operation.
Call(t, o, k, v) ==
  /\ pc[t] = "idle"
  /\ calls < MaxCalls
  /\ table[Src].buckets # NoBuckets
  /\ o \in {"remove", "inject"} => o \in Hazards
  /\ Lock(t, o)
  /\ calls' = calls + 1
  /\ op' = [op EXCEPT ![t] = o]
  /\ arg' = [arg EXCEPT ![t] = [key |-> k, value |-> v]]
  /\ cursor' = [cursor EXCEPT ![t] = IF o \in {"foreach", "inject"}
                                     THEN Cursor(Src) ELSE NoCursor]
  /\ Goto(t, IF o \in {"foreach", "inject"} THEN "scan" ELSE o)
  /\ UNCHANGED <<memory, move, seen, result, removed, crashed>>

---------------------------------------------------------------------------
(* jaeger_hashtable_put, into the baggage or, for a copy, into the copy *)

Target(t) == IF op[t] = "copy" THEN t ELSE Src
Mine(t) == table[Target(t)]

\* What follows a put: the end of the call, or the next entry of a copy.
PutDone(t) ==
  IF op[t] = "put"
  THEN /\ Unlock(t)
       /\ Return(t)
       /\ result' = <<"put", arg[t].key, TRUE>>
  ELSE /\ Goto(t, "next")
       /\ UNCHANGED <<mutex, op, arg, move, cursor, seen, result>>

PutFails(t) ==
  /\ "malloc" \in Hazards
  /\ IF op[t] = "put"
     THEN /\ Unlock(t)
          /\ Return(t)
          /\ result' = <<"put", arg[t].key, FALSE>>
     ELSE /\ Goto(t, "cleanup")
          /\ UNCHANGED <<mutex, op, arg, move, cursor, seen, result>>
  /\ UNCHANGED <<memory, removed, crashed, calls>>

\* No memory for the new buckets.
RehashFails(t) ==
  /\ pc[t] = "put"
  /\ AtThreshold(Mine(t))
  /\ PutFails(t)

MutStartPut(t) ==
  /\ pc[t] = "put"
  /\ Goto(t, "insert")
  /\ UNCHANGED <<memory, mutex, op, arg, move, cursor, seen, result, removed,
                 crashed, calls>>

StartPut(t) ==
  /\ pc[t] = "put"
  /\ IF AtThreshold(Mine(t))
     THEN /\ move' = [move EXCEPT ![t] =
                        [new |-> EmptyBuckets(Mine(t).order + 1), i |-> 0,
                         entry |-> Mine(t).buckets[0].head]]
          /\ Goto(t, "rehash")
     ELSE /\ Goto(t, "insert")
          /\ UNCHANGED move
  /\ UNCHANGED <<memory, mutex, op, arg, cursor, seen, result, removed,
                 crashed, calls>>

MutRehashEntry(t) ==
  LET m == move[t]
      taken == ListNodeRemove(node, Mine(t).buckets[m.i], m.entry)
      index == Index(node[m.entry].key, Mine(t).order + 1)
      put == ListAppend(taken.node, m.new[index], m.entry)
  IN /\ pc[t] = "rehash"
     /\ m.entry # Null
     /\ node' = put.node
     /\ table' = [table EXCEPT ![Target(t)].buckets[m.i] = taken.list]
     /\ move' = [move EXCEPT ![t].new[index] = put.list,
                             ![t].entry = put.node[m.entry].next]
     /\ UNCHANGED <<live, mutex, pc, op, arg, cursor, seen, result, removed,
                    crashed, calls>>

\* One entry moves to its new bucket; its successor was read before.
RehashEntry(t) ==
  LET m == move[t]
      taken == ListNodeRemove(node, Mine(t).buckets[m.i], m.entry)
      index == Index(node[m.entry].key, Mine(t).order + 1)
      put == ListAppend(taken.node, m.new[index], m.entry)
  IN /\ pc[t] = "rehash"
     /\ m.entry # Null
     /\ node' = put.node
     /\ table' = [table EXCEPT ![Target(t)].buckets[m.i] = taken.list]
     /\ move' = [move EXCEPT ![t].new[index] = put.list,
                             ![t].entry = node[m.entry].next]
     /\ UNCHANGED <<live, mutex, pc, op, arg, cursor, seen, result, removed,
                    crashed, calls>>

MutRehashBucket(t) ==
  LET i == move[t].i + 1
  IN /\ pc[t] = "rehash"
     /\ move[t].entry = Null
     /\ IF i < BucketCount(Mine(t).order)
        THEN /\ move' = [move EXCEPT ![t].i = i,
                                     ![t].entry = Mine(t).buckets[i].head]
             /\ UNCHANGED <<table, pc>>
        ELSE /\ table' = [table EXCEPT ![Target(t)].buckets = move[t].new]
             /\ move' = [move EXCEPT ![t] = NoMove]
             /\ Goto(t, "insert")
     /\ UNCHANGED <<node, live, mutex, op, arg, cursor, seen, result, removed,
                    crashed, calls>>

\* The next bucket, or the new buckets replace the old ones.
RehashBucket(t) ==
  LET i == move[t].i + 1
  IN /\ pc[t] = "rehash"
     /\ move[t].entry = Null
     /\ IF i < BucketCount(Mine(t).order)
        THEN /\ move' = [move EXCEPT ![t].i = i,
                                     ![t].entry = Mine(t).buckets[i].head]
             /\ UNCHANGED <<table, pc>>
        ELSE /\ table' = [table EXCEPT ![Target(t)].buckets = move[t].new,
                                       ![Target(t)].order = @ + 1]
             /\ move' = [move EXCEPT ![t] = NoMove]
             /\ Goto(t, "insert")
     /\ UNCHANGED <<node, live, mutex, op, arg, cursor, seen, result, removed,
                    crashed, calls>>

\* No memory for the value, the pair or the node; each is freed again.
InsertFails(t) ==
  /\ pc[t] = "insert"
  /\ PutFails(t)

Overwrite(t) ==
  LET entry == Lookup(Mine(t), arg[t].key)
  IN /\ pc[t] = "insert"
     /\ entry # Null
     /\ node' = [node EXCEPT ![entry].value = arg[t].value]
     /\ PutDone(t)
     /\ UNCHANGED <<live, table, removed, crashed, calls>>

\* malloc returns some address that is free: the least.
Fresh == CHOOSE n \in Nodes \ live : \A m \in Nodes \ live : n <= m

Insert(t) ==
  LET key == arg[t].key
      index == Index(key, Mine(t).order)
      bucket == Mine(t).buckets[index]
      new == [key |-> key, value |-> arg[t].value, next |-> Null, prev |-> Null]
      put == ListInsert([node EXCEPT ![Fresh] = new], bucket, bucket.size, Fresh)
  IN /\ pc[t] = "insert"
     /\ live # Nodes
     /\ Lookup(Mine(t), key) = Null
     /\ node' = put.node
     /\ live' = live \cup {Fresh}
     /\ table' = [table EXCEPT ![Target(t)].buckets[index] = put.list,
                               ![Target(t)].size = @ + 1]
     /\ PutDone(t)
     /\ UNCHANGED <<removed, crashed, calls>>

---------------------------------------------------------------------------
Find(t) ==
  LET entry == Lookup(table[Src], arg[t].key)
  IN /\ pc[t] = "find"
     /\ result' = <<"find", arg[t].key,
                    IF entry = Null THEN NoValue ELSE node[entry].value>>
     /\ Unlock(t)
     /\ Return(t)
     /\ UNCHANGED <<memory, removed, crashed, calls>>

\* The size of the table stays as it is.
Remove(t) ==
  LET key == arg[t].key
      index == Index(key, table[Src].order)
      entry == Lookup(table[Src], key)
      taken == ListNodeRemove(node, table[Src].buckets[index], entry)
  IN /\ pc[t] = "remove"
     /\ IF entry = Null THEN UNCHANGED <<memory, removed>>
        ELSE /\ node' = Dealloc(taken.node, {entry})
             /\ live' = live \ {entry}
             /\ table' = [table EXCEPT ![Src].buckets[index] = taken.list]
             /\ removed' = removed + 1
     /\ result' = <<"remove", key, TRUE>>
     /\ Unlock(t)
     /\ Return(t)
     /\ UNCHANGED <<crashed, calls>>

---------------------------------------------------------------------------
(* Iterations: copy, foreach_baggage_item, inject_into_binary *)

\* jaeger_hashtable_copy, which jaeger_span_context_copy calls.
Copy(t) ==
  /\ pc[t] = "copy"
  /\ table' = [table EXCEPT ![t] = EmptyTable(IF table[Src].size = 0 THEN InitOrder
                                              ELSE MinimalOrder(table[Src].size))]
  /\ cursor' = [cursor EXCEPT ![t] = Cursor(Src)]
  /\ Goto(t, "scan")
  /\ UNCHANGED <<node, live, mutex, op, arg, move, seen, result, removed,
                 crashed, calls>>

\* No memory for the buckets.
CopyFails(t) ==
  /\ pc[t] = "copy"
  /\ "malloc" \in Hazards
  /\ Goto(t, "cleanup")
  /\ UNCHANGED <<memory, mutex, op, arg, move, cursor, seen, result, removed,
                 crashed, calls>>

Entry(t) == cursor[t].entry
Pair(n) == <<node[n].key, node[n].value>>

\* A copy puts the entry; the others hand it to a callback.
Visit(t) ==
  /\ pc[t] = "scan"
  /\ Entry(t) \in live
  /\ IF op[t] = "copy"
     THEN /\ arg' = [arg EXCEPT ![t] = [key |-> node[Entry(t)].key,
                                        value |-> node[Entry(t)].value]]
          /\ Goto(t, "put")
          /\ UNCHANGED seen
     ELSE /\ seen' = [seen EXCEPT ![t] = Append(@, Pair(Entry(t)))]
          /\ Goto(t, "next")
          /\ UNCHANGED arg
  /\ UNCHANGED <<memory, mutex, op, move, cursor, result, removed, crashed, calls>>

Advance(t) ==
  /\ pc[t] = "next"
  /\ Entry(t) \in live
  /\ cursor' = [cursor EXCEPT ![t].entry = node[Entry(t)].next]
  /\ Goto(t, "scan")
  /\ UNCHANGED <<memory, mutex, op, arg, move, seen, result, removed, crashed, calls>>

\* foreach's callback returns false: the break leaves the inner loop only.
\* inject returns at once when its callback fails.
Refused(t) ==
  /\ pc[t] = "next"
  /\ \/ /\ op[t] = "foreach"
        /\ cursor' = [cursor EXCEPT ![t].entry = Null, ![t].all = FALSE]
        /\ Goto(t, "scan")
        /\ UNCHANGED <<op, arg, move, seen>>
     \/ op[t] = "inject" /\ Return(t)
  /\ UNCHANGED <<memory, mutex, result, removed, crashed, calls>>

NextBucket(t) ==
  LET i == cursor[t].i + 1
  IN /\ pc[t] = "scan"
     /\ Entry(t) = Null
     /\ i < cursor[t].len
     /\ cursor' = [cursor EXCEPT ![t].i = i,
                                 ![t].entry = table[Src].buckets[i].head]
     /\ UNCHANGED <<memory, mutex, pc, op, arg, move, seen, result, removed,
                    crashed, calls>>

ScanEnds(t) == pc[t] = "scan" /\ Entry(t) = Null /\ cursor[t].i + 1 >= cursor[t].len

Contents(t) ==
  [k \in Keys |-> IF table[t].buckets = NoBuckets \/ Lookup(table[t], k) = Null
                  THEN NoValue ELSE node[Lookup(table[t], k)].value]

ForeachDone(t) ==
  /\ ScanEnds(t)
  /\ op[t] = "foreach"
  /\ result' = <<"foreach", seen[t], cursor[t].all>>
  /\ Unlock(t)
  /\ Return(t)
  /\ UNCHANGED <<memory, removed, crashed, calls>>

\* assert(ctx->baggage.size == size)
InjectDone(t) ==
  /\ ScanEnds(t)
  /\ op[t] = "inject"
  /\ table[Src].size = Len(seen[t])
  /\ Return(t)
  /\ UNCHANGED <<memory, mutex, result, removed, crashed, calls>>

\* assert(dst->size == src->size), then both contexts are unlocked.
CopyDone(t) ==
  /\ ScanEnds(t)
  /\ op[t] = "copy"
  /\ table[t].size = table[Src].size
  /\ result' = <<"copy", Contents(t)>>
  /\ Unlock(t)
  /\ Goto(t, "have")
  /\ cursor' = [cursor EXCEPT ![t] = NoCursor]
  /\ arg' = [arg EXCEPT ![t] = NoArg]
  /\ UNCHANGED <<memory, op, move, seen, removed, crashed, calls>>

SizeAssertFails(t) ==
  /\ ScanEnds(t)
  /\ \/ op[t] = "copy" /\ table[t].size # table[Src].size
     \/ op[t] = "inject" /\ table[Src].size # Len(seen[t])
  /\ Crash("assert")

\* inject reads what another thread is freeing or linking at that moment.
InjectRace(t) ==
  /\ op[t] = "inject"
  /\ \/ Entry(t) \notin live \cup {Null}
     \/ \E u \in Threads : op[u] \in {"put", "remove"}
                           /\ pc[u] \in {"rehash", "insert", "remove"}
  /\ Crash("race")

\* jaeger_hashtable_destroy of t's table.
Destroy(t) ==
  /\ live' = live \ NodesIn(table[t].buckets)
  /\ node' = Dealloc(node, NodesIn(table[t].buckets))
  /\ table' = [table EXCEPT ![t].size = 0, ![t].buckets = NoBuckets]

\* A copy that failed is destroyed, the mutexes are unlocked ...
CopyCleanup(t) ==
  /\ pc[t] = "cleanup"
  /\ Destroy(t)
  /\ result' = <<"copy", NoValue>>
  /\ Unlock(t)
  /\ Goto(t, "destroy")
  /\ cursor' = [cursor EXCEPT ![t] = NoCursor]
  /\ arg' = [arg EXCEPT ![t] = NoArg]
  /\ UNCHANGED <<op, move, seen, removed, crashed, calls>>

\* ... and jaeger_span_context_destroy destroys it again: clear visits as
\* many buckets as the order says, and only the first is a null pointer.
DestroyAgain(t) ==
  /\ pc[t] = "destroy"
  /\ table[t].order = 0
  /\ Return(t)
  /\ UNCHANGED <<memory, mutex, result, removed, crashed, calls>>

DestroyCrash(t) ==
  /\ pc[t] = "destroy"
  /\ table[t].order > 0
  /\ Crash("null")

\* The owner of a copy destroys it.
DropCopy(t) ==
  /\ pc[t] = "have"
  /\ live' = live \ NodesIn(table[t].buckets)
  /\ node' = Dealloc(node, NodesIn(table[t].buckets))
  /\ table' = [table EXCEPT ![t] = NoTable]
  /\ Return(t)
  /\ UNCHANGED <<mutex, result, removed, crashed, calls>>

\* The context is destroyed when nobody uses it any more.
DestroyBaggage ==
  /\ \A t \in Threads : pc[t] \in {"idle", "have"}
  /\ table[Src].buckets # NoBuckets
  /\ Destroy(Src)
  /\ UNCHANGED <<mutex, pc, op, arg, move, cursor, seen, result, removed,
                 crashed, calls>>

---------------------------------------------------------------------------
Step(t) ==
  \/ RehashFails(t) \/ StartPut(t) \/ RehashEntry(t) \/ RehashBucket(t)
  \/ InsertFails(t) \/ Overwrite(t) \/ Insert(t)
  \/ Find(t) \/ Remove(t)
  \/ Copy(t) \/ CopyFails(t) \/ Visit(t) \/ Advance(t) \/ Refused(t)
  \/ NextBucket(t) \/ ForeachDone(t) \/ InjectDone(t) \/ CopyDone(t)
  \/ SizeAssertFails(t) \/ InjectRace(t)
  \/ CopyCleanup(t) \/ DestroyAgain(t) \/ DestroyCrash(t) \/ DropCopy(t)

Next ==
  /\ crashed = "no"
  /\ \/ \E t \in Threads, k \in Keys, v \in Values : Call(t, "put", k, v)
     \/ \E t \in Threads, o \in {"find", "remove"}, k \in Keys :
          Call(t, o, k, NoValue)
     \/ \E t \in Threads, o \in {"copy", "foreach", "inject"} :
          Call(t, o, AnyKey, NoValue)
     \/ \E t \in Threads : Step(t)
     \/ DestroyBaggage

Spec == Init /\ [][Next]_vars

---------------------------------------------------------------------------
(* Properties *)

NodeType == [key : Keys, value : Values \cup {NoValue},
             next : Nodes \cup {Null}, prev : Nodes \cup {Null}]
List == [head : Nodes \cup {Null}, size : Nat]
Labels == {"idle", "put", "rehash", "insert", "find", "remove", "copy", "scan",
           "next", "have", "cleanup", "destroy"}

\* Every variable has its type; a table has as many buckets as its order says
\* (hashtable.h: the index is the hash modulo 1 << order).
TypeOK ==
  /\ node \in [Nodes -> NodeType]
  /\ live \subseteq Nodes
  /\ \A t \in Tables :
       /\ table[t].size \in Nat /\ table[t].order \in Nat
       /\ \/ table[t].buckets = NoBuckets
          \/ table[t].buckets \in [0 .. BucketCount(table[t].order) - 1 -> List]
  /\ mutex \in Threads \cup {NoThread}
  /\ pc \in [Threads -> Labels]
  /\ op \in [Threads -> Operations \cup {"none"}]
  /\ arg \in [Threads -> [key : Keys, value : Values \cup {NoValue}]]
  /\ removed \in 0 .. MaxCalls
  /\ crashed \in {"no", "assert", "race", "null"}
  /\ calls \in 0 .. MaxCalls

\* The arrays of buckets there are: of the tables, and of rehash.
Buckets == {b \in {table[t].buckets : t \in Tables}
                  \cup {move[t].new : t \in Threads} : b # NoBuckets}

\* jaeger_list_insert and jaeger_list_node_remove keep every bucket a doubly
\* linked list whose size is its length, also in the middle of a rehash
\* (their assertions: the head has no predecessor, an index is in range).
ListsLinked ==
  \A b \in Buckets : \A i \in DOMAIN b :
    LET chain == Chain(node, b[i])
        Prev(j) == IF j = 1 THEN Null ELSE chain[j - 1]
    IN /\ Len(chain) = b[i].size
       /\ \A j \in 1 .. Len(chain) : node[chain[j]].prev = Prev(j)

\* Every allocated node is in one bucket of one table, and nothing in a bucket
\* is freed: a put that fails, a rehash, a copy that is abandoned and destroy
\* leak nothing and free nothing twice.  An iteration under the mutex stands on
\* an allocated node or at the end of a bucket, whatever other threads call.
NodesOwned ==
  LET In(b, i) == Range(Chain(node, b[i]))
  IN /\ live = UNION {NodesIn(b) : b \in Buckets}
     /\ \A b, c \in Buckets : \A i \in DOMAIN b, j \in DOMAIN c :
          (b # c \/ i # j) => In(b, i) \cap In(c, j) = {}
     /\ \A t \in Threads :
          op[t] \in {"copy", "foreach"} => Entry(t) \in live \cup {Null}

\* There are always more buckets than a table's size says it has entries, the
\* threshold of put, and it has no more entries than its size says: as many,
\* also in the middle of a rehash, as long as nothing was removed.
SizeAndLoad ==
  \A t \in Tables : table[t].buckets # NoBuckets =>
    LET moved == UNION {NodesIn(move[u].new) :
                          u \in {u \in Threads : Target(u) = t}}
        entries == Cardinality(NodesIn(table[t].buckets) \cup moved)
    IN /\ table[t].size < BucketCount(table[t].order)
       /\ entries <= table[t].size
       /\ t # Src \/ removed = 0 => table[t].size = entries

\* What the assertion at the end of jaeger_hashtable_copy says: the copy has
\* the size of its source.
CopySizesAgree ==
  \A t \in Threads : op[t] = "copy" /\ ScanEnds(t) => table[t].size = table[Src].size

\* jaeger_hashtable_minimal_order gives a copy all the buckets it needs: none
\* of its puts rehashes, at powers of two and after removals too; and it misses
\* no entry: the assertion that ends it holds if nothing was ever removed.
CopyFits ==
  \A t \in Threads : op[t] = "copy" =>
    /\ pc[t] # "rehash"
    /\ ScanEnds(t) /\ removed = 0 => table[t].size = table[Src].size

---------------------------------------------------------------------------
(* The inductive invariant.  Buckets are in tables and, at NoThread, in the *)
(* array of a rehash; m is the contents of the nodes, A the array and o the *)
(* order at every place.                                                    *)

Places == Tables \cup {NoThread}
Array == [p \in Places |-> IF p # NoThread THEN table[p].buckets
                           ELSE IF mutex = NoThread THEN NoBuckets
                           ELSE move[mutex].new]
Order == [p \in Places |-> IF p = NoThread THEN table[Src].order + 1
                           ELSE table[p].order]

\* s is the doubly linked list.
IsChain(m, list, s) ==
  /\ s \in Seq(Nodes)
  /\ Len(s) = list.size
  /\ list.head = IF Len(s) = 0 THEN Null ELSE s[1]
  /\ \A i \in 1 .. Len(s) :
       /\ m[s[i]].next = IF i = Len(s) THEN Null ELSE s[i + 1]
       /\ m[s[i]].prev = IF i = 1 THEN Null ELSE s[i - 1]
  /\ \A i, j \in 1 .. Len(s) : s[i] = s[j] => i = j

In(m, A, p, i) == Range(Chain(m, A[p][i]))
Home(m, A, p) == UNION {In(m, A, p, i) : i \in DOMAIN A[p]}

\* The allocated nodes L are in linked lists, each in the one of its key.
HeapInv(m, L, A, o) ==
  /\ m \in [Nodes -> NodeType]
  /\ \A p \in Places :
       /\ o[p] \in Nat
       /\ A[p] = NoBuckets \/ A[p] \in [0 .. BucketCount(o[p]) - 1 -> List]
       /\ \A i \in DOMAIN A[p] :
            /\ IsChain(m, A[p][i], Chain(m, A[p][i]))
            /\ \A n \in In(m, A, p, i) :
                 Index(m[n].key, o[p]) = i /\ m[n].value \in Values
  /\ L = UNION {Home(m, A, p) : p \in Places}
  /\ \A p, q \in Places : \A i \in DOMAIN A[p], j \in DOMAIN A[q] :
       p # q \/ i # j => In(m, A, p, i) \cap In(m, A, q, j) = {}

\* The nodes of a table, and each key once.
Held(t) == Home(node, Array, t)
             \cup (IF t = Src THEN Home(node, Array, NoThread) ELSE {})
KeysInv ==
  \A t \in Tables : \A m, n \in Held(t) : node[m].key = node[n].key => m = n

\* The records of the variables that TypeOK leaves out.
IsTable(f) ==
  f \in [Tables -> [size : Nat, order : Nat, buckets : {f[t].buckets : t \in Tables}]]
IsMove(f) ==
  f \in [Threads -> [new : {f[t].new : t \in Threads}, i : Nat,
                     entry : Nodes \cup {Null}]]
RecordInv ==
  /\ IsTable(table) /\ IsMove(move)
  /\ cursor \in [Threads -> [i : Nat, len : Nat, entry : Nodes \cup {Null},
                             all : BOOLEAN]]
  /\ seen \in [Threads -> Seq(Keys \X (Values \cup {NoValue}))]

SizeInv ==
  \A t \in Tables : table[t].buckets # NoBuckets =>
    /\ table[t].size < BucketCount(table[t].order)
    /\ table[t].size = Cardinality(Held(t)) + (IF t = Src THEN removed ELSE 0)
RemovedInv ==
  removed + (IF \E t \in Threads : pc[t] = "remove" THEN 1 ELSE 0) <= calls

\* Where a thread may be in which operation, and when it holds the mutex.
OpInv(t) ==
  /\ CASE pc[t] = "idle" -> op[t] = "none"
       [] pc[t] = "rehash" -> op[t] = "put"
       [] pc[t] \in {"put", "insert"} -> op[t] \in {"put", "copy"}
       [] pc[t] \in {"scan", "next"} -> op[t] \in {"copy", "foreach", "inject"}
       [] pc[t] \in {"find", "remove"} -> op[t] = pc[t]
       [] OTHER -> op[t] = "copy"
  /\ mutex = t <=> pc[t] \notin {"idle", "have", "destroy"} /\ op[t] # "inject"
  /\ op[t] = "put" => arg[t].value \in Values
  /\ op[t] \notin {"foreach", "inject"} => seen[t] = <<>>

\* Which arrays there are, and room for an entry after put's check.
TableInv(t) ==
  /\ table[t].buckets # NoBuckets =>
       op[t] = "copy" /\ pc[t] \notin {"copy", "destroy"}
  /\ op[t] = "copy" /\ pc[t] \notin {"copy", "cleanup", "destroy"} =>
       table[t].buckets # NoBuckets
  /\ pc[t] \notin {"idle", "have"} => table[Src].buckets # NoBuckets
  /\ move[t].new # NoBuckets <=> pc[t] = "rehash"
  /\ pc[t] = "insert" => ~AtThreshold(Mine(t))

\* A rehash takes the first entry of the first bucket that is not empty.
RehashInv(t) ==
  pc[t] = "rehash" =>
    /\ move[t].i < BucketCount(table[Src].order)
    /\ move[t].entry = table[Src].buckets[move[t].i].head
    /\ \A b \in 0 .. move[t].i - 1 : table[Src].buckets[b].head = Null

\* The nodes in the buckets before i and, in bucket i, before the entry.
Passed(m, A, i, entry, done) ==
  LET s == Chain(m, A[Src][i])
  IN (UNION {In(m, A, Src, b) : b \in 0 .. i - 1})
       \cup {s[k] : k \in {k \in DOMAIN s : \A j \in DOMAIN s :
                               s[j] = entry => k < j \/ (done /\ k = j)}}
Done(t) == Passed(node, Array, cursor[t].i, Entry(t), pc[t] = "next")
Pairs(m, S) == {<<m[n].key, m[n].value>> : n \in S}

\* An iteration stays within the buckets, also one without the mutex, and one
\* under the mutex stands on an entry of its bucket or at its end.
Iterating(t) ==
  pc[t] \in {"scan", "next"} \/ (op[t] = "copy" /\ pc[t] \in {"put", "insert"})
CursorInv(t) ==
  Iterating(t) =>
    /\ cursor[t].i < cursor[t].len
    /\ cursor[t].len <= BucketCount(table[Src].order)
    /\ op[t] # "inject" =>
         /\ cursor[t].len = BucketCount(table[Src].order)
         /\ Entry(t) \in In(node, Array, Src, cursor[t].i) \cup {Null}
         /\ pc[t] # "scan" => Entry(t) # Null

\* What an iteration has passed is what the copy holds ...
CopyInv(t) ==
  Iterating(t) /\ op[t] = "copy" =>
    /\ table[Src].size < BucketCount(table[t].order)
    /\ table[t].size = Cardinality(Done(t))
    /\ Pairs(node, Held(t)) = Pairs(node, Done(t))
    /\ pc[t] \in {"put", "insert"} =>
         arg[t] = [key |-> node[Entry(t)].key, value |-> node[Entry(t)].value]

\* ... or the callback saw.
SeenInv(t) ==
  Iterating(t) /\ op[t] = "foreach" =>
    /\ Range(seen[t]) \subseteq Pairs(node, Done(t))
    /\ \A i, j \in DOMAIN seen[t] : seen[t][i] = seen[t][j] => i = j
    /\ cursor[t].all => Pairs(node, Done(t)) \subseteq Range(seen[t])

ThreadInv(t) ==
  /\ OpInv(t) /\ TableInv(t) /\ RehashInv(t)
  /\ CursorInv(t) /\ CopyInv(t) /\ SeenInv(t)

\* What the proofs of the properties rest on: the types; the allocated nodes
\* are in doubly linked lists, each in the bucket of its key; a table has each
\* key once and its size and load are right; and every operation in progress
\* is where hashtable.c can be, with the part of the work done that it has.
IndInv ==
  /\ TypeOK
  /\ RecordInv
  /\ HeapInv(node, live, Array, Order)
  /\ KeysInv /\ SizeInv /\ RemovedInv
  /\ \A t \in Threads : ThreadInv(t)

---------------------------------------------------------------------------
\* The pairs in the baggage; during a rehash some are in the new buckets.
Dict ==
  LET nodes == NodesIn(table[Src].buckets)
                 \cup UNION {NodesIn(move[t].new) :
                               t \in {t \in Threads : op[t] = "put"}}
  IN [k \in Keys |->
        IF \E n \in nodes : node[n].key = k
        THEN node[CHOOSE n \in nodes : node[n].key = k].value ELSE NoValue]

Map == INSTANCE KeyValueMap WITH dict <- Dict

\* The table implements a map: every put, find, remove, copy and iteration
\* under the mutex is one step of KeyValueMap (a copy is the map at one
\* moment, a failed put changes nothing, an iteration passes each pair once),
\* and moving the entries to new buckets cannot be observed.
ImplementsMap == Map!Spec
====
