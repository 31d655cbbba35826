-------------------------- MODULE Hashtable_proofs --------------------------
(***************************************************************************)
(* Proofs about Hashtable for every set of threads, keys, values and       *)
(* addresses, every hash function, initial order and number of calls, and  *)
(* an allocator that fails when it likes: that buckets stay linked lists   *)
(* which own the allocated nodes, that a copy never rehashes, and that the *)
(* table implements the map of KeyValueMap.                                *)
(***************************************************************************)
EXTENDS Hashtable, SequenceLemmas, FiniteSetTheorems

(* Numbers of buckets *)

\* The function that BucketCount computes with.
Shifted(order) ==
  CHOOSE f : f = [i \in 0 .. order |-> IF i = 0 THEN 1 ELSE 2 * f[i - 1]]

\* The recursion has a solution.
LEMMA ShiftedDefined ==
  ASSUME NEW n \in Nat
  PROVE  /\ Shifted(n) = [i \in 0 .. n |-> IF i = 0 THEN 1 ELSE 2 * Shifted(n)[i - 1]]
         /\ BucketCount(n) = Shifted(n)[n]
<1> DEFINE Solves(f, k) == f = [i \in 0 .. k |-> IF i = 0 THEN 1 ELSE 2 * f[i - 1]]
           T == {k \in Nat : \E f : Solves(f, k)}
<1>1. 0 \in T
  <2> DEFINE f == [i \in 0 .. 0 |-> 1]
  <2>1. Solves(f, 0)
    OBVIOUS
  <2> QED
    BY <2>1
<1>2. ASSUME NEW k \in T
      PROVE  k + 1 \in T
  <2>1. k \in Nat /\ \E f : Solves(f, k)
    OBVIOUS
  <2>2. PICK f : Solves(f, k)
    BY <2>1
  <2> DEFINE g == [i \in 0 .. k + 1 |-> IF i <= k THEN f[i] ELSE 2 * f[k]]
  <2>3. \A i \in 0 .. k : f[i] = IF i = 0 THEN 1 ELSE 2 * f[i - 1]
    BY <2>1, <2>2
  <2>4. ASSUME NEW i \in 0 .. k + 1
        PROVE  g[i] = IF i = 0 THEN 1 ELSE 2 * g[i - 1]
    <3>1. CASE i = 0
      BY <2>1, <2>3, <3>1
    <3>2. CASE i # 0 /\ i <= k
      <4>1. i \in 0 .. k /\ i - 1 \in 0 .. k + 1 /\ i - 1 <= k
        BY <2>1, <3>2
      <4>2. g[i] = f[i] /\ g[i - 1] = f[i - 1]
        BY <3>2, <4>1
      <4> QED
        BY <2>3, <3>2, <4>1, <4>2
    <3>3. CASE ~(i <= k)
      <4>1. i = k + 1 /\ i - 1 = k /\ i # 0 /\ i - 1 \in 0 .. k + 1
        BY <2>1, <3>3
      <4>2. g[i] = 2 * f[k] /\ g[i - 1] = f[k]
        BY <3>3, <4>1
      <4> QED
        BY <4>1, <4>2
    <3> QED
      BY <2>1, <3>1, <3>2, <3>3
  <2>5. g = [i \in 0 .. k + 1 |-> IF i = 0 THEN 1 ELSE 2 * g[i - 1]]
    BY <2>4
  <2> HIDE DEF g
  <2>6. \E h : Solves(h, k + 1)
    BY <2>5
  <2> QED
    BY <2>1, <2>6
<1>3. T \in SUBSET Nat
  OBVIOUS
<1>4. n \in T
  <2> HIDE DEF T
  <2> QED
    BY <1>1, <1>2, <1>3, SetInduction
<1>5. \E f : Solves(f, n)
  BY <1>4
<1>6. Solves(Shifted(n), n)
  BY <1>5, Zenon DEF Shifted
<1>7. BucketCount(n) = Shifted(n)[n]
  BY Zenon DEF BucketCount, Shifted
<1> QED
  BY <1>6, <1>7

\* A table of the next order has twice the buckets, and order n more than n.
LEMMA BucketFacts ==
  ASSUME NEW n \in Nat
  PROVE  /\ BucketCount(n) \in Nat
         /\ n < BucketCount(n)
         /\ BucketCount(0) = 1
         /\ BucketCount(n + 1) = 2 * BucketCount(n)
<1>1. ASSUME NEW k \in Nat
      PROVE  /\ DOMAIN Shifted(k) = 0 .. k
             /\ Shifted(k)[0] = 1
             /\ \A i \in 1 .. k : Shifted(k)[i] = 2 * Shifted(k)[i - 1]
  <2> DEFINE f == Shifted(k)
  <2>1. f = [i \in 0 .. k |-> IF i = 0 THEN 1 ELSE 2 * f[i - 1]]
    BY ShiftedDefined
  <2> HIDE DEF f
  <2>2. /\ DOMAIN f = 0 .. k
        /\ f[0] = 1
        /\ \A i \in 1 .. k : f[i] = 2 * f[i - 1]
    BY <2>1
  <2> QED
    BY <2>2 DEF f
<1>2. ASSUME NEW k \in Nat
      PROVE  BucketCount(k + 1) = 2 * BucketCount(k)
  <2> DEFINE T == {i \in Nat : i <= k => Shifted(k + 1)[i] = Shifted(k)[i]}
  <2>1. 0 \in T
    BY <1>1
  <2>2. ASSUME NEW i \in T
        PROVE  i + 1 \in T
    <3>1. CASE i + 1 <= k
      <4>1. i \in Nat /\ i + 1 \in 1 .. k /\ i + 1 \in 1 .. k + 1 /\ (i + 1) - 1 = i
        BY <3>1
      <4>2. Shifted(k + 1)[i] = Shifted(k)[i]
        BY <3>1, <4>1
      <4>3. Shifted(k + 1)[i + 1] = 2 * Shifted(k + 1)[i]
        BY <1>1, <4>1
      <4>4. Shifted(k)[i + 1] = 2 * Shifted(k)[i]
        BY <1>1, <4>1
      <4> QED
        BY <4>1, <4>2, <4>3, <4>4
    <3>2. CASE ~(i + 1 <= k)
      BY <3>2
    <3> QED
      BY <3>1, <3>2
  <2>3. T \in SUBSET Nat
    OBVIOUS
  <2>4. k \in T
    <3> HIDE DEF T
    <3> QED
      BY <2>1, <2>2, <2>3, SetInduction
  <2>5. Shifted(k + 1)[k] = Shifted(k)[k]
    BY <2>4
  <2>6. k + 1 \in 1 .. k + 1 /\ (k + 1) - 1 = k /\ k + 1 \in Nat
    OBVIOUS
  <2>7. Shifted(k + 1)[k + 1] = 2 * Shifted(k + 1)[k]
    BY <1>1, <2>6
  <2>8. BucketCount(k) = Shifted(k)[k] /\ BucketCount(k + 1) = Shifted(k + 1)[k + 1]
    BY <2>6, ShiftedDefined
  <2> QED
    BY <2>5, <2>7, <2>8
<1>3. BucketCount(0) = 1
  BY <1>1, ShiftedDefined
<1> DEFINE T == {k \in Nat : BucketCount(k) \in Nat /\ k < BucketCount(k)}
<1>4. 0 \in T
  BY <1>3
<1>5. ASSUME NEW k \in T
      PROVE  k + 1 \in T
  <2>1. k \in Nat /\ BucketCount(k) \in Nat /\ k < BucketCount(k)
    OBVIOUS
  <2>2. BucketCount(k + 1) = 2 * BucketCount(k)
    BY <1>2, <2>1
  <2>3. BucketCount(k + 1) \in Nat /\ k + 1 < BucketCount(k + 1) /\ k + 1 \in Nat
    BY <2>1, <2>2
  <2> QED
    BY <2>3
<1>6. T \in SUBSET Nat
  OBVIOUS
<1>7. n \in T
  <2> HIDE DEF T
  <2> QED
    BY <1>4, <1>5, <1>6, SetInduction
<1> QED
  BY <1>2, <1>3, <1>7

\* jaeger_hashtable_minimal_order has an answer, and it leaves room.
LEMMA MinimalOrderFits ==
  ASSUME NEW size \in Nat, size # 0
  PROVE  MinimalOrder(size) \in Nat /\ size < BucketCount(MinimalOrder(size))
<1>1. CASE size < InitOrder
  <2>1. InitOrder \in Nat /\ InitOrder < BucketCount(InitOrder)
        /\ BucketCount(InitOrder) \in Nat
    BY OrderAssumption, BucketFacts
  <2> QED
    BY <1>1, <2>1 DEF MinimalOrder
<1>2. CASE ~(size < InitOrder)
  <2> DEFINE B == {k \in Nat : size < BucketCount(k)}
  <2>1. B \in SUBSET Nat /\ size \in B
    BY BucketFacts
  <2> HIDE DEF B
  <2>2. PICK k \in B : \A j \in B : k <= j
    BY <2>1, LeastNumber
  <2>3. k \in Nat /\ size < BucketCount(k) /\ k <= size
    BY <2>1, <2>2 DEF B
  <2>4. k # 0
    BY <2>3, BucketFacts
  <2>5. k - 1 \in Nat /\ k - 1 \notin B
    BY <2>2, <2>3, <2>4
  <2>6. BucketCount(k - 1) <= size
    BY <2>5, BucketFacts DEF B
  <2>7. k \in 1 .. size
    BY <2>3, <2>4
  <2>8. \E order \in 1 .. size : BucketCount(order - 1) <= size /\ size < BucketCount(order)
    BY <2>3, <2>6, <2>7
  <2>9. /\ MinimalOrder(size) \in 1 .. size
        /\ size < BucketCount(MinimalOrder(size))
    BY <1>2, <2>8, Zenon DEF MinimalOrder
  <2> QED
    BY <2>9
<1> QED
  BY <1>1, <1>2

---------------------------------------------------------------------------
(* Chains *)

\* The function that Chain computes with: what follows a node, i nodes far.
Level(m, f, i) ==
  [n \in Nodes \cup {Null} |->
     IF i = 0 \/ n = Null THEN <<>> ELSE <<n>> \o f[i - 1][m[n].next]]
From(m) == CHOOSE f : f = [i \in 0 .. Cardinality(Nodes) |-> Level(m, f, i)]

\* There are finitely many addresses.
LEMMA NodeCount == Cardinality(Nodes) \in Nat
  BY NameAssumption, FS_CardinalityType

\* The recursion has a solution.
LEMMA FromDefined ==
  ASSUME NEW m
  PROVE  /\ \A i \in 0 .. Cardinality(Nodes) : From(m)[i] = Level(m, From(m), i)
         /\ \A l : Chain(m, l) = From(m)[Cardinality(Nodes)][l.head]
<1> DEFINE Solves(f, k) == f = [i \in 0 .. k |-> Level(m, f, i)]
           T == {k \in Nat : \E f : Solves(f, k)}
<1>0. ASSUME NEW f, NEW g, NEW i, i # 0 => f[i - 1] = g[i - 1]
      PROVE  Level(m, f, i) = Level(m, g, i)
  BY <1>0 DEF Level
<1>1. 0 \in T
  <2> DEFINE f == [i \in 0 .. 0 |-> Level(m, <<>>, 0)]
  <2>1. \A i \in 0 .. 0 : f[i] = Level(m, f, i)
    BY <1>0
  <2>2. f = [i \in 0 .. 0 |-> Level(m, f, i)]
    BY <2>1
  <2> HIDE DEF f
  <2> QED
    BY <2>2
<1>2. ASSUME NEW k \in T
      PROVE  k + 1 \in T
  <2>1. k \in Nat /\ \E f : Solves(f, k)
    OBVIOUS
  <2>2. PICK f : Solves(f, k)
    BY <2>1
  <2> DEFINE g == [i \in 0 .. k + 1 |-> IF i <= k THEN f[i] ELSE Level(m, f, i)]
  <2>3. \A i \in 0 .. k : f[i] = Level(m, f, i)
    BY <2>1, <2>2
  <2>4. ASSUME NEW i \in 0 .. k + 1
        PROVE  g[i] = Level(m, g, i)
    <3>1. i # 0 => f[i - 1] = g[i - 1]
      BY <2>1
    <3>2. g[i] = Level(m, f, i)
      BY <2>1, <2>3
    <3> HIDE DEF g
    <3>3. Level(m, f, i) = Level(m, g, i)
      BY <1>0, <3>1
    <3> QED
      BY <3>2, <3>3
  <2>5. g = [i \in 0 .. k + 1 |-> Level(m, g, i)]
    BY <2>4
  <2> HIDE DEF g
  <2>6. \E h : Solves(h, k + 1)
    BY <2>5
  <2> QED
    BY <2>1, <2>6
<1>3. T \in SUBSET Nat
  OBVIOUS
<1> DEFINE N == Cardinality(Nodes)
<1>4. N \in Nat
  BY NodeCount
<1> HIDE DEF N
<1>5. N \in T
  <2> HIDE DEF T
  <2> QED
    BY <1>1, <1>2, <1>3, <1>4, SetInduction
<1>6. \E f : Solves(f, N)
  BY <1>5
<1>7. Solves(From(m), N)
  BY <1>6, Zenon DEF From, N
<1>8. \A i \in 0 .. N : From(m)[i] = Level(m, From(m), i)
  BY <1>7
<1>9. ASSUME NEW l
      PROVE  Chain(m, l) = From(m)[Cardinality(Nodes)][l.head]
  BY Zenon DEF Chain, From, Level
<1> QED
  BY <1>8, <1>9 DEF N

\* A sequence of different nodes is no longer than there are nodes.
LEMMA ChainLength ==
  ASSUME NEW s \in Seq(Nodes), \A i, j \in 1 .. Len(s) : s[i] = s[j] => i = j
  PROVE  Len(s) <= Cardinality(Nodes)
<1>1. Len(s) \in Nat /\ DOMAIN s = 1 .. Len(s) /\ s \in [1 .. Len(s) -> Nodes]
  OBVIOUS
<1>2. s \in Injection(1 .. Len(s), Nodes)
  BY <1>1, Zenon DEF Injection, IsInjective
<1>3. IsFiniteSet(Nodes)
  BY NameAssumption
<1>4. Cardinality(1 .. Len(s)) <= Cardinality(Nodes)
  BY <1>2, <1>3, FS_Injection, Zenon
<1>5. Cardinality(1 .. Len(s)) = Len(s)
  <2>1. 1 \in Int /\ Len(s) \in Int
    BY <1>1
  <2>2. Cardinality(1 .. Len(s)) = IF 1 > Len(s) THEN 0 ELSE Len(s) - 1 + 1
    BY <2>1, FS_Interval
  <2> QED
    BY <1>1, <2>2
<1> QED
  BY <1>4, <1>5

\* Chain finds the linked list there is.
LEMMA ChainIs ==
  ASSUME NEW m, NEW l, NEW s, IsChain(m, l, s)
  PROVE  Chain(m, l) = s
<1> DEFINE N == Cardinality(Nodes)
           At(j) == IF j <= Len(s) THEN s[j] ELSE Null
           Rest(j) == SubSeq(s, j, Len(s))
           T == {k \in Nat : k <= N => \A j \in 1 .. Len(s) + 1 :
                   Len(s) + 1 - j <= k => From(m)[k][At(j)] = Rest(j)}
<1>1. /\ s \in Seq(Nodes) /\ Len(s) \in Nat
      /\ l.head = At(1)
      /\ \A j \in 1 .. Len(s) : s[j] \in Nodes /\ m[s[j]].next = At(j + 1)
  BY DEF IsChain
<1>2. N \in Nat /\ Len(s) <= N
  BY NodeCount, ChainLength DEF IsChain
<1>3. \A j \in 1 .. Len(s) + 1 : At(j) \in Nodes \cup {Null} /\ (At(j) = Null <=> j = Len(s) + 1)
  BY <1>1, NameAssumption
<1>4. Rest(Len(s) + 1) = <<>> /\ Rest(1) = s
  BY <1>1
<1>5. ASSUME NEW j \in 1 .. Len(s)
      PROVE  Rest(j) = <<s[j]>> \o Rest(j + 1)
  <2> DEFINE b == Rest(j + 1)
  <2>1. /\ Rest(j) \in Seq(Nodes) /\ Len(Rest(j)) = Len(s) - j + 1
        /\ \A i \in 1 .. Len(s) - j + 1 : Rest(j)[i] = s[j + i - 1]
    BY <1>1
  <2>2. /\ b \in Seq(Nodes) /\ Len(b) = Len(s) - j
        /\ \A i \in 1 .. Len(s) - j : b[i] = s[j + i]
    BY <1>1
  <2> DEFINE a == Rest(j)
             h == <<s[j]>>
             c == h \o b
  <2>3. h \in Seq(Nodes) /\ Len(h) = 1 /\ h[1] = s[j]
    BY <1>1
  <2> HIDE DEF a, b, h
  <2>4. /\ c \in Seq(Nodes) /\ Len(c) = Len(h) + Len(b)
        /\ \A i \in 1 .. Len(c) : c[i] = IF i <= Len(h) THEN h[i] ELSE b[i - Len(h)]
    BY <2>2, <2>3, ConcatAt
  <2> HIDE DEF c
  <2>5. a \in Seq(Nodes) /\ Len(a) = Len(s) - j + 1 /\ \A i \in 1 .. Len(s) - j + 1 : a[i] = s[j + i - 1]
    BY <2>1 DEF a
  <2>6. Len(c) = Len(a)
    BY <1>1, <2>2, <2>3, <2>4, <2>5
  <2>7. ASSUME NEW i \in 1 .. Len(c)
        PROVE  a[i] = c[i]
    <3>1. CASE i = 1
      BY <1>1, <2>3, <2>4, <2>5, <2>6, <3>1, SMTT(60)
    <3>2. CASE i # 1
      <4>1. i \in 1 .. Len(s) - j + 1 /\ i - 1 \in 1 .. Len(s) - j /\ ~(i <= Len(h))
            /\ j + i - 1 = j + (i - 1)
        BY <1>1, <2>3, <2>5, <2>6, <3>2
      <4>2. c[i] = b[i - 1]
        BY <2>3, <2>4, <4>1
      <4> QED
        BY <2>2, <2>5, <4>1, <4>2
    <3> QED
      BY <3>1, <3>2
  <2>8. a = c
    BY <2>4, <2>5, <2>6, <2>7, SeqEqual
  <2> QED
    BY <2>8 DEF a, b, c, h
<1>6. ASSUME NEW k \in 0 .. N, NEW n \in Nodes \cup {Null}
      PROVE  From(m)[k][n] = IF k = 0 \/ n = Null THEN <<>>
                             ELSE <<n>> \o From(m)[k - 1][m[n].next]
  <2>1. From(m)[k] = Level(m, From(m), k)
    BY FromDefined
  <2>2. Level(m, From(m), k)[n] = IF k = 0 \/ n = Null THEN <<>>
                                  ELSE <<n>> \o From(m)[k - 1][m[n].next]
    BY Zenon DEF Level
  <2> QED
    BY <2>1, <2>2
<1> HIDE DEF N, At, Rest
<1>7. 0 \in T
  <2>1. ASSUME NEW j \in 1 .. Len(s) + 1, Len(s) + 1 - j <= 0
        PROVE  From(m)[0][At(j)] = Rest(j)
    <3>1. j = Len(s) + 1 /\ 0 \in 0 .. N
      BY <1>1, <1>2, <2>1
    <3> QED
      BY <1>3, <1>4, <1>6, <3>1
  <2> QED
    BY <2>1
<1>8. ASSUME NEW k \in T
      PROVE  k + 1 \in T
  <2>1. k \in Nat /\ k + 1 \in Nat
    OBVIOUS
  <2>2. ASSUME k + 1 <= N, NEW j \in 1 .. Len(s) + 1, Len(s) + 1 - j <= k + 1
        PROVE  From(m)[k + 1][At(j)] = Rest(j)
    <3>1. k + 1 \in 0 .. N /\ k <= N /\ (k + 1) - 1 = k /\ k + 1 # 0
      BY <1>2, <2>1, <2>2
    <3>2. CASE j = Len(s) + 1
      BY <1>3, <1>4, <1>6, <3>1, <3>2
    <3>3. CASE j # Len(s) + 1
      <4>1. j \in 1 .. Len(s) /\ j + 1 \in 1 .. Len(s) + 1 /\ Len(s) + 1 - (j + 1) <= k
        BY <1>1, <2>1, <2>2, <3>3
      <4>2. From(m)[k][At(j + 1)] = Rest(j + 1)
        BY <3>1, <4>1
      <4>3. At(j) # Null /\ At(j) = s[j] /\ At(j) \in Nodes \cup {Null}
        BY <1>1, <1>3, <3>3, <4>1 DEF At
      <4>4. From(m)[k + 1][At(j)] = <<At(j)>> \o From(m)[k][m[At(j)].next]
        BY <1>6, <3>1, <4>3
      <4>5. m[At(j)].next = At(j + 1)
        BY <1>1, <4>1, <4>3
      <4> QED
        BY <1>5, <4>1, <4>2, <4>3, <4>4, <4>5
    <3> QED
      BY <3>2, <3>3
  <2> QED
    BY <2>1, <2>2
<1>9. T \in SUBSET Nat
  OBVIOUS
<1>10. N \in T
  <2> HIDE DEF T
  <2> QED
    BY <1>2, <1>7, <1>8, <1>9, SetInduction
<1>11. 1 \in 1 .. Len(s) + 1 /\ Len(s) + 1 - 1 <= N
  BY <1>1, <1>2
<1>12. From(m)[N][At(1)] = Rest(1)
  BY <1>2, <1>10, <1>11
<1>13. Chain(m, l) = From(m)[N][l.head]
  BY FromDefined, SMTT(60) DEF N
<1> QED
  BY <1>1, <1>4, <1>12, <1>13 DEF At

---------------------------------------------------------------------------
(* list.c *)

\* Link changes one next and one prev.
LEMMA LinkFacts ==
  ASSUME NEW m \in [Nodes -> NodeType],
         NEW a \in Nodes \cup {Null}, NEW b \in Nodes \cup {Null}
  PROVE  /\ Link(m, a, b) \in [Nodes -> NodeType]
         /\ \A n \in Nodes :
              /\ Link(m, a, b)[n].key = m[n].key
              /\ Link(m, a, b)[n].value = m[n].value
              /\ Link(m, a, b)[n].next = IF n = a THEN b ELSE m[n].next
              /\ Link(m, a, b)[n].prev = IF n = b THEN a ELSE m[n].prev
BY ZenonT(60) DEF Link, NodeType

\* The places and elements of a linked list.
LEMMA ChainFacts ==
  ASSUME NEW m, NEW l, NEW s, IsChain(m, l, s)
  PROVE  /\ s \in Seq(Nodes) /\ Len(s) \in Nat /\ DOMAIN s = 1 .. Len(s)
         /\ Range(s) \subseteq Nodes
         /\ \A n : n \in Range(s) <=> \E i \in 1 .. Len(s) : s[i] = n
         /\ \A i \in 1 .. Len(s) : s[i] \in Nodes /\ s[i] # Null /\ s[i] \in Range(s)
         /\ l.size = Len(s)
         /\ l.head = Null <=> Range(s) = {}
         /\ l.head # Null => l.head \in Range(s)
<1>1. s \in Seq(Nodes) /\ Len(s) \in Nat /\ DOMAIN s = 1 .. Len(s)
  BY DEF IsChain
<1>2. /\ Range(s) \subseteq Nodes
      /\ \A n : n \in Range(s) <=> \E i \in 1 .. Len(s) : s[i] = n
  BY <1>1, RangeMembers
<1>3. \A i \in 1 .. Len(s) : s[i] \in Nodes /\ s[i] # Null /\ s[i] \in Range(s)
  BY <1>1, <1>2, NameAssumption
<1>4. CASE Len(s) = 0
  BY <1>1, <1>2, <1>3, <1>4 DEF IsChain
<1>5. CASE Len(s) # 0
  <2>1. 1 \in 1 .. Len(s) /\ l.head = s[1]
    BY <1>1, <1>5 DEF IsChain
  <2>2. l.head # Null /\ l.head \in Range(s) /\ Range(s) # {}
    BY <1>3, <2>1
  <2> QED
    BY <1>1, <1>2, <1>3, <2>2 DEF IsChain
<1> QED
  BY <1>4, <1>5

\* A list is untouched when its nodes' pointers are.
LEMMA ChainFrame ==
  ASSUME NEW m, NEW m2, NEW l, NEW s, IsChain(m, l, s),
         \A n \in Range(s) : m2[n].next = m[n].next /\ m2[n].prev = m[n].prev
  PROVE  IsChain(m2, l, s) /\ Chain(m2, l) = s /\ Chain(m, l) = s
<1>1. \A i \in 1 .. Len(s) : s[i] \in Range(s)
  BY ChainFacts
<1>2. IsChain(m2, l, s)
  BY <1>1 DEF IsChain
<1> QED
  BY <1>2, ChainIs

\* The empty list.
LEMMA EmptyChain ==
  ASSUME NEW m
  PROVE  /\ IsChain(m, EmptyList, <<>>) /\ Chain(m, EmptyList) = <<>>
         /\ EmptyList \in List /\ Range(<<>>) = {}
<1>1. IsChain(m, EmptyList, <<>>)
  BY DEF IsChain, EmptyList
<1>2. Range(<<>>) = {}
  BY DEF Range
<1> QED
  BY <1>1, <1>2, ChainIs DEF EmptyList, List

\* jaeger_list_get returns the node at an index.
LEMMA GetFacts ==
  ASSUME NEW m, NEW l, NEW s, IsChain(m, l, s), NEW k \in 0 .. Len(s) - 1
  PROVE  ListGet(m, l, k) = s[k + 1]
<1> DEFINE Solves(f) == f = [i \in 0 .. k |-> IF i = 0 THEN l.head ELSE m[f[i - 1]].next]
           g == [i \in 0 .. k |-> s[i + 1]]
           at == CHOOSE f : Solves(f)
<1>1. Len(s) \in Nat /\ l.size = Len(s) /\ k \in Nat /\ k < Len(s)
  BY ChainFacts
<1>2. Solves(g)
  <2>1. ASSUME NEW i \in 0 .. k
        PROVE  g[i] = IF i = 0 THEN l.head ELSE m[g[i - 1]].next
    <3>1. CASE i = 0
      BY <1>1, <3>1 DEF IsChain
    <3>2. CASE i # 0
      <4>1. i \in 1 .. Len(s) /\ i # Len(s) /\ i - 1 \in 0 .. k /\ (i - 1) + 1 = i
        BY <1>1, <3>2
      <4>2. m[s[i]].next = s[i + 1]
        BY <4>1 DEF IsChain
      <4> QED
        BY <3>2, <4>1, <4>2
    <3> QED
      BY <3>1, <3>2
  <2> QED
    BY <2>1
<1> HIDE DEF g
<1>3. Solves(at)
  BY <1>2, Zenon
<1> HIDE DEF at
<1>4. at[0] = l.head /\ \A i \in 1 .. k : at[i] = m[at[i - 1]].next
  BY <1>1, <1>3
<1>5. g[0] = l.head /\ \A i \in 1 .. k : g[i] = m[g[i - 1]].next
  BY <1>1, <1>2
<1> DEFINE T == {i \in Nat : i <= k => at[i] = g[i]}
<1>6. 0 \in T
  BY <1>4, <1>5
<1>7. ASSUME NEW i \in T
      PROVE  i + 1 \in T
  <2>1. CASE i + 1 <= k
    <3>1. i + 1 \in 1 .. k /\ i <= k /\ (i + 1) - 1 = i
      BY <1>1, <2>1
    <3>2. at[i] = g[i]
      BY <3>1
    <3> QED
      BY <1>4, <1>5, <3>1, <3>2
  <2>2. CASE ~(i + 1 <= k)
    BY <2>2
  <2> QED
    BY <2>1, <2>2
<1>8. T \in SUBSET Nat
  OBVIOUS
<1>9. k \in T
  <2> HIDE DEF T
  <2> QED
    BY <1>1, <1>6, <1>7, <1>8, SetInduction
<1>10. at[k] = s[k + 1]
  BY <1>1, <1>9 DEF g
<1>11. ListGet(m, l, k) = IF k >= l.size THEN Null ELSE at[k]
  BY Zenon DEF ListGet, at
<1> QED
  BY <1>1, <1>10, <1>11

\* jaeger_list_insert at the end appends the element and touches only the
\* element and the list's own nodes.
LEMMA InsertFacts ==
  ASSUME NEW m \in [Nodes -> NodeType], NEW l, NEW s, IsChain(m, l, s),
         NEW e \in Nodes, e \notin Range(s)
  PROVE  LET r == ListInsert(m, l, l.size, e)
         IN /\ r.node \in [Nodes -> NodeType] /\ r.list \in List
            /\ IsChain(r.node, r.list, Append(s, e))
            /\ \A n \in Nodes : r.node[n].key = m[n].key /\ r.node[n].value = m[n].value
            /\ \A n \in Nodes : n \notin Range(s) /\ n # e =>
                 r.node[n].next = m[n].next /\ r.node[n].prev = m[n].prev
<1> DEFINE r == ListInsert(m, l, l.size, e)
           k == Len(s)
           q == Append(s, e)
           last == IF k = 0 THEN Null ELSE s[k]
           first == Link(m, e, Null)
           both == Link(first, last, e)
<1>1. /\ s \in Seq(Nodes) /\ k \in Nat /\ l.size = k
      /\ \A i \in 1 .. k : s[i] \in Nodes /\ s[i] # Null /\ s[i] \in Range(s)
  BY ChainFacts
<1>2. /\ l.head = IF k = 0 THEN Null ELSE s[1]
      /\ \A i \in 1 .. k : /\ m[s[i]].next = IF i = k THEN Null ELSE s[i + 1]
                           /\ m[s[i]].prev = IF i = 1 THEN Null ELSE s[i - 1]
      /\ \A i, j \in 1 .. k : s[i] = s[j] => i = j
  BY DEF IsChain
<1>3. e # Null /\ Null \in Nodes \cup {Null} /\ e \in Nodes \cup {Null}
      /\ last \in Nodes \cup {Null} /\ Null \notin Nodes
  BY <1>1, NameAssumption
<1>4. k # 0 => ListGet(m, l, k - 1) = s[k] /\ m[s[k]].next = Null
  <2>1. k # 0 => k - 1 \in 0 .. Len(s) - 1 /\ (k - 1) + 1 = k /\ k \in 1 .. k
    BY <1>1
  <2> QED
    BY <1>2, <2>1, GetFacts
<1>5. /\ r.node = both
      /\ r.list = [head |-> IF k = 0 THEN e ELSE l.head, size |-> k + 1]
  BY <1>1, <1>2, <1>4 DEF ListInsert
<1> HIDE DEF r
<1>6. /\ first \in [Nodes -> NodeType]
      /\ \A n \in Nodes : /\ first[n].key = m[n].key /\ first[n].value = m[n].value
                          /\ first[n].next = IF n = e THEN Null ELSE m[n].next
                          /\ first[n].prev = m[n].prev
  BY <1>3, LinkFacts
<1> HIDE DEF first
<1>7. /\ both \in [Nodes -> NodeType]
      /\ \A n \in Nodes : /\ both[n].key = m[n].key /\ both[n].value = m[n].value
                          /\ both[n].next = IF n = last THEN e ELSE first[n].next
                          /\ both[n].prev = IF n = e THEN last ELSE m[n].prev
  BY <1>3, <1>6, LinkFacts
<1> HIDE DEF both
<1>8. /\ q \in Seq(Nodes) /\ Len(q) = k + 1 /\ q[k + 1] = e
      /\ \A i \in 1 .. k : q[i] = s[i]
  BY <1>1
<1> HIDE DEF q
<1>9. \A i \in 1 .. k : s[i] # e
  BY <1>1
<1>10. last # e
  BY <1>1, <1>3
<1>11. \A i \in 1 .. k : s[i] = last <=> i = k
  BY <1>1, <1>2
<1>12. IsChain(both, r.list, q)
  <2>1. r.list.head = IF Len(q) = 0 THEN Null ELSE q[1]
    <3>1. CASE k = 0
      BY <1>5, <1>8, <3>1
    <3>2. CASE k # 0
      <4>1. 1 \in 1 .. k
        BY <1>1, <3>2
      <4> QED
        BY <1>1, <1>2, <1>5, <1>8, <3>2, <4>1
    <3> QED
      BY <3>1, <3>2
  <2>2. ASSUME NEW i \in 1 .. Len(q)
        PROVE  /\ both[q[i]].next = IF i = Len(q) THEN Null ELSE q[i + 1]
               /\ both[q[i]].prev = IF i = 1 THEN Null ELSE q[i - 1]
    <3>1. CASE i = k + 1
      <4>1. both[q[i]].next = Null /\ both[q[i]].prev = last
        BY <1>6, <1>7, <1>8, <1>10, <3>1
      <4>2. last = IF i = 1 THEN Null ELSE q[i - 1]
        BY <1>1, <1>8, <3>1
      <4> QED
        BY <1>8, <3>1, <4>1, <4>2
    <3>2. CASE i # k + 1
      <4>1. i \in 1 .. k /\ q[i] = s[i] /\ i # Len(q) /\ (i # 1 => i - 1 \in 1 .. k)
        BY <1>1, <1>8, <3>2
      <4>2. both[s[i]].prev = IF i = 1 THEN Null ELSE s[i - 1]
        BY <1>1, <1>2, <1>7, <1>9, <4>1
      <4>3. both[s[i]].next = IF i = k THEN e ELSE s[i + 1]
        BY <1>1, <1>2, <1>6, <1>7, <1>9, <1>11, <4>1
      <4>4. i # k => i + 1 \in 1 .. k
        BY <1>1, <4>1
      <4> QED
        BY <1>8, <4>1, <4>2, <4>3, <4>4
    <3> QED
      BY <3>1, <3>2
  <2>3. ASSUME NEW i \in 1 .. Len(q), NEW j \in 1 .. Len(q), q[i] = q[j]
        PROVE  i = j
    <3>1. \A x \in 1 .. Len(q) : x \in 1 .. k \/ x = k + 1
      BY <1>1, <1>8
    <3> QED
      BY <1>2, <1>8, <1>9, <2>3, <3>1
  <2>4. Len(q) = r.list.size
    BY <1>5, <1>8
  <2> QED
    BY <1>8, <2>1, <2>2, <2>3, <2>4 DEF IsChain
<1>13. r.list \in List
  <2>1. l.head \in Nodes \cup {Null}
    BY <1>1, <1>2
  <2> QED
    BY <1>1, <1>5, <2>1 DEF List
<1>14. \A n \in Nodes : n \notin Range(s) /\ n # e =>
         both[n].next = m[n].next /\ both[n].prev = m[n].prev
  <2>1. ASSUME NEW n \in Nodes, n \notin Range(s), n # e
        PROVE  n # last
    BY <1>1, <1>3, <2>1
  <2> QED
    BY <1>6, <1>7, <2>1
<1> QED
  BY <1>5, <1>7, <1>12, <1>13, <1>14 DEF q, r

\* A sequence without its k-th element.
Without(s, k) == [j \in 1 .. Len(s) - 1 |-> IF j < k THEN s[j] ELSE s[j + 1]]

\* What is left when one of different elements is taken out.
LEMMA WithoutFacts ==
  ASSUME NEW S, NEW s \in Seq(S), NEW k \in 1 .. Len(s),
         \A i, j \in 1 .. Len(s) : s[i] = s[j] => i = j
  PROVE  /\ Without(s, k) \in Seq(S) /\ Len(Without(s, k)) = Len(s) - 1
         /\ \A j \in 1 .. Len(s) - 1 :
              Without(s, k)[j] = IF j < k THEN s[j] ELSE s[j + 1]
         /\ Range(Without(s, k)) = Range(s) \ {s[k]}
<1> DEFINE q == Without(s, k)
<1>1. Len(s) \in Nat /\ \A i \in 1 .. Len(s) : s[i] \in S
  OBVIOUS
<1>2. \A j \in 1 .. Len(s) - 1 : j \in 1 .. Len(s) /\ j + 1 \in 1 .. Len(s)
  BY <1>1
<1>3. q \in [1 .. Len(s) - 1 -> S]
  BY <1>1, <1>2 DEF Without
<1>4. Len(s) - 1 \in Nat
  BY <1>1
<1>5. q \in Seq(S) /\ Len(q) = Len(s) - 1
  BY <1>3, <1>4
<1>6. \A j \in 1 .. Len(s) - 1 : q[j] = IF j < k THEN s[j] ELSE s[j + 1]
  BY DEF Without
<1> HIDE DEF q
<1>7. \A x : x \in Range(q) <=> \E j \in 1 .. Len(q) : q[j] = x
  BY <1>5, RangeMembers
<1>8. \A x : x \in Range(s) <=> \E j \in 1 .. Len(s) : s[j] = x
  BY RangeMembers
<1>9. ASSUME NEW j \in 1 .. Len(q)
      PROVE  q[j] \in Range(s) /\ q[j] # s[k]
  <2>1. j \in 1 .. Len(s) - 1
    BY <1>5
  <2>2. CASE j < k
    BY <1>2, <1>6, <1>8, <2>1, <2>2, SMTT(60)
  <2>3. CASE ~(j < k)
    <3>1. j + 1 \in 1 .. Len(s) /\ j + 1 # k /\ q[j] = s[j + 1]
      BY <1>2, <1>6, <2>1, <2>3
    <3> QED
      BY <1>8, <3>1
  <2> QED
    BY <2>2, <2>3
<1>10. ASSUME NEW j \in 1 .. Len(s), j # k
       PROVE  s[j] \in Range(q)
  <2>1. CASE j < k
    <3>1. j \in 1 .. Len(s) - 1 /\ j \in 1 .. Len(q)
      BY <1>1, <1>5, <2>1
    <3> QED
      BY <1>6, <1>7, <2>1, <3>1
  <2>2. CASE ~(j < k)
    <3>1. j - 1 \in 1 .. Len(s) - 1 /\ j - 1 \in 1 .. Len(q) /\ ~(j - 1 < k) /\ (j - 1) + 1 = j
      BY <1>1, <1>5, <1>10, <2>2
    <3>2. q[j - 1] = s[j]
      BY <1>6, <3>1
    <3> QED
      BY <1>7, <3>1, <3>2
  <2> QED
    BY <2>1, <2>2
<1>11. Range(q) = Range(s) \ {s[k]}
  BY <1>7, <1>8, <1>9, <1>10
<1> QED
  BY <1>5, <1>6, <1>11 DEF q

\* jaeger_list_node_remove takes a node out and touches only the list's nodes.
LEMMA RemoveFacts ==
  ASSUME NEW m \in [Nodes -> NodeType], NEW l, NEW s, IsChain(m, l, s),
         NEW k \in 1 .. Len(s)
  PROVE  LET r == ListNodeRemove(m, l, s[k])
         IN /\ r.node \in [Nodes -> NodeType] /\ r.list \in List
            /\ IsChain(r.node, r.list, Without(s, k))
            /\ \A n \in Nodes : r.node[n].key = m[n].key /\ r.node[n].value = m[n].value
            /\ \A n \in Nodes : n \notin Range(s) =>
                 r.node[n].next = m[n].next /\ r.node[n].prev = m[n].prev
<1> DEFINE e == s[k]
           r == ListNodeRemove(m, l, e)
           c == Len(s)
           q == Without(s, k)
           prev == IF k = 1 THEN Null ELSE s[k - 1]
           next == IF k = c THEN Null ELSE s[k + 1]
           m1 == Link(m, prev, next)
           m2 == Link(m1, e, Null)
           m3 == Link(m2, Null, e)
<1>1. /\ s \in Seq(Nodes) /\ c \in Nat /\ l.size = c
      /\ \A i \in 1 .. c : s[i] \in Nodes /\ s[i] # Null /\ s[i] \in Range(s)
  BY ChainFacts
<1>2. /\ l.head = IF c = 0 THEN Null ELSE s[1]
      /\ \A i \in 1 .. c : /\ m[s[i]].next = IF i = c THEN Null ELSE s[i + 1]
                           /\ m[s[i]].prev = IF i = 1 THEN Null ELSE s[i - 1]
      /\ \A i, j \in 1 .. c : s[i] = s[j] => i = j
  BY DEF IsChain
<1>3. /\ q \in Seq(Nodes) /\ Len(q) = c - 1 /\ Range(q) = Range(s) \ {s[k]}
      /\ \A j \in 1 .. c - 1 : q[j] = IF j < k THEN s[j] ELSE s[j + 1]
  <2>1. \A i, j \in 1 .. Len(s) : s[i] = s[j] => i = j
    BY <1>2
  <2>2. s \in Seq(Nodes) /\ k \in 1 .. Len(s)
    BY <1>1
  <2>3. /\ Without(s, k) \in Seq(Nodes) /\ Len(Without(s, k)) = Len(s) - 1
        /\ \A j \in 1 .. Len(s) - 1 :
             Without(s, k)[j] = IF j < k THEN s[j] ELSE s[j + 1]
        /\ Range(Without(s, k)) = Range(s) \ {s[k]}
    <3> HIDE DEF e, r, c, q, prev, next, m1, m2, m3
    <3> QED
      BY <2>1, <2>2, WithoutFacts
  <2> QED
    BY <2>3
<1> HIDE DEF q
<1>4. /\ (k # 1 => k - 1 \in 1 .. c) /\ (k # c => k + 1 \in 1 .. c)
      /\ k \in 1 .. c /\ c >= 1 /\ 1 \in 1 .. c
  BY <1>1
<1>5. /\ e \in Nodes /\ e # Null /\ Null \notin Nodes
      /\ prev \in Nodes \cup {Null} /\ next \in Nodes \cup {Null}
      /\ prev # e /\ next # e /\ (prev = next => prev = Null)
  <2>1. k # 1 => s[k - 1] # s[k] /\ s[k - 1] \in Nodes
    BY <1>1, <1>2, <1>4
  <2>2. k # c => s[k + 1] # s[k] /\ s[k + 1] \in Nodes
    BY <1>1, <1>2, <1>4
  <2>3. k # 1 /\ k # c => s[k - 1] # s[k + 1]
    BY <1>1, <1>2, <1>4
  <2>4. e \in Nodes /\ Null \notin Nodes
    BY <1>1, <1>4, NameAssumption
  <2> QED
    BY <2>1, <2>2, <2>3, <2>4
<1>6. m[e].prev = prev /\ m[e].next = next
  BY <1>2, <1>4
<1>7. r.node = m3 /\ r.list = [head |-> IF l.head = e THEN next ELSE l.head, size |-> c - 1]
  BY <1>1, <1>6 DEF ListNodeRemove
<1> HIDE DEF r
<1>8. /\ m1 \in [Nodes -> NodeType]
      /\ \A n \in Nodes : /\ m1[n].key = m[n].key /\ m1[n].value = m[n].value
                          /\ m1[n].next = IF n = prev THEN next ELSE m[n].next
                          /\ m1[n].prev = IF n = next THEN prev ELSE m[n].prev
  BY <1>5, LinkFacts
<1> HIDE DEF m1
<1>9. /\ m2 \in [Nodes -> NodeType]
      /\ \A n \in Nodes : /\ m2[n].key = m1[n].key /\ m2[n].value = m1[n].value
                          /\ m2[n].next = IF n = e THEN Null ELSE m1[n].next
                          /\ m2[n].prev = m1[n].prev
  BY <1>5, <1>8, LinkFacts
<1> HIDE DEF m2
<1>10. /\ m3 \in [Nodes -> NodeType]
       /\ \A n \in Nodes : /\ m3[n].key = m2[n].key /\ m3[n].value = m2[n].value
                           /\ m3[n].next = m2[n].next
                           /\ m3[n].prev = IF n = e THEN Null ELSE m2[n].prev
  BY <1>5, <1>9, LinkFacts
<1> HIDE DEF m3
<1>11. \A n \in Nodes :
         /\ m3[n].key = m[n].key /\ m3[n].value = m[n].value
         /\ n # e => /\ m3[n].next = IF n = prev THEN next ELSE m[n].next
                     /\ m3[n].prev = IF n = next THEN prev ELSE m[n].prev
  BY <1>8, <1>9, <1>10
<1>12. ASSUME NEW i \in 1 .. c
       PROVE  /\ s[i] = prev <=> i = k - 1
              /\ s[i] = next <=> i = k + 1
  BY <1>1, <1>2, <1>4
<1>13. IsChain(m3, r.list, q)
  <2>1. r.list.head = IF Len(q) = 0 THEN Null ELSE q[1]
    <3>1. CASE k = 1
      <4>1. r.list.head = next
        BY <1>1, <1>2, <1>4, <1>7, <3>1
      <4> QED
        BY <1>1, <1>3, <1>4, <3>1, <4>1
    <3>2. CASE k # 1
      <4>1. l.head = s[1] /\ s[1] # e
        BY <1>2, <1>4, <3>2
      <4>2. 1 \in 1 .. c - 1 /\ 1 < k
        BY <1>1, <1>4, <3>2
      <4> QED
        BY <1>3, <1>7, <4>1, <4>2
    <3> QED
      BY <3>1, <3>2
  <2>2. ASSUME NEW i \in 1 .. Len(q)
        PROVE  /\ m3[q[i]].next = IF i = Len(q) THEN Null ELSE q[i + 1]
               /\ m3[q[i]].prev = IF i = 1 THEN Null ELSE q[i - 1]
    <3>1. i \in 1 .. c - 1 /\ (i # Len(q) => i + 1 \in 1 .. c - 1)
          /\ (i # 1 => i - 1 \in 1 .. c - 1) /\ i \in 1 .. c /\ i + 1 \in 1 .. c
      BY <1>1, <1>3
    <3>2. CASE i < k
      <4>1. q[i] = s[i] /\ s[i] \in Nodes /\ s[i] # e
        BY <1>1, <1>2, <1>3, <1>4, <3>1, <3>2
      <4>2. m3[s[i]].prev = IF i = 1 THEN Null ELSE s[i - 1]
        <5>1. s[i] # next
          BY <1>12, <3>1, <3>2
        <5> QED
          BY <1>2, <1>11, <3>1, <4>1, <5>1
      <4>3. i # 1 => q[i - 1] = s[i - 1]
        BY <1>3, <3>1, <3>2
      <4>4. CASE i = k - 1
        <5>1. m3[s[i]].next = next
          BY <1>11, <1>12, <3>1, <4>1, <4>4
        <5>2. i # Len(q) => q[i + 1] = s[i + 2] /\ i + 2 = k + 1 /\ k # c
          BY <1>1, <1>3, <1>4, <3>1, <4>4
        <5>3. i = Len(q) => k = c
          BY <1>1, <1>3, <4>4
        <5> QED
          BY <4>1, <4>2, <4>3, <5>1, <5>2, <5>3
      <4>5. CASE i # k - 1
        <5>1. m3[s[i]].next = s[i + 1]
          <6>1. s[i] # prev /\ i # c
            BY <1>1, <1>12, <3>1, <4>5
          <6> QED
            BY <1>2, <1>11, <3>1, <4>1, <6>1
        <5>2. i # Len(q) /\ i + 1 < k
          BY <1>1, <1>3, <1>4, <3>1, <3>2, <4>5
        <5>3. q[i + 1] = s[i + 1]
          BY <1>3, <3>1, <5>2
        <5> QED
          BY <4>1, <4>2, <4>3, <5>1, <5>2, <5>3
      <4> QED
        BY <4>4, <4>5
    <3>3. CASE ~(i < k)
      <4>1. /\ q[i] = s[i + 1] /\ s[i + 1] \in Nodes /\ s[i + 1] # e
            /\ i + 1 # k - 1 /\ (i + 1) - 1 = i /\ i + 1 # 1 /\ (i + 1) + 1 = i + 2
        BY <1>1, <1>2, <1>3, <1>4, <3>1, <3>3
      <4>2. m3[s[i + 1]].next = IF i + 1 = c THEN Null ELSE s[i + 2]
        <5>1. s[i + 1] # prev
          BY <1>12, <3>1, <4>1
        <5>2. m[s[i + 1]].next = IF i + 1 = c THEN Null ELSE s[i + 2]
          BY <1>2, <3>1, <4>1
        <5> QED
          BY <1>11, <4>1, <5>1, <5>2
      <4>3. i # Len(q) => q[i + 1] = s[i + 2] /\ i + 1 # c
        BY <1>1, <1>3, <3>1, <3>3
      <4>4. i = Len(q) => i + 1 = c
        BY <1>1, <1>3
      <4>5. CASE i = k
        <5>1. m3[s[i + 1]].prev = prev
          BY <1>11, <1>12, <3>1, <4>1, <4>5
        <5>2. i # 1 => q[i - 1] = s[i - 1]
          BY <1>3, <3>1, <4>5
        <5> QED
          BY <4>1, <4>2, <4>3, <4>4, <4>5, <5>1, <5>2
      <4>6. CASE i # k
        <5>1. m3[s[i + 1]].prev = s[i]
          <6>1. s[i + 1] # next
            BY <1>12, <3>1, <4>6
          <6> QED
            BY <1>2, <1>11, <3>1, <4>1, <6>1, SMTT(60)
        <5>2. i # 1 /\ ~(i - 1 < k) /\ (i - 1) + 1 = i
          BY <1>4, <3>1, <3>3, <4>6
        <5>3. q[i - 1] = s[i]
          BY <1>3, <3>1, <5>2
        <5> QED
          BY <4>1, <4>2, <4>3, <4>4, <5>1, <5>2, <5>3
      <4> QED
        BY <4>5, <4>6
    <3> QED
      BY <3>2, <3>3
  <2>3. ASSUME NEW i \in 1 .. Len(q), NEW j \in 1 .. Len(q), q[i] = q[j]
        PROVE  i = j
    <3>1. /\ i \in 1 .. c - 1 /\ j \in 1 .. c - 1 /\ i \in 1 .. c /\ j \in 1 .. c
          /\ i + 1 \in 1 .. c /\ j + 1 \in 1 .. c
      BY <1>1, <1>3
    <3> DEFINE x == IF i < k THEN i ELSE i + 1
               y == IF j < k THEN j ELSE j + 1
    <3>2. s[x] = s[y] /\ x \in 1 .. c /\ y \in 1 .. c
      BY <1>3, <2>3, <3>1
    <3>3. x = y
      BY <1>2, <3>2
    <3> QED
      BY <3>1, <3>3
  <2>4. Len(q) = r.list.size
    BY <1>3, <1>7
  <2> QED
    BY <1>3, <2>1, <2>2, <2>3, <2>4 DEF IsChain
<1>14. r.list \in List
  <2>1. l.head \in Nodes \cup {Null} /\ c - 1 \in Nat
    BY <1>1, <1>2, <1>4
  <2> QED
    BY <1>5, <1>7, <2>1 DEF List
<1>15. ASSUME NEW n \in Nodes, n \notin Range(s)
       PROVE  m3[n].next = m[n].next /\ m3[n].prev = m[n].prev
  <2>1. n # e /\ n # prev /\ n # next
    BY <1>1, <1>4, <1>5, <1>15
  <2> QED
    BY <1>11, <2>1
<1> QED
  BY <1>7, <1>10, <1>11, <1>13, <1>14, <1>15 DEF q, r

---------------------------------------------------------------------------
(* The heap: lists in arrays at places *)

\* The invariant of the heap, node by node.
Linked(m, A) ==
  \A p \in Places : \A i \in DOMAIN A[p] : IsChain(m, A[p][i], Chain(m, A[p][i]))
Sorted(m, A, o) ==
  \A p \in Places : \A i \in DOMAIN A[p] : \A n \in In(m, A, p, i) :
    Index(m[n].key, o[p]) = i /\ m[n].value \in Values
Sized(A, o) ==
  \A p \in Places :
    o[p] \in Nat /\ (A[p] = NoBuckets \/ A[p] \in [0 .. BucketCount(o[p]) - 1 -> List])
Allocated(m, L, A) ==
  \A n : n \in L <=> \E p \in Places : \E i \in DOMAIN A[p] : n \in In(m, A, p, i)
Apart(m, A) ==
  \A p, q \in Places : \A i \in DOMAIN A[p], j \in DOMAIN A[q] :
    \A n : n \in In(m, A, p, i) /\ n \in In(m, A, q, j) => p = q /\ i = j

\* The two forms are the same.
LEMMA HeapForm ==
  ASSUME NEW m, NEW L, NEW A, NEW o
  PROVE  HeapInv(m, L, A, o) <=>
           /\ m \in [Nodes -> NodeType]
           /\ Linked(m, A) /\ Sorted(m, A, o) /\ Sized(A, o)
           /\ Allocated(m, L, A) /\ Apart(m, A)
<1>1. Allocated(m, L, A) <=> L = UNION {Home(m, A, p) : p \in Places}
  <2>1. \A n : n \in UNION {Home(m, A, p) : p \in Places}
                 <=> \E p \in Places : n \in Home(m, A, p)
    BY Zenon
  <2>2. ASSUME NEW p
        PROVE  \A n : n \in Home(m, A, p) <=> \E i \in DOMAIN A[p] : n \in In(m, A, p, i)
    BY Zenon DEF Home
  <2>3. \A n : n \in UNION {Home(m, A, p) : p \in Places}
                 <=> \E p \in Places : \E i \in DOMAIN A[p] : n \in In(m, A, p, i)
    BY <2>1, <2>2, Zenon
  <2> QED
    BY <2>3, Zenon DEF Allocated
<1>2. ASSUME NEW p, NEW q, NEW i, NEW j
      PROVE  (p # q \/ i # j => In(m, A, p, i) \cap In(m, A, q, j) = {})
             <=> \A n : n \in In(m, A, p, i) /\ n \in In(m, A, q, j) => p = q /\ i = j
  OBVIOUS
<1>3. Apart(m, A) <=> \A p, q \in Places : \A i \in DOMAIN A[p], j \in DOMAIN A[q] :
                        p # q \/ i # j => In(m, A, p, i) \cap In(m, A, q, j) = {}
  BY <1>2, ZenonT(60) DEF Apart
<1> DEFINE Rest == /\ m \in [Nodes -> NodeType]
                   /\ Linked(m, A) /\ Sorted(m, A, o) /\ Sized(A, o)
<1>4. HeapInv(m, L, A, o) => Rest
  BY Zenon DEF HeapInv, Linked, Sorted, Sized
<1>5. HeapInv(m, L, A, o) => Allocated(m, L, A) /\ Apart(m, A)
  BY <1>1, <1>3, Zenon DEF HeapInv
<1>6. Rest /\ Allocated(m, L, A) /\ Apart(m, A) => HeapInv(m, L, A, o)
  BY <1>1, <1>3, Zenon DEF HeapInv, Linked, Sorted, Sized
<1> QED
  BY <1>4, <1>5, <1>6, Zenon

\* What is known of the nodes in a bucket, of a place and of the allocated.
LEMMA HeapFacts ==
  ASSUME NEW m, NEW L, NEW A, NEW o, HeapInv(m, L, A, o)
  PROVE  /\ m \in [Nodes -> NodeType]
         /\ L \subseteq Nodes
         /\ \A p \in Places :
              /\ o[p] \in Nat
              /\ A[p] = NoBuckets => DOMAIN A[p] = {}
              /\ A[p] # NoBuckets => /\ A[p] \in [0 .. BucketCount(o[p]) - 1 -> List]
                                     /\ DOMAIN A[p] = 0 .. BucketCount(o[p]) - 1
                                     /\ 0 \in DOMAIN A[p]
              /\ \A n : n \in Home(m, A, p) <=>
                          \E i \in DOMAIN A[p] : n \in In(m, A, p, i)
              /\ Home(m, A, p) \subseteq L
         /\ \A p \in Places : \A i \in DOMAIN A[p] :
              /\ IsChain(m, A[p][i], Chain(m, A[p][i]))
              /\ In(m, A, p, i) \subseteq Home(m, A, p)
         /\ \A p \in Places : \A i \in DOMAIN A[p] : \A n \in In(m, A, p, i) :
              /\ n \in L /\ n \in Nodes
              /\ Index(m[n].key, o[p]) = i
              /\ m[n].value \in Values
         /\ \A n : n \in L => \E p \in Places : n \in Home(m, A, p)
         /\ \A p, q \in Places : \A i \in DOMAIN A[p], j \in DOMAIN A[q] :
              \A n : n \in In(m, A, p, i) /\ n \in In(m, A, q, j) => p = q /\ i = j
         /\ \A p, q \in Places : \A n :
              n \in Home(m, A, p) /\ n \in Home(m, A, q) => p = q
<1>1. /\ m \in [Nodes -> NodeType]
      /\ Linked(m, A) /\ Sorted(m, A, o) /\ Sized(A, o)
      /\ Allocated(m, L, A) /\ Apart(m, A)
  BY HeapForm
<1>2. ASSUME NEW p
      PROVE  \A n : n \in Home(m, A, p) <=> \E i \in DOMAIN A[p] : n \in In(m, A, p, i)
  BY Zenon DEF Home
<1>3. ASSUME NEW p \in Places
      PROVE  /\ o[p] \in Nat
             /\ A[p] = NoBuckets => DOMAIN A[p] = {}
             /\ A[p] # NoBuckets => /\ A[p] \in [0 .. BucketCount(o[p]) - 1 -> List]
                                    /\ DOMAIN A[p] = 0 .. BucketCount(o[p]) - 1
                                    /\ 0 \in DOMAIN A[p]
  <2>1. o[p] \in Nat /\ (A[p] # NoBuckets => A[p] \in [0 .. BucketCount(o[p]) - 1 -> List])
    BY <1>1, Zenon DEF Sized
  <2>2. BucketCount(o[p]) \in Nat /\ 0 < BucketCount(o[p])
    <3> DEFINE k == o[p]
    <3>1. k \in Nat
      BY <2>1
    <3> HIDE DEF k
    <3>2. BucketCount(k) \in Nat /\ k < BucketCount(k)
      BY <3>1, BucketFacts
    <3>3. 0 < BucketCount(k)
      BY <3>1, <3>2
    <3> QED
      BY <3>2, <3>3 DEF k
  <2>3. A[p] = NoBuckets => DOMAIN A[p] = {}
    BY DEF NoBuckets
  <2> QED
    BY <2>1, <2>2, <2>3
<1>4. ASSUME NEW p \in Places, NEW i \in DOMAIN A[p]
      PROVE  /\ IsChain(m, A[p][i], Chain(m, A[p][i]))
             /\ In(m, A, p, i) \subseteq Nodes
  <2>1. IsChain(m, A[p][i], Chain(m, A[p][i]))
    BY <1>1, Zenon DEF Linked
  <2> QED
    BY <2>1, ChainFacts DEF In
<1>5. L \subseteq Nodes
  BY <1>1, <1>4, Zenon DEF Allocated
<1>6. \A p \in Places : \A i \in DOMAIN A[p] : \A n \in In(m, A, p, i) :
        /\ n \in L /\ n \in Nodes
        /\ Index(m[n].key, o[p]) = i
        /\ m[n].value \in Values
  BY <1>1, <1>4, Zenon DEF Allocated, Sorted
<1>7. \A p, q \in Places : \A i \in DOMAIN A[p], j \in DOMAIN A[q] :
        \A n : n \in In(m, A, p, i) /\ n \in In(m, A, q, j) => p = q /\ i = j
  BY <1>1, Zenon DEF Apart
<1>8. \A p \in Places : Home(m, A, p) \subseteq L
  BY <1>2, <1>6, Zenon
<1>9. \A n : n \in L => \E p \in Places : n \in Home(m, A, p)
  BY <1>1, <1>2, Zenon DEF Allocated
<1>10. \A p, q \in Places : \A n :
         n \in Home(m, A, p) /\ n \in Home(m, A, q) => p = q
  BY <1>2, <1>7
<1>11. \A p \in Places : \A i \in DOMAIN A[p] : In(m, A, p, i) \subseteq Home(m, A, p)
  BY <1>2, Zenon
<1>12. \A p \in Places : \A n : n \in Home(m, A, p) <=>
                          \E i \in DOMAIN A[p] : n \in In(m, A, p, i)
  BY <1>2, Zenon
<1> QED
  BY <1>1, <1>3, <1>4, <1>5, <1>6, <1>7, <1>8, <1>9, <1>10, <1>11, <1>12, Zenon

\* The node of a bucket.
LEMMA InFacts ==
  ASSUME NEW m, NEW L, NEW A, NEW o, HeapInv(m, L, A, o),
         NEW p \in Places, NEW i \in DOMAIN A[p], NEW n \in In(m, A, p, i)
  PROVE  /\ n \in L /\ n \in Nodes /\ n \in Home(m, A, p)
         /\ Index(m[n].key, o[p]) = i
         /\ m[n].value \in Values
BY HeapFacts

\* A node is in one bucket.
LEMMA InOnce ==
  ASSUME NEW m, NEW L, NEW A, NEW o, HeapInv(m, L, A, o),
         NEW p \in Places, NEW i \in DOMAIN A[p], NEW n \in In(m, A, p, i),
         NEW q \in Places, NEW j \in DOMAIN A[q], n \in In(m, A, q, j)
  PROVE  p = q /\ i = j
BY HeapFacts

\* What a place holds is in its buckets.
LEMMA HomeFacts ==
  ASSUME NEW m, NEW A, NEW p
  PROVE  \A n : n \in Home(m, A, p) <=> \E j \in DOMAIN A[p] : n \in In(m, A, p, j)
BY Zenon DEF Home

\* A list whose nodes keep their pointers is what it was.
LEMMA KeptList ==
  ASSUME NEW m, NEW m2, NEW l, IsChain(m, l, Chain(m, l)),
         \A n \in Range(Chain(m, l)) : m2[n].next = m[n].next /\ m2[n].prev = m[n].prev
  PROVE  Chain(m2, l) = Chain(m, l) /\ IsChain(m2, l, Chain(m2, l))
BY ChainFrame

\* In one bucket the list becomes l, with the nodes s; what else is in buckets
\* keeps its contents.
Updates(m, L, A, o, p, i, m2, A2, l, s) ==
  /\ HeapInv(m, L, A, o) /\ p \in Places /\ i \in DOMAIN A[p]
  /\ m2 \in [Nodes -> NodeType] /\ l \in List /\ IsChain(m2, l, s)
  /\ \A n \in L : n \notin In(m, A, p, i) =>
       /\ m2[n].next = m[n].next /\ m2[n].prev = m[n].prev
       /\ m2[n].key = m[n].key /\ m2[n].value = m[n].value
       /\ n \notin Range(s)
  /\ \A n \in Range(s) : Index(m2[n].key, o[p]) = i /\ m2[n].value \in Values
  /\ \A q \in Places : A2[q] = IF q = p THEN [A[p] EXCEPT ![i] = l] ELSE A[q]

\* What follows.
Updated(m, L, A, p, i, m2, A2, o, l, s) ==
  /\ HeapInv(m2, (L \ In(m, A, p, i)) \cup Range(s), A2, o)
  /\ \A q \in Places : DOMAIN A2[q] = DOMAIN A[q] /\ (A2[q] = NoBuckets <=> A[q] = NoBuckets)
  /\ \A q \in Places : \A j \in DOMAIN A[q] :
       q # p \/ j # i => /\ A2[q][j] = A[q][j]
                         /\ Chain(m2, A2[q][j]) = Chain(m, A[q][j])
  /\ Chain(m2, A2[p][i]) = s /\ In(m2, A2, p, i) = Range(s)
  /\ A2[p][i] = l
  /\ Home(m2, A2, p) = (Home(m, A, p) \ In(m, A, p, i)) \cup Range(s)
  /\ \A q \in Places : q # p => Home(m2, A2, q) = Home(m, A, q)

\* One bucket changes: what is in it and the pointers of what is not stay apart.
LEMMA HeapUpdate ==
  ASSUME NEW m, NEW L, NEW A, NEW o, NEW p, NEW i, NEW m2, NEW A2, NEW l, NEW s,
         Updates(m, L, A, o, p, i, m2, A2, l, s)
  PROVE  Updated(m, L, A, p, i, m2, A2, o, l, s)
<1> HeapInv(m, L, A, o) /\ p \in Places /\ i \in DOMAIN A[p]
  BY DEF Updates
<1> m2 \in [Nodes -> NodeType] /\ l \in List /\ IsChain(m2, l, s)
  BY Zenon DEF Updates
<1> \A n \in L : n \notin In(m, A, p, i) =>
      /\ m2[n].next = m[n].next /\ m2[n].prev = m[n].prev
      /\ m2[n].key = m[n].key /\ m2[n].value = m[n].value
      /\ n \notin Range(s)
  BY Zenon DEF Updates
<1> \A n \in Range(s) : Index(m2[n].key, o[p]) = i /\ m2[n].value \in Values
  BY Zenon DEF Updates
<1> \A q \in Places : A2[q] = IF q = p THEN [A[p] EXCEPT ![i] = l] ELSE A[q]
  BY Zenon DEF Updates
<1>1. /\ \A q \in Places : DOMAIN A2[q] = DOMAIN A[q]
      /\ A2[p][i] = l
      /\ \A q \in Places : \A j \in DOMAIN A[q] : q # p \/ j # i => A2[q][j] = A[q][j]
  OBVIOUS
<1>2. ASSUME NEW q \in Places, NEW j \in DOMAIN A[q], q # p \/ j # i
      PROVE  /\ Chain(m2, A2[q][j]) = Chain(m, A[q][j])
             /\ IsChain(m2, A2[q][j], Chain(m2, A2[q][j]))
             /\ In(m2, A2, q, j) = In(m, A, q, j)
  <2>1. IsChain(m, A[q][j], Chain(m, A[q][j]))
    BY HeapFacts
  <2>2. \A n \in Range(Chain(m, A[q][j])) : n \in L /\ n \notin In(m, A, p, i)
    <3>1. ASSUME NEW n \in In(m, A, q, j)
          PROVE  n \in L /\ n \notin In(m, A, p, i)
      BY <1>2, <3>1, InFacts, InOnce
    <3> QED
      BY <3>1 DEF In
  <2>3. /\ Chain(m2, A[q][j]) = Chain(m, A[q][j])
        /\ IsChain(m2, A[q][j], Chain(m2, A[q][j]))
    BY <2>1, <2>2, KeptList
  <2>4. A2[q][j] = A[q][j]
    BY <1>1, <1>2, Zenon
  <2> QED
    BY <2>3, <2>4, Zenon DEF In
<1>3. Chain(m2, A2[p][i]) = s /\ In(m2, A2, p, i) = Range(s)
  BY <1>1, ChainIs, Zenon DEF In
<1>4. Linked(m2, A2)
  <2>1. IsChain(m2, A2[p][i], Chain(m2, A2[p][i]))
    BY <1>1, <1>3, Zenon
  <2> QED
    BY <1>1, <1>2, <2>1, Zenon DEF Linked
<1>5. ASSUME NEW q \in Places, NEW j \in DOMAIN A[q], q # p \/ j # i,
             NEW n \in In(m, A, q, j)
      PROVE  /\ n \in L /\ n \notin In(m, A, p, i) /\ n \notin Range(s)
             /\ m2[n].key = m[n].key /\ m2[n].value = m[n].value
  <2>1. n \in L /\ n \notin In(m, A, p, i)
    BY <1>5, InFacts, InOnce
  <2> QED
    BY <2>1
<1>6. Sorted(m2, A2, o)
  <2>1. ASSUME NEW q \in Places, NEW j \in DOMAIN A[q], NEW n \in In(m2, A2, q, j)
        PROVE  Index(m2[n].key, o[q]) = j /\ m2[n].value \in Values
    <3>1. CASE q # p \/ j # i
      <4>1. n \in In(m, A, q, j) /\ m2[n].key = m[n].key /\ m2[n].value = m[n].value
        BY <1>2, <1>5, <3>1, Zenon
      <4>2. Index(m[n].key, o[q]) = j /\ m[n].value \in Values
        BY <4>1, InFacts
      <4> QED
        BY <4>1, <4>2, Zenon
    <3>2. CASE q = p /\ j = i
      BY <1>3, <3>2, Zenon
    <3> QED
      BY <3>1, <3>2, Zenon
  <2> QED
    BY <1>1, <2>1, Zenon DEF Sorted
<1>7. Sized(A2, o) /\ \A q \in Places : (A2[q] = NoBuckets <=> A[q] = NoBuckets)
  <2>1. A[p] # NoBuckets
    BY HeapFacts
  <2>2. A[p] \in [0 .. BucketCount(o[p]) - 1 -> List]
    BY <2>1, HeapFacts
  <2>3. A2[p] \in [0 .. BucketCount(o[p]) - 1 -> List]
    BY <2>2
  <2>4. A2[p] # NoBuckets
    <3>1. 0 \in DOMAIN A[p]
      BY <2>1, HeapFacts
    <3>2. DOMAIN A2[p] = DOMAIN A[p]
      BY <1>1
    <3> QED
      BY <3>1, <3>2 DEF NoBuckets
  <2>5. \A q \in Places : q # p => A2[q] = A[q]
    OBVIOUS
  <2>6. Sized(A, o)
    BY HeapForm
  <2> QED
    BY <2>1, <2>3, <2>4, <2>5, <2>6, Zenon DEF Sized
<1>8. Allocated(m2, (L \ In(m, A, p, i)) \cup Range(s), A2)
  <2>1. ASSUME NEW n \in L, n \notin In(m, A, p, i)
        PROVE  \E q \in Places : \E j \in DOMAIN A2[q] : n \in In(m2, A2, q, j)
    <3>1. PICK q \in Places : n \in Home(m, A, q)
      BY HeapFacts
    <3>2. PICK j \in DOMAIN A[q] : n \in In(m, A, q, j)
      BY <3>1, HeapFacts
    <3>3. q # p \/ j # i
      BY <2>1, <3>2, Zenon
    <3> QED
      BY <1>1, <1>2, <3>2, <3>3, Zenon
  <2>2. ASSUME NEW n \in Range(s)
        PROVE  \E q \in Places : \E j \in DOMAIN A2[q] : n \in In(m2, A2, q, j)
    BY <1>1, <1>3, ZenonT(60)
  <2>3. ASSUME NEW q \in Places, NEW j \in DOMAIN A2[q], NEW n \in In(m2, A2, q, j)
        PROVE  n \in (L \ In(m, A, p, i)) \cup Range(s)
    <3>1. CASE q # p \/ j # i
      <4>1. n \in In(m, A, q, j) /\ j \in DOMAIN A[q]
        BY <1>1, <1>2, <3>1, Zenon
      <4> QED
        BY <1>5, <3>1, <4>1, Zenon
    <3>2. CASE q = p /\ j = i
      BY <1>3, <3>2, Zenon
    <3> QED
      BY <3>1, <3>2, Zenon
  <2> QED
    BY <2>1, <2>2, <2>3, Zenon DEF Allocated
<1>9. Apart(m2, A2)
  <2>1. ASSUME NEW q \in Places, NEW j \in DOMAIN A[q], NEW x \in Places, NEW y \in DOMAIN A[x],
               NEW n, n \in In(m2, A2, q, j), n \in In(m2, A2, x, y)
        PROVE  q = x /\ j = y
    <3>1. CASE (q # p \/ j # i) /\ (x # p \/ y # i)
      <4>1. n \in In(m, A, q, j) /\ n \in In(m, A, x, y)
        BY <1>2, <2>1, <3>1, Zenon
      <4> QED
        BY <4>1, InOnce
    <3>2. CASE (q # p \/ j # i) /\ (x = p /\ y = i)
      BY <1>2, <1>3, <1>5, <2>1, <3>2, Zenon
    <3>3. CASE (q = p /\ j = i) /\ (x # p \/ y # i)
      BY <1>2, <1>3, <1>5, <2>1, <3>3, Zenon
    <3> QED
      BY <3>1, <3>2, <3>3, Zenon
  <2> QED
    BY <1>1, <2>1, Zenon DEF Apart
<1>10. HeapInv(m2, (L \ In(m, A, p, i)) \cup Range(s), A2, o)
  BY <1>4, <1>6, <1>7, <1>8, <1>9, HeapForm
<1>11. ASSUME NEW q \in Places, q # p
       PROVE  Home(m2, A2, q) = Home(m, A, q)
  <2>1. \A j \in DOMAIN A[q] : In(m2, A2, q, j) = In(m, A, q, j)
    BY <1>2, <1>11, Zenon
  <2>2. \A n : n \in Home(m2, A2, q) <=> \E j \in DOMAIN A2[q] : n \in In(m2, A2, q, j)
    BY Zenon DEF Home
  <2>3. \A n : n \in Home(m, A, q) <=> \E j \in DOMAIN A[q] : n \in In(m, A, q, j)
    BY Zenon DEF Home
  <2>4. DOMAIN A2[q] = DOMAIN A[q]
    BY <1>1
  <2>5. \A n : n \in Home(m2, A2, q) <=> n \in Home(m, A, q)
    BY <2>1, <2>2, <2>3, <2>4
  <2> QED
    BY <2>5
<1>12. Home(m2, A2, p) = (Home(m, A, p) \ In(m, A, p, i)) \cup Range(s)
  <2>1. \A n : n \in Home(m2, A2, p) <=> \E j \in DOMAIN A2[p] : n \in In(m2, A2, p, j)
    BY Zenon DEF Home
  <2>2. \A n : n \in Home(m, A, p) <=> \E j \in DOMAIN A[p] : n \in In(m, A, p, j)
    BY Zenon DEF Home
  <2>3. ASSUME NEW n, n \in Home(m2, A2, p)
        PROVE  n \in (Home(m, A, p) \ In(m, A, p, i)) \cup Range(s)
    <3>1. PICK j \in DOMAIN A[p] : n \in In(m2, A2, p, j)
      BY <1>1, <2>1, <2>3, Zenon
    <3>2. CASE j = i
      BY <1>3, <3>1, <3>2, Zenon
    <3>3. CASE j # i
      <4>1. n \in In(m, A, p, j) /\ n \notin In(m, A, p, i)
        BY <1>2, <1>5, <3>1, <3>3, Zenon
      <4> QED
        BY <2>2, <4>1, Zenon
    <3> QED
      BY <3>2, <3>3, Zenon
  <2>4. ASSUME NEW n, n \in Home(m, A, p), n \notin In(m, A, p, i)
        PROVE  n \in Home(m2, A2, p)
    <3>1. PICK j \in DOMAIN A[p] : n \in In(m, A, p, j)
      BY <2>2, <2>4, Zenon
    <3>2. n \in In(m2, A2, p, j)
      BY <1>2, <2>4, <3>1, Zenon
    <3> QED
      BY <1>1, <2>1, <3>2, Zenon
  <2>5. ASSUME NEW n \in Range(s)
        PROVE  n \in Home(m2, A2, p)
    <3>1. i \in DOMAIN A2[p] /\ n \in In(m2, A2, p, i)
      BY <1>1, <1>3, Zenon
    <3> QED
      BY <2>1, <3>1, Zenon
  <2> QED
    BY <2>3, <2>4, <2>5, Zenon
<1> QED
  BY <1>1, <1>2, <1>3, <1>7, <1>10, <1>11, <1>12, Zenon DEF Updated

\* A node that is not allocated joins a bucket at its end; where it was not.
Joins(m, L, A, o, p, i, e, r, A2) ==
  /\ HeapInv(m, L, A, o) /\ p \in Places /\ i \in DOMAIN A[p]
  /\ e \in Nodes /\ e \notin L
  /\ Index(m[e].key, o[p]) = i /\ m[e].value \in Values
  /\ r = ListInsert(m, A[p][i], A[p][i].size, e)
  /\ \A q \in Places : A2[q] = IF q = p THEN [A[p] EXCEPT ![i] = r.list] ELSE A[q]
Joined(m, L, A, o, p, i, e, r, A2) ==
  /\ HeapInv(r.node, L \cup {e}, A2, o)
  /\ \A q \in Places : DOMAIN A2[q] = DOMAIN A[q] /\ (A2[q] = NoBuckets <=> A[q] = NoBuckets)
  /\ \A q \in Places : \A j \in DOMAIN A[q] :
       q # p \/ j # i => /\ A2[q][j] = A[q][j]
                         /\ Chain(r.node, A2[q][j]) = Chain(m, A[q][j])
  /\ Home(r.node, A2, p) = Home(m, A, p) \cup {e}
  /\ \A q \in Places : q # p => Home(r.node, A2, q) = Home(m, A, q)
  /\ \A n \in Nodes : r.node[n].key = m[n].key /\ r.node[n].value = m[n].value

\* The heap with one node more.
LEMMA HeapAppend ==
  ASSUME NEW m, NEW L, NEW A, NEW o, NEW p, NEW i, NEW e, NEW r, NEW A2,
         Joins(m, L, A, o, p, i, e, r, A2)
  PROVE  Joined(m, L, A, o, p, i, e, r, A2)
<1> /\ HeapInv(m, L, A, o) /\ p \in Places /\ i \in DOMAIN A[p]
    /\ e \in Nodes /\ e \notin L
    /\ Index(m[e].key, o[p]) = i /\ m[e].value \in Values
    /\ r = ListInsert(m, A[p][i], A[p][i].size, e)
    /\ \A q \in Places : A2[q] = IF q = p THEN [A[p] EXCEPT ![i] = r.list] ELSE A[q]
  BY Zenon DEF Joins
<1> DEFINE s == Chain(m, A[p][i])
           q2 == Append(s, e)
<1>1. IsChain(m, A[p][i], s) /\ m \in [Nodes -> NodeType] /\ L \subseteq Nodes
  BY HeapFacts
<1>2. Range(s) = In(m, A, p, i) /\ s \in Seq(Nodes)
  BY <1>1, ChainFacts DEF In
<1> HIDE DEF s
<1>3. \A n \in Range(s) : n \in L /\ Index(m[n].key, o[p]) = i /\ m[n].value \in Values
                          /\ n \in Home(m, A, p)
  BY <1>2, InFacts
<1>4. e \notin Range(s)
  BY <1>3, SMTT(60)
<1>5. /\ r.node \in [Nodes -> NodeType] /\ r.list \in List
      /\ IsChain(r.node, r.list, q2)
      /\ \A n \in Nodes : r.node[n].key = m[n].key /\ r.node[n].value = m[n].value
      /\ \A n \in Nodes : n \notin Range(s) /\ n # e =>
           r.node[n].next = m[n].next /\ r.node[n].prev = m[n].prev
  <2>1. PICK l : l = A[p][i]
    OBVIOUS
  <2>2. r = ListInsert(m, l, l.size, e) /\ IsChain(m, l, s) /\ m \in [Nodes -> NodeType] /\ e \in Nodes
    BY <1>1, <2>1, Zenon
  <2> QED
    BY ONLY <1>4, <2>2, InsertFacts
<1>6. Range(q2) = Range(s) \cup {e}
  BY <1>2, RangeAppend
<1> HIDE DEF q2
<1>7. \A n \in L : n \notin In(m, A, p, i) =>
           /\ r.node[n].next = m[n].next /\ r.node[n].prev = m[n].prev
           /\ r.node[n].key = m[n].key /\ r.node[n].value = m[n].value
           /\ n \notin Range(q2)
  <2> SUFFICES ASSUME NEW n \in L, n \notin In(m, A, p, i)
               PROVE  /\ r.node[n].next = m[n].next /\ r.node[n].prev = m[n].prev
                      /\ r.node[n].key = m[n].key /\ r.node[n].value = m[n].value
                      /\ n \notin Range(q2)
    OBVIOUS
  <2>1. n \in Nodes /\ n # e
    BY <1>1, Zenon
  <2>2. n \notin Range(s) /\ n \notin Range(q2)
    BY <1>2, <1>6, <2>1, ZenonT(60)
  <2> QED
    BY <1>5, <2>1, <2>2, Zenon
<1>8. \A n \in Range(q2) : Index(r.node[n].key, o[p]) = i /\ r.node[n].value \in Values
  BY <1>1, <1>3, <1>5, <1>6
<1>9. /\ (L \ In(m, A, p, i)) \cup Range(q2) = L \cup {e}
      /\ (Home(m, A, p) \ In(m, A, p, i)) \cup Range(q2) = Home(m, A, p) \cup {e}
  BY <1>2, <1>3, <1>6
<1>10. /\ HeapInv(r.node, (L \ In(m, A, p, i)) \cup Range(q2), A2, o)
       /\ \A q \in Places : DOMAIN A2[q] = DOMAIN A[q] /\ (A2[q] = NoBuckets <=> A[q] = NoBuckets)
       /\ \A q \in Places : \A j \in DOMAIN A[q] :
            q # p \/ j # i => /\ A2[q][j] = A[q][j]
                              /\ Chain(r.node, A2[q][j]) = Chain(m, A[q][j])
       /\ Home(r.node, A2, p) = (Home(m, A, p) \ In(m, A, p, i)) \cup Range(q2)
       /\ \A q \in Places : q # p => Home(r.node, A2, q) = Home(m, A, q)
  <2> DEFINE m2 == r.node
             l == r.list
  <2>1. /\ m2 \in [Nodes -> NodeType] /\ l \in List /\ IsChain(m2, l, q2)
        /\ \A q \in Places : A2[q] = IF q = p THEN [A[p] EXCEPT ![i] = l] ELSE A[q]
    BY <1>5
  <2>2. \A n \in L : n \notin In(m, A, p, i) =>
           /\ m2[n].next = m[n].next /\ m2[n].prev = m[n].prev
           /\ m2[n].key = m[n].key /\ m2[n].value = m[n].value
           /\ n \notin Range(q2)
    BY <1>7
  <2>3. \A n \in Range(q2) : Index(m2[n].key, o[p]) = i /\ m2[n].value \in Values
    BY <1>8
  <2> HIDE DEF m2, l
  <2>4. /\ HeapInv(m2, (L \ In(m, A, p, i)) \cup Range(q2), A2, o)
        /\ \A q \in Places : DOMAIN A2[q] = DOMAIN A[q] /\ (A2[q] = NoBuckets <=> A[q] = NoBuckets)
        /\ \A q \in Places : \A j \in DOMAIN A[q] :
            q # p \/ j # i => /\ A2[q][j] = A[q][j]
                              /\ Chain(m2, A2[q][j]) = Chain(m, A[q][j])
        /\ Home(m2, A2, p) = (Home(m, A, p) \ In(m, A, p, i)) \cup Range(q2)
        /\ \A q \in Places : q # p => Home(m2, A2, q) = Home(m, A, q)
    <3>1. Updates(m, L, A, o, p, i, m2, A2, l, q2)
      BY <2>1, <2>2, <2>3, Zenon DEF Updates
    <3>2. Updated(m, L, A, p, i, m2, A2, o, l, q2)
      BY <3>1, HeapUpdate
    <3> QED
      BY <3>2, Zenon DEF Updated
  <2> QED
    BY <2>4, ZenonT(60) DEF m2
<1> QED
  BY <1>5, <1>9, <1>10, Zenon DEF Joined

\* A node leaves its bucket.
Leaves(m, L, A, o, p, i, e, r, A2) ==
  /\ HeapInv(m, L, A, o) /\ p \in Places /\ i \in DOMAIN A[p] /\ e \in In(m, A, p, i)
  /\ r = ListNodeRemove(m, A[p][i], e)
  /\ \A q \in Places : A2[q] = IF q = p THEN [A[p] EXCEPT ![i] = r.list] ELSE A[q]
Left(m, L, A, o, p, i, e, r, A2) ==
  /\ HeapInv(r.node, L \ {e}, A2, o)
  /\ \A q \in Places : DOMAIN A2[q] = DOMAIN A[q] /\ (A2[q] = NoBuckets <=> A[q] = NoBuckets)
  /\ \A q \in Places : \A j \in DOMAIN A[q] :
       q # p \/ j # i => /\ A2[q][j] = A[q][j]
                         /\ Chain(r.node, A2[q][j]) = Chain(m, A[q][j])
  /\ A2[p][i] = r.list
  /\ Home(r.node, A2, p) = Home(m, A, p) \ {e}
  /\ \A q \in Places : q # p => Home(r.node, A2, q) = Home(m, A, q)
  /\ \A n \in Nodes : r.node[n].key = m[n].key /\ r.node[n].value = m[n].value

\* The heap with one node less.
LEMMA HeapRemove ==
  ASSUME NEW m, NEW L, NEW A, NEW o, NEW p, NEW i, NEW e, NEW r, NEW A2,
         Leaves(m, L, A, o, p, i, e, r, A2)
  PROVE  Left(m, L, A, o, p, i, e, r, A2)
<1> /\ HeapInv(m, L, A, o) /\ p \in Places /\ i \in DOMAIN A[p] /\ e \in In(m, A, p, i)
    /\ r = ListNodeRemove(m, A[p][i], e)
    /\ \A q \in Places : A2[q] = IF q = p THEN [A[p] EXCEPT ![i] = r.list] ELSE A[q]
  BY Zenon DEF Leaves
<1> DEFINE s == Chain(m, A[p][i])
<1>1. IsChain(m, A[p][i], s) /\ m \in [Nodes -> NodeType] /\ L \subseteq Nodes
  BY HeapFacts
<1>2. /\ Range(s) = In(m, A, p, i) /\ s \in Seq(Nodes)
      /\ \A n : n \in Range(s) <=> \E k \in 1 .. Len(s) : s[k] = n
  BY <1>1, ChainFacts DEF In
<1> HIDE DEF s
<1>3. \A n \in Range(s) : n \in L /\ Index(m[n].key, o[p]) = i /\ m[n].value \in Values
                          /\ n \in Home(m, A, p) /\ n \in Nodes
  BY <1>2, InFacts
<1>4. PICK k \in 1 .. Len(s) : s[k] = e
  BY <1>2
<1> DEFINE q2 == Without(s, k)
           m2 == r.node
           l == r.list
<1>5. /\ m2 \in [Nodes -> NodeType] /\ l \in List
      /\ IsChain(m2, l, q2)
      /\ \A n \in Nodes : m2[n].key = m[n].key /\ m2[n].value = m[n].value
      /\ \A n \in Nodes : n \notin Range(s) =>
           m2[n].next = m[n].next /\ m2[n].prev = m[n].prev
  BY <1>1, <1>4, RemoveFacts
<1>6. Range(q2) = Range(s) \ {e}
  <2>1. \A x, y \in 1 .. Len(s) : s[x] = s[y] => x = y
    BY <1>1 DEF IsChain
  <2>2. Range(Without(s, k)) = Range(s) \ {s[k]}
    BY <1>2, <2>1, WithoutFacts
  <2> QED
    BY <1>4, <2>2
<1>7. \A q \in Places : A2[q] = IF q = p THEN [A[p] EXCEPT ![i] = l] ELSE A[q]
  OBVIOUS
<1> HIDE DEF q2, m2, l
<1>8. \A n \in L : n \notin In(m, A, p, i) =>
           /\ m2[n].next = m[n].next /\ m2[n].prev = m[n].prev
           /\ m2[n].key = m[n].key /\ m2[n].value = m[n].value
           /\ n \notin Range(q2)
  BY <1>1, <1>2, <1>5, <1>6
<1>9. \A n \in Range(q2) : Index(m2[n].key, o[p]) = i /\ m2[n].value \in Values
  BY <1>3, <1>5, <1>6
<1>10. /\ (L \ In(m, A, p, i)) \cup Range(q2) = L \ {e}
       /\ (Home(m, A, p) \ In(m, A, p, i)) \cup Range(q2) = Home(m, A, p) \ {e}
  BY <1>2, <1>3, <1>6
<1>11. /\ HeapInv(m2, (L \ In(m, A, p, i)) \cup Range(q2), A2, o)
       /\ \A q \in Places : DOMAIN A2[q] = DOMAIN A[q] /\ (A2[q] = NoBuckets <=> A[q] = NoBuckets)
       /\ \A q \in Places : \A j \in DOMAIN A[q] :
            q # p \/ j # i => /\ A2[q][j] = A[q][j]
                              /\ Chain(m2, A2[q][j]) = Chain(m, A[q][j])
       /\ A2[p][i] = l
       /\ Home(m2, A2, p) = (Home(m, A, p) \ In(m, A, p, i)) \cup Range(q2)
       /\ \A q \in Places : q # p => Home(m2, A2, q) = Home(m, A, q)
  <2>1. Updates(m, L, A, o, p, i, m2, A2, l, q2)
    <3>1. HeapInv(m, L, A, o) /\ p \in Places /\ i \in DOMAIN A[p]
      OBVIOUS
    <3> QED
      BY <1>5, <1>7, <1>8, <1>9, <3>1, Zenon DEF Updates
  <2>2. Updated(m, L, A, p, i, m2, A2, o, l, q2)
    BY <2>1, HeapUpdate
  <2> QED
    BY <2>2, Zenon DEF Updated
<1> QED
  BY <1>5, <1>10, <1>11 DEF m2, l, Left

\* Nodes in no bucket may change, and values.
LEMMA HeapFrame ==
  ASSUME NEW m, NEW L, NEW A, NEW o, HeapInv(m, L, A, o),
         NEW m2 \in [Nodes -> NodeType], NEW A2, NEW o2,
         \A n \in L : /\ m2[n].next = m[n].next /\ m2[n].prev = m[n].prev
                      /\ m2[n].key = m[n].key /\ m2[n].value \in Values,
         \A p \in Places : /\ A2[p] = A[p] /\ o2[p] \in Nat
                           /\ A[p] # NoBuckets => o2[p] = o[p]
  PROVE  /\ HeapInv(m2, L, A2, o2)
         /\ \A p \in Places : \A i \in DOMAIN A[p] : Chain(m2, A2[p][i]) = Chain(m, A[p][i])
         /\ \A p \in Places : Home(m2, A2, p) = Home(m, A, p)
<1>1. ASSUME NEW p \in Places, NEW i \in DOMAIN A[p]
      PROVE  /\ Chain(m2, A2[p][i]) = Chain(m, A[p][i])
             /\ IsChain(m2, A2[p][i], Chain(m2, A2[p][i]))
             /\ In(m2, A2, p, i) = In(m, A, p, i)
             /\ A[p] # NoBuckets
  <2>1. IsChain(m, A[p][i], Chain(m, A[p][i])) /\ A[p] # NoBuckets
    BY HeapFacts
  <2>2. \A n \in Range(Chain(m, A[p][i])) : n \in L
    BY InFacts DEF In
  <2>3. /\ Chain(m2, A[p][i]) = Chain(m, A[p][i])
        /\ IsChain(m2, A[p][i], Chain(m2, A[p][i]))
    BY <2>1, <2>2, KeptList
  <2> QED
    BY <2>1, <2>3 DEF In
<1>2. \A p \in Places : DOMAIN A2[p] = DOMAIN A[p]
  OBVIOUS
<1>3. Linked(m2, A2)
  BY <1>1, <1>2 DEF Linked
<1>4. Sorted(m2, A2, o2)
  <2>1. ASSUME NEW p \in Places, NEW i \in DOMAIN A[p], NEW n \in In(m, A, p, i)
        PROVE  Index(m2[n].key, o2[p]) = i /\ m2[n].value \in Values
    <3>1. n \in L /\ Index(m[n].key, o[p]) = i
      BY InFacts
    <3>2. o2[p] = o[p]
      BY <1>1
    <3> QED
      BY <3>1, <3>2
  <2> QED
    BY <1>1, <1>2, <2>1, ZenonT(60) DEF Sorted
<1>5. Sized(A2, o2)
  <2>1. Sized(A, o)
    BY HeapForm
  <2> QED
    BY <2>1 DEF Sized
<1>6. Allocated(m2, L, A2)
  <2>1. Allocated(m, L, A)
    BY HeapForm
  <2> QED
    BY <1>1, <1>2, <2>1 DEF Allocated
<1>7. Apart(m2, A2)
  <2>1. Apart(m, A)
    BY HeapForm
  <2> QED
    BY <1>1, <1>2, <2>1 DEF Apart
<1>8. HeapInv(m2, L, A2, o2)
  BY <1>3, <1>4, <1>5, <1>6, <1>7, HeapForm
<1>9. ASSUME NEW p \in Places
      PROVE  Home(m2, A2, p) = Home(m, A, p)
  <2>1. \A n : n \in Home(m2, A2, p) <=> \E j \in DOMAIN A2[p] : n \in In(m2, A2, p, j)
    BY HomeFacts
  <2>2. \A n : n \in Home(m, A, p) <=> \E j \in DOMAIN A[p] : n \in In(m, A, p, j)
    BY HomeFacts
  <2>3. \A n : n \in Home(m2, A2, p) <=> n \in Home(m, A, p)
    BY <1>1, <1>2, <2>1, <2>2
  <2> QED
    BY <2>3
<1> QED
  BY <1>1, <1>8, <1>9

\* A new array of buckets.
LEMMA HeapNew ==
  ASSUME NEW m, NEW L, NEW A, NEW o, HeapInv(m, L, A, o),
         NEW p \in Places, A[p] = NoBuckets, NEW A2, NEW o2,
         \A q \in Places : /\ A2[q] = IF q = p THEN EmptyBuckets(o2[p]) ELSE A[q]
                           /\ o2[q] \in Nat
                           /\ A[q] # NoBuckets => o2[q] = o[q]
  PROVE  /\ HeapInv(m, L, A2, o2)
         /\ A2[p] # NoBuckets
         /\ Home(m, A2, p) = {}
         /\ \A q \in Places : q # p => Home(m, A2, q) = Home(m, A, q)
         /\ \A i \in DOMAIN A2[p] : A2[p][i] = EmptyList
<1>1. /\ o2[p] \in Nat
      /\ DOMAIN A2[p] = 0 .. BucketCount(o2[p]) - 1
      /\ A2[p] \in [0 .. BucketCount(o2[p]) - 1 -> List]
      /\ \A i \in DOMAIN A2[p] : A2[p][i] = EmptyList
  BY EmptyChain DEF EmptyBuckets
<1>2. A2[p] # NoBuckets
  <2> DEFINE k == o2[p]
  <2>1. k \in Nat
    BY <1>1
  <2> HIDE DEF k
  <2>2. BucketCount(k) \in Nat /\ 0 < BucketCount(k)
    BY <2>1, BucketFacts
  <2>3. 0 \in 0 .. BucketCount(k) - 1
    BY <2>2
  <2>4. 0 \in DOMAIN A2[p]
    BY <1>1, <2>3 DEF k
  <2> QED
    BY <2>4 DEF NoBuckets
<1>3. \A i \in DOMAIN A2[p] : /\ IsChain(m, A2[p][i], Chain(m, A2[p][i]))
                              /\ In(m, A2, p, i) = {}
  BY <1>1, EmptyChain DEF In
<1>4. \A q \in Places : q # p => A2[q] = A[q]
  OBVIOUS
<1>5. \A q \in Places : q # p => \A i : In(m, A2, q, i) = In(m, A, q, i)
  BY <1>4 DEF In
<1>6. \A q \in Places : q # p => Home(m, A2, q) = Home(m, A, q)
  BY <1>4, <1>5 DEF Home
<1>7. Home(m, A2, p) = {}
  BY <1>3, HomeFacts
<1>8. DOMAIN A[p] = {}
  BY HeapFacts
<1>9. Linked(m, A2)
  <2>1. Linked(m, A)
    BY HeapForm
  <2> QED
    BY <1>3, <1>4, <2>1 DEF Linked
<1>10. Sorted(m, A2, o2)
  <2>1. Sorted(m, A, o) /\ \A q \in Places : DOMAIN A[q] # {} => o2[q] = o[q]
    BY HeapForm, HeapFacts
  <2> QED
    BY <1>3, <1>4, <1>5, <2>1 DEF Sorted
<1>11. Sized(A2, o2)
  <2>1. Sized(A, o)
    BY HeapForm
  <2> QED
    BY <1>1, <1>4, <2>1 DEF Sized
<1>12. Allocated(m, L, A2)
  <2>1. Allocated(m, L, A)
    BY HeapForm
  <2> QED
    BY <1>3, <1>4, <1>5, <1>8, <2>1 DEF Allocated
<1>13. Apart(m, A2)
  <2>1. Apart(m, A)
    BY HeapForm
  <2> QED
    BY <1>3, <1>4, <1>5, <2>1 DEF Apart
<1>14. HeapInv(m, L, A2, o2)
  BY <1>9, <1>10, <1>11, <1>12, <1>13, HeapForm
<1> QED
  BY <1>1, <1>2, <1>6, <1>7, <1>14

\* The same, in one piece.
Adds(m, L, A, o, p, A2, o2) ==
  /\ HeapInv(m, L, A, o) /\ p \in Places /\ A[p] = NoBuckets
  /\ \A q \in Places : /\ A2[q] = IF q = p THEN EmptyBuckets(o2[p]) ELSE A[q]
                       /\ o2[q] \in Nat /\ (A[q] # NoBuckets => o2[q] = o[q])
Added(m, L, A, p, A2, o2) ==
  /\ HeapInv(m, L, A2, o2) /\ A2[p] # NoBuckets /\ Home(m, A2, p) = {}
  /\ \A q \in Places : q # p => Home(m, A2, q) = Home(m, A, q)

LEMMA HeapAdd ==
  ASSUME NEW m, NEW L, NEW A, NEW o, NEW p, NEW A2, NEW o2, Adds(m, L, A, o, p, A2, o2)
  PROVE  Added(m, L, A, p, A2, o2)
<1> /\ HeapInv(m, L, A, o) /\ p \in Places /\ A[p] = NoBuckets
    /\ \A q \in Places : /\ A2[q] = IF q = p THEN EmptyBuckets(o2[p]) ELSE A[q]
                         /\ o2[q] \in Nat /\ (A[q] # NoBuckets => o2[q] = o[q])
  BY Zenon DEF Adds
<1>1. /\ HeapInv(m, L, A2, o2) /\ A2[p] # NoBuckets /\ Home(m, A2, p) = {}
      /\ \A q \in Places : q # p => Home(m, A2, q) = Home(m, A, q)
  BY HeapNew
<1> QED
  BY <1>1, Zenon DEF Added

\* An array is freed with the nodes in it; where its nodes were.
Drops(m, L, A, o, p, m2, A2, o2) ==
  /\ HeapInv(m, L, A, o) /\ p \in Places /\ m2 \in [Nodes -> NodeType]
  /\ \A n \in L : n \notin Home(m, A, p) => m2[n] = m[n]
  /\ \A q \in Places : /\ A2[q] = IF q = p THEN NoBuckets ELSE A[q]
                       /\ o2[q] \in Nat
                       /\ q # p /\ A[q] # NoBuckets => o2[q] = o[q]
Dropped(m, L, A, p, m2, A2, o2) ==
  /\ HeapInv(m2, L \ Home(m, A, p), A2, o2)
  /\ Home(m2, A2, p) = {}
  /\ \A q \in Places : q # p =>
       /\ Home(m2, A2, q) = Home(m, A, q)
       /\ \A i \in DOMAIN A[q] : Chain(m2, A2[q][i]) = Chain(m, A[q][i])

\* The heap without an array.
LEMMA HeapDrop ==
  ASSUME NEW m, NEW L, NEW A, NEW o, NEW p, NEW m2, NEW A2, NEW o2,
         Drops(m, L, A, o, p, m2, A2, o2)
  PROVE  Dropped(m, L, A, p, m2, A2, o2)
<1> /\ HeapInv(m, L, A, o) /\ p \in Places /\ m2 \in [Nodes -> NodeType]
    /\ \A n \in L : n \notin Home(m, A, p) => m2[n] = m[n]
    /\ \A q \in Places : /\ A2[q] = IF q = p THEN NoBuckets ELSE A[q]
                         /\ o2[q] \in Nat
                         /\ q # p /\ A[q] # NoBuckets => o2[q] = o[q]
  BY Zenon DEF Drops
<1>1. DOMAIN A2[p] = {}
  BY DEF NoBuckets
<1>2. \A q \in Places : q # p => A2[q] = A[q]
  OBVIOUS
<1>3. ASSUME NEW q \in Places, q # p, NEW i \in DOMAIN A[q]
      PROVE  /\ Chain(m2, A2[q][i]) = Chain(m, A[q][i])
             /\ IsChain(m2, A2[q][i], Chain(m2, A2[q][i]))
             /\ In(m2, A2, q, i) = In(m, A, q, i)
             /\ A[q] # NoBuckets
             /\ \A n \in In(m, A, q, i) : n \in L /\ n \notin Home(m, A, p)
  <2>1. IsChain(m, A[q][i], Chain(m, A[q][i])) /\ A[q] # NoBuckets
    BY HeapFacts
  <2>2. ASSUME NEW n \in In(m, A, q, i)
        PROVE  n \in L /\ n \notin Home(m, A, p)
    <3>1. n \in L /\ n \in Home(m, A, q)
      BY InFacts
    <3>2. n \notin Home(m, A, p)
      BY <1>3, <3>1, HeapFacts
    <3> QED
      BY <3>1, <3>2
  <2>3. \A n \in Range(Chain(m, A[q][i])) : m2[n] = m[n]
    BY <2>2 DEF In
  <2>4. /\ Chain(m2, A[q][i]) = Chain(m, A[q][i])
        /\ IsChain(m2, A[q][i], Chain(m2, A[q][i]))
    BY <2>1, <2>3, KeptList
  <2> QED
    BY <1>2, <1>3, <2>1, <2>2, <2>4 DEF In
<1>4. Linked(m2, A2)
  BY <1>1, <1>2, <1>3 DEF Linked
<1>5. Sorted(m2, A2, o2)
  <2>1. ASSUME NEW q \in Places, q # p, NEW i \in DOMAIN A[q], NEW n \in In(m, A, q, i)
        PROVE  Index(m2[n].key, o2[q]) = i /\ m2[n].value \in Values
    <3>1. Index(m[n].key, o[q]) = i /\ m[n].value \in Values
      BY InFacts
    <3>2. o2[q] = o[q] /\ m2[n] = m[n]
      BY <1>3, <2>1
    <3> QED
      BY <3>1, <3>2
  <2> QED
    BY <1>1, <1>2, <1>3, <2>1 DEF Sorted
<1>6. Sized(A2, o2)
  <2>1. Sized(A, o)
    BY HeapForm
  <2> QED
    BY <1>2, <2>1 DEF Sized
<1>7. Allocated(m2, L \ Home(m, A, p), A2)
  <2>1. ASSUME NEW n \in L, n \notin Home(m, A, p)
        PROVE  \E q \in Places : \E j \in DOMAIN A2[q] : n \in In(m2, A2, q, j)
    <3>1. PICK q \in Places : n \in Home(m, A, q)
      BY HeapFacts
    <3>2. PICK j \in DOMAIN A[q] : n \in In(m, A, q, j)
      BY <3>1, HomeFacts
    <3>3. q # p
      BY <2>1, <3>1
    <3> QED
      BY <1>2, <1>3, <3>2, <3>3
  <2>2. ASSUME NEW q \in Places, NEW j \in DOMAIN A2[q], NEW n \in In(m2, A2, q, j)
        PROVE  n \in L \ Home(m, A, p)
    BY <1>1, <1>2, <1>3
  <2> QED
    BY <2>1, <2>2, Zenon DEF Allocated
<1>8. Apart(m2, A2)
  <2>1. Apart(m, A)
    BY HeapForm
  <2> QED
    BY <1>1, <1>2, <1>3, <2>1 DEF Apart
<1>9. HeapInv(m2, L \ Home(m, A, p), A2, o2)
  BY <1>4, <1>5, <1>6, <1>7, <1>8, HeapForm
<1>10. ASSUME NEW q \in Places, q # p
       PROVE  Home(m2, A2, q) = Home(m, A, q)
  <2>1. \A n : n \in Home(m2, A2, q) <=> \E j \in DOMAIN A2[q] : n \in In(m2, A2, q, j)
    BY HomeFacts
  <2>2. \A n : n \in Home(m, A, q) <=> \E j \in DOMAIN A[q] : n \in In(m, A, q, j)
    BY HomeFacts
  <2>3. \A n : n \in Home(m2, A2, q) <=> n \in Home(m, A, q)
    BY <1>2, <1>3, <1>10, <2>1, <2>2
  <2> QED
    BY <2>3
<1>11. Home(m2, A2, p) = {}
  BY <1>1, HomeFacts
<1>12. \A q \in Places : q # p => \A i \in DOMAIN A[q] : Chain(m2, A2[q][i]) = Chain(m, A[q][i])
  BY <1>3
<1> QED
  BY <1>9, <1>10, <1>11, <1>12, Zenon DEF Dropped

\* The array at q replaces the empty one at p.
LEMMA HeapSwap ==
  ASSUME NEW m, NEW L, NEW A, NEW o, HeapInv(m, L, A, o),
         NEW p \in Places, NEW q \in Places, p # q, Home(m, A, p) = {}, NEW A2, NEW o2,
         \A x \in Places : /\ A2[x] = IF x = p THEN A[q] ELSE IF x = q THEN NoBuckets ELSE A[x]
                           /\ o2[x] \in Nat
                           /\ x # p /\ x # q => o2[x] = o[x],
         o2[p] = o[q]
  PROVE  /\ HeapInv(m, L, A2, o2)
         /\ Home(m, A2, p) = Home(m, A, q)
         /\ Home(m, A2, q) = {}
         /\ \A x \in Places : x # p /\ x # q => Home(m, A2, x) = Home(m, A, x)
<1>1. /\ DOMAIN A2[q] = {} /\ A2[q] = NoBuckets /\ A2[p] = A[q] /\ DOMAIN A2[p] = DOMAIN A[q]
      /\ \A x \in Places : x # p /\ x # q => A2[x] = A[x]
  BY DEF NoBuckets
<1>2. /\ \A i : In(m, A2, p, i) = In(m, A, q, i)
      /\ \A x \in Places : x # p /\ x # q => \A i : In(m, A2, x, i) = In(m, A, x, i)
  BY <1>1 DEF In
<1>3. /\ Home(m, A2, p) = Home(m, A, q)
      /\ \A x \in Places : x # p /\ x # q => Home(m, A2, x) = Home(m, A, x)
  BY <1>1, <1>2 DEF Home
<1>4. Home(m, A2, q) = {}
  BY <1>1, HomeFacts
<1>5. \A i \in DOMAIN A[p] : In(m, A, p, i) = {}
  BY HomeFacts
<1>6. Linked(m, A2)
  <2>1. Linked(m, A)
    BY HeapForm
  <2> QED
    BY <1>1, <2>1 DEF Linked
<1>7. Sorted(m, A2, o2)
  <2>1. Sorted(m, A, o)
    BY HeapForm
  <2> QED
    BY <1>1, <1>2, <2>1 DEF Sorted
<1>8. Sized(A2, o2)
  <2>1. Sized(A, o)
    BY HeapForm
  <2> QED
    BY <1>1, <2>1 DEF Sized
<1>9. Allocated(m, L, A2)
  <2>1. Allocated(m, L, A)
    BY HeapForm
  <2>2. ASSUME NEW n \in L
        PROVE  \E x \in Places : \E j \in DOMAIN A2[x] : n \in In(m, A2, x, j)
    <3>1. PICK x \in Places : \E j \in DOMAIN A[x] : n \in In(m, A, x, j)
      BY <2>1 DEF Allocated
    <3>2. x # p
      BY <1>5, <3>1
    <3>3. CASE x = q
      BY <1>1, <1>2, <3>1, <3>3
    <3>4. CASE x # q
      BY <1>1, <1>2, <3>1, <3>2, <3>4
    <3> QED
      BY <3>3, <3>4
  <2>3. ASSUME NEW x \in Places, NEW j \in DOMAIN A2[x], NEW n \in In(m, A2, x, j)
        PROVE  n \in L
    BY <1>1, <1>2, <2>1 DEF Allocated
  <2> QED
    BY <2>2, <2>3, Zenon DEF Allocated
<1>10. Apart(m, A2)
  <2>1. Apart(m, A)
    BY HeapForm
  <2>2. ASSUME NEW x \in Places, NEW y \in Places, NEW i \in DOMAIN A2[x], NEW j \in DOMAIN A2[y],
               NEW n, n \in In(m, A2, x, i), n \in In(m, A2, y, j)
        PROVE  x = y /\ i = j
    <3> DEFINE a == IF x = p THEN q ELSE x
               b == IF y = p THEN q ELSE y
    <3>1. x # q /\ y # q
      BY <1>1
    <3>2. a \in Places /\ i \in DOMAIN A[a] /\ n \in In(m, A, a, i)
      BY <1>1, <1>2, <2>2, <3>1
    <3>3. b \in Places /\ j \in DOMAIN A[b] /\ n \in In(m, A, b, j)
      BY <1>1, <1>2, <2>2, <3>1
    <3>4. a = b /\ i = j
      <4> HIDE DEF a, b
      <4> QED
        BY <2>1, <3>2, <3>3 DEF Apart
    <3> QED
      BY <3>1, <3>4
  <2> QED
    BY <2>2, Zenon DEF Apart
<1>11. HeapInv(m, L, A2, o2)
  <2>1. m \in [Nodes -> NodeType]
    BY HeapForm
  <2> QED
    BY <1>6, <1>7, <1>8, <1>9, <1>10, <2>1, HeapForm
<1> QED
  BY <1>3, <1>4, <1>11

---------------------------------------------------------------------------
(* Iterations over the baggage *)

\* An array with a node in it is not the null pointer; Src is a place.
LEMMA PlaceFacts ==
  /\ Src \in Places /\ NoThread \in Places /\ Threads \subseteq Places
  /\ Src # NoThread /\ Src \notin Threads /\ NoThread \notin Threads
  /\ \A t \in Tables : t \in Places /\ t # NoThread
  /\ \A p \in Places : p \in Tables \/ p = NoThread
BY NameAssumption DEF Places, Tables

\* An iteration that stands on the entry in bucket i has passed the nodes of
\* the buckets before, and those before the entry.
Ahead(s, entry, done, n) ==
  \E k \in 1 .. Len(s) :
    s[k] = n /\ \A j \in 1 .. Len(s) : s[j] = entry => k < j \/ (done /\ k = j)

\* The same of Passed.
LEMMA PassedMembers ==
  ASSUME NEW m, NEW L, NEW A, NEW o, HeapInv(m, L, A, o),
         NEW i \in DOMAIN A[Src], NEW s, s = Chain(m, A[Src][i]),
         NEW entry, NEW done
  PROVE  \A n : n \in Passed(m, A, i, entry, done) <=>
                  (\E b \in 0 .. i - 1 : n \in In(m, A, Src, b)) \/ Ahead(s, entry, done, n)
<1>1. IsChain(m, A[Src][i], s)
  BY HeapFacts, PlaceFacts
<1>2. DOMAIN s = 1 .. Len(s)
  BY <1>1, ChainFacts
<1> DEFINE U == UNION {In(m, A, Src, b) : b \in 0 .. i - 1}
           c == Chain(m, A[Src][i])
           V == {c[k] : k \in {k \in DOMAIN c : \A j \in DOMAIN c :
                                 c[j] = entry => k < j \/ (done /\ k = j)}}
<1>3. Passed(m, A, i, entry, done) = U \cup V
  BY Zenon DEF Passed
<1>4. \A n : n \in U <=> \E b \in 0 .. i - 1 : n \in In(m, A, Src, b)
  BY Zenon
<1>5. \A n : n \in V <=> \E k \in DOMAIN c :
        c[k] = n /\ \A j \in DOMAIN c : c[j] = entry => k < j \/ (done /\ k = j)
  BY Zenon
<1> HIDE DEF U, V
<1>6. c = s
  OBVIOUS
<1> HIDE DEF c
<1>7. \A n : n \in V <=> Ahead(s, entry, done, n)
  BY <1>2, <1>5, <1>6 DEF Ahead
<1> QED
  BY <1>3, <1>4, <1>7

\* The places of a bucket of the baggage.
LEMMA BucketChain ==
  ASSUME NEW m, NEW L, NEW A, NEW o, HeapInv(m, L, A, o),
         NEW i \in DOMAIN A[Src], NEW s, s = Chain(m, A[Src][i])
  PROVE  /\ i \in Nat /\ i < BucketCount(o[Src]) /\ BucketCount(o[Src]) \in Nat
         /\ DOMAIN A[Src] = 0 .. BucketCount(o[Src]) - 1
         /\ Len(s) \in Nat
         /\ \A n : n \in In(m, A, Src, i) <=> \E k \in 1 .. Len(s) : s[k] = n
         /\ \A k \in 1 .. Len(s) : s[k] \in Nodes /\ s[k] # Null
         /\ \A k, j \in 1 .. Len(s) : s[k] = s[j] => k = j
         /\ A[Src][i].head = IF Len(s) = 0 THEN Null ELSE s[1]
         /\ \A k \in 1 .. Len(s) : m[s[k]].next = IF k = Len(s) THEN Null ELSE s[k + 1]
<1>1. IsChain(m, A[Src][i], s)
  BY HeapFacts, PlaceFacts
<1>2. A[Src] # NoBuckets /\ o[Src] \in Nat
  BY HeapFacts, PlaceFacts
<1>3. DOMAIN A[Src] = 0 .. BucketCount(o[Src]) - 1
  BY <1>2, HeapFacts, PlaceFacts
<1>4. BucketCount(o[Src]) \in Nat
  <2> DEFINE k == o[Src]
  <2>1. k \in Nat
    BY <1>2
  <2> HIDE DEF k
  <2>2. BucketCount(k) \in Nat
    BY <2>1, BucketFacts
  <2> QED
    BY <2>2 DEF k
<1>5. i \in Nat /\ i < BucketCount(o[Src])
  BY <1>3, <1>4
<1>6. /\ Len(s) \in Nat
      /\ \A n : n \in In(m, A, Src, i) <=> \E k \in 1 .. Len(s) : s[k] = n
      /\ \A k \in 1 .. Len(s) : s[k] \in Nodes /\ s[k] # Null
  BY <1>1, ChainFacts DEF In
<1>7. /\ \A k, j \in 1 .. Len(s) : s[k] = s[j] => k = j
      /\ A[Src][i].head = IF Len(s) = 0 THEN Null ELSE s[1]
      /\ \A k \in 1 .. Len(s) : m[s[k]].next = IF k = Len(s) THEN Null ELSE s[k + 1]
  BY <1>1, Zenon DEF IsChain
<1> QED
  BY <1>3, <1>4, <1>5, <1>6, <1>7

\* The earlier buckets are other buckets.
LEMMA EarlierBuckets ==
  ASSUME NEW m, NEW L, NEW A, NEW o, HeapInv(m, L, A, o),
         NEW i \in DOMAIN A[Src], NEW b \in 0 .. i - 1
  PROVE  /\ b \in DOMAIN A[Src] /\ b # i
         /\ \A n : n \in In(m, A, Src, b) => n \notin In(m, A, Src, i)
         /\ In(m, A, Src, b) \subseteq Home(m, A, Src)
<1>1. /\ i \in Nat /\ i < BucketCount(o[Src]) /\ BucketCount(o[Src]) \in Nat
      /\ DOMAIN A[Src] = 0 .. BucketCount(o[Src]) - 1
  BY BucketChain
<1>2. b \in DOMAIN A[Src] /\ b # i
  BY <1>1
<1>3. \A n : n \in In(m, A, Src, b) => n \notin In(m, A, Src, i)
  BY <1>2, InOnce, PlaceFacts
<1> QED
  BY <1>2, <1>3, HeapFacts, PlaceFacts

\* At the start nothing is passed.
LEMMA PassedNone ==
  ASSUME NEW m, NEW L, NEW A, NEW o, HeapInv(m, L, A, o), 0 \in DOMAIN A[Src]
  PROVE  Passed(m, A, 0, A[Src][0].head, FALSE) = {}
<1> DEFINE s == Chain(m, A[Src][0])
<1>1. /\ Len(s) \in Nat
      /\ A[Src][0].head = IF Len(s) = 0 THEN Null ELSE s[1]
  BY BucketChain
<1>2. \A n : n \in Passed(m, A, 0, A[Src][0].head, FALSE) <=>
             (\E b \in 0 .. 0 - 1 : n \in In(m, A, Src, b)) \/ Ahead(s, A[Src][0].head, FALSE, n)
  BY PassedMembers
<1> HIDE DEF s
<1>3. \A k \in 1 .. Len(s) : 1 \in 1 .. Len(s) /\ s[1] = A[Src][0].head /\ ~(k < 1)
  BY <1>1
<1>4. 0 .. 0 - 1 = {}
  OBVIOUS
<1>5. \A n : n \notin Passed(m, A, 0, A[Src][0].head, FALSE)
  BY <1>2, <1>3, <1>4 DEF Ahead
<1> QED
  BY <1>5

\* The entry is passed when its visit is over, not before.
LEMMA PassedEntry ==
  ASSUME NEW m, NEW L, NEW A, NEW o, HeapInv(m, L, A, o),
         NEW i \in DOMAIN A[Src], NEW e \in In(m, A, Src, i)
  PROVE  /\ Passed(m, A, i, e, TRUE) = Passed(m, A, i, e, FALSE) \cup {e}
         /\ e \notin Passed(m, A, i, e, FALSE)
<1> DEFINE s == Chain(m, A[Src][i])
<1>1. /\ Len(s) \in Nat
      /\ \A n : n \in In(m, A, Src, i) <=> \E k \in 1 .. Len(s) : s[k] = n
      /\ \A k, j \in 1 .. Len(s) : s[k] = s[j] => k = j
  BY BucketChain
<1>2. \A n : n \in Passed(m, A, i, e, TRUE) <=>
             (\E b \in 0 .. i - 1 : n \in In(m, A, Src, b)) \/ Ahead(s, e, TRUE, n)
  BY PassedMembers
<1>3. \A n : n \in Passed(m, A, i, e, FALSE) <=>
             (\E b \in 0 .. i - 1 : n \in In(m, A, Src, b)) \/ Ahead(s, e, FALSE, n)
  BY PassedMembers
<1>4. \A b \in 0 .. i - 1 : e \notin In(m, A, Src, b)
  BY EarlierBuckets
<1> HIDE DEF s
<1>5. PICK x \in 1 .. Len(s) : s[x] = e
  BY <1>1
<1>6. \A j \in 1 .. Len(s) : s[j] = e => j = x
  BY <1>1, <1>5
<1>7. \A n : Ahead(s, e, TRUE, n) <=> (\E k \in 1 .. Len(s) : s[k] = n /\ k <= x)
  BY <1>1, <1>5, <1>6 DEF Ahead
<1>8. \A n : Ahead(s, e, FALSE, n) <=> (\E k \in 1 .. Len(s) : s[k] = n /\ k < x)
  BY <1>1, <1>5, <1>6 DEF Ahead
<1>9. \A n : (\E k \in 1 .. Len(s) : s[k] = n /\ k <= x)
             <=> (\E k \in 1 .. Len(s) : s[k] = n /\ k < x) \/ n = e
  BY <1>1, <1>5
<1>10. ~(\E k \in 1 .. Len(s) : s[k] = e /\ k < x)
  BY <1>1, <1>6
<1>11. \A n : n \in Passed(m, A, i, e, TRUE) <=> n \in Passed(m, A, i, e, FALSE) \/ n = e
  BY <1>2, <1>3, <1>7, <1>8, <1>9
<1>12. e \notin Passed(m, A, i, e, FALSE)
  BY <1>3, <1>4, <1>8, <1>10
<1> QED
  BY <1>11, <1>12

\* Going on to the next entry passes nothing.
LEMMA PassedNext ==
  ASSUME NEW m, NEW L, NEW A, NEW o, HeapInv(m, L, A, o),
         NEW i \in DOMAIN A[Src], NEW e \in In(m, A, Src, i)
  PROVE  /\ Passed(m, A, i, m[e].next, FALSE) = Passed(m, A, i, e, TRUE)
         /\ m[e].next \in In(m, A, Src, i) \cup {Null}
<1> DEFINE s == Chain(m, A[Src][i])
           f == m[e].next
<1>1. /\ Len(s) \in Nat
      /\ \A n : n \in In(m, A, Src, i) <=> \E k \in 1 .. Len(s) : s[k] = n
      /\ \A k \in 1 .. Len(s) : s[k] \in Nodes /\ s[k] # Null
      /\ \A k, j \in 1 .. Len(s) : s[k] = s[j] => k = j
      /\ \A k \in 1 .. Len(s) : m[s[k]].next = IF k = Len(s) THEN Null ELSE s[k + 1]
  BY BucketChain
<1>2. \A n : n \in Passed(m, A, i, e, TRUE) <=>
             (\E b \in 0 .. i - 1 : n \in In(m, A, Src, b)) \/ Ahead(s, e, TRUE, n)
  BY PassedMembers
<1>3. \A n : n \in Passed(m, A, i, f, FALSE) <=>
             (\E b \in 0 .. i - 1 : n \in In(m, A, Src, b)) \/ Ahead(s, f, FALSE, n)
  BY PassedMembers
<1> HIDE DEF s
<1>5. PICK x \in 1 .. Len(s) : s[x] = e
  BY <1>1
<1>6. \A j \in 1 .. Len(s) : s[j] = e => j = x
  BY <1>1, <1>5
<1>7. f = IF x = Len(s) THEN Null ELSE s[x + 1]
  BY <1>1, <1>5
<1> HIDE DEF f
<1>8. \A n : Ahead(s, e, TRUE, n) <=> (\E k \in 1 .. Len(s) : s[k] = n /\ k <= x)
  BY <1>1, <1>5, <1>6 DEF Ahead
<1>9. CASE x = Len(s)
  <2>1. \A j \in 1 .. Len(s) : s[j] # f /\ j <= x
    BY <1>1, <1>7, <1>9
  <2>2. \A n : Ahead(s, f, FALSE, n) <=> (\E k \in 1 .. Len(s) : s[k] = n /\ k <= x)
    BY <2>1 DEF Ahead
  <2>3. \A n : n \in Passed(m, A, i, f, FALSE) <=> n \in Passed(m, A, i, e, TRUE)
    BY <1>2, <1>3, <1>8, <2>2
  <2> QED
    BY <1>7, <1>9, <2>3 DEF f
<1>10. CASE x # Len(s)
  <2>1. x + 1 \in 1 .. Len(s) /\ f = s[x + 1]
    BY <1>1, <1>5, <1>7, <1>10
  <2>2. \A j \in 1 .. Len(s) : s[j] = f => j = x + 1
    BY <1>1, <2>1
  <2>3. \A n : Ahead(s, f, FALSE, n) <=> (\E k \in 1 .. Len(s) : s[k] = n /\ k <= x)
    <3>1. \A k \in 1 .. Len(s) : (\A j \in 1 .. Len(s) : s[j] = f => k < j \/ (FALSE /\ k = j)) <=> k < x + 1
      BY <2>1, <2>2
    <3>2. \A k \in 1 .. Len(s) : k < x + 1 <=> k <= x
      BY <1>1, <1>5
    <3> QED
      BY <3>1, <3>2 DEF Ahead
  <2>4. \A n : n \in Passed(m, A, i, f, FALSE) <=> n \in Passed(m, A, i, e, TRUE)
    BY <1>2, <1>3, <1>8, <2>3
  <2>5. f \in In(m, A, Src, i)
    BY <1>1, <2>1
  <2> QED
    BY <2>4, <2>5 DEF f
<1> QED
  BY <1>9, <1>10

\* At the end of a bucket all of it is passed.
LEMMA PassedBucket ==
  ASSUME NEW m, NEW L, NEW A, NEW o, HeapInv(m, L, A, o),
         NEW i \in DOMAIN A[Src], NEW done
  PROVE  \A n : n \in Passed(m, A, i, Null, done) <=>
                  \E b \in 0 .. i : n \in In(m, A, Src, b)
<1> DEFINE s == Chain(m, A[Src][i])
<1>1. /\ Len(s) \in Nat /\ i \in Nat
      /\ \A n : n \in In(m, A, Src, i) <=> \E k \in 1 .. Len(s) : s[k] = n
      /\ \A k \in 1 .. Len(s) : s[k] # Null
  BY BucketChain
<1>2. \A n : n \in Passed(m, A, i, Null, done) <=>
             (\E b \in 0 .. i - 1 : n \in In(m, A, Src, b)) \/ Ahead(s, Null, done, n)
  BY PassedMembers
<1> HIDE DEF s
<1>3. \A n : n \in Passed(m, A, i, Null, done) <=>
             (\E b \in 0 .. i - 1 : n \in In(m, A, Src, b)) \/ n \in In(m, A, Src, i)
  BY <1>1, <1>2 DEF Ahead
<1>4. \A b : b \in 0 .. i <=> b \in 0 .. i - 1 \/ b = i
  BY <1>1
<1> QED
  BY <1>3, <1>4

\* Going on to the next bucket passes nothing.
LEMMA PassedOn ==
  ASSUME NEW m, NEW L, NEW A, NEW o, HeapInv(m, L, A, o),
         NEW i \in DOMAIN A[Src], NEW h \in DOMAIN A[Src], h = i + 1, NEW done
  PROVE  /\ Passed(m, A, h, A[Src][h].head, FALSE) = Passed(m, A, i, Null, done)
         /\ A[Src][h].head \in In(m, A, Src, h) \cup {Null}
<1> DEFINE s == Chain(m, A[Src][h])
           e == A[Src][h].head
<1>1. h \in DOMAIN A[Src] /\ i \in Nat /\ h - 1 = i
  BY BucketChain
<1>2. /\ Len(s) \in Nat
      /\ \A n : n \in In(m, A, Src, h) <=> \E k \in 1 .. Len(s) : s[k] = n
      /\ e = IF Len(s) = 0 THEN Null ELSE s[1]
  <2> HIDE DEF s
  <2>1. s = Chain(m, A[Src][h]) /\ HeapInv(m, L, A, o) /\ h \in DOMAIN A[Src]
    BY <1>1 DEF s
  <2>2. Len(s) \in Nat
    BY ONLY <2>1, BucketChain
  <2>3. \A n : n \in In(m, A, Src, h) <=> \E k \in 1 .. Len(s) : s[k] = n
    BY ONLY <2>1, BucketChain
  <2>4. A[Src][h].head = IF Len(s) = 0 THEN Null ELSE s[1]
    BY ONLY <2>1, BucketChain
  <2> QED
    BY <2>2, <2>3, <2>4, Zenon
<1>3. \A n : n \in Passed(m, A, h, e, FALSE) <=>
             (\E b \in 0 .. h - 1 : n \in In(m, A, Src, b)) \/ Ahead(s, e, FALSE, n)
  BY <1>1, PassedMembers
<1> HIDE DEF s, e
<1>4. \A k \in 1 .. Len(s) : 1 \in 1 .. Len(s) /\ s[1] = e /\ ~(k < 1)
  BY <1>2
<1>5. \A n : n \in Passed(m, A, h, e, FALSE) <=> \E b \in 0 .. i : n \in In(m, A, Src, b)
  BY <1>1, <1>3, <1>4 DEF Ahead
<1>6. \A n : n \in Passed(m, A, i, Null, done) <=> \E b \in 0 .. i : n \in In(m, A, Src, b)
  BY PassedBucket
<1>7. Passed(m, A, h, e, FALSE) = Passed(m, A, i, Null, done)
  BY <1>5, <1>6
<1>8. e \in In(m, A, Src, h) \cup {Null}
  BY <1>2, <1>4
<1> QED
  BY <1>7, <1>8 DEF e

\* At the end of the last bucket all of the table is passed.
LEMMA PassedAll ==
  ASSUME NEW m, NEW L, NEW A, NEW o, HeapInv(m, L, A, o),
         NEW i \in DOMAIN A[Src], ~(i + 1 < BucketCount(o[Src])), NEW done
  PROVE  Passed(m, A, i, Null, done) = Home(m, A, Src)
<1>1. /\ i \in Nat /\ i < BucketCount(o[Src]) /\ BucketCount(o[Src]) \in Nat
      /\ DOMAIN A[Src] = 0 .. BucketCount(o[Src]) - 1
  BY BucketChain
<1>2. 0 .. i = DOMAIN A[Src]
  BY <1>1
<1>3. \A n : n \in Passed(m, A, i, Null, done) <=> n \in Home(m, A, Src)
  BY <1>2, PassedBucket, HomeFacts
<1> QED
  BY <1>3

\* What is passed is in the table.
LEMMA PassedHome ==
  ASSUME NEW m, NEW L, NEW A, NEW o, HeapInv(m, L, A, o),
         NEW i \in DOMAIN A[Src], NEW e, NEW done
  PROVE  /\ Passed(m, A, i, e, done) \subseteq Home(m, A, Src)
         /\ \A x : Passed(m, A, i, e, done) \subseteq Passed(m, A, i, Null, x)
<1> DEFINE s == Chain(m, A[Src][i])
<1>1. /\ Len(s) \in Nat /\ i \in Nat
      /\ \A n : n \in In(m, A, Src, i) <=> \E k \in 1 .. Len(s) : s[k] = n
  BY BucketChain
<1>2. \A n : n \in Passed(m, A, i, e, done) <=>
             (\E b \in 0 .. i - 1 : n \in In(m, A, Src, b)) \/ Ahead(s, e, done, n)
  BY PassedMembers
<1> HIDE DEF s
<1>3. \A n : n \in Passed(m, A, i, e, done) =>
             (\E b \in 0 .. i - 1 : n \in In(m, A, Src, b)) \/ n \in In(m, A, Src, i)
  BY <1>1, <1>2 DEF Ahead
<1>4. \A b : b \in 0 .. i <=> b \in 0 .. i - 1 \/ b = i
  BY <1>1
<1>5. \A n : n \in Passed(m, A, i, e, done) => \E b \in 0 .. i : n \in In(m, A, Src, b)
  BY <1>3, <1>4
<1>6. \A x : Passed(m, A, i, e, done) \subseteq Passed(m, A, i, Null, x)
  BY <1>5, PassedBucket
<1>7. \A b \in 0 .. i - 1 : In(m, A, Src, b) \subseteq Home(m, A, Src)
  BY EarlierBuckets
<1>8. In(m, A, Src, i) \subseteq Home(m, A, Src)
  BY HeapFacts, PlaceFacts
<1> QED
  BY <1>3, <1>6, <1>7, <1>8

\* What is passed depends on the lists of the table only.
LEMMA PassedFrame ==
  ASSUME NEW m, NEW L, NEW A, NEW o, HeapInv(m, L, A, o),
         NEW i \in DOMAIN A[Src], NEW e, NEW done, NEW m2, NEW A2,
         \A b \in DOMAIN A[Src] : Chain(m2, A2[Src][b]) = Chain(m, A[Src][b])
  PROVE  /\ Passed(m2, A2, i, e, done) = Passed(m, A, i, e, done)
         /\ In(m2, A2, Src, i) = In(m, A, Src, i)
<1>1. \A b \in 0 .. i - 1 : b \in DOMAIN A[Src]
  BY EarlierBuckets
<1>2. \A b \in DOMAIN A[Src] : In(m2, A2, Src, b) = In(m, A, Src, b)
  BY Zenon DEF In
<1>3. UNION {In(m2, A2, Src, b) : b \in 0 .. i - 1} = UNION {In(m, A, Src, b) : b \in 0 .. i - 1}
  BY <1>1, <1>2, Zenon
<1>4. Chain(m2, A2[Src][i]) = Chain(m, A[Src][i])
  OBVIOUS
<1> QED
  BY <1>2, <1>3, <1>4, Zenon DEF Passed

---------------------------------------------------------------------------
(* Lookups, allocation and records *)

\* A key's index is that of a bucket.
LEMMA IndexFacts ==
  ASSUME NEW k \in Keys, NEW order \in Nat
  PROVE  Index(k, order) \in 0 .. BucketCount(order) - 1
<1>1. Hash[k] \in Nat
  BY HashAssumption
<1>2. BucketCount(order) \in Nat /\ 0 < BucketCount(order)
  BY BucketFacts
<1> DEFINE a == Hash[k]
           b == BucketCount(order)
<1> HIDE DEF a, b
<1>3. \A x, y \in Nat : 0 < y => x % y \in 0 .. y - 1
  OBVIOUS
<1>4. a % b \in 0 .. b - 1
  BY <1>1, <1>2, <1>3 DEF a, b
<1> QED
  BY <1>4 DEF Index, a, b

\* There are buckets in every array.
LEMMA PlaceBuckets ==
  ASSUME NEW m, NEW L, NEW A, NEW o, HeapInv(m, L, A, o), NEW p \in Places
  PROVE  BucketCount(o[p]) \in Nat /\ 0 < BucketCount(o[p])
<1> DEFINE k == o[p]
<1>1. k \in Nat
  BY HeapFacts
<1> HIDE DEF k
<1>2. BucketCount(k) \in Nat /\ k < BucketCount(k)
  BY <1>1, BucketFacts
<1>3. 0 < BucketCount(k)
  BY <1>1, <1>2
<1> QED
  BY <1>2, <1>3 DEF k

\* The arrays of the places.
LEMMA ArrayFacts ==
  /\ \A x \in Tables : Array[x] = table[x].buckets /\ Order[x] = table[x].order
  /\ Array[NoThread] = IF mutex = NoThread THEN NoBuckets ELSE move[mutex].new
  /\ Order[NoThread] = table[Src].order + 1
  /\ Array = [p \in Places |-> Array[p]]
  /\ Order = [p \in Places |-> Order[p]]
<1>1. ASSUME NEW x \in Tables
      PROVE  Array[x] = table[x].buckets /\ Order[x] = table[x].order
  BY PlaceFacts DEF Array, Order
<1>2. Array[NoThread] = IF mutex = NoThread THEN NoBuckets ELSE move[mutex].new
  BY PlaceFacts DEF Array
<1>3. Order[NoThread] = table[Src].order + 1
  BY PlaceFacts DEF Order
<1>4. Array = [p \in Places |-> Array[p]] /\ Order = [p \in Places |-> Order[p]]
  BY DEF Array, Order
<1> QED
  BY <1>1, <1>2, <1>3, <1>4

\* The same in the next state.
LEMMA ArrayFactsNext ==
  (/\ \A x \in Tables : Array[x] = table[x].buckets /\ Order[x] = table[x].order
   /\ Array[NoThread] = IF mutex = NoThread THEN NoBuckets ELSE move[mutex].new
   /\ Order[NoThread] = table[Src].order + 1
   /\ Array = [p \in Places |-> Array[p]]
   /\ Order = [p \in Places |-> Order[p]])'
BY ArrayFacts, PTL

\* jaeger_hashtable_internal_lookup finds the node with the key if there is one.
LEMMA LookupFacts ==
  ASSUME HeapInv(node, live, Array, Order), NEW x \in Tables,
         table[x].buckets # NoBuckets, NEW k \in Keys
  PROVE  /\ Index(k, table[x].order) \in DOMAIN Array[x]
         /\ Lookup(table[x], k) = Null =>
              \A n \in Home(node, Array, x) : node[n].key # k
         /\ Lookup(table[x], k) # Null =>
              /\ Lookup(table[x], k) \in In(node, Array, x, Index(k, table[x].order))
              /\ Lookup(table[x], k) \in Home(node, Array, x)
              /\ Lookup(table[x], k) \in Nodes
              /\ node[Lookup(table[x], k)].key = k
<1> DEFINE i == Index(k, table[x].order)
           s == Chain(node, table[x].buckets[i])
           found == {j \in DOMAIN s : node[s[j]].key = k}
<1>1. /\ x \in Places /\ Array[x] = table[x].buckets /\ Order[x] = table[x].order
      /\ Array[x] # NoBuckets
  BY PlaceFacts, ArrayFacts
<1>2. Order[x] \in Nat /\ DOMAIN Array[x] = 0 .. BucketCount(Order[x]) - 1
  BY <1>1, HeapFacts
<1>3. i \in DOMAIN Array[x]
  BY <1>1, <1>2, IndexFacts
<1>4. IsChain(node, Array[x][i], s) /\ In(node, Array, x, i) = Range(s)
  BY <1>1, <1>3, HeapFacts DEF In
<1>5. /\ DOMAIN s = 1 .. Len(s) /\ Len(s) \in Nat
      /\ \A n : n \in In(node, Array, x, i) <=> \E j \in 1 .. Len(s) : s[j] = n
      /\ \A j \in 1 .. Len(s) : s[j] # Null
  BY <1>4, ChainFacts
<1>6. Lookup(table[x], k) = IF found = {} THEN Null
                            ELSE s[CHOOSE j \in found : \A h \in found : j <= h]
  BY Zenon DEF Lookup
<1> HIDE DEF s, i
<1>7. CASE found = {}
  <2>1. Lookup(table[x], k) = Null
    BY <1>6, <1>7
  <2>2. ASSUME NEW n \in Home(node, Array, x), node[n].key = k
        PROVE  FALSE
    <3>1. PICK j \in DOMAIN Array[x] : n \in In(node, Array, x, j)
      BY HomeFacts
    <3>2. Index(node[n].key, Order[x]) = j
      BY <1>1, <3>1, InFacts
    <3>3. j = i
      BY <1>1, <2>2, <3>2 DEF i
    <3> QED
      BY <1>5, <1>7, <2>2, <3>1, <3>3
  <2> QED
    BY <1>3, <2>1, <2>2 DEF i
<1>8. CASE found # {}
  <2>1. found \in SUBSET Nat
    BY <1>5
  <2> DEFINE c == CHOOSE j \in found : \A h \in found : j <= h
  <2>2. c \in found
    <3> HIDE DEF found
    <3>1. \E j \in found : \A h \in found : j <= h
      BY <1>8, <2>1, LeastNumber
    <3> QED
      BY <3>1, Zenon
  <2> HIDE DEF c
  <2>3. c \in 1 .. Len(s) /\ node[s[c]].key = k
    BY <1>5, <2>2
  <2>4. Lookup(table[x], k) = s[c]
    BY <1>6, <1>8 DEF c
  <2>5. s[c] # Null /\ s[c] \in In(node, Array, x, i)
    BY <1>5, <2>3
  <2>6. s[c] \in Home(node, Array, x) /\ s[c] \in Nodes
    BY <1>1, <1>3, <2>5, InFacts
  <2> QED
    BY <1>3, <2>3, <2>4, <2>5, <2>6 DEF i
<1> QED
  BY <1>7, <1>8

\* malloc returns an address that is not allocated.
LEMMA FreshFacts ==
  ASSUME live \subseteq Nodes, live # Nodes
  PROVE  Fresh \in Nodes /\ Fresh \notin live
<1> DEFINE F == Nodes \ live
<1>1. F \in SUBSET Nat /\ F # {}
  BY NameAssumption
<1>2. \E n \in F : \A m \in F : n <= m
  <2> HIDE DEF F
  <2> QED
    BY <1>1, LeastNumber
<1>3. Fresh \in F
  BY <1>2, Zenon DEF Fresh
<1> QED
  BY <1>3

\* One table changes.
TableSet(f, x, a, b, c, g) ==
  /\ IsTable(f) /\ x \in Tables /\ a \in Nat /\ b \in Nat
  /\ g = [f EXCEPT ![x] = [size |-> a, order |-> b, buckets |-> c]]

\* Then it has its type.
LEMMA TableUpdate ==
  ASSUME NEW f, NEW x, NEW a, NEW b, NEW c, NEW g, TableSet(f, x, a, b, c, g)
  PROVE  /\ IsTable(g)
         /\ g[x] = [size |-> a, order |-> b, buckets |-> c]
         /\ \A y \in Tables : y # x => g[y] = f[y]
<1> /\ IsTable(f) /\ x \in Tables /\ a \in Nat /\ b \in Nat
    /\ g = [f EXCEPT ![x] = [size |-> a, order |-> b, buckets |-> c]]
  BY Zenon DEF TableSet
<1>1. /\ DOMAIN f = Tables
      /\ \A y \in Tables : f[y] \in [size : Nat, order : Nat, buckets : {f[t].buckets : t \in Tables}]
  BY Zenon DEF IsTable
<1>2. \A y \in Tables : f[y].size \in Nat /\ f[y].order \in Nat
          /\ f[y] = [size |-> f[y].size, order |-> f[y].order, buckets |-> f[y].buckets]
  BY <1>1
<1>3. /\ DOMAIN g = Tables
      /\ g[x] = [size |-> a, order |-> b, buckets |-> c]
      /\ \A y \in Tables : y # x => g[y] = f[y]
      /\ g = [y \in Tables |-> g[y]]
  BY <1>1
<1>4. ASSUME NEW y \in Tables
      PROVE  g[y] \in [size : Nat, order : Nat, buckets : {g[t].buckets : t \in Tables}]
  <2>1. /\ g[y].size \in Nat /\ g[y].order \in Nat
        /\ g[y] = [size |-> g[y].size, order |-> g[y].order, buckets |-> g[y].buckets]
    BY <1>2, <1>3
  <2>2. g[y].buckets \in {g[t].buckets : t \in Tables}
    BY Zenon
  <2> QED
    BY <2>1, <2>2
<1>5. IsTable(g)
  <2> DEFINE R == [size : Nat, order : Nat, buckets : {g[t].buckets : t \in Tables}]
  <2>1. \A y \in Tables : g[y] \in R
    BY <1>4
  <2> HIDE DEF R
  <2>2. g \in [Tables -> R]
    BY <1>3, <2>1
  <2> QED
    BY <2>2 DEF IsTable, R
<1> QED
  BY <1>3, <1>5

\* One rehash changes.
MoveSet(f, x, a, b, c, g) ==
  /\ IsMove(f) /\ x \in Threads /\ b \in Nat /\ c \in Nodes \cup {Null}
  /\ g = [f EXCEPT ![x] = [new |-> a, i |-> b, entry |-> c]]

\* Then it has its type.
LEMMA MoveUpdate ==
  ASSUME NEW f, NEW x, NEW a, NEW b, NEW c, NEW g, MoveSet(f, x, a, b, c, g)
  PROVE  /\ IsMove(g)
         /\ g[x] = [new |-> a, i |-> b, entry |-> c]
         /\ \A y \in Threads : y # x => g[y] = f[y]
<1> /\ IsMove(f) /\ x \in Threads /\ b \in Nat /\ c \in Nodes \cup {Null}
    /\ g = [f EXCEPT ![x] = [new |-> a, i |-> b, entry |-> c]]
  BY Zenon DEF MoveSet
<1>1. /\ DOMAIN f = Threads
      /\ \A y \in Threads : f[y] \in [new : {f[t].new : t \in Threads}, i : Nat, entry : Nodes \cup {Null}]
  BY Zenon DEF IsMove
<1>2. \A y \in Threads : f[y].i \in Nat /\ f[y].entry \in Nodes \cup {Null}
          /\ f[y] = [new |-> f[y].new, i |-> f[y].i, entry |-> f[y].entry]
  BY <1>1
<1>3. /\ DOMAIN g = Threads
      /\ g[x] = [new |-> a, i |-> b, entry |-> c]
      /\ \A y \in Threads : y # x => g[y] = f[y]
      /\ g = [y \in Threads |-> g[y]]
  BY <1>1
<1>4. ASSUME NEW y \in Threads
      PROVE  g[y] \in [new : {g[t].new : t \in Threads}, i : Nat, entry : Nodes \cup {Null}]
  <2>1. /\ g[y].i \in Nat /\ g[y].entry \in Nodes \cup {Null}
        /\ g[y] = [new |-> g[y].new, i |-> g[y].i, entry |-> g[y].entry]
    BY <1>2, <1>3
  <2>2. g[y].new \in {g[t].new : t \in Threads}
    BY Zenon
  <2> QED
    BY <2>1, <2>2
<1>5. IsMove(g)
  <2> DEFINE R == [new : {g[t].new : t \in Threads}, i : Nat, entry : Nodes \cup {Null}]
  <2>1. \A y \in Threads : g[y] \in R
    BY <1>4
  <2> HIDE DEF R
  <2>2. g \in [Threads -> R]
    BY <1>3, <2>1
  <2> QED
    BY <2>2 DEF IsMove, R
<1> QED
  BY <1>3, <1>5

\* The fields of the records.
LEMMA RecordForm ==
  ASSUME RecordInv
  PROVE  /\ DOMAIN table = Tables /\ DOMAIN move = Threads
         /\ \A x \in Tables : /\ table[x].size \in Nat /\ table[x].order \in Nat
                              /\ table[x] = [size |-> table[x].size, order |-> table[x].order,
                                             buckets |-> table[x].buckets]
         /\ \A t \in Threads : /\ move[t].i \in Nat /\ move[t].entry \in Nodes \cup {Null}
                               /\ move[t] = [new |-> move[t].new, i |-> move[t].i,
                                             entry |-> move[t].entry]
         /\ \A t \in Threads : /\ cursor[t].i \in Nat /\ cursor[t].len \in Nat
                               /\ cursor[t].entry \in Nodes \cup {Null}
                               /\ cursor[t].all \in BOOLEAN
                               /\ cursor[t] = [i |-> cursor[t].i, len |-> cursor[t].len,
                                               entry |-> cursor[t].entry, all |-> cursor[t].all]
<1>1. /\ DOMAIN table = Tables
      /\ \A y \in Tables : table[y] \in [size : Nat, order : Nat, buckets : {table[t].buckets : t \in Tables}]
  BY Zenon DEF RecordInv, IsTable
<1>2. /\ DOMAIN move = Threads
      /\ \A y \in Threads : move[y] \in [new : {move[t].new : t \in Threads}, i : Nat, entry : Nodes \cup {Null}]
  BY Zenon DEF RecordInv, IsMove
<1>3. \A y \in Threads : cursor[y] \in [i : Nat, len : Nat, entry : Nodes \cup {Null}, all : BOOLEAN]
  BY Zenon DEF RecordInv
<1> QED
  BY <1>1, <1>2, <1>3

---------------------------------------------------------------------------
(* The invariant *)

\* The types that do not follow from the heap's invariant.
VarTypes ==
  /\ IsTable(table) /\ IsMove(move)
  /\ mutex \in Threads \cup {NoThread}
  /\ pc \in [Threads -> Labels]
  /\ op \in [Threads -> Operations \cup {"none"}]
  /\ arg \in [Threads -> [key : Keys, value : Values \cup {NoValue}]]
  /\ cursor \in [Threads -> [i : Nat, len : Nat, entry : Nodes \cup {Null}, all : BOOLEAN]]
  /\ seen \in [Threads -> Seq(Keys \X (Values \cup {NoValue}))]
  /\ removed \in Nat
  /\ crashed \in {"no", "assert", "race", "null"}
  /\ calls \in 0 .. MaxCalls

\* What the steps prove of the next state.
Core ==
  /\ VarTypes
  /\ HeapInv(node, live, Array, Order)
  /\ KeysInv /\ SizeInv /\ RemovedInv
  /\ \A t \in Threads : ThreadInv(t)

\* It is the invariant.
LEMMA CoreIsInv == Core <=> IndInv
<1>1. ASSUME IndInv
      PROVE  Core
  <2>1. removed \in 0 .. MaxCalls
    BY <1>1, Zenon DEF IndInv, TypeOK
  <2>2. removed \in Nat
    BY <2>1
  <2> QED
    BY <1>1, <2>2, Zenon DEF IndInv, Core, VarTypes, TypeOK, RecordInv
<1>2. ASSUME Core
      PROVE  IndInv
  <2>1. VarTypes /\ HeapInv(node, live, Array, Order) /\ RemovedInv
    BY <1>2, Zenon DEF Core
  <2>2. RecordInv
    BY <2>1, Zenon DEF VarTypes, RecordInv
  <2>3. \A x \in Tables : table[x].size \in Nat /\ table[x].order \in Nat
    BY <2>2, RecordForm
  <2>4. ASSUME NEW x \in Tables
        PROVE  \/ table[x].buckets = NoBuckets
               \/ table[x].buckets \in [0 .. BucketCount(table[x].order) - 1 -> List]
    <3>1. x \in Places /\ Array[x] = table[x].buckets /\ Order[x] = table[x].order
      BY PlaceFacts, ArrayFacts
    <3>2. Array[x] = NoBuckets \/ Array[x] \in [0 .. BucketCount(Order[x]) - 1 -> List]
      BY <2>1, <3>1, HeapFacts
    <3> QED
      BY <3>1, <3>2
  <2>5. node \in [Nodes -> NodeType] /\ live \subseteq Nodes
    BY <2>1, HeapFacts
  <2>6. removed \in 0 .. MaxCalls
    <3>1. removed \in Nat /\ calls \in 0 .. MaxCalls /\ MaxCalls \in Nat
      BY <2>1, OrderAssumption DEF VarTypes
    <3>2. removed <= calls
      BY <2>1, <3>1 DEF RemovedInv
    <3> QED
      BY <3>1, <3>2
  <2>7. TypeOK
    BY <2>1, <2>3, <2>4, <2>5, <2>6, Zenon DEF VarTypes, TypeOK
  <2> QED
    BY <1>2, <2>2, <2>7, Zenon DEF Core, IndInv
<1> QED
  BY <1>1, <1>2

\* In the next state too.
LEMMA CoreIsInvNext == (Core <=> IndInv)'
BY CoreIsInv, PTL

\* Where a thread is tells what it does and whether it holds the mutex.
LEMMA OpForm ==
  ASSUME NEW t \in Threads, OpInv(t), pc[t] \in Labels
  PROVE  /\ pc[t] = "idle" => op[t] = "none" /\ mutex # t
         /\ pc[t] = "rehash" => op[t] = "put" /\ mutex = t
         /\ pc[t] \in {"put", "insert"} => op[t] \in {"put", "copy"} /\ mutex = t
         /\ pc[t] \in {"scan", "next"} => op[t] \in {"copy", "foreach", "inject"}
         /\ pc[t] \in {"scan", "next"} => (mutex = t <=> op[t] # "inject")
         /\ pc[t] \in {"find", "remove"} => op[t] = pc[t] /\ mutex = t
         /\ pc[t] \in {"copy", "cleanup"} => op[t] = "copy" /\ mutex = t
         /\ pc[t] \in {"have", "destroy"} => op[t] = "copy" /\ mutex # t
BY DEF OpInv, Labels

\* The parts of the invariant.
LEMMA InvParts ==
  ASSUME IndInv
  PROVE  /\ RecordInv /\ VarTypes /\ HeapInv(node, live, Array, Order)
         /\ KeysInv /\ SizeInv /\ RemovedInv
         /\ \A t \in Threads : /\ OpInv(t) /\ TableInv(t) /\ RehashInv(t)
                               /\ CursorInv(t) /\ CopyInv(t) /\ SeenInv(t)
                               /\ pc[t] \in Labels
         /\ node \in [Nodes -> NodeType] /\ live \subseteq Nodes
         /\ mutex \in Threads \cup {NoThread}
         /\ removed \in Nat /\ calls \in Nat
<1>1. Core
  BY CoreIsInv
<1>2. RecordInv /\ TypeOK
  BY Zenon DEF IndInv
<1>3. VarTypes /\ HeapInv(node, live, Array, Order) /\ KeysInv /\ SizeInv /\ RemovedInv
  BY <1>1, Zenon DEF Core
<1>4. \A t \in Threads : /\ OpInv(t) /\ TableInv(t) /\ RehashInv(t)
                         /\ CursorInv(t) /\ CopyInv(t) /\ SeenInv(t)
  BY <1>1, Zenon DEF Core, ThreadInv
<1>5. /\ pc \in [Threads -> Labels]
      /\ mutex \in Threads \cup {NoThread}
      /\ removed \in Nat /\ calls \in 0 .. MaxCalls
  BY <1>3, Zenon DEF VarTypes
<1>6. node \in [Nodes -> NodeType] /\ live \subseteq Nodes
  BY <1>2, Zenon DEF TypeOK
<1>7. calls \in Nat
  BY <1>5
<1> QED
  BY <1>2, <1>3, <1>4, <1>5, <1>6, <1>7

\* What a table holds.
LEMMA HeldFacts ==
  ASSUME HeapInv(node, live, Array, Order)
  PROVE  /\ \A x \in Tables : /\ Home(node, Array, x) \subseteq Held(x)
                              /\ x # Src => Held(x) = Home(node, Array, x)
                              /\ Held(x) \subseteq live /\ Held(x) \subseteq Nodes
                              /\ IsFiniteSet(Held(x)) /\ Cardinality(Held(x)) \in Nat
         /\ Held(Src) = Home(node, Array, Src) \cup Home(node, Array, NoThread)
         /\ \A x, y \in Tables : x # y => Held(x) \cap Held(y) = {}
         /\ \A x \in Tables : \A n \in Held(x) :
              node[n].key \in Keys /\ node[n].value \in Values
<1>1. /\ \A x \in Tables : Home(node, Array, x) \subseteq Held(x)
                           /\ (x # Src => Held(x) = Home(node, Array, x))
      /\ Held(Src) = Home(node, Array, Src) \cup Home(node, Array, NoThread)
  BY DEF Held
<1>2. \A x \in Tables : x \in Places /\ x # NoThread
  BY PlaceFacts
<1>3. \A p \in Places : Home(node, Array, p) \subseteq live
  BY HeapFacts
<1>4. live \subseteq Nodes /\ node \in [Nodes -> NodeType]
  BY HeapFacts
<1>5. ASSUME NEW x \in Tables
      PROVE  /\ Held(x) \subseteq live /\ Held(x) \subseteq Nodes
             /\ IsFiniteSet(Held(x)) /\ Cardinality(Held(x)) \in Nat
  <2>1. Held(x) \subseteq live /\ Held(x) \subseteq Nodes
    BY <1>1, <1>2, <1>3, <1>4, PlaceFacts
  <2>2. IsFiniteSet(Held(x))
    BY <2>1, NameAssumption, FS_Subset
  <2> QED
    BY <2>1, <2>2, FS_CardinalityType
<1>6. ASSUME NEW x \in Tables, NEW y \in Tables, x # y
      PROVE  Held(x) \cap Held(y) = {}
  <2>1. \A p, q \in Places : \A n : n \in Home(node, Array, p) /\ n \in Home(node, Array, q) => p = q
    BY HeapFacts
  <2> QED
    BY <1>1, <1>2, <1>6, <2>1, PlaceFacts
<1>7. \A p \in Places : \A n \in Home(node, Array, p) : node[n].value \in Values
  BY HeapFacts
<1>8. \A n \in Nodes : node[n].key \in Keys
  BY <1>4 DEF NodeType
<1>9. \A x \in Tables : \A n \in Held(x) : node[n].key \in Keys /\ node[n].value \in Values
  BY <1>1, <1>2, <1>5, <1>7, <1>8, PlaceFacts
<1> QED
  BY <1>1, <1>5, <1>6, <1>9

\* There is an array of a rehash only during one.
LEMMA NoExtra ==
  ASSUME IndInv, \A t \in Threads : mutex = t => pc[t] # "rehash"
  PROVE  /\ Array[NoThread] = NoBuckets
         /\ Home(node, Array, NoThread) = {}
         /\ Held(Src) = Home(node, Array, Src)
<1>1. Array[NoThread] = NoBuckets
  <2>1. \A t \in Threads : move[t].new # NoBuckets <=> pc[t] = "rehash"
    BY InvParts DEF TableInv
  <2>2. mutex \in Threads \cup {NoThread}
    BY InvParts
  <2> QED
    BY <2>1, <2>2, ArrayFacts
<1>2. DOMAIN Array[NoThread] = {}
  BY <1>1 DEF NoBuckets
<1>3. Home(node, Array, NoThread) = {}
  BY <1>2, HomeFacts
<1> QED
  BY <1>1, <1>3 DEF Held

\* Locks, unlocks and returns have nothing to do with that array.
LEMMA ExtraFrame ==
  ASSUME IndInv, NEW t \in Threads, pc[t] # "rehash",
         move' = move \/ move' = [move EXCEPT ![t] = NoMove],
         mutex' = mutex \/ (mutex = NoThread /\ mutex' = t) \/ (mutex = t /\ mutex' = NoThread)
  PROVE  Array'[NoThread] = Array[NoThread]
<1>1. \A u \in Threads : move[u].new # NoBuckets <=> pc[u] = "rehash"
  BY InvParts DEF TableInv
<1>2. mutex \in Threads \cup {NoThread} /\ NoThread \notin Threads /\ DOMAIN move = Threads
  BY InvParts, PlaceFacts, RecordForm
<1>3. move'[t].new = move[t].new /\ \A u \in Threads : move'[u].new = move[u].new
  BY <1>1, <1>2 DEF NoMove
<1>4. Array[NoThread] = IF mutex = NoThread THEN NoBuckets ELSE move[mutex].new
  BY ArrayFacts
<1>5. Array'[NoThread] = IF mutex' = NoThread THEN NoBuckets ELSE move'[mutex'].new
  BY ArrayFactsNext
<1> QED
  BY <1>1, <1>2, <1>3, <1>4, <1>5

\* A step that leaves memory alone keeps what is said of it.
LEMMA SameMemory ==
  ASSUME IndInv, UNCHANGED memory, Array'[NoThread] = Array[NoThread], removed' = removed
  PROVE  /\ Array' = Array /\ Order' = Order
         /\ HeapInv(node', live', Array', Order')
         /\ \A x : Held(x)' = Held(x)
         /\ KeysInv' /\ SizeInv'
<1>1. node' = node /\ live' = live /\ table' = table
  BY DEF memory
<1>2. \A p \in Places : Array'[p] = Array[p] /\ Order'[p] = Order[p]
  BY <1>1, ArrayFacts, ArrayFactsNext, PlaceFacts, ZenonT(60)
<1>3. Array' = Array /\ Order' = Order
  BY <1>2, ArrayFacts, ArrayFactsNext
<1>4. HeapInv(node', live', Array', Order')
  BY <1>1, <1>3, InvParts
<1>5. \A x : Held(x)' = Held(x)
  BY <1>1, <1>3 DEF Held
<1>6. KeysInv'
  <2>1. KeysInv
    BY InvParts
  <2> QED
    BY <1>1, <1>5, <2>1 DEF KeysInv
<1>7. SizeInv'
  <2>1. SizeInv
    BY InvParts
  <2> QED
    BY <1>1, <1>5, <2>1 DEF SizeInv
<1> QED
  BY <1>3, <1>4, <1>5, <1>6, <1>7

\* Nothing of a thread changes.
Still(t) ==
  /\ pc'[t] = pc[t] /\ op'[t] = op[t] /\ arg'[t] = arg[t]
  /\ move'[t] = move[t] /\ cursor'[t] = cursor[t] /\ seen'[t] = seen[t]
  /\ mutex' = t <=> mutex = t

\* Then its invariant stays, if memory does.
LEMMA SameThread ==
  ASSUME IndInv, UNCHANGED memory, Array' = Array, NEW t \in Threads, Still(t)
  PROVE  ThreadInv(t)'
<1>1. node' = node /\ live' = live /\ table' = table
  BY DEF memory
<1>2. /\ pc'[t] = pc[t] /\ op'[t] = op[t] /\ arg'[t] = arg[t]
      /\ move'[t] = move[t] /\ cursor'[t] = cursor[t] /\ seen'[t] = seen[t]
      /\ mutex' = t <=> mutex = t
  BY DEF Still
<1>3. /\ OpInv(t) /\ TableInv(t) /\ RehashInv(t)
      /\ CursorInv(t) /\ CopyInv(t) /\ SeenInv(t)
  BY InvParts
<1>4. Held(t)' = Held(t)
  BY <1>1 DEF Held
<1>5. Done(t)' = Done(t) /\ Entry(t)' = Entry(t) /\ (Iterating(t)' <=> Iterating(t))
  BY <1>1, <1>2 DEF Done, Entry, Iterating
<1>6. OpInv(t)'
  BY <1>2, <1>3 DEF OpInv
<1>7. TableInv(t)'
  BY <1>1, <1>2, <1>3 DEF TableInv, AtThreshold, Mine, Target
<1>8. RehashInv(t)'
  BY <1>1, <1>2, <1>3 DEF RehashInv
<1>9. CursorInv(t)'
  BY <1>1, <1>2, <1>3, <1>5 DEF CursorInv
<1>10. CopyInv(t)'
  BY <1>1, <1>2, <1>3, <1>4, <1>5 DEF CopyInv
<1>11. SeenInv(t)'
  BY <1>1, <1>2, <1>3, <1>5 DEF SeenInv
<1> QED
  BY <1>6, <1>7, <1>8, <1>9, <1>10, <1>11 DEF ThreadInv

\* A thread without the mutex stays within the buckets as long as there are
\* no fewer.
LEMMA WaitingThread ==
  ASSUME IndInv, NEW t \in Threads, Still(t), mutex # t,
         table'[t].buckets = table[t].buckets,
         table[Src].buckets # NoBuckets => table'[Src].buckets # NoBuckets,
         BucketCount(table[Src].order) <= BucketCount(table'[Src].order),
         BucketCount(table[Src].order) \in Nat, BucketCount(table'[Src].order) \in Nat
  PROVE  ThreadInv(t)'
<1>2. /\ pc'[t] = pc[t] /\ op'[t] = op[t] /\ arg'[t] = arg[t]
      /\ move'[t] = move[t] /\ cursor'[t] = cursor[t] /\ seen'[t] = seen[t]
      /\ mutex' # t
  BY DEF Still
<1>3. /\ OpInv(t) /\ TableInv(t) /\ CursorInv(t) /\ pc[t] \in Labels
      /\ cursor[t].i \in Nat /\ cursor[t].len \in Nat
  BY InvParts, RecordForm
<1>4. /\ pc[t] \in {"idle", "have", "destroy", "scan", "next"}
      /\ pc[t] \in {"scan", "next"} => op[t] = "inject"
      /\ op[t] \in {"none", "copy", "inject"}
      /\ op[t] = "copy" => pc[t] \in {"have", "destroy"}
  BY <1>3, OpForm DEF Labels
<1>6. OpInv(t)'
  BY <1>2, <1>3, <1>4 DEF OpInv
<1>7. TableInv(t)'
  BY <1>2, <1>3, <1>4 DEF TableInv
<1>8. RehashInv(t)'
  BY <1>2, <1>4 DEF RehashInv
<1>9. CursorInv(t)'
  BY <1>2, <1>3, <1>4 DEF CursorInv, Iterating
<1>10. CopyInv(t)'
  BY <1>2, <1>4 DEF CopyInv, Iterating
<1>11. SeenInv(t)'
  BY <1>2, <1>4 DEF SeenInv, Iterating
<1> QED
  BY <1>6, <1>7, <1>8, <1>9, <1>10, <1>11 DEF ThreadInv

\* The count of removals stays within the calls.
LEMMA RemovedFrame ==
  ASSUME IndInv, NEW t \in Threads, removed' = removed,
         \A u \in Threads : u # t => pc'[u] = pc[u],
         \/ pc'[t] # "remove" /\ calls' = calls
         \/ calls' = calls + 1
  PROVE  RemovedInv'
<1>1. removed \in Nat /\ calls \in Nat /\ RemovedInv
  BY InvParts
<1>2. CASE calls' = calls + 1
  BY <1>1, <1>2 DEF RemovedInv
<1>3. CASE pc'[t] # "remove" /\ calls' = calls
  <2>1. (\E u \in Threads : pc'[u] = "remove") => \E u \in Threads : pc[u] = "remove"
    BY <1>3
  <2> QED
    BY <1>1, <1>3, <2>1 DEF RemovedInv
<1> QED
  BY <1>2, <1>3

---------------------------------------------------------------------------
(* Pairs and the map *)

\* The map of the pairs in a set of nodes.
DictOf(m, S) ==
  [k \in Keys |-> IF \E n \in S : m[n].key = k
                  THEN m[CHOOSE n \in S : m[n].key = k].value ELSE NoValue]

\* Each key once.
Distinct(m, S) == \A a, b \in S : m[a].key = m[b].key => a = b

\* The value of a key that a node has, and of one that none has.
LEMMA DictFacts ==
  ASSUME NEW m, NEW S, Distinct(m, S)
  PROVE  /\ DOMAIN DictOf(m, S) = Keys
         /\ DictOf(m, S) = [k \in Keys |-> DictOf(m, S)[k]]
         /\ \A n \in S : m[n].key \in Keys => DictOf(m, S)[m[n].key] = m[n].value
         /\ \A k \in Keys : (\A n \in S : m[n].key # k) => DictOf(m, S)[k] = NoValue
<1>1. DOMAIN DictOf(m, S) = Keys /\ DictOf(m, S) = [k \in Keys |-> DictOf(m, S)[k]]
  BY DEF DictOf
<1>2. \A k \in Keys : DictOf(m, S)[k] =
        IF \E n \in S : m[n].key = k THEN m[CHOOSE n \in S : m[n].key = k].value ELSE NoValue
  BY Zenon DEF DictOf
<1>3. ASSUME NEW n \in S, m[n].key \in Keys
      PROVE  DictOf(m, S)[m[n].key] = m[n].value
  <2> DEFINE k == m[n].key
             c == CHOOSE a \in S : m[a].key = k
  <2>1. c \in S /\ m[c].key = k
    BY Zenon
  <2>2. c = n
    BY <2>1 DEF Distinct
  <2>3. DictOf(m, S)[k] = m[c].value
    BY <1>2, <1>3
  <2> QED
    BY <2>2, <2>3
<1>4. \A k \in Keys : (\A n \in S : m[n].key # k) => DictOf(m, S)[k] = NoValue
  BY <1>2
<1> QED
  BY <1>1, <1>3, <1>4, Zenon

\* Two sets of nodes have the same pairs but for a key.
SameBut(m, S, m2, S2, x) ==
  /\ Distinct(m, S) /\ Distinct(m2, S2)
  /\ \A n \in S : m[n].key \in Keys
  /\ \A n \in S2 : m2[n].key \in Keys
  /\ \A n \in S : m[n].key # x =>
       \E a \in S2 : m2[a].key = m[n].key /\ m2[a].value = m[n].value
  /\ \A n \in S2 : m2[n].key # x => \E a \in S : m[a].key = m2[n].key

\* Then so have their maps.
LEMMA DictSame ==
  ASSUME NEW m, NEW S, NEW m2, NEW S2, NEW x, SameBut(m, S, m2, S2, x)
  PROVE  \A k \in Keys : k # x => DictOf(m2, S2)[k] = DictOf(m, S)[k]
<1> SUFFICES ASSUME NEW k \in Keys, k # x
             PROVE  DictOf(m2, S2)[k] = DictOf(m, S)[k]
  OBVIOUS
<1>1. CASE \E n \in S : m[n].key = k
  <2>1. PICK n \in S : m[n].key = k
    BY <1>1
  <2>2. PICK a \in S2 : m2[a].key = m[n].key /\ m2[a].value = m[n].value
    BY <2>1 DEF SameBut
  <2>3. DictOf(m, S)[m[n].key] = m[n].value
    BY DictFacts DEF SameBut
  <2>4. DictOf(m2, S2)[m2[a].key] = m2[a].value
    BY DictFacts DEF SameBut
  <2> QED
    BY <2>1, <2>2, <2>3, <2>4
<1>2. CASE \A n \in S : m[n].key # k
  <2>1. \A n \in S2 : m2[n].key # k
    BY <1>2 DEF SameBut
  <2>2. DictOf(m, S)[k] = NoValue
    BY <1>2, DictFacts DEF SameBut
  <2>3. DictOf(m2, S2)[k] = NoValue
    BY <2>1, DictFacts DEF SameBut
  <2> QED
    BY <2>2, <2>3
<1> QED
  BY <1>1, <1>2

\* One pair changes.
LEMMA DictUpdate ==
  ASSUME NEW m, NEW S, NEW m2, NEW S2, NEW x \in Keys, SameBut(m, S, m2, S2, x),
         NEW w, DictOf(m2, S2)[x] = w
  PROVE  DictOf(m2, S2) = [DictOf(m, S) EXCEPT ![x] = w]
<1>1. \A k \in Keys : k # x => DictOf(m2, S2)[k] = DictOf(m, S)[k]
  BY DictSame
<1>2. /\ DOMAIN DictOf(m2, S2) = Keys /\ DictOf(m2, S2) = [k \in Keys |-> DictOf(m2, S2)[k]]
      /\ DOMAIN DictOf(m, S) = Keys /\ DictOf(m, S) = [k \in Keys |-> DictOf(m, S)[k]]
  BY DictFacts DEF SameBut
<1> DEFINE f == DictOf(m, S)
           g == DictOf(m2, S2)
<1> HIDE DEF f, g
<1>3. \A k \in Keys : k # x => g[k] = f[k]
  BY <1>1 DEF f, g
<1>4. DOMAIN g = Keys /\ g = [k \in Keys |-> g[k]] /\ DOMAIN f = Keys /\ g[x] = w
  BY <1>2 DEF f, g
<1>5. g = [f EXCEPT ![x] = w]
  BY <1>3, <1>4
<1> QED
  BY <1>5 DEF f, g

\* The nodes in the array of a rehash.
LEMMA MoveNodes ==
  ASSUME IndInv
  PROVE  /\ \A x \in Tables : NodesIn(table[x].buckets) = Home(node, Array, x)
         /\ \A t \in Threads : mutex = t => NodesIn(move[t].new) = Home(node, Array, NoThread)
         /\ \A t \in Threads : mutex # t => NodesIn(move[t].new) = {}
         /\ \A t \in Threads : NodesIn(move[t].new) # {} => op[t] = "put"
         /\ mutex = NoThread => Home(node, Array, NoThread) = {}
<1>1. \A x \in Tables : Array[x] = table[x].buckets
  BY ArrayFacts
<1>2. \A p : NodesIn(Array[p]) = Home(node, Array, p)
  BY DEF NodesIn, Home, In
<1>3. \A x \in Tables : NodesIn(table[x].buckets) = Home(node, Array, x)
  BY <1>1, <1>2
<1>4. \A t \in Threads : mutex = t => move[t].new = Array[NoThread]
  BY ArrayFacts, PlaceFacts
<1>5. NodesIn(NoBuckets) = {}
  <2>1. DOMAIN NoBuckets = {}
    BY DEF NoBuckets
  <2> QED
    BY <2>1, Zenon DEF NodesIn
<1>6. \A t \in Threads : /\ move[t].new # NoBuckets <=> pc[t] = "rehash"
                         /\ pc[t] = "rehash" => op[t] = "put" /\ mutex = t
  <2>1. \A t \in Threads : TableInv(t) /\ OpInv(t) /\ pc[t] \in Labels
    BY InvParts
  <2>2. \A t \in Threads : move[t].new # NoBuckets <=> pc[t] = "rehash"
    BY <2>1 DEF TableInv
  <2>3. \A t \in Threads : pc[t] = "rehash" => op[t] = "put" /\ mutex = t
    BY <2>1, OpForm
  <2> QED
    BY <2>2, <2>3
<1>7. mutex = NoThread => Home(node, Array, NoThread) = {}
  BY <1>2, <1>5, ArrayFacts
<1> QED
  BY <1>2, <1>3, <1>4, <1>5, <1>6, <1>7

\* The map of the baggage is that of what it holds.
LEMMA DictForm ==
  IndInv => Dict = DictOf(node, Held(Src)) /\ Distinct(node, Held(Src))
              /\ \A n \in Held(Src) : node[n].key \in Keys
<1> SUFFICES ASSUME IndInv
             PROVE  Dict = DictOf(node, Held(Src)) /\ Distinct(node, Held(Src))
                      /\ \A n \in Held(Src) : node[n].key \in Keys
  OBVIOUS
<1> DEFINE M == UNION {NodesIn(move[t].new) : t \in {t \in Threads : op[t] = "put"}}
           nodes == NodesIn(table[Src].buckets) \cup M
<1>1. \A n : n \in M <=> \E t \in Threads : op[t] = "put" /\ n \in NodesIn(move[t].new)
  BY Zenon
<1>2. Dict = DictOf(node, nodes)
  BY Zenon DEF Dict, DictOf
<1> HIDE DEF M
<1>3. \A n : n \in M <=> n \in Home(node, Array, NoThread)
  <2>1. mutex \in Threads \cup {NoThread}
    BY InvParts
  <2>2. CASE mutex = NoThread
    BY <1>1, <2>2, MoveNodes, PlaceFacts
  <2>3. CASE mutex \in Threads
    BY <1>1, <2>3, MoveNodes, PlaceFacts
  <2> QED
    BY <2>1, <2>2, <2>3
<1>4. HeapInv(node, live, Array, Order) /\ KeysInv
  BY InvParts
<1>5. Src \in Tables
  BY DEF Tables
<1>6. Held(Src) = Home(node, Array, Src) \cup Home(node, Array, NoThread)
  BY <1>4, HeldFacts
<1>7. NodesIn(table[Src].buckets) = Home(node, Array, Src)
  BY <1>5, MoveNodes
<1>8. nodes = Held(Src)
  BY <1>3, <1>6, <1>7
<1>9. \A n \in Held(Src) : node[n].key \in Keys
  BY <1>4, <1>5, HeldFacts
<1>10. Distinct(node, Held(Src))
  BY <1>4, <1>5, Zenon DEF KeysInv, Distinct
<1> QED
  BY <1>2, <1>8, <1>9, <1>10

\* In the next state too.
LEMMA DictFormNext ==
  IndInv' => (Dict = DictOf(node, Held(Src)) /\ Distinct(node, Held(Src))
                /\ \A n \in Held(Src) : node[n].key \in Keys)'
BY DictForm, PTL

\* What is observed of a step: one of the map's steps, or nothing.
MapStep == Map!Next \/ (Dict' = Dict /\ result' = result)

\* A step that leaves memory and the result alone is not observed.
LEMMA MapStutter ==
  ASSUME IndInv, IndInv', node' = node, Held(Src)' = Held(Src)
  PROVE  Dict' = Dict
BY DictForm, DictFormNext

\* The pairs of a set with one node more.
LEMMA PairsFacts ==
  ASSUME NEW m
  PROVE  /\ \A S : \A p : p \in Pairs(m, S) <=> \E n \in S : p = <<m[n].key, m[n].value>>
         /\ Pairs(m, {}) = {}
         /\ \A S, e : Pairs(m, S \cup {e}) = Pairs(m, S) \cup {<<m[e].key, m[e].value>>}
         /\ \A S, U : S \subseteq U => Pairs(m, S) \subseteq Pairs(m, U)
<1>1. \A S : \A p : p \in Pairs(m, S) <=> \E n \in S : p = <<m[n].key, m[n].value>>
  BY Zenon DEF Pairs
<1>2. Pairs(m, {}) = {}
  BY <1>1
<1>3. ASSUME NEW S, NEW e
      PROVE  Pairs(m, S \cup {e}) = Pairs(m, S) \cup {<<m[e].key, m[e].value>>}
  <2>1. \A p : p \in Pairs(m, S \cup {e}) <=> p \in Pairs(m, S) \/ p = <<m[e].key, m[e].value>>
    <3>1. \A p : p \in Pairs(m, S \cup {e}) <=> \E n \in S \cup {e} : p = <<m[n].key, m[n].value>>
      BY <1>1
    <3>2. \A p : p \in Pairs(m, S) <=> \E n \in S : p = <<m[n].key, m[n].value>>
      BY <1>1
    <3> QED
      BY <3>1, <3>2
  <2> QED
    BY <2>1
<1>4. \A S, U : S \subseteq U => Pairs(m, S) \subseteq Pairs(m, U)
  BY <1>1
<1> QED
  BY <1>1, <1>2, <1>3, <1>4

\* The pairs of nodes whose contents are kept.
LEMMA PairsFrame ==
  ASSUME NEW m, NEW m2, NEW S, \A n \in S : m2[n].key = m[n].key /\ m2[n].value = m[n].value
  PROVE  Pairs(m2, S) = Pairs(m, S)
<1>1. \A p : p \in Pairs(m2, S) <=> p \in Pairs(m, S)
  BY PairsFacts
<1> QED
  BY <1>1

\* The pairs of one node more, and of more nodes.
LEMMA PairsMore ==
  ASSUME NEW m, NEW S, NEW U
  PROVE  /\ \A e : U = S \cup {e} => Pairs(m, U) = Pairs(m, S) \cup {<<m[e].key, m[e].value>>}
         /\ S \subseteq U => Pairs(m, S) \subseteq Pairs(m, U)
BY PairsFacts

---------------------------------------------------------------------------
(* Steps that leave memory alone *)

\* The invariant follows from what a step changes.
LEMMA LocalStep ==
  ASSUME IndInv, NEW t \in Threads, UNCHANGED memory, removed' = removed,
         Array'[NoThread] = Array[NoThread],
         VarTypes', RemovedInv', ThreadInv(t)',
         \A u \in Threads : u # t => Still(u)
  PROVE  IndInv' /\ Dict' = Dict
<1>1. /\ Array' = Array /\ HeapInv(node', live', Array', Order')
      /\ Held(Src)' = Held(Src) /\ KeysInv' /\ SizeInv'
  BY SameMemory
<1>2. \A u \in Threads : u # t => ThreadInv(u)'
  BY <1>1, SameThread
<1>3. Core'
  BY <1>1, <1>2 DEF Core
<1>4. IndInv'
  BY <1>3, CoreIsInvNext
<1>5. node' = node
  BY DEF memory
<1> QED
  BY <1>1, <1>4, <1>5, MapStutter

\* Values of the constants' types.
LEMMA NoTypes ==
  /\ NoArg \in [key : Keys, value : Values \cup {NoValue}]
  /\ NoCursor \in [i : Nat, len : Nat, entry : Nodes \cup {Null}, all : BOOLEAN]
  /\ AnyKey \in Keys
<1>1. AnyKey \in Keys
  BY HashAssumption, Zenon DEF AnyKey
<1> QED
  BY <1>1 DEF NoArg, NoCursor

\* A call returns: its thread has nothing left.
LEMMA Returned ==
  ASSUME NEW t \in Threads, IndInv, Return(t)
  PROVE  /\ pc' \in [Threads -> Labels]
         /\ op' \in [Threads -> Operations \cup {"none"}]
         /\ arg' \in [Threads -> [key : Keys, value : Values \cup {NoValue}]]
         /\ IsMove(move')
         /\ cursor' \in [Threads -> [i : Nat, len : Nat, entry : Nodes \cup {Null}, all : BOOLEAN]]
         /\ seen' \in [Threads -> Seq(Keys \X (Values \cup {NoValue}))]
         /\ \A u \in Threads : u # t =>
              /\ pc'[u] = pc[u] /\ op'[u] = op[u] /\ arg'[u] = arg[u]
              /\ move'[u] = move[u] /\ cursor'[u] = cursor[u] /\ seen'[u] = seen[u]
         /\ pc'[t] = "idle"
         /\ mutex' # t /\ table'[t].buckets = NoBuckets => ThreadInv(t)'
<1>1. VarTypes
  BY InvParts
<1>2. /\ pc \in [Threads -> Labels] /\ op \in [Threads -> Operations \cup {"none"}]
      /\ pc' = [pc EXCEPT ![t] = "idle"] /\ op' = [op EXCEPT ![t] = "none"]
  BY <1>1 DEF VarTypes, Return, Goto
<1>3. /\ pc' \in [Threads -> Labels] /\ op' \in [Threads -> Operations \cup {"none"}]
      /\ pc'[t] = "idle" /\ op'[t] = "none"
      /\ \A u \in Threads : u # t => pc'[u] = pc[u] /\ op'[u] = op[u]
  BY <1>2 DEF Labels
<1>4. /\ arg' \in [Threads -> [key : Keys, value : Values \cup {NoValue}]]
      /\ \A u \in Threads : u # t => arg'[u] = arg[u]
  <2> DEFINE S == [key : Keys, value : Values \cup {NoValue}]
  <2>1. arg \in [Threads -> S] /\ arg' = [arg EXCEPT ![t] = NoArg] /\ NoArg \in S
    BY <1>1, NoTypes DEF VarTypes, Return
  <2> HIDE DEF S
  <2>2. arg' \in [Threads -> S] /\ \A u \in Threads : u # t => arg'[u] = arg[u]
    BY <2>1
  <2> QED
    BY <2>2 DEF S
<1>5. /\ cursor' \in [Threads -> [i : Nat, len : Nat, entry : Nodes \cup {Null}, all : BOOLEAN]]
      /\ \A u \in Threads : u # t => cursor'[u] = cursor[u]
  <2> DEFINE S == [i : Nat, len : Nat, entry : Nodes \cup {Null}, all : BOOLEAN]
  <2>1. cursor \in [Threads -> S] /\ cursor' = [cursor EXCEPT ![t] = NoCursor] /\ NoCursor \in S
    BY <1>1, NoTypes DEF VarTypes, Return
  <2> HIDE DEF S
  <2>2. cursor' \in [Threads -> S] /\ \A u \in Threads : u # t => cursor'[u] = cursor[u]
    BY <2>1
  <2> QED
    BY <2>2 DEF S
<1>6. /\ seen' \in [Threads -> Seq(Keys \X (Values \cup {NoValue}))]
      /\ \A u \in Threads : u # t => seen'[u] = seen[u]
      /\ seen'[t] = <<>>
  <2> DEFINE P == Keys \X (Values \cup {NoValue})
  <2>1. seen \in [Threads -> Seq(P)] /\ seen' = [seen EXCEPT ![t] = <<>>]
    BY <1>1 DEF VarTypes, Return
  <2> HIDE DEF P
  <2>2. /\ seen' \in [Threads -> Seq(P)] /\ seen'[t] = <<>>
        /\ \A u \in Threads : u # t => seen'[u] = seen[u]
    BY <2>1
  <2> QED
    BY <2>2 DEF P
<1>7. /\ IsMove(move') /\ move'[t].new = NoBuckets
      /\ \A u \in Threads : u # t => move'[u] = move[u]
  <2>1. IsMove(move) /\ move' = [move EXCEPT ![t] = [new |-> NoBuckets, i |-> 0, entry |-> Null]]
    BY <1>1 DEF VarTypes, Return, NoMove
  <2>2. /\ IsMove(move') /\ move'[t] = [new |-> NoBuckets, i |-> 0, entry |-> Null]
        /\ \A u \in Threads : u # t => move'[u] = move[u]
    <3>1. MoveSet(move, t, NoBuckets, 0, Null, move')
      BY <2>1 DEF MoveSet
    <3> QED
      BY <3>1, MoveUpdate
  <2> QED
    BY <2>2
<1>8. ASSUME mutex' # t, table'[t].buckets = NoBuckets
      PROVE  ThreadInv(t)'
  <2>1. OpInv(t)'
    BY <1>3, <1>6, <1>8 DEF OpInv
  <2>2. TableInv(t)'
    BY <1>3, <1>7, <1>8 DEF TableInv
  <2>3. RehashInv(t)' /\ ~Iterating(t)'
    BY <1>3 DEF RehashInv, Iterating
  <2>4. CursorInv(t)' /\ CopyInv(t)' /\ SeenInv(t)'
    BY <2>3 DEF CursorInv, CopyInv, SeenInv
  <2> QED
    BY <2>1, <2>2, <2>3, <2>4 DEF ThreadInv
<1> QED
  BY <1>3, <1>4, <1>5, <1>6, <1>7, <1>8

\* The mutex after an unlock.
LEMMA Unlocked ==
  ASSUME NEW t \in Threads, mutex \in Threads \cup {NoThread}, Unlock(t)
  PROVE  /\ mutex' \in Threads \cup {NoThread} /\ mutex' # t
         /\ mutex' = mutex \/ (mutex = t /\ mutex' = NoThread)
         /\ \A u \in Threads : u # t => (mutex' = u <=> mutex = u)
BY PlaceFacts DEF Unlock

\* A call returns and memory is as it was.
LEMMA ReturnStep ==
  ASSUME IndInv, NEW t \in Threads, Return(t),
         Unlock(t) \/ (mutex' = mutex /\ mutex # t),
         pc[t] # "rehash", table[t].buckets = NoBuckets,
         UNCHANGED <<memory, removed, crashed, calls>>
  PROVE  IndInv' /\ Dict' = Dict
<1>1. VarTypes /\ mutex \in Threads \cup {NoThread}
  BY InvParts
<1>2. /\ mutex' \in Threads \cup {NoThread} /\ mutex' # t
      /\ mutex' = mutex \/ (mutex = t /\ mutex' = NoThread)
      /\ \A u \in Threads : u # t => (mutex' = u <=> mutex = u)
  BY <1>1, Unlocked
<1>3. UNCHANGED memory /\ table' = table /\ removed' = removed /\ crashed' = crashed /\ calls' = calls
  BY DEF memory
<1>4. Array'[NoThread] = Array[NoThread]
  <2>1. move' = [move EXCEPT ![t] = NoMove]
    BY DEF Return
  <2> QED
    BY <1>2, <2>1, ExtraFrame
<1>5. VarTypes'
  BY <1>1, <1>2, <1>3, Returned DEF VarTypes
<1>6. ThreadInv(t)' /\ \A u \in Threads : u # t => Still(u)
  BY <1>2, <1>3, Returned DEF Still
<1>7. RemovedInv'
  <2>1. pc'[t] # "remove" /\ \A u \in Threads : u # t => pc'[u] = pc[u]
    BY Returned
  <2> QED
    BY <1>3, <2>1, RemovedFrame
<1> QED
  BY <1>3, <1>4, <1>5, <1>6, <1>7, LocalStep

\* The process ends, or nothing happens.
LEMMA CrashStep ==
  ASSUME IndInv, crashed' \in {"no", "assert", "race", "null"},
         UNCHANGED <<memory, mutex, pc, op, arg, move, cursor, seen, result, removed, calls>>
  PROVE  IndInv' /\ MapStep
<1>1. VarTypes /\ RemovedInv
  BY InvParts
<1>2. /\ UNCHANGED memory /\ node' = node /\ table' = table /\ mutex' = mutex
      /\ pc' = pc /\ op' = op /\ arg' = arg /\ move' = move /\ cursor' = cursor /\ seen' = seen
      /\ result' = result /\ removed' = removed /\ calls' = calls
  BY DEF memory
<1>3. Array'[NoThread] = Array[NoThread]
  BY <1>2, ArrayFacts, ArrayFactsNext
<1>4. /\ Array' = Array /\ HeapInv(node', live', Array', Order')
      /\ Held(Src)' = Held(Src) /\ KeysInv' /\ SizeInv'
  BY <1>2, <1>3, SameMemory
<1>5. VarTypes' /\ RemovedInv'
  BY <1>1, <1>2 DEF VarTypes, RemovedInv
<1>6. \A u \in Threads : Still(u)
  BY <1>2 DEF Still
<1>7. \A u \in Threads : ThreadInv(u)'
  BY <1>2, <1>4, <1>6, SameThread
<1>8. IndInv'
  BY <1>4, <1>5, <1>7, CoreIsInvNext DEF Core
<1> QED
  BY <1>2, <1>4, <1>8, MapStutter DEF MapStep

---------------------------------------------------------------------------
(* Calls, and the steps of put, find and copy that leave memory alone *)

\* An iteration starts at the head of the first bucket.
LEMMA CursorStart ==
  ASSUME IndInv, table[Src].buckets # NoBuckets
  PROVE  /\ Cursor(Src) \in [i : Nat, len : Nat, entry : Nodes \cup {Null}, all : BOOLEAN]
         /\ Cursor(Src).i = 0 /\ Cursor(Src).len = BucketCount(table[Src].order)
         /\ BucketCount(table[Src].order) \in Nat /\ 0 < BucketCount(table[Src].order)
         /\ Cursor(Src).entry \in In(node, Array, Src, 0) \cup {Null}
         /\ Passed(node, Array, 0, Cursor(Src).entry, FALSE) = {}
<1>1. HeapInv(node, live, Array, Order) /\ Src \in Places /\ Src \in Tables
  BY InvParts, PlaceFacts DEF Tables
<1>2. /\ Array[Src] = table[Src].buckets /\ Order[Src] = table[Src].order
      /\ Array[Src] # NoBuckets
  BY <1>1, ArrayFacts
<1>3. 0 \in DOMAIN Array[Src]
  BY <1>1, <1>2, HeapFacts
<1> DEFINE s == Chain(node, Array[Src][0])
<1>4. /\ 0 < BucketCount(Order[Src]) /\ BucketCount(Order[Src]) \in Nat
      /\ Len(s) \in Nat
      /\ \A n : n \in In(node, Array, Src, 0) <=> \E k \in 1 .. Len(s) : s[k] = n
      /\ \A k \in 1 .. Len(s) : s[k] \in Nodes /\ s[k] # Null
      /\ Array[Src][0].head = IF Len(s) = 0 THEN Null ELSE s[1]
  BY <1>1, <1>3, BucketChain
<1> HIDE DEF s
<1>5. /\ Array[Src][0].head \in In(node, Array, Src, 0) \cup {Null}
      /\ Array[Src][0].head \in Nodes \cup {Null}
  BY <1>4
<1>6. Passed(node, Array, 0, Array[Src][0].head, FALSE) = {}
  BY <1>1, <1>3, PassedNone
<1>7. Cursor(Src) = [i |-> 0, len |-> BucketCount(table[Src].order),
                     entry |-> Array[Src][0].head, all |-> TRUE]
  BY <1>2 DEF Cursor
<1>8. /\ Cursor(Src) \in [i : Nat, len : Nat, entry : Nodes \cup {Null}, all : BOOLEAN]
      /\ Cursor(Src).i = 0 /\ Cursor(Src).len = BucketCount(table[Src].order)
      /\ Cursor(Src).entry = Array[Src][0].head
  BY <1>2, <1>4, <1>5, <1>7
<1> QED
  BY <1>2, <1>4, <1>5, <1>6, <1>8, Zenon

\* A thread calls an operation.
LEMMA CallStep ==
  ASSUME IndInv, NEW t \in Threads, NEW o \in Operations, NEW k \in Keys,
         NEW v \in Values \cup {NoValue}, o = "put" => v \in Values, Call(t, o, k, v)
  PROVE  IndInv' /\ MapStep
<1>1. /\ pc[t] = "idle" /\ calls < MaxCalls /\ table[Src].buckets # NoBuckets
      /\ Lock(t, o) /\ calls' = calls + 1
      /\ op' = [op EXCEPT ![t] = o]
      /\ arg' = [arg EXCEPT ![t] = [key |-> k, value |-> v]]
      /\ cursor' = [cursor EXCEPT ![t] = IF o \in {"foreach", "inject"}
                                         THEN Cursor(Src) ELSE NoCursor]
      /\ pc' = [pc EXCEPT ![t] = IF o \in {"foreach", "inject"} THEN "scan" ELSE o]
      /\ UNCHANGED memory /\ node' = node /\ table' = table /\ move' = move /\ seen' = seen
      /\ result' = result /\ removed' = removed /\ crashed' = crashed
  BY DEF Call, Goto, memory
<1>2. VarTypes /\ OpInv(t) /\ TableInv(t) /\ op[t] = "none" /\ mutex # t
  BY <1>1, InvParts, OpForm
<1>3. /\ mutex' \in Threads \cup {NoThread}
      /\ mutex' = mutex \/ (mutex = NoThread /\ mutex' = t)
      /\ mutex' = t <=> o # "inject"
      /\ \A u \in Threads : u # t => (mutex' = u <=> mutex = u)
  BY <1>1, <1>2, PlaceFacts DEF Lock, VarTypes
<1>4. Array'[NoThread] = Array[NoThread]
  BY <1>1, <1>3, ExtraFrame
<1>5. Array' = Array
  BY <1>1, <1>4, SameMemory
<1>6. /\ pc'[t] = IF o \in {"foreach", "inject"} THEN "scan" ELSE o
      /\ op'[t] = o /\ arg'[t] = [key |-> k, value |-> v]
      /\ cursor'[t] = IF o \in {"foreach", "inject"} THEN Cursor(Src) ELSE NoCursor
      /\ seen'[t] = <<>> /\ move'[t].new = NoBuckets
      /\ table'[t].buckets = NoBuckets
      /\ \A u \in Threads : u # t => /\ pc'[u] = pc[u] /\ op'[u] = op[u] /\ arg'[u] = arg[u]
                                     /\ cursor'[u] = cursor[u]
  <2>1. seen[t] = <<>>
    BY <1>2 DEF OpInv
  <2>2. move[t].new = NoBuckets /\ table[t].buckets = NoBuckets
    BY <1>1, <1>2 DEF TableInv
  <2> QED
    BY <1>1, <1>2, <2>1, <2>2 DEF VarTypes
<1>7. VarTypes'
  <2>1. /\ calls' \in 0 .. MaxCalls
        /\ pc' \in [Threads -> Labels]
        /\ op' \in [Threads -> Operations \cup {"none"}]
    BY <1>1, <1>2, OrderAssumption DEF VarTypes, Labels, Operations
  <2>2. arg' \in [Threads -> [key : Keys, value : Values \cup {NoValue}]]
    BY <1>1, <1>2 DEF VarTypes
  <2>3. cursor' \in [Threads -> [i : Nat, len : Nat, entry : Nodes \cup {Null}, all : BOOLEAN]]
    <3> DEFINE S == [i : Nat, len : Nat, entry : Nodes \cup {Null}, all : BOOLEAN]
    <3>1. cursor \in [Threads -> S] /\ NoCursor \in S /\ Cursor(Src) \in S
      BY <1>1, <1>2, NoTypes, CursorStart DEF VarTypes
    <3> HIDE DEF S
    <3>2. cursor' \in [Threads -> S]
      BY <1>1, <3>1
    <3> QED
      BY <3>2 DEF S
  <2> QED
    BY <1>1, <1>2, <1>3, <2>1, <2>2, <2>3 DEF VarTypes
<1>8. ThreadInv(t)'
  <2>1. OpInv(t)'
    BY <1>3, <1>6 DEF OpInv, Operations
  <2>2. TableInv(t)'
    BY <1>1, <1>6 DEF TableInv, Operations
  <2>3. RehashInv(t)' /\ CopyInv(t)'
    BY <1>6 DEF RehashInv, CopyInv, Iterating, Operations
  <2>4. /\ Iterating(t)' => o \in {"foreach", "inject"} /\ cursor'[t] = Cursor(Src) /\ pc'[t] = "scan"
        /\ Entry(t)' = cursor'[t].entry
    BY <1>6 DEF Iterating, Operations, Entry
  <2>5. CursorInv(t)'
    BY <1>1, <1>5, <2>4, CursorStart DEF CursorInv
  <2>6. SeenInv(t)'
    <3>1. ASSUME Iterating(t)'
          PROVE  Done(t)' = {}
      <4>1. Done(t)' = Passed(node, Array, 0, Cursor(Src).entry, FALSE)
        BY <1>1, <1>5, <2>4, <3>1, CursorStart DEF Done
      <4> QED
        BY <1>1, <4>1, CursorStart
    <3>2. Range(seen'[t]) = {} /\ DOMAIN seen'[t] = {}
      BY <1>6, EmptyChain
    <3> QED
      BY <3>1, <3>2, PairsFacts DEF SeenInv
  <2> QED
    BY <2>1, <2>2, <2>3, <2>5, <2>6 DEF ThreadInv
<1>9. \A u \in Threads : u # t => Still(u)
  BY <1>1, <1>3, <1>6 DEF Still
<1>10. RemovedInv'
  BY <1>1, <1>6, RemovedFrame
<1> QED
  BY <1>1, <1>4, <1>7, <1>8, <1>9, <1>10, LocalStep DEF MapStep

\* Only the place of a thread changes.
LEMMA GotoStep ==
  ASSUME IndInv, NEW t \in Threads, NEW l \in Labels, l # "remove", pc[t] # "rehash",
         Goto(t, l), ThreadInv(t)',
         UNCHANGED <<memory, mutex, op, arg, move, cursor, seen, result, removed, crashed, calls>>
  PROVE  IndInv' /\ MapStep
<1>1. /\ UNCHANGED memory /\ table' = table /\ mutex' = mutex /\ op' = op /\ arg' = arg
      /\ move' = move /\ cursor' = cursor /\ seen' = seen
      /\ result' = result /\ removed' = removed /\ crashed' = crashed /\ calls' = calls
      /\ pc' = [pc EXCEPT ![t] = l]
  BY DEF memory, Goto
<1>2. VarTypes
  BY InvParts
<1>3. Array'[NoThread] = Array[NoThread]
  BY <1>1, ExtraFrame
<1>4. VarTypes' /\ pc'[t] = l /\ \A u \in Threads : u # t => pc'[u] = pc[u]
  BY <1>1, <1>2 DEF VarTypes
<1>5. \A u \in Threads : u # t => Still(u)
  BY <1>1, <1>4 DEF Still
<1>6. RemovedInv'
  BY <1>1, <1>4, RemovedFrame
<1> QED
  BY <1>1, <1>3, <1>4, <1>5, <1>6, LocalStep DEF MapStep

\* A thread that has not done anything to memory goes on to clean up a copy.
LEMMA CleanupStep ==
  ASSUME IndInv, NEW t \in Threads, pc[t] \in {"put", "insert", "copy"}, op[t] = "copy",
         Goto(t, "cleanup"),
         UNCHANGED <<memory, mutex, op, arg, move, cursor, seen, result, removed, crashed, calls>>
  PROVE  IndInv' /\ MapStep
<1>1. /\ table' = table /\ mutex' = mutex /\ op' = op /\ move' = move /\ seen' = seen
      /\ pc'[t] = "cleanup"
  <2>1. pc \in [Threads -> Labels]
    BY InvParts DEF VarTypes
  <2> QED
    BY <2>1 DEF memory, Goto
<1>2. OpInv(t) /\ TableInv(t) /\ mutex = t
  BY InvParts, OpForm
<1>3. OpInv(t)' /\ TableInv(t)' /\ RehashInv(t)' /\ ~Iterating(t)'
  BY <1>1, <1>2 DEF OpInv, TableInv, RehashInv, Iterating
<1>4. ThreadInv(t)'
  BY <1>3 DEF ThreadInv, CursorInv, CopyInv, SeenInv
<1>5. "cleanup" \in Labels
  BY DEF Labels
<1> QED
  BY <1>4, <1>5, GotoStep

\* A put fails.
LEMMA PutFailsStep ==
  ASSUME IndInv, NEW t \in Threads, pc[t] \in {"put", "insert"}, PutFails(t)
  PROVE  IndInv' /\ MapStep
<1>1. OpInv(t) /\ TableInv(t) /\ mutex = t /\ op[t] \in {"put", "copy"} /\ VarTypes
  BY InvParts, OpForm
<1>2. CASE op[t] = "put"
  <2>1. /\ Unlock(t) /\ Return(t) /\ result' = <<"put", arg[t].key, FALSE>>
        /\ UNCHANGED <<memory, removed, crashed, calls>>
    BY <1>2 DEF PutFails
  <2>2. table[t].buckets = NoBuckets /\ arg[t].value \in Values /\ arg[t].key \in Keys
    BY <1>1, <1>2 DEF TableInv, OpInv, VarTypes
  <2>3. IndInv' /\ Dict' = Dict
    BY <2>1, <2>2, ReturnStep
  <2>4. Map!Put(arg[t].key, arg[t].value)
    BY <2>1, <2>3 DEF Map!Put
  <2>5. Map!Next
    BY <2>2, <2>4 DEF Map!Next
  <2> QED
    BY <2>3, <2>5 DEF MapStep
<1>3. CASE op[t] = "copy"
  BY <1>1, <1>3, CleanupStep DEF PutFails
<1> QED
  BY <1>1, <1>2, <1>3

\* No memory for the buckets of a copy.
LEMMA CopyFailsStep ==
  ASSUME IndInv, NEW t \in Threads, CopyFails(t)
  PROVE  IndInv' /\ MapStep
<1>1. pc[t] = "copy" /\ op[t] = "copy"
  BY InvParts, OpForm DEF CopyFails
<1> QED
  BY <1>1, CleanupStep DEF CopyFails

\* A find returns what the map has.
LEMMA FindStep ==
  ASSUME IndInv, NEW t \in Threads, Find(t)
  PROVE  IndInv' /\ MapStep
<1> DEFINE k == arg[t].key
           e == Lookup(table[Src], k)
<1>1. /\ pc[t] = "find" /\ Unlock(t) /\ Return(t)
      /\ result' = <<"find", k, IF e = Null THEN NoValue ELSE node[e].value>>
      /\ UNCHANGED <<memory, removed, crashed, calls>>
  BY DEF Find
<1>2. OpInv(t) /\ TableInv(t) /\ mutex = t /\ op[t] = "find" /\ VarTypes
  BY <1>1, InvParts, OpForm
<1>3. /\ table[t].buckets = NoBuckets /\ table[Src].buckets # NoBuckets
      /\ k \in Keys
  BY <1>1, <1>2 DEF TableInv, VarTypes
<1>4. IndInv' /\ Dict' = Dict
  BY <1>1, <1>3, ReturnStep
<1>5. /\ e = Null => \A n \in Home(node, Array, Src) : node[n].key # k
      /\ e # Null => e \in Home(node, Array, Src) /\ node[e].key = k
  BY <1>3, InvParts, LookupFacts DEF Tables
<1>6. Held(Src) = Home(node, Array, Src)
  BY <1>1, <1>2, NoExtra
<1>7. Dict = DictOf(node, Held(Src)) /\ Distinct(node, Held(Src))
  BY DictForm
<1> HIDE DEF e, k
<1>8. DictOf(node, Held(Src))[k] = IF e = Null THEN NoValue ELSE node[e].value
  BY <1>3, <1>5, <1>6, <1>7, DictFacts
<1>9. Map!Find(k)
  BY <1>1, <1>4, <1>7, <1>8 DEF Map!Find
<1>10. Map!Next
  BY <1>3, <1>9 DEF Map!Next
<1> QED
  BY <1>4, <1>10 DEF MapStep

---------------------------------------------------------------------------
(* Iterations *)

\* Where an iteration under the mutex stands.
LEMMA IterFacts ==
  ASSUME IndInv, NEW t \in Threads, Iterating(t), op[t] # "inject"
  PROVE  /\ HeapInv(node, live, Array, Order)
         /\ mutex = t /\ pc[t] \in {"scan", "next", "put", "insert"}
         /\ op[t] \in {"copy", "foreach"}
         /\ Array[Src] = table[Src].buckets /\ Order[Src] = table[Src].order
         /\ cursor[t].i \in DOMAIN Array[Src] /\ cursor[t].i \in Nat
         /\ cursor[t].len = BucketCount(Order[Src]) /\ cursor[t].len \in Nat
         /\ DOMAIN Array[Src] = 0 .. BucketCount(Order[Src]) - 1
         /\ Held(Src) = Home(node, Array, Src)
         /\ Entry(t) \in In(node, Array, Src, cursor[t].i) \cup {Null}
         /\ Entry(t) # Null => /\ Entry(t) \in In(node, Array, Src, cursor[t].i)
                               /\ Entry(t) \in live /\ Entry(t) \in Held(Src) /\ Entry(t) \in Nodes
         /\ Done(t) \subseteq Held(Src)
         /\ Entry(t) # Null /\ pc[t] # "next" =>
              Entry(t) \notin Done(t) /\ \A d \in Done(t) : node[d].key # node[Entry(t)].key
<1>1. /\ HeapInv(node, live, Array, Order) /\ OpInv(t) /\ TableInv(t) /\ CursorInv(t) /\ KeysInv
      /\ pc[t] \in Labels /\ cursor[t].i \in Nat /\ cursor[t].len \in Nat
  BY InvParts, RecordForm
<1>2. /\ mutex = t /\ pc[t] \in {"scan", "next", "put", "insert"}
      /\ op[t] \in {"copy", "foreach"}
  BY <1>1, OpForm DEF Iterating
<1>3. Src \in Tables /\ Src \in Places
  BY PlaceFacts DEF Tables
<1>4. table[Src].buckets # NoBuckets
  BY <1>1, <1>2 DEF TableInv
<1>5. Array[Src] = table[Src].buckets /\ Order[Src] = table[Src].order /\ Array[Src] # NoBuckets
  BY <1>3, <1>4, ArrayFacts
<1>6. /\ DOMAIN Array[Src] = 0 .. BucketCount(Order[Src]) - 1
      /\ 0 \in DOMAIN Array[Src]
  BY <1>1, <1>3, <1>5, HeapFacts
<1>7. BucketCount(Order[Src]) \in Nat
  BY <1>1, <1>3, PlaceBuckets
<1>8. /\ cursor[t].len = BucketCount(Order[Src]) /\ cursor[t].i < cursor[t].len
      /\ Entry(t) \in In(node, Array, Src, cursor[t].i) \cup {Null}
  BY <1>1, <1>5 DEF CursorInv
<1>9. cursor[t].i \in DOMAIN Array[Src]
  BY <1>1, <1>6, <1>7, <1>8
<1>10. Held(Src) = Home(node, Array, Src)
  BY <1>2, NoExtra
<1>11. Entry(t) # Null => /\ Entry(t) \in In(node, Array, Src, cursor[t].i)
                          /\ Entry(t) \in live /\ Entry(t) \in Held(Src) /\ Entry(t) \in Nodes
  BY <1>1, <1>3, <1>8, <1>9, <1>10, InFacts
<1>12. Done(t) \subseteq Held(Src)
  BY <1>1, <1>9, <1>10, PassedHome DEF Done
<1>13. ASSUME Entry(t) # Null, pc[t] # "next"
       PROVE  Entry(t) \notin Done(t) /\ \A d \in Done(t) : node[d].key # node[Entry(t)].key
  <2>1. Done(t) = Passed(node, Array, cursor[t].i, Entry(t), FALSE)
    BY <1>13 DEF Done
  <2>2. Entry(t) \notin Done(t)
    <3> DEFINE i == cursor[t].i
               e == Entry(t)
    <3>1. i \in DOMAIN Array[Src] /\ e \in In(node, Array, Src, i)
      BY <1>9, <1>11, <1>13
    <3> HIDE DEF i, e
    <3>2. e \notin Passed(node, Array, i, e, FALSE)
      BY <1>1, <3>1, PassedEntry
    <3> QED
      BY <2>1, <3>2 DEF i, e
  <2>3. \A m, n \in Held(Src) : node[m].key = node[n].key => m = n
    BY <1>1, <1>3 DEF KeysInv
  <2> QED
    BY <1>11, <1>12, <1>13, <2>2, <2>3
<1> QED
  BY <1>1, <1>2, <1>5, <1>6, <1>8, <1>9, <1>10, <1>11, <1>12, <1>13

\* A copy or a callback gets the entry.
LEMMA VisitStep ==
  ASSUME IndInv, NEW t \in Threads, Visit(t)
  PROVE  IndInv' /\ MapStep
<1>1. /\ pc[t] = "scan" /\ Entry(t) \in live
      /\ UNCHANGED memory /\ node' = node /\ table' = table
      /\ mutex' = mutex /\ op' = op /\ move' = move /\ cursor' = cursor
      /\ result' = result /\ removed' = removed /\ crashed' = crashed /\ calls' = calls
  BY DEF Visit, memory
<1>2. /\ VarTypes /\ RecordInv /\ HeapInv(node, live, Array, Order)
      /\ OpInv(t) /\ TableInv(t) /\ CursorInv(t) /\ CopyInv(t) /\ SeenInv(t)
      /\ node \in [Nodes -> NodeType] /\ live \subseteq Nodes
      /\ Iterating(t) /\ op[t] \in {"copy", "foreach", "inject"}
  BY <1>1, InvParts, OpForm DEF Iterating
<1>3. Array'[NoThread] = Array[NoThread]
  BY <1>1, ExtraFrame
<1>4. Array' = Array /\ Held(t)' = Held(t)
  BY <1>1, <1>3, SameMemory
<1>5. /\ Entry(t) \in Nodes /\ Entry(t) # Null /\ Entry(t)' = Entry(t)
      /\ node[Entry(t)].key \in Keys /\ node[Entry(t)].value \in Values \cup {NoValue}
  BY <1>1, <1>2, NameAssumption DEF NodeType, Entry
<1>6. CASE op[t] = "copy"
  <2>1. /\ arg' = [arg EXCEPT ![t] = [key |-> node[Entry(t)].key, value |-> node[Entry(t)].value]]
        /\ pc' = [pc EXCEPT ![t] = "put"] /\ seen' = seen
    BY <1>6 DEF Visit, Goto
  <2>2. /\ pc'[t] = "put" /\ arg'[t] = [key |-> node[Entry(t)].key, value |-> node[Entry(t)].value]
        /\ \A u \in Threads : u # t => pc'[u] = pc[u] /\ arg'[u] = arg[u]
    BY <1>2, <2>1 DEF VarTypes
  <2>3. VarTypes'
    <3> DEFINE S == [key : Keys, value : Values \cup {NoValue}]
               x == [key |-> node[Entry(t)].key, value |-> node[Entry(t)].value]
    <3>1. x \in S /\ arg \in [Threads -> S]
      BY <1>2, <1>5 DEF VarTypes
    <3> HIDE DEF S, x
    <3>2. arg' \in [Threads -> S]
      BY <2>1, <3>1 DEF x
    <3>3. pc' \in [Threads -> Labels]
      BY <1>2, <2>1 DEF VarTypes, Labels
    <3> QED
      BY <1>1, <1>2, <2>1, <3>2, <3>3 DEF VarTypes, S
  <2>4. Done(t)' = Done(t) /\ Iterating(t)'
    BY <1>1, <1>4, <1>6, <2>2 DEF Done, Iterating, Entry
  <2>5. OpInv(t)'
    BY <1>1, <1>2, <1>6, <2>1, <2>2 DEF OpInv
  <2>6. TableInv(t)'
    BY <1>1, <1>2, <1>6, <2>2 DEF TableInv
  <2>7. RehashInv(t)' /\ SeenInv(t)'
    BY <1>1, <1>6, <2>2 DEF RehashInv, SeenInv
  <2>8. CursorInv(t)'
    BY <1>1, <1>2, <1>4, <1>5, <1>6 DEF CursorInv
  <2>9. CopyInv(t)'
    BY <1>1, <1>2, <1>4, <1>5, <1>6, <2>2, <2>4 DEF CopyInv
  <2>10. ThreadInv(t)'
    BY <2>5, <2>6, <2>7, <2>8, <2>9 DEF ThreadInv
  <2>11. \A u \in Threads : u # t => Still(u)
    BY <1>1, <2>1, <2>2 DEF Still
  <2>12. RemovedInv'
    BY <1>1, <2>2, RemovedFrame
  <2> QED
    BY <1>1, <1>3, <2>3, <2>10, <2>11, <2>12, LocalStep DEF MapStep
<1>7. CASE op[t] # "copy"
  <2> DEFINE e == Entry(t)
             p == <<node[e].key, node[e].value>>
             P == Keys \X (Values \cup {NoValue})
  <2>1. /\ seen' = [seen EXCEPT ![t] = Append(seen[t], p)]
        /\ pc' = [pc EXCEPT ![t] = "next"] /\ arg' = arg
    BY <1>7 DEF Visit, Goto, Pair
  <2>2. p \in P /\ seen[t] \in Seq(P) /\ seen \in [Threads -> Seq(P)]
    BY <1>2, <1>5 DEF VarTypes
  <2> HIDE DEF p, P
  <2>3. /\ pc'[t] = "next" /\ seen'[t] = Append(seen[t], p)
        /\ \A u \in Threads : u # t => pc'[u] = pc[u] /\ seen'[u] = seen[u]
    BY <1>2, <2>1, <2>2 DEF VarTypes
  <2>4. VarTypes'
    <3>1. seen' \in [Threads -> Seq(P)]
      BY <2>1, <2>2
    <3>2. pc' \in [Threads -> Labels]
      BY <1>2, <2>1 DEF VarTypes, Labels
    <3> QED
      BY <1>1, <1>2, <2>1, <3>1, <3>2 DEF VarTypes, P
  <2>5. OpInv(t)'
    BY <1>1, <1>2, <1>7, <2>1, <2>3 DEF OpInv
  <2>6. TableInv(t)'
    BY <1>1, <1>2, <1>7, <2>3 DEF TableInv
  <2>7. RehashInv(t)' /\ CopyInv(t)'
    BY <1>1, <1>7, <2>3 DEF RehashInv, CopyInv
  <2>8. CursorInv(t)'
    BY <1>1, <1>2, <1>4, <1>5 DEF CursorInv
  <2>9. SeenInv(t)'
    <3> SUFFICES ASSUME op[t] = "foreach"
                 PROVE  SeenInv(t)'
      BY <1>1 DEF SeenInv
    <3>1. /\ cursor[t].i \in DOMAIN Array[Src] /\ e \in In(node, Array, Src, cursor[t].i)
          /\ \A d \in Done(t) : node[d].key # node[e].key
      BY <1>1, <1>2, <1>5, IterFacts
    <3>2. /\ Passed(node, Array, cursor[t].i, e, TRUE) =
               Passed(node, Array, cursor[t].i, e, FALSE) \cup {e}
      BY <1>2, <3>1, PassedEntry
    <3>3. Done(t) = Passed(node, Array, cursor[t].i, e, FALSE)
      BY <1>1 DEF Done
    <3>4. Done(t)' = Passed(node, Array, cursor[t].i, e, TRUE)
      BY <1>1, <1>4, <2>3 DEF Done, Entry
    <3>5. Pairs(node, Done(t)') = Pairs(node, Done(t)) \cup {p}
      <4>1. Done(t)' = Done(t) \cup {e}
        BY <3>2, <3>3, <3>4
      <4> QED
        BY <4>1, PairsMore DEF p
    <3>6. Range(seen'[t]) = Range(seen[t]) \cup {p}
      BY <2>2, <2>3, RangeAppend
    <3>7. p \notin Pairs(node, Done(t))
      BY <3>1, PairsFacts DEF p
    <3>8. /\ Range(seen[t]) \subseteq Pairs(node, Done(t))
          /\ \A i, j \in DOMAIN seen[t] : seen[t][i] = seen[t][j] => i = j
          /\ cursor[t].all => Pairs(node, Done(t)) \subseteq Range(seen[t])
      BY <1>2 DEF SeenInv
    <3>9. IsInjective(seen'[t])
      <4>1. IsInjective(seen[t])
        BY <3>8, Zenon DEF IsInjective
      <4> QED
        BY <2>2, <2>3, <3>7, <3>8, <4>1, InjectiveAppend
    <3>10. \A i, j \in DOMAIN seen'[t] : seen'[t][i] = seen'[t][j] => i = j
      BY <3>9, Zenon DEF IsInjective
    <3> QED
      BY <1>1, <3>5, <3>6, <3>8, <3>10 DEF SeenInv
  <2>10. ThreadInv(t)'
    BY <2>5, <2>6, <2>7, <2>8, <2>9 DEF ThreadInv
  <2>11. \A u \in Threads : u # t => Still(u)
    BY <1>1, <2>1, <2>3 DEF Still
  <2>12. RemovedInv'
    BY <1>1, <2>3, RemovedFrame
  <2> QED
    BY <1>1, <1>3, <2>4, <2>10, <2>11, <2>12, LocalStep DEF MapStep
<1> QED
  BY <1>6, <1>7

\* The cursor of a thread changes, which goes back to looking at it.
LEMMA CursorStep ==
  ASSUME IndInv, NEW t \in Threads, pc[t] \in {"scan", "next"},
         NEW c \in [i : Nat, len : Nat, entry : Nodes \cup {Null}, all : BOOLEAN],
         cursor' = [cursor EXCEPT ![t] = c],
         pc' = [pc EXCEPT ![t] = "scan"],
         UNCHANGED <<memory, mutex, op, arg, move, seen, result, removed, crashed, calls>>,
         c.i < c.len, c.len = cursor[t].len,
         op[t] # "inject" =>
           /\ c.entry \in In(node, Array, Src, c.i) \cup {Null}
           /\ Done(t) \subseteq Passed(node, Array, c.i, c.entry, FALSE)
           /\ op[t] = "copy" \/ c.all =>
                Passed(node, Array, c.i, c.entry, FALSE) = Done(t)
           /\ c.all => cursor[t].all
  PROVE  IndInv' /\ MapStep
<1>1. /\ UNCHANGED memory /\ node' = node /\ table' = table
      /\ mutex' = mutex /\ op' = op /\ arg' = arg /\ move' = move /\ seen' = seen
      /\ result' = result /\ removed' = removed /\ crashed' = crashed /\ calls' = calls
  BY DEF memory
<1>2. /\ VarTypes /\ HeapInv(node, live, Array, Order)
      /\ OpInv(t) /\ TableInv(t) /\ CursorInv(t) /\ CopyInv(t) /\ SeenInv(t)
      /\ Iterating(t) /\ op[t] \in {"copy", "foreach", "inject"}
  BY InvParts, OpForm DEF Iterating
<1>3. Array'[NoThread] = Array[NoThread]
  BY <1>1, ExtraFrame
<1>4. Array' = Array /\ Held(t)' = Held(t)
  BY <1>1, <1>3, SameMemory
<1>5. /\ VarTypes' /\ pc'[t] = "scan" /\ cursor'[t] = c
      /\ \A u \in Threads : u # t => pc'[u] = pc[u] /\ cursor'[u] = cursor[u]
  <2> DEFINE S == [i : Nat, len : Nat, entry : Nodes \cup {Null}, all : BOOLEAN]
  <2>1. cursor \in [Threads -> S] /\ c \in S
    BY <1>2 DEF VarTypes
  <2> HIDE DEF S
  <2>2. /\ cursor' \in [Threads -> S] /\ cursor'[t] = c
        /\ \A u \in Threads : u # t => cursor'[u] = cursor[u]
    BY <2>1
  <2>3. /\ pc' \in [Threads -> Labels] /\ pc'[t] = "scan"
        /\ \A u \in Threads : u # t => pc'[u] = pc[u]
    BY <1>2 DEF VarTypes, Labels
  <2>4. VarTypes'
    BY <1>1, <1>2, <2>2, <2>3 DEF VarTypes, S
  <2> QED
    BY <2>2, <2>3, <2>4
<1>6. /\ Entry(t)' = c.entry /\ Iterating(t)'
      /\ Done(t)' = Passed(node, Array, c.i, c.entry, FALSE)
  BY <1>1, <1>4, <1>5 DEF Entry, Iterating, Done
<1>7. OpInv(t)'
  BY <1>1, <1>2, <1>5 DEF OpInv
<1>8. TableInv(t)'
  BY <1>1, <1>2, <1>5 DEF TableInv
<1>9. RehashInv(t)'
  BY <1>5 DEF RehashInv
<1>10. CursorInv(t)'
  <2>1. /\ cursor[t].len <= BucketCount(table[Src].order)
        /\ op[t] # "inject" => cursor[t].len = BucketCount(table[Src].order)
    BY <1>2 DEF CursorInv
  <2>2. /\ cursor'[t].i < cursor'[t].len
        /\ cursor'[t].len <= BucketCount(table'[Src].order)
    BY <1>1, <1>5, <2>1
  <2>3. op[t] # "inject" => /\ cursor'[t].len = BucketCount(table'[Src].order)
                            /\ Entry(t)' \in In(node', Array', Src, cursor'[t].i) \cup {Null}
    BY <1>1, <1>4, <1>5, <1>6, <2>1
  <2> QED
    BY <1>1, <1>5, <2>2, <2>3 DEF CursorInv
<1>11. CopyInv(t)'
  BY <1>1, <1>2, <1>4, <1>5, <1>6 DEF CopyInv
<1>12. SeenInv(t)'
  <2> SUFFICES ASSUME op[t] = "foreach"
               PROVE  SeenInv(t)'
    BY <1>1 DEF SeenInv
  <2>1. /\ Range(seen[t]) \subseteq Pairs(node, Done(t))
        /\ \A i, j \in DOMAIN seen[t] : seen[t][i] = seen[t][j] => i = j
        /\ cursor[t].all => Pairs(node, Done(t)) \subseteq Range(seen[t])
    BY <1>2 DEF SeenInv
  <2>2. Pairs(node, Done(t)) \subseteq Pairs(node, Done(t)')
    <3> DEFINE S == Done(t)
               U == Passed(node, Array, c.i, c.entry, FALSE)
    <3>1. S \subseteq U /\ Done(t)' = U
      BY <1>6
    <3> HIDE DEF S, U
    <3>2. Pairs(node, S) \subseteq Pairs(node, U)
      BY <3>1, PairsMore
    <3>3. Pairs(node, Done(t)') = Pairs(node, U)
      BY <3>1
    <3> QED
      BY <3>2, <3>3 DEF S
  <2>3. c.all => cursor[t].all /\ Done(t)' = Done(t)
    BY <1>6
  <2> QED
    BY <1>1, <1>5, <2>1, <2>2, <2>3 DEF SeenInv
<1>13. ThreadInv(t)'
  BY <1>7, <1>8, <1>9, <1>10, <1>11, <1>12 DEF ThreadInv
<1>14. \A u \in Threads : u # t => Still(u)
  BY <1>1, <1>5 DEF Still
<1>15. RemovedInv'
  BY <1>1, <1>5, RemovedFrame
<1> QED
  BY <1>1, <1>3, <1>5, <1>13, <1>14, <1>15, LocalStep DEF MapStep


\* A cursor with another place.
LEMMA CursorForm ==
  ASSUME IndInv, NEW t \in Threads, NEW x, NEW e
  PROVE  /\ [cursor EXCEPT ![t].entry = e] =
              [cursor EXCEPT ![t] = [i |-> cursor[t].i, len |-> cursor[t].len, entry |-> e, all |-> cursor[t].all]]
         /\ [cursor EXCEPT ![t].entry = e, ![t].all = FALSE] =
              [cursor EXCEPT ![t] = [i |-> cursor[t].i, len |-> cursor[t].len, entry |-> e, all |-> FALSE]]
         /\ [cursor EXCEPT ![t].i = x, ![t].entry = e] =
              [cursor EXCEPT ![t] = [i |-> x, len |-> cursor[t].len, entry |-> e, all |-> cursor[t].all]]
<1>1. cursor \in [Threads -> [i : Nat, len : Nat, entry : Nodes \cup {Null}, all : BOOLEAN]]
  BY InvParts DEF VarTypes
<1> DEFINE r == cursor[t]
<1>2. r = [i |-> r.i, len |-> r.len, entry |-> r.entry, all |-> r.all] /\ DOMAIN cursor = Threads
  BY <1>1
<1> HIDE DEF r
<1>3. PICK a, l, f, d : r = [i |-> a, len |-> l, entry |-> f, all |-> d]
  BY <1>2, Zenon
<1>4. r.i = a /\ r.len = l /\ r.entry = f /\ r.all = d
  BY <1>3
<1>5. PICK g, h : g = [r EXCEPT !.i = x] /\ h = [r EXCEPT !.entry = e]
  OBVIOUS
<1>6. g = [i |-> x, len |-> l, entry |-> f, all |-> d]
  BY <1>3, <1>5
<1>10. h = [i |-> a, len |-> l, entry |-> e, all |-> d]
  BY <1>3, <1>5
<1>11. [g EXCEPT !.entry = e] = [i |-> x, len |-> l, entry |-> e, all |-> d]
  BY <1>6
<1>12. ASSUME NEW b
       PROVE  [h EXCEPT !.all = b] = [i |-> a, len |-> l, entry |-> e, all |-> b]
  BY <1>10
<1>13. [h EXCEPT !.all = FALSE] = [i |-> a, len |-> l, entry |-> e, all |-> FALSE]
  BY <1>12
<1>7. [cursor EXCEPT ![t].entry = e] = [cursor EXCEPT ![t] = h]
  BY <1>2, <1>5 DEF r
<1>8. [cursor EXCEPT ![t].entry = e, ![t].all = FALSE]
        = [cursor EXCEPT ![t] = [h EXCEPT !.all = FALSE]]
  BY <1>2, <1>5 DEF r
<1>9. [cursor EXCEPT ![t].i = x, ![t].entry = e]
        = [cursor EXCEPT ![t] = [g EXCEPT !.entry = e]]
  BY <1>2, <1>5 DEF r
<1> QED
  BY <1>4, <1>7, <1>8, <1>9, <1>10, <1>11, <1>13, Zenon DEF r

\* It has its type.
LEMMA CursorType ==
  ASSUME NEW x \in Nat, NEW l \in Nat, NEW e \in Nodes \cup {Null}, NEW b \in BOOLEAN, NEW c,
         c = [i |-> x, len |-> l, entry |-> e, all |-> b]
  PROVE  /\ c \in [i : Nat, len : Nat, entry : Nodes \cup {Null}, all : BOOLEAN]
         /\ c.i = x /\ c.len = l /\ c.entry = e /\ c.all = b
OBVIOUS

\* The next entry of a bucket.
LEMMA AdvanceStep ==
  ASSUME IndInv, NEW t \in Threads, Advance(t)
  PROVE  IndInv' /\ MapStep
<1> DEFINE x == cursor[t].i
           e == Entry(t)
           f == node[e].next
           c == [i |-> x, len |-> cursor[t].len, entry |-> f, all |-> cursor[t].all]
<1>1. /\ pc[t] = "next" /\ e \in live
      /\ cursor' = [cursor EXCEPT ![t].entry = f]
      /\ pc' = [pc EXCEPT ![t] = "scan"]
      /\ UNCHANGED <<memory, mutex, op, arg, move, seen, result, removed, crashed, calls>>
  BY DEF Advance, Goto
<1>2. /\ node \in [Nodes -> NodeType] /\ live \subseteq Nodes
      /\ HeapInv(node, live, Array, Order) /\ CursorInv(t)
      /\ cursor[t].i \in Nat /\ cursor[t].len \in Nat /\ cursor[t].all \in BOOLEAN
  <2>1. cursor \in [Threads -> [i : Nat, len : Nat, entry : Nodes \cup {Null}, all : BOOLEAN]]
    BY InvParts DEF VarTypes
  <2> QED
    BY <2>1, InvParts
<1>3. f \in Nodes \cup {Null} /\ e # Null /\ Iterating(t)
  BY <1>1, <1>2, NameAssumption DEF NodeType, Iterating
<1> HIDE DEF e, f, c, x
<1>4. /\ c \in [i : Nat, len : Nat, entry : Nodes \cup {Null}, all : BOOLEAN]
      /\ c.i = x /\ c.len = cursor[t].len /\ c.entry = f /\ c.all = cursor[t].all
      /\ cursor' = [cursor EXCEPT ![t] = c]
  <2>1. c = [i |-> x, len |-> cursor[t].len, entry |-> f, all |-> cursor[t].all] /\ x = cursor[t].i
    BY DEF c, x
  <2>2. cursor' = [cursor EXCEPT ![t] = c]
    BY <1>1, <2>1, CursorForm, Zenon
  <2> QED
    BY <1>2, <1>3, <2>1, <2>2, CursorType
<1>5. c.i < c.len
  BY <1>2, <1>3, <1>4 DEF CursorInv, x
<1>6. ASSUME op[t] # "inject"
      PROVE  /\ c.entry \in In(node, Array, Src, c.i) \cup {Null}
             /\ Passed(node, Array, c.i, c.entry, FALSE) = Done(t)
  <2>1. x \in DOMAIN Array[Src] /\ e \in In(node, Array, Src, x)
    BY <1>3, <1>6, IterFacts DEF e, x
  <2>2. /\ Passed(node, Array, x, f, FALSE) = Passed(node, Array, x, e, TRUE)
        /\ f \in In(node, Array, Src, x) \cup {Null}
    BY <1>2, <2>1, PassedNext DEF f
  <2>3. Done(t) = Passed(node, Array, x, e, TRUE)
    BY <1>1 DEF Done, x, e
  <2> QED
    BY <1>4, <2>2, <2>3
<1> QED
  BY <1>1, <1>4, <1>5, <1>6, CursorStep, ZenonT(60)

\* A callback stops an iteration.
LEMMA RefusedStep ==
  ASSUME IndInv, NEW t \in Threads, Refused(t)
  PROVE  IndInv' /\ MapStep
<1>1. pc[t] = "next" /\ UNCHANGED <<memory, mutex, result, removed, crashed, calls>>
  BY DEF Refused
<1>2. /\ HeapInv(node, live, Array, Order) /\ CursorInv(t) /\ OpInv(t) /\ TableInv(t)
      /\ pc[t] \in Labels
      /\ cursor[t].i \in Nat /\ cursor[t].len \in Nat /\ Iterating(t)
  <2>1. cursor \in [Threads -> [i : Nat, len : Nat, entry : Nodes \cup {Null}, all : BOOLEAN]]
    BY InvParts DEF VarTypes
  <2> QED
    BY <1>1, <2>1, InvParts DEF Iterating
<1>3. CASE op[t] = "foreach"
  <2> DEFINE x == cursor[t].i
             c == [i |-> x, len |-> cursor[t].len, entry |-> Null, all |-> FALSE]
  <2>1. /\ cursor' = [cursor EXCEPT ![t].entry = Null, ![t].all = FALSE]
        /\ pc' = [pc EXCEPT ![t] = "scan"]
        /\ UNCHANGED <<memory, mutex, op, arg, move, seen, result, removed, crashed, calls>>
    BY <1>1, <1>3 DEF Refused, Goto
  <2> HIDE DEF c, x
  <2>2. /\ c \in [i : Nat, len : Nat, entry : Nodes \cup {Null}, all : BOOLEAN]
        /\ c.i = x /\ c.len = cursor[t].len /\ c.entry = Null /\ c.all = FALSE
        /\ cursor' = [cursor EXCEPT ![t] = c]
    <3>1. /\ c = [i |-> x, len |-> cursor[t].len, entry |-> Null, all |-> FALSE]
          /\ x = cursor[t].i /\ FALSE \in BOOLEAN /\ Null \in Nodes \cup {Null}
      BY DEF c, x
    <3>2. cursor' = [cursor EXCEPT ![t].entry = Null, ![t].all = FALSE]
      BY <2>1
    <3>4. PICK e : e = Null
      OBVIOUS
    <3>5. cursor' = [cursor EXCEPT ![t].entry = e, ![t].all = FALSE]
      BY <3>2, <3>4
    <3>6. [cursor EXCEPT ![t].entry = e, ![t].all = FALSE] =
              [cursor EXCEPT ![t] = [i |-> cursor[t].i, len |-> cursor[t].len, entry |-> e, all |-> FALSE]]
      BY CursorForm, Zenon
    <3>3. cursor' = [cursor EXCEPT ![t] = c]
      BY <3>1, <3>4, <3>5, <3>6
    <3> QED
      BY <1>2, <3>1, <3>3, CursorType
  <2>3. c.i < c.len
    BY <1>2, <2>2 DEF CursorInv, x
  <2>4. x \in DOMAIN Array[Src]
    BY <1>2, <1>3, IterFacts DEF x
  <2>5. Done(t) \subseteq Passed(node, Array, x, Null, FALSE)
    BY <1>2, <2>4, PassedHome DEF Done, x
  <2> QED
    BY <1>1, <1>3, <2>1, <2>2, <2>3, <2>5, CursorStep
<1>4. CASE op[t] # "foreach"
  <2>1. Return(t) /\ op[t] = "inject" /\ mutex' = mutex /\ mutex # t
    BY <1>1, <1>2, <1>4, OpForm DEF Refused
  <2>2. table[t].buckets = NoBuckets
    BY <1>2, <2>1 DEF TableInv
  <2>3. IndInv' /\ Dict' = Dict
    BY <1>1, <2>1, <2>2, ReturnStep
  <2> QED
    BY <1>1, <2>3 DEF MapStep
<1> QED
  BY <1>3, <1>4

\* The next bucket.
LEMMA NextBucketStep ==
  ASSUME IndInv, NEW t \in Threads, NextBucket(t)
  PROVE  IndInv' /\ MapStep
<1> DEFINE x == cursor[t].i + 1
           f == table[Src].buckets[x].head
           c == [i |-> x, len |-> cursor[t].len, entry |-> f, all |-> cursor[t].all]
<1>1. /\ pc[t] = "scan" /\ Entry(t) = Null /\ x < cursor[t].len
      /\ cursor' = [cursor EXCEPT ![t].i = x, ![t].entry = f]
      /\ pc' = pc
      /\ UNCHANGED <<memory, mutex, op, arg, move, seen, result, removed, crashed, calls>>
  BY DEF NextBucket
<1>2. /\ HeapInv(node, live, Array, Order) /\ CursorInv(t) /\ TableInv(t)
      /\ cursor[t].i \in Nat /\ cursor[t].len \in Nat /\ cursor[t].all \in BOOLEAN
      /\ pc' = [pc EXCEPT ![t] = "scan"]
      /\ Iterating(t) /\ x \in Nat
  <2>1. /\ cursor \in [Threads -> [i : Nat, len : Nat, entry : Nodes \cup {Null}, all : BOOLEAN]]
        /\ pc \in [Threads -> Labels]
    BY InvParts DEF VarTypes
  <2> QED
    BY <1>1, <2>1, InvParts DEF Iterating
<1>3. /\ Src \in Places /\ Array[Src] = table[Src].buckets /\ Order[Src] = table[Src].order
      /\ Array[Src] # NoBuckets
  <2>1. table[Src].buckets # NoBuckets
    BY <1>1, <1>2 DEF TableInv
  <2> QED
    BY <2>1, ArrayFacts, PlaceFacts DEF Tables
<1>4. x \in DOMAIN Array[Src] /\ Array[Src][x] \in List
  <2>1. DOMAIN Array[Src] = 0 .. BucketCount(Order[Src]) - 1 /\ BucketCount(Order[Src]) \in Nat
        /\ Array[Src] \in [0 .. BucketCount(Order[Src]) - 1 -> List]
    BY <1>2, <1>3, HeapFacts, PlaceBuckets
  <2>2. cursor[t].len <= BucketCount(Order[Src])
    BY <1>2, <1>3 DEF CursorInv
  <2>3. x \in 0 .. BucketCount(Order[Src]) - 1
    BY <1>1, <1>2, <2>1, <2>2
  <2> QED
    BY <2>1, <2>3
<1>5. f \in Nodes \cup {Null} /\ f = Array[Src][x].head
  BY <1>3, <1>4 DEF List
<1> HIDE DEF f, c, x
<1>6. /\ c \in [i : Nat, len : Nat, entry : Nodes \cup {Null}, all : BOOLEAN]
      /\ c.i = x /\ c.len = cursor[t].len /\ c.entry = f /\ c.all = cursor[t].all
      /\ cursor' = [cursor EXCEPT ![t] = c]
  <2>1. c = [i |-> x, len |-> cursor[t].len, entry |-> f, all |-> cursor[t].all]
    BY DEF c
  <2>3. cursor' = [cursor EXCEPT ![t].i = x, ![t].entry = f]
    BY <1>1
  <2>4. [cursor EXCEPT ![t].i = x, ![t].entry = f] =
              [cursor EXCEPT ![t] = [i |-> x, len |-> cursor[t].len, entry |-> f, all |-> cursor[t].all]]
    BY CursorForm, ZenonT(60)
  <2>2. cursor' = [cursor EXCEPT ![t] = c]
    BY <2>1, <2>3, <2>4
  <2> QED
    BY <1>2, <1>5, <2>1, <2>2, CursorType
<1>7. ASSUME op[t] # "inject"
      PROVE  /\ c.entry \in In(node, Array, Src, c.i) \cup {Null}
             /\ Passed(node, Array, c.i, c.entry, FALSE) = Done(t)
  <2> DEFINE y == cursor[t].i
  <2>1. y \in DOMAIN Array[Src]
    BY <1>2, <1>7, IterFacts
  <2>2. x = y + 1
    BY DEF x
  <2> HIDE DEF y
  <2>3. /\ Passed(node, Array, x, Array[Src][x].head, FALSE) = Passed(node, Array, y, Null, FALSE)
        /\ Array[Src][x].head \in In(node, Array, Src, x) \cup {Null}
    BY <1>2, <1>4, <2>1, <2>2, PassedOn
  <2>4. Done(t) = Passed(node, Array, y, Null, FALSE)
    BY <1>1 DEF Done, y
  <2> QED
    BY <1>5, <1>6, <2>3, <2>4
<1>8. c.i < c.len
  BY <1>1, <1>6
<1>9. /\ pc[t] \in {"scan", "next"} /\ pc' = [pc EXCEPT ![t] = "scan"]
      /\ UNCHANGED <<memory, mutex, op, arg, move, seen, result, removed, crashed, calls>>
  BY <1>1, <1>2
<1>10. /\ c \in [i : Nat, len : Nat, entry : Nodes \cup {Null}, all : BOOLEAN]
       /\ cursor' = [cursor EXCEPT ![t] = c] /\ c.len = cursor[t].len
       /\ c.all => cursor[t].all
  BY <1>6
<1> HIDE DEF c
<1> QED
  BY <1>7, <1>8, <1>9, <1>10, CursorStep

\* At the end an iteration has passed what the baggage holds.
LEMMA ScanFacts ==
  ASSUME IndInv, NEW t \in Threads, ScanEnds(t), op[t] # "inject"
  PROVE  /\ Done(t) = Held(Src) /\ Iterating(t) /\ pc[t] = "scan"
         /\ mutex = t /\ op[t] \in {"copy", "foreach"}
<1>1. pc[t] = "scan" /\ Entry(t) = Null /\ cursor[t].i + 1 >= cursor[t].len /\ Iterating(t)
  BY DEF ScanEnds, Iterating
<1> DEFINE x == cursor[t].i
<1>2. /\ HeapInv(node, live, Array, Order) /\ x \in DOMAIN Array[Src] /\ x \in Nat
      /\ cursor[t].len = BucketCount(Order[Src]) /\ cursor[t].len \in Nat
      /\ Held(Src) = Home(node, Array, Src)
      /\ mutex = t /\ op[t] \in {"copy", "foreach"}
  BY <1>1, IterFacts
<1>3. ~(x + 1 < BucketCount(Order[Src]))
  BY <1>1, <1>2
<1>4. Done(t) = Passed(node, Array, x, Null, FALSE)
  BY <1>1 DEF Done
<1> HIDE DEF x
<1>5. Passed(node, Array, x, Null, FALSE) = Home(node, Array, Src)
  BY <1>2, <1>3, PassedAll
<1> QED
  BY <1>1, <1>2, <1>4, <1>5

\* The map's pairs are those of the nodes.
LEMMA DictPairs ==
  ASSUME IndInv
  PROVE  Map!Pairs = Pairs(node, Held(Src))
<1>1. /\ Dict = DictOf(node, Held(Src)) /\ Distinct(node, Held(Src))
      /\ \A n \in Held(Src) : node[n].key \in Keys
  BY DictForm
<1>2. \A n \in Held(Src) : node[n].value \in Values
  BY InvParts, HeldFacts DEF Tables
<1>3. /\ \A n \in Held(Src) : Dict[node[n].key] = node[n].value
      /\ \A k \in Keys : (\A n \in Held(Src) : node[n].key # k) => Dict[k] = NoValue
  BY <1>1, DictFacts
<1>4. \A p : p \in Map!Pairs <=> \E k \in Keys : Dict[k] # NoValue /\ p = <<k, Dict[k]>>
  BY Zenon DEF Map!Pairs
<1>5. \A p : p \in Pairs(node, Held(Src)) <=> \E n \in Held(Src) : p = <<node[n].key, node[n].value>>
  BY PairsFacts
<1>6. ASSUME NEW p \in Map!Pairs
      PROVE  p \in Pairs(node, Held(Src))
  <2>1. PICK k \in Keys : Dict[k] # NoValue /\ p = <<k, Dict[k]>>
    BY <1>4
  <2>2. PICK n \in Held(Src) : node[n].key = k
    BY <1>3, <2>1
  <2> QED
    BY <1>3, <1>5, <2>1, <2>2
<1>7. ASSUME NEW p \in Pairs(node, Held(Src))
      PROVE  p \in Map!Pairs
  <2>1. PICK n \in Held(Src) : p = <<node[n].key, node[n].value>>
    BY <1>5
  <2> QED
    BY <1>1, <1>2, <1>3, <1>4, <2>1, NameAssumption
<1> QED
  BY <1>6, <1>7

\* An iteration has handed over each pair once.
LEMMA ForeachDoneStep ==
  ASSUME IndInv, NEW t \in Threads, ForeachDone(t)
  PROVE  IndInv' /\ MapStep
<1>1. /\ ScanEnds(t) /\ op[t] = "foreach" /\ Unlock(t) /\ Return(t)
      /\ result' = <<"foreach", seen[t], cursor[t].all>>
      /\ UNCHANGED <<memory, removed, crashed, calls>>
  BY DEF ForeachDone
<1>2. Done(t) = Held(Src) /\ Iterating(t) /\ pc[t] = "scan"
  BY <1>1, ScanFacts
<1>3. SeenInv(t) /\ TableInv(t)
  BY InvParts
<1>4. table[t].buckets = NoBuckets
  BY <1>1, <1>3 DEF TableInv
<1>5. IndInv' /\ Dict' = Dict
  BY <1>1, <1>2, <1>4, ReturnStep
<1>6. /\ Range(seen[t]) \subseteq Map!Pairs
      /\ \A i, j \in DOMAIN seen[t] : seen[t][i] = seen[t][j] => i = j
      /\ cursor[t].all => Map!Pairs \subseteq Range(seen[t])
  BY <1>1, <1>2, <1>3, DictPairs DEF SeenInv
<1>7. Range(seen[t]) = {seen[t][i] : i \in DOMAIN seen[t]}
  BY DEF Range
<1>8. Map!Foreach
  <2> DEFINE s == seen[t]
             a == cursor[t].all
             passed == {s[i] : i \in DOMAIN s}
  <2>1. result' = <<"foreach", s, a>>
    BY <1>1
  <2>2. /\ passed \subseteq Map!Pairs
        /\ \A i, j \in DOMAIN s : i # j => s[i] # s[j]
        /\ a => passed = Map!Pairs
    BY <1>6, <1>7
  <2> HIDE DEF s, a
  <2>3. Len(result') = 3 /\ result'[1] = "foreach" /\ result'[2] = s /\ result'[3] = a
    BY <2>1
  <2> QED
    BY <1>5, <2>2, <2>3 DEF Map!Foreach
<1>9. Map!Next
  BY <1>8 DEF Map!Next
<1> QED
  BY <1>5, <1>9 DEF MapStep

\* An inject ends.
LEMMA InjectDoneStep ==
  ASSUME IndInv, NEW t \in Threads, InjectDone(t)
  PROVE  IndInv' /\ MapStep
<1>1. /\ pc[t] = "scan" /\ op[t] = "inject" /\ Return(t)
      /\ UNCHANGED <<memory, mutex, result, removed, crashed, calls>>
      /\ UNCHANGED <<memory, removed, crashed, calls>> /\ mutex' = mutex /\ result' = result
  BY DEF InjectDone, ScanEnds
<1>2. OpInv(t) /\ TableInv(t) /\ pc[t] \in Labels
  BY InvParts
<1>3. mutex # t /\ table[t].buckets = NoBuckets
  BY <1>1, <1>2, OpForm DEF TableInv
<1>4. IndInv' /\ Dict' = Dict
  BY <1>1, <1>3, ReturnStep
<1> QED
  BY <1>1, <1>4 DEF MapStep

\* A copy that is complete has the map's contents.
LEMMA ContentsFacts ==
  ASSUME IndInv, NEW t \in Threads, ScanEnds(t), op[t] = "copy"
  PROVE  Contents(t) = Dict
<1>1. /\ Done(t) = Held(Src) /\ Iterating(t) /\ pc[t] = "scan"
  BY ScanFacts
<1>2. CopyInv(t) /\ TableInv(t) /\ HeapInv(node, live, Array, Order)
  BY InvParts
<1>3. Pairs(node, Held(t)) = Pairs(node, Held(Src))
  BY <1>1, <1>2 DEF CopyInv
<1>4. t \in Tables /\ t # Src /\ table[t].buckets # NoBuckets
  BY <1>1, <1>2, PlaceFacts DEF TableInv, Tables
<1>5. Held(t) = Home(node, Array, t)
  BY <1>2, <1>4, HeldFacts
<1>6. \A k \in Keys :
        /\ Lookup(table[t], k) = Null => \A n \in Held(t) : node[n].key # k
        /\ Lookup(table[t], k) # Null => /\ Lookup(table[t], k) \in Held(t)
                                         /\ node[Lookup(table[t], k)].key = k
  BY <1>2, <1>4, <1>5, LookupFacts
<1>7. /\ Dict = DictOf(node, Held(Src)) /\ Distinct(node, Held(Src))
      /\ \A n \in Held(Src) : node[n].key \in Keys
  BY DictForm
<1>8. /\ \A n \in Held(Src) : Dict[node[n].key] = node[n].value
      /\ \A k \in Keys : (\A n \in Held(Src) : node[n].key # k) => Dict[k] = NoValue
      /\ Dict = [k \in Keys |-> Dict[k]]
  BY <1>7, DictFacts
<1>9. /\ \A p : p \in Pairs(node, Held(Src)) <=> \E n \in Held(Src) : p = <<node[n].key, node[n].value>>
      /\ \A p : p \in Pairs(node, Held(t)) <=> \E n \in Held(t) : p = <<node[n].key, node[n].value>>
  BY PairsFacts
<1>10. /\ \A n \in Held(t) : \E a \in Held(Src) : node[a].key = node[n].key /\ node[a].value = node[n].value
       /\ \A n \in Held(Src) : \E a \in Held(t) : node[a].key = node[n].key /\ node[a].value = node[n].value
  <2>1. ASSUME NEW n \in Held(t)
        PROVE  \E a \in Held(Src) : node[a].key = node[n].key /\ node[a].value = node[n].value
    <3>1. <<node[n].key, node[n].value>> \in Pairs(node, Held(Src))
      BY <1>3, <1>9
    <3>2. PICK a \in Held(Src) : <<node[n].key, node[n].value>> = <<node[a].key, node[a].value>>
      BY <1>9, <3>1
    <3> QED
      BY <3>2
  <2>2. ASSUME NEW n \in Held(Src)
        PROVE  \E a \in Held(t) : node[a].key = node[n].key /\ node[a].value = node[n].value
    <3>1. <<node[n].key, node[n].value>> \in Pairs(node, Held(t))
      BY <1>3, <1>9
    <3>2. PICK a \in Held(t) : <<node[n].key, node[n].value>> = <<node[a].key, node[a].value>>
      BY <1>9, <3>1
    <3> QED
      BY <3>2
  <2> QED
    BY <2>1, <2>2
<1>11. ASSUME NEW k \in Keys
       PROVE  Dict[k] = IF Lookup(table[t], k) = Null THEN NoValue
                        ELSE node[Lookup(table[t], k)].value
  <2> DEFINE e == Lookup(table[t], k)
  <2>1. /\ e = Null => \A n \in Held(t) : node[n].key # k
        /\ e # Null => e \in Held(t) /\ node[e].key = k
    BY <1>6
  <2> HIDE DEF e
  <2>2. CASE e = Null
    <3>1. \A n \in Held(Src) : node[n].key # k
      BY <1>10, <2>1, <2>2
    <3>2. Dict[k] = NoValue
      BY <1>8, <3>1
    <3> QED
      BY <2>2, <3>2 DEF e
  <2>3. CASE e # Null
    <3>1. PICK a \in Held(Src) : node[a].key = node[e].key /\ node[a].value = node[e].value
      BY <1>10, <2>1, <2>3
    <3>2. Dict[node[a].key] = node[a].value
      BY <1>8
    <3> QED
      BY <2>1, <2>3, <3>1, <3>2 DEF e
  <2> QED
    BY <2>2, <2>3
<1>12. Contents(t) = [k \in Keys |-> IF Lookup(table[t], k) = Null THEN NoValue
                                     ELSE node[Lookup(table[t], k)].value]
  BY <1>4, Zenon DEF Contents
<1> QED
  BY <1>8, <1>11, <1>12, Zenon

\* A copy is complete.
LEMMA CopyDoneStep ==
  ASSUME IndInv, NEW t \in Threads, CopyDone(t)
  PROVE  IndInv' /\ MapStep
<1>1. /\ ScanEnds(t) /\ op[t] = "copy" /\ Unlock(t)
      /\ result' = <<"copy", Contents(t)>>
      /\ pc' = [pc EXCEPT ![t] = "have"]
      /\ cursor' = [cursor EXCEPT ![t] = NoCursor]
      /\ arg' = [arg EXCEPT ![t] = NoArg]
      /\ UNCHANGED memory /\ table' = table /\ op' = op /\ move' = move /\ seen' = seen
      /\ removed' = removed /\ crashed' = crashed /\ calls' = calls
  BY DEF CopyDone, Goto, memory
<1>2. pc[t] = "scan" /\ mutex = t
  BY <1>1, ScanFacts
<1>3. VarTypes /\ OpInv(t) /\ TableInv(t) /\ mutex \in Threads \cup {NoThread}
  BY InvParts
<1>4. /\ mutex' \in Threads \cup {NoThread} /\ mutex' # t
      /\ mutex' = mutex \/ (mutex = t /\ mutex' = NoThread)
      /\ \A u \in Threads : u # t => (mutex' = u <=> mutex = u)
  BY <1>1, <1>3, Unlocked
<1>5. Array'[NoThread] = Array[NoThread]
  BY <1>1, <1>2, <1>4, ExtraFrame
<1>6. /\ pc' \in [Threads -> Labels] /\ pc'[t] = "have"
      /\ \A u \in Threads : u # t => pc'[u] = pc[u]
  BY <1>1, <1>3 DEF VarTypes, Labels
<1>7. /\ arg' \in [Threads -> [key : Keys, value : Values \cup {NoValue}]]
      /\ \A u \in Threads : u # t => arg'[u] = arg[u]
  <2> DEFINE S == [key : Keys, value : Values \cup {NoValue}]
  <2>1. arg \in [Threads -> S] /\ NoArg \in S
    BY <1>3, NoTypes DEF VarTypes
  <2> HIDE DEF S
  <2>2. arg' \in [Threads -> S] /\ \A u \in Threads : u # t => arg'[u] = arg[u]
    BY <1>1, <2>1
  <2> QED
    BY <2>2 DEF S
<1>8. /\ cursor' \in [Threads -> [i : Nat, len : Nat, entry : Nodes \cup {Null}, all : BOOLEAN]]
      /\ \A u \in Threads : u # t => cursor'[u] = cursor[u]
  <2> DEFINE S == [i : Nat, len : Nat, entry : Nodes \cup {Null}, all : BOOLEAN]
  <2>1. cursor \in [Threads -> S] /\ NoCursor \in S
    BY <1>3, NoTypes DEF VarTypes
  <2> HIDE DEF S
  <2>2. cursor' \in [Threads -> S] /\ \A u \in Threads : u # t => cursor'[u] = cursor[u]
    BY <1>1, <2>1
  <2> QED
    BY <2>2 DEF S
<1>9. VarTypes'
  BY <1>1, <1>3, <1>4, <1>6, <1>7, <1>8 DEF VarTypes
<1>10. ThreadInv(t)'
  <2>1. OpInv(t)'
    BY <1>1, <1>3, <1>4, <1>6 DEF OpInv
  <2>2. TableInv(t)'
    BY <1>1, <1>2, <1>3, <1>6 DEF TableInv
  <2>3. RehashInv(t)' /\ ~Iterating(t)'
    BY <1>6 DEF RehashInv, Iterating
  <2> QED
    BY <2>1, <2>2, <2>3 DEF ThreadInv, CursorInv, CopyInv, SeenInv
<1>11. \A u \in Threads : u # t => Still(u)
  BY <1>1, <1>4, <1>6, <1>7, <1>8 DEF Still
<1>12. RemovedInv'
  BY <1>1, <1>6, RemovedFrame
<1>13. IndInv' /\ Dict' = Dict
  BY <1>1, <1>5, <1>9, <1>10, <1>11, <1>12, LocalStep
<1>14. Map!Copy
  BY <1>1, <1>13, ContentsFacts DEF Map!Copy
<1>15. Map!Next
  BY <1>14 DEF Map!Next
<1> QED
  BY <1>13, <1>15 DEF MapStep

\* The steps that end the process.
LEMMA CrashSteps ==
  ASSUME IndInv, NEW t \in Threads, SizeAssertFails(t) \/ InjectRace(t) \/ DestroyCrash(t)
  PROVE  IndInv' /\ MapStep
<1>1. \E why \in {"assert", "race", "null"} : Crash(why)
  BY DEF SizeAssertFails, InjectRace, DestroyCrash
<1>2. /\ crashed' \in {"no", "assert", "race", "null"}
      /\ UNCHANGED <<memory, mutex, pc, op, arg, move, cursor, seen, result, removed, calls>>
  BY <1>1 DEF Crash
<1> QED
  BY <1>2, CrashStep

\* The second destroy of a copy that failed.
LEMMA DestroyAgainStep ==
  ASSUME IndInv, NEW t \in Threads, DestroyAgain(t)
  PROVE  IndInv' /\ MapStep
<1>1. /\ pc[t] = "destroy" /\ Return(t)
      /\ UNCHANGED <<memory, removed, crashed, calls>> /\ mutex' = mutex /\ result' = result
  BY DEF DestroyAgain
<1>2. OpInv(t) /\ TableInv(t) /\ pc[t] \in Labels
  BY InvParts
<1>3. mutex # t /\ table[t].buckets = NoBuckets
  BY <1>1, <1>2, OpForm DEF TableInv
<1>4. IndInv' /\ Dict' = Dict
  BY <1>1, <1>3, ReturnStep
<1> QED
  BY <1>1, <1>4 DEF MapStep

\* No memory for new buckets or for a node.
LEMMA FailsSteps ==
  ASSUME IndInv, NEW t \in Threads, RehashFails(t) \/ InsertFails(t)
  PROVE  IndInv' /\ MapStep
BY PutFailsStep DEF RehashFails, InsertFails
---------------------------------------------------------------------------
(* Steps that change memory under the mutex *)

\* The other threads wait.
LEMMA MutexStep ==
  ASSUME IndInv, NEW t \in Threads, mutex = t, VarTypes',
         HeapInv(node', live', Array', Order'), KeysInv', SizeInv', RemovedInv', ThreadInv(t)',
         \A u \in Threads : u # t => Still(u) /\ table'[u].buckets = table[u].buckets,
         table'[Src].buckets # NoBuckets,
         BucketCount(table[Src].order) <= BucketCount(table'[Src].order)
  PROVE  IndInv'
<1>1. BucketCount(table[Src].order) \in Nat
  <2>1. HeapInv(node, live, Array, Order) /\ Src \in Places /\ Src \in Tables
    BY InvParts, PlaceFacts DEF Tables
  <2>2. Order[Src] = table[Src].order
    BY <2>1, ArrayFacts
  <2>3. BucketCount(Order[Src]) \in Nat
    BY <2>1, PlaceBuckets
  <2> QED
    BY <2>2, <2>3, Zenon
<1>2. BucketCount(table'[Src].order) \in Nat
  <2>1. Src \in Places /\ Src \in Tables
    BY PlaceFacts DEF Tables
  <2>2. BucketCount(Order'[Src]) \in Nat
    BY <2>1, PlaceBuckets
  <2> QED
    BY <2>1, <2>2, ArrayFactsNext
<1>3. \A u \in Threads : u # t => ThreadInv(u)'
  BY <1>1, <1>2, WaitingThread
<1>4. Core'
  BY <1>3 DEF Core
<1> QED
  BY <1>4, CoreIsInvNext

\* The map stays if the baggage holds the same pairs.
LEMMA DictKept ==
  ASSUME IndInv, IndInv', Held(Src)' = Held(Src),
         \A n \in Held(Src) : node'[n].key = node[n].key /\ node'[n].value = node[n].value
  PROVE  Dict' = Dict
<1> DEFINE S == Held(Src)
           m == node
           m2 == node'
           f == DictOf(m, S)
           g == DictOf(m2, S)
<1>1. Dict = f /\ Distinct(m, S) /\ \A n \in S : m[n].key \in Keys
  BY DictForm
<1>2. Dict' = g /\ Distinct(m2, S) /\ \A n \in S : m2[n].key \in Keys
  BY DictFormNext
<1>3. \A n \in S : m2[n].key = m[n].key /\ m2[n].value = m[n].value
  OBVIOUS
<1> HIDE DEF S, m, m2
<1>4. /\ f = [k \in Keys |-> f[k]] /\ g = [k \in Keys |-> g[k]]
      /\ \A n \in S : f[m[n].key] = m[n].value /\ g[m2[n].key] = m2[n].value
      /\ \A k \in Keys : (\A n \in S : m[n].key # k) => f[k] = NoValue
      /\ \A k \in Keys : (\A n \in S : m2[n].key # k) => g[k] = NoValue
  BY <1>1, <1>2, DictFacts
<1> HIDE DEF f, g
<1>5. \A k \in Keys : f[k] = g[k]
  <2> TAKE k \in Keys
  <2>1. CASE \E n \in S : m[n].key = k
    <3>1. PICK n \in S : m[n].key = k
      BY <2>1
    <3> QED
      BY <1>3, <1>4, <3>1
  <2>2. CASE \A n \in S : m[n].key # k
    BY <1>3, <1>4, <2>2
  <2> QED
    BY <2>1, <2>2
<1>6. f = g
  BY <1>4, <1>5, Zenon
<1> QED
  BY <1>1, <1>2, <1>6

\* The keys and sizes stay right if the tables hold the same nodes.
LEMMA SameHeld ==
  ASSUME IndInv, \A x \in Tables : Held(x)' = Held(x),
         \A x \in Tables : \A n \in Held(x) : node'[n].key = node[n].key
  PROVE  /\ KeysInv'
         /\ (/\ removed' = removed
             /\ \A x \in Tables :
                  /\ table'[x].size = table[x].size
                  /\ table'[x].buckets # NoBuckets => table[x].buckets # NoBuckets
                  /\ table'[x].size < BucketCount(table[x].order) =>
                       table'[x].size < BucketCount(table'[x].order)) => SizeInv'
<1>1. KeysInv /\ SizeInv
  BY InvParts
<1>2. KeysInv'
  BY <1>1 DEF KeysInv
<1>3. ASSUME removed' = removed,
             \A x \in Tables :
               /\ table'[x].size = table[x].size
               /\ table'[x].buckets # NoBuckets => table[x].buckets # NoBuckets
               /\ table'[x].size < BucketCount(table[x].order) =>
                    table'[x].size < BucketCount(table'[x].order)
      PROVE  SizeInv'
  BY <1>1, <1>3 DEF SizeInv
<1> QED
  BY <1>2, <1>3

\* There is room in a copy for the entry that it visits.
LEMMA CopyRoom ==
  ASSUME IndInv, NEW t \in Threads, Iterating(t), op[t] = "copy", pc[t] \in {"put", "insert"}
  PROVE  ~AtThreshold(table[t]) /\ ~AtThreshold(Mine(t)) /\ Target(t) = t
<1>1. /\ HeapInv(node, live, Array, Order) /\ CopyInv(t) /\ SizeInv /\ CursorInv(t) /\ TableInv(t)
      /\ removed \in Nat
  BY InvParts
<1>2. Entry(t) # Null
  BY <1>1 DEF CursorInv
<1>3. Entry(t) \in Held(Src) /\ Done(t) \subseteq Held(Src) /\ Entry(t) \notin Done(t)
  BY <1>2, IterFacts
<1>4. IsFiniteSet(Held(Src)) /\ Cardinality(Held(Src)) \in Nat
  BY <1>1, HeldFacts DEF Tables
<1>5. Done(t) \cup {Entry(t)} \subseteq Held(Src) /\ IsFiniteSet(Done(t))
  BY <1>3, <1>4, FS_Subset
<1>6. Cardinality(Done(t) \cup {Entry(t)}) = Cardinality(Done(t)) + 1 /\ Cardinality(Done(t)) \in Nat
  BY <1>3, <1>5, FS_AddElement, FS_CardinalityType
<1>7. Cardinality(Done(t) \cup {Entry(t)}) <= Cardinality(Held(Src))
  BY <1>4, <1>5, FS_Subset
<1>8. /\ table[Src].size < BucketCount(table[t].order)
      /\ table[t].size = Cardinality(Done(t))
  BY <1>1 DEF CopyInv
<1>9. table[Src].size = Cardinality(Held(Src)) + removed
  <2>1. table[Src].buckets # NoBuckets /\ Src \in Tables
    BY <1>1 DEF TableInv, Tables
  <2> QED
    BY <1>1, <2>1 DEF SizeInv
<1>10. BucketCount(table[t].order) \in Nat
  <2>1. t \in Tables /\ t \in Places
    BY PlaceFacts DEF Tables
  <2> QED
    BY <1>1, <2>1, ArrayFacts, PlaceBuckets
<1>11. ~(table[t].size + 1 >= BucketCount(table[t].order))
  BY <1>1, <1>4, <1>6, <1>7, <1>8, <1>9, <1>10
<1> QED
  BY <1>11 DEF AtThreshold, Mine, Target

\* A put starts: it goes on to insert, or to new buckets first.
LEMMA StartPutStep ==
  ASSUME IndInv, NEW t \in Threads, StartPut(t)
  PROVE  IndInv' /\ MapStep
<1>1. /\ pc[t] = "put"
      /\ UNCHANGED <<memory, mutex, op, arg, cursor, seen, result, removed, crashed, calls>>
      /\ node' = node /\ live' = live /\ table' = table
  BY DEF StartPut, memory
<1>2. /\ VarTypes /\ OpInv(t) /\ TableInv(t) /\ CursorInv(t) /\ CopyInv(t) /\ mutex = t
      /\ op[t] \in {"put", "copy"} /\ HeapInv(node, live, Array, Order) /\ pc \in [Threads -> Labels]
  BY <1>1, InvParts, OpForm DEF VarTypes
<1>3. CASE ~AtThreshold(Mine(t))
  <2>1. pc' = [pc EXCEPT ![t] = "insert"] /\ move' = move /\ Goto(t, "insert")
    BY <1>3 DEF StartPut, Goto
  <2>2. pc'[t] = "insert" /\ "insert" \in Labels /\ "insert" # "remove" /\ pc[t] # "rehash"
    BY <1>1, <1>2, <2>1 DEF Labels
  <2>3. UNCHANGED <<memory, mutex, op, arg, move, cursor, seen, result, removed, crashed, calls>>
    BY <1>1, <2>1
  <2>4. /\ mutex' = mutex /\ op' = op /\ arg' = arg /\ cursor' = cursor /\ seen' = seen
    BY <1>1
  <2>5. Array' = Array
    <3>1. Array'[NoThread] = Array[NoThread]
      BY <1>1, <2>1, <2>4, ExtraFrame
    <3> QED
      BY <1>1, <3>1, SameMemory
  <2>6. /\ Iterating(t)' <=> Iterating(t)
        /\ Entry(t)' = Entry(t) /\ Done(t)' = Done(t) /\ Held(t)' = Held(t)
        /\ (AtThreshold(Mine(t)))' <=> AtThreshold(Mine(t))
    BY <1>1, <2>2, <2>4, <2>5 DEF Iterating, Entry, Done, Held, Mine, Target, AtThreshold
  <2>7. OpInv(t)'
    BY <1>1, <1>2, <2>2, <2>4 DEF OpInv
  <2>8. TableInv(t)'
    BY <1>1, <1>2, <1>3, <2>1, <2>2, <2>4, <2>6 DEF TableInv
  <2>9. RehashInv(t)' /\ SeenInv(t)'
    BY <1>2, <2>2, <2>4 DEF RehashInv, SeenInv
  <2>10. CursorInv(t)'
    BY <1>1, <1>2, <2>2, <2>4, <2>5, <2>6 DEF CursorInv
  <2>11. CopyInv(t)'
    BY <1>1, <1>2, <2>2, <2>4, <2>5, <2>6 DEF CopyInv
  <2>12. ThreadInv(t)'
    BY <2>7, <2>8, <2>9, <2>10, <2>11 DEF ThreadInv
  <2> QED
    BY <2>1, <2>2, <2>3, <2>12, GotoStep
<1>4. CASE AtThreshold(Mine(t))
  <2>1. op[t] = "put" /\ Target(t) = Src /\ Mine(t) = table[Src]
    BY <1>1, <1>2, <1>4, CopyRoom DEF Iterating, Target, Mine
  <2> DEFINE k == table[Src].order + 1
             new == EmptyBuckets(k)
             h == table[Src].buckets[0].head
  <2>2. /\ move' = [move EXCEPT ![t] = [new |-> new, i |-> 0, entry |-> h]]
        /\ pc' = [pc EXCEPT ![t] = "rehash"]
    BY <1>4, <2>1 DEF StartPut, Goto
  <2>3. /\ table[Src].buckets # NoBuckets /\ table[t].buckets = NoBuckets
    BY <1>1, <1>2, <2>1 DEF TableInv
  <2>4. /\ Src \in Places /\ Src \in Tables /\ NoThread \in Places
        /\ Array[Src] = table[Src].buckets /\ Order[Src] = table[Src].order
        /\ Array[Src] # NoBuckets /\ Order[NoThread] = k
    BY <2>3, ArrayFacts, PlaceFacts DEF Tables
  <2>5. /\ 0 \in DOMAIN Array[Src] /\ Array[Src][0] \in List
        /\ BucketCount(table[Src].order) \in Nat /\ 0 < BucketCount(table[Src].order)
    BY <1>2, <2>4, HeapFacts, PlaceBuckets
  <2>6. h \in Nodes \cup {Null} /\ 0 \in Nat
    BY <2>4, <2>5 DEF List
  <2> HIDE DEF new, h
  <2>7. /\ IsMove(move') /\ move'[t] = [new |-> new, i |-> 0, entry |-> h]
        /\ \A u \in Threads : u # t => move'[u] = move[u]
    <3>1. MoveSet(move, t, new, 0, h, move')
      BY <1>2, <2>2, <2>6 DEF MoveSet, VarTypes
    <3> QED
      BY <3>1, MoveUpdate
  <2>8. /\ pc'[t] = "rehash" /\ pc' \in [Threads -> Labels]
        /\ \A u \in Threads : u # t => pc'[u] = pc[u]
    BY <1>2, <2>2 DEF Labels
  <2>9. VarTypes'
    BY <1>1, <1>2, <2>7, <2>8 DEF VarTypes
  <2>10. Array[NoThread] = NoBuckets /\ Held(Src) = Home(node, Array, Src)
    BY <1>1, <1>2, NoExtra
  <2>11. /\ Array'[NoThread] = new /\ Order' = Order
         /\ \A p \in Places : Array'[p] = IF p = NoThread THEN EmptyBuckets(Order'[NoThread]) ELSE Array[p]
    <3>1. mutex' = t /\ move'[t].new = new /\ t # NoThread
      BY <1>1, <1>2, <2>7, PlaceFacts
    <3>2. Array'[NoThread] = new
      BY <3>1, ArrayFactsNext
    <3>3. Order' = Order
      BY <1>1 DEF Order
    <3>4. \A p \in Places : p # NoThread => Array'[p] = Array[p]
      BY <1>1, ArrayFacts, ArrayFactsNext, PlaceFacts
    <3> QED
      BY <2>4, <3>2, <3>3, <3>4 DEF new
  <2>12. \A q \in Places : Order'[q] \in Nat /\ (Array[q] # NoBuckets => Order'[q] = Order[q])
    BY <1>2, <2>11, HeapFacts
  <2>13. /\ HeapInv(node, live, Array', Order') /\ Array'[NoThread] # NoBuckets
         /\ Home(node, Array', NoThread) = {}
         /\ \A q \in Places : q # NoThread => Home(node, Array', q) = Home(node, Array, q)
    <3>1. PICK m, A, o, A2, o2 : m = node /\ A = Array /\ o = Order /\ A2 = Array' /\ o2 = Order'
      OBVIOUS
    <3>2. \A q \in Places : /\ A2[q] = IF q = NoThread THEN EmptyBuckets(o2[NoThread]) ELSE A[q]
                            /\ o2[q] \in Nat /\ (A[q] # NoBuckets => o2[q] = o[q])
      BY <2>11, <2>12, <3>1
    <3>3. HeapInv(m, live, A, o) /\ NoThread \in Places /\ A[NoThread] = NoBuckets
      BY <1>2, <2>4, <2>10, <3>1
    <3>4. /\ HeapInv(m, live, A2, o2) /\ A2[NoThread] # NoBuckets
          /\ Home(m, A2, NoThread) = {}
          /\ \A q \in Places : q # NoThread => Home(m, A2, q) = Home(m, A, q)
      <4>1. Adds(m, live, A, o, NoThread, A2, o2)
        BY <3>2, <3>3, Zenon DEF Adds
      <4>2. Added(m, live, A, NoThread, A2, o2)
        BY <4>1, HeapAdd
      <4> QED
        BY <4>2, Zenon DEF Added
    <3> QED
      BY <3>1, <3>4
  <2>14. \A x \in Tables : Held(x)' = Held(x)
    BY <1>1, <2>10, <2>13, PlaceFacts DEF Held
  <2>15. KeysInv' /\ SizeInv'
    BY <1>1, <2>14, SameHeld
  <2>16. RemovedInv'
    BY <1>1, <2>8, RemovedFrame
  <2>17. ThreadInv(t)'
    <3>1. /\ op'[t] = "put" /\ mutex' = t /\ arg' = arg /\ seen' = seen
          /\ move'[t].new # NoBuckets /\ move'[t].i = 0 /\ move'[t].entry = h
      BY <1>1, <1>2, <2>1, <2>7, <2>11, <2>13
    <3>2. OpInv(t)'
      BY <1>2, <2>1, <2>8, <3>1 DEF OpInv
    <3>3. TableInv(t)'
      BY <1>1, <2>3, <2>8, <3>1 DEF TableInv
    <3>4. RehashInv(t)'
      <4>1. 0 .. 0 - 1 = {}
        OBVIOUS
      <4> QED
        BY <1>1, <2>5, <3>1, <4>1 DEF RehashInv, h
    <3>5. ~Iterating(t)'
      BY <2>8, <3>1 DEF Iterating
    <3> QED
      BY <3>2, <3>3, <3>4, <3>5 DEF ThreadInv, CursorInv, CopyInv, SeenInv
  <2>18. \A u \in Threads : u # t => Still(u) /\ table'[u].buckets = table[u].buckets
    BY <1>1, <2>7, <2>8 DEF Still
  <2>19. IndInv'
    <3>1. HeapInv(node', live', Array', Order')
      BY <1>1, <2>13
    <3>2. BucketCount(table[Src].order) <= BucketCount(table'[Src].order) /\ table'[Src].buckets # NoBuckets
      BY <1>1, <2>3, <2>5
    <3> QED
      BY <1>2, <2>9, <2>15, <2>16, <2>17, <2>18, <3>1, <3>2, MutexStep
  <2> QED
    BY <1>1, <2>4, <2>14, <2>19, MapStutter DEF MapStep
<1> QED
  BY <1>3, <1>4
---------------------------------------------------------------------------
(* Rehash *)

\* A table with another bucket, with one entry more, with other buckets, with none.
BucketSet(f, x, i, l, g) ==
  IsTable(f) /\ x \in Tables /\ g = [f EXCEPT ![x].buckets[i] = l]
EntryAdded(f, x, i, l, g) ==
  IsTable(f) /\ x \in Tables /\ g = [f EXCEPT ![x].buckets[i] = l, ![x].size = @ + 1]
Rehashed(f, x, b, g) ==
  IsTable(f) /\ x \in Tables /\ g = [f EXCEPT ![x].buckets = b, ![x].order = @ + 1]
Destroyed(f, x, b, g) ==
  IsTable(f) /\ x \in Tables /\ g = [f EXCEPT ![x].size = 0, ![x].buckets = b]

\* The record that this table is.
LEMMA TableForm ==
  ASSUME NEW f, NEW x, NEW i, NEW l, NEW b, NEW g
  PROVE  /\ BucketSet(f, x, i, l, g) =>
              TableSet(f, x, f[x].size, f[x].order, [f[x].buckets EXCEPT ![i] = l], g)
         /\ EntryAdded(f, x, i, l, g) =>
              TableSet(f, x, f[x].size + 1, f[x].order, [f[x].buckets EXCEPT ![i] = l], g)
         /\ Rehashed(f, x, b, g) => TableSet(f, x, f[x].size, f[x].order + 1, b, g)
         /\ Destroyed(f, x, b, g) => TableSet(f, x, 0, f[x].order, b, g)
<1> SUFFICES ASSUME IsTable(f), x \in Tables
             PROVE  /\ BucketSet(f, x, i, l, g) =>
                         TableSet(f, x, f[x].size, f[x].order, [f[x].buckets EXCEPT ![i] = l], g)
                    /\ EntryAdded(f, x, i, l, g) =>
                         TableSet(f, x, f[x].size + 1, f[x].order, [f[x].buckets EXCEPT ![i] = l], g)
                    /\ Rehashed(f, x, b, g) => TableSet(f, x, f[x].size, f[x].order + 1, b, g)
                    /\ Destroyed(f, x, b, g) => TableSet(f, x, 0, f[x].order, b, g)
  BY Zenon DEF BucketSet, EntryAdded, Rehashed, Destroyed
<1>1. /\ DOMAIN f = Tables
      /\ f[x] \in [size : Nat, order : Nat, buckets : {f[t].buckets : t \in Tables}]
  BY Zenon DEF IsTable
<1> DEFINE r == f[x]
<1>2. r = [size |-> r.size, order |-> r.order, buckets |-> r.buckets]
  BY <1>1
<1> HIDE DEF r
<1>3. PICK a, o, c : r = [size |-> a, order |-> o, buckets |-> c]
  BY <1>2, Zenon
<1>4. r.size = a /\ r.order = o /\ r.buckets = c
  BY <1>3
<1>5. PICK d, p, s, z : d = [c EXCEPT ![i] = l] /\ p = o + 1 /\ s = a + 1 /\ z = 0
  OBVIOUS
<1>6. PICK q, h, k : /\ q = [r EXCEPT !.buckets = d] /\ h = [r EXCEPT !.buckets = b]
                     /\ k = [r EXCEPT !.size = z]
  OBVIOUS
<1>7. /\ q = [size |-> a, order |-> o, buckets |-> d]
      /\ h = [size |-> a, order |-> o, buckets |-> b]
      /\ k = [size |-> z, order |-> o, buckets |-> c]
  BY <1>3, <1>6
<1>8. /\ [q EXCEPT !.size = s] = [size |-> s, order |-> o, buckets |-> d]
      /\ [h EXCEPT !.order = p] = [size |-> a, order |-> p, buckets |-> b]
      /\ [k EXCEPT !.buckets = b] = [size |-> z, order |-> o, buckets |-> b]
  BY <1>7
<1>9. /\ [f EXCEPT ![x].buckets[i] = l] = [f EXCEPT ![x] = q]
  BY <1>1, <1>4, <1>5, <1>6 DEF r
<1>10. [f EXCEPT ![x].buckets[i] = l, ![x].size = @ + 1] = [f EXCEPT ![x] = [q EXCEPT !.size = s]]
  BY <1>1, <1>4, <1>5, <1>6, <1>7 DEF r
<1>11. [f EXCEPT ![x].buckets = b, ![x].order = @ + 1] = [f EXCEPT ![x] = [h EXCEPT !.order = p]]
  BY <1>1, <1>4, <1>5, <1>6, <1>7 DEF r
<1>12. [f EXCEPT ![x].size = 0, ![x].buckets = b] = [f EXCEPT ![x] = [k EXCEPT !.buckets = b]]
  BY <1>1, <1>5, <1>6 DEF r
<1>13. r.size = f[x].size /\ r.order = f[x].order /\ r.buckets = f[x].buckets
  BY DEF r
<1>14. a = f[x].size /\ o = f[x].order /\ c = f[x].buckets
  BY <1>4, <1>13
<1>15. [f EXCEPT ![x].buckets[i] = l] =
         [f EXCEPT ![x] = [size |-> f[x].size, order |-> f[x].order,
                           buckets |-> [f[x].buckets EXCEPT ![i] = l]]]
  BY <1>5, <1>7, <1>9, <1>14, Zenon
<1>16. [f EXCEPT ![x].buckets[i] = l, ![x].size = @ + 1] =
         [f EXCEPT ![x] = [size |-> f[x].size + 1, order |-> f[x].order,
                           buckets |-> [f[x].buckets EXCEPT ![i] = l]]]
  BY <1>5, <1>8, <1>10, <1>14, Zenon
<1>17. [f EXCEPT ![x].buckets = b, ![x].order = @ + 1] =
         [f EXCEPT ![x] = [size |-> f[x].size, order |-> f[x].order + 1, buckets |-> b]]
  BY <1>5, <1>8, <1>11, <1>14, Zenon
<1>18. [f EXCEPT ![x].size = 0, ![x].buckets = b] =
         [f EXCEPT ![x] = [size |-> 0, order |-> f[x].order, buckets |-> b]]
  BY <1>5, <1>8, <1>12, <1>14, Zenon
<1>19. f[x].size \in Nat /\ f[x].order \in Nat /\ 0 \in Nat
  BY <1>1
<1>20. f[x].size + 1 \in Nat /\ f[x].order + 1 \in Nat
  BY <1>19
<1> QED
  BY <1>15, <1>16, <1>17, <1>18, <1>19, <1>20, Zenon
    DEF TableSet, BucketSet, EntryAdded, Rehashed, Destroyed

\* A rehash with another entry, in the new buckets or in the old ones.
EntryMoved(f, t, i, l, e, g) ==
  IsMove(f) /\ t \in Threads /\ g = [f EXCEPT ![t].new[i] = l, ![t].entry = e]
BucketDone(f, t, i, e, g) ==
  IsMove(f) /\ t \in Threads /\ g = [f EXCEPT ![t].i = i, ![t].entry = e]

\* The record that this rehash is.
LEMMA MoveForm ==
  ASSUME NEW f, NEW t, NEW i, NEW l, NEW e \in Nodes \cup {Null}, NEW z
  PROVE  /\ EntryMoved(f, t, i, l, e, z) =>
              MoveSet(f, t, [f[t].new EXCEPT ![i] = l], f[t].i, e, z)
         /\ BucketDone(f, t, i, e, z) /\ i \in Nat => MoveSet(f, t, f[t].new, i, e, z)
<1> SUFFICES ASSUME IsMove(f), t \in Threads
             PROVE  /\ EntryMoved(f, t, i, l, e, z) =>
                         MoveSet(f, t, [f[t].new EXCEPT ![i] = l], f[t].i, e, z)
                    /\ BucketDone(f, t, i, e, z) /\ i \in Nat => MoveSet(f, t, f[t].new, i, e, z)
  BY Zenon DEF EntryMoved, BucketDone
<1>1. /\ DOMAIN f = Threads
      /\ f[t] \in [new : {f[u].new : u \in Threads}, i : Nat, entry : Nodes \cup {Null}]
  BY Zenon DEF IsMove
<1> DEFINE r == f[t]
<1>2. r = [new |-> r.new, i |-> r.i, entry |-> r.entry]
  BY <1>1
<1> HIDE DEF r
<1>3. PICK a, j, n : r = [new |-> a, i |-> j, entry |-> n]
  BY <1>2, Zenon
<1>4. r.new = a /\ r.i = j /\ r.entry = n
  BY <1>3
<1>5. PICK d : d = [a EXCEPT ![i] = l]
  OBVIOUS
<1>6. PICK g, h : g = [r EXCEPT !.new = d] /\ h = [r EXCEPT !.i = i]
  OBVIOUS
<1>7. /\ g = [new |-> d, i |-> j, entry |-> n]
      /\ h = [new |-> a, i |-> i, entry |-> n]
  BY <1>3, <1>6
<1>8. /\ [g EXCEPT !.entry = e] = [new |-> d, i |-> j, entry |-> e]
      /\ [h EXCEPT !.entry = e] = [new |-> a, i |-> i, entry |-> e]
  BY <1>7
<1>9. [f EXCEPT ![t].new[i] = l, ![t].entry = e] = [f EXCEPT ![t] = [g EXCEPT !.entry = e]]
  BY <1>1, <1>4, <1>5, <1>6 DEF r
<1>10. [f EXCEPT ![t].i = i, ![t].entry = e] = [f EXCEPT ![t] = [h EXCEPT !.entry = e]]
  BY <1>1, <1>4, <1>5, <1>6 DEF r
<1>11. r.new = f[t].new /\ r.i = f[t].i /\ r.entry = f[t].entry
  BY DEF r
<1>12. [f EXCEPT ![t].new[i] = l, ![t].entry = e] =
         [f EXCEPT ![t] = [new |-> [f[t].new EXCEPT ![i] = l], i |-> f[t].i, entry |-> e]]
  BY <1>4, <1>5, <1>8, <1>9, <1>11
<1>13. [f EXCEPT ![t].i = i, ![t].entry = e] = [f EXCEPT ![t] = [new |-> f[t].new, i |-> i, entry |-> e]]
  BY <1>4, <1>5, <1>8, <1>10, <1>11
<1>14. f[t].i \in Nat
  BY <1>1
<1> QED
  BY <1>12, <1>13, <1>14, Zenon DEF MoveSet, EntryMoved, BucketDone

\* Where a rehash is.
LEMMA RehashFacts ==
  ASSUME IndInv, NEW t \in Threads, pc[t] = "rehash"
  PROVE  /\ VarTypes /\ HeapInv(node, live, Array, Order) /\ OpInv(t) /\ TableInv(t) /\ RehashInv(t)
         /\ op[t] = "put" /\ mutex = t /\ Target(t) = Src /\ Mine(t) = table[Src]
         /\ Src \in Places /\ Src \in Tables /\ NoThread \in Places /\ Src # NoThread
         /\ Array[Src] = table[Src].buckets /\ Order[Src] = table[Src].order
         /\ Array[NoThread] = move[t].new /\ Order[NoThread] = table[Src].order + 1
         /\ Array[Src] # NoBuckets /\ Array[NoThread] # NoBuckets /\ table[t].buckets = NoBuckets
         /\ table[Src].order \in Nat /\ move[t].i \in Nat
         /\ DOMAIN Array[Src] = 0 .. BucketCount(table[Src].order) - 1
         /\ BucketCount(table[Src].order) \in Nat
         /\ move[t].i \in DOMAIN Array[Src]
<1>1. /\ VarTypes /\ HeapInv(node, live, Array, Order) /\ OpInv(t) /\ TableInv(t) /\ RehashInv(t)
      /\ RecordInv /\ pc[t] \in Labels
  BY InvParts
<1>2. op[t] = "put" /\ mutex = t
  BY <1>1, OpForm
<1>3. Target(t) = Src /\ Mine(t) = table[Src]
  BY <1>2 DEF Target, Mine
<1>4. /\ Src \in Places /\ Src \in Tables /\ NoThread \in Places /\ Src # NoThread /\ mutex # NoThread
  BY <1>2, PlaceFacts DEF Tables
<1>5. /\ Array[Src] = table[Src].buckets /\ Order[Src] = table[Src].order
      /\ Array[NoThread] = move[t].new /\ Order[NoThread] = table[Src].order + 1
  BY <1>2, <1>4, ArrayFacts
<1>6. /\ table[Src].buckets # NoBuckets /\ move[t].new # NoBuckets /\ table[t].buckets = NoBuckets
  BY <1>1, <1>2 DEF TableInv
<1>7. table[Src].order \in Nat /\ move[t].i \in Nat
  BY <1>1, <1>4, RecordForm
<1>8. /\ DOMAIN Array[Src] = 0 .. BucketCount(table[Src].order) - 1
      /\ BucketCount(table[Src].order) \in Nat
  BY <1>1, <1>4, <1>5, <1>6, HeapFacts, PlaceBuckets
<1>9. move[t].i < BucketCount(table[Src].order)
  BY <1>1 DEF RehashInv
<1>10. move[t].i \in DOMAIN Array[Src]
  BY <1>7, <1>8, <1>9
<1> QED
  BY <1>1, <1>2, <1>3, <1>4, <1>5, <1>6, <1>7, <1>8, <1>10

\* An entry moves to its new bucket.
LEMMA RehashEntryStep ==
  ASSUME IndInv, NEW t \in Threads, RehashEntry(t)
  PROVE  IndInv' /\ MapStep
<1> DEFINE e == move[t].entry
           i == move[t].i
           l == Array[Src][i]
           T == ListNodeRemove(node, l, e)
           j == Index(node[e].key, table[Src].order + 1)
           P == ListInsert(T.node, Array[NoThread][j], Array[NoThread][j].size, e)
           f == node[e].next
           B == [Array[Src] EXCEPT ![i] = T.list]
           C == [Array[NoThread] EXCEPT ![j] = P.list]
<1>1. pc[t] = "rehash" /\ e # Null
  BY DEF RehashEntry
<1>2. /\ VarTypes /\ HeapInv(node, live, Array, Order) /\ OpInv(t) /\ TableInv(t) /\ RehashInv(t)
      /\ op[t] = "put" /\ mutex = t /\ Target(t) = Src /\ Mine(t) = table[Src]
      /\ Src \in Places /\ Src \in Tables /\ NoThread \in Places /\ Src # NoThread
      /\ Array[Src] = table[Src].buckets /\ Order[Src] = table[Src].order
      /\ Array[NoThread] = move[t].new /\ Order[NoThread] = table[Src].order + 1
      /\ Array[Src] # NoBuckets /\ Array[NoThread] # NoBuckets /\ table[t].buckets = NoBuckets
      /\ table[Src].order \in Nat /\ i \in Nat
      /\ DOMAIN Array[Src] = 0 .. BucketCount(table[Src].order) - 1
      /\ BucketCount(table[Src].order) \in Nat
      /\ i \in DOMAIN Array[Src]
  BY <1>1, RehashFacts, Zenon
<1>3. /\ node' = P.node
      /\ table' = [table EXCEPT ![Src].buckets[i] = T.list]
      /\ move' = [move EXCEPT ![t].new[j] = P.list, ![t].entry = f]
      /\ UNCHANGED <<live, mutex, pc, op, arg, cursor, seen, result, removed, crashed, calls>>
  BY <1>2, ZenonT(60) DEF RehashEntry, ListAppend
<1>4. l.head = e /\ T.list.head = f
  <2>1. l.head = e
    BY <1>1, <1>2 DEF RehashInv
  <2> QED
    BY <2>1 DEF ListNodeRemove
<1>5. e \in In(node, Array, Src, i)
  <2>1. IsChain(node, l, Chain(node, l))
    BY <1>2, HeapFacts
  <2>2. e \in Range(Chain(node, l))
    BY <1>1, <1>4, <2>1, ChainFacts
  <2> QED
    BY <2>2 DEF In
<1>6. /\ e \in Nodes /\ e \in live /\ node[e].key \in Keys /\ node[e].value \in Values
      /\ e \in Home(node, Array, Src) /\ f \in Nodes \cup {Null}
  <2>1. e \in Nodes /\ e \in live /\ node[e].value \in Values /\ e \in Home(node, Array, Src)
    BY <1>2, <1>5, InFacts
  <2>2. node \in [Nodes -> NodeType]
    BY InvParts
  <2> QED
    BY <2>1, <2>2 DEF NodeType
<1>7. j \in DOMAIN Array[NoThread]
  <2> DEFINE k == table[Src].order + 1
  <2>1. k \in Nat /\ k = Order[NoThread]
    BY <1>2
  <2> HIDE DEF k
  <2>2. Index(node[e].key, k) \in 0 .. BucketCount(k) - 1
    BY <1>6, <2>1, IndexFacts
  <2>3. DOMAIN Array[NoThread] = 0 .. BucketCount(Order[NoThread]) - 1
    BY <1>2, HeapFacts
  <2> QED
    BY <2>1, <2>2, <2>3 DEF k
<1>8. PICK A1 : A1 = [p \in Places |-> IF p = Src THEN B ELSE Array[p]]
  OBVIOUS
<1>9. PICK A2 : A2 = [p \in Places |-> IF p = NoThread THEN C ELSE A1[p]]
  OBVIOUS
<1>10. PICK r : r = T
  OBVIOUS
<1>11. PICK q : q = P
  OBVIOUS
<1> HIDE DEF e, i, l, T, j, P, f, B, C
<1>12. /\ HeapInv(r.node, live \ {e}, A1, Order)
       /\ \A x \in Places : DOMAIN A1[x] = DOMAIN Array[x]
       /\ \A x \in Places : \A y \in DOMAIN Array[x] : x # Src \/ y # i => A1[x][y] = Array[x][y]
       /\ A1[Src][i] = r.list
       /\ Home(r.node, A1, Src) = Home(node, Array, Src) \ {e}
       /\ \A x \in Places : x # Src => Home(r.node, A1, x) = Home(node, Array, x)
       /\ \A n \in Nodes : r.node[n].key = node[n].key /\ r.node[n].value = node[n].value
  <2>1. r = ListNodeRemove(node, Array[Src][i], e)
    BY <1>10 DEF T, l
  <2>2. \A x \in Places : A1[x] = IF x = Src THEN [Array[Src] EXCEPT ![i] = r.list] ELSE Array[x]
    BY <1>8, <1>10 DEF B
  <2>3. Leaves(node, live, Array, Order, Src, i, e, r, A1)
    BY <1>2, <1>5, <2>1, <2>2, Zenon DEF Leaves
  <2>4. Left(node, live, Array, Order, Src, i, e, r, A1)
    BY <2>3, HeapRemove
  <2> QED
    BY <2>4, Zenon DEF Left
<1>13. A1[NoThread] = Array[NoThread]
  BY <1>2, <1>8
<1>14. /\ HeapInv(q.node, (live \ {e}) \cup {e}, A2, Order)
       /\ \A x \in Places : \A y \in DOMAIN A1[x] : x # NoThread \/ y # j => A2[x][y] = A1[x][y]
       /\ Home(q.node, A2, NoThread) = Home(r.node, A1, NoThread) \cup {e}
       /\ \A x \in Places : x # NoThread => Home(q.node, A2, x) = Home(r.node, A1, x)
       /\ \A n \in Nodes : q.node[n].key = r.node[n].key /\ q.node[n].value = r.node[n].value
  <2>1. /\ q = ListInsert(r.node, A1[NoThread][j], A1[NoThread][j].size, e)
    BY <1>10, <1>11, <1>13 DEF P
  <2>2. \A x \in Places : A2[x] = IF x = NoThread THEN [A1[NoThread] EXCEPT ![j] = q.list] ELSE A1[x]
    BY <1>9, <1>11, <1>13 DEF C
  <2>3. j \in DOMAIN A1[NoThread]
    BY <1>7, <1>13
  <2>4. Index(r.node[e].key, Order[NoThread]) = j /\ r.node[e].value \in Values
    BY <1>2, <1>6, <1>12 DEF j
  <2>5. e \notin live \ {e}
    OBVIOUS
  <2> DEFINE M == r.node
             R == live \ {e}
  <2> HIDE DEF M, R
  <2>6. HeapInv(M, R, A1, Order) /\ e \notin R
    BY <1>12, <2>5 DEF M, R
  <2>7. Joins(M, R, A1, Order, NoThread, j, e, q, A2)
    BY <1>2, <1>6, <2>1, <2>2, <2>3, <2>4, <2>6, Zenon DEF Joins, M
  <2>8. Joined(M, R, A1, Order, NoThread, j, e, q, A2)
    BY <2>7, HeapAppend
  <2> QED
    BY <2>8, Zenon DEF Joined, M, R
<1>15. /\ IsTable(table')
       /\ table'[Src] = [size |-> table[Src].size, order |-> table[Src].order, buckets |-> B]
       /\ \A y \in Tables : y # Src => table'[y] = table[y]
  <2>1. IsTable(table)
    BY <1>2 DEF VarTypes
  <2>2. BucketSet(table, Src, i, r.list, table')
    BY <1>2, <1>3, <1>10, <2>1 DEF BucketSet
  <2>3. TableSet(table, Src, table[Src].size, table[Src].order, [table[Src].buckets EXCEPT ![i] = r.list], table')
    BY <2>2, TableForm
  <2>4. [table[Src].buckets EXCEPT ![i] = r.list] = B
    BY <1>2, <1>10 DEF B
  <2>5. TableSet(table, Src, table[Src].size, table[Src].order, B, table')
    BY <2>3, <2>4, Zenon
  <2> QED
    BY <2>5, TableUpdate
<1>16. /\ IsMove(move')
       /\ move'[t] = [new |-> C, i |-> i, entry |-> f]
       /\ \A y \in Threads : y # t => move'[y] = move[y]
  <2>1. IsMove(move)
    BY <1>2 DEF VarTypes
  <2>2. EntryMoved(move, t, j, q.list, f, move')
    BY <1>3, <1>11, <2>1 DEF EntryMoved
  <2>3. MoveSet(move, t, [move[t].new EXCEPT ![j] = q.list], move[t].i, f, move')
    BY <1>6, <2>2, MoveForm
  <2>4. [move[t].new EXCEPT ![j] = q.list] = C /\ move[t].i = i
    BY <1>2, <1>11 DEF C, i
  <2>5. MoveSet(move, t, C, i, f, move')
    BY <2>3, <2>4, Zenon
  <2> QED
    BY <2>5, MoveUpdate
<1>17. Array' = A2 /\ Order' = Order
  <2>1. mutex' = t /\ t # NoThread
    BY <1>2, <1>3, PlaceFacts
  <2>2. Array'[NoThread] = C
    BY <1>16, <2>1, ArrayFactsNext
  <2>3. \A x \in Tables : Array'[x] = IF x = Src THEN B ELSE Array[x]
    <3>1. Array'[Src] = B
      BY <1>2, <1>15, ArrayFactsNext
    <3>2. \A x \in Tables : x # Src => Array'[x] = Array[x]
      <4>1. \A x \in Tables : Array[x] = table[x].buckets /\ Array'[x] = table'[x].buckets
        BY ArrayFacts, ArrayFactsNext
      <4>2. \A x \in Tables : x # Src => table'[x] = table[x]
        BY <1>15
      <4> QED
        BY <4>1, <4>2, Zenon
    <3> QED
      BY <3>1, <3>2
  <2>4. \A p \in Places : Array'[p] = A2[p]
    BY <1>2, <1>8, <1>9, <2>2, <2>3, PlaceFacts
  <2>5. \A p \in Places : Order'[p] = Order[p]
    <3>1. table'[Src].order = table[Src].order
      BY <1>15
    <3>2. \A x \in Tables : table'[x].order = table[x].order
      BY <1>15, <3>1
    <3> QED
      BY <3>1, <3>2, ArrayFacts, ArrayFactsNext, PlaceFacts, ZenonT(60)
  <2>6. Order' = Order
    BY <2>5, ArrayFacts, ArrayFactsNext
  <2>7. Array' = [p \in Places |-> Array'[p]]
    BY ArrayFactsNext
  <2>8. A2 = [p \in Places |-> A2[p]]
    BY <1>9
  <2> QED
    BY <2>4, <2>6, <2>7, <2>8
<1>18. node' = q.node /\ live' = live /\ (live \ {e}) \cup {e} = live
  BY <1>3, <1>6, <1>11
<1>19. HeapInv(node', live', Array', Order')
  BY <1>14, <1>17, <1>18
<1>20. /\ \A x \in Tables : Held(x)' = Held(x)
       /\ \A n \in Nodes : node'[n].key = node[n].key /\ node'[n].value = node[n].value
  <2>1. /\ Home(node', Array', Src) = Home(node, Array, Src) \ {e}
        /\ Home(node', Array', NoThread) = Home(node, Array, NoThread) \cup {e}
        /\ \A x \in Places : x # Src /\ x # NoThread => Home(node', Array', x) = Home(node, Array, x)
    BY <1>2, <1>12, <1>14, <1>17, <1>18
  <2>2. Held(Src)' = Held(Src)
    BY <1>6, <2>1 DEF Held
  <2>3. \A x \in Tables : x # Src => Held(x)' = Held(x)
    BY <2>1, PlaceFacts DEF Held
  <2>4. \A n \in Nodes : node'[n].key = node[n].key /\ node'[n].value = node[n].value
    BY <1>12, <1>14, <1>18
  <2> QED
    BY <2>2, <2>3, <2>4
<1>21. \A x \in Tables : Held(x) \subseteq Nodes
  BY <1>2, HeldFacts
<1>22. /\ removed' = removed /\ calls' = calls /\ mutex' = mutex /\ pc' = pc /\ op' = op /\ arg' = arg
       /\ cursor' = cursor /\ seen' = seen /\ result' = result /\ crashed' = crashed
  BY <1>3
<1>23. KeysInv' /\ SizeInv'
  <2>1. \A x \in Tables : /\ table'[x].size = table[x].size /\ table'[x].order = table[x].order
                          /\ table'[x].buckets # NoBuckets => table[x].buckets # NoBuckets
    BY <1>2, <1>15
  <2> QED
    BY <1>20, <1>21, <1>22, <2>1, SameHeld
<1>24. VarTypes'
  BY <1>2, <1>15, <1>16, <1>22 DEF VarTypes
<1>25. RemovedInv'
  BY <1>1, <1>22, RemovedFrame
<1>26. Array'[Src] # NoBuckets /\ Array'[NoThread] # NoBuckets
  <2>1. DOMAIN B = DOMAIN Array[Src] /\ DOMAIN C = DOMAIN Array[NoThread]
    BY DEF B, C
  <2>2. DOMAIN NoBuckets = {}
    BY DEF NoBuckets
  <2>3. Array'[Src] = B /\ Array'[NoThread] = C
    BY <1>2, <1>8, <1>9, <1>17
  <2> QED
    BY <1>2, <1>7, <2>1, <2>2, <2>3
<1>27. table'[Src].buckets = Array'[Src] /\ move'[t].new = Array'[NoThread]
  <2>1. mutex' = t /\ t # NoThread
    BY <1>2, <1>3, PlaceFacts
  <2> QED
    BY <1>2, <2>1, ArrayFactsNext
<1>28. ThreadInv(t)'
  <2>1. OpInv(t)'
    BY <1>1, <1>2, <1>22 DEF OpInv
  <2>2. TableInv(t)'
    <3>1. table'[t] = table[t]
      BY <1>15, PlaceFacts DEF Tables
    <3> QED
      BY <1>1, <1>2, <1>22, <1>26, <1>27, <3>1 DEF TableInv
  <2>3. RehashInv(t)'
    <3>1. move'[t].i = i /\ move'[t].entry = f /\ table'[Src].order = table[Src].order
      BY <1>15, <1>16
    <3>2. Array'[Src] = A1[Src]
      BY <1>2, <1>9, <1>17
    <3>3. table'[Src].buckets[i].head = f
      BY <1>4, <1>10, <1>12, <1>27, <3>2
    <3>4. ASSUME NEW b \in 0 .. i - 1
          PROVE  table'[Src].buckets[b].head = Null
      <4>1. b \in DOMAIN Array[Src] /\ b # i
        BY <1>2
      <4>2. table'[Src].buckets[b] = table[Src].buckets[b]
        BY <1>2, <1>12, <1>27, <3>2, <4>1
      <4>3. table[Src].buckets[b].head = Null
        BY <1>1, <1>2 DEF RehashInv, i
      <4> QED
        BY <4>2, <4>3
    <3>5. i < BucketCount(table[Src].order)
      BY <1>2
    <3> QED
      BY <3>1, <3>3, <3>4, <3>5 DEF RehashInv
  <2>4. ~Iterating(t)'
    BY <1>1, <1>22 DEF Iterating
  <2> QED
    BY <2>1, <2>2, <2>3, <2>4 DEF ThreadInv, CursorInv, CopyInv, SeenInv
<1>29. \A u \in Threads : u # t => Still(u) /\ table'[u].buckets = table[u].buckets
  <2>1. \A u \in Threads : u \in Tables /\ u # Src
    BY PlaceFacts DEF Tables
  <2> QED
    BY <1>15, <1>16, <1>22, <2>1 DEF Still
<1>30. IndInv'
  <2>1. BucketCount(table[Src].order) <= BucketCount(table'[Src].order) /\ table'[Src].buckets # NoBuckets
    BY <1>2, <1>15, <1>26, <1>27
  <2> QED
    BY <1>2, <1>19, <1>23, <1>24, <1>25, <1>28, <1>29, <2>1, MutexStep
<1>31. Dict' = Dict
  BY <1>2, <1>20, <1>21, <1>30, DictKept
<1> QED
  BY <1>22, <1>30, <1>31, Zenon DEF MapStep

\* A rehash goes on to the next bucket.
LEMMA RehashNextStep ==
  ASSUME IndInv, NEW t \in Threads, RehashBucket(t), move[t].i + 1 < BucketCount(Mine(t).order)
  PROVE  IndInv' /\ MapStep
<1> DEFINE i == move[t].i + 1
           h == table[Src].buckets[i].head
<1>1. pc[t] = "rehash" /\ move[t].entry = Null
  BY DEF RehashBucket
<1>2. /\ VarTypes /\ HeapInv(node, live, Array, Order) /\ OpInv(t) /\ TableInv(t) /\ RehashInv(t)
      /\ op[t] = "put" /\ mutex = t /\ Mine(t) = table[Src]
      /\ Src \in Places /\ Array[Src] = table[Src].buckets /\ Array[Src] # NoBuckets
      /\ Order[Src] = table[Src].order
      /\ move[t].i \in Nat
      /\ DOMAIN Array[Src] = 0 .. BucketCount(table[Src].order) - 1
      /\ BucketCount(table[Src].order) \in Nat
  BY <1>1, RehashFacts
<1>3. /\ move' = [move EXCEPT ![t].i = i, ![t].entry = h]
      /\ UNCHANGED memory /\ table' = table /\ pc' = pc /\ mutex' = mutex /\ op' = op /\ arg' = arg
      /\ cursor' = cursor /\ seen' = seen /\ result' = result /\ removed' = removed
      /\ crashed' = crashed /\ calls' = calls
  BY <1>2 DEF RehashBucket, memory
<1>4. i \in Nat /\ i < BucketCount(table[Src].order) /\ i \in DOMAIN Array[Src]
  BY <1>2
<1>5. h \in Nodes \cup {Null}
  <2>1. Array[Src] \in [0 .. BucketCount(Order[Src]) - 1 -> List]
    BY <1>2, HeapFacts
  <2> QED
    BY <1>2, <1>4, <2>1 DEF List
<1> HIDE DEF h
<1>6. /\ IsMove(move') /\ move'[t] = [new |-> move[t].new, i |-> i, entry |-> h]
      /\ \A y \in Threads : y # t => move'[y] = move[y]
  <2>1. IsMove(move)
    BY <1>2 DEF VarTypes
  <2>2. BucketDone(move, t, i, h, move')
    BY <1>3, <2>1, Zenon DEF BucketDone
  <2> HIDE DEF i
  <2>3. MoveSet(move, t, move[t].new, i, h, move')
    BY <1>4, <1>5, <2>2, MoveForm
  <2> QED
    BY <2>3, MoveUpdate
<1>7. /\ move'[t].new = move[t].new /\ move'[t].i = i /\ move'[t].entry = h
  BY <1>6
<1>8. Array'[NoThread] = Array[NoThread]
  <2>1. mutex' = t /\ mutex = t /\ t # NoThread
    BY <1>2, <1>3, PlaceFacts
  <2> QED
    BY <1>7, <2>1, ArrayFacts, ArrayFactsNext
<1>9. VarTypes'
  BY <1>2, <1>3, <1>6 DEF VarTypes
<1>10. ThreadInv(t)'
  <2>1. OpInv(t)'
    BY <1>1, <1>2, <1>3 DEF OpInv
  <2>2. TableInv(t)'
    BY <1>1, <1>2, <1>3, <1>7 DEF TableInv
  <2>3. RehashInv(t)'
    <3>1. ASSUME NEW b \in 0 .. i - 1
          PROVE  table[Src].buckets[b].head = Null
      <4>1. CASE b = move[t].i
        BY <1>1, <1>2, <4>1 DEF RehashInv
      <4>2. CASE b # move[t].i
        <5>1. b \in 0 .. move[t].i - 1
          BY <1>2, <4>2
        <5> QED
          BY <1>1, <1>2, <5>1 DEF RehashInv
      <4> QED
        BY <4>1, <4>2
    <3> QED
      BY <1>3, <1>4, <1>7, <3>1 DEF RehashInv, h
  <2>4. ~Iterating(t)'
    BY <1>1, <1>3 DEF Iterating
  <2> QED
    BY <2>1, <2>2, <2>3, <2>4 DEF ThreadInv, CursorInv, CopyInv, SeenInv
<1>11. \A u \in Threads : u # t => Still(u)
  BY <1>3, <1>6 DEF Still
<1>12. RemovedInv'
  BY <1>1, <1>3, RemovedFrame
<1> QED
  BY <1>3, <1>8, <1>9, <1>10, <1>11, <1>12, LocalStep DEF MapStep

\* The new buckets replace the old ones, which are empty.
LEMMA RehashEndStep ==
  ASSUME IndInv, NEW t \in Threads, RehashBucket(t), ~(move[t].i + 1 < BucketCount(Mine(t).order))
  PROVE  IndInv' /\ MapStep
<1> DEFINE B == move[t].new
           k == table[Src].order
<1>1. pc[t] = "rehash" /\ move[t].entry = Null
  BY DEF RehashBucket
<1>2. /\ VarTypes /\ HeapInv(node, live, Array, Order) /\ OpInv(t) /\ TableInv(t) /\ RehashInv(t)
      /\ op[t] = "put" /\ mutex = t /\ Target(t) = Src /\ Mine(t) = table[Src]
      /\ Src \in Places /\ Src \in Tables /\ NoThread \in Places /\ Src # NoThread
      /\ Array[Src] = table[Src].buckets /\ Order[Src] = k
      /\ Array[NoThread] = B /\ Order[NoThread] = k + 1
      /\ Array[Src] # NoBuckets /\ Array[NoThread] # NoBuckets /\ table[t].buckets = NoBuckets
      /\ k \in Nat /\ move[t].i \in Nat
      /\ DOMAIN Array[Src] = 0 .. BucketCount(k) - 1
      /\ BucketCount(k) \in Nat /\ move[t].i \in DOMAIN Array[Src]
  BY <1>1, RehashFacts
<1>3. /\ table' = [table EXCEPT ![Src].buckets = B, ![Src].order = @ + 1]
      /\ move' = [move EXCEPT ![t] = [new |-> NoBuckets, i |-> 0, entry |-> Null]]
      /\ pc' = [pc EXCEPT ![t] = "insert"]
      /\ UNCHANGED <<node, live, mutex, op, arg, cursor, seen, result, removed, crashed, calls>>
  BY <1>2 DEF RehashBucket, Goto, NoMove
<1>4. /\ node' = node /\ live' = live /\ mutex' = mutex /\ op' = op /\ arg' = arg
      /\ cursor' = cursor /\ seen' = seen /\ result' = result /\ removed' = removed
      /\ crashed' = crashed /\ calls' = calls
  BY <1>3
<1> HIDE DEF B, k
<1>5. Home(node, Array, Src) = {}
  <2>1. ASSUME NEW b \in DOMAIN Array[Src]
        PROVE  In(node, Array, Src, b) = {}
    <3>1. Array[Src][b].head = Null
      <4>1. CASE b = move[t].i
        BY <1>1, <1>2, <4>1 DEF RehashInv
      <4>2. CASE b # move[t].i
        <5>1. b \in 0 .. move[t].i - 1
          BY <1>2, <4>2 DEF k
        <5> QED
          BY <1>1, <1>2, <5>1 DEF RehashInv
      <4> QED
        BY <4>1, <4>2
    <3>2. IsChain(node, Array[Src][b], Chain(node, Array[Src][b]))
      BY <1>2, HeapFacts
    <3> QED
      BY <3>1, <3>2, ChainFacts DEF In
  <2> QED
    BY <2>1, HomeFacts
<1>6. /\ IsTable(table')
      /\ table'[Src] = [size |-> table[Src].size, order |-> k + 1, buckets |-> B]
      /\ \A y \in Tables : y # Src => table'[y] = table[y]
  <2>1. Rehashed(table, Src, B, table')
    BY <1>2, <1>3 DEF VarTypes, Rehashed
  <2>2. TableSet(table, Src, table[Src].size, table[Src].order + 1, B, table')
    BY <2>1, TableForm
  <2>3. TableSet(table, Src, table[Src].size, k + 1, B, table')
    BY <2>2, Zenon DEF k
  <2> QED
    BY <2>3, TableUpdate
<1>7. /\ IsMove(move') /\ move'[t].new = NoBuckets
      /\ \A y \in Threads : y # t => move'[y] = move[y]
  <2>1. MoveSet(move, t, NoBuckets, 0, Null, move')
    BY <1>2, <1>3 DEF MoveSet, VarTypes
  <2>2. /\ IsMove(move') /\ move'[t] = [new |-> NoBuckets, i |-> 0, entry |-> Null]
        /\ \A y \in Threads : y # t => move'[y] = move[y]
    BY <2>1, MoveUpdate
  <2> QED
    BY <2>2
<1>8. /\ pc' \in [Threads -> Labels] /\ pc'[t] = "insert"
      /\ \A u \in Threads : u # t => pc'[u] = pc[u]
  BY <1>2, <1>3 DEF VarTypes, Labels
<1>9. table'[Src].order = k + 1 /\ table'[Src].size = table[Src].size /\ table'[Src].buckets = B
  BY <1>6
<1>10. /\ Array'[Src] = B /\ Array'[NoThread] = NoBuckets
       /\ Order'[Src] = k + 1 /\ Order'[NoThread] = k + 1 + 1
       /\ \A x \in Places : x # Src /\ x # NoThread => Array'[x] = Array[x] /\ Order'[x] = Order[x]
  <2>1. mutex' = t /\ t # NoThread
    BY <1>2, <1>4, PlaceFacts
  <2>2. Array'[NoThread] = NoBuckets
    BY <1>7, <2>1, ArrayFactsNext
  <2>3. Array'[Src] = B /\ Order'[Src] = k + 1 /\ Order'[NoThread] = k + 1 + 1
    BY <1>2, <1>9, ArrayFactsNext
  <2>4. \A x \in Tables : x # Src => Array'[x] = Array[x] /\ Order'[x] = Order[x]
    <3>1. \A x \in Tables : Array[x] = table[x].buckets /\ Order[x] = table[x].order
      BY ArrayFacts
    <3>2. \A x \in Tables : Array'[x] = table'[x].buckets /\ Order'[x] = table'[x].order
      BY ArrayFactsNext
    <3>3. \A x \in Tables : x # Src => table'[x] = table[x]
      BY <1>6
    <3> QED
      BY <3>1, <3>2, <3>3, Zenon
  <2> QED
    BY <2>2, <2>3, <2>4, PlaceFacts
<1>11. /\ HeapInv(node, live, Array', Order')
       /\ Home(node, Array', Src) = Home(node, Array, NoThread)
       /\ Home(node, Array', NoThread) = {}
       /\ \A x \in Places : x # Src /\ x # NoThread => Home(node, Array', x) = Home(node, Array, x)
  <2> DEFINE A2 == Array'
             o2 == Order'
  <2>1. \A x \in Places : Order[x] \in Nat
    BY <1>2, HeapFacts
  <2>2. \A x \in Places : /\ A2[x] = IF x = Src THEN Array[NoThread] ELSE IF x = NoThread THEN NoBuckets ELSE Array[x]
                          /\ x # Src /\ x # NoThread => o2[x] = Order[x]
    BY <1>2, <1>10
  <2>3. \A x \in Places : o2[x] \in Nat
    BY <1>2, <1>10, <2>1
  <2>4. o2[Src] = Order[NoThread]
    BY <1>2, <1>10
  <2> HIDE DEF A2, o2
  <2>5. /\ HeapInv(node, live, A2, o2)
        /\ Home(node, A2, Src) = Home(node, Array, NoThread)
        /\ Home(node, A2, NoThread) = {}
        /\ \A x \in Places : x # Src /\ x # NoThread => Home(node, A2, x) = Home(node, Array, x)
    <3>1. /\ HeapInv(node, live, Array, Order) /\ Src \in Places /\ NoThread \in Places
          /\ Src # NoThread /\ Home(node, Array, Src) = {}
      BY <1>2, <1>5
    <3>2. \A x \in Places : /\ A2[x] = IF x = Src THEN Array[NoThread] ELSE IF x = NoThread THEN NoBuckets ELSE Array[x]
                            /\ o2[x] \in Nat
                            /\ x # Src /\ x # NoThread => o2[x] = Order[x]
      BY <2>2, <2>3
    <3> QED
      BY <2>4, <3>1, <3>2, HeapSwap
  <2> QED
    BY <2>5 DEF A2, o2
<1>12. \A x \in Tables : Held(x)' = Held(x)
  <2>1. Held(Src)' = Held(Src)
    BY <1>4, <1>5, <1>11 DEF Held
  <2>2. \A x \in Tables : x # Src => Held(x)' = Held(x)
    BY <1>4, <1>11, PlaceFacts DEF Held
  <2> QED
    BY <2>1, <2>2
<1>13. /\ BucketCount(k + 1) = 2 * BucketCount(k) /\ 0 < BucketCount(k)
  BY <1>2, BucketFacts
<1>14. /\ table[Src].size \in Nat /\ table[Src].size < BucketCount(k)
  <2>1. SizeInv /\ RecordInv
    BY InvParts
  <2>2. table[Src].size \in Nat
    BY <1>2, <2>1, RecordForm
  <2> QED
    BY <1>2, <2>1, <2>2 DEF SizeInv, k
<1>15. KeysInv' /\ SizeInv'
  <2>1. \A x \in Tables : /\ table'[x].size = table[x].size
                          /\ table'[x].buckets # NoBuckets => table[x].buckets # NoBuckets
    BY <1>2, <1>6, <1>9
  <2>2. table[Src].size < BucketCount(k + 1)
    BY <1>2, <1>13, <1>14
  <2>3. \A x \in Tables : table'[x].size < BucketCount(table[x].order) =>
                            table'[x].size < BucketCount(table'[x].order)
    BY <1>6, <1>9, <2>2
  <2> QED
    BY <1>4, <1>12, <2>1, <2>3, SameHeld
<1>16. VarTypes'
  BY <1>2, <1>4, <1>6, <1>7, <1>8 DEF VarTypes
<1>17. RemovedInv'
  BY <1>4, <1>8, RemovedFrame
<1>18. ThreadInv(t)'
  <2>1. OpInv(t)'
    BY <1>1, <1>2, <1>4, <1>8 DEF OpInv
  <2>2. ~AtThreshold(Mine(t))'
    <3>1. Mine(t)' = table'[Src]
      BY <1>2, <1>4 DEF Mine, Target
    <3>2. ~(table[Src].size + 1 >= BucketCount(k + 1))
      BY <1>2, <1>13, <1>14
    <3> QED
      BY <1>9, <3>1, <3>2 DEF AtThreshold
  <2>3. TableInv(t)'
    <3>1. table'[t] = table[t]
      BY <1>6, PlaceFacts DEF Tables
    <3>2. B # NoBuckets
      BY <1>2
    <3> QED
      BY <1>2, <1>4, <1>7, <1>8, <1>9, <2>2, <3>1, <3>2 DEF TableInv
  <2>4. RehashInv(t)' /\ ~Iterating(t)'
    BY <1>2, <1>4, <1>8 DEF RehashInv, Iterating
  <2> QED
    BY <2>1, <2>3, <2>4 DEF ThreadInv, CursorInv, CopyInv, SeenInv
<1>19. \A u \in Threads : u # t => Still(u) /\ table'[u].buckets = table[u].buckets
  <2>1. \A u \in Threads : u \in Tables /\ u # Src
    BY PlaceFacts DEF Tables
  <2> QED
    BY <1>4, <1>6, <1>7, <1>8, <2>1 DEF Still
<1>20. IndInv'
  <2>1. HeapInv(node', live', Array', Order')
    BY <1>4, <1>11
  <2>2. BucketCount(table[Src].order) <= BucketCount(table'[Src].order)
    <3>1. BucketCount(k) <= BucketCount(k + 1)
      BY <1>2, <1>13
    <3> QED
      BY <1>9, <3>1 DEF k
  <2>3. table'[Src].buckets # NoBuckets
    BY <1>2, <1>9
  <2> QED
    BY <1>2, <1>15, <1>16, <1>17, <1>18, <1>19, <2>1, <2>2, <2>3, MutexStep
<1> QED
  BY <1>2, <1>4, <1>12, <1>20, MapStutter DEF MapStep

\* One round of the outer loop of rehash.
LEMMA RehashBucketStep ==
  ASSUME IndInv, NEW t \in Threads, RehashBucket(t)
  PROVE  IndInv' /\ MapStep
BY RehashNextStep, RehashEndStep
---------------------------------------------------------------------------
(* Put and remove *)

\* A call that changed the baggage returns.
LEMMA WriteReturn ==
  ASSUME IndInv, NEW t \in Threads, mutex = t, pc[t] # "rehash", Unlock(t), Return(t),
         table[t].buckets = NoBuckets,
         IsTable(table'), \A x \in Tables : x # Src => table'[x] = table[x],
         table'[Src].buckets # NoBuckets, table'[Src].order = table[Src].order,
         HeapInv(node', live', Array', Order'), KeysInv', SizeInv', RemovedInv',
         removed' \in Nat, crashed' = crashed, calls' = calls
  PROVE  IndInv'
<1>1. VarTypes /\ mutex \in Threads \cup {NoThread}
  BY InvParts
<1>2. /\ mutex' \in Threads \cup {NoThread} /\ mutex' # t
      /\ \A u \in Threads : u # t => (mutex' = u <=> mutex = u)
  BY <1>1, Unlocked
<1>3. \A u \in Threads : u \in Tables /\ u # Src
  BY PlaceFacts DEF Tables
<1>4. VarTypes'
  BY <1>1, <1>2, Returned DEF VarTypes
<1>5. ThreadInv(t)' /\ \A u \in Threads : u # t => Still(u) /\ table'[u].buckets = table[u].buckets
  BY <1>2, <1>3, Returned, ZenonT(60) DEF Still
<1>6. BucketCount(table[Src].order) <= BucketCount(table'[Src].order)
  <2>1. Src \in Places /\ Src \in Tables /\ HeapInv(node, live, Array, Order)
    BY InvParts, PlaceFacts DEF Tables
  <2>2. BucketCount(table[Src].order) \in Nat
    BY <2>1, ArrayFacts, PlaceBuckets
  <2> QED
    BY <2>2
<1> QED
  BY <1>4, <1>5, <1>6, MutexStep

\* Where a put is when it looks the key up.
LEMMA PutFacts ==
  ASSUME IndInv, NEW t \in Threads, pc[t] = "insert"
  PROVE  /\ mutex = t /\ op[t] \in {"put", "copy"} /\ t \in Tables /\ t # Src
         /\ Target(t) \in Tables /\ Target(t) \in Places /\ Target(t) # NoThread
         /\ Mine(t) = table[Target(t)]
         /\ table[Target(t)].buckets # NoBuckets /\ table[Src].buckets # NoBuckets
         /\ ~AtThreshold(table[Target(t)])
         /\ arg[t].key \in Keys /\ arg[t].value \in Values
         /\ Array[NoThread] = NoBuckets /\ Held(Target(t)) = Home(node, Array, Target(t))
         /\ op[t] = "put" => Target(t) = Src /\ table[t].buckets = NoBuckets
         /\ op[t] = "copy" => /\ Target(t) = t /\ Iterating(t) /\ Entry(t) # Null
                              /\ arg[t].key = node[Entry(t)].key
                              /\ arg[t].value = node[Entry(t)].value
                              /\ \A n \in Held(t) : node[n].key # arg[t].key
<1>1. /\ VarTypes /\ HeapInv(node, live, Array, Order) /\ OpInv(t) /\ TableInv(t)
      /\ CursorInv(t) /\ CopyInv(t) /\ pc[t] \in Labels
  BY InvParts
<1>2. mutex = t /\ op[t] \in {"put", "copy"}
  BY <1>1, OpForm
<1>3. /\ t \in Tables /\ t # Src /\ Src \in Tables /\ \A x \in Tables : x \in Places /\ x # NoThread
  BY PlaceFacts DEF Tables
<1>4. Target(t) \in Tables /\ Mine(t) = table[Target(t)]
  BY <1>3 DEF Target, Mine
<1>5. table[Target(t)].buckets # NoBuckets /\ table[Src].buckets # NoBuckets /\ ~AtThreshold(table[Target(t)])
  BY <1>1, <1>2, <1>4 DEF TableInv, Target
<1>6. arg[t].key \in Keys
  BY <1>1 DEF VarTypes
<1>7. /\ Array[NoThread] = NoBuckets /\ Home(node, Array, NoThread) = {}
      /\ Held(Src) = Home(node, Array, Src)
  BY <1>2, NoExtra
<1>8. Held(Target(t)) = Home(node, Array, Target(t))
  BY <1>1, <1>4, <1>7, HeldFacts
<1>9. op[t] = "put" => Target(t) = Src /\ table[t].buckets = NoBuckets /\ arg[t].value \in Values
  BY <1>1, <1>2 DEF Target, TableInv, OpInv
<1>10. ASSUME op[t] = "copy"
       PROVE  /\ Target(t) = t /\ Iterating(t) /\ Entry(t) # Null
              /\ arg[t].key = node[Entry(t)].key
              /\ arg[t].value = node[Entry(t)].value
              /\ \A n \in Held(t) : node[n].key # arg[t].key
              /\ arg[t].value \in Values
  <2>1. Target(t) = t /\ Iterating(t)
    BY <1>10 DEF Target, Iterating
  <2>2. Entry(t) # Null
    BY <1>1, <1>10, <2>1 DEF CursorInv
  <2>3. /\ Entry(t) \in Held(Src) /\ \A d \in Done(t) : node[d].key # node[Entry(t)].key
    BY <1>10, <2>1, <2>2, IterFacts
  <2>4. /\ arg[t] = [key |-> node[Entry(t)].key, value |-> node[Entry(t)].value]
        /\ Pairs(node, Held(t)) = Pairs(node, Done(t))
    BY <1>1, <1>10, <2>1 DEF CopyInv
  <2>5. ASSUME NEW n \in Held(t)
        PROVE  node[n].key # arg[t].key
    <3>1. <<node[n].key, node[n].value>> \in Pairs(node, Held(t))
      BY PairsFacts
    <3>2. PICK d \in Done(t) : <<node[n].key, node[n].value>> = <<node[d].key, node[d].value>>
      BY <2>4, <3>1, PairsFacts
    <3> QED
      BY <2>3, <2>4, <3>2
  <2>6. node[Entry(t)].value \in Values
    BY <1>1, <1>3, <2>3, HeldFacts
  <2> QED
    BY <2>1, <2>2, <2>4, <2>5, <2>6
<1> QED
  BY <1>2, <1>3, <1>4, <1>5, <1>6, <1>7, <1>8, <1>9, <1>10

\* The array of a rehash after a call that returns or goes on.
LEMMA NoExtraNext ==
  ASSUME IndInv, NEW t \in Threads, mutex = t, pc[t] # "rehash",
         (Unlock(t) /\ Return(t)) \/ (mutex' = mutex /\ move' = move)
  PROVE  Array'[NoThread] = NoBuckets
<1>1. Array[NoThread] = NoBuckets
  BY NoExtra
<1>2. mutex \in Threads \cup {NoThread}
  BY InvParts
<1>3. mutex' = mutex \/ (mutex = t /\ mutex' = NoThread)
  BY <1>2, Unlocked
<1>4. move' = move \/ move' = [move EXCEPT ![t] = NoMove]
  BY DEF Return
<1> QED
  BY <1>1, <1>3, <1>4, ExtraFrame

\* A put of a key that is there overwrites its value.
LEMMA OverwriteStep ==
  ASSUME IndInv, NEW t \in Threads, Overwrite(t)
  PROVE  IndInv' /\ MapStep
<1> DEFINE k == arg[t].key
           v == arg[t].value
           e == Lookup(Mine(t), k)
<1>1. /\ pc[t] = "insert" /\ e # Null
      /\ node' = [node EXCEPT ![e].value = v]
      /\ PutDone(t)
      /\ live' = live /\ table' = table /\ removed' = removed /\ crashed' = crashed /\ calls' = calls
  BY DEF Overwrite
<1>2. /\ mutex = t /\ op[t] \in {"put", "copy"} /\ Target(t) \in Tables
      /\ Mine(t) = table[Target(t)]
      /\ table[Target(t)].buckets # NoBuckets /\ table[Src].buckets # NoBuckets
      /\ k \in Keys /\ v \in Values
      /\ Array[NoThread] = NoBuckets /\ Held(Target(t)) = Home(node, Array, Target(t))
      /\ op[t] = "put" => Target(t) = Src /\ table[t].buckets = NoBuckets
      /\ op[t] = "copy" => Target(t) = t /\ \A n \in Held(t) : node[n].key # k
  BY <1>1, PutFacts
<1>3. /\ e \in Home(node, Array, Target(t)) /\ e \in Nodes /\ node[e].key = k
  BY <1>1, <1>2, InvParts, LookupFacts
<1>4. op[t] = "put" /\ Target(t) = Src /\ table[t].buckets = NoBuckets
  BY <1>2, <1>3
<1>5. Unlock(t) /\ Return(t) /\ result' = <<"put", k, TRUE>>
  BY <1>1, <1>4 DEF PutDone
<1> HIDE DEF e, k, v
<1>6. /\ VarTypes /\ HeapInv(node, live, Array, Order) /\ node \in [Nodes -> NodeType]
  BY InvParts
<1>7. /\ node' \in [Nodes -> NodeType]
      /\ \A n \in Nodes : /\ node'[n].next = node[n].next /\ node'[n].prev = node[n].prev
                          /\ node'[n].key = node[n].key
                          /\ node'[n].value = IF n = e THEN v ELSE node[n].value
  BY <1>1, <1>2, <1>3, <1>6 DEF NodeType
<1>8. Array' = Array /\ Order' = Order
  <2>1. Array'[NoThread] = NoBuckets
    BY <1>1, <1>2, <1>5, NoExtraNext
  <2>2. \A p \in Places : Array'[p] = Array[p] /\ Order'[p] = Order[p]
    <3>1. \A y \in Tables : Array'[y] = Array[y] /\ Order'[y] = Order[y]
      BY <1>1, ArrayFacts, ArrayFactsNext
    <3>2. Array'[NoThread] = Array[NoThread]
      BY <1>2, <2>1
    <3>3. Order'[NoThread] = Order[NoThread]
      BY <1>1, ArrayFacts, ArrayFactsNext
    <3> QED
      BY <3>1, <3>2, <3>3, PlaceFacts
  <2> QED
    BY <2>2, ArrayFacts, ArrayFactsNext
<1>9. live \subseteq Nodes /\ \A n \in live : node[n].value \in Values
  <2>1. live \subseteq Nodes
    BY <1>6, HeapFacts
  <2>2. \A n \in live : \E p \in Places : \E i \in DOMAIN Array[p] : n \in In(node, Array, p, i)
    BY <1>6, HeapFacts
  <2>3. \A p \in Places : \A i \in DOMAIN Array[p] : \A n \in In(node, Array, p, i) : node[n].value \in Values
    BY <1>6, HeapFacts
  <2> QED
    BY <2>1, <2>2, <2>3
<1>10. /\ HeapInv(node', live, Array, Order)
       /\ \A p \in Places : Home(node', Array, p) = Home(node, Array, p)
  <2> DEFINE m2 == node'
  <2>1. /\ m2 \in [Nodes -> NodeType]
        /\ \A n \in live : /\ m2[n].next = node[n].next /\ m2[n].prev = node[n].prev
                           /\ m2[n].key = node[n].key /\ m2[n].value \in Values
    BY <1>2, <1>7, <1>9
  <2>2. \A p \in Places : /\ Array[p] = Array[p] /\ Order[p] \in Nat
                          /\ Array[p] # NoBuckets => Order[p] = Order[p]
    BY <1>6, HeapFacts
  <2> HIDE DEF m2
  <2>3. /\ HeapInv(m2, live, Array, Order)
        /\ \A p \in Places : Home(m2, Array, p) = Home(node, Array, p)
    BY <1>6, <2>1, <2>2, HeapFrame
  <2> QED
    BY <2>3 DEF m2
<1>11. \A x \in Tables : Held(x)' = Held(x)
  BY <1>8, <1>10, PlaceFacts DEF Held
<1>12. \A x \in Tables : Held(x) \subseteq Nodes
  BY <1>6, HeldFacts
<1>13. KeysInv' /\ SizeInv'
  BY <1>1, <1>7, <1>11, <1>12, SameHeld
<1>14. RemovedInv'
  <2>1. pc'[t] # "remove" /\ \A u \in Threads : u # t => pc'[u] = pc[u]
    BY <1>5, Returned
  <2> QED
    BY <1>1, <2>1, RemovedFrame
<1>15. IndInv'
  <2>1. HeapInv(node', live', Array', Order')
    BY <1>1, <1>8, <1>10
  <2>2. IsTable(table') /\ removed' \in Nat
    BY <1>1, <1>6 DEF VarTypes
  <2> QED
    BY <1>1, <1>2, <1>4, <1>5, <1>13, <1>14, <2>1, <2>2, WriteReturn
<1>16. Dict' = [Dict EXCEPT ![k] = v]
  <2> DEFINE S == Held(Src)
             m == node
             m2 == node'
  <2>1. Src \in Tables
    BY DEF Tables
  <2>2. Dict = DictOf(m, S) /\ Distinct(m, S) /\ \A n \in S : m[n].key \in Keys
    BY DictForm
  <2>3. Dict' = DictOf(m2, S) /\ Distinct(m2, S) /\ \A n \in S : m2[n].key \in Keys
    BY <1>11, <1>15, <2>1, DictFormNext
  <2>4. \A n \in S : m2[n].key = m[n].key /\ m2[n].value = IF n = e THEN v ELSE m[n].value
    BY <1>7, <1>12, <2>1
  <2>5. e \in S /\ m[e].key = k
    BY <1>2, <1>3, <1>4
  <2> HIDE DEF S, m, m2
  <2>6. SameBut(m, S, m2, S, k)
    BY <2>2, <2>3, <2>4, <2>5 DEF SameBut
  <2>7. DictOf(m2, S)[k] = v
    BY <1>2, <2>3, <2>4, <2>5, DictFacts
  <2>8. DictOf(m2, S) = [DictOf(m, S) EXCEPT ![k] = v]
    BY <1>2, <2>6, <2>7, DictUpdate
  <2> QED
    BY <2>2, <2>3, <2>8
<1>17. Map!Put(k, v)
  BY <1>5, <1>16 DEF Map!Put
<1>18. Map!Next
  BY <1>2, <1>17 DEF Map!Next
<1> QED
  BY <1>15, <1>18 DEF MapStep

\* What an insert does to memory: the new node is in the table, and nothing
\* else changes.
LEMMA InsertHeap ==
  ASSUME IndInv, NEW t \in Threads, Insert(t), NEW x, x = Target(t), NEW e, e = Fresh
  PROVE  /\ e \in Nodes /\ e \notin live /\ e \notin Held(x)
         /\ HeapInv(node', live', Array', Order') /\ Array'[NoThread] = NoBuckets
         /\ IsTable(table') /\ table'[x].size = table[x].size + 1
         /\ table'[x].order = table[x].order /\ table'[x].buckets # NoBuckets
         /\ \A y \in Tables : y # x => table'[y] = table[y]
         /\ \A q \in Places : q # x => \A j \in DOMAIN Array[q] :
              Chain(node', Array'[q][j]) = Chain(node, Array[q][j])
         /\ Held(x)' = Held(x) \cup {e}
         /\ \A y \in Tables : y # x => Held(y)' = Held(y)
         /\ node'[e].key = arg[t].key /\ node'[e].value = arg[t].value
         /\ \A n \in Nodes : n # e =>
              node'[n].key = node[n].key /\ node'[n].value = node[n].value
<1> DEFINE k == arg[t].key
           v == arg[t].value
           i == Index(k, table[x].order)
           new == [key |-> k, value |-> v, next |-> Null, prev |-> Null]
           M == [node EXCEPT ![e] = new]
           l == table[x].buckets[i]
           P == ListInsert(M, l, l.size, e)
           B == [Array[x] EXCEPT ![i] = P.list]
<1>1. pc[t] = "insert" /\ live # Nodes
  BY DEF Insert
<1>2. /\ mutex = t /\ x \in Tables /\ x \in Places /\ x # NoThread
      /\ Mine(t) = table[x] /\ table[x].buckets # NoBuckets
      /\ k \in Keys /\ v \in Values
      /\ Array[NoThread] = NoBuckets /\ Held(x) = Home(node, Array, x)
  BY <1>1, PutFacts, ZenonT(60)
<1>3. /\ node' = P.node /\ live' = live \cup {e}
      /\ table' = [table EXCEPT ![x].buckets[i] = P.list, ![x].size = @ + 1]
      /\ PutDone(t)
  BY <1>2 DEF Insert
<1>4. /\ VarTypes /\ HeapInv(node, live, Array, Order) /\ node \in [Nodes -> NodeType]
      /\ live \subseteq Nodes
  BY InvParts
<1>5. e \in Nodes /\ e \notin live
  BY <1>1, <1>4, FreshFacts
<1>6. /\ M \in [Nodes -> NodeType] /\ M[e].key = k /\ M[e].value = v
      /\ \A n \in Nodes : n # e => M[n] = node[n]
  BY <1>2, <1>4, <1>5 DEF NodeType
<1>7. i \in DOMAIN Array[x] /\ Array[x] = table[x].buckets /\ Order[x] = table[x].order
  BY <1>2, <1>4, ArrayFacts, LookupFacts
<1>8. PICK r : r = P
  OBVIOUS
<1>9. PICK A2 : A2 = [p \in Places |-> IF p = x THEN B ELSE Array[p]]
  OBVIOUS
<1>10. r = ListInsert(M, Array[x][i], Array[x][i].size, e)
  BY <1>7, <1>8
<1>11. \A p \in Places : A2[p] = IF p = x THEN [Array[x] EXCEPT ![i] = r.list] ELSE Array[p]
  BY <1>8, <1>9, ZenonT(60)
<1>12. Index(M[e].key, Order[x]) = i
  BY <1>6, <1>7
<1> HIDE DEF i, M, P, B, l
<1>13. /\ HeapInv(M, live, Array, Order)
       /\ \A p \in Places : \A j \in DOMAIN Array[p] : Chain(M, Array[p][j]) = Chain(node, Array[p][j])
       /\ \A p \in Places : Home(M, Array, p) = Home(node, Array, p)
  <2>1. \A n \in live : node[n].value \in Values
    <3>1. \A n \in live : \E p \in Places : \E j \in DOMAIN Array[p] : n \in In(node, Array, p, j)
      BY <1>4, HeapFacts
    <3>2. \A p \in Places : \A j \in DOMAIN Array[p] : \A n \in In(node, Array, p, j) : node[n].value \in Values
      BY <1>4, HeapFacts
    <3> QED
      BY <3>1, <3>2
  <2>2. \A n \in live : /\ M[n].next = node[n].next /\ M[n].prev = node[n].prev
                        /\ M[n].key = node[n].key /\ M[n].value \in Values
    BY <1>4, <1>5, <1>6, <2>1
  <2>3. \A p \in Places : /\ Array[p] = Array[p] /\ Order[p] \in Nat
                          /\ Array[p] # NoBuckets => Order[p] = Order[p]
    BY <1>4, HeapFacts
  <2>4. M \in [Nodes -> NodeType]
    BY <1>6
  <2> QED
    BY <1>4, <2>2, <2>3, <2>4, HeapFrame
<1>14. /\ HeapInv(r.node, live \cup {e}, A2, Order)
       /\ \A q \in Places : DOMAIN A2[q] = DOMAIN Array[q] /\ (A2[q] = NoBuckets <=> Array[q] = NoBuckets)
       /\ \A q \in Places : \A j \in DOMAIN Array[q] :
            q # x \/ j # i => Chain(r.node, A2[q][j]) = Chain(M, Array[q][j])
       /\ Home(r.node, A2, x) = Home(M, Array, x) \cup {e}
       /\ \A q \in Places : q # x => Home(r.node, A2, q) = Home(M, Array, q)
       /\ \A n \in Nodes : r.node[n].key = M[n].key /\ r.node[n].value = M[n].value
  <2>1. M[e].value \in Values
    BY <1>2, <1>6
  <2>2. Joins(M, live, Array, Order, x, i, e, r, A2)
    BY <1>2, <1>5, <1>7, <1>10, <1>11, <1>12, <1>13, <2>1, Zenon DEF Joins
  <2>3. Joined(M, live, Array, Order, x, i, e, r, A2)
    BY <2>2, HeapAppend
  <2> QED
    BY <2>3, Zenon DEF Joined
<1>15. /\ IsTable(table')
       /\ table'[x] = [size |-> table[x].size + 1, order |-> table[x].order, buckets |-> B]
       /\ \A y \in Tables : y # x => table'[y] = table[y]
  <2>1. IsTable(table)
    BY <1>4 DEF VarTypes
  <2>2. EntryAdded(table, x, i, r.list, table')
    BY <1>2, <1>3, <1>8, <2>1 DEF EntryAdded
  <2>3. TableSet(table, x, table[x].size + 1, table[x].order, [table[x].buckets EXCEPT ![i] = r.list], table')
    BY <2>2, TableForm
  <2>4. [table[x].buckets EXCEPT ![i] = r.list] = B
    BY <1>7, <1>8 DEF B
  <2>5. PICK z : z = table[x].size + 1
    OBVIOUS
  <2>6. PICK w : w = table[x].order
    OBVIOUS
  <2>7. PICK g : g = table'
    OBVIOUS
  <2>8. TableSet(table, x, z, w, B, g)
    BY <2>3, <2>4, <2>5, <2>6, <2>7, Zenon
  <2>9. /\ IsTable(g)
        /\ g[x] = [size |-> z, order |-> w, buckets |-> B]
        /\ \A y \in Tables : y # x => g[y] = table[y]
    BY <2>8, TableUpdate, SMTT(60)
  <2> QED
    BY <2>5, <2>6, <2>7, <2>9
<1>16. Array'[NoThread] = NoBuckets
  <2>1. (Unlock(t) /\ Return(t)) \/ (mutex' = mutex /\ move' = move)
    BY <1>3 DEF PutDone
  <2> QED
    BY <1>1, <1>2, <2>1, NoExtraNext
<1>17. Array' = A2 /\ Order' = Order
  <2>1. Array'[x] = B /\ Order'[x] = Order[x]
    BY <1>2, <1>7, <1>15, ArrayFactsNext
  <2>2. \A y \in Tables : y # x => Array'[y] = Array[y] /\ Order'[y] = Order[y]
    <3>1. \A y \in Tables : y # x => table'[y] = table[y]
      BY <1>15
    <3>2. \A y \in Tables : Array[y] = table[y].buckets /\ Order[y] = table[y].order
      BY ArrayFacts
    <3>3. \A y \in Tables : Array'[y] = table'[y].buckets /\ Order'[y] = table'[y].order
      BY ArrayFactsNext
    <3> QED
      BY <3>1, <3>2, <3>3
  <2>3. Array'[NoThread] = A2[NoThread] /\ Order'[NoThread] = Order[NoThread]
    <3>1. Array'[NoThread] = A2[NoThread]
      BY <1>2, <1>9, <1>16, PlaceFacts
    <3>2. Src \in Tables
      BY DEF Tables
    <3>3. table'[Src].order = table[Src].order
      BY <1>15, <3>2
    <3>4. Order'[NoThread] = Order[NoThread]
      BY <3>3, ArrayFacts, ArrayFactsNext
    <3> QED
      BY <3>1, <3>4
  <2>4. \A p \in Places : Array'[p] = A2[p] /\ Order'[p] = Order[p]
    BY <1>9, <2>1, <2>2, <2>3, PlaceFacts
  <2>5. A2 = [p \in Places |-> A2[p]]
    BY <1>9
  <2> QED
    BY <2>4, <2>5, ArrayFacts, ArrayFactsNext
<1>18. node' = r.node
  BY <1>3, <1>8
<1>19. Held(x)' = Held(x) \cup {e} /\ \A y \in Tables : y # x => Held(y)' = Held(y)
  <2>1. /\ Home(node', Array', x) = Home(node, Array, x) \cup {e}
        /\ \A q \in Places : q # x => Home(node', Array', q) = Home(node, Array, q)
    BY <1>2, <1>13, <1>14, <1>17, <1>18
  <2>2. Held(x)' = Held(x) \cup {e}
    BY <1>2, <2>1, PlaceFacts DEF Held
  <2>3. \A y \in Tables : y # x => Held(y)' = Held(y)
    BY <1>2, <2>1, PlaceFacts DEF Held
  <2> QED
    BY <2>2, <2>3
<1>20. HeapInv(node', live', Array', Order')
  BY <1>3, <1>14, <1>17, <1>18
<1>21. e \notin Held(x)
  BY <1>2, <1>4, <1>5, HeldFacts
<1>22. table'[x].buckets # NoBuckets
  <2>1. Array'[x] # NoBuckets
    BY <1>2, <1>7, <1>14, <1>17
  <2> QED
    BY <1>2, <2>1, ArrayFactsNext
<1>23. \A q \in Places : q # x => \A j \in DOMAIN Array[q] :
         Chain(node', Array'[q][j]) = Chain(node, Array[q][j])
  BY <1>13, <1>14, <1>17, <1>18
<1>24. /\ node'[e].key = k /\ node'[e].value = v
       /\ \A n \in Nodes : n # e =>
            node'[n].key = node[n].key /\ node'[n].value = node[n].value
  BY <1>5, <1>6, <1>14, <1>18
<1>25. /\ table'[x].size = table[x].size + 1 /\ table'[x].order = table[x].order
  BY <1>15
<1> QED
  BY <1>5, <1>15, <1>16, <1>19, <1>20, <1>21, <1>22, <1>23, <1>24, <1>25, SMTT(60)

\* A put of a key that is not there adds a node.
LEMMA InsertStep ==
  ASSUME IndInv, NEW t \in Threads, Insert(t)
  PROVE  IndInv' /\ MapStep
<1> DEFINE k == arg[t].key
           v == arg[t].value
<1>x. PICK x : x = Target(t)
  OBVIOUS
<1>e. PICK e : e = Fresh
  OBVIOUS
<1>1. /\ pc[t] = "insert" /\ Lookup(Mine(t), k) = Null /\ PutDone(t)
      /\ removed' = removed /\ crashed' = crashed /\ calls' = calls
  BY DEF Insert
<1>2. /\ mutex = t /\ op[t] \in {"put", "copy"} /\ t \in Tables /\ t # Src
      /\ x \in Tables /\ x \in Places /\ x # NoThread /\ Mine(t) = table[x]
      /\ table[x].buckets # NoBuckets /\ table[Src].buckets # NoBuckets
      /\ ~AtThreshold(table[x]) /\ k \in Keys /\ v \in Values
      /\ Array[NoThread] = NoBuckets /\ Held(x) = Home(node, Array, x)
      /\ op[t] = "put" => x = Src /\ table[t].buckets = NoBuckets
      /\ op[t] = "copy" => /\ x = t /\ Iterating(t) /\ Entry(t) # Null
                           /\ k = node[Entry(t)].key /\ v = node[Entry(t)].value
  BY <1>x, <1>1, PutFacts
<1>3. \A n \in Held(x) : node[n].key # k
  BY <1>1, <1>2, InvParts, LookupFacts
<1>4. /\ e \in Nodes /\ e \notin live /\ e \notin Held(x)
      /\ HeapInv(node', live', Array', Order') /\ Array'[NoThread] = NoBuckets
      /\ IsTable(table') /\ table'[x].size = table[x].size + 1
      /\ table'[x].order = table[x].order /\ table'[x].buckets # NoBuckets
      /\ \A y \in Tables : y # x => table'[y] = table[y]
      /\ \A q \in Places : q # x => \A j \in DOMAIN Array[q] :
           Chain(node', Array'[q][j]) = Chain(node, Array[q][j])
      /\ Held(x)' = Held(x) \cup {e}
      /\ \A y \in Tables : y # x => Held(y)' = Held(y)
      /\ node'[e].key = k /\ node'[e].value = v
      /\ \A n \in Nodes : n # e =>
           node'[n].key = node[n].key /\ node'[n].value = node[n].value
  BY <1>x, <1>e, InsertHeap
<1>5. /\ VarTypes /\ RecordInv /\ HeapInv(node, live, Array, Order) /\ KeysInv /\ SizeInv /\ RemovedInv
      /\ removed \in Nat /\ OpInv(t) /\ TableInv(t) /\ CursorInv(t) /\ CopyInv(t)
  BY InvParts
<1> HIDE DEF k, v
<1>6. \A y \in Tables : Held(y) \subseteq Nodes /\ Held(y) \subseteq live
  BY <1>5, HeldFacts
<1>7. KeysInv'
  <2>1. ASSUME NEW y \in Tables, NEW a \in Held(y)', NEW b \in Held(y)', node'[a].key = node'[b].key
        PROVE  a = b
    <3>1. CASE y = x
      <4>1. (a = e \/ a \in Held(x)) /\ (b = e \/ b \in Held(x))
        BY <1>4, <2>1, <3>1
      <4>2. \A n \in Held(x) : n # e /\ node'[n].key = node[n].key /\ node[n].key # k
        BY <1>2, <1>3, <1>4, <1>6
      <4>3. \A m, n \in Held(x) : node[m].key = node[n].key => m = n
        BY <1>2, <1>5 DEF KeysInv
      <4> QED
        BY <1>4, <2>1, <4>1, <4>2, <4>3
    <3>2. CASE y # x
      <4>1. a \in Held(y) /\ b \in Held(y)
        BY <1>4, <2>1, <3>2
      <4>2. node'[a].key = node[a].key /\ node'[b].key = node[b].key
        BY <1>4, <1>6, <2>1, <4>1
      <4> QED
        BY <1>5, <2>1, <4>1, <4>2 DEF KeysInv
    <3> QED
      BY <3>1, <3>2
  <2> QED
    BY <2>1 DEF KeysInv
<1>8. /\ Cardinality(Held(x)') = Cardinality(Held(x)) + 1
      /\ table[x].size + 1 < BucketCount(table[x].order)
  <2>1. IsFiniteSet(Held(x)) /\ Cardinality(Held(x)) \in Nat
    BY <1>2, <1>5, HeldFacts
  <2>2. BucketCount(table[x].order) \in Nat /\ table[x].size \in Nat
    <3>1. Order[x] = table[x].order
      BY <1>2, ArrayFacts
    <3> QED
      BY <1>2, <1>5, <3>1, PlaceBuckets, RecordForm
  <2>3. Cardinality(Held(x) \cup {e}) = Cardinality(Held(x)) + 1
    BY <1>4, <2>1, FS_AddElement
  <2> QED
    BY <1>2, <1>4, <2>2, <2>3 DEF AtThreshold
<1>9. SizeInv'
  <2>1. ASSUME NEW y \in Tables, table'[y].buckets # NoBuckets
        PROVE  /\ table'[y].size < BucketCount(table'[y].order)
               /\ table'[y].size = Cardinality(Held(y)') + (IF y = Src THEN removed' ELSE 0)
    <3>1. CASE y = x
      <4>1. /\ table[x].size = Cardinality(Held(x)) + (IF x = Src THEN removed ELSE 0)
        BY <1>2, <1>5 DEF SizeInv
      <4>2. Cardinality(Held(x)) \in Nat
        BY <1>2, <1>5, HeldFacts
      <4>3. /\ table'[y].size = table[x].size + 1 /\ table'[y].order = table[x].order
            /\ Cardinality(Held(y)') = Cardinality(Held(x)) + 1 /\ removed' = removed
        BY <1>1, <1>4, <1>8, <3>1
      <4>4. table[x].size + 1 = (Cardinality(Held(x)) + 1) + (IF x = Src THEN removed ELSE 0)
        BY <1>5, <4>1, <4>2
      <4> QED
        BY <1>8, <3>1, <4>3, <4>4
    <3>2. CASE y # x
      <4>1. table'[y] = table[y] /\ Held(y)' = Held(y)
        BY <1>4, <3>2
      <4> QED
        BY <1>1, <1>5, <2>1, <4>1 DEF SizeInv
    <3> QED
      BY <3>1, <3>2
  <2> QED
    BY <2>1 DEF SizeInv
<1>10. CASE op[t] = "put"
  <2>1. Unlock(t) /\ Return(t) /\ result' = <<"put", k, TRUE>>
    BY <1>1, <1>10 DEF PutDone, k
  <2>2. RemovedInv'
    <3>1. pc'[t] # "remove" /\ \A u \in Threads : u # t => pc'[u] = pc[u]
      BY <2>1, Returned
    <3> QED
      BY <1>1, <3>1, RemovedFrame
  <2>3. x = Src /\ table[t].buckets = NoBuckets
    BY <1>2, <1>10
  <2>4. IndInv'
    BY <1>1, <1>2, <1>4, <1>5, <1>7, <1>9, <2>1, <2>2, <2>3, WriteReturn
  <2>5. Dict' = [Dict EXCEPT ![k] = v]
    <3> DEFINE S == Held(Src)
               S2 == Held(Src)'
               m == node
               m2 == node'
    <3>1. Dict = DictOf(m, S) /\ Distinct(m, S) /\ \A n \in S : m[n].key \in Keys
      BY DictForm
    <3>2. Dict' = DictOf(m2, S2) /\ Distinct(m2, S2) /\ \A n \in S2 : m2[n].key \in Keys
      BY <2>4, DictFormNext
    <3>3. S2 = S \cup {e} /\ e \notin S /\ m2[e].key = k /\ m2[e].value = v
      BY <1>4, <2>3
    <3>4. \A n \in S : m2[n].key = m[n].key /\ m2[n].value = m[n].value
      BY <1>2, <1>4, <1>6, <2>3
    <3> HIDE DEF S, S2, m, m2
    <3>5. SameBut(m, S, m2, S2, k)
      BY <3>1, <3>2, <3>3, <3>4 DEF SameBut
    <3>6. DictOf(m2, S2)[k] = v
      BY <1>2, <3>2, <3>3, DictFacts
    <3>7. DictOf(m2, S2) = [DictOf(m, S) EXCEPT ![k] = v]
      BY <1>2, <3>5, <3>6, DictUpdate
    <3> QED
      BY <3>1, <3>2, <3>7
  <2>6. Map!Put(k, v)
    BY <2>1, <2>5 DEF Map!Put
  <2>7. Map!Next
    BY <1>2, <2>6 DEF Map!Next
  <2> QED
    BY <2>4, <2>7 DEF MapStep
<1>11. CASE op[t] = "copy"
  <2>1. /\ pc' = [pc EXCEPT ![t] = "next"] /\ mutex' = mutex /\ op' = op /\ arg' = arg
        /\ move' = move /\ cursor' = cursor /\ seen' = seen /\ result' = result
    BY <1>1, <1>11 DEF PutDone, Goto
  <2>2. /\ pc' \in [Threads -> Labels] /\ pc'[t] = "next"
        /\ \A u \in Threads : u # t => pc'[u] = pc[u]
    BY <1>5, <2>1 DEF VarTypes, Labels
  <2>3. VarTypes'
    BY <1>1, <1>4, <1>5, <2>1, <2>2 DEF VarTypes
  <2>4. RemovedInv'
    BY <1>1, <2>2, RemovedFrame
  <2>5. x = t /\ Iterating(t) /\ Entry(t) # Null /\ k = node[Entry(t)].key /\ v = node[Entry(t)].value
    BY <1>2, <1>11
  <2>6. Src \in Tables /\ Src # t /\ Src \in Places
    BY <1>2, PlaceFacts DEF Tables
  <2>7. table'[Src] = table[Src] /\ Held(Src)' = Held(Src)
    BY <1>4, <2>5, <2>6
  <2> DEFINE i == cursor[t].i
             E == Entry(t)
             U == Done(t)
  <2>8. /\ i \in DOMAIN Array[Src] /\ Held(Src) = Home(node, Array, Src)
        /\ E \in In(node, Array, Src, i) /\ E \in Held(Src) /\ U \subseteq Held(Src)
    BY <1>11, <2>5, IterFacts
  <2>9. U = Passed(node, Array, i, E, FALSE)
    <3>1. (pc[t] = "next") = FALSE
      BY <1>1
    <3> QED
      BY <3>1, Zenon DEF Done
  <2>10. Iterating(t)' /\ Entry(t)' = E /\ cursor'[t].i = i /\ cursor'[t].len = cursor[t].len
    BY <2>1, <2>2 DEF Iterating, Entry
  <2>11. /\ In(node', Array', Src, i) = In(node, Array, Src, i)
         /\ Done(t)' = Passed(node, Array, i, E, TRUE)
    <3> DEFINE m2 == node'
               A2 == Array'
    <3>1. \A b \in DOMAIN Array[Src] : Chain(m2, A2[Src][b]) = Chain(node, Array[Src][b])
      BY <1>4, <2>5, <2>6
    <3>2. Done(t)' = Passed(m2, A2, i, E, TRUE)
      <4>1. (pc[t] = "next")' = TRUE
        BY <2>2
      <4> QED
        BY <2>10, <4>1, Zenon DEF Done
    <3> HIDE DEF m2, A2, i, E
    <3>3. HeapInv(node, live, Array, Order) /\ i \in DOMAIN Array[Src]
      BY <1>5, <2>8
    <3>4. PICK d : d = TRUE
      OBVIOUS
    <3>5. /\ Passed(m2, A2, i, E, d) = Passed(node, Array, i, E, d)
          /\ In(m2, A2, Src, i) = In(node, Array, Src, i)
      BY <3>1, <3>3, PassedFrame
    <3>6. /\ Passed(m2, A2, i, E, TRUE) = Passed(node, Array, i, E, TRUE)
          /\ In(m2, A2, Src, i) = In(node, Array, Src, i)
      BY <3>4, <3>5, Zenon
    <3> QED
      BY <3>2, <3>6 DEF m2, A2
  <2> HIDE DEF i, E
  <2>12. /\ Done(t)' = U \cup {E} /\ E \notin U
    <3>1. /\ Passed(node, Array, i, E, TRUE) = Passed(node, Array, i, E, FALSE) \cup {E}
          /\ E \notin Passed(node, Array, i, E, FALSE)
      BY <1>5, <2>8, PassedEntry
    <3> QED
      BY <2>9, <2>11, <3>1, Zenon
  <2>13. CursorInv(t)'
    <3>1. op'[t] # "inject" /\ table'[Src].order = table[Src].order
      BY <1>11, <2>1, <2>7
    <3>2. /\ cursor[t].i < cursor[t].len /\ cursor[t].len <= BucketCount(table[Src].order)
          /\ cursor[t].len = BucketCount(table[Src].order)
      BY <1>5, <1>11, <2>5 DEF CursorInv
    <3>3. cursor'[t].i < cursor'[t].len
      BY <2>10, <3>2 DEF i
    <3>4. Entry(t)' \in In(node', Array', Src, cursor'[t].i) \cup {Null}
      BY <2>8, <2>10, <2>11
    <3> QED
      BY <2>5, <2>10, <3>1, <3>2, <3>3, <3>4 DEF CursorInv, E
  <2>14. CopyInv(t)'
    <3>1. /\ table[Src].size < BucketCount(table[t].order)
          /\ table[t].size = Cardinality(U)
          /\ Pairs(node, Held(t)) = Pairs(node, U)
      BY <1>5, <1>11, <2>5 DEF CopyInv
    <3>2. IsFiniteSet(U) /\ Cardinality(U) \in Nat
      <4>1. IsFiniteSet(Held(Src))
        BY <1>5, <2>6, HeldFacts
      <4>2. IsFiniteSet(U)
        BY <2>8, <4>1, FS_Subset
      <4> QED
        BY <4>2, FS_CardinalityType
    <3>3. Cardinality(U \cup {E}) = Cardinality(U) + 1
      BY <2>12, <3>2, FS_AddElement
    <3>4. table'[t].size = Cardinality(Done(t)')
      <4>1. table'[t].size = table[t].size + 1
        BY <1>4, <2>5
      <4> QED
        BY <2>12, <3>1, <3>3, <4>1
    <3>5. Pairs(node', Held(t)') = Pairs(node', Done(t)')
      <4> DEFINE m2 == node'
                 H == Held(t)
      <4>1. /\ \A n \in H : m2[n].key = node[n].key /\ m2[n].value = node[n].value
            /\ \A n \in U \cup {E} : m2[n].key = node[n].key /\ m2[n].value = node[n].value
        <5>1. \A n \in Held(Src) : n \in Nodes /\ n # e
          BY <1>4, <1>6, <2>6
        <5>2. \A n \in H : n \in Nodes /\ n # e
          BY <1>4, <1>6, <2>5, <1>2
        <5> QED
          BY <1>4, <2>8, <5>1, <5>2
      <4>2. Held(t)' = H \cup {e} /\ m2[e].key = node[E].key /\ m2[e].value = node[E].value
        BY <1>4, <2>5 DEF E
      <4> HIDE DEF m2, H
      <4>3. Pairs(m2, H \cup {e}) = Pairs(m2, H) \cup {<<m2[e].key, m2[e].value>>}
        BY PairsMore
      <4>4. Pairs(m2, U \cup {E}) = Pairs(m2, U) \cup {<<m2[E].key, m2[E].value>>}
        BY PairsMore
      <4>5. Pairs(m2, H) = Pairs(node, H)
        BY <4>1, PairsFrame
      <4>6. Pairs(m2, U) = Pairs(node, U)
        BY <4>1, PairsFrame
      <4>7. m2[E].key = node[E].key /\ m2[E].value = node[E].value
        BY <4>1
      <4>8. Pairs(m2, H \cup {e}) = Pairs(m2, U \cup {E})
        BY <3>1, <4>2, <4>3, <4>4, <4>5, <4>6, <4>7, Zenon DEF H
      <4> QED
        BY <2>12, <4>2, <4>8 DEF m2
    <3>6. table'[t].order = table[t].order
      BY <1>4, <2>5
    <3> QED
      BY <2>2, <2>7, <3>1, <3>4, <3>5, <3>6 DEF CopyInv
  <2>15. OpInv(t)'
    BY <1>1, <1>2, <1>5, <1>11, <2>1, <2>2 DEF OpInv
  <2>16. TableInv(t)'
    <3>1. table'[t].buckets # NoBuckets /\ table'[Src].buckets # NoBuckets
      BY <1>2, <1>4, <2>5, <2>7
    <3> QED
      BY <1>1, <1>5, <1>11, <2>1, <2>2, <3>1 DEF TableInv
  <2>17. RehashInv(t)' /\ SeenInv(t)'
    BY <1>11, <2>1, <2>2 DEF RehashInv, SeenInv
  <2>18. ThreadInv(t)'
    BY <2>13, <2>14, <2>15, <2>16, <2>17 DEF ThreadInv
  <2>19. \A u \in Threads : u # t => Still(u) /\ table'[u].buckets = table[u].buckets
    <3>1. \A u \in Threads : u # t => table'[u] = table[u]
      BY <1>4, <2>5 DEF Tables
    <3> QED
      BY <2>1, <2>2, <3>1 DEF Still
  <2>20. IndInv'
    <3>1. BucketCount(table[Src].order) <= BucketCount(table'[Src].order) /\ table'[Src].buckets # NoBuckets
      <4>1. BucketCount(table[Src].order) \in Nat
        BY <1>5, <2>6, ArrayFacts, PlaceBuckets
      <4> QED
        BY <1>2, <2>7, <4>1
    <3> QED
      BY <1>2, <1>4, <1>7, <1>9, <2>3, <2>4, <2>18, <2>19, <3>1, MutexStep
  <2>21. \A n \in Held(Src) : node'[n].key = node[n].key /\ node'[n].value = node[n].value
    BY <1>4, <1>6, <2>6
  <2>22. Dict' = Dict
    BY <2>7, <2>20, <2>21, DictKept
  <2> QED
    BY <2>1, <2>20, <2>22 DEF MapStep
<1> QED
  BY <1>2, <1>10, <1>11

\* A remove takes the node out and leaves the size.
LEMMA RemoveStep ==
  ASSUME IndInv, NEW t \in Threads, Remove(t)
  PROVE  IndInv' /\ MapStep
<1> DEFINE k == arg[t].key
           i == Index(k, table[Src].order)
           T == ListNodeRemove(node, table[Src].buckets[i], Lookup(table[Src], k))
<1>e. PICK e : e = Lookup(table[Src], k)
  OBVIOUS
<1>1. /\ pc[t] = "remove" /\ result' = <<"remove", k, TRUE>> /\ Unlock(t) /\ Return(t)
      /\ crashed' = crashed /\ calls' = calls
      /\ e = Null => UNCHANGED <<memory, removed>>
      /\ e # Null => /\ node' = Dealloc(T.node, {e}) /\ live' = live \ {e}
                     /\ table' = [table EXCEPT ![Src].buckets[i] = T.list]
                     /\ removed' = removed + 1
  BY <1>e DEF Remove
<1>2. /\ VarTypes /\ RecordInv /\ HeapInv(node, live, Array, Order) /\ KeysInv /\ SizeInv /\ RemovedInv
      /\ removed \in Nat /\ calls \in Nat /\ OpInv(t) /\ TableInv(t) /\ pc[t] \in Labels
      /\ live \subseteq Nodes
  BY InvParts
<1>3. mutex = t /\ op[t] = "remove"
  BY <1>1, <1>2, OpForm
<1>4. /\ table[t].buckets = NoBuckets /\ table[Src].buckets # NoBuckets /\ k \in Keys
  BY <1>1, <1>2, <1>3 DEF TableInv, VarTypes
<1>5. /\ Src \in Tables /\ Src \in Places /\ Src # NoThread
  BY PlaceFacts DEF Tables
<1>6. /\ i \in DOMAIN Array[Src]
      /\ e = Null => \A n \in Home(node, Array, Src) : node[n].key # k
      /\ e # Null => /\ e \in In(node, Array, Src, i) /\ e \in Home(node, Array, Src)
                     /\ e \in Nodes /\ node[e].key = k
  BY <1>e, <1>2, <1>4, <1>5, LookupFacts
<1>7. Held(Src) = Home(node, Array, Src) /\ Array[NoThread] = NoBuckets
  BY <1>1, <1>3, NoExtra
<1>8. /\ Dict = DictOf(node, Held(Src)) /\ Distinct(node, Held(Src))
      /\ \A n \in Held(Src) : node[n].key \in Keys
  BY DictForm
<1>9. ASSUME IndInv', Dict' = [Dict EXCEPT ![k] = NoValue]
      PROVE  IndInv' /\ MapStep
  <2>1. Map!Remove(k)
    BY <1>1, <1>9 DEF Map!Remove
  <2>2. Map!Next
    BY <1>4, <2>1 DEF Map!Next
  <2> QED
    BY <1>9, <2>2 DEF MapStep
<1>10. CASE e = Null
  <2>1. IndInv' /\ Dict' = Dict
    BY <1>1, <1>4, <1>10, ReturnStep
  <2>2. DOMAIN Dict = Keys /\ Dict = [x \in Keys |-> Dict[x]] /\ Dict[k] = NoValue
    BY <1>4, <1>6, <1>7, <1>8, <1>10, DictFacts
  <2> HIDE DEF k
  <2>3. Dict = [Dict EXCEPT ![k] = NoValue]
    BY <2>2
  <2> QED
    BY <1>9, <2>1, <2>3
<1>11. CASE e # Null
  <2>1. PICK r : r = T
    OBVIOUS
  <2>2. PICK A2 : A2 = [p \in Places |-> IF p = Src THEN [Array[Src] EXCEPT ![i] = r.list] ELSE Array[p]]
    OBVIOUS
  <2>3. /\ Array[Src] = table[Src].buckets /\ Order[Src] = table[Src].order
    BY <1>5, ArrayFacts
  <2>4. r = ListNodeRemove(node, Array[Src][i], e)
    BY <1>e, <2>1, <2>3
  <2>5. /\ e \in In(node, Array, Src, i) /\ e \in Home(node, Array, Src) /\ e \in Nodes
        /\ node[e].key = k
        /\ node' = Dealloc(r.node, {e}) /\ live' = live \ {e}
        /\ table' = [table EXCEPT ![Src].buckets[i] = r.list] /\ removed' = removed + 1
    BY <1>1, <1>6, <1>11, <2>1
  <2> HIDE DEF i, k, T
  <2>6. /\ HeapInv(r.node, live \ {e}, A2, Order)
        /\ \A q \in Places : DOMAIN A2[q] = DOMAIN Array[q] /\ (A2[q] = NoBuckets <=> Array[q] = NoBuckets)
        /\ Home(r.node, A2, Src) = Home(node, Array, Src) \ {e}
        /\ \A q \in Places : q # Src => Home(r.node, A2, q) = Home(node, Array, q)
        /\ \A n \in Nodes : r.node[n].key = node[n].key /\ r.node[n].value = node[n].value
    <3>1. \A q \in Places : A2[q] = IF q = Src THEN [Array[Src] EXCEPT ![i] = r.list] ELSE Array[q]
      BY <2>2
    <3>2. Leaves(node, live, Array, Order, Src, i, e, r, A2)
      BY <1>2, <1>5, <1>6, <2>4, <2>5, <3>1, Zenon DEF Leaves
    <3>3. Left(node, live, Array, Order, Src, i, e, r, A2)
      BY <3>2, HeapRemove
    <3> QED
      BY <3>3, Zenon DEF Left
  <2>7. PICK m : m = r.node
    OBVIOUS
  <2>8. PICK m2 : m2 = node'
    OBVIOUS
  <2>9. PICK L : L = live \ {e}
    OBVIOUS
  <2>10. HeapInv(m, L, A2, Order) /\ m \in [Nodes -> NodeType]
    BY <2>6, <2>7, <2>9, HeapFacts
  <2>11. /\ m2 \in [Nodes -> NodeType]
         /\ \A n \in Nodes : n # e => m2[n] = m[n]
    <3>1. NoNode \in NodeType
      BY HashAssumption DEF NoNode, NodeType
    <3>2. m2 = [n \in Nodes |-> IF n \in {e} THEN NoNode ELSE m[n]]
      BY <2>5, <2>7, <2>8 DEF Dealloc
    <3> HIDE DEF NoNode, NodeType
    <3> QED
      BY <2>10, <3>1, <3>2
  <2>12. /\ HeapInv(m2, L, A2, Order)
         /\ \A p \in Places : Home(m2, A2, p) = Home(m, A2, p)
    <3>1. \A n \in L : /\ m2[n].next = m[n].next /\ m2[n].prev = m[n].prev
                       /\ m2[n].key = m[n].key /\ m2[n].value \in Values
      <4>1. \A n \in L : m[n].value \in Values
        <5>1. \A n \in L : \E p \in Places : \E j \in DOMAIN A2[p] : n \in In(m, A2, p, j)
          BY <2>10, HeapFacts
        <5>2. \A p \in Places : \A j \in DOMAIN A2[p] : \A n \in In(m, A2, p, j) : m[n].value \in Values
          BY <2>10, HeapFacts
        <5> QED
          BY <5>1, <5>2
      <4>2. \A n \in L : n \in Nodes /\ n # e
        BY <1>2, <2>9
      <4> QED
        BY <2>11, <4>1, <4>2
    <3>2. \A p \in Places : /\ A2[p] = A2[p] /\ Order[p] \in Nat
                            /\ A2[p] # NoBuckets => Order[p] = Order[p]
      BY <2>10, HeapFacts
    <3>3. m2 \in [Nodes -> NodeType] /\ HeapInv(m, L, A2, Order)
      BY <2>10, <2>11
    <3> QED
      BY <3>1, <3>2, <3>3, HeapFrame
  <2>13. /\ IsTable(table') /\ \A y \in Tables : y # Src => table'[y] = table[y]
         /\ table'[Src] = [size |-> table[Src].size, order |-> table[Src].order,
                           buckets |-> [Array[Src] EXCEPT ![i] = r.list]]
    <3>1. BucketSet(table, Src, i, r.list, table')
      BY <1>2, <1>5, <2>5 DEF BucketSet, VarTypes
    <3>2. TableSet(table, Src, table[Src].size, table[Src].order, [table[Src].buckets EXCEPT ![i] = r.list], table')
      BY <3>1, TableForm
    <3>3. PICK b : b = [Array[Src] EXCEPT ![i] = r.list]
      OBVIOUS
    <3>4. PICK c, d, g : c = table[Src].size /\ d = table[Src].order /\ g = table'
      OBVIOUS
    <3>5. TableSet(table, Src, c, d, b, g)
      BY <2>3, <3>2, <3>3, <3>4, Zenon
    <3>6. /\ IsTable(g) /\ \A y \in Tables : y # Src => g[y] = table[y]
          /\ g[Src] = [size |-> c, order |-> d, buckets |-> b]
      BY <3>5, TableUpdate
    <3> QED
      BY <3>3, <3>4, <3>6
  <2>14. /\ table'[Src].size = table[Src].size /\ table'[Src].order = table[Src].order
         /\ table'[Src].buckets = A2[Src]
    BY <1>5, <2>2, <2>13
  <2>15. Array' = A2 /\ Order' = Order
    <3>1. Array'[NoThread] = NoBuckets
      BY <1>1, <1>3, NoExtraNext
    <3>2. \A y \in Tables : y # Src => Array'[y] = Array[y] /\ Order'[y] = Order[y]
      <4>1. \A y \in Tables : y # Src => table'[y] = table[y]
        BY <2>13
      <4>2. \A y \in Tables : Array[y] = table[y].buckets /\ Order[y] = table[y].order
        BY ArrayFacts
      <4>3. \A y \in Tables : Array'[y] = table'[y].buckets /\ Order'[y] = table'[y].order
        BY ArrayFactsNext
      <4> QED
        BY <4>1, <4>2, <4>3
    <3>3. Array'[Src] = A2[Src] /\ Order'[Src] = Order[Src] /\ Order'[NoThread] = Order[NoThread]
      BY <1>5, <2>14, ArrayFacts, ArrayFactsNext
    <3>4. \A p \in Places : Array'[p] = A2[p] /\ Order'[p] = Order[p]
      BY <1>5, <1>7, <2>2, <3>1, <3>2, <3>3, PlaceFacts
    <3>5. A2 = [p \in Places |-> A2[p]]
      BY <2>2
    <3> QED
      BY <3>4, <3>5, ArrayFacts, ArrayFactsNext
  <2>16. HeapInv(node', live', Array', Order')
    BY <2>5, <2>8, <2>9, <2>12, <2>15
  <2>17. /\ Held(Src)' = Held(Src) \ {e} /\ e \in Held(Src)
         /\ \A y \in Tables : y # Src => Held(y)' = Held(y)
    <3>1. /\ Home(node', Array', Src) = Home(node, Array, Src) \ {e}
          /\ \A p \in Places : p # Src => Home(node', Array', p) = Home(node, Array, p)
      BY <1>5, <2>6, <2>7, <2>8, <2>12, <2>15
    <3>2. e \notin Home(node, Array, NoThread)
      BY <1>2, <1>5, <2>5, HeapFacts, PlaceFacts
    <3>3. Held(Src)' = Held(Src) \ {e} /\ e \in Held(Src)
      BY <1>5, <1>7, <2>5, <3>1, <3>2, PlaceFacts DEF Held
    <3>4. \A y \in Tables : y # Src => Held(y)' = Held(y)
      BY <3>1, PlaceFacts DEF Held
    <3> QED
      BY <3>3, <3>4
  <2>18. \A y \in Tables : \A n \in Held(y)' : /\ n \in Held(y) /\ n # e
                                               /\ node'[n].key = node[n].key /\ node'[n].value = node[n].value
    <3>1. ASSUME NEW y \in Tables, NEW n \in Held(y)'
          PROVE  n \in Held(y) /\ n # e /\ n \in Nodes
      <4>1. n \in Held(y) /\ n # e
        BY <1>2, <1>5, <2>17, HeldFacts
      <4> QED
        BY <1>2, <4>1, HeldFacts
    <3> QED
      BY <2>6, <2>7, <2>8, <2>11, <3>1
  <2>19. KeysInv'
    BY <1>2, <2>18 DEF KeysInv
  <2>20. SizeInv'
    <3>1. /\ IsFiniteSet(Held(Src)) /\ Cardinality(Held(Src)) \in Nat
      BY <1>2, <1>5, HeldFacts
    <3>2. Cardinality(Held(Src) \ {e}) = Cardinality(Held(Src)) - 1
      BY <2>17, <3>1, FS_RemoveElement
    <3>3. /\ table[Src].size < BucketCount(table[Src].order)
          /\ table[Src].size = Cardinality(Held(Src)) + removed
      BY <1>2, <1>4, <1>5 DEF SizeInv
    <3>4. table[Src].size = (Cardinality(Held(Src)) - 1) + (removed + 1)
      BY <1>2, <3>1, <3>3
    <3>5. ASSUME NEW y \in Tables, table'[y].buckets # NoBuckets
          PROVE  /\ table'[y].size < BucketCount(table'[y].order)
                 /\ table'[y].size = Cardinality(Held(y)') + (IF y = Src THEN removed' ELSE 0)
      <4>1. CASE y = Src
        <5>1. /\ table'[y].size = table[Src].size /\ table'[y].order = table[Src].order
              /\ Cardinality(Held(y)') = Cardinality(Held(Src)) - 1 /\ removed' = removed + 1
          BY <2>5, <2>14, <2>17, <3>2, <4>1
        <5> QED
          BY <3>3, <3>4, <4>1, <5>1
      <4>2. CASE y # Src
        <5>1. table'[y] = table[y] /\ Held(y)' = Held(y)
          BY <2>13, <2>17, <4>2
        <5> QED
          BY <1>2, <3>5, <4>2, <5>1 DEF SizeInv
      <4> QED
        BY <4>1, <4>2
    <3> QED
      BY <3>5 DEF SizeInv
  <2>21. RemovedInv' /\ removed' \in Nat
    <3>1. removed + 1 <= calls
      BY <1>1, <1>2 DEF RemovedInv
    <3>2. ~\E u \in Threads : pc'[u] = "remove"
      <4>1. pc'[t] = "idle" /\ \A u \in Threads : u # t => pc'[u] = pc[u]
        BY <1>1, Returned
      <4>2. \A u \in Threads : pc[u] = "remove" => mutex = u
        BY InvParts, OpForm
      <4> QED
        BY <1>3, <4>1, <4>2
    <3> QED
      BY <1>1, <1>2, <2>5, <3>1, <3>2 DEF RemovedInv
  <2>22. IndInv'
    <3>1. table'[Src].buckets # NoBuckets
      BY <1>4, <1>5, <2>3, <2>6, <2>14
    <3> QED
      BY <1>1, <1>3, <1>4, <2>13, <2>14, <2>16, <2>19, <2>20, <2>21, <3>1, WriteReturn
  <2>23. Dict' = [Dict EXCEPT ![k] = NoValue]
    <3> DEFINE S == Held(Src)
               S2 == Held(Src)'
    <3>1. Dict' = DictOf(m2, S2) /\ Distinct(m2, S2) /\ \A n \in S2 : m2[n].key \in Keys
      BY <2>8, <2>22, DictFormNext
    <3>2. S2 = S \ {e} /\ e \in S /\ node[e].key = k
      BY <2>5, <2>17
    <3>3. \A n \in S2 : m2[n].key = node[n].key /\ m2[n].value = node[n].value
      BY <1>5, <2>8, <2>18
    <3>4. Dict = DictOf(node, S) /\ Distinct(node, S) /\ \A n \in S : node[n].key \in Keys
      BY <1>8
    <3> HIDE DEF S, S2
    <3>5. SameBut(node, S, m2, S2, k)
      BY <3>1, <3>2, <3>3, <3>4 DEF SameBut
    <3>6. \A n \in S2 : m2[n].key # k
      BY <3>2, <3>3, <3>4 DEF Distinct
    <3>7. DictOf(m2, S2)[k] = NoValue
      BY <1>4, <3>1, <3>6, DictFacts
    <3>8. DictOf(m2, S2) = [DictOf(node, S) EXCEPT ![k] = NoValue]
      BY <1>4, <3>5, <3>7, DictUpdate
    <3> QED
      BY <3>1, <3>4, <3>8
  <2> QED
    BY <1>9, <2>22, <2>23
<1> QED
  BY <1>10, <1>11

---------------------------------------------------------------------------
(* Tables are made and destroyed *)

\* A copy gets as many buckets as it needs.
LEMMA CopyStep ==
  ASSUME IndInv, NEW t \in Threads, Copy(t)
  PROVE  IndInv' /\ MapStep
<1>1. /\ pc[t] = "copy" /\ node' = node /\ live' = live /\ mutex' = mutex /\ op' = op /\ arg' = arg
      /\ move' = move /\ seen' = seen /\ result' = result /\ removed' = removed
      /\ crashed' = crashed /\ calls' = calls
      /\ cursor' = [cursor EXCEPT ![t] = Cursor(Src)]
      /\ pc' = [pc EXCEPT ![t] = "scan"]
  BY DEF Copy, Goto
<1>2. PICK o : o = IF table[Src].size = 0 THEN InitOrder ELSE MinimalOrder(table[Src].size)
  OBVIOUS
<1>3. table' = [table EXCEPT ![t] = [size |-> 0, order |-> o, buckets |-> EmptyBuckets(o)]]
  BY <1>2 DEF Copy, EmptyTable
<1>4. /\ VarTypes /\ RecordInv /\ HeapInv(node, live, Array, Order) /\ KeysInv /\ SizeInv
      /\ OpInv(t) /\ TableInv(t) /\ pc[t] \in Labels
  BY InvParts
<1>5. op[t] = "copy" /\ mutex = t /\ table[t].buckets = NoBuckets /\ table[Src].buckets # NoBuckets
  BY <1>1, <1>4, OpForm DEF TableInv
<1>6. /\ Src \in Tables /\ Src \in Places /\ Src # NoThread /\ NoThread \in Places
      /\ t \in Tables /\ t \in Places /\ t # Src /\ t # NoThread
  BY PlaceFacts DEF Tables
<1>7. table[Src].size \in Nat
  BY <1>4, <1>6, RecordForm
<1>8. o \in Nat /\ table[Src].size < BucketCount(o) /\ BucketCount(o) \in Nat /\ 0 < BucketCount(o)
  <2>1. o \in Nat /\ table[Src].size < BucketCount(o)
    <3>1. CASE table[Src].size = 0
      <4>1. InitOrder \in Nat
        BY OrderAssumption
      <4>2. BucketCount(InitOrder) \in Nat /\ InitOrder < BucketCount(InitOrder)
        BY <4>1, BucketFacts
      <4> QED
        BY <1>2, <3>1, <4>1, <4>2
    <3>2. CASE table[Src].size # 0
      <4>1. PICK c : c = table[Src].size
        OBVIOUS
      <4>2. MinimalOrder(c) \in Nat /\ c < BucketCount(MinimalOrder(c))
        BY <1>7, <3>2, <4>1, MinimalOrderFits
      <4> QED
        BY <1>2, <3>2, <4>1, <4>2
    <3> QED
      BY <3>1, <3>2
  <2>2. BucketCount(o) \in Nat
    BY <2>1, BucketFacts
  <2> QED
    BY <1>7, <2>1, <2>2
<1>9. PICK b : b = EmptyBuckets(o)
  OBVIOUS
<1>10. /\ IsTable(table') /\ table'[t] = [size |-> 0, order |-> o, buckets |-> b]
       /\ \A y \in Tables : y # t => table'[y] = table[y]
  <2>1. PICK g : g = table'
    OBVIOUS
  <2>2. TableSet(table, t, 0, o, b, g)
    BY <1>3, <1>4, <1>6, <1>8, <1>9, <2>1 DEF TableSet, VarTypes
  <2>3. /\ IsTable(g) /\ g[t] = [size |-> 0, order |-> o, buckets |-> b]
        /\ \A y \in Tables : y # t => g[y] = table[y]
    BY <2>2, TableUpdate
  <2> QED
    BY <2>1, <2>3
<1>11. /\ table'[t].size = 0 /\ table'[t].order = o /\ table'[t].buckets = b
       /\ table'[Src] = table[Src]
  BY <1>6, <1>10
<1>12. Array[NoThread] = NoBuckets /\ Held(Src) = Home(node, Array, Src)
  BY <1>1, <1>5, NoExtra
<1>13. PICK A2, o2 : A2 = Array' /\ o2 = Order'
  OBVIOUS
<1>14. /\ \A q \in Places : q # t => A2[q] = Array[q] /\ o2[q] = Order[q]
       /\ A2[t] = b /\ o2[t] = o
  <2>1. \A y \in Tables : y # t => table'[y] = table[y]
    BY <1>10
  <2>2. \A y \in Tables : Array[y] = table[y].buckets /\ Order[y] = table[y].order
    BY ArrayFacts
  <2>3. \A y \in Tables : Array'[y] = table'[y].buckets /\ Order'[y] = table'[y].order
    BY ArrayFactsNext
  <2>4. \A y \in Tables : y # t => Array'[y] = Array[y] /\ Order'[y] = Order[y]
    BY <2>1, <2>2, <2>3
  <2>5. Array'[NoThread] = Array[NoThread] /\ Order'[NoThread] = Order[NoThread]
    BY <1>1, <1>11, ArrayFacts, ArrayFactsNext
  <2>6. Array'[t] = b /\ Order'[t] = o
    BY <1>6, <1>11, <2>3
  <2> QED
    BY <1>13, <2>4, <2>5, <2>6, PlaceFacts
<1>15. /\ HeapInv(node, live, A2, o2) /\ A2[t] # NoBuckets /\ Home(node, A2, t) = {}
       /\ \A q \in Places : q # t => Home(node, A2, q) = Home(node, Array, q)
  <2>1. Array[t] = NoBuckets
    BY <1>5, <1>6, ArrayFacts
  <2>2. \A q \in Places : /\ A2[q] = IF q = t THEN EmptyBuckets(o2[t]) ELSE Array[q]
                          /\ o2[q] \in Nat /\ (Array[q] # NoBuckets => o2[q] = Order[q])
    <3>1. \A q \in Places : Order[q] \in Nat
      BY <1>4, HeapFacts
    <3> QED
      BY <1>8, <1>9, <1>14, <2>1, <3>1
  <2> QED
    <3>1. Adds(node, live, Array, Order, t, A2, o2)
      BY <1>4, <1>6, <2>1, <2>2, Zenon DEF Adds
    <3>2. Added(node, live, Array, t, A2, o2)
      BY <3>1, HeapAdd
    <3> QED
      BY <3>2, Zenon DEF Added
<1>16. /\ Held(t)' = {} /\ \A y \in Tables : y # t => Held(y)' = Held(y)
  <2>1. /\ Home(node', Array', t) = {}
        /\ \A q \in Places : q # t => Home(node', Array', q) = Home(node, Array, q)
    BY <1>1, <1>13, <1>15
  <2> QED
    BY <1>6, <2>1, PlaceFacts DEF Held
<1>17. KeysInv'
  BY <1>1, <1>4, <1>16 DEF KeysInv
<1>18. SizeInv'
  <2>1. ASSUME NEW y \in Tables, table'[y].buckets # NoBuckets
        PROVE  /\ table'[y].size < BucketCount(table'[y].order)
               /\ table'[y].size = Cardinality(Held(y)') + (IF y = Src THEN removed' ELSE 0)
    <3>1. CASE y = t
      <4>1. Cardinality(Held(t)') = 0
        BY <1>16, FS_EmptySet
      <4> QED
        BY <1>6, <1>8, <1>11, <3>1, <4>1
    <3>2. CASE y # t
      <4>1. table'[y] = table[y] /\ Held(y)' = Held(y)
        BY <1>10, <1>16, <3>2
      <4> QED
        BY <1>1, <1>4, <2>1, <4>1 DEF SizeInv
    <3> QED
      BY <3>1, <3>2
  <2> QED
    BY <2>1 DEF SizeInv
<1>19. /\ pc' \in [Threads -> Labels] /\ pc'[t] = "scan"
       /\ \A u \in Threads : u # t => pc'[u] = pc[u]
  BY <1>1, <1>4 DEF VarTypes, Labels
<1>20. PICK c : c = Cursor(Src)
  OBVIOUS
<1>21. /\ c \in [i : Nat, len : Nat, entry : Nodes \cup {Null}, all : BOOLEAN]
       /\ c.i = 0 /\ c.len = BucketCount(table[Src].order)
       /\ BucketCount(table[Src].order) \in Nat /\ 0 < BucketCount(table[Src].order)
       /\ c.entry \in In(node, Array, Src, 0) \cup {Null}
       /\ Passed(node, Array, 0, c.entry, FALSE) = {}
  BY <1>5, <1>20, CursorStart
<1>22. /\ cursor' \in [Threads -> [i : Nat, len : Nat, entry : Nodes \cup {Null}, all : BOOLEAN]]
       /\ cursor'[t] = c /\ \A u \in Threads : u # t => cursor'[u] = cursor[u]
  <2> DEFINE S == [i : Nat, len : Nat, entry : Nodes \cup {Null}, all : BOOLEAN]
  <2>1. cursor \in [Threads -> S] /\ cursor' = [cursor EXCEPT ![t] = c] /\ c \in S
    BY <1>1, <1>4, <1>20, <1>21 DEF VarTypes
  <2> HIDE DEF S
  <2>2. cursor' \in [Threads -> S] /\ cursor'[t] = c /\ \A u \in Threads : u # t => cursor'[u] = cursor[u]
    BY <2>1
  <2> QED
    BY <2>2 DEF S
<1>23. VarTypes'
  BY <1>1, <1>4, <1>10, <1>19, <1>22 DEF VarTypes
<1>24. RemovedInv'
  BY <1>1, <1>19, RemovedFrame
<1>25. ThreadInv(t)'
  <2>1. OpInv(t)'
    BY <1>1, <1>4, <1>5, <1>19 DEF OpInv
  <2>2. TableInv(t)'
    <3>1. table'[t].buckets # NoBuckets
      BY <1>11, <1>14, <1>15
    <3> QED
      BY <1>1, <1>4, <1>5, <1>11, <1>19, <3>1 DEF TableInv
  <2>3. RehashInv(t)' /\ SeenInv(t)'
    BY <1>1, <1>5, <1>19 DEF RehashInv, SeenInv
  <2>4. In(node', Array', Src, 0) = In(node, Array, Src, 0) /\ Done(t)' = {}
    <3>1. PICK d, h : d = FALSE /\ h = c.entry
      OBVIOUS
    <3>2. 0 \in DOMAIN Array[Src]
      <4>1. Array[Src] # NoBuckets
        BY <1>5, <1>6, ArrayFacts
      <4> QED
        BY <1>4, <1>6, <4>1, HeapFacts
    <3>3. \A x \in DOMAIN Array[Src] : Chain(node, A2[Src][x]) = Chain(node, Array[Src][x])
      BY <1>6, <1>14
    <3>4. /\ Passed(node, A2, 0, h, d) = Passed(node, Array, 0, h, d)
          /\ In(node, A2, Src, 0) = In(node, Array, Src, 0)
      BY <1>4, <3>2, <3>3, PassedFrame
    <3>5. Passed(node, A2, 0, c.entry, FALSE) = {}
      BY <1>21, <3>1, <3>4, Zenon
    <3>6. (pc[t] = "next")' = FALSE
      BY <1>19
    <3>7. Entry(t)' = c.entry /\ cursor'[t].i = 0
      BY <1>21, <1>22 DEF Entry
    <3>8. Done(t)' = Passed(node', Array', cursor'[t].i, Entry(t)', (pc[t] = "next")')
      BY Zenon DEF Done
    <3>9. Done(t)' = {}
      BY <1>1, <1>13, <3>5, <3>6, <3>7, <3>8, Zenon
    <3> QED
      BY <1>1, <1>13, <3>4, <3>9
  <2>5. CursorInv(t)'
    BY <1>11, <1>19, <1>21, <1>22, <2>4 DEF CursorInv, Entry
  <2>6. CopyInv(t)'
    <3>1. Cardinality({}) = 0
      BY FS_EmptySet
    <3>2. Pairs(node', {}) = {}
      BY PairsFacts
    <3> QED
      BY <1>8, <1>11, <1>16, <1>19, <2>4, <3>1, <3>2 DEF CopyInv
  <2> QED
    BY <2>1, <2>2, <2>3, <2>5, <2>6 DEF ThreadInv
<1>26. \A u \in Threads : u # t => Still(u) /\ table'[u].buckets = table[u].buckets
  <2>1. \A u \in Threads : u \in Tables
    BY DEF Tables
  <2> QED
    BY <1>1, <1>10, <1>19, <1>22, <2>1 DEF Still
<1>27. IndInv'
  <2>1. HeapInv(node', live', Array', Order')
    BY <1>1, <1>13, <1>15
  <2>2. BucketCount(table[Src].order) <= BucketCount(table'[Src].order) /\ table'[Src].buckets # NoBuckets
    BY <1>5, <1>11, <1>21
  <2> QED
    BY <1>5, <1>17, <1>18, <1>23, <1>24, <1>25, <1>26, <2>1, <2>2, MutexStep
<1> QED
  BY <1>1, <1>6, <1>16, <1>27, MapStutter DEF MapStep

\* What destroying a table does to memory: its nodes are freed, no others.
LEMMA DestroyHeap ==
  ASSUME IndInv, NEW x \in Tables,
         live' = live \ NodesIn(table[x].buckets),
         node' = Dealloc(node, NodesIn(table[x].buckets)),
         IsTable(table'), table'[x].buckets = NoBuckets,
         \A y \in Tables : y # x => table'[y] = table[y],
         Array'[NoThread] = Array[NoThread], x = Src => Array[NoThread] = NoBuckets,
         removed' = removed
  PROVE  /\ HeapInv(node', live', Array', Order') /\ KeysInv' /\ SizeInv'
         /\ Held(x)' = {} /\ \A y \in Tables : y # x => Held(y)' = Held(y)
         /\ \A y \in Tables : y # x => \A n \in Held(y) : node'[n] = node[n]
         /\ \A q \in Places : q # x => \A j \in DOMAIN Array[q] :
              Chain(node', Array'[q][j]) = Chain(node, Array[q][j])
<1>1. /\ HeapInv(node, live, Array, Order) /\ KeysInv /\ SizeInv /\ node \in [Nodes -> NodeType]
      /\ live \subseteq Nodes
  BY InvParts
<1>2. NodesIn(table[x].buckets) = Home(node, Array, x)
  BY MoveNodes
<1>3. PICK m2, A2, o2, L : m2 = node' /\ A2 = Array' /\ o2 = Order' /\ L = live'
  OBVIOUS
<1>4. x \in Places /\ x # NoThread /\ Src \in Tables
  BY PlaceFacts DEF Tables
<1>5. /\ m2 \in [Nodes -> NodeType]
      /\ \A n \in Nodes : n \notin Home(node, Array, x) => m2[n] = node[n]
  <2>1. NoNode \in NodeType
    BY HashAssumption DEF NoNode, NodeType
  <2>2. m2 = [n \in Nodes |-> IF n \in Home(node, Array, x) THEN NoNode ELSE node[n]]
    BY <1>2, <1>3 DEF Dealloc
  <2> QED
    BY <1>1, <2>1, <2>2
<1>6. /\ A2[x] = NoBuckets /\ o2[x] \in Nat
      /\ \A q \in Places : q # x => A2[q] = Array[q] /\ o2[q] \in Nat /\ (Array[q] # NoBuckets => o2[q] = Order[q])
  <2>1. \A y \in Tables : Array[y] = table[y].buckets /\ Order[y] = table[y].order
    BY ArrayFacts
  <2>2. \A y \in Tables : Array'[y] = table'[y].buckets /\ Order'[y] = table'[y].order
    BY ArrayFactsNext
  <2>3. \A y \in Tables : table'[y].order \in Nat
    BY DEF IsTable
  <2>4. \A y \in Tables : y # x => A2[y] = Array[y] /\ o2[y] = Order[y]
    BY <1>3, <2>1, <2>2
  <2>5. \A y \in Tables : o2[y] \in Nat
    BY <1>3, <2>2, <2>3
  <2>6. A2[x] = NoBuckets
    BY <1>3, <2>2
  <2>7. A2[NoThread] = Array[NoThread]
    BY <1>3
  <2>8. o2[NoThread] = table'[Src].order + 1 /\ Order[NoThread] = table[Src].order + 1
    BY <1>3, ArrayFacts, ArrayFactsNext
  <2>9. o2[NoThread] \in Nat /\ (Array[NoThread] # NoBuckets => o2[NoThread] = Order[NoThread])
    BY <1>4, <2>3, <2>8
  <2> QED
    BY <2>4, <2>5, <2>6, <2>7, <2>9, PlaceFacts
<1>7. /\ HeapInv(m2, live \ Home(node, Array, x), A2, o2) /\ Home(m2, A2, x) = {}
      /\ \A q \in Places : q # x =>
           /\ Home(m2, A2, q) = Home(node, Array, q)
           /\ \A j \in DOMAIN Array[q] : Chain(m2, A2[q][j]) = Chain(node, Array[q][j])
  <2>1. \A n \in live : n \notin Home(node, Array, x) => m2[n] = node[n]
    BY <1>1, <1>5
  <2>2. \A q \in Places : /\ A2[q] = IF q = x THEN NoBuckets ELSE Array[q]
                          /\ o2[q] \in Nat
                          /\ q # x /\ Array[q] # NoBuckets => o2[q] = Order[q]
    BY <1>6
  <2>3. m2 \in [Nodes -> NodeType] /\ x \in Places /\ HeapInv(node, live, Array, Order)
    BY <1>1, <1>4, <1>5
  <2>4. Drops(node, live, Array, Order, x, m2, A2, o2)
    BY <2>1, <2>2, <2>3, Zenon DEF Drops
  <2>5. Dropped(node, live, Array, x, m2, A2, o2)
    BY <2>4, HeapDrop
  <2> QED
    BY <2>5, Zenon DEF Dropped
<1>8. HeapInv(node', live', Array', Order')
  BY <1>2, <1>3, <1>7
<1>9. /\ Home(node', Array', x) = {}
      /\ \A q \in Places : q # x =>
           /\ Home(node', Array', q) = Home(node, Array, q)
           /\ \A j \in DOMAIN Array[q] : Chain(node', Array'[q][j]) = Chain(node, Array[q][j])
  BY <1>3, <1>7
<1>10. Held(x)' = {} /\ \A y \in Tables : y # x => Held(y)' = Held(y)
  <2>1. Held(x)' = {}
    <3>1. CASE x = Src
      <4>1. Home(node, Array, NoThread) = {}
        <5>1. DOMAIN Array[NoThread] = {}
          BY <3>1 DEF NoBuckets
        <5> QED
          BY <5>1, HomeFacts
      <4> QED
        BY <1>4, <1>9, <3>1, <4>1, PlaceFacts DEF Held
    <3>2. CASE x # Src
      BY <1>9, <3>2 DEF Held
    <3> QED
      BY <3>1, <3>2
  <2>2. \A y \in Tables : y # x => Held(y)' = Held(y)
    BY <1>4, <1>9, PlaceFacts DEF Held
  <2> QED
    BY <2>1, <2>2
<1>11. ASSUME NEW y \in Tables, y # x, NEW n \in Held(y)
       PROVE  node'[n] = node[n]
  <2>1. n \in Nodes
    BY <1>1, HeldFacts
  <2>2. n \notin Held(x)
    BY <1>1, <1>11, HeldFacts
  <2>3. n \notin Home(node, Array, x)
    BY <1>1, <2>2, HeldFacts
  <2> QED
    BY <1>3, <1>5, <2>1, <2>3
<1>12. KeysInv'
  BY <1>1, <1>10, <1>11 DEF KeysInv
<1>13. SizeInv'
  <2>1. ASSUME NEW y \in Tables, table'[y].buckets # NoBuckets
        PROVE  /\ table'[y].size < BucketCount(table'[y].order)
               /\ table'[y].size = Cardinality(Held(y)') + (IF y = Src THEN removed' ELSE 0)
    <3>1. y # x
      BY <2>1
    <3>2. table'[y] = table[y] /\ Held(y)' = Held(y)
      BY <1>10, <3>1
    <3> QED
      BY <1>1, <2>1, <3>2 DEF SizeInv
  <2> QED
    BY <2>1 DEF SizeInv
<1> QED
  BY <1>8, <1>9, <1>10, <1>11, <1>12, <1>13

\* A copy that failed is destroyed.
LEMMA CopyCleanupStep ==
  ASSUME IndInv, NEW t \in Threads, CopyCleanup(t)
  PROVE  IndInv' /\ MapStep
<1>1. /\ pc[t] = "cleanup" /\ Unlock(t) /\ result' = <<"copy", NoValue>>
      /\ pc' = [pc EXCEPT ![t] = "destroy"]
      /\ cursor' = [cursor EXCEPT ![t] = NoCursor] /\ arg' = [arg EXCEPT ![t] = NoArg]
      /\ op' = op /\ move' = move /\ seen' = seen /\ removed' = removed
      /\ crashed' = crashed /\ calls' = calls
      /\ live' = live \ NodesIn(table[t].buckets)
      /\ node' = Dealloc(node, NodesIn(table[t].buckets))
      /\ table' = [table EXCEPT ![t].size = 0, ![t].buckets = NoBuckets]
  BY DEF CopyCleanup, Destroy, Goto
<1>2. /\ VarTypes /\ RecordInv /\ HeapInv(node, live, Array, Order) /\ OpInv(t) /\ TableInv(t)
      /\ pc[t] \in Labels /\ mutex \in Threads \cup {NoThread}
  BY InvParts
<1>3. op[t] = "copy" /\ mutex = t /\ table[Src].buckets # NoBuckets
  BY <1>1, <1>2, OpForm DEF TableInv
<1>4. /\ Src \in Tables /\ Src \in Places /\ t \in Tables /\ t # Src
  BY PlaceFacts DEF Tables
<1>5. /\ IsTable(table') /\ table'[t].buckets = NoBuckets
      /\ \A y \in Tables : y # t => table'[y] = table[y]
  <2>1. Destroyed(table, t, NoBuckets, table')
    BY <1>1, <1>2, <1>4 DEF Destroyed, VarTypes
  <2>2. PICK c, b, g : c = table[t].order /\ b = NoBuckets /\ g = table'
    OBVIOUS
  <2>3. TableSet(table, t, 0, table[t].order, NoBuckets, table')
    BY <2>1, TableForm
  <2>4. TableSet(table, t, 0, c, b, g)
    BY <2>2, <2>3, Zenon
  <2>5. /\ IsTable(g) /\ g[t] = [size |-> 0, order |-> c, buckets |-> b]
        /\ \A y \in Tables : y # t => g[y] = table[y]
    BY <2>4, TableUpdate
  <2> QED
    BY <2>2, <2>5
<1>6. /\ mutex' \in Threads \cup {NoThread} /\ mutex' # t
      /\ mutex' = mutex \/ (mutex = t /\ mutex' = NoThread)
      /\ \A u \in Threads : u # t => (mutex' = u <=> mutex = u)
  BY <1>1, <1>2, Unlocked
<1>7. Array'[NoThread] = Array[NoThread]
  BY <1>1, <1>6, ExtraFrame
<1>8. /\ HeapInv(node', live', Array', Order') /\ KeysInv' /\ SizeInv'
      /\ \A y \in Tables : y # t => Held(y)' = Held(y)
      /\ \A y \in Tables : y # t => \A n \in Held(y) : node'[n] = node[n]
  BY <1>1, <1>4, <1>5, <1>7, DestroyHeap
<1>9. /\ pc' \in [Threads -> Labels] /\ pc'[t] = "destroy"
      /\ \A u \in Threads : u # t => pc'[u] = pc[u]
  BY <1>1, <1>2 DEF VarTypes, Labels
<1>10. /\ cursor' \in [Threads -> [i : Nat, len : Nat, entry : Nodes \cup {Null}, all : BOOLEAN]]
       /\ \A u \in Threads : u # t => cursor'[u] = cursor[u]
  <2> DEFINE S == [i : Nat, len : Nat, entry : Nodes \cup {Null}, all : BOOLEAN]
  <2>1. cursor \in [Threads -> S] /\ NoCursor \in S
    BY <1>2, NoTypes DEF VarTypes
  <2> HIDE DEF S
  <2>2. cursor' \in [Threads -> S] /\ \A u \in Threads : u # t => cursor'[u] = cursor[u]
    BY <1>1, <2>1
  <2> QED
    BY <2>2 DEF S
<1>11. /\ arg' \in [Threads -> [key : Keys, value : Values \cup {NoValue}]]
       /\ \A u \in Threads : u # t => arg'[u] = arg[u]
  <2> DEFINE S == [key : Keys, value : Values \cup {NoValue}]
  <2>1. arg \in [Threads -> S] /\ NoArg \in S
    BY <1>2, NoTypes DEF VarTypes
  <2> HIDE DEF S
  <2>2. arg' \in [Threads -> S] /\ \A u \in Threads : u # t => arg'[u] = arg[u]
    BY <1>1, <2>1
  <2> QED
    BY <2>2 DEF S
<1>12. VarTypes'
  BY <1>1, <1>2, <1>5, <1>6, <1>9, <1>10, <1>11 DEF VarTypes
<1>13. RemovedInv'
  BY <1>1, <1>9, RemovedFrame
<1>14. ThreadInv(t)'
  <2>1. OpInv(t)'
    BY <1>1, <1>2, <1>3, <1>6, <1>9 DEF OpInv
  <2>2. table'[Src] = table[Src]
    BY <1>4, <1>5
  <2>3. TableInv(t)'
    BY <1>1, <1>2, <1>3, <1>5, <1>9, <2>2 DEF TableInv
  <2>4. RehashInv(t)' /\ ~Iterating(t)'
    BY <1>9 DEF RehashInv, Iterating
  <2> QED
    BY <2>1, <2>3, <2>4 DEF ThreadInv, CursorInv, CopyInv, SeenInv
<1>15. \A u \in Threads : u # t => Still(u) /\ table'[u].buckets = table[u].buckets
  <2>1. \A u \in Threads : u \in Tables
    BY DEF Tables
  <2> QED
    BY <1>1, <1>5, <1>6, <1>9, <1>10, <1>11, <2>1 DEF Still
<1>16. IndInv'
  <2>1. table'[Src] = table[Src]
    BY <1>4, <1>5
  <2>2. BucketCount(table[Src].order) \in Nat
    BY <1>2, <1>4, ArrayFacts, PlaceBuckets
  <2>3. BucketCount(table[Src].order) <= BucketCount(table'[Src].order) /\ table'[Src].buckets # NoBuckets
    BY <1>3, <2>1, <2>2
  <2> QED
    BY <1>3, <1>8, <1>12, <1>13, <1>14, <1>15, <2>3, MutexStep
<1>17. Dict' = Dict
  BY <1>4, <1>8, <1>16, DictKept
<1>18. Map!Copy
  BY <1>1, <1>17 DEF Map!Copy
<1> QED
  BY <1>16, <1>18 DEF MapStep, Map!Next

\* A thread that uses the baggage and its own copy goes on when another copy
\* is destroyed.
LEMMA KeptThread ==
  ASSUME IndInv, NEW u \in Threads, Still(u), mutex = u,
         table'[Src] = table[Src], table'[u] = table[u],
         \A b \in DOMAIN Array[Src] : Chain(node', Array'[Src][b]) = Chain(node, Array[Src][b]),
         Held(u)' = Held(u), \A n \in Held(u) : node'[n] = node[n],
         \A n \in Held(Src) : node'[n] = node[n]
  PROVE  ThreadInv(u)'
<1>1. /\ OpInv(u) /\ TableInv(u) /\ RehashInv(u) /\ CursorInv(u) /\ CopyInv(u) /\ SeenInv(u)
  BY InvParts
<1>2. /\ pc'[u] = pc[u] /\ op'[u] = op[u] /\ arg'[u] = arg[u]
      /\ move'[u] = move[u] /\ cursor'[u] = cursor[u] /\ seen'[u] = seen[u] /\ mutex' = u
  BY DEF Still
<1>3. /\ (AtThreshold(Mine(u)))' <=> AtThreshold(Mine(u))
      /\ Iterating(u)' <=> Iterating(u)
      /\ Entry(u)' = Entry(u)
  BY <1>2 DEF AtThreshold, Mine, Target, Iterating, Entry
<1>4. OpInv(u)'
  BY <1>1, <1>2 DEF OpInv
<1>5. TableInv(u)'
  BY <1>1, <1>2, <1>3 DEF TableInv
<1>6. RehashInv(u)'
  BY <1>1, <1>2 DEF RehashInv
<1>7. CASE ~Iterating(u) \/ op[u] = "inject"
  <2>1. CursorInv(u)' /\ CopyInv(u)' /\ SeenInv(u)'
    BY <1>1, <1>2, <1>3, <1>7 DEF CursorInv, CopyInv, SeenInv
  <2> QED
    BY <1>4, <1>5, <1>6, <2>1 DEF ThreadInv
<1>8. CASE Iterating(u) /\ op[u] # "inject"
  <2> DEFINE i == cursor[u].i
             E == Entry(u)
  <2>1. /\ HeapInv(node, live, Array, Order) /\ i \in DOMAIN Array[Src]
        /\ E # Null => E \in Held(Src)
        /\ Done(u) \subseteq Held(Src)
    BY <1>8, IterFacts
  <2>2. PICK d : d = (pc[u] = "next")
    OBVIOUS
  <2>3. PICK m2, A2 : m2 = node' /\ A2 = Array'
    OBVIOUS
  <2>4. Done(u) = Passed(node, Array, i, E, d)
    BY <2>2, Zenon DEF Done
  <2>5. Done(u)' = Passed(m2, A2, i, E, d)
    <3>1. Done(u)' = Passed(node', Array', cursor'[u].i, Entry(u)', (pc[u] = "next")')
      BY Zenon DEF Done
    <3>2. (pc[u] = "next")' = d
      BY <1>2, <2>2, Zenon
    <3>3. cursor'[u].i = i /\ Entry(u)' = E
      BY <1>2, <1>3
    <3> QED
      BY <2>3, <3>1, <3>2, <3>3, Zenon
  <2>6. \A b \in DOMAIN Array[Src] : Chain(m2, A2[Src][b]) = Chain(node, Array[Src][b])
    BY <2>3
  <2>7. /\ Passed(m2, A2, i, E, d) = Passed(node, Array, i, E, d)
        /\ In(m2, A2, Src, i) = In(node, Array, Src, i)
    <3> HIDE DEF i, E
    <3>1. HeapInv(node, live, Array, Order) /\ i \in DOMAIN Array[Src]
      BY <2>1
    <3> QED
      BY <2>6, <3>1, PassedFrame
  <2>8. Done(u)' = Done(u) /\ In(node', Array', Src, i) = In(node, Array, Src, i)
    BY <2>3, <2>4, <2>5, <2>7, Zenon
  <2>9. /\ Pairs(node', Held(u)) = Pairs(node, Held(u))
        /\ Pairs(node', Done(u)) = Pairs(node, Done(u))
    <3>1. \A n \in Held(u) : m2[n].key = node[n].key /\ m2[n].value = node[n].value
      BY <2>3
    <3>2. \A n \in Done(u) : m2[n].key = node[n].key /\ m2[n].value = node[n].value
      BY <2>1, <2>3
    <3>3. Pairs(m2, Held(u)) = Pairs(node, Held(u))
      BY <3>1, PairsFrame
    <3>4. Pairs(m2, Done(u)) = Pairs(node, Done(u))
      BY <3>2, PairsFrame
    <3> QED
      BY <2>3, <3>3, <3>4
  <2>10. CursorInv(u)'
    BY <1>1, <1>2, <1>3, <1>8, <2>8 DEF CursorInv
  <2>11. CopyInv(u)'
    <3>1. pc[u] # "scan" => Entry(u) # Null
      BY <1>1, <1>8 DEF CursorInv
    <3>2. pc[u] # "scan" => node'[Entry(u)] = node[Entry(u)]
      BY <2>1, <3>1
    <3> QED
      BY <1>1, <1>2, <1>3, <2>8, <2>9, <3>2 DEF CopyInv
  <2>12. SeenInv(u)'
    BY <1>1, <1>2, <1>3, <2>8, <2>9 DEF SeenInv
  <2> QED
    BY <1>4, <1>5, <1>6, <2>10, <2>11, <2>12 DEF ThreadInv
<1> QED
  BY <1>7, <1>8

\* The owner of a copy destroys it, while another thread may use the baggage.
LEMMA DropCopyStep ==
  ASSUME IndInv, NEW t \in Threads, DropCopy(t)
  PROVE  IndInv' /\ MapStep
<1>1. /\ pc[t] = "have" /\ Return(t)
      /\ live' = live \ NodesIn(table[t].buckets)
      /\ node' = Dealloc(node, NodesIn(table[t].buckets))
      /\ table' = [table EXCEPT ![t] = [size |-> 0, order |-> 0, buckets |-> NoBuckets]]
      /\ mutex' = mutex /\ result' = result /\ removed' = removed /\ crashed' = crashed /\ calls' = calls
  BY DEF DropCopy, NoTable
<1>2. /\ VarTypes /\ RecordInv /\ HeapInv(node, live, Array, Order) /\ OpInv(t)
      /\ pc[t] \in Labels /\ mutex \in Threads \cup {NoThread}
  BY InvParts
<1>3. mutex # t
  BY <1>1, <1>2, OpForm
<1>4. /\ Src \in Tables /\ Src \in Places /\ t \in Tables /\ t # Src
  BY PlaceFacts DEF Tables
<1>5. /\ IsTable(table') /\ table'[t].buckets = NoBuckets
      /\ \A y \in Tables : y # t => table'[y] = table[y]
  <2>1. PICK b, g : b = NoBuckets /\ g = table'
    OBVIOUS
  <2>2. TableSet(table, t, 0, 0, b, g)
    BY <1>1, <1>2, <1>4, <2>1 DEF TableSet, VarTypes
  <2>3. /\ IsTable(g) /\ g[t] = [size |-> 0, order |-> 0, buckets |-> b]
        /\ \A y \in Tables : y # t => g[y] = table[y]
    BY <2>2, TableUpdate
  <2> QED
    BY <2>1, <2>3
<1>6. Array'[NoThread] = Array[NoThread]
  <2>1. move' = [move EXCEPT ![t] = NoMove]
    BY <1>1 DEF Return
  <2> QED
    BY <1>1, <2>1, ExtraFrame
<1>7. /\ HeapInv(node', live', Array', Order') /\ KeysInv' /\ SizeInv'
      /\ \A y \in Tables : y # t => Held(y)' = Held(y)
      /\ \A y \in Tables : y # t => \A n \in Held(y) : node'[n] = node[n]
      /\ \A q \in Places : q # t => \A j \in DOMAIN Array[q] :
           Chain(node', Array'[q][j]) = Chain(node, Array[q][j])
  BY <1>1, <1>4, <1>5, <1>6, DestroyHeap
<1>8. VarTypes'
  BY <1>1, <1>2, <1>5, Returned DEF VarTypes
<1>9. RemovedInv'
  <2>1. pc'[t] # "remove" /\ \A u \in Threads : u # t => pc'[u] = pc[u]
    BY <1>1, Returned
  <2> QED
    BY <1>1, <2>1, RemovedFrame
<1>10. ThreadInv(t)'
  BY <1>1, <1>3, <1>5, Returned
<1>11. ASSUME NEW u \in Threads, u # t
       PROVE  ThreadInv(u)'
  <2>1. Still(u)
    BY <1>1, <1>11, Returned DEF Still
  <2>2. u \in Tables /\ u # Src /\ table'[u] = table[u] /\ table'[Src] = table[Src]
    BY <1>4, <1>5, <1>11, PlaceFacts DEF Tables
  <2>3. CASE mutex = u
    <3>1. \A b \in DOMAIN Array[Src] : Chain(node', Array'[Src][b]) = Chain(node, Array[Src][b])
      BY <1>4, <1>7
    <3>2. /\ Held(u)' = Held(u) /\ (\A n \in Held(u) : node'[n] = node[n])
          /\ \A n \in Held(Src) : node'[n] = node[n]
      BY <1>4, <1>7, <1>11, <2>2
    <3> QED
      BY <2>1, <2>2, <2>3, <3>1, <3>2, KeptThread
  <2>4. CASE mutex # u
    <3>1. BucketCount(table[Src].order) \in Nat
      BY <1>2, <1>4, ArrayFacts, PlaceBuckets
    <3> QED
      BY <2>1, <2>2, <2>4, <3>1, WaitingThread
  <2> QED
    BY <2>3, <2>4
<1>12. IndInv'
  BY <1>7, <1>8, <1>9, <1>10, <1>11, CoreIsInvNext DEF Core
<1>13. Dict' = Dict
  BY <1>4, <1>7, <1>12, DictKept
<1> QED
  BY <1>1, <1>12, <1>13 DEF MapStep

\* The context is destroyed.
LEMMA DestroyBaggageStep ==
  ASSUME IndInv, DestroyBaggage
  PROVE  IndInv' /\ MapStep
<1>1. /\ \A t \in Threads : pc[t] \in {"idle", "have"}
      /\ live' = live \ NodesIn(table[Src].buckets)
      /\ node' = Dealloc(node, NodesIn(table[Src].buckets))
      /\ table' = [table EXCEPT ![Src].size = 0, ![Src].buckets = NoBuckets]
      /\ mutex' = mutex /\ pc' = pc /\ op' = op /\ arg' = arg /\ move' = move /\ cursor' = cursor
      /\ seen' = seen /\ result' = result /\ removed' = removed /\ crashed' = crashed /\ calls' = calls
  BY DEF DestroyBaggage, Destroy
<1>2. /\ VarTypes /\ RecordInv /\ HeapInv(node, live, Array, Order) /\ RemovedInv
      /\ mutex \in Threads \cup {NoThread}
  BY InvParts
<1>3. Src \in Tables /\ Src \notin Threads /\ \A u \in Threads : u \in Tables
  BY PlaceFacts DEF Tables
<1>4. /\ IsTable(table') /\ table'[Src].buckets = NoBuckets
      /\ \A y \in Tables : y # Src => table'[y] = table[y]
  <2>1. Destroyed(table, Src, NoBuckets, table')
    BY <1>1, <1>2, <1>3 DEF Destroyed, VarTypes
  <2>2. PICK c, b, g : c = table[Src].order /\ b = NoBuckets /\ g = table'
    OBVIOUS
  <2>3. TableSet(table, Src, 0, table[Src].order, NoBuckets, table')
    BY <2>1, TableForm
  <2>4. TableSet(table, Src, 0, c, b, g)
    BY <2>2, <2>3, Zenon
  <2>5. /\ IsTable(g) /\ g[Src] = [size |-> 0, order |-> c, buckets |-> b]
        /\ \A y \in Tables : y # Src => g[y] = table[y]
    BY <2>4, TableUpdate
  <2> QED
    BY <2>2, <2>5
<1>5. Array[NoThread] = NoBuckets
  BY <1>1, NoExtra
<1>6. Array'[NoThread] = Array[NoThread]
  BY <1>1, ArrayFacts, ArrayFactsNext
<1>7. HeapInv(node', live', Array', Order') /\ KeysInv' /\ SizeInv' /\ Held(Src)' = {}
  BY <1>1, <1>3, <1>4, <1>5, <1>6, DestroyHeap
<1>8. VarTypes' /\ RemovedInv'
  BY <1>1, <1>2, <1>4 DEF VarTypes, RemovedInv
<1>9. ASSUME NEW u \in Threads
      PROVE  ThreadInv(u)'
  <2>1. pc'[u] \in {"idle", "have"} /\ OpInv(u) /\ TableInv(u) /\ table'[u] = table[u]
    BY <1>1, <1>3, <1>4, InvParts
  <2>2. OpInv(u)'
    BY <1>1, <2>1 DEF OpInv
  <2>3. TableInv(u)'
    BY <1>1, <2>1 DEF TableInv
  <2>4. RehashInv(u)' /\ ~Iterating(u)'
    BY <2>1 DEF RehashInv, Iterating
  <2> QED
    BY <2>2, <2>3, <2>4 DEF ThreadInv, CursorInv, CopyInv, SeenInv
<1>10. IndInv'
  BY <1>7, <1>8, <1>9, CoreIsInvNext DEF Core
<1>11. Dict' = [k \in Keys |-> NoValue]
  <2>1. Dict' = DictOf(node', Held(Src)')
    BY <1>10, DictFormNext
  <2>2. Dict' = DictOf(node', {})
    BY <1>7, <2>1
  <2> QED
    BY <2>2 DEF DictOf
<1>12. Map!Destroy
  BY <1>1, <1>11 DEF Map!Destroy
<1> QED
  BY <1>10, <1>12 DEF MapStep, Map!Next

---------------------------------------------------------------------------
(* The specification *)

\* At the start the baggage is empty.
LEMMA InitInv == Init => IndInv /\ Map!Init
<1> SUFFICES ASSUME Init
             PROVE  IndInv /\ Map!Init
  OBVIOUS
<1>1. /\ node = [n \in Nodes |-> NoNode] /\ live = {} /\ mutex = NoThread
      /\ table = [t \in Tables |-> IF t = Src THEN EmptyTable(InitOrder) ELSE NoTable]
      /\ pc = [t \in Threads |-> "idle"] /\ op = [t \in Threads |-> "none"]
      /\ arg = [t \in Threads |-> NoArg] /\ move = [t \in Threads |-> NoMove]
      /\ cursor = [t \in Threads |-> NoCursor] /\ seen = [t \in Threads |-> <<>>]
      /\ result = <<>> /\ removed = 0 /\ crashed = "no" /\ calls = 0
  BY DEF Init
<1>2. /\ Src \in Tables /\ Src \in Places /\ NoThread \in Places /\ Src # NoThread
      /\ \A u \in Threads : u \in Tables /\ u # Src
      /\ \A p \in Places : p \in Tables \/ p = NoThread
  BY PlaceFacts DEF Tables
<1>3. InitOrder \in Nat /\ MaxCalls \in Nat /\ BucketCount(InitOrder) \in Nat /\ 0 < BucketCount(InitOrder)
  <2>1. InitOrder \in Nat /\ MaxCalls \in Nat
    BY OrderAssumption
  <2>2. BucketCount(InitOrder) \in Nat /\ InitOrder < BucketCount(InitOrder)
    BY <2>1, BucketFacts
  <2> QED
    BY <2>1, <2>2
<1>4. /\ table[Src].size = 0 /\ table[Src].order = InitOrder /\ table[Src].buckets = EmptyBuckets(InitOrder)
      /\ \A x \in Tables : x # Src => table[x].size = 0 /\ table[x].order = 0 /\ table[x].buckets = NoBuckets
  BY <1>1, <1>2 DEF EmptyTable, NoTable
<1>5. IsTable(table) /\ IsMove(move)
  <2>1. IsTable(table)
    <3>1. PICK b : b = EmptyBuckets(InitOrder)
      OBVIOUS
    <3>2. /\ table = [t \in Tables |-> IF t = Src THEN [size |-> 0, order |-> InitOrder, buckets |-> b]
                                       ELSE [size |-> 0, order |-> 0, buckets |-> NoBuckets]]
      BY <1>1, <3>1 DEF EmptyTable, NoTable
    <3> DEFINE B == {table[t].buckets : t \in Tables}
    <3>3. ASSUME NEW x \in Tables
          PROVE  table[x] \in [size : Nat, order : Nat, buckets : B]
      <4>1. table[x].buckets \in B
        OBVIOUS
      <4>2. PICK c, d, e : c \in Nat /\ d \in Nat /\ table[x] = [size |-> c, order |-> d, buckets |-> e]
        <5>1. CASE x = Src
          BY <1>3, <3>2, <5>1
        <5>2. CASE x # Src
          BY <3>2, <5>2
        <5> QED
          BY <5>1, <5>2
      <4>3. e \in B
        BY <4>1, <4>2
      <4> HIDE DEF B
      <4> QED
        BY <4>2, <4>3
    <3>4. table = [x \in Tables |-> table[x]]
      BY <1>1
    <3> HIDE DEF B
    <3>5. table \in [Tables -> [size : Nat, order : Nat, buckets : B]]
      BY <3>3, <3>4
    <3> QED
      BY <3>5 DEF IsTable, B
  <2>2. IsMove(move)
    <3> DEFINE B == {move[t].new : t \in Threads}
    <3>1. ASSUME NEW x \in Threads
          PROVE  move[x] \in [new : B, i : Nat, entry : Nodes \cup {Null}]
      <4>1. move[x].new \in B
        OBVIOUS
      <4>2. move[x] = [new |-> NoBuckets, i |-> 0, entry |-> Null]
        BY <1>1 DEF NoMove
      <4>3. NoBuckets \in B
        BY <4>1, <4>2
      <4> HIDE DEF B
      <4> QED
        BY <4>2, <4>3
    <3>2. move = [x \in Threads |-> move[x]]
      BY <1>1
    <3> HIDE DEF B
    <3>3. move \in [Threads -> [new : B, i : Nat, entry : Nodes \cup {Null}]]
      BY <3>1, <3>2
    <3> QED
      BY <3>3 DEF IsMove, B
  <2> QED
    BY <2>1, <2>2
<1>6. VarTypes
  <2>1. pc \in [Threads -> Labels] /\ op \in [Threads -> Operations \cup {"none"}]
    BY <1>1 DEF Labels
  <2>2. arg \in [Threads -> [key : Keys, value : Values \cup {NoValue}]]
    BY <1>1, NoTypes, Zenon
  <2>3. cursor \in [Threads -> [i : Nat, len : Nat, entry : Nodes \cup {Null}, all : BOOLEAN]]
    BY <1>1, NoTypes, Zenon
  <2>4. seen \in [Threads -> Seq(Keys \X (Values \cup {NoValue}))]
    BY <1>1
  <2>5. calls \in 0 .. MaxCalls
    BY <1>1, <1>3
  <2> QED
    BY <1>1, <1>5, <2>1, <2>2, <2>3, <2>4, <2>5 DEF VarTypes
<1>7. Array[Src] = EmptyBuckets(InitOrder) /\ \A p \in Places : p # Src => Array[p] = NoBuckets
  BY <1>1, <1>2, <1>4, ArrayFacts
<1>8. \A p \in Places : Order[p] \in Nat
  BY <1>2, <1>3, <1>4, ArrayFacts
<1>9. Order[Src] = InitOrder
  BY <1>2, <1>4, ArrayFacts
<1>10. /\ HeapInv(node, live, Array, Order) /\ \A p \in Places : Home(node, Array, p) = {}
  <2>1. PICK A : A = [p \in Places |-> NoBuckets]
    OBVIOUS
  <2>2. \A p \in Places : DOMAIN A[p] = {} /\ A[p] = NoBuckets
    BY <2>1 DEF NoBuckets
  <2>3. node \in [Nodes -> NodeType]
    <3>1. NoNode \in NodeType
      BY HashAssumption DEF NoNode, NodeType
    <3> QED
      BY <1>1, <3>1
  <2>4. Linked(node, A) /\ Sorted(node, A, Order) /\ Apart(node, A)
    BY <2>2 DEF Linked, Sorted, Apart
  <2>5. Sized(A, Order)
    BY <1>8, <2>2 DEF Sized
  <2>6. Allocated(node, live, A)
    BY <1>1, <2>2 DEF Allocated
  <2>7. HeapInv(node, live, A, Order)
    BY <2>3, <2>4, <2>5, <2>6, HeapForm
  <2>8. \A p \in Places : Home(node, A, p) = {}
    BY <2>2, HomeFacts
  <2>9. \A q \in Places : /\ Array[q] = IF q = Src THEN EmptyBuckets(Order[Src]) ELSE A[q]
                          /\ Order[q] \in Nat
                          /\ A[q] # NoBuckets => Order[q] = Order[q]
    BY <1>7, <1>8, <1>9, <2>2
  <2>10. A[Src] = NoBuckets
    BY <1>2, <2>2
  <2>11. /\ HeapInv(node, live, Array, Order) /\ Home(node, Array, Src) = {}
         /\ \A q \in Places : q # Src => Home(node, Array, q) = Home(node, A, q)
    BY <1>2, <2>7, <2>9, <2>10, HeapNew
  <2> QED
    BY <2>8, <2>11
<1>11. \A x \in Tables : Held(x) = {}
  BY <1>2, <1>10, PlaceFacts DEF Held
<1>12. KeysInv
  BY <1>11 DEF KeysInv
<1>13. SizeInv
  <2>1. Cardinality({}) = 0
    BY FS_EmptySet
  <2>2. Cardinality(Held(Src)) = 0
    BY <1>2, <1>11, <2>1
  <2>3. ASSUME NEW x \in Tables, table[x].buckets # NoBuckets
        PROVE  /\ table[x].size < BucketCount(table[x].order)
               /\ table[x].size = Cardinality(Held(x)) + (IF x = Src THEN removed ELSE 0)
    <3>1. x = Src
      BY <1>4, <2>3
    <3> QED
      BY <1>1, <1>3, <1>4, <2>2, <3>1
  <2> QED
    BY <2>3 DEF SizeInv
<1>14. RemovedInv
  BY <1>1 DEF RemovedInv
<1>15. ASSUME NEW u \in Threads
       PROVE  ThreadInv(u)
  <2>1. /\ pc[u] = "idle" /\ op[u] = "none" /\ seen[u] = <<>> /\ mutex # u
        /\ table[u].buckets = NoBuckets /\ move[u].new = NoBuckets
    BY <1>1, <1>2, <1>4, PlaceFacts DEF NoMove
  <2>2. OpInv(u)
    BY <2>1 DEF OpInv
  <2>3. TableInv(u)
    BY <2>1 DEF TableInv
  <2>4. RehashInv(u) /\ ~Iterating(u)
    BY <2>1 DEF RehashInv, Iterating
  <2> QED
    BY <2>2, <2>3, <2>4 DEF ThreadInv, CursorInv, CopyInv, SeenInv
<1>16. IndInv
  BY <1>6, <1>10, <1>12, <1>13, <1>14, <1>15, CoreIsInv DEF Core
<1>17. Dict = [k \in Keys |-> NoValue]
  <2>1. Dict = DictOf(node, {})
    BY <1>2, <1>11, <1>16, DictForm
  <2> QED
    BY <2>1 DEF DictOf
<1> QED
  BY <1>1, <1>16, <1>17 DEF Map!Init

\* Every step of a thread.
LEMMA StepInv ==
  ASSUME IndInv, NEW t \in Threads, Step(t)
  PROVE  IndInv' /\ MapStep
<1>1. CASE RehashFails(t) \/ InsertFails(t)
  BY <1>1, FailsSteps
<1>2. CASE StartPut(t)
  BY <1>2, StartPutStep
<1>3. CASE RehashEntry(t)
  BY <1>3, RehashEntryStep
<1>4. CASE RehashBucket(t)
  BY <1>4, RehashBucketStep
<1>5. CASE Overwrite(t)
  BY <1>5, OverwriteStep
<1>6. CASE Insert(t)
  BY <1>6, InsertStep
<1>7. CASE Find(t)
  BY <1>7, FindStep
<1>8. CASE Remove(t)
  BY <1>8, RemoveStep
<1>9. CASE Copy(t)
  BY <1>9, CopyStep
<1>10. CASE CopyFails(t)
  BY <1>10, CopyFailsStep
<1>11. CASE Visit(t)
  BY <1>11, VisitStep
<1>12. CASE Advance(t)
  BY <1>12, AdvanceStep
<1>13. CASE Refused(t)
  BY <1>13, RefusedStep
<1>14. CASE NextBucket(t)
  BY <1>14, NextBucketStep
<1>15. CASE ForeachDone(t)
  BY <1>15, ForeachDoneStep
<1>16. CASE InjectDone(t)
  BY <1>16, InjectDoneStep
<1>17. CASE CopyDone(t)
  BY <1>17, CopyDoneStep
<1>18. CASE SizeAssertFails(t) \/ InjectRace(t) \/ DestroyCrash(t)
  BY <1>18, CrashSteps
<1>19. CASE CopyCleanup(t)
  BY <1>19, CopyCleanupStep
<1>20. CASE DestroyAgain(t)
  BY <1>20, DestroyAgainStep
<1>21. CASE DropCopy(t)
  BY <1>21, DropCopyStep
<1> QED
  BY <1>1, <1>2, <1>3, <1>4, <1>5, <1>6, <1>7, <1>8, <1>9, <1>10, <1>11, <1>12, <1>13, <1>14,
     <1>15, <1>16, <1>17, <1>18, <1>19, <1>20, <1>21, Zenon DEF Step

\* The invariant is inductive, and every step is one of the map's or nothing.
LEMMA NextInv == IndInv /\ [Next]_vars => IndInv' /\ MapStep
<1> SUFFICES ASSUME IndInv, [Next]_vars
             PROVE  IndInv' /\ MapStep
  OBVIOUS
<1>1. CASE UNCHANGED vars
  <2>1. crashed \in {"no", "assert", "race", "null"}
    BY InvParts DEF VarTypes
  <2>2. /\ crashed' = crashed
        /\ UNCHANGED <<memory, mutex, pc, op, arg, move, cursor, seen, result, removed, calls>>
    BY <1>1 DEF vars
  <2> QED
    BY <2>1, <2>2, CrashStep
<1>2. CASE Next
  <2>1. ASSUME NEW t \in Threads, NEW k \in Keys, NEW v \in Values, Call(t, "put", k, v)
        PROVE  IndInv' /\ MapStep
    <3>1. PICK o : o = "put"
      OBVIOUS
    <3>2. o \in Operations /\ (o = "put" => v \in Values) /\ Call(t, o, k, v)
      BY <2>1, <3>1 DEF Operations
    <3>3. v \in Values \cup {NoValue}
      OBVIOUS
    <3> QED
      BY <3>2, <3>3, CallStep
  <2>2. ASSUME NEW t \in Threads, NEW o \in {"find", "remove"}, NEW k \in Keys, Call(t, o, k, NoValue)
        PROVE  IndInv' /\ MapStep
    <3>1. o \in Operations /\ o # "put"
      BY DEF Operations
    <3>2. NoValue \in Values \cup {NoValue}
      OBVIOUS
    <3> QED
      BY <2>2, <3>1, <3>2, CallStep
  <2>3. ASSUME NEW t \in Threads, NEW o \in {"copy", "foreach", "inject"}, Call(t, o, AnyKey, NoValue)
        PROVE  IndInv' /\ MapStep
    <3>1. o \in Operations /\ o # "put"
      BY DEF Operations
    <3>2. NoValue \in Values \cup {NoValue} /\ AnyKey \in Keys
      BY NoTypes
    <3> QED
      BY <2>3, <3>1, <3>2, CallStep
  <2>4. ASSUME NEW t \in Threads, Step(t)
        PROVE  IndInv' /\ MapStep
    BY <2>4, StepInv
  <2>5. CASE DestroyBaggage
    BY <2>5, DestroyBaggageStep
  <2> QED
    BY <1>2, <2>1, <2>2, <2>3, <2>4, <2>5, Zenon DEF Next
<1> QED
  BY <1>1, <1>2

\* THEOREM: the invariant.  In every reachable state of hashtable.c's tables,
\* also between two entries of a rehash, the allocated nodes are in doubly
\* linked lists, each in the bucket of its key, a table has each key once, its
\* size and load are right, and every operation in progress has done the part
\* of its work that its place says.
THEOREM HashtableInvariant == Spec => []IndInv
<1>1. Init => IndInv
  BY InitInv
<1>2. IndInv /\ [Next]_vars => IndInv'
  BY NextInv
<1> QED
  BY <1>1, <1>2, PTL DEF Spec

\* THEOREM: every variable has its type, and a table has as many buckets as its
\* order says, whatever rehash and copy do: the index that jaeger_hashtable_hash
\* modulo 1 << order gives is always within the array.
THEOREM HashtableTypes == Spec => []TypeOK
<1>1. IndInv => TypeOK
  BY DEF IndInv
<1> QED
  BY <1>1, HashtableInvariant, PTL

\* The arrays of buckets are those of the places.
LEMMA BucketsPlaces ==
  ASSUME IndInv
  PROVE  /\ \A b \in Buckets : b # NoBuckets /\ \E p \in Places : b = Array[p]
         /\ \A p \in Places : Array[p] # NoBuckets => Array[p] \in Buckets
         /\ \A p \in Places : NodesIn(Array[p]) = Home(node, Array, p)
<1>1. \A t \in Threads : move[t].new # NoBuckets => mutex = t /\ t # NoThread
  <2> TAKE t \in Threads
  <2>1. TableInv(t) /\ OpInv(t) /\ pc[t] \in Labels
    BY InvParts
  <2> QED
    BY <2>1, OpForm, PlaceFacts DEF TableInv
<1>2. \A b : b \in Buckets <=> /\ b # NoBuckets
                               /\ \/ \E t \in Tables : b = table[t].buckets
                                  \/ \E t \in Threads : b = move[t].new
  BY DEF Buckets
<1>3. ASSUME NEW b \in Buckets
      PROVE  b # NoBuckets /\ \E p \in Places : b = Array[p]
  <2>1. CASE \E t \in Tables : b = table[t].buckets
    BY <1>2, <2>1, ArrayFacts, PlaceFacts
  <2>2. CASE \E t \in Threads : b = move[t].new
    <3>1. PICK t \in Threads : b = move[t].new
      BY <2>2
    <3>2. mutex = t /\ t # NoThread
      BY <1>1, <1>2, <3>1
    <3>3. b = Array[NoThread]
      BY <3>1, <3>2, ArrayFacts
    <3> QED
      BY <1>2, <3>3, PlaceFacts
  <2> QED
    BY <1>2, <2>1, <2>2
<1>4. ASSUME NEW p \in Places, Array[p] # NoBuckets
      PROVE  Array[p] \in Buckets
  <2>1. CASE p \in Tables
    BY <1>2, <1>4, <2>1, ArrayFacts
  <2>2. CASE p = NoThread
    <3>1. mutex # NoThread /\ Array[NoThread] = move[mutex].new
      BY <1>4, <2>2, ArrayFacts
    <3>2. mutex \in Threads
      BY <3>1, InvParts
    <3> QED
      BY <1>2, <1>4, <2>2, <3>1, <3>2
  <2> QED
    BY <2>1, <2>2, PlaceFacts
<1>5. ASSUME NEW p \in Places
      PROVE  NodesIn(Array[p]) = Home(node, Array, p)
  BY Zenon DEF NodesIn, Home, In
<1> QED
  BY <1>3, <1>4, <1>5

\* THEOREM: jaeger_list_insert and jaeger_list_node_remove keep every bucket of
\* every table, and of a rehash in progress, a doubly linked list whose size is
\* its length.
THEOREM BucketsAreLists == Spec => []ListsLinked
<1>1. IndInv => ListsLinked
  <2> SUFFICES ASSUME IndInv
               PROVE  ListsLinked
    OBVIOUS
  <2>1. ASSUME NEW b \in Buckets, NEW i \in DOMAIN b
        PROVE  /\ Len(Chain(node, b[i])) = b[i].size
               /\ \A j \in 1 .. Len(Chain(node, b[i])) :
                    node[Chain(node, b[i])[j]].prev = IF j = 1 THEN Null ELSE Chain(node, b[i])[j - 1]
    <3>1. PICK p \in Places : b = Array[p]
      BY BucketsPlaces
    <3>2. IsChain(node, b[i], Chain(node, b[i]))
      BY <3>1, InvParts, HeapFacts
    <3> QED
      BY <3>2, Zenon DEF IsChain
  <2> QED
    BY <2>1 DEF ListsLinked
<1> QED
  BY <1>1, HashtableInvariant, PTL

\* THEOREM: a table's size is below its number of buckets, the threshold of
\* jaeger_hashtable_put, and no less than the number of its entries, those a
\* rehash has moved included; it is that number if nothing was removed.
THEOREM SizeCounts == Spec => []SizeAndLoad
<1>1. IndInv => SizeAndLoad
  <2> SUFFICES ASSUME IndInv
               PROVE  SizeAndLoad
    OBVIOUS
  <2>1. ASSUME NEW t \in Tables, NEW S, S = UNION {NodesIn(move[u].new) : u \in {u \in Threads : Target(u) = t}}
        PROVE  NodesIn(table[t].buckets) \cup S = Held(t)
    <3>1. /\ NodesIn(table[t].buckets) = Home(node, Array, t)
          /\ \A u \in Threads : mutex = u => NodesIn(move[u].new) = Home(node, Array, NoThread)
          /\ \A u \in Threads : mutex # u => NodesIn(move[u].new) = {}
          /\ \A u \in Threads : NodesIn(move[u].new) # {} => op[u] = "put"
          /\ mutex = NoThread => Home(node, Array, NoThread) = {}
          /\ mutex \in Threads \cup {NoThread}
      BY MoveNodes, InvParts
    <3>2. \A n : n \in S <=> \E u \in Threads : Target(u) = t /\ n \in NodesIn(move[u].new)
      BY <2>1
    <3>3. S = IF t = Src THEN Home(node, Array, NoThread) ELSE {}
      <4>1. CASE t = Src
        <5>1. \A n : n \in Home(node, Array, NoThread) => mutex \in Threads /\ n \in NodesIn(move[mutex].new)
          BY <3>1
        <5>2. \A u \in Threads : NodesIn(move[u].new) # {} => Target(u) = Src
          BY <3>1 DEF Target
        <5>3. \A n : n \in Home(node, Array, NoThread) => n \in S
          BY <3>2, <4>1, <5>1, <5>2
        <5>4. \A n : n \in S => n \in Home(node, Array, NoThread)
          BY <3>1, <3>2
        <5> QED
          BY <4>1, <5>3, <5>4
      <4>2. CASE t # Src
        <5>1. \A u \in Threads : Target(u) = t => op[u] # "put"
          BY <4>2 DEF Target
        <5> QED
          BY <3>1, <3>2, <4>2, <5>1
      <4> QED
        BY <4>1, <4>2
    <3> QED
      BY <3>1, <3>3 DEF Held
  <2>2. SizeInv
    BY InvParts
  <2>3. ASSUME NEW t \in Tables, table[t].buckets # NoBuckets, NEW S,
               S = UNION {NodesIn(move[u].new) : u \in {u \in Threads : Target(u) = t}}
        PROVE  /\ table[t].size < BucketCount(table[t].order)
               /\ Cardinality(NodesIn(table[t].buckets) \cup S) <= table[t].size
               /\ t # Src \/ removed = 0 =>
                    table[t].size = Cardinality(NodesIn(table[t].buckets) \cup S)
    <3>1. NodesIn(table[t].buckets) \cup S = Held(t)
      BY <2>1, <2>3
    <3>2. /\ table[t].size < BucketCount(table[t].order)
          /\ table[t].size = Cardinality(Held(t)) + (IF t = Src THEN removed ELSE 0)
      BY <2>2, <2>3 DEF SizeInv
    <3>3. Cardinality(Held(t)) \in Nat /\ removed \in Nat
      <4>1. HeapInv(node, live, Array, Order) /\ VarTypes
        BY InvParts
      <4>2. Cardinality(Held(t)) \in Nat
        BY <4>1, HeldFacts
      <4>3. removed \in Nat
        BY <4>1 DEF VarTypes
      <4> QED
        BY <4>2, <4>3
    <3> DEFINE c == Cardinality(Held(t))
    <3>4. c <= table[t].size /\ (t # Src \/ removed = 0 => table[t].size = c)
      <4> HIDE DEF c
      <4>1. c \in Nat /\ table[t].size = c + (IF t = Src THEN removed ELSE 0)
        BY <3>2, <3>3 DEF c
      <4> QED
        BY <3>3, <4>1
    <3> QED
      BY <3>1, <3>2, <3>4
  <2> QED
    BY <2>3, Zenon DEF SizeAndLoad
<1> QED
  BY <1>1, HashtableInvariant, PTL

\* THEOREM: jaeger_hashtable_minimal_order gives a copy all the buckets it
\* needs, so that none of its puts rehashes, and at its end the copy has every
\* entry: the assertion that the sizes agree holds if nothing was removed.
THEOREM CopiesFit == Spec => []CopyFits
<1>1. IndInv => CopyFits
  <2> SUFFICES ASSUME IndInv, NEW t \in Threads, op[t] = "copy"
               PROVE  /\ pc[t] # "rehash"
                      /\ ScanEnds(t) /\ removed = 0 => table[t].size = table[Src].size
    BY DEF CopyFits
  <2>1. /\ OpInv(t) /\ TableInv(t) /\ CopyInv(t) /\ SizeInv /\ HeapInv(node, live, Array, Order)
        /\ pc[t] \in Labels
    BY InvParts
  <2>2. pc[t] # "rehash"
    BY <2>1, OpForm
  <2>3. ASSUME ScanEnds(t), removed = 0
        PROVE  table[t].size = table[Src].size
    <3>1. Done(t) = Held(Src) /\ Iterating(t) /\ pc[t] = "scan"
      BY <2>3, ScanFacts
    <3>2. table[t].size = Cardinality(Done(t))
      BY <2>1, <3>1 DEF CopyInv
    <3>3. table[Src].buckets # NoBuckets /\ Src \in Tables
      BY <2>1, <3>1 DEF TableInv, Tables
    <3>4. table[Src].size = Cardinality(Held(Src)) + 0
      BY <2>1, <2>3, <3>3 DEF SizeInv
    <3>5. Cardinality(Held(Src)) \in Nat
      BY <2>1, <3>3, HeldFacts
    <3> QED
      BY <3>1, <3>2, <3>4, <3>5
  <2> QED
    BY <2>2, <2>3
<1> QED
  BY <1>1, HashtableInvariant, PTL

\* THEOREM: under the mutex the table is a map.  Every put, find, remove, copy
\* and iteration, and the destruction of the context, is one step of
\* KeyValueMap, and what happens in between (a rehash entry by entry, the
\* puts into a copy, an allocation that fails, an inject without the lock)
\* cannot be observed.
THEOREM TableIsMap == Spec => ImplementsMap
<1>1. Init => IndInv /\ Map!Init
  BY InitInv
<1>2. IndInv /\ [Next]_vars => IndInv' /\ [Map!Next]_(Map!vars)
  <2>1. MapStep => [Map!Next]_(Map!vars)
    BY DEF MapStep, Map!vars
  <2> QED
    BY <2>1, NextInv
<1> QED
  BY <1>1, <1>2, PTL DEF Spec, ImplementsMap, Map!Spec


---------------------------------------------------------------------------
(* Who owns the nodes *)

\* An iteration that is not under way: a copy that has not begun or is over
\* points nowhere, and one that failed still points into the baggage.
RestInv ==
  \A t \in Threads :
    /\ pc[t] \in {"copy", "have", "destroy"} => Entry(t) = Null
    /\ pc[t] = "cleanup" => Entry(t) \in NodesIn(table[Src].buckets) \cup {Null}

\* What a step of t leaves to the other threads.
Elsewhere(t) ==
  \A u \in Threads : u # t => pc'[u] = pc[u] /\ cursor'[u] = cursor[u]
Undisturbed(t) ==
  mutex # t => NodesIn(table[Src].buckets)' = NodesIn(table[Src].buckets)

LEMMA RestFrame ==
  ASSUME IndInv, RestInv, NEW t \in Threads, Elsewhere(t), Undisturbed(t),
         pc'[t] \in {"copy", "have", "destroy"} => Entry(t)' = Null,
         pc'[t] = "cleanup" => Entry(t)' \in NodesIn(table[Src].buckets)' \cup {Null}
  PROVE  RestInv'
<1>1. ASSUME NEW u \in Threads, u # t
      PROVE  /\ pc'[u] \in {"copy", "have", "destroy"} => Entry(u)' = Null
             /\ pc'[u] = "cleanup" => Entry(u)' \in NodesIn(table[Src].buckets)' \cup {Null}
  <2>1. pc'[u] = pc[u] /\ Entry(u)' = Entry(u)
    BY <1>1 DEF Elsewhere, Entry
  <2>2. pc[u] = "cleanup" => mutex # t
    <3>1. OpInv(u) /\ pc[u] \in Labels
      BY InvParts
    <3> QED
      BY <1>1, <3>1, OpForm
  <2> QED
    BY <2>1, <2>2 DEF RestInv, Undisturbed
<1> QED
  BY <1>1 DEF RestInv

\* Memory that stays as it is is not disturbed.
LEMMA RestMemory ==
  ASSUME NEW t, UNCHANGED memory \/ mutex = t
  PROVE  Undisturbed(t)
<1>1. CASE UNCHANGED memory
  <2>1. node' = node /\ table' = table
    BY <1>1 DEF memory
  <2> QED
    BY <2>1 DEF Undisturbed, NodesIn, Chain
<1> QED
  BY <1>1 DEF Undisturbed

\* The places a thread goes to, and a call that ends.
LEMMA RestGoto ==
  ASSUME IndInv, NEW t \in Threads, NEW l, Goto(t, l),
         \/ cursor' = cursor
         \/ \E c : cursor' = [cursor EXCEPT ![t] = c]
  PROVE  Elsewhere(t) /\ pc'[t] = l
<1>1. pc \in [Threads -> Labels] /\ DOMAIN cursor = Threads
  <2>1. /\ pc \in [Threads -> Labels]
        /\ cursor \in [Threads -> [i : Nat, len : Nat, entry : Nodes \cup {Null}, all : BOOLEAN]]
    BY InvParts DEF VarTypes
  <2> QED
    BY <2>1
<1>2. pc'[t] = l /\ \A u \in Threads : u # t => pc'[u] = pc[u]
  BY <1>1 DEF Goto
<1>3. \A u \in Threads : u # t => cursor'[u] = cursor[u]
  <2>1. CASE \E c : cursor' = [cursor EXCEPT ![t] = c]
    <3>1. PICK c : cursor' = [cursor EXCEPT ![t] = c]
      BY <2>1
    <3> QED
      BY <1>1, <3>1
  <2> QED
    BY <2>1
<1> QED
  BY <1>2, <1>3 DEF Elsewhere

LEMMA RestReturn ==
  ASSUME IndInv, RestInv, NEW t \in Threads, Return(t), Undisturbed(t)
  PROVE  RestInv'
<1>1. Elsewhere(t) /\ pc'[t] = "idle"
  <2>1. Goto(t, "idle") /\ cursor' = [cursor EXCEPT ![t] = NoCursor]
    BY DEF Return
  <2> QED
    BY <2>1, RestGoto
<1> QED
  BY <1>1, RestFrame

LEMMA RestOnward ==
  ASSUME IndInv, RestInv, NEW t \in Threads, NEW l, Goto(t, l), Undisturbed(t),
         l \in {"put", "find", "remove", "scan", "next", "rehash", "insert"},
         \/ cursor' = cursor
         \/ \E c : cursor' = [cursor EXCEPT ![t] = c]
  PROVE  RestInv'
<1>1. Elsewhere(t) /\ pc'[t] = l
  BY RestGoto
<1> QED
  BY <1>1, RestFrame

\* The puts.
LEMMA RestPut ==
  ASSUME IndInv, RestInv, NEW t \in Threads,
         \/ RehashFails(t) \/ StartPut(t) \/ RehashEntry(t) \/ RehashBucket(t)
         \/ InsertFails(t) \/ Overwrite(t) \/ Insert(t)
  PROVE  RestInv'
<1>1. pc[t] \in {"put", "rehash", "insert"}
  BY Zenon DEF RehashFails, StartPut, RehashEntry, RehashBucket, InsertFails, Overwrite, Insert
<1>2. mutex = t /\ Undisturbed(t) /\ op[t] \in {"put", "copy"}
  <2>1. OpInv(t) /\ pc[t] \in Labels
    BY InvParts
  <2>2. mutex = t /\ op[t] \in {"put", "copy"}
    BY <1>1, <2>1, OpForm
  <2> QED
    BY <2>2, RestMemory
<1>3. CASE PutFails(t) /\ pc[t] \in {"put", "insert"}
  <2>1. CASE op[t] = "put"
    <3>1. Return(t)
      BY <1>3, <2>1 DEF PutFails
    <3> QED
      BY <1>2, <3>1, RestReturn
  <2>2. CASE op[t] # "put"
    <3>1. Goto(t, "cleanup") /\ cursor' = cursor /\ UNCHANGED memory
      BY <1>3, <2>2 DEF PutFails
    <3>2. Elsewhere(t) /\ pc'[t] = "cleanup"
      BY <3>1, RestGoto
    <3>3. NodesIn(table[Src].buckets)' = NodesIn(table[Src].buckets)
      <4>1. node' = node /\ table' = table
        BY <3>1 DEF memory
      <4> QED
        BY <4>1 DEF NodesIn, Chain
    <3>4. Entry(t) \in NodesIn(table[Src].buckets) \cup {Null}
      <4>1. Iterating(t) /\ op[t] # "inject"
        BY <1>2, <1>3, <2>2 DEF Iterating
      <4>2. Entry(t) # Null => Entry(t) \in Held(Src)
        BY <4>1, IterFacts
      <4>3. Held(Src) = Home(node, Array, Src)
        BY <4>1, IterFacts
      <4>4. Src \in Tables
        BY PlaceFacts
      <4>5. NodesIn(table[Src].buckets) = Home(node, Array, Src)
        BY <4>4, MoveNodes
      <4> QED
        BY <4>2, <4>3, <4>5
    <3>5. Entry(t)' = Entry(t)
      BY <3>1 DEF Entry
    <3> QED
      BY <1>2, <3>2, <3>3, <3>4, <3>5, RestFrame
  <2> QED
    BY <2>1, <2>2
<1>4. CASE PutDone(t)
  <2>1. CASE op[t] = "put"
    <3>1. Return(t)
      BY <1>4, <2>1 DEF PutDone
    <3> QED
      BY <1>2, <3>1, RestReturn
  <2>2. CASE op[t] # "put"
    <3>1. Goto(t, "next") /\ cursor' = cursor
      BY <1>4, <2>2 DEF PutDone
    <3> QED
      BY <1>2, <3>1, RestOnward
  <2> QED
    BY <2>1, <2>2
<1>5. CASE StartPut(t)
  <2>1. cursor' = cursor /\ (Goto(t, "rehash") \/ Goto(t, "insert"))
    BY <1>5, Zenon DEF StartPut
  <2> QED
    BY <1>2, <2>1, RestOnward
<1>6. CASE pc' = pc /\ cursor' = cursor
  <2>1. Elsewhere(t) /\ pc'[t] = pc[t]
    BY <1>6 DEF Elsewhere
  <2> QED
    BY <1>1, <1>2, <2>1, RestFrame
<1>7. CASE RehashBucket(t)
  <2>1. cursor' = cursor /\ (pc' = pc \/ Goto(t, "insert"))
    BY <1>7, Zenon DEF RehashBucket
  <2> QED
    BY <1>2, <1>6, <2>1, RestOnward
<1>8. CASE RehashEntry(t)
  BY <1>6, <1>8, Zenon DEF RehashEntry
<1>9. CASE RehashFails(t) \/ InsertFails(t)
  BY <1>3, <1>9, Zenon DEF RehashFails, InsertFails
<1>10. CASE Overwrite(t) \/ Insert(t)
  BY <1>4, <1>10, Zenon DEF Overwrite, Insert
<1> QED
  BY <1>5, <1>7, <1>8, <1>9, <1>10

\* Copies and iterations.
LEMMA RestIteration ==
  ASSUME IndInv, RestInv, NEW t \in Threads,
         \/ Copy(t) \/ CopyFails(t) \/ Visit(t) \/ Advance(t) \/ Refused(t)
         \/ NextBucket(t) \/ ForeachDone(t) \/ InjectDone(t) \/ CopyDone(t)
         \/ CopyCleanup(t)
  PROVE  RestInv'
<1>1. OpInv(t) /\ pc[t] \in Labels
  BY InvParts
<1>2. CASE Copy(t)
  <2>1. /\ pc[t] = "copy" /\ Goto(t, "scan")
        /\ cursor' = [cursor EXCEPT ![t] = Cursor(Src)]
    BY <1>2 DEF Copy
  <2>2. Undisturbed(t)
    BY <1>1, <2>1, OpForm, RestMemory
  <2> QED
    BY <2>1, <2>2, RestOnward
<1>3. CASE CopyFails(t)
  <2>1. pc[t] = "copy" /\ Goto(t, "cleanup") /\ cursor' = cursor /\ UNCHANGED memory
    BY <1>3 DEF CopyFails
  <2>2. Elsewhere(t) /\ pc'[t] = "cleanup"
    BY <2>1, RestGoto
  <2>3. Entry(t)' = Null
    BY <2>1 DEF RestInv, Entry
  <2> QED
    BY <2>1, <2>2, <2>3, RestMemory, RestFrame
<1>4. CASE Visit(t) \/ Advance(t) \/ NextBucket(t)
  <2>1. UNCHANGED memory
    BY <1>4, Zenon DEF Visit, Advance, NextBucket
  <2>2. Undisturbed(t)
    BY <2>1, RestMemory
  <2>3. CASE Visit(t)
    <3>1. cursor' = cursor /\ (Goto(t, "put") \/ Goto(t, "next"))
      BY <2>3, Zenon DEF Visit
    <3> QED
      BY <2>2, <3>1, RestOnward
  <2>4. CASE Advance(t)
    <3>1. Goto(t, "scan") /\ \E c : cursor' = [cursor EXCEPT ![t] = c]
      BY <2>4 DEF Advance
    <3> QED
      BY <2>2, <3>1, RestOnward
  <2>5. CASE NextBucket(t)
    <3>1. pc[t] = "scan" /\ pc' = pc /\ \E c : cursor' = [cursor EXCEPT ![t] = c]
      BY <2>5 DEF NextBucket
    <3>2. Goto(t, "scan")
      <4>1. pc \in [Threads -> Labels]
        BY InvParts DEF VarTypes
      <4> QED
        BY <3>1, <4>1 DEF Goto
    <3> QED
      BY <2>2, <3>1, <3>2, RestOnward
  <2> QED
    BY <1>4, <2>3, <2>4, <2>5
<1>5. CASE Refused(t)
  <2>1. UNCHANGED memory
    BY <1>5 DEF Refused
  <2>2. Undisturbed(t)
    BY <2>1, RestMemory
  <2>3. Return(t) \/ (Goto(t, "scan") /\ \E c : cursor' = [cursor EXCEPT ![t] = c])
    BY <1>5 DEF Refused
  <2> QED
    BY <2>2, <2>3, RestReturn, RestOnward
<1>6. CASE ForeachDone(t) \/ InjectDone(t)
  <2>1. Return(t) /\ UNCHANGED memory
    BY <1>6, Zenon DEF ForeachDone, InjectDone
  <2> QED
    BY <2>1, RestMemory, RestReturn
<1>7. CASE CopyDone(t) \/ CopyCleanup(t)
  <2>1. /\ Goto(t, "have") \/ Goto(t, "destroy")
        /\ cursor' = [cursor EXCEPT ![t] = NoCursor]
    BY <1>7, Zenon DEF CopyDone, CopyCleanup
  <2>2. Undisturbed(t)
    <3>1. UNCHANGED memory \/ pc[t] = "cleanup"
      BY <1>7, Zenon DEF CopyDone, CopyCleanup
    <3> QED
      BY <1>1, <3>1, OpForm, RestMemory
  <2>3. Elsewhere(t) /\ pc'[t] \in {"have", "destroy"}
    BY <2>1, RestGoto
  <2>4. Entry(t)' = Null
    <3>1. cursor \in [Threads -> [i : Nat, len : Nat, entry : Nodes \cup {Null}, all : BOOLEAN]]
      BY InvParts DEF VarTypes
    <3>2. cursor'[t] = NoCursor
      BY <2>1, <3>1
    <3> QED
      BY <3>2 DEF Entry, NoCursor
  <2> QED
    BY <2>2, <2>3, <2>4, RestFrame
<1> QED
  BY <1>2, <1>3, <1>4, <1>5, <1>6, <1>7

\* A copy that is dropped takes nothing from the baggage.
LEMMA RestDrop ==
  ASSUME IndInv, RestInv, NEW t \in Threads, DropCopy(t)
  PROVE  RestInv'
<1>1. /\ pc[t] = "have" /\ Return(t)
      /\ live' = live \ NodesIn(table[t].buckets)
      /\ node' = Dealloc(node, NodesIn(table[t].buckets))
      /\ table' = [table EXCEPT ![t] = [size |-> 0, order |-> 0, buckets |-> NoBuckets]]
      /\ mutex' = mutex /\ removed' = removed
  BY DEF DropCopy, NoTable
<1>2. /\ Src \in Tables /\ Src \in Places /\ t \in Tables /\ t # Src
  BY PlaceFacts DEF Tables
<1>3. /\ IsTable(table') /\ table'[t].buckets = NoBuckets
      /\ \A y \in Tables : y # t => table'[y] = table[y]
  <2>1. PICK b, g : b = NoBuckets /\ g = table'
    OBVIOUS
  <2>2. TableSet(table, t, 0, 0, b, g)
    BY <1>1, <1>2, <2>1, InvParts DEF TableSet, VarTypes
  <2>3. /\ IsTable(g) /\ g[t] = [size |-> 0, order |-> 0, buckets |-> b]
        /\ \A y \in Tables : y # t => g[y] = table[y]
    BY <2>2, TableUpdate
  <2> QED
    BY <2>1, <2>3
<1>4. Array'[NoThread] = Array[NoThread]
  <2>1. move' = [move EXCEPT ![t] = NoMove]
    BY <1>1 DEF Return
  <2> QED
    BY <1>1, <2>1, ExtraFrame
<1>5. \A q \in Places : q # t => \A j \in DOMAIN Array[q] :
        Chain(node', Array'[q][j]) = Chain(node, Array[q][j])
  BY <1>1, <1>2, <1>3, <1>4, DestroyHeap
<1>6. Undisturbed(t)
  <2>1. Array[Src] = table[Src].buckets /\ Array'[Src] = table[Src].buckets /\ table'[Src] = table[Src]
    BY <1>2, <1>3, ArrayFacts, ArrayFactsNext
  <2>2. \A j \in DOMAIN table[Src].buckets :
          Chain(node', table[Src].buckets[j]) = Chain(node, table[Src].buckets[j])
    BY <1>2, <1>5, <2>1
  <2>3. NodesIn(table[Src].buckets)' =
          UNION {Range(Chain(node', table[Src].buckets[i])) : i \in DOMAIN table[Src].buckets}
    BY <2>1 DEF NodesIn
  <2>4. NodesIn(table[Src].buckets) =
          UNION {Range(Chain(node, table[Src].buckets[i])) : i \in DOMAIN table[Src].buckets}
    BY DEF NodesIn
  <2>5. NodesIn(table[Src].buckets)' = NodesIn(table[Src].buckets)
    BY <2>2, <2>3, <2>4
  <2> QED
    BY <2>5 DEF Undisturbed
<1> QED
  BY <1>1, <1>6, RestReturn

LEMMA RestNext == IndInv /\ RestInv /\ [Next]_vars => RestInv'
<1> SUFFICES ASSUME IndInv, RestInv, [Next]_vars
             PROVE  RestInv'
  OBVIOUS
<1>1. CASE UNCHANGED <<memory, pc, cursor>>
  <2>1. node' = node /\ table' = table /\ pc' = pc /\ cursor' = cursor
    BY <1>1 DEF memory
  <2>2. NodesIn(table[Src].buckets)' = NodesIn(table[Src].buckets)
    BY <2>1 DEF NodesIn, Chain
  <2>3. \A t \in Threads : Entry(t)' = Entry(t)
    BY <2>1 DEF Entry
  <2> QED
    BY <2>1, <2>2, <2>3 DEF RestInv
<1>2. ASSUME NEW t \in Threads, NEW o \in Operations, NEW k, NEW v, Call(t, o, k, v)
      PROVE  RestInv'
  <2>1. UNCHANGED memory
    BY <1>2 DEF Call
  <2>2. Undisturbed(t)
    BY <2>1, RestMemory
  <2>3. CASE o \in {"foreach", "inject"}
    <3>1. Goto(t, "scan") /\ cursor' = [cursor EXCEPT ![t] = Cursor(Src)]
      BY <1>2, <2>3 DEF Call
    <3> QED
      BY <2>2, <3>1, RestOnward
  <2>4. CASE o \notin {"foreach", "inject"}
    <3>1. Goto(t, o) /\ cursor' = [cursor EXCEPT ![t] = NoCursor]
      BY <1>2, <2>4 DEF Call
    <3>2. Elsewhere(t) /\ pc'[t] = o
      BY <3>1, RestGoto
    <3>3. Entry(t)' = Null
      <4>1. cursor \in [Threads -> [i : Nat, len : Nat, entry : Nodes \cup {Null}, all : BOOLEAN]]
        BY InvParts DEF VarTypes
      <4>2. cursor'[t] = NoCursor
        BY <3>1, <4>1
      <4> QED
        BY <4>2 DEF Entry, NoCursor
    <3> QED
      BY <2>2, <3>2, <3>3, RestFrame
  <2> QED
    BY <2>3, <2>4
<1>3. ASSUME NEW t \in Threads, Step(t)
      PROVE  RestInv'
  <2>1. CASE \/ RehashFails(t) \/ StartPut(t) \/ RehashEntry(t) \/ RehashBucket(t)
             \/ InsertFails(t) \/ Overwrite(t) \/ Insert(t)
    BY <2>1, RestPut
  <2>2. CASE Find(t) \/ Remove(t)
    <3>1. Return(t) /\ pc[t] \in {"find", "remove"}
      BY <2>2, Zenon DEF Find, Remove
    <3>2. OpInv(t) /\ pc[t] \in Labels
      BY InvParts
    <3>3. mutex = t
      BY <3>1, <3>2, OpForm
    <3> QED
      BY <3>1, <3>3, RestMemory, RestReturn
  <2>3. CASE \/ Copy(t) \/ CopyFails(t) \/ Visit(t) \/ Advance(t) \/ Refused(t)
             \/ NextBucket(t) \/ ForeachDone(t) \/ InjectDone(t) \/ CopyDone(t)
             \/ CopyCleanup(t)
    BY <2>3, RestIteration
  <2>4. CASE SizeAssertFails(t) \/ InjectRace(t) \/ DestroyCrash(t)
    BY <1>1, <2>4, Zenon DEF SizeAssertFails, InjectRace, DestroyCrash, Crash
  <2>5. CASE DestroyAgain(t)
    <3>1. Return(t) /\ UNCHANGED memory
      BY <2>5 DEF DestroyAgain
    <3> QED
      BY <3>1, RestMemory, RestReturn
  <2>6. CASE DropCopy(t)
    BY <2>6, RestDrop
  <2> QED
    BY <1>3, <2>1, <2>2, <2>3, <2>4, <2>5, <2>6, Zenon DEF Step
<1>4. CASE DestroyBaggage
  <2>1. /\ \A t \in Threads : pc[t] \in {"idle", "have"}
        /\ pc' = pc /\ cursor' = cursor
    BY <1>4 DEF DestroyBaggage
  <2> QED
    BY <2>1 DEF RestInv, Entry
<1>5. CASE UNCHANGED vars
  BY <1>1, <1>5 DEF vars
<1>6. CASE Next
  <2>1. \A o \in {"put", "find", "remove", "copy", "foreach", "inject"} : o \in Operations
    BY DEF Operations
  <2>2. ASSUME NEW t \in Threads, NEW k \in Keys, NEW v \in Values, Call(t, "put", k, v)
        PROVE  RestInv'
    <3>1. PICK o : o = "put"
      OBVIOUS
    <3>2. o \in Operations /\ Call(t, o, k, v)
      BY <2>1, <2>2, <3>1
    <3> QED
      BY <1>2, <3>2
  <2>3. ASSUME NEW t \in Threads, NEW o \in {"find", "remove"}, NEW k \in Keys, Call(t, o, k, NoValue)
        PROVE  RestInv'
    BY <1>2, <2>1, <2>3
  <2>4. ASSUME NEW t \in Threads, NEW o \in {"copy", "foreach", "inject"}, Call(t, o, AnyKey, NoValue)
        PROVE  RestInv'
    BY <1>2, <2>1, <2>4
  <2> QED
    BY <1>3, <1>4, <1>6, <2>2, <2>3, <2>4, Zenon DEF Next
<1> QED
  BY <1>5, <1>6

\* THEOREM: every allocated node is in one bucket of one table and nothing in
\* a bucket is freed, so a put that fails, a rehash, a copy that is abandoned
\* and jaeger_hashtable_destroy leak nothing and free nothing twice; and an
\* iteration under the mutex stands on an allocated node or at the end of its
\* bucket, also one that failed and whose copy is about to be destroyed.
THEOREM NodesAreOwned == Spec => []NodesOwned
<1>1. Init => RestInv
  <2> SUFFICES ASSUME Init, NEW t \in Threads
               PROVE  pc[t] = "idle"
    BY DEF RestInv
  <2> QED
    BY DEF Init
<1>2. IndInv /\ RestInv => NodesOwned
  <2> SUFFICES ASSUME IndInv, RestInv
               PROVE  NodesOwned
    OBVIOUS
  <2>1. HeapInv(node, live, Array, Order)
    BY InvParts
  <2>2. live = UNION {NodesIn(b) : b \in Buckets}
    <3>1. ASSUME NEW n \in live
          PROVE  \E b \in Buckets : n \in NodesIn(b)
      <4>1. PICK p \in Places : n \in Home(node, Array, p)
        BY <2>1, HeapFacts
      <4>2. Array[p] # NoBuckets
        BY <2>1, <4>1, HeapFacts
      <4> QED
        BY <4>1, <4>2, BucketsPlaces
    <3>2. ASSUME NEW b \in Buckets, NEW n \in NodesIn(b)
          PROVE  n \in live
      <4>1. PICK p \in Places : b = Array[p]
        BY BucketsPlaces
      <4>2. n \in Home(node, Array, p)
        BY <4>1, BucketsPlaces
      <4> QED
        BY <2>1, <4>2, HeapFacts
    <3> QED
      BY <3>1, <3>2
  <2>3. ASSUME NEW b \in Buckets, NEW c \in Buckets, NEW i \in DOMAIN b, NEW j \in DOMAIN c,
               b # c \/ i # j
        PROVE  Range(Chain(node, b[i])) \cap Range(Chain(node, c[j])) = {}
    <3>1. PICK p \in Places : b = Array[p]
      BY BucketsPlaces
    <3>2. PICK q \in Places : c = Array[q] /\ (b = c => q = p)
      BY <3>1, BucketsPlaces
    <3>3. In(node, Array, p, i) \cap In(node, Array, q, j) = {}
      BY <2>1, <2>3, <3>1, <3>2, HeapFacts
    <3> QED
      BY <3>1, <3>2, <3>3 DEF In
  <2>4. ASSUME NEW t \in Threads, op[t] \in {"copy", "foreach"}
        PROVE  Entry(t) \in live \cup {Null}
    <3>1. CASE Iterating(t)
      BY <2>4, <3>1, IterFacts
    <3>2. CASE ~Iterating(t)
      <4>1. OpInv(t) /\ pc[t] \in Labels
        BY InvParts
      <4>2. pc[t] \in {"copy", "have", "destroy", "cleanup"}
        BY <2>4, <3>2, <4>1 DEF OpInv, Iterating, Labels
      <4>3. NodesIn(table[Src].buckets) \subseteq live
        <5>1. Src \in Tables /\ Src \in Places
          BY PlaceFacts
        <5> QED
          BY <2>1, <5>1, MoveNodes, HeapFacts
      <4> QED
        BY <4>2, <4>3 DEF RestInv
    <3> QED
      BY <3>1, <3>2
  <2> QED
    BY <2>2, <2>3, <2>4, Zenon DEF NodesOwned
<1> QED
  BY <1>1, <1>2, HashtableInvariant, RestNext, PTL DEF Spec
====
