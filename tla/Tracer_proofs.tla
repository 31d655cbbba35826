--------------------------- MODULE Tracer_proofs ---------------------------
(***************************************************************************)
(* Proofs about Tracer for every set of spans and reporters, whatever of   *)
(* its arguments the application supplies and whichever allocation fails.  *)
(***************************************************************************)
EXTENDS Tracer, SequenceLemmas, FiniteSetTheorems

---------------------------------------------------------------------------
(* What the steps leave alone *)

\* The calls of a live tracer and the steps that end the process leave the
\* members alone.
Calls ==
  \/ \E l \in Leaves : CompositeAdd(l) \/ CompositeAddFails(l)
  \/ \E s \in Spans, sampled \in BOOLEAN : Start(s, sampled)
  \/ \E s \in Spans : StartFails(s) \/ StartCrash(s) \/ Finish(s) \/ FinishCrash(s)
  \/ UpdateSampler \/ Flush \/ FlushCrash
  \/ InitReporterCrash \/ CloseCrash \/ DestroyMetricsCrash \/ DestroyReporterCrash

\* init and destroy, step by step.
Steps ==
  \/ InitServiceName \/ InitMetrics \/ InitMetricsFails \/ InitSampler
  \/ InitReporter \/ InitTags \/ InitTagsFails \/ InitFails
  \/ Destroy \/ Close \/ FreeServiceName \/ DestroyMetrics \/ DestroySampler
  \/ DestroyReporter \/ DestroyTags \/ Release

LEMMA NextSplit == Next => Calls \/ Steps
BY DEF Next, Calls, Steps

\* No step changes the arguments of init.
LEMMA ArgsFrame == [Next]_vars => UNCHANGED <<args, shortage>>
<1>1. CASE Calls
  BY <1>1 DEF Calls, CompositeAdd, CompositeAddFails, Start, StartFails, StartCrash,
     Finish, FinishCrash, UpdateSampler, Flush, InitReporterCrash, CloseCrash,
     DestroyMetricsCrash, DestroyReporterCrash, FlushCrash, Crash, tracer
<1>2. CASE Steps
  BY <1>2 DEF Steps, InitServiceName, InitMetrics, InitMetricsFails, InitSampler,
     InitReporter, InitTags, InitTagsFails, InitFails, Destroy, Close, FreeServiceName,
     DestroyMetrics, DestroySampler, DestroyReporter, DestroyTags, Release, Set, tracer
<1>3. CASE UNCHANGED vars
  BY <1>3 DEF vars, tracer
<1> QED
  BY <1>1, <1>2, <1>3, NextSplit

\* A call leaves the members, the frees and the stage alone.
LEMMA CallFrame == Calls => UNCHANGED <<stage, tracer, counters>>
BY DEF Calls, CompositeAdd, CompositeAddFails, Start, StartFails, StartCrash,
   Finish, FinishCrash, UpdateSampler, Flush, InitReporterCrash, CloseCrash,
   DestroyMetricsCrash, DestroyReporterCrash, FlushCrash, Crash, Goto

\* What changes the state of a reporter.
LEMMA LeafFrame ==
  [Next]_vars => \/ \E l \in Leaves : CompositeAdd(l)
                 \/ \E s \in Spans : Finish(s)
                 \/ Flush \/ Close \/ DestroyReporter
                 \/ UNCHANGED leaf
<1>1. CASE Calls
  BY <1>1 DEF Calls, CompositeAddFails, Start, StartFails, StartCrash,
     FinishCrash, UpdateSampler, InitReporterCrash, CloseCrash,
     DestroyMetricsCrash, DestroyReporterCrash, FlushCrash, Crash, reporting
<1>2. CASE Steps
  BY <1>2 DEF Steps, InitServiceName, InitMetrics, InitMetricsFails, InitSampler,
     InitReporter, InitTags, InitTagsFails, InitFails, Destroy, FreeServiceName,
     DestroyMetrics, DestroySampler, DestroyTags, Release, reporting
<1>3. CASE UNCHANGED vars
  BY <1>3 DEF vars, reporting
<1> QED
  BY <1>1, <1>2, <1>3, NextSplit

\* What changes the children.
LEMMA ChildFrame ==
  [Next]_vars => \/ \E l \in Leaves : CompositeAdd(l)
                 \/ InitReporter \/ DestroyReporter
                 \/ UNCHANGED children
<1>1. CASE Calls
  BY <1>1 DEF Calls, CompositeAddFails, Start, StartFails, StartCrash, Finish,
     FinishCrash, UpdateSampler, Flush, InitReporterCrash, CloseCrash,
     DestroyMetricsCrash, DestroyReporterCrash, FlushCrash, Crash, reporting
<1>2. CASE Steps
  BY <1>2 DEF Steps, InitServiceName, InitMetrics, InitMetricsFails, InitSampler,
     InitTags, InitTagsFails, InitFails, Destroy, Close, FreeServiceName,
     DestroyMetrics, DestroySampler, DestroyTags, Release, reporting
<1>3. CASE UNCHANGED vars
  BY <1>3 DEF vars, reporting
<1> QED
  BY <1>1, <1>2, <1>3, NextSplit

\* What changes a span or a counter.
LEMMA SpanFrame ==
  [Next]_vars => \/ \E s \in Spans, sampled \in BOOLEAN : Start(s, sampled)
                 \/ \E s \in Spans : StartFails(s) \/ Finish(s)
                 \/ UNCHANGED span
<1>1. CASE Calls
  BY <1>1 DEF Calls, CompositeAdd, CompositeAddFails, StartCrash,
     FinishCrash, UpdateSampler, Flush, InitReporterCrash, CloseCrash,
     DestroyMetricsCrash, DestroyReporterCrash, FlushCrash, Crash
<1>2. CASE Steps
  BY <1>2 DEF Steps, InitServiceName, InitMetrics, InitMetricsFails, InitSampler,
     InitReporter, InitTags, InitTagsFails, InitFails, Destroy, Close, FreeServiceName,
     DestroyMetrics, DestroySampler, DestroyReporter, DestroyTags, Release
<1>3. CASE UNCHANGED vars
  BY <1>3 DEF vars
<1> QED
  BY <1>1, <1>2, <1>3, NextSplit

LEMMA CountFrame ==
  [Next]_vars => \/ \E s \in Spans, sampled \in BOOLEAN : Start(s, sampled)
                 \/ \E s \in Spans : Finish(s)
                 \/ Flush \/ Close
                 \/ UNCHANGED count
<1>1. CASE Calls
  BY <1>1 DEF Calls, CompositeAdd, CompositeAddFails, StartFails, StartCrash,
     FinishCrash, UpdateSampler, InitReporterCrash, CloseCrash,
     DestroyMetricsCrash, DestroyReporterCrash, FlushCrash, Crash
<1>2. CASE Steps
  BY <1>2 DEF Steps, InitServiceName, InitMetrics, InitMetricsFails, InitSampler,
     InitReporter, InitTags, InitTagsFails, InitFails, Destroy, FreeServiceName,
     DestroyMetrics, DestroySampler, DestroyReporter, DestroyTags, Release
<1>3. CASE UNCHANGED vars
  BY <1>3 DEF vars
<1> QED
  BY <1>1, <1>2, <1>3, NextSplit

---------------------------------------------------------------------------
(* The reporters *)

\* A concatenation of three, by place.
LEMMA ThreeParts ==
  ASSUME NEW S, NEW a \in Seq(S), NEW x \in Seq(S), NEW e \in Seq(S),
         NEW c, c = Len(a) + Len(x), NEW f, f = (a \o x) \o e
  PROVE  /\ f \in Seq(S)
         /\ Len(f) = c + Len(e)
         /\ \A i \in 1 .. Len(f) :
              /\ i <= Len(a) => f[i] = a[i]
              /\ Len(a) < i /\ i <= c => f[i] = x[i - Len(a)]
              /\ c < i => f[i] = e[i - c]
<1> DEFINE y == a \o x
<1>1. /\ y \in Seq(S) /\ Len(y) = Len(a) + Len(x)
      /\ \A i \in 1 .. Len(y) : y[i] = IF i <= Len(a) THEN a[i] ELSE x[i - Len(a)]
  BY ConcatAt
<1>2. Len(a) \in Nat /\ Len(x) \in Nat /\ Len(e) \in Nat
  OBVIOUS
<1> HIDE DEF y
<1>3. /\ f \in Seq(S) /\ Len(f) = Len(y) + Len(e)
      /\ \A i \in 1 .. Len(f) : f[i] = IF i <= Len(y) THEN y[i] ELSE e[i - Len(y)]
  <2>1. y \in Seq(S) /\ e \in Seq(S)
    BY <1>1
  <2>2. f = y \o e
    BY DEF y
  <2>3. /\ y \o e \in Seq(S) /\ Len(y \o e) = Len(y) + Len(e)
        /\ \A i \in 1 .. Len(y \o e) :
             (y \o e)[i] = IF i <= Len(y) THEN y[i] ELSE e[i - Len(y)]
    BY <2>1, ConcatAt
  <2> QED
    BY <2>2, <2>3
<1>4. ASSUME NEW i \in 1 .. Len(f)
      PROVE  /\ i <= Len(a) => f[i] = a[i]
             /\ Len(a) < i /\ i <= c => f[i] = x[i - Len(a)]
             /\ c < i => f[i] = e[i - c]
  <2>1. CASE i <= Len(y)
    <3>1. i \in 1 .. Len(y) /\ f[i] = y[i]
      BY <1>1, <1>2, <1>3, <2>1
    <3> QED
      BY <1>1, <1>2, <2>1, <3>1
  <2>2. CASE ~(i <= Len(y))
    BY <1>1, <1>2, <1>3, <2>2
  <2> QED
    BY <2>1, <2>2
<1> QED
  BY <1>1, <1>3, <1>4

\* What is left of a sequence without repetitions when a slice of it goes.
LEMMA CutOut ==
  ASSUME NEW S, NEW a \in Seq(S), NEW q \in Seq(S), NEW n \in 0 .. Len(q),
         NEW m \in n .. Len(q), IsInjective(a \o q)
  PROVE  LET f == (a \o SubSeq(q, 1, n)) \o SubSeq(q, m + 1, Len(q))
         IN /\ f \in Seq(S)
            /\ IsInjective(f)
            /\ Slice(q, n, m) \subseteq Range(a \o q)
            /\ Range(f) = Range(a \o q) \ Slice(q, n, m)
<1> DEFINE x == SubSeq(q, 1, n)
           e == SubSeq(q, m + 1, Len(q))
           y == a \o x
           f == y \o e
           g == a \o q
           c == Len(a) + n
           d == m - n
<1>1. Len(a) \in Nat /\ Len(q) \in Nat /\ n \in Nat /\ m \in Nat /\ n <= m /\ m <= Len(q)
  OBVIOUS
<1>2. x \in Seq(S) /\ Len(x) = n /\ \A i \in 1 .. n : x[i] = q[i]
  BY <1>1
<1>3. e \in Seq(S) /\ Len(e) = Len(q) - m /\ \A i \in 1 .. Len(e) : e[i] = q[m + i]
  BY <1>1
<1> HIDE DEF x, e
<1>5. /\ f \in Seq(S) /\ Len(f) = c + Len(e)
      /\ \A i \in 1 .. Len(f) :
           /\ i <= Len(a) => f[i] = a[i]
           /\ Len(a) < i /\ i <= c => f[i] = x[i - Len(a)]
           /\ c < i => f[i] = e[i - c]
  <2>1. x \in Seq(S) /\ e \in Seq(S) /\ c = Len(a) + Len(x) /\ f = (a \o x) \o e
    BY <1>2, <1>3
  <2> HIDE DEF c, f
  <2> QED
    BY <2>1, ThreeParts
<1>6. /\ g \in Seq(S) /\ Len(g) = Len(a) + Len(q)
      /\ \A i \in 1 .. Len(g) : g[i] = IF i <= Len(a) THEN a[i] ELSE q[i - Len(a)]
  BY ConcatAt
<1>i. IsInjective(g)
  OBVIOUS
<1> HIDE DEF f, g
<1>7. c \in Nat /\ d \in Nat /\ Len(f) = Len(g) - d /\ Len(f) \in Nat /\ c <= Len(f)
  BY <1>1, <1>3, <1>5, <1>6
<1>8. ASSUME NEW i \in 1 .. Len(f)
      PROVE  f[i] = IF i <= c THEN g[i] ELSE g[i + d]
  <2>1. CASE i <= Len(a)
    <3>1. i \in 1 .. Len(g) /\ i <= c
      BY <1>1, <1>6, <2>1
    <3> QED
      BY <1>5, <1>6, <2>1, <3>1
  <2>2. CASE Len(a) < i /\ i <= c
    <3>1. i - Len(a) \in 1 .. n /\ i \in 1 .. Len(g) /\ ~(i <= Len(a))
      BY <1>1, <1>6, <1>7, <2>2
    <3>2. f[i] = x[i - Len(a)] /\ g[i] = q[i - Len(a)]
      BY <1>5, <1>6, <2>2, <3>1
    <3> QED
      BY <1>2, <2>2, <3>1, <3>2
  <2>3. CASE c < i
    <3>1. i - c \in 1 .. Len(e) /\ i + d \in 1 .. Len(g) /\ ~(i + d <= Len(a))
      BY <1>1, <1>5, <1>7, <2>3
    <3>2. f[i] = e[i - c]
      BY <1>5, <2>3
    <3>5. g[i + d] = q[i + d - Len(a)]
      <4> DEFINE k == i + d
      <4>1. k \in 1 .. Len(g) /\ ~(k <= Len(a))
        BY <3>1
      <4> HIDE DEF k
      <4>2. g[k] = q[k - Len(a)]
        BY <1>6, <4>1
      <4> QED
        BY <4>2 DEF k
    <3>3. m + (i - c) = i + d - Len(a)
      BY <1>1
    <3>4. e[i - c] = q[m + (i - c)]
      BY <1>3, <3>1
    <3> QED
      BY <2>3, <3>2, <3>3, <3>4, <3>5
  <2> QED
    BY <1>1, <2>1, <2>2, <2>3
<1> DEFINE h(i) == IF i <= c THEN i ELSE i + d
<1>9. ASSUME NEW i \in 1 .. Len(f)
      PROVE  h(i) \in 1 .. Len(g) /\ f[i] = g[h(i)] /\ ~(c < h(i) /\ h(i) <= c + d)
  <2>1. f[i] = IF i <= c THEN g[i] ELSE g[i + d]
    BY <1>8
  <2>2. CASE i <= c
    BY <1>7, <2>1, <2>2
  <2>3. CASE ~(i <= c)
    BY <1>7, <2>1, <2>3
  <2> QED
    BY <2>2, <2>3
<1>10. ASSUME NEW j \in 1 .. Len(g), ~(c < j /\ j <= c + d)
       PROVE  \E i \in 1 .. Len(f) : h(i) = j
  <2>1. CASE j <= c
    <3>1. j \in 1 .. Len(f) /\ h(j) = j
      BY <1>7, <1>10, <2>1
    <3> QED
      BY <3>1
  <2>2. CASE c + d < j
    <3>1. j - d \in 1 .. Len(f) /\ h(j - d) = j
      BY <1>7, <2>2
    <3> QED
      BY <3>1
  <2> QED
    BY <1>7, <1>10, <2>1, <2>2
<1>11. \A i, j \in 1 .. Len(f) : h(i) = h(j) => i = j
  BY <1>7
<1>12. DOMAIN f = 1 .. Len(f) /\ DOMAIN g = 1 .. Len(g)
  BY <1>5, <1>6
<1> HIDE DEF h, c, d
<1>13. IsInjective(f)
  BY <1>i, <1>9, <1>11, <1>12 DEF IsInjective
<1>14. Slice(q, n, m) = {g[j] : j \in {j \in 1 .. Len(g) : c < j /\ j <= c + d}}
  <2>1. ASSUME NEW i \in n + 1 .. m
        PROVE  Len(a) + i \in 1 .. Len(g) /\ c < Len(a) + i /\ Len(a) + i <= c + d
               /\ g[Len(a) + i] = q[i]
    <3> DEFINE k == Len(a) + i
    <3>1. k \in 1 .. Len(g) /\ c < k /\ k <= c + d /\ ~(k <= Len(a)) /\ k - Len(a) = i
      BY <1>1, <1>6 DEF c, d
    <3> HIDE DEF k
    <3>2. g[k] = q[k - Len(a)]
      BY <1>6, <3>1
    <3> QED
      BY <3>1, <3>2 DEF k
  <2>2. ASSUME NEW j \in 1 .. Len(g), c < j, j <= c + d
        PROVE  j - Len(a) \in n + 1 .. m /\ g[j] = q[j - Len(a)]
    BY <1>1, <1>6, <2>2 DEF c, d
  <2> DEFINE T == {g[j] : j \in {j \in 1 .. Len(g) : c < j /\ j <= c + d}}
  <2>3. ASSUME NEW z \in Slice(q, n, m)
        PROVE  z \in T
    <3>1. PICK i \in n + 1 .. m : z = q[i]
      BY DEF Slice
    <3> QED
      BY <2>1, <3>1
  <2>4. ASSUME NEW z \in T
        PROVE  z \in Slice(q, n, m)
    <3>1. PICK j \in 1 .. Len(g) : c < j /\ j <= c + d /\ z = g[j]
      OBVIOUS
    <3>2. j - Len(a) \in n + 1 .. m /\ z = q[j - Len(a)]
      BY <2>2, <3>1
    <3> QED
      BY <3>2 DEF Slice
  <2> QED
    BY <2>3, <2>4
<1>15. /\ \A z : z \in Range(f) <=> \E i \in 1 .. Len(f) : f[i] = z
       /\ \A z : z \in Range(g) <=> \E i \in 1 .. Len(g) : g[i] = z
  BY <1>5, <1>6, RangeMembers
<1>16. Slice(q, n, m) \subseteq Range(g)
  BY <1>14, <1>15
<1>17. \A z : z \in Range(f) => z \in Range(g) /\ z \notin Slice(q, n, m)
  <2> SUFFICES ASSUME NEW i \in 1 .. Len(f)
               PROVE  f[i] \in Range(g) /\ f[i] \notin Slice(q, n, m)
    BY <1>15
  <2>1. h(i) \in 1 .. Len(g) /\ f[i] = g[h(i)] /\ ~(c < h(i) /\ h(i) <= c + d)
    BY <1>9
  <2>2. \A j \in 1 .. Len(g) : g[j] = g[h(i)] => j = h(i)
    BY <1>i, <1>12, <2>1 DEF IsInjective
  <2> QED
    BY <1>14, <1>15, <2>1, <2>2
<1>18. \A z : z \in Range(g) /\ z \notin Slice(q, n, m) => z \in Range(f)
  <2> SUFFICES ASSUME NEW j \in 1 .. Len(g), g[j] \notin Slice(q, n, m)
               PROVE  g[j] \in Range(f)
    BY <1>15
  <2>1. ~(c < j /\ j <= c + d)
    BY <1>14
  <2>2. PICK i \in 1 .. Len(f) : h(i) = j
    BY <1>10, <2>1
  <2> QED
    BY <1>9, <1>15, <2>2
<1>19. Range(f) = Range(g) \ Slice(q, n, m)
  BY <1>17, <1>18
<1> QED
  BY <1>5, <1>13, <1>16, <1>19 DEF f, g, x, y, e

\* What the type of the leaves says of one of them.
LEMMA LeafFacts ==
  ASSUME DataInv, NEW l \in Leaves
  PROVE  /\ leaf[l] \in LeafState
         /\ leaf[l].queue \in Seq(Spans) /\ leaf[l].sent \in Seq(Spans)
         /\ leaf[l].missed \subseteq Spans /\ leaf[l].lost \subseteq Spans
         /\ Len(leaf[l].queue) \in Nat /\ Len(leaf[l].sent) \in Nat
         /\ Waiting(l) \in Nat
         /\ Got(l) \in Seq(Spans)
<1>1. leaf[l] \in LeafState
  BY DEF DataInv
<1>2. /\ leaf[l].queue \in Seq(Spans) /\ leaf[l].sent \in Seq(Spans)
      /\ leaf[l].missed \subseteq Spans /\ leaf[l].lost \subseteq Spans
  BY <1>1 DEF LeafState
<1>3. Len(leaf[l].queue) \in Nat /\ Len(leaf[l].sent) \in Nat
  BY <1>2
<1>4. Waiting(l) \in Nat
  BY <1>3 DEF Waiting
<1>5. Got(l) \in Seq(Spans)
  BY <1>2, ConcatAt DEF Got
<1> QED
  BY <1>1, <1>2, <1>3, <1>4, <1>5

\* How far the flush of a reporter comes, and when it may end with a loss.
LEMMA WayFacts ==
  ASSUME DataInv, NEW l \in Leaves, NEW o \in Ways(l)
  PROVE  LET w == Waiting(l)
             m == Reached(l, o)
         IN /\ o.n \in Nat /\ m \in Nat /\ o.n <= m /\ m <= w
            /\ w = 0 => o.end = "done"
            /\ Succeeds(o.end) => m = w
            /\ m # o.n /\ ~shortage => ~Succeeds(o.end)
            /\ Mode(l, o) = "torn" => ~Succeeds(o.end) \/ leaf[l].mode = "torn"
<1> DEFINE w == Waiting(l)
           m == Reached(l, o)
<1>1. w \in Nat /\ o.n \in 0 .. w /\ o.end \in Ends /\ CanEnd(l, o)
  BY LeafFacts DEF Ways
<1> HIDE DEF w
<1>2. /\ o.end \in {"done", "large", "refused", "torn", "freed", "dropped", "renewed"}
      /\ o.end = "done" => w - o.n = 0
      /\ o.end \in {"large", "refused", "torn", "freed", "dropped", "renewed"} => w - o.n > 0
      /\ o.end \in {"dropped", "renewed"} => shortage
  <2>1. Capacity \in Nat
    BY CapacityAssumption
  <2>2. w - o.n \in Nat
    BY <1>1
  <2> QED
    BY <1>1, <2>1, <2>2 DEF CanEnd, Ends, w
<1>3. /\ o.end = "large" => m = o.n + 1
      /\ o.end \in {"dropped", "renewed"} => m = w
      /\ o.end \in {"done", "refused", "torn", "freed"} => m = o.n
  BY DEF Reached, w
<1>4. Mode(l, o) = "torn" => o.end = "torn" \/ leaf[l].mode = "torn"
  BY DEF Mode
<1> HIDE DEF m
<1>5. /\ o.n \in Nat /\ m \in Nat /\ o.n <= m /\ m <= w
      /\ w = 0 => o.end = "done"
  BY <1>1, <1>2, <1>3
<1>6. /\ Succeeds(o.end) => m = w
      /\ m # o.n /\ ~shortage => ~Succeeds(o.end)
  BY <1>1, <1>2, <1>3 DEF Succeeds
<1>7. o.end = "torn" => ~Succeeds(o.end)
  BY DEF Succeeds
<1> QED
  BY <1>4, <1>5, <1>6, <1>7 DEF w, m

\* The reporter after remote_reporter_flush, member by member.
LEMMA FlushLeafFields ==
  ASSUME DataInv, NEW l \in Leaves, NEW o \in Ways(l), Waiting(l) # 0
  PROVE  LET q == leaf[l].queue
             m == Reached(l, o)
             r == FlushLeaf(l, o)
         IN /\ Kind[l] = "remote" /\ Waiting(l) = Len(q)
            /\ r \in LeafState
            /\ r.sent = leaf[l].sent \o SubSeq(q, 1, o.n)
            /\ r.queue = SubSeq(q, m + 1, Len(q))
            /\ r.lost = leaf[l].lost \cup Slice(q, o.n, m)
            /\ r.missed = leaf[l].missed
            /\ r.mode = Mode(l, o)
            /\ r.failed = ~Succeeds(o.end)
            /\ r.refused = (leaf[l].refused \/ ~Succeeds(o.end))
<1> DEFINE q == leaf[l].queue
           m == Reached(l, o)
           r == FlushLeaf(l, o)
           a == leaf[l].sent \o SubSeq(q, 1, o.n)
           b == SubSeq(q, m + 1, Len(q))
           c == leaf[l].lost \cup Slice(q, o.n, m)
           arr == o.end \notin {"done", "dropped"}
           net == Network(l, o)
           md == Mode(l, o)
           fl == ~Succeeds(o.end)
           rf == leaf[l].refused \/ ~Succeeds(o.end)
<1>1. /\ leaf[l] \in LeafState /\ q \in Seq(Spans) /\ leaf[l].sent \in Seq(Spans)
      /\ leaf[l].lost \subseteq Spans /\ Len(q) \in Nat
  BY LeafFacts
<1>2. Kind[l] = "remote" /\ Waiting(l) = Len(q)
  BY DEF Waiting
<1>3. o.n \in Nat /\ m \in Nat /\ o.n <= m /\ m <= Len(q)
  BY <1>2, WayFacts
<1>4. r = [leaf[l] EXCEPT !.sent = a, !.queue = b, !.lost = c, !.array = arr,
             !.network = net, !.mode = md, !.failed = fl, !.refused = rf]
  BY <1>1 DEF FlushLeaf, LeafState
<1> HIDE DEF m
<1>5. a \in Seq(Spans)
  <2> DEFINE x == SubSeq(q, 1, o.n)
  <2>1. x \in Seq(Spans)
    BY <1>1, <1>3
  <2> HIDE DEF x
  <2>2. leaf[l].sent \o x \in Seq(Spans)
    BY <1>1, <2>1, ConcatAt
  <2> QED
    BY <2>2 DEF x
<1>6. b \in Seq(Spans)
  BY <1>1, <1>3
<1>7. c \in SUBSET Spans
  <2>1. \A i \in o.n + 1 .. m : q[i] \in Spans
    BY <1>1, <1>3
  <2> QED
    BY <1>1, <2>1 DEF Slice
<1>8. /\ arr \in BOOLEAN /\ fl \in BOOLEAN /\ rf \in BOOLEAN
      /\ net \in {"untried", "mute", "known"} /\ md \in {"sound", "torn", "spoiled"}
  BY <1>1 DEF Network, Mode, LeafState, Succeeds
<1> HIDE DEF r, a, b, c, arr, net, md, fl, rf
<1>9. r \in LeafState
  BY <1>1, <1>4, <1>5, <1>6, <1>7, <1>8, ZenonT(60) DEF LeafState
<1>10. /\ r.sent = a /\ r.queue = b /\ r.lost = c
       /\ r.missed = leaf[l].missed /\ r.mode = md /\ r.failed = fl /\ r.refused = rf
  BY <1>1, <1>4, Zenon DEF LeafState
<1> QED
  BY <1>2, <1>9, <1>10 DEF r, a, b, c, md, fl, rf, m

\* What a flush counts, and what its result says.
LEMMA FlushLeafFacts ==
  ASSUME DataInv, NEW l \in Leaves, NEW o \in Ways(l)
  PROVE  LET r == FlushLeaf(l, o)
         IN /\ r \in LeafState
            /\ r.missed = leaf[l].missed
            /\ o.n \in Nat
            /\ Len(r.sent) = Len(leaf[l].sent) + o.n
            /\ r.failed = ~Succeeds(o.end)
            /\ Kind[l] = "remote" /\ Len(r.queue) > 0 => r.failed
            /\ r.mode = "torn" => r.refused \/ leaf[l].mode = "torn"
            /\ leaf[l].refused => r.refused
            /\ r.lost # leaf[l].lost /\ ~shortage => r.refused
<1> DEFINE q == leaf[l].queue
           m == Reached(l, o)
           r == FlushLeaf(l, o)
<1>1. /\ leaf[l] \in LeafState /\ q \in Seq(Spans) /\ leaf[l].sent \in Seq(Spans)
      /\ Len(q) \in Nat /\ Len(leaf[l].sent) \in Nat
  BY LeafFacts
<1>2. /\ o.n \in Nat /\ m \in Nat /\ o.n <= m /\ m <= Waiting(l)
      /\ Waiting(l) = 0 => o.end = "done"
      /\ Succeeds(o.end) => m = Waiting(l)
      /\ m # o.n /\ ~shortage => ~Succeeds(o.end)
      /\ Mode(l, o) = "torn" => ~Succeeds(o.end) \/ leaf[l].mode = "torn"
  BY WayFacts
<1>3. CASE Waiting(l) = 0
  <2>1. r = [leaf[l] EXCEPT !.failed = FALSE]
    BY <1>3 DEF FlushLeaf
  <2>2. /\ r \in LeafState /\ r.missed = leaf[l].missed /\ r.sent = leaf[l].sent
        /\ r.queue = q /\ r.failed = FALSE /\ r.mode = leaf[l].mode
        /\ r.refused = leaf[l].refused /\ r.lost = leaf[l].lost
    BY <1>1, <2>1 DEF LeafState
  <2>3. o.n = 0 /\ Succeeds(o.end) /\ (Kind[l] = "remote" => Len(q) = 0)
    BY <1>2, <1>3 DEF Succeeds, Waiting
  <2> HIDE DEF r, q
  <2>4. Len(r.sent) = Len(leaf[l].sent) + o.n /\ (Kind[l] = "remote" => ~(Len(r.queue) > 0))
    BY <1>1, <2>2, <2>3
  <2>5. r.failed = ~Succeeds(o.end)
    BY <2>2, <2>3
  <2> QED
    BY <1>2, <2>2, <2>4, <2>5 DEF r
<1>4. CASE Waiting(l) # 0
  <2>1. /\ Waiting(l) = Len(q)
        /\ r \in LeafState
        /\ r.sent = leaf[l].sent \o SubSeq(q, 1, o.n)
        /\ r.queue = SubSeq(q, m + 1, Len(q))
        /\ r.lost = leaf[l].lost \cup Slice(q, o.n, m)
        /\ r.missed = leaf[l].missed
        /\ r.mode = Mode(l, o)
        /\ r.failed = ~Succeeds(o.end)
        /\ r.refused = (leaf[l].refused \/ ~Succeeds(o.end))
    BY <1>4, FlushLeafFields
  <2> HIDE DEF m, r, q
  <2>2. Len(r.sent) = Len(leaf[l].sent) + o.n
    <3> DEFINE x == SubSeq(q, 1, o.n)
    <3>1. x \in Seq(Spans) /\ Len(x) = o.n
      BY <1>1, <1>2, <2>1
    <3> HIDE DEF x
    <3>2. Len(leaf[l].sent \o x) = Len(leaf[l].sent) + Len(x)
      BY <1>1, <3>1, ConcatAt
    <3> QED
      BY <2>1, <3>1, <3>2 DEF x
  <2>3. Len(r.queue) > 0 => r.failed
    <3>1. Len(SubSeq(q, m + 1, Len(q))) = Len(q) - m
      BY <1>1, <1>2, <2>1
    <3>2. Len(r.queue) > 0 => m # Waiting(l)
      BY <1>1, <1>2, <2>1, <3>1
    <3>3. Len(r.queue) > 0 => ~Succeeds(o.end)
      BY <1>2, <3>2 DEF m
    <3> QED
      BY <2>1, <3>3
  <2>4. m = o.n => r.lost = leaf[l].lost
    <3>1. m = o.n => o.n + 1 .. m = {}
      BY <1>2
    <3> QED
      BY <2>1, <3>1 DEF Slice
  <2> QED
    BY <1>2, <2>1, <2>2, <2>3, <2>4 DEF r, m
<1> QED
  BY <1>3, <1>4

\* The record r is what becomes of the reporter l: of the spans T it should
\* have it has all but those it lost, each once.
Holds(r, l, T) ==
  /\ IsInjective(r.sent \o r.queue)
  /\ leaf[l].lost \subseteq r.lost
  /\ r.lost \subseteq leaf[l].lost \cup Range(Got(l))
  /\ Range(r.sent \o r.queue) = T \ r.lost

\* A flush sends, keeps or loses a span, and repeats none.
LEMMA FlushLeafSpans ==
  ASSUME DataInv, NEW l \in Leaves, NEW o \in Ways(l), IsInjective(Got(l)),
         Range(Got(l)) \cap leaf[l].lost = {}
  PROVE  Holds(FlushLeaf(l, o), l, Range(Got(l)))
<1> DEFINE q == leaf[l].queue
           a == leaf[l].sent
           m == Reached(l, o)
           n == o.n
           r == FlushLeaf(l, o)
<1>1. /\ leaf[l] \in LeafState /\ q \in Seq(Spans) /\ a \in Seq(Spans) /\ Len(q) \in Nat
  BY LeafFacts
<1>2. Got(l) = a \o q
  BY DEF Got
<1>3. CASE Waiting(l) = 0
  <2>1. r = [leaf[l] EXCEPT !.failed = FALSE]
    BY <1>3 DEF FlushLeaf
  <2>2. r.sent = a /\ r.queue = q /\ r.lost = leaf[l].lost
    BY <1>1, <2>1 DEF LeafState
  <2> HIDE DEF r
  <2>3. r.sent \o r.queue = Got(l)
    BY <1>2, <2>2
  <2>4. Holds(r, l, Range(Got(l)))
    BY <2>2, <2>3 DEF Holds
  <2> QED
    BY <2>4 DEF r
<1>4. CASE Waiting(l) # 0
  <2>1. /\ Waiting(l) = Len(q)
        /\ r.sent = a \o SubSeq(q, 1, n)
        /\ r.queue = SubSeq(q, m + 1, Len(q))
        /\ r.lost = leaf[l].lost \cup Slice(q, n, m)
    BY <1>4, FlushLeafFields
  <2>2. n \in 0 .. Len(q) /\ m \in n .. Len(q)
    <3>1. n \in Nat /\ m \in Nat /\ n <= m /\ m <= Len(q)
      BY <2>1, WayFacts
    <3> HIDE DEF m, n, q
    <3> QED
      BY <1>1, <3>1 DEF q
  <2> HIDE DEF m, n, q, a, r
  <2> DEFINE f == (a \o SubSeq(q, 1, n)) \o SubSeq(q, m + 1, Len(q))
  <2>3. /\ IsInjective(f)
        /\ Slice(q, n, m) \subseteq Range(a \o q)
        /\ Range(f) = Range(a \o q) \ Slice(q, n, m)
    <3>1. q \in Seq(Spans) /\ a \in Seq(Spans) /\ IsInjective(a \o q)
      BY <1>1, <1>2
    <3> QED
      BY <2>2, <3>1, CutOut
  <2>4. f = r.sent \o r.queue
    BY <2>1
  <2> HIDE DEF f
  <2>5. Holds(r, l, Range(Got(l)))
    BY <1>2, <2>1, <2>3, <2>4 DEF Holds
  <2> QED
    BY <2>5 DEF r
<1> QED
  BY <1>3, <1>4

\* The same for all children of a composite reporter at once.
LEMMA FlushAllFacts ==
  ASSUME DataInv, NEW o \in Outcomes
  PROVE  /\ FlushAll(o) \in [Leaves -> LeafState]
         /\ \A l \in Leaves \ Range(children) : FlushAll(o)[l] = leaf[l]
         /\ \A l \in Range(children) :
              /\ l \in Leaves
              /\ o[l] \in Ways(l)
              /\ FlushAll(o)[l] = FlushLeaf(l, o[l])
<1>1. Range(children) \subseteq Leaves
  BY RangeMembers DEF DataInv
<1>2. \A l \in Range(children) : o[l] \in Ways(l)
  BY DEF Outcomes
<1>3. ASSUME NEW l \in Leaves
      PROVE  (IF l \in Range(children) THEN FlushLeaf(l, o[l]) ELSE leaf[l]) \in LeafState
  BY <1>2, FlushLeafFacts DEF DataInv
<1> QED
  BY <1>1, <1>2, <1>3 DEF FlushAll

\* What a report changes in a reporter that keeps spans, member by member.
LEMMA ReportFields ==
  ASSUME DataInv, NEW l \in Leaves, NEW s \in Spans, NEW kept \in BOOLEAN,
         NEW k \in Cuts(l), Kind[l] # "null"
  PROVE  LET q == leaf[l].queue
             x == SubSeq(q, 1, k)
             r == ReportTo(l, s, kept, k)
         IN /\ k \in 0 .. Len(q)
            /\ r \in LeafState
            /\ r.queue = IF kept THEN Append(x, s) ELSE x
            /\ r.lost = leaf[l].lost \cup Slice(q, k, Len(q))
            /\ r.sent = leaf[l].sent
            /\ r.missed = leaf[l].missed
            /\ r.refused = leaf[l].refused
            /\ r.mode = "torn" => leaf[l].mode = "torn"
            /\ k < Len(q) => leaf[l].mode = "torn"
<1> DEFINE q == leaf[l].queue
           x == SubSeq(q, 1, k)
           b == IF kept THEN Append(x, s) ELSE x
           c == leaf[l].lost \cup Slice(q, k, Len(q))
           md == IF k < Len(q) THEN "spoiled"
                 ELSE IF leaf[l].mode = "torn" /\ kept THEN "sound" ELSE leaf[l].mode
           r == ReportTo(l, s, kept, k)
<1>1. /\ leaf[l] \in LeafState /\ q \in Seq(Spans) /\ Len(q) \in Nat
      /\ leaf[l].lost \subseteq Spans
  BY LeafFacts
<1>2. k \in 0 .. Len(q) /\ (k < Len(q) => leaf[l].mode = "torn")
  BY <1>1 DEF Cuts
<1>3. r = [leaf[l] EXCEPT !.queue = b, !.lost = c, !.mode = md]
  BY <1>1 DEF ReportTo, LeafState
<1>4. x \in Seq(Spans)
  BY <1>1, <1>2
<1> HIDE DEF x
<1>5. b \in Seq(Spans)
  BY <1>4
<1>6. c \in SUBSET Spans
  <2>1. \A i \in k + 1 .. Len(q) : q[i] \in Spans
    BY <1>1, <1>2
  <2> QED
    BY <1>1, <2>1 DEF Slice
<1>7. md \in {"sound", "torn", "spoiled"} /\ (md = "torn" => leaf[l].mode = "torn")
  BY <1>1 DEF LeafState
<1> HIDE DEF b, c, md, r
<1>8. /\ r \in LeafState /\ r.queue = b /\ r.lost = c /\ r.mode = md
      /\ r.sent = leaf[l].sent /\ r.missed = leaf[l].missed /\ r.refused = leaf[l].refused
  BY <1>1, <1>3, <1>5, <1>6, <1>7 DEF LeafState
<1> QED
  BY <1>2, <1>7, <1>8 DEF b, c, r, x

\* A report adds the span, if there is memory for a copy, and may lose spans
\* where a failed write left the array too long.
LEMMA ReportFacts ==
  ASSUME DataInv, NEW l \in Leaves, NEW s \in Spans, NEW kept \in BOOLEAN,
         NEW k \in Cuts(l)
  PROVE  LET r == ReportTo(l, s, kept, k)
             T == Range(Got(l)) \cup (IF kept /\ Kind[l] # "null" THEN {s} ELSE {})
         IN /\ r \in LeafState
            /\ r.missed = leaf[l].missed
            /\ r.sent = leaf[l].sent
            /\ r.refused = leaf[l].refused
            /\ r.mode = "torn" => leaf[l].mode = "torn"
            /\ r.lost # leaf[l].lost => leaf[l].mode = "torn"
            /\ /\ IsInjective(Got(l)) /\ Range(Got(l)) \cap leaf[l].lost = {}
               /\ s \notin Range(Got(l)) \cup leaf[l].lost
               => Holds(r, l, T)
<1> DEFINE q == leaf[l].queue
           a == leaf[l].sent
           x == SubSeq(q, 1, k)
           r == ReportTo(l, s, kept, k)
           lose == Slice(q, k, Len(q))
           T == Range(Got(l)) \cup (IF kept /\ Kind[l] # "null" THEN {s} ELSE {})
<1>1. leaf[l] \in LeafState /\ q \in Seq(Spans) /\ a \in Seq(Spans) /\ Len(q) \in Nat
  BY LeafFacts
<1>2. CASE Kind[l] = "null"
  <2>1. r = leaf[l] /\ T = Range(Got(l))
    BY <1>2 DEF ReportTo
  <2>2. r.sent \o r.queue = Got(l)
    BY <2>1 DEF Got
  <2> HIDE DEF r, T
  <2>3. IsInjective(Got(l)) /\ Range(Got(l)) \cap leaf[l].lost = {} => Holds(r, l, T)
    BY <2>1, <2>2 DEF Holds
  <2> QED
    BY <1>1, <2>1, <2>3 DEF r, T
<1>3. CASE Kind[l] # "null"
  <2>1. /\ k \in 0 .. Len(q)
        /\ r \in LeafState
        /\ r.queue = IF kept THEN Append(x, s) ELSE x
        /\ r.lost = leaf[l].lost \cup lose
        /\ r.sent = a
        /\ r.missed = leaf[l].missed
        /\ r.refused = leaf[l].refused
        /\ r.mode = "torn" => leaf[l].mode = "torn"
        /\ k < Len(q) => leaf[l].mode = "torn"
    BY <1>3, ReportFields
  <2>2. r.lost # leaf[l].lost => leaf[l].mode = "torn"
    <3>1. ~(k < Len(q)) => k + 1 .. Len(q) = {}
      BY <1>1, <2>1
    <3> QED
      BY <2>1, <3>1 DEF Slice
  <2>3. ASSUME IsInjective(Got(l)), Range(Got(l)) \cap leaf[l].lost = {},
               s \notin Range(Got(l)) \cup leaf[l].lost
        PROVE  Holds(r, l, T)
    <3>1. Got(l) = a \o q /\ T = Range(a \o q) \cup (IF kept THEN {s} ELSE {})
      BY <1>3 DEF Got
    <3> HIDE DEF T, r, a, q
    <3>2. x \in Seq(Spans) /\ SubSeq(q, Len(q) + 1, Len(q)) = <<>>
      BY <1>1, <2>1
    <3> DEFINE f == (a \o x) \o SubSeq(q, Len(q) + 1, Len(q))
    <3>3. /\ IsInjective(f)
          /\ lose \subseteq Range(a \o q)
          /\ Range(f) = Range(a \o q) \ lose
      <4>1. IsInjective(a \o q) /\ Len(q) \in k .. Len(q)
        BY <1>1, <2>1, <2>3, <3>1
      <4> QED
        BY <1>1, <2>1, <4>1, CutOut
    <3> HIDE DEF x, lose
    <3>4. a \o x \in Seq(Spans)
      BY <1>1, <3>2, ConcatAt
    <3>5. f = a \o x
      BY <3>2, <3>4
    <3> HIDE DEF f
    <3>6. CASE ~kept
      <4>1. r.sent \o r.queue = f
        BY <2>1, <3>5, <3>6
      <4> QED
        BY <2>1, <2>3, <3>1, <3>3, <3>6, <4>1 DEF Holds
    <3>7. CASE kept
      <4>1. r.sent \o r.queue = Append(f, s)
        <5>1. a \o Append(x, s) = Append(a \o x, s)
          BY <1>1, <3>2, AppendToSecond
        <5> QED
          BY <2>1, <3>5, <3>7, <5>1
      <4>2. s \notin Range(f) /\ f \in Seq(Spans)
        BY <2>3, <3>1, <3>3, <3>4, <3>5
      <4>3. IsInjective(Append(f, s)) /\ Range(Append(f, s)) = Range(f) \cup {s}
        BY <3>3, <4>2, InjectiveAppend, RangeAppend
      <4> QED
        BY <2>1, <2>3, <3>1, <3>3, <3>7, <4>1, <4>3 DEF Holds
    <3> QED
      BY <3>6, <3>7
  <2> QED
    BY <2>1, <2>2, <2>3
<1> QED
  BY <1>2, <1>3

\* The same for all children of a composite reporter; those in kept have the
\* memory for a copy.
LEMMA ReportAllFacts ==
  ASSUME DataInv, NEW s \in Spans, NEW kept \in SUBSET Range(children), NEW cut,
         \A l \in Range(children) : cut[l] \in Cuts(l), NEW l \in Leaves
  PROVE  LET r == ReportAll(s, kept, cut)[l]
             T == Range(Got(l)) \cup (IF l \in kept /\ Kind[l] # "null" THEN {s} ELSE {})
         IN /\ r \in LeafState
            /\ r.missed = leaf[l].missed
            /\ r.sent = leaf[l].sent
            /\ r.refused = leaf[l].refused
            /\ r.mode = "torn" => leaf[l].mode = "torn"
            /\ r.lost # leaf[l].lost => leaf[l].mode = "torn"
            /\ l \notin Range(children) => r = leaf[l]
            /\ /\ IsInjective(Got(l)) /\ Range(Got(l)) \cap leaf[l].lost = {}
               /\ s \notin Range(Got(l)) \cup leaf[l].lost
               => Holds(r, l, T)
<1> DEFINE r == ReportAll(s, kept, cut)[l]
           T == Range(Got(l)) \cup (IF l \in kept /\ Kind[l] # "null" THEN {s} ELSE {})
<1>1. r = IF l \in Range(children) THEN ReportTo(l, s, l \in kept, cut[l]) ELSE leaf[l]
  BY DEF ReportAll
<1>2. CASE l \in Range(children)
  <2> DEFINE b == l \in kept
             k == cut[l]
  <2>1. r = ReportTo(l, s, b, k) /\ b \in BOOLEAN /\ k \in Cuts(l)
    BY <1>1, <1>2
  <2>2. T = Range(Got(l)) \cup (IF b /\ Kind[l] # "null" THEN {s} ELSE {})
    OBVIOUS
  <2> HIDE DEF r, T, b, k
  <2> QED
    BY <1>2, <2>1, <2>2, ReportFacts DEF r, T
<1>3. CASE l \notin Range(children)
  <2>1. r = leaf[l] /\ T = Range(Got(l)) /\ leaf[l] \in LeafState
    BY <1>1, <1>3, LeafFacts
  <2>2. r.sent \o r.queue = Got(l)
    BY <2>1 DEF Got
  <2> HIDE DEF r, T
  <2>3. IsInjective(Got(l)) /\ Range(Got(l)) \cap leaf[l].lost = {} => Holds(r, l, T)
    BY <2>1, <2>2 DEF Holds
  <2> QED
    BY <2>1, <2>3 DEF r, T
<1> QED
  BY <1>2, <1>3

\* What of this does not depend on what the reporter has.
LEMMA ReportAllFrame ==
  ASSUME DataInv, NEW s \in Spans, NEW kept \in SUBSET Range(children), NEW cut,
         \A l \in Range(children) : cut[l] \in Cuts(l), leaf' = ReportAll(s, kept, cut),
         NEW l \in Leaves
  PROVE  /\ leaf'[l].missed = leaf[l].missed
         /\ leaf'[l].sent = leaf[l].sent
         /\ leaf'[l].refused = leaf[l].refused
         /\ leaf'[l].mode = "torn" => leaf[l].mode = "torn"
         /\ leaf'[l].lost # leaf[l].lost => leaf[l].mode = "torn"
         /\ l \notin Range(children) => leaf'[l] = leaf[l]
<1> DEFINE r == ReportAll(s, kept, cut)[l]
           T == Range(Got(l)) \cup (IF l \in kept /\ Kind[l] # "null" THEN {s} ELSE {})
<1>1. /\ r \in LeafState
      /\ r.missed = leaf[l].missed
      /\ r.sent = leaf[l].sent
      /\ r.refused = leaf[l].refused
      /\ r.mode = "torn" => leaf[l].mode = "torn"
      /\ r.lost # leaf[l].lost => leaf[l].mode = "torn"
      /\ l \notin Range(children) => r = leaf[l]
      /\ /\ IsInjective(Got(l)) /\ Range(Got(l)) \cap leaf[l].lost = {}
         /\ s \notin Range(Got(l)) \cup leaf[l].lost
         => Holds(r, l, T)
  BY ReportAllFacts
<1>2. leaf'[l] = r
  OBVIOUS
<1> HIDE DEF r, T
<1> QED
  BY <1>1, <1>2

\* The parts of the step that destroys the reporter, without the reporters.
LEMMA DestroyReporterParts ==
  DestroyReporter =>
    /\ stage = "free_reporter" /\ Goto("free_tags")
    /\ Uncounted = {} /\ Misplaced = {} /\ Sound
    /\ Freed(Disposed \cup (allocated \cap {"reporter"}))
    /\ member' = member \ {"reporter"}
    /\ allocated' = allocated \ {"reporter"}
    /\ children' = IF args.reporter = "composite" THEN <<>> ELSE children
    /\ UNCHANGED <<args, shortage, made, by_name, counters, count, span>>
BY Zenon DEF DestroyReporter

LEMMA DataStep == ASSUME IndInv, [Next]_vars PROVE DataInv'
<1>1. DataInv /\ Default \in Leaves
  BY LeafAssumption DEF IndInv
<1>2. args' = args
  BY ArgsFrame
<1>3. children' \in Seq(Leaves)
  <2>1. ASSUME NEW l \in Leaves, CompositeAdd(l)
        PROVE  children' \in Seq(Leaves)
    BY <1>1, <2>1 DEF CompositeAdd, DataInv
  <2>2. ASSUME InitReporter
        PROVE  children' \in Seq(Leaves)
    BY <1>1, <2>2 DEF InitReporter, DataInv
  <2>3. ASSUME DestroyReporter
        PROVE  children' \in Seq(Leaves)
    <3>1. <<>> \in Seq(Leaves)
      OBVIOUS
    <3>2. children' \in {<<>>, children}
      BY <2>3, DestroyReporterParts
    <3> QED
      BY <1>1, <3>1, <3>2 DEF DataInv
  <2> QED
    BY <1>1, <2>1, <2>2, <2>3, ChildFrame DEF DataInv
<1>4. leaf' \in [Leaves -> LeafState]
  <2>1. ASSUME NEW l \in Leaves, CompositeAdd(l)
        PROVE  leaf' \in [Leaves -> LeafState]
    <3>1. leaf' = [leaf EXCEPT ![l] = [leaf[l] EXCEPT !.missed = Reported]]
      BY <2>1 DEF CompositeAdd
    <3>2. Reported \in SUBSET Spans
      BY DEF Reported
    <3>3. [leaf[l] EXCEPT !.missed = Reported] \in LeafState
      BY <1>1, <3>2, LeafFacts DEF LeafState
    <3> QED
      BY <1>1, <3>1, <3>3 DEF DataInv
  <2>2. ASSUME NEW s \in Spans, Finish(s)
        PROVE  leaf' \in [Leaves -> LeafState]
    <3>1. CASE span[s] # "sampled"
      BY <1>1, <2>2, <3>1 DEF Finish, DataInv
    <3>2. CASE span[s] = "sampled"
      <4>1. PICK kept \in SUBSET Range(children),
                 cut \in [Range(children) -> 0 .. Cardinality(Spans)] :
               /\ \A l \in Range(children) : cut[l] \in Cuts(l)
               /\ leaf' = ReportAll(s, kept, cut)
        BY <2>2, <3>2 DEF Finish
      <4>2. \A l \in Leaves : ReportAll(s, kept, cut)[l] \in LeafState
        BY <1>1, <4>1, ReportAllFacts
      <4>3. ReportAll(s, kept, cut) = [l \in Leaves |-> ReportAll(s, kept, cut)[l]]
        BY DEF ReportAll
      <4> QED
        BY <4>1, <4>2, <4>3
    <3> QED
      BY <3>1, <3>2
  <2>3. ASSUME Flush \/ Close
        PROVE  leaf' \in [Leaves -> LeafState]
    BY <1>1, <2>3, FlushAllFacts DEF Flush, Close
  <2>4. ASSUME DestroyReporter
        PROVE  leaf' \in [Leaves -> LeafState]
    <3>1. PICK n \in Outcomes :
            leaf' = [l \in Leaves |->
              IF l \in Range(children)
              THEN [FlushAll(n)[l] EXCEPT !.queue = <<>>, !.array = FALSE] ELSE leaf[l]]
      BY <2>4 DEF DestroyReporter
    <3>2. ASSUME NEW r \in LeafState
          PROVE  [r EXCEPT !.queue = <<>>, !.array = FALSE] \in LeafState
      <4>1. <<>> \in Seq(Spans) /\ FALSE \in BOOLEAN
        OBVIOUS
      <4> QED
        BY <4>1 DEF LeafState
    <3>3. \A l \in Leaves : FlushAll(n)[l] \in LeafState /\ leaf[l] \in LeafState
      BY <1>1, FlushAllFacts DEF DataInv
    <3> QED
      BY <3>1, <3>2, <3>3
  <2> QED
    BY <1>1, <2>1, <2>2, <2>3, <2>4, LeafFrame DEF DataInv
<1> QED
  BY <1>1, <1>2, <1>3, <1>4 DEF DataInv

---------------------------------------------------------------------------
(* The members and who frees them *)

LEMMA OwnFacts ==
  ASSUME DataInv
  PROVE  /\ Own("service_name") /\ Own("tags")
         /\ Own("metrics") <=> args.metrics = "none"
         /\ Own("sampler") <=> args.sampler = "none"
         /\ Own("reporter") <=> args.reporter = "none"
         /\ \A p : args' = args => (Own(p)' <=> Own(p))
BY DEF DataInv, Own

\* Which stage a step of init or destroy comes from and goes to, and what it
\* does to the members: the calls in between do nothing to them.
LEMMA MemberStep == ASSUME IndInv, [Next]_vars PROVE MemberInv'
<1> DEFINE Idle == UNCHANGED <<stage, args, member, allocated, made>>
<1>1. MemberInv /\ member \subseteq Parts /\ stage \in Stages /\ allocated \subseteq member
  BY DEF IndInv, TypeOK
<1>2. /\ Own("service_name") /\ Own("tags")
      /\ Own("metrics") <=> args.metrics = "none"
      /\ Own("sampler") <=> args.sampler = "none"
      /\ Own("reporter") <=> args.reporter = "none"
      /\ \A p : Own(p)' <=> Own(p)
  BY ArgsFrame, OwnFacts DEF IndInv
<1> USE DEF MemberInv, Complete, Gone, Parts, AfterTags, AfterReporter,
            AfterSampler, AfterMetrics, AfterName, Goto
<1>3. CASE UNCHANGED vars \/ Calls
  <2>1. Idle
    BY <1>3, CallFrame DEF vars, tracer
  <2> QED
    BY <1>1, <1>2, <2>1
<1>4. CASE InitServiceName
  BY <1>1, <1>2, <1>4 DEF InitServiceName
<1>5. CASE InitMetrics
  BY <1>1, <1>2, <1>5 DEF InitMetrics
<1>6. CASE InitMetricsFails
  BY <1>1, <1>2, <1>6 DEF InitMetricsFails
<1>7. CASE InitSampler
  BY <1>1, <1>2, <1>7 DEF InitSampler, Set
<1>8. CASE InitReporter
  BY <1>1, <1>2, <1>8 DEF InitReporter, Set
<1>9. CASE InitTags
  BY <1>1, <1>2, <1>9 DEF InitTags
<1>10. CASE InitTagsFails
  BY <1>1, <1>2, <1>10 DEF InitTagsFails, tracer
<1>11. CASE InitFails
  BY <1>1, <1>2, <1>11 DEF InitFails, tracer
<1>12. CASE Destroy \/ Close
  BY <1>1, <1>2, <1>12 DEF Destroy, Close, tracer
<1>13. CASE FreeServiceName
  BY <1>1, <1>2, <1>13 DEF FreeServiceName
<1>14. CASE DestroyMetrics
  BY <1>1, <1>2, <1>14 DEF DestroyMetrics
<1>15. CASE DestroySampler
  BY <1>1, <1>2, <1>15 DEF DestroySampler
<1>16. CASE DestroyReporter
  BY <1>1, <1>2, <1>16, DestroyReporterParts
<1>17. CASE DestroyTags
  BY <1>1, <1>2, <1>17 DEF DestroyTags
<1>18. CASE Release
  BY <1>1, <1>2, <1>18 DEF Release
<1> QED
  BY <1>3, <1>4, <1>5, <1>6, <1>7, <1>8, <1>9, <1>10, <1>11, <1>12, <1>13, <1>14,
     <1>15, <1>16, <1>17, <1>18, NextSplit DEF Steps

\* How often each kind of block was freed, after a step that frees some.
LEMMA FreedFacts ==
  ASSUME NEW B, Freed(B)
  PROVE  \A b \in Blocks : /\ b \in B => frees'[b] = frees[b] + 1
                           /\ frees[b] \in Nat /\ b \notin B => frees'[b] = frees[b]
BY DEF Freed

LEMMA FreeStep == ASSUME IndInv, [Next]_vars PROVE FreeInv'
<1>1. /\ FreeInv /\ MemberInv /\ member \subseteq Parts /\ stage \in Stages
      /\ allocated \subseteq member /\ frees \in [Blocks -> Nat]
  BY DEF IndInv, TypeOK
<1>2. /\ Own("service_name") /\ Own("tags")
      /\ Own("metrics") <=> args.metrics = "none"
      /\ Own("sampler") <=> args.sampler = "none"
      /\ Own("reporter") <=> args.reporter = "none"
      /\ \A p : Own(p)' <=> Own(p)
      /\ args' = args
  BY ArgsFrame, OwnFacts DEF IndInv
<1>3. /\ Blocks = Parts \cup {"counters"} \cup Leaves
      /\ \A l \in Leaves : l \notin Parts /\ l # "counters"
      /\ \A b \in Blocks : frees[b] \in Nat
  BY <1>1, LeafAssumption DEF Blocks
<1> USE DEF FreeInv, Complete, Gone, AfterTags, AfterReporter,
            AfterSampler, AfterMetrics, AfterName, Goto
<1>4. CASE UNCHANGED vars \/ Calls
  <2>1. UNCHANGED <<stage, args, member, made, frees, counters>>
    BY <1>4, CallFrame DEF vars, tracer
  <2>2. stage \in AfterReporter => children' = children
    <3>1. ASSUME NEW l \in Leaves, CompositeAdd(l)
          PROVE  stage \notin AfterReporter
      BY <3>1 DEF CompositeAdd, MayAdd
    <3>2. ~InitReporter /\ ~DestroyReporter
      <4>1. InitReporter => stage' # stage
        BY DEF InitReporter
      <4>2. DestroyReporter => stage' # stage
        BY DestroyReporterParts
      <4> QED
        BY <2>1, <4>1, <4>2
    <3> QED
      BY <3>1, <3>2, ChildFrame
  <2> QED
    BY <1>1, <2>1, <2>2
<1>5. CASE InitServiceName
  BY <1>1, <1>2, <1>5 DEF InitServiceName, MemberInv, Parts
<1>6. CASE InitMetrics
  BY <1>1, <1>2, <1>6 DEF InitMetrics, MemberInv, Parts
<1>7. CASE InitMetricsFails
  <2>1. \A b \in Blocks : b # "counters" => frees'[b] = frees[b]
    BY <1>1, <1>7 DEF InitMetricsFails
  <2>2. frees'["counters"] \in {0, 1}
    BY <1>1, <1>3, <1>7 DEF InitMetricsFails
  <2>3. "counters" \notin Parts /\ Parts \subseteq Blocks /\ Leaves \subseteq Blocks
    BY <1>3 DEF Parts
  <2>4. stage = "metrics" /\ stage' = "close" /\ "reporter" \notin member'
    BY <1>1, <1>7 DEF InitMetricsFails, MemberInv
  <2> QED
    BY <1>1, <1>2, <1>3, <2>1, <2>2, <2>3, <2>4
<1>8. CASE InitSampler \/ InitReporter
  BY <1>1, <1>2, <1>8 DEF InitSampler, InitReporter, Set, MemberInv, Parts
<1>9. CASE InitTags
  BY <1>1, <1>2, <1>9 DEF InitTags, MemberInv, Parts
<1>10. CASE InitTagsFails \/ InitFails
  BY <1>1, <1>2, <1>10 DEF InitTagsFails, InitFails, tracer, MemberInv, Parts
<1>11. CASE Destroy \/ Close
  BY <1>1, <1>2, <1>11 DEF Destroy, Close, tracer, MemberInv, Parts
<1>12. CASE FreeServiceName
  <2>1. \A b \in Blocks : frees'[b] = IF b = "service_name" THEN frees[b] + 1 ELSE frees[b]
    BY <1>3, <1>12, FreedFacts DEF FreeServiceName
  <2> QED
    BY <1>1, <1>2, <1>3, <1>12, <2>1 DEF FreeServiceName, MemberInv, Parts
<1>13. CASE DestroyMetrics
  <2>1. \A b \in Blocks : frees'[b] =
          IF b = "counters" \/ (b = "metrics" /\ b \in allocated) THEN frees[b] + 1 ELSE frees[b]
    <3> DEFINE B == {"counters"} \cup (allocated \cap {"metrics"})
    <3>1. Freed(B)
      BY <1>13 DEF DestroyMetrics
    <3>2. \A b \in Blocks : b \in B <=> b = "counters" \/ (b = "metrics" /\ b \in allocated)
      OBVIOUS
    <3> HIDE DEF B
    <3> QED
      BY <1>3, <3>1, <3>2, FreedFacts
  <2>2. /\ stage = "free_metrics" /\ stage' = "free_sampler" /\ counters' = FALSE
        /\ member' = member \ {"metrics"} /\ made' = made /\ children' = children
    BY <1>13 DEF DestroyMetrics, reporting
  <2>3. "metrics" \in allocated <=> "metrics" \in made
    BY <1>1, <1>2, <2>2 DEF MemberInv, Parts
  <2>4. \A p \in Parts : p \in Blocks /\ p # "counters"
    BY <1>3 DEF Parts
  <2>5. \A p \in Parts : frees'[p] = IF Complete' /\ stage' \in Gone(p)' /\ p \in made'
                                     THEN 1 ELSE 0
    BY <1>1, <1>3, <2>1, <2>2, <2>3, <2>4 DEF Parts
  <2>6. frees'["counters"] = 1
    <3>1. "counters" \in Blocks
      BY <1>3
    <3>2. frees["counters"] = 0
      BY <1>1, <2>2
    <3> QED
      BY <2>1, <3>1, <3>2
  <2>7. \A l \in Leaves : frees'[l] = frees[l] /\ frees[l] = 0
    BY <1>1, <1>3, <2>1, <2>2 DEF Parts
  <2> QED
    BY <1>2, <2>2, <2>5, <2>6, <2>7
<1>14. CASE DestroySampler
  <2>1. \A b \in Blocks : frees'[b] =
          IF b = "sampler" /\ b \in allocated THEN frees[b] + 1 ELSE frees[b]
    BY <1>3, <1>14, FreedFacts DEF DestroySampler
  <2> QED
    BY <1>1, <1>2, <1>3, <1>14, <2>1 DEF DestroySampler, MemberInv, Parts
<1>15. CASE DestroyReporter
  <2>1. \A b \in Blocks : frees'[b] =
          IF b \in Disposed \/ (b = "reporter" /\ b \in allocated) THEN frees[b] + 1 ELSE frees[b]
    <3> DEFINE B == Disposed \cup (allocated \cap {"reporter"})
    <3>1. Freed(B)
      BY <1>15, DestroyReporterParts
    <3>2. \A b \in Blocks : b \in B <=> b \in Disposed \/ (b = "reporter" /\ b \in allocated)
      OBVIOUS
    <3> HIDE DEF B
    <3> QED
      BY <1>3, <3>1, <3>2, FreedFacts
  <2>2. Disposed \subseteq Leaves \cap Heap /\ (Disposed # {} => args.reporter = "composite")
    BY <1>15, DestroyReporterParts DEF Misplaced, Disposed, IndInv, TypeOK
  <2> QED
    BY <1>1, <1>2, <1>3, <1>15, <2>1, <2>2, DestroyReporterParts DEF MemberInv, Parts
<1>16. CASE DestroyTags
  <2>1. \A b \in Blocks : frees'[b] =
          IF b = "tags" /\ b \in member THEN frees[b] + 1 ELSE frees[b]
    BY <1>3, <1>16, FreedFacts DEF DestroyTags
  <2> QED
    BY <1>1, <1>2, <1>3, <1>16, <2>1 DEF DestroyTags, MemberInv, Parts, reporting
<1>17. CASE Release
  <2>1. ~counters /\ Disposed = {}
    <3>1. Range(<<>>) = {}
      BY DEF Range
    <3> QED
      BY <1>1, <1>17, <3>1 DEF Release, Disposed
  <2>2. \A b \in Blocks : frees'[b] = frees[b]
    BY <1>3, <1>17, <2>1, FreedFacts DEF Release
  <2> QED
    BY <1>1, <1>2, <1>3, <1>17, <2>2 DEF Release, MemberInv, Parts, reporting
<1> QED
  BY <1>4, <1>5, <1>6, <1>7, <1>8, <1>9, <1>10, <1>11, <1>12, <1>13, <1>14,
     <1>15, <1>16, <1>17, NextSplit DEF Steps

---------------------------------------------------------------------------
(* Sums *)

\* The places Total counts: what they are, and that they are finitely many.
Places(L, f) == UNION {{l} \X (1 .. f[l]) : l \in L}

LEMMA PlacesFacts ==
  ASSUME NEW L, IsFiniteSet(L), NEW f, \A l \in L : f[l] \in Nat
  PROVE  /\ \A z : z \in Places(L, f) <=> \E l \in L : \E i \in 1 .. f[l] : z = <<l, i>>
         /\ IsFiniteSet(Places(L, f))
         /\ Total(L, f) = Cardinality(Places(L, f))
         /\ Total(L, f) \in Nat
<1> DEFINE C == {{l} \X (1 .. f[l]) : l \in L}
           g == [l \in L |-> {l} \X (1 .. f[l])]
<1>1. g \in Surjection(L, C)
  BY DEF Surjection
<1>2. IsFiniteSet(C)
  <2> HIDE DEF C, g
  <2> QED
    BY <1>1, FS_Surjection
<1>3. \A T \in C : IsFiniteSet(T)
  <2> SUFFICES ASSUME NEW l \in L
               PROVE  IsFiniteSet({l} \X (1 .. f[l]))
    OBVIOUS
  <2>1. IsFiniteSet({l})
    BY FS_Singleton
  <2>2. IsFiniteSet(1 .. f[l])
    BY FS_Interval
  <2> QED
    BY <2>1, <2>2, FS_Product
<1>4. IsFiniteSet(UNION C)
  <2> HIDE DEF C
  <2> QED
    BY <1>2, <1>3, FS_UNION
<1>5. \A z : z \in Places(L, f) <=> \E l \in L : \E i \in 1 .. f[l] : z = <<l, i>>
  BY DEF Places
<1>6. IsFiniteSet(Places(L, f))
  BY <1>4 DEF Places
<1>7. Total(L, f) = Cardinality(Places(L, f))
  BY DEF Total, Places
<1> QED
  BY <1>5, <1>6, <1>7, FS_CardinalityType

\* What the sum depends on.
LEMMA TotalSame ==
  ASSUME NEW L, IsFiniteSet(L), NEW M \in SUBSET L, NEW f, NEW g,
         \A l \in L : f[l] \in Nat,
         \A l \in M : g[l] = f[l],
         \A l \in L \ M : f[l] = 0
  PROVE  Total(M, g) = Total(L, f)
<1>1. IsFiniteSet(M)
  BY FS_Subset
<1>2. \A l \in M : g[l] \in Nat
  OBVIOUS
<1>3. \A z : z \in Places(M, g) => z \in Places(L, f)
  BY <1>1, <1>2, PlacesFacts
<1>4. ASSUME NEW z, z \in Places(L, f)
      PROVE  z \in Places(M, g)
  <2>1. PICK l \in L : \E i \in 1 .. f[l] : z = <<l, i>>
    BY <1>4, PlacesFacts
  <2>2. f[l] # 0
    BY <2>1
  <2>3. l \in M /\ g[l] = f[l]
    BY <2>2
  <2> QED
    BY <1>1, <1>2, <2>1, <2>3, PlacesFacts
<1>5. Places(M, g) = Places(L, f)
  BY <1>3, <1>4
<1> QED
  BY <1>1, <1>2, <1>5, PlacesFacts

\* The sum of sums.
LEMMA TotalAdd ==
  ASSUME NEW L, IsFiniteSet(L), NEW f, NEW g, NEW h,
         \A l \in L : f[l] \in Nat /\ g[l] \in Nat /\ h[l] = f[l] + g[l]
  PROVE  Total(L, h) = Total(L, f) + Total(L, g)
<1> DEFINE A == Places(L, f)
           G == Places(L, g)
           m == [z \in G |-> <<z[1], f[z[1]] + z[2]>>]
           B == {m[z] : z \in G}
<1>1. \A l \in L : h[l] \in Nat
  OBVIOUS
<1>2. \A z \in G : \E l \in L : \E i \in 1 .. g[l] : z = <<l, i>> /\ m[z] = <<l, f[l] + i>>
  BY PlacesFacts
<1>3. \A l \in L : \A i \in 1 .. g[l] : <<l, i>> \in G /\ m[<<l, i>>] = <<l, f[l] + i>>
  BY PlacesFacts
<1>4. m \in Bijection(G, B)
  <2>1. m \in [G -> B] /\ \A t \in B : \E z \in G : m[z] = t
    OBVIOUS
  <2>2. ASSUME NEW y \in G, NEW z \in G, m[y] = m[z]
        PROVE  y = z
    <3>1. PICK k \in L : \E i \in 1 .. g[k] : y = <<k, i>> /\ m[y] = <<k, f[k] + i>>
      BY <1>2
    <3>2. PICK i \in 1 .. g[k] : y = <<k, i>> /\ m[y] = <<k, f[k] + i>>
      BY <3>1
    <3>3. PICK l \in L : \E j \in 1 .. g[l] : z = <<l, j>> /\ m[z] = <<l, f[l] + j>>
      BY <1>2
    <3>4. PICK j \in 1 .. g[l] : z = <<l, j>> /\ m[z] = <<l, f[l] + j>>
      BY <3>3
    <3> HIDE DEF m
    <3>5. k = l /\ f[k] + i = f[l] + j
      BY <2>2, <3>2, <3>4
    <3>6. i = j
      BY <3>5
    <3> QED
      BY <3>2, <3>4, <3>5, <3>6
  <2>3. DOMAIN m = G
    OBVIOUS
  <2> HIDE DEF m, B, G
  <2> QED
    BY <2>1, <2>2, <2>3 DEF Bijection, Injection, Surjection, IsInjective
<1>5. IsFiniteSet(A) /\ IsFiniteSet(G)
  BY PlacesFacts
<1>6. IsFiniteSet(B) /\ Cardinality(B) = Cardinality(G)
  <2>1. ExistsBijection(G, B)
    <3> HIDE DEF m, B, G
    <3> QED
      BY <1>4 DEF ExistsBijection
  <2> HIDE DEF m, B, G
  <2> QED
    BY <1>5, <2>1, FS_Bijection
<1>7. \A z : z \in B <=> \E l \in L : \E i \in 1 .. g[l] : z = <<l, f[l] + i>>
  <2>1. \A z : z \in B => \E l \in L : \E i \in 1 .. g[l] : z = <<l, f[l] + i>>
    BY <1>2
  <2>2. \A l \in L : \A i \in 1 .. g[l] : <<l, f[l] + i>> \in B
    <3> SUFFICES ASSUME NEW l \in L, NEW i \in 1 .. g[l]
                 PROVE  <<l, f[l] + i>> \in B
      OBVIOUS
    <3>1. <<l, i>> \in G /\ m[<<l, i>>] = <<l, f[l] + i>>
      BY <1>3
    <3> HIDE DEF m, G
    <3> QED
      BY <3>1
  <2> HIDE DEF B
  <2> QED
    BY <2>1, <2>2
<1>8. \A z : z \in A <=> \E l \in L : \E i \in 1 .. f[l] : z = <<l, i>>
  BY PlacesFacts
<1>9. \A z : z \in Places(L, h) <=> \E l \in L : \E i \in 1 .. h[l] : z = <<l, i>>
  BY <1>1, PlacesFacts
<1> HIDE DEF A, B, G, m
<1>10. A \cap B = {}
  <2> SUFFICES ASSUME NEW z \in A, z \in B
               PROVE  FALSE
    OBVIOUS
  <2>1. PICK l \in L : \E i \in 1 .. f[l] : z = <<l, i>>
    BY <1>8
  <2>2. PICK i \in 1 .. f[l] : z = <<l, i>>
    BY <2>1
  <2>3. PICK k \in L : \E j \in 1 .. g[k] : z = <<k, f[k] + j>>
    BY <1>7
  <2>4. PICK j \in 1 .. g[k] : z = <<k, f[k] + j>>
    BY <2>3
  <2>5. k = l /\ i = f[l] + j
    BY <2>2, <2>4
  <2> QED
    BY <2>5
<1>11. Places(L, h) = A \cup B
  <2>1. ASSUME NEW l \in L, NEW i \in 1 .. h[l]
        PROVE  <<l, i>> \in A \cup B
    <3>1. CASE i <= f[l]
      BY <1>8, <3>1
    <3>2. CASE ~(i <= f[l])
      <4>1. i - f[l] \in 1 .. g[l] /\ f[l] + (i - f[l]) = i
        BY <3>2
      <4> QED
        BY <1>7, <4>1
    <3> QED
      BY <3>1, <3>2
  <2>2. ASSUME NEW l \in L, NEW i \in 1 .. f[l]
        PROVE  <<l, i>> \in Places(L, h)
    <3>1. i \in 1 .. h[l]
      OBVIOUS
    <3> QED
      BY <1>9, <3>1
  <2>3. ASSUME NEW l \in L, NEW i \in 1 .. g[l]
        PROVE  <<l, f[l] + i>> \in Places(L, h)
    <3>1. f[l] + i \in 1 .. h[l]
      OBVIOUS
    <3> QED
      BY <1>9, <3>1
  <2>4. \A z : z \in Places(L, h) => z \in A \cup B
    BY <1>9, <2>1
  <2>5. \A z : z \in A \cup B => z \in Places(L, h)
    BY <1>7, <1>8, <2>2, <2>3
  <2> QED
    BY <2>4, <2>5
<1>12. Cardinality(A \cup B) = Cardinality(A) + Cardinality(B)
  <2>1. Cardinality(A \cup B) = Cardinality(A) + Cardinality(B) - Cardinality(A \cap B)
    BY <1>5, <1>6, FS_Union
  <2>2. Cardinality(A \cap B) = 0
    BY <1>10, FS_EmptySet
  <2>3. Cardinality(A) \in Nat /\ Cardinality(B) \in Nat
    BY <1>5, <1>6, FS_CardinalityType
  <2> QED
    BY <2>1, <2>2, <2>3
<1>13. Total(L, f) = Cardinality(A) /\ Total(L, g) = Cardinality(G)
  BY PlacesFacts DEF A, G
<1>14. Total(L, h) = Cardinality(Places(L, h))
  BY <1>1, PlacesFacts
<1> QED
  BY <1>6, <1>11, <1>12, <1>13, <1>14

---------------------------------------------------------------------------
(* Types and counters *)

\* What a flush adds to the counter of successes: what the reporters that
\* share it send.
LEMMA CountSentFacts ==
  ASSUME DataInv, NEW o \in Outcomes
  PROVE  LET M == {l \in Range(children) : Shares(l)}
             n == [l \in Range(children) |-> o[l].n]
         IN Total(M, n) \in Nat
<1> DEFINE M == {l \in Range(children) : Shares(l)}
           n == [l \in Range(children) |-> o[l].n]
<1>1. M \subseteq Leaves
  BY FlushAllFacts
<1>2. \A l \in M : n[l] \in Nat
  <2> SUFFICES ASSUME NEW l \in M
               PROVE  n[l] \in Nat
    OBVIOUS
  <2>1. l \in Leaves /\ o[l] \in Ways(l) /\ n[l] = o[l].n
    BY FlushAllFacts
  <2> QED
    BY <2>1, FlushLeafFacts
<1>3. IsFiniteSet(M)
  BY <1>1, LeafAssumption, FS_Subset
<1> HIDE DEF M, n
<1>4. Total(M, n) \in Nat
  BY <1>2, <1>3, PlacesFacts
<1> QED
  BY <1>4 DEF M, n

LEMMA CountTypeStep ==
  ASSUME IndInv, [Next]_vars
  PROVE  count' \in [{"started", "finished", "sampled", "traces_sampled",
                      "traces_not_sampled", "success"} -> Nat]
<1> DEFINE CT == [{"started", "finished", "sampled", "traces_sampled",
                   "traces_not_sampled", "success"} -> Nat]
<1>1. count \in CT /\ DataInv
  BY DEF IndInv, TypeOK
<1>2. ASSUME NEW k \in Nat
      PROVE  Bump(k) \in Nat
  BY DEF Bump
<1>3. ASSUME NEW s \in Spans, NEW sampled \in BOOLEAN, Start(s, sampled)
      PROVE  count' \in CT
  BY <1>1, <1>2, <1>3 DEF Start, CountNewSpan
<1>4. ASSUME NEW s \in Spans, Finish(s)
      PROVE  count' \in CT
  BY <1>1, <1>2, <1>4 DEF Finish
<1>5. ASSUME Flush \/ Close
      PROVE  count' \in CT
  <2>1. PICK o \in Outcomes : count' = CountSent(o)
    BY <1>5 DEF Flush, Close
  <2> DEFINE add == Total({l \in Range(children) : Shares(l)},
                          [l \in Range(children) |-> o[l].n])
             k == IF args.metrics = "null" THEN 0 ELSE count.success + add
  <2>2. add \in Nat
    BY <1>1, CountSentFacts
  <2>3. count' = [count EXCEPT !.success = k]
    BY <2>1 DEF CountSent
  <2> HIDE DEF add
  <2>4. k \in Nat
    BY <1>1, <2>2
  <2> HIDE DEF k
  <2> QED
    BY <1>1, <2>3, <2>4
<1> QED
  BY <1>1, <1>3, <1>4, <1>5, CountFrame

LEMMA TypeStep == ASSUME IndInv, [Next]_vars PROVE TypeOK'
<1>1. TypeOK /\ DataInv /\ MemberInv
  BY DEF IndInv
<1>2. Range(children') \subseteq Leaves
  BY DataStep, RangeMembers DEF DataInv
<1>3. span' \in [Spans -> {"new", "none", "sampled", "unsampled", "reported", "finished"}]
  <2>1. ASSUME NEW s \in Spans, NEW sampled \in BOOLEAN, Start(s, sampled)
        PROVE  span' \in [Spans -> {"new", "none", "sampled", "unsampled", "reported",
                                    "finished"}]
    BY <1>1, <2>1 DEF Start, TypeOK
  <2>2. ASSUME NEW s \in Spans, StartFails(s)
        PROVE  span' \in [Spans -> {"new", "none", "sampled", "unsampled", "reported",
                                    "finished"}]
    BY <1>1, <2>2 DEF StartFails, TypeOK
  <2>3. ASSUME NEW s \in Spans, Finish(s)
        PROVE  span' \in [Spans -> {"new", "none", "sampled", "unsampled", "reported",
                                    "finished"}]
    BY <1>1, <2>3 DEF Finish, TypeOK
  <2> QED
    BY <1>1, <2>1, <2>2, <2>3, SpanFrame DEF TypeOK
<1>4. shortage' \in BOOLEAN
  BY <1>1, ArgsFrame DEF TypeOK
<1> DEFINE Rest == /\ stage \in Stages
                   /\ crashed \in {"no", "unset_flush", "destroyed_twice", "reference",
                                   "null_name", "no_array", "null_reporter",
                                   "static_freed", "null_counter", "process_freed",
                                   "span_gone"}
                   /\ member \subseteq Parts
                   /\ allocated \subseteq member
                   /\ made \subseteq Blocks
                   /\ frees \in [Blocks -> Nat]
                   /\ by_name \in BOOLEAN /\ counters \in BOOLEAN
                   /\ flushed \in {"none", "ok", "failed"}
<1>5. Rest
  BY <1>1 DEF TypeOK
<1>6. Rest'
  <2>1. CASE Calls
    <3>1. by_name' \in BOOLEAN
      BY <1>5, <2>1 DEF Calls, CompositeAdd, CompositeAddFails, Start, StartFails,
         StartCrash, Finish, FinishCrash, UpdateSampler, Flush, InitReporterCrash,
         CloseCrash, DestroyMetricsCrash, DestroyReporterCrash, FlushCrash, Crash
    <3>2. /\ crashed' \in {"no", "unset_flush", "destroyed_twice", "reference",
                            "null_name", "no_array", "null_reporter",
                            "static_freed", "null_counter", "process_freed",
                                   "span_gone"}
          /\ flushed' \in {"none", "ok", "failed"}
      BY <1>5, <2>1 DEF Calls, CompositeAdd, CompositeAddFails, Start, StartFails,
         StartCrash, Finish, FinishCrash, UpdateSampler, Flush, InitReporterCrash,
         CloseCrash, DestroyMetricsCrash, DestroyReporterCrash, FlushCrash, Crash, Goto
    <3> QED
      BY <1>5, <2>1, <3>1, <3>2, CallFrame DEF tracer
  <2>2. CASE InitServiceName \/ InitTags
    BY <1>5, <2>2 DEF InitServiceName, InitTags, Goto, Blocks, Parts, Stages
  <2>7. CASE InitMetrics
    BY <1>5, <2>7 DEF InitMetrics, Goto, Blocks, Parts, Stages
  <2>8. CASE InitMetricsFails
    <3>1. "counters" \in Blocks
      BY DEF Blocks
    <3>2. frees' \in [Blocks -> Nat]
      BY <1>5, <2>8, <3>1 DEF InitMetricsFails
    <3> QED
      BY <1>5, <2>8, <3>2 DEF InitMetricsFails, Goto, Blocks, Parts, Stages
  <2>9. CASE InitSampler \/ InitReporter
    BY <1>5, <2>9 DEF InitSampler, InitReporter, Set, Goto, Blocks, Parts, Stages
  <2>10. CASE InitTagsFails \/ InitFails
    BY <1>5, <2>10 DEF InitTagsFails, InitFails, Goto, tracer, Stages
  <2>3. CASE Destroy \/ Close
    BY <1>5, <2>3 DEF Destroy, Close, Goto, tracer, Stages
  <2>4. CASE FreeServiceName \/ DestroyMetrics \/ DestroySampler \/ DestroyTags \/ Release
    <3>1. frees' \in [Blocks -> Nat]
      BY <1>5, <2>4 DEF FreeServiceName, DestroyMetrics, DestroySampler, DestroyTags,
         Release, Freed
    <3>2. allocated \cap {"service_name", "tags"} = {}
      BY <1>1 DEF MemberInv
    <3> QED
      BY <1>5, <2>4, <3>1, <3>2 DEF FreeServiceName, DestroyMetrics, DestroySampler,
         DestroyTags, Release, Goto, Stages
  <2>5. CASE DestroyReporter
    <3>1. frees' \in [Blocks -> Nat]
      BY <1>5, <2>5, DestroyReporterParts DEF Freed
    <3> QED
      BY <1>5, <2>5, <3>1, DestroyReporterParts DEF Goto, Stages
  <2>6. CASE UNCHANGED vars
    BY <1>5, <2>6 DEF vars, tracer
  <2> QED
    BY <2>1, <2>2, <2>3, <2>4, <2>5, <2>6, <2>7, <2>8, <2>9, <2>10, NextSplit DEF Steps
<1> QED
  BY <1>2, <1>3, <1>4, <1>6, CountTypeStep DEF TypeOK

\* A span that changes from a state in S to one in T leaves the spans of the
\* one set and joins those of the other.
LEMMA EverStep ==
  ASSUME NEW s \in Spans, NEW t, NEW S,
         DOMAIN span = Spans, span' = [span EXCEPT ![s] = t], span[s] \notin S
  PROVE  /\ t \in S => /\ Cardinality(Ever(S)') = Cardinality(Ever(S)) + 1
         /\ t \notin S => Ever(S)' = Ever(S)
         /\ Cardinality(Ever(S)) \in Nat
<1>1. IsFiniteSet(Ever(S)) /\ s \notin Ever(S)
  BY SpansAssumption, FS_Subset DEF Ever
<1>2. t \in S => Ever(S)' = Ever(S) \cup {s}
  BY DEF Ever
<1>3. t \notin S => Ever(S)' = Ever(S)
  BY DEF Ever
<1> QED
  BY <1>1, <1>2, <1>3, FS_AddElement, FS_CardinalityType, ZenonT(60)

\* The counters of spans count them.
LEMMA SpansCounted ==
  ASSUME IndInv, [Next]_vars, args.metrics # "null"
  PROVE  LET begun == {"sampled", "unsampled", "reported", "finished"}
             ended == {"reported", "finished"}
         IN /\ count'.started = Cardinality(Ever(begun)')
            /\ count'.started = count'.traces_sampled + count'.traces_not_sampled
            /\ count'.finished = Cardinality(Ever(ended)')
<1> DEFINE begun == {"sampled", "unsampled", "reported", "finished"}
           ended == {"reported", "finished"}
           ST == {"new", "none", "sampled", "unsampled", "reported", "finished"}
           Good == /\ count'.started = Cardinality(Ever(begun)')
                   /\ count'.started = count'.traces_sampled + count'.traces_not_sampled
                   /\ count'.finished = Cardinality(Ever(ended)')
<1>1. /\ count.started = Cardinality(Ever(begun))
      /\ count.started = count.traces_sampled + count.traces_not_sampled
      /\ count.finished = Cardinality(Ever(ended))
  BY DEF IndInv, CountInv, CountersAccount
<1>2. /\ count \in [{"started", "finished", "sampled", "traces_sampled",
                      "traces_not_sampled", "success"} -> Nat]
      /\ span \in [Spans -> ST] /\ DOMAIN span = Spans /\ DataInv
  BY DEF IndInv, TypeOK
<1>3. \A k : Bump(k) = k + 1
  BY DEF Bump
<1>4. ASSUME NEW s \in Spans, NEW sampled \in BOOLEAN, Start(s, sampled)
      PROVE  Good
  <2> DEFINE t == IF sampled THEN "sampled" ELSE "unsampled"
  <2>1. span' = [span EXCEPT ![s] = t] /\ span[s] = "new"
    BY <1>4 DEF Start
  <2>2. t \in begun /\ t \notin ended /\ span[s] \notin begun /\ span[s] \notin ended
    BY <2>1
  <2>3. /\ count'.started = count.started + 1 /\ count'.finished = count.finished
        /\ count'.traces_sampled + count'.traces_not_sampled
             = count.traces_sampled + count.traces_not_sampled + 1
    BY <1>2, <1>3, <1>4 DEF Start, CountNewSpan
  <2> HIDE DEF t, begun, ended
  <2>4. /\ Cardinality(Ever(begun)') = Cardinality(Ever(begun)) + 1
        /\ Ever(ended)' = Ever(ended)
    BY <1>2, <2>1, <2>2, EverStep
  <2> QED
    BY <1>1, <2>3, <2>4
<1>5. ASSUME NEW s \in Spans, StartFails(s)
      PROVE  Good
  <2>1. span' = [span EXCEPT ![s] = "none"] /\ span[s] = "new" /\ count' = count
    BY <1>5 DEF StartFails
  <2>2. "none" \notin begun \cup ended /\ span[s] \notin begun /\ span[s] \notin ended
    BY <2>1
  <2> HIDE DEF begun, ended
  <2>3. Ever(begun)' = Ever(begun) /\ Ever(ended)' = Ever(ended)
    BY <1>2, <2>1, <2>2, EverStep
  <2> QED
    BY <1>1, <2>1, <2>3
<1>6. ASSUME NEW s \in Spans, Finish(s)
      PROVE  Good
  <2>1. PICK t \in ended : span' = [span EXCEPT ![s] = t]
    BY <1>6 DEF Finish
  <2>2. span[s] \in {"sampled", "unsampled"}
    BY <1>6 DEF Finish
  <2>3. /\ count'.started = count.started /\ count'.finished = count.finished + 1
        /\ count'.traces_sampled = count.traces_sampled
        /\ count'.traces_not_sampled = count.traces_not_sampled
    BY <1>2, <1>3, <1>6 DEF Finish
  <2>4. Ever(begun)' = Ever(begun)
    BY <1>2, <2>1, <2>2 DEF Ever
  <2>5. span[s] \notin ended
    BY <2>2
  <2> HIDE DEF ended, begun
  <2>6. Cardinality(Ever(ended)') = Cardinality(Ever(ended)) + 1
    BY <1>2, <2>1, <2>5, EverStep
  <2> QED
    BY <1>1, <2>3, <2>4, <2>6
<1>7. ASSUME UNCHANGED span, Flush \/ Close \/ UNCHANGED count
      PROVE  Good
  <2>1. Ever(begun)' = Ever(begun) /\ Ever(ended)' = Ever(ended)
    BY <1>7 DEF Ever
  <2>2. CASE UNCHANGED count
    BY <1>1, <2>1, <2>2
  <2>3. CASE Flush \/ Close
    <3>1. PICK o \in Outcomes : count' = CountSent(o)
      BY <2>3 DEF Flush, Close
    <3>2. PICK k : count' = [count EXCEPT !.success = k]
      BY <3>1 DEF CountSent
    <3>3. /\ count'.started = count.started /\ count'.finished = count.finished
          /\ count'.traces_sampled = count.traces_sampled
          /\ count'.traces_not_sampled = count.traces_not_sampled
      BY <1>2, <3>2
    <3> QED
      BY <1>1, <2>1, <3>3
  <2> QED
    BY <1>7, <2>2, <2>3
<1> QED
  BY <1>4, <1>5, <1>6, <1>7, SpanFrame, CountFrame

\* The counter of successes counts what the reporters that share it have
\* sent, until their destroy flushes once more.
LEMMA SuccessCounted ==
  ASSUME IndInv, [Next]_vars, args.metrics # "null", stage' \notin AfterReporter
  PROVE  count'.success = Sent'
<1> DEFINE L == {l \in Leaves : Shares(l)}
           f == [l \in Leaves |-> Len(leaf[l].sent)]
           h == [l \in Leaves |-> Len(leaf'[l].sent)]
<1>1. /\ count \in [{"started", "finished", "sampled", "traces_sampled",
                      "traces_not_sampled", "success"} -> Nat]
      /\ DataInv /\ stage \in Stages
  BY DEF IndInv, TypeOK
<1>2. args' = args /\ \A l : Shares(l)' <=> Shares(l)
  BY ArgsFrame DEF Shares
<1>3. Sent = Total(L, f) /\ Sent' = Total(L, h)
  BY <1>2 DEF Sent
<1>4. IsFiniteSet(L) /\ L \subseteq Leaves /\ \A l \in L : f[l] \in Nat
  BY <1>1, LeafAssumption, FS_Subset, LeafFacts
<1>5. stage \notin AfterReporter => count.success = Total(L, f)
  BY <1>3 DEF IndInv, CountInv
<1>6. CASE Flush \/ Close
  <2>1. PICK o \in Outcomes : leaf' = FlushAll(o) /\ count' = CountSent(o)
    BY <1>6 DEF Flush, Close
  <2> DEFINE M == {l \in Range(children) : Shares(l)}
             n == [l \in Range(children) |-> o[l].n]
             g == [l \in Leaves |-> IF l \in Range(children) THEN n[l] ELSE 0]
  <2>2. M \in SUBSET L
    BY <1>1, FlushAllFacts
  <2>3. ASSUME NEW l \in L
        PROVE  g[l] \in Nat /\ h[l] = f[l] + g[l]
    <3>1. CASE l \in Range(children)
      <4>1. l \in Leaves /\ o[l] \in Ways(l) /\ leaf'[l] = FlushLeaf(l, o[l])
        BY <1>1, <2>1, <3>1, FlushAllFacts
      <4>2. o[l].n \in Nat /\ Len(leaf'[l].sent) = Len(leaf[l].sent) + o[l].n
        BY <1>1, <4>1, FlushLeafFacts
      <4>3. n[l] = o[l].n
        BY <3>1
      <4> QED
        BY <3>1, <4>1, <4>2, <4>3
    <3>2. CASE l \notin Range(children)
      <4>1. leaf'[l] = leaf[l]
        BY <1>1, <2>1, <3>2, FlushAllFacts
      <4> QED
        BY <1>4, <3>2, <4>1
    <3> QED
      BY <3>1, <3>2
  <2>4. /\ \A l \in M : n[l] = g[l]
        /\ \A l \in L \ M : g[l] = 0
    BY <2>2
  <2>5. stage \in {"live", "close"}
    BY <1>6 DEF Flush, Close
  <2>6. count'.success = count.success + Total(M, n)
    BY <1>1, <2>1 DEF CountSent
  <2> HIDE DEF L, f, h, g, M, n
  <2>7. Total(M, n) = Total(L, g)
    BY <1>4, <2>2, <2>3, <2>4, TotalSame
  <2>8. Total(L, h) = Total(L, f) + Total(L, g)
    BY <1>4, <2>3, TotalAdd
  <2> QED
    BY <1>3, <1>5, <2>5, <2>6, <2>7, <2>8 DEF AfterReporter, AfterTags
<1>7. CASE ~(Flush \/ Close)
  <2>1. count'.success = count.success
    <3>1. ASSUME NEW s \in Spans, NEW sampled \in BOOLEAN, Start(s, sampled)
          PROVE  count'.success = count.success
      BY <1>1, <3>1 DEF Start, CountNewSpan
    <3>2. ASSUME NEW s \in Spans, Finish(s)
          PROVE  count'.success = count.success
      BY <1>1, <3>2 DEF Finish
    <3> QED
      BY <1>7, <3>1, <3>2, CountFrame
  <2>2. ~DestroyReporter
    BY DestroyReporterParts DEF Goto, AfterReporter
  <2>3. \A l \in Leaves : leaf'[l].sent = leaf[l].sent
    <3>1. ASSUME NEW k \in Leaves, CompositeAdd(k)
          PROVE  \A l \in Leaves : leaf'[l].sent = leaf[l].sent
      BY <1>1, <3>1 DEF CompositeAdd, DataInv, LeafState
    <3>2. ASSUME NEW s \in Spans, Finish(s)
          PROVE  \A l \in Leaves : leaf'[l].sent = leaf[l].sent
      <4>1. CASE span[s] # "sampled"
        BY <3>2, <4>1 DEF Finish
      <4>2. CASE span[s] = "sampled"
        <5>1. PICK kept \in SUBSET Range(children),
                   cut \in [Range(children) -> 0 .. Cardinality(Spans)] :
                 /\ \A l \in Range(children) : cut[l] \in Cuts(l)
                 /\ leaf' = ReportAll(s, kept, cut)
          BY <3>2, <4>2 DEF Finish
        <5> QED
          BY <1>1, <5>1, ReportAllFrame
      <4> QED
        BY <4>1, <4>2
    <3> QED
      BY <1>7, <2>2, <3>1, <3>2, LeafFrame
  <2>4. h = f
    BY <2>3
  <2>5. stage \notin AfterReporter
    <3>1. CASE Calls \/ UNCHANGED vars
      BY <3>1, CallFrame DEF vars
    <3>2. CASE Steps
      <4>1. stage \in AfterReporter => DestroyTags \/ Release
        BY <2>2, <3>2 DEF Steps, InitServiceName, InitMetrics, InitMetricsFails, InitSampler,
           InitReporter, InitTags, InitTagsFails, InitFails, Destroy, Close, FreeServiceName,
           DestroyMetrics, DestroySampler, AfterReporter, AfterTags
      <4> QED
        BY <4>1 DEF DestroyTags, Release, Goto, AfterReporter, AfterTags
    <3> QED
      BY <3>1, <3>2, NextSplit
  <2> QED
    BY <1>3, <1>5, <2>1, <2>4, <2>5
<1> QED
  BY <1>6, <1>7

LEMMA CountStep == ASSUME IndInv, [Next]_vars PROVE CountInv'
<1>1. args' = args
  BY ArgsFrame
<1>2. stage' \in {"live", "close", "free_name"} => stage' \notin AfterReporter
  BY DEF AfterReporter, AfterTags
<1> QED
  BY <1>1, <1>2, SpansCounted, SuccessCounted DEF CountInv, CountersAccount

---------------------------------------------------------------------------
(* What the reporters get *)

\* A tracer grows from setup to live, and does not come back to it.
LEMMA GrowingFrame ==
  ASSUME IndInv, [Next]_vars, stage' \in Growing
  PROVE  /\ stage \in Growing
         /\ stage' # "live" => stage # "live"
         /\ stage' \in Early => stage \in Early
         /\ ~Close /\ ~DestroyReporter
<1>1. CASE Calls \/ UNCHANGED vars
  <2>1. stage' = stage
    BY <1>1, CallFrame DEF vars
  <2> QED
    BY <2>1, DestroyReporterParts DEF Close, Goto, Growing
<1>2. CASE Steps
  <2>1. ~DestroyReporter /\ ~Close
    BY DestroyReporterParts DEF Close, Goto, Growing
  <2> QED
    BY <1>2, <2>1 DEF Steps, InitServiceName, InitMetrics, InitMetricsFails, InitSampler,
       InitReporter, InitTags, InitTagsFails, InitFails, Destroy, FreeServiceName,
       DestroyMetrics, DestroySampler, DestroyTags, Release, Set, Goto, Growing, Early
<1> QED
  BY <1>1, <1>2, NextSplit

LEMMA PassedStep == ASSUME IndInv, [Next]_vars PROVE PassedInv'
<1> SUFFICES ASSUME stage' \in Growing
             PROVE  Passed'
  BY DEF PassedInv, Growing
<1>1. /\ stage \in Growing /\ (stage' # "live" => stage # "live")
      /\ stage' \in Early => stage \in Early
      /\ ~Close /\ ~DestroyReporter
  BY GrowingFrame
<1>2. Passed /\ DataInv /\ span \in [Spans -> {"new", "none", "sampled", "unsampled",
                                               "reported", "finished"}]
  BY <1>1 DEF IndInv, PassedInv, TypeOK
<1>3. shortage' = shortage /\ args' = args
  BY ArgsFrame
<1>4. Range(children) \subseteq Leaves
  BY <1>2, RangeMembers DEF DataInv
<1>5. ASSUME NEW k \in Leaves, CompositeAdd(k)
      PROVE  Passed'
  <2>1. /\ k \notin Range(children) /\ children' = Append(children, k)
        /\ leaf' = [leaf EXCEPT ![k].missed = Reported] /\ span' = span
        /\ stage' = stage
    BY <1>5 DEF CompositeAdd, MayAdd, Goto
  <2>2. Range(children') = Range(children) \cup {k} /\ Reported' = Reported
    BY <1>2, <2>1, RangeAppend DEF DataInv, Reported
  <2>3. /\ \A l \in Leaves : leaf'[l].sent = leaf[l].sent /\ leaf'[l].queue = leaf[l].queue
        /\ \A l \in Leaves : leaf'[l].missed = IF l = k THEN Reported ELSE leaf[l].missed
        /\ \A l \in Leaves : /\ leaf'[l].lost = leaf[l].lost /\ leaf'[l].mode = leaf[l].mode
                             /\ leaf'[l].refused = leaf[l].refused
    BY <1>2, <2>1 DEF DataInv, LeafState
  <2>4. \A l \in Leaves : Got(l)' = Got(l)
    BY <2>3 DEF Got
  <2>5. /\ Got(k) = <<>> /\ Range(<<>>) = {}
        /\ leaf[k].lost = {} /\ leaf[k].mode = "sound"
    BY <1>2, <2>1 DEF Passed, Range
  <2>6. ASSUME NEW l \in Leaves
        PROVE  /\ leaf'[l].missed \subseteq Reported'
               /\ leaf'[l].lost \subseteq Reported'
               /\ Range(Got(l)') \subseteq Reported' \ leaf'[l].lost
               /\ IsInjective(Got(l)')
               /\ l \notin Range(children') =>
                    Got(l)' = <<>> /\ leaf'[l].lost = {} /\ leaf'[l].mode = "sound"
    BY <1>2, <2>2, <2>3, <2>4 DEF Passed
  <2>7. ASSUME ~shortage, NEW l \in Range(children')
        PROVE  /\ Kind[l] # "null" => Range(Got(l)') = Due(l)'
               /\ leaf'[l].lost # {} \/ leaf'[l].mode = "torn" => leaf'[l].refused
    <3>1. CASE l = k
      BY <2>2, <2>3, <2>4, <2>5, <3>1 DEF Due
    <3>2. CASE l # k
      <4>1. l \in Range(children) /\ l \in Leaves
        BY <1>4, <2>2, <2>7, <3>2
      <4>2. Due(l)' = Due(l)
        BY <2>2, <2>3, <3>2, <4>1 DEF Due
      <4> QED
        BY <1>2, <2>3, <2>4, <2>7, <4>1, <4>2 DEF Passed
    <3> QED
      BY <3>1, <3>2
  <2>8. args.reporter # "none"
    BY <1>5 DEF CompositeAdd, MayAdd
  <2> QED
    BY <1>2, <1>3, <2>1, <2>6, <2>7, <2>8 DEF Passed
<1>6. ASSUME InitReporter
      PROVE  Passed'
  <2>1. /\ span' = span /\ leaf' = leaf /\ stage # "live"
        /\ children' \in {children, <<Default>>}
    BY <1>6 DEF InitReporter
  <2>2. Reported = {} /\ Reported' = {}
    BY <1>2, <2>1 DEF Passed, Reported
  <2>3. \A l \in Leaves : Got(l)' = Got(l) /\ Range(Got(l)) = {} /\ Got(l) = <<>>
    <3> SUFFICES ASSUME NEW l \in Leaves
                 PROVE  Range(Got(l)) = {} /\ Got(l) = <<>>
      BY <2>1 DEF Got
    <3>1. Range(Got(l)) = {} /\ Got(l) \in Seq(Spans)
      BY <1>2, <2>2, LeafFacts DEF Passed
    <3>2. ~(1 \in 1 .. Len(Got(l)))
      BY <3>1, RangeMembers
    <3> QED
      BY <3>1, <3>2
  <2>4. Range(children') \subseteq Leaves
    BY DataStep, RangeMembers DEF DataInv
  <2>5. \A l \in Leaves : leaf[l].missed = {} /\ leaf[l].lost = {}
    BY <1>2, <2>2 DEF Passed
  <2>6. children = <<>> \/ children' = children
    BY <1>2, <1>6 DEF InitReporter, Passed, Early
  <2>7. ASSUME NEW l \in Leaves
        PROVE  /\ leaf'[l].missed \subseteq Reported'
               /\ leaf'[l].lost \subseteq Reported'
               /\ Range(Got(l)') \subseteq Reported' \ leaf'[l].lost
               /\ IsInjective(Got(l)')
               /\ l \notin Range(children') =>
                    Got(l)' = <<>> /\ leaf'[l].lost = {} /\ leaf'[l].mode = "sound"
    <3>1. Range(<<>>) = {}
      BY DEF Range
    <3> QED
      BY <1>2, <2>1, <2>2, <2>3, <2>5, <2>6, <3>1 DEF Passed
  <2>8. ASSUME ~shortage, NEW l \in Range(children')
        PROVE  /\ Kind[l] # "null" => Range(Got(l)') = Due(l)'
               /\ leaf'[l].lost # {} \/ leaf'[l].mode = "torn" => leaf'[l].refused
    <3>1. Due(l)' = {}
      BY <2>2 DEF Due
    <3>2. l \in Leaves
      BY <2>4
    <3> QED
      BY <1>2, <2>1, <2>3, <2>5, <2>8, <3>1, <3>2 DEF Passed
  <2>9. stage' \notin Early
    BY <1>6 DEF InitReporter, Goto, Early
  <2> QED
    BY <1>1, <1>2, <1>3, <2>1, <2>7, <2>8, <2>9 DEF Passed
<1>7. ASSUME NEW s \in Spans, Finish(s)
      PROVE  Passed'
  <2>1. /\ children' = children /\ stage = "live" /\ stage' = "live"
        /\ span[s] \in {"sampled", "unsampled"}
    BY <1>7 DEF Finish, Goto
  <2>2. CASE span[s] = "unsampled"
    <3>1. leaf' = leaf /\ span' = [span EXCEPT ![s] = "finished"]
      BY <1>7, <2>2 DEF Finish
    <3>2. Reported' = Reported
      BY <1>2, <2>2, <3>1 DEF Reported
    <3>3. \A l \in Leaves : Got(l)' = Got(l) /\ Due(l)' = Due(l)
      BY <3>1, <3>2 DEF Got, Due
    <3> QED
      BY <1>2, <1>3, <1>4, <2>1, <3>1, <3>2, <3>3 DEF Passed, Early
  <2>3. CASE span[s] = "sampled"
    <3>1. PICK kept \in SUBSET Range(children),
               cut \in [Range(children) -> 0 .. Cardinality(Spans)] :
            /\ ~shortage => kept = Range(children)
            /\ \A l \in Range(children) : cut[l] \in Cuts(l)
            /\ leaf' = ReportAll(s, kept, cut)
      BY <1>7, <2>3 DEF Finish
    <3>2. span' = [span EXCEPT ![s] = "reported"]
      BY <1>7, <2>3 DEF Finish
    <3>3. Reported' = Reported \cup {s} /\ s \notin Reported
      BY <1>2, <2>3, <3>2 DEF Reported
    <3>4. ASSUME NEW l \in Leaves
          PROVE  LET T == Range(Got(l)) \cup
                          (IF l \in kept /\ Kind[l] # "null" THEN {s} ELSE {})
                 IN /\ leaf'[l].missed = leaf[l].missed
                    /\ leaf'[l].refused = leaf[l].refused
                    /\ leaf'[l].mode = "torn" => leaf[l].mode = "torn"
                    /\ leaf'[l].lost # leaf[l].lost => leaf[l].mode = "torn"
                    /\ l \notin Range(children) => leaf'[l] = leaf[l]
                    /\ IsInjective(Got(l)')
                    /\ leaf[l].lost \subseteq leaf'[l].lost
                    /\ leaf'[l].lost \subseteq leaf[l].lost \cup Range(Got(l))
                    /\ Range(Got(l)') = T \ leaf'[l].lost
      <4> DEFINE T == Range(Got(l)) \cup (IF l \in kept /\ Kind[l] # "null" THEN {s} ELSE {})
      <4>1. /\ IsInjective(Got(l)) /\ Range(Got(l)) \cap leaf[l].lost = {}
            /\ s \notin Range(Got(l)) \cup leaf[l].lost
        BY <1>2, <3>3 DEF Passed
      <4>2. Holds(leaf'[l], l, T)
        BY <1>2, <3>1, <4>1, ReportAllFacts
      <4>3. /\ leaf'[l].missed = leaf[l].missed
            /\ leaf'[l].refused = leaf[l].refused
            /\ leaf'[l].mode = "torn" => leaf[l].mode = "torn"
            /\ leaf'[l].lost # leaf[l].lost => leaf[l].mode = "torn"
            /\ l \notin Range(children) => leaf'[l] = leaf[l]
        BY <1>2, <3>1, ReportAllFrame
      <4>4. Got(l)' = leaf'[l].sent \o leaf'[l].queue
        BY DEF Got
      <4> QED
        BY <4>2, <4>3, <4>4 DEF Holds
    <3>5. ASSUME NEW l \in Leaves
          PROVE  /\ leaf'[l].missed \subseteq Reported'
                 /\ leaf'[l].lost \subseteq Reported'
                 /\ Range(Got(l)') \subseteq Reported' \ leaf'[l].lost
                 /\ IsInjective(Got(l)')
                 /\ l \notin Range(children') =>
                      Got(l)' = <<>> /\ leaf'[l].lost = {} /\ leaf'[l].mode = "sound"
      <4>1. /\ leaf[l].missed \subseteq Reported /\ leaf[l].lost \subseteq Reported
            /\ Range(Got(l)) \subseteq Reported
        BY <1>2 DEF Passed
      <4>2. l \notin Range(children) =>
              Got(l)' = <<>> /\ leaf'[l].lost = {} /\ leaf'[l].mode = "sound"
        BY <1>2, <3>4 DEF Passed, Got
      <4> QED
        BY <2>1, <3>3, <3>4, <4>1, <4>2
    <3>6. ASSUME ~shortage, NEW l \in Range(children)
          PROVE  /\ Kind[l] # "null" => Range(Got(l)') = Due(l)'
                 /\ leaf'[l].lost # {} \/ leaf'[l].mode = "torn" => leaf'[l].refused
      <4>1. /\ l \in Leaves /\ l \in kept
            /\ leaf[l].lost \subseteq Reported /\ leaf[l].missed \subseteq Reported
            /\ Kind[l] # "null" => Range(Got(l)) = Due(l)
            /\ leaf[l].lost # {} \/ leaf[l].mode = "torn" => leaf[l].refused
        BY <1>2, <1>4, <3>1, <3>6 DEF Passed
      <4>2. leaf'[l].lost # {} \/ leaf'[l].mode = "torn" => leaf'[l].refused
        BY <3>4, <4>1
      <4>3. ASSUME Kind[l] # "null"
            PROVE  Range(Got(l)') = Due(l)'
        <5>1. Range(Got(l)') = (Range(Got(l)) \cup {s}) \ leaf'[l].lost
          BY <3>4, <4>1, <4>3
        <5>2. leaf[l].lost \subseteq leaf'[l].lost /\ leaf'[l].missed = leaf[l].missed
          BY <3>4, <4>1
        <5> QED
          BY <3>3, <4>1, <4>3, <5>1, <5>2 DEF Due
      <4> QED
        BY <4>2, <4>3
    <3> QED
      BY <1>3, <2>1, <3>5, <3>6 DEF Passed, Early
  <2> QED
    BY <2>1, <2>2, <2>3
<1>8. ASSUME Flush
      PROVE  Passed'
  <2>1. PICK o \in Outcomes : leaf' = FlushAll(o)
    BY <1>8 DEF Flush
  <2>2. /\ children' = children /\ Reported' = Reported /\ span' = span /\ stage' = stage
        /\ stage = "live"
    BY <1>8 DEF Flush, Reported
  <2>3. ASSUME NEW l \in Leaves
        PROVE  /\ leaf'[l].missed = leaf[l].missed
               /\ leaf[l].refused => leaf'[l].refused
               /\ leaf'[l].mode = "torn" => leaf'[l].refused \/ leaf[l].mode = "torn"
               /\ leaf'[l].lost # leaf[l].lost /\ ~shortage => leaf'[l].refused
               /\ l \notin Range(children) => leaf'[l] = leaf[l]
               /\ IsInjective(Got(l)')
               /\ leaf[l].lost \subseteq leaf'[l].lost
               /\ leaf'[l].lost \subseteq leaf[l].lost \cup Range(Got(l))
               /\ Range(Got(l)') = Range(Got(l)) \ leaf'[l].lost
    <3>1. IsInjective(Got(l)) /\ Range(Got(l)) \cap leaf[l].lost = {}
      BY <1>2 DEF Passed
    <3>2. CASE l \in Range(children)
      <4>1. o[l] \in Ways(l) /\ leaf'[l] = FlushLeaf(l, o[l])
        BY <1>2, <2>1, <3>2, FlushAllFacts
      <4>2. Holds(leaf'[l], l, Range(Got(l)))
        BY <1>2, <3>1, <4>1, FlushLeafSpans
      <4>3. /\ leaf'[l].missed = leaf[l].missed
            /\ leaf[l].refused => leaf'[l].refused
            /\ leaf'[l].mode = "torn" => leaf'[l].refused \/ leaf[l].mode = "torn"
            /\ leaf'[l].lost # leaf[l].lost /\ ~shortage => leaf'[l].refused
        BY <1>2, <4>1, FlushLeafFacts
      <4>4. Got(l)' = leaf'[l].sent \o leaf'[l].queue
        BY DEF Got
      <4> QED
        BY <3>2, <4>2, <4>3, <4>4 DEF Holds
    <3>3. CASE l \notin Range(children)
      <4>1. leaf'[l] = leaf[l]
        BY <1>2, <2>1, <3>3, FlushAllFacts
      <4>2. Got(l)' = Got(l)
        BY <4>1 DEF Got
      <4> QED
        BY <3>1, <3>3, <4>1, <4>2
    <3> QED
      BY <3>2, <3>3
  <2>4. ASSUME NEW l \in Leaves
        PROVE  /\ leaf'[l].missed \subseteq Reported'
               /\ leaf'[l].lost \subseteq Reported'
               /\ Range(Got(l)') \subseteq Reported' \ leaf'[l].lost
               /\ IsInjective(Got(l)')
               /\ l \notin Range(children') =>
                    Got(l)' = <<>> /\ leaf'[l].lost = {} /\ leaf'[l].mode = "sound"
    <3>1. /\ leaf[l].missed \subseteq Reported /\ leaf[l].lost \subseteq Reported
          /\ Range(Got(l)) \subseteq Reported
      BY <1>2 DEF Passed
    <3>2. l \notin Range(children) =>
            Got(l)' = <<>> /\ leaf'[l].lost = {} /\ leaf'[l].mode = "sound"
      BY <1>2, <2>3 DEF Passed, Got
    <3> QED
      BY <2>2, <2>3, <3>1, <3>2
  <2>5. ASSUME ~shortage, NEW l \in Range(children)
        PROVE  /\ Kind[l] # "null" => Range(Got(l)') = Due(l)'
               /\ leaf'[l].lost # {} \/ leaf'[l].mode = "torn" => leaf'[l].refused
    <3>1. /\ l \in Leaves
          /\ Kind[l] # "null" => Range(Got(l)) = Due(l)
          /\ leaf[l].lost # {} \/ leaf[l].mode = "torn" => leaf[l].refused
      BY <1>2, <1>4, <2>5 DEF Passed
    <3>2. leaf'[l].lost # {} \/ leaf'[l].mode = "torn" => leaf'[l].refused
      BY <2>3, <2>5, <3>1
    <3>3. Kind[l] # "null" => Range(Got(l)') = Due(l)'
      BY <2>2, <2>3, <3>1 DEF Due
    <3> QED
      BY <3>2, <3>3
  <2> QED
    BY <1>3, <2>2, <2>4, <2>5 DEF Passed, Early
<1>9. ASSUME UNCHANGED <<leaf, children>>, ~\E s \in Spans : Finish(s)
      PROVE  Passed'
  <2>1. Reported' = Reported /\ (stage' # "live" => span' = span)
    <3>1. ASSUME NEW s \in Spans, NEW sampled \in BOOLEAN, Start(s, sampled)
          PROVE  Reported' = Reported /\ stage' = "live"
      BY <1>2, <3>1 DEF Start, Reported, Goto
    <3>2. ASSUME NEW s \in Spans, StartFails(s)
          PROVE  Reported' = Reported /\ stage' = "live"
      BY <1>2, <3>2 DEF StartFails, Reported, Goto
    <3>3. ASSUME span' = span
          PROVE  Reported' = Reported
      BY <3>3 DEF Reported
    <3> QED
      BY <1>9, <3>1, <3>2, <3>3, SpanFrame
  <2>2. \A l : Got(l)' = Got(l) /\ Due(l)' = Due(l)
    BY <1>9, <2>1 DEF Got, Due
  <2>3. \A l \in Leaves : /\ leaf'[l].missed \subseteq Reported'
                          /\ leaf'[l].lost \subseteq Reported'
                          /\ Range(Got(l)') \subseteq Reported' \ leaf'[l].lost
                          /\ IsInjective(Got(l)')
                          /\ l \notin Range(children') =>
                               Got(l)' = <<>> /\ leaf'[l].lost = {} /\ leaf'[l].mode = "sound"
    BY <1>2, <1>9, <2>1, <2>2 DEF Passed
  <2>4. ~shortage => \A l \in Range(children') :
          /\ Kind[l] # "null" => Range(Got(l)') = Due(l)'
          /\ leaf'[l].lost # {} \/ leaf'[l].mode = "torn" => leaf'[l].refused
    BY <1>2, <1>9, <2>2 DEF Passed
  <2> QED
    BY <1>1, <1>2, <1>3, <1>9, <2>1, <2>3, <2>4 DEF Passed
<1> QED
  BY <1>1, <1>5, <1>6, <1>7, <1>8, <1>9, LeafFrame, ChildFrame

---------------------------------------------------------------------------
(* Flushes *)

\* After a flush only what a reporter's own network refused still waits.
LEMMA FlushedFacts ==
  ASSUME DataInv, NEW o \in Outcomes, leaf' = FlushAll(o), children' = children
  PROVE  /\ \A l \in Range(children) : Waiting(l)' > 0 => leaf'[l].failed
         /\ \A l \in Range(children) : leaf'[l].failed = ~Succeeds(o[l].end)
<1> SUFFICES ASSUME NEW l \in Range(children)
             PROVE  /\ Waiting(l)' > 0 => leaf'[l].failed
                    /\ leaf'[l].failed = ~Succeeds(o[l].end)
  OBVIOUS
<1>1. l \in Leaves /\ o[l] \in Ways(l) /\ leaf'[l] = FlushLeaf(l, o[l])
  BY FlushAllFacts
<1>2. /\ leaf'[l].failed = ~Succeeds(o[l].end)
      /\ Kind[l] = "remote" /\ Len(leaf'[l].queue) > 0 => leaf'[l].failed
  BY <1>1, FlushLeafFacts
<1>3. Waiting(l)' > 0 => Kind[l] = "remote" /\ Len(leaf'[l].queue) > 0
  BY DEF Waiting
<1> QED
  BY <1>2, <1>3

LEMMA RefusedStep == ASSUME IndInv, [Next]_vars PROVE RefusedInv'
<1> DEFINE Down == {"free_name", "free_metrics", "free_sampler", "free_reporter"}
<1>1. DataInv /\ RefusedInv /\ stage \in Stages
  BY DEF IndInv, TypeOK
<1>2. args' = args
  BY ArgsFrame
<1>3. ASSUME UNCHANGED <<leaf, children>>
      PROVE  /\ \A l : Waiting(l)' = Waiting(l) /\ leaf'[l].failed = leaf[l].failed
             /\ \A l : Shares(l)' <=> Shares(l)
             /\ Range(children') = Range(children)
  BY <1>2, <1>3 DEF Waiting, Shares
<1>4. stage' \in Down => \A l \in Range(children') : Waiting(l)' > 0 => leaf'[l].failed
  <2> SUFFICES ASSUME stage' \in Down
               PROVE  \A l \in Range(children') : Waiting(l)' > 0 => leaf'[l].failed
    OBVIOUS
  <2>1. CASE Close
    BY <1>1, <2>1, FlushedFacts DEF Close, reporting
  <2>2. CASE ~Close
    <3>1. stage \in Down /\ UNCHANGED <<leaf, children>>
      <4>1. ASSUME NEW l \in Leaves, CompositeAdd(l)
            PROVE  FALSE
        BY <4>1 DEF CompositeAdd, MayAdd, Goto
      <4>2. ASSUME NEW s \in Spans, Finish(s)
            PROVE  FALSE
        BY <4>2 DEF Finish, Goto
      <4>3. ~Flush /\ ~DestroyReporter /\ ~InitReporter
        BY DestroyReporterParts DEF Flush, InitReporter, Goto
      <4>4. stage \in Down
        <5>1. CASE Calls \/ UNCHANGED vars
          BY <5>1, CallFrame DEF vars
        <5>2. CASE Steps
          BY <2>2, <4>3, <5>2 DEF Steps, InitServiceName, InitMetrics, InitMetricsFails,
             InitSampler, InitTags, InitTagsFails, InitFails, Destroy, FreeServiceName,
             DestroyMetrics, DestroySampler, DestroyTags, Release, Goto
        <5> QED
          BY <5>1, <5>2, NextSplit
      <4> QED
        BY <2>2, <4>1, <4>2, <4>3, <4>4, LeafFrame, ChildFrame
    <3> QED
      BY <1>1, <1>3, <3>1 DEF RefusedInv
  <2> QED
    BY <2>1, <2>2
<1>5. MetricsOutliveUse'
  <2> SUFFICES ASSUME crashed' = "null_counter"
               PROVE  \E l \in Range(children') : Shares(l)' /\ leaf'[l].failed
    BY DEF MetricsOutliveUse
  <2>1. CASE UNCHANGED vars
    <3>1. UNCHANGED <<leaf, children, crashed>>
      BY <2>1 DEF vars, reporting
    <3> QED
      BY <1>1, <1>3, <3>1 DEF RefusedInv, MetricsOutliveUse
  <2>2. CASE Next
    <3>1. DestroyReporterCrash /\ Crash("null_counter") /\ Uncounted # {}
      <4>1. crashed = "no"
        BY <2>2 DEF Next
      <4>2. ~Steps
        <5>1. ~DestroyReporter
          BY <4>1, DestroyReporterParts DEF Goto
        <5> QED
          BY <4>1, <5>1 DEF Steps, InitServiceName, InitMetrics, InitMetricsFails,
             InitSampler, InitReporter, InitTags, InitTagsFails, InitFails, Destroy, Close,
             FreeServiceName, DestroyMetrics, DestroySampler, DestroyTags, Release, Goto
      <4>3. Calls
        BY <2>2, <4>2, NextSplit
      <4>4. DestroyReporterCrash
        BY <4>1, <4>3 DEF Calls, CompositeAdd, CompositeAddFails, Start, StartFails,
           StartCrash, Finish, FinishCrash, UpdateSampler, Flush, InitReporterCrash,
           CloseCrash, DestroyMetricsCrash, FlushCrash, Crash, Goto
      <4> QED
        BY <4>4 DEF DestroyReporterCrash, FlushCrash, Crash
    <3>2. stage = "free_reporter" /\ UNCHANGED <<leaf, children>>
      BY <3>1 DEF DestroyReporterCrash, FlushCrash, Crash, reporting
    <3>3. PICK l \in Range(children) : Shares(l) /\ Waiting(l) > 0
      BY <3>1 DEF Uncounted
    <3>4. leaf[l].failed
      BY <1>1, <3>2, <3>3 DEF RefusedInv
    <3> QED
      BY <1>3, <3>2, <3>3, <3>4
  <2> QED
    BY <2>1, <2>2
<1>6. FlushReachesAll'
  <2> SUFFICES ASSUME flushed' # "none"
               PROVE  /\ (flushed' = "ok") <=> \A l \in Range(children') : ~leaf'[l].failed
                      /\ \A l \in Range(children') : Waiting(l)' > 0 => leaf'[l].failed
                      /\ flushed' = "ok" /\ ~shortage' =>
                           \A l \in Range(children') :
                             Kind[l] = "remote" => Range(leaf'[l].sent) = Due(l)'
    BY DEF FlushReachesAll
  <2>1. CASE Flush
    <3>1. PICK o \in Outcomes :
            /\ leaf' = FlushAll(o)
            /\ flushed' = IF \A l \in Range(children) : Succeeds(o[l].end)
                          THEN "ok" ELSE "failed"
      BY <2>1 DEF Flush
    <3>2. children' = children /\ stage' = "live"
      BY <2>1 DEF Flush
    <3>3. /\ \A l \in Range(children) : Waiting(l)' > 0 => leaf'[l].failed
          /\ \A l \in Range(children) : leaf'[l].failed = ~Succeeds(o[l].end)
      BY <1>1, <3>1, <3>2, FlushedFacts
    <3>4. (flushed' = "ok") <=> \A l \in Range(children) : ~leaf'[l].failed
      BY <3>1, <3>3
    <3>5. ASSUME flushed' = "ok", ~shortage', NEW l \in Range(children'), Kind[l] = "remote"
          PROVE  Range(leaf'[l].sent) = Due(l)'
      <4>1. Passed' /\ DataInv'
        BY <3>2, PassedStep, DataStep DEF PassedInv, Growing
      <4>2. Range(Got(l)') = Due(l)'
        BY <3>5, <4>1 DEF Passed
      <4>3. l \in Leaves
        BY <4>1, RangeMembers DEF DataInv
      <4>4. leaf'[l] \in LeafState
        BY <4>1, <4>3 DEF DataInv
      <4>5. leaf'[l].sent \in Seq(Spans) /\ leaf'[l].queue \in Seq(Spans)
        BY <4>4 DEF LeafState
      <4>6. ~(Waiting(l)' > 0) /\ Waiting(l)' = Len(leaf'[l].queue)
        BY <3>2, <3>3, <3>4, <3>5 DEF Waiting
      <4>7. leaf'[l].queue = <<>>
        BY <4>5, <4>6
      <4>8. Got(l)' = leaf'[l].sent
        BY <4>5, <4>7 DEF Got
      <4> QED
        BY <4>2, <4>8
    <3> QED
      BY <3>2, <3>3, <3>4, <3>5
  <2>2. CASE ~Flush
    <3>1. UNCHANGED <<flushed, leaf, children, span>>
      <4>1. CASE UNCHANGED vars
        BY <4>1 DEF vars, reporting
      <4>2. CASE Calls
        BY <2>2, <4>2 DEF Calls, CompositeAdd, CompositeAddFails, Start, StartFails,
           StartCrash, Finish, FinishCrash, UpdateSampler, InitReporterCrash,
           CloseCrash, DestroyMetricsCrash, DestroyReporterCrash, FlushCrash, Crash, Goto, reporting
      <4>3. ~Steps
        <5>1. ~DestroyReporter
          BY DestroyReporterParts DEF Goto
        <5> QED
          BY <5>1 DEF Steps, InitServiceName, InitMetrics, InitMetricsFails,
             InitSampler, InitReporter, InitTags, InitTagsFails, InitFails, Destroy, Close,
             FreeServiceName, DestroyMetrics, DestroySampler, DestroyTags, Release, Goto
      <4> QED
        BY <4>1, <4>2, <4>3, NextSplit
    <3>2. shortage' = shortage /\ \A l : Due(l)' = Due(l)
      BY <3>1, ArgsFrame DEF Due, Reported
    <3> QED
      BY <1>1, <1>3, <3>1, <3>2 DEF RefusedInv, FlushReachesAll
  <2> QED
    BY <2>1, <2>2
<1> QED
  BY <1>4, <1>5, <1>6 DEF RefusedInv

---------------------------------------------------------------------------
(* The theorems *)

LEMMA InitInv == Init => IndInv
<1> SUFFICES ASSUME Init
             PROVE  IndInv
  OBVIOUS
<1>1. NewLeaf \in LeafState /\ NewLeaf.sent = <<>> /\ NewLeaf.queue = <<>>
      /\ NewLeaf.missed = {} /\ NewLeaf.lost = {} /\ NewLeaf.mode = "sound"
  BY DEF NewLeaf, LeafState
<1>2. children \in Seq(Leaves)
  <2>1. children = <<>> \/ \E l \in Leaves : children = <<l>>
    BY DEF Init
  <2>2. <<>> \in Seq(Leaves) /\ \A l \in Leaves : <<l>> \in Seq(Leaves)
    OBVIOUS
  <2> QED
    BY <2>1, <2>2
<1>3. DataInv
  BY <1>1, <1>2, ArgumentAssumption DEF Init, DataInv
<1>4. TypeOK
  <2>1. Range(children) \subseteq Leaves
    BY <1>2, RangeMembers
  <2>2. by_name \in BOOLEAN /\ counters \in BOOLEAN
    BY DEF Init
  <2>3. count \in [{"started", "finished", "sampled", "traces_sampled",
                    "traces_not_sampled", "success"} -> Nat]
    BY DEF Init
  <2> QED
    BY <2>1, <2>2, <2>3 DEF Init, TypeOK, Stages
<1>5. stage = "setup" /\ member = {} /\ made = {} /\ allocated = {} /\ ~Complete
  BY DEF Init, Complete, AfterName, AfterMetrics, AfterSampler, AfterReporter, AfterTags
<1>6. MemberInv
  BY <1>5 DEF MemberInv
<1>7. FreeInv
  <2>1. \A b \in Blocks : frees[b] = 0
    BY DEF Init
  <2>2. Parts \subseteq Blocks /\ "counters" \in Blocks /\ Leaves \subseteq Blocks
    BY DEF Blocks
  <2>3. stage \notin AfterMetrics /\ stage \notin AfterReporter
    BY <1>5 DEF AfterMetrics, AfterSampler, AfterReporter, AfterTags
  <2> QED
    BY <1>5, <2>1, <2>2, <2>3 DEF FreeInv
<1>8. PassedInv
  <2>1. \A l \in Leaves : leaf[l] = NewLeaf
    BY DEF Init
  <2>2. \A l \in Leaves : Got(l) = <<>>
    <3>1. <<>> \o <<>> = <<>>
      OBVIOUS
    <3> QED
      BY <1>1, <2>1, <3>1 DEF Got
  <2>3. Range(<<>>) = {} /\ IsInjective(<<>>)
    BY DEF Range, IsInjective
  <2>4. (\A s \in Spans : span[s] = "new") /\ Reported = {}
    BY DEF Init, Reported
  <2>5. Range(children) \subseteq Leaves
    BY <1>2, RangeMembers
  <2>6. args.reporter = "none" => children = <<>>
    BY DEF Init
  <2>7. \A l \in Leaves : Due(l) = {}
    BY <2>4 DEF Due
  <2> QED
    BY <1>1, <2>1, <2>2, <2>3, <2>4, <2>5, <2>6, <2>7 DEF PassedInv, Passed
<1>9. RefusedInv
  BY DEF Init, RefusedInv, MetricsOutliveUse, FlushReachesAll
<1>10. CountInv
  <2> DEFINE L == {l \in Leaves : Shares(l)}
             f == [l \in Leaves |-> Len(leaf[l].sent)]
             none == {}
  <2>1. \A l \in L : f[l] = 0
    BY <1>1 DEF Init
  <2>2. IsFiniteSet(L)
    BY LeafAssumption, FS_Subset
  <2>3. Total(none, f) = 0
    BY FS_EmptySet DEF Total
  <2> HIDE DEF L, f
  <2>4. Total(none, f) = Total(L, f)
    <3>1. none \in SUBSET L /\ \A l \in none : f[l] = f[l]
      OBVIOUS
    <3>2. \A l \in L : f[l] \in Nat
      BY <2>1
    <3>3. \A l \in L \ none : f[l] = 0
      BY <2>1
    <3> HIDE DEF none
    <3> QED
      BY <2>2, <3>1, <3>2, <3>3, TotalSame
  <2>5. Sent = 0
    BY <2>3, <2>4 DEF Sent, L, f
  <2>6. /\ Ever({"sampled", "unsampled", "reported", "finished"}) = {}
        /\ Ever({"reported", "finished"}) = {}
    BY DEF Init, Ever
  <2>7. /\ count.started = 0 /\ count.finished = 0 /\ count.success = 0
        /\ count.traces_sampled = 0 /\ count.traces_not_sampled = 0
    BY DEF Init
  <2> QED
    BY <2>5, <2>6, <2>7, FS_EmptySet DEF CountInv, CountersAccount
<1> QED
  BY <1>3, <1>4, <1>6, <1>7, <1>8, <1>9, <1>10 DEF IndInv

LEMMA NextInv == IndInv /\ [Next]_vars => IndInv'
BY TypeStep, DataStep, MemberStep, FreeStep, PassedStep, RefusedStep, CountStep
   DEF IndInv

\* The inductive invariant holds for every tracer: whatever the application
\* supplies to jaeger_tracer_init, whichever member cannot be made, and
\* whatever the reporters' networks refuse.
THEOREM TracerInvariant == Spec => []IndInv
<1>1. Spec => Init /\ [][Next]_vars
  BY DEF Spec
<1> QED
  BY <1>1, InitInv, NextInv, PTL

\* The variables keep their types, and tracer->allocated names only members
\* that are set.
THEOREM TracerTypeCorrect == Spec => []TypeOK
<1>1. IndInv => TypeOK
  BY DEF IndInv
<1> QED
  BY <1>1, TracerInvariant, PTL

\* jaeger_tracer_destroy frees what jaeger_tracer_init allocated, once, and
\* nothing of the caller's but what the tracer takes over.
THEOREM TracerFreedOnce == Spec => []FreedOnce
<1>1. ASSUME IndInv
      PROVE  FreedOnce
  <2>1. FreeInv /\ MemberInv /\ TypeOK
    BY <1>1 DEF IndInv
  <2>2. ASSUME NEW b \in Blocks
        PROVE  frees[b] <= (IF Owned(b) THEN 1 ELSE 0)
    <3>1. CASE b \in Parts
      BY <2>1, <3>1 DEF FreeInv, Owned
    <3>2. CASE b = "counters"
      BY <2>1, <3>2 DEF FreeInv, Owned
    <3>3. CASE b \in Leaves
      BY <2>1, <3>3 DEF FreeInv, Owned
    <3> QED
      BY <3>1, <3>2, <3>3 DEF Blocks
  <2>3. ASSUME stage \in {"destroyed", "released"}
        PROVE  member = {} /\ \A b \in made : frees[b] = 1
    <3>1. Complete /\ stage \in AfterMetrics /\ \A p \in Parts : stage \in Gone(p)
      BY <2>3 DEF Complete, Gone, Parts, AfterName, AfterMetrics, AfterSampler,
         AfterReporter, AfterTags
    <3>2. member = {}
      BY <2>1, <3>1 DEF MemberInv, TypeOK
    <3>3. made \subseteq Parts \cup {"counters"}
      BY <2>1 DEF MemberInv
    <3> QED
      BY <2>1, <3>1, <3>2, <3>3 DEF FreeInv
  <2> QED
    BY <2>2, <2>3 DEF FreedOnce
<1> QED
  BY <1>1, TracerInvariant, PTL

\* A reporter that counts after jaeger_metrics_destroy took the counters away
\* is one whose flush in tracer->close failed.
THEOREM TracerMetricsOutliveUse == Spec => []MetricsOutliveUse
<1>1. IndInv => MetricsOutliveUse
  BY DEF IndInv, RefusedInv
<1> QED
  BY <1>1, TracerInvariant, PTL

\* Every child of a composite reporter gets every sampled span that finishes
\* after it was added, once; it loses one with memory to spare only where a
\* flush of its own has returned false.
THEOREM TracerEveryChildReported == Spec => []EveryChildReported
<1>1. ASSUME IndInv
      PROVE  EveryChildReported
  <2> SUFFICES ASSUME ~shortage, stage \in {"setup", "live"}, NEW l \in Range(children)
               PROVE  /\ Kind[l] # "null" => Range(Got(l)) = Due(l)
                      /\ Len(Got(l)) = Cardinality(Range(Got(l)))
                      /\ leaf[l].lost # {} => leaf[l].refused
    BY DEF EveryChildReported
  <2>1. DataInv /\ Passed
    BY <1>1 DEF IndInv, PassedInv, Growing
  <2>2. l \in Leaves
    BY <2>1, RangeMembers DEF DataInv
  <2> DEFINE g == Got(l)
  <2>3. g \in Seq(Spans) /\ IsInjective(g)
    BY <2>1, <2>2, LeafFacts DEF Passed
  <2> HIDE DEF g
  <2>4. g \in [1 .. Len(g) -> Range(g)] /\ Len(g) \in Nat /\ DOMAIN g = 1 .. Len(g)
    BY <2>3 DEF Range
  <2>5. g \in Bijection(1 .. Len(g), Range(g))
    BY <2>3, <2>4 DEF Bijection, Injection, Surjection, Range
  <2>6. Cardinality(Range(g)) = Cardinality(1 .. Len(g))
    <3>1. IsFiniteSet(1 .. Len(g)) /\ ExistsBijection(1 .. Len(g), Range(g))
      BY <2>4, <2>5, FS_Interval DEF ExistsBijection
    <3> QED
      BY <3>1, FS_Bijection
  <2>7. Cardinality(1 .. Len(g)) = Len(g)
    <3>1. Cardinality(1 .. Len(g)) = IF 1 > Len(g) THEN 0 ELSE Len(g) - 1 + 1
      BY <2>4, FS_Interval
    <3> QED
      BY <2>4, <3>1
  <2> QED
    BY <2>1, <2>6, <2>7 DEF Passed, g
<1> QED
  BY <1>1, TracerInvariant, PTL

\* jaeger_tracer_flush flushes every child: it returns true exactly if all of
\* them do, then nothing waits and, with memory to spare, all that is due has
\* been sent; and what waits after it was left by the child's own failure.
THEOREM TracerFlushReachesAll == Spec => []FlushReachesAll
<1>1. IndInv => FlushReachesAll
  BY DEF IndInv, RefusedInv
<1> QED
  BY <1>1, TracerInvariant, PTL

\* The metrics count the spans that were started and finished, the traces
\* they began, and what the reporters that share the metrics have sent.
THEOREM TracerCountersAccount == Spec => []CountersAccount
<1>1. IndInv => CountersAccount
  BY DEF IndInv, CountInv
<1> QED
  BY <1>1, TracerInvariant, PTL
====
