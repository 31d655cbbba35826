----------------------- MODULE RemoteSampler_proofs -----------------------
(***************************************************************************)
(* Proofs about RemoteSampler for every set of operation names and rates,  *)
(* every bound on the operations, and a server and an allocator that do    *)
(* what they like: that the two binary searches are exact on the arrays    *)
(* the sampler keeps, and what follows from that.                          *)
(***************************************************************************)
EXTENDS RemoteSampler, SequenceLemmas, FiniteSetTheorems

---------------------------------------------------------------------------
(* bsearch *)

\* A round of the loop of bsearch on the entries behind r[1], up to r[2]; g
\* is what the rounds after it return.
Ranges(s) == (0 .. Len(s)) \X (0 .. Len(s))
SearchRound(s, name, g, r) ==
  LET l == r[1]
      u == r[2]
      i == (l + u) \div 2
  IN  IF l >= u THEN 0
      ELSE IF s[i + 1].name = NoName THEN Crashed
      ELSE IF s[i + 1].name = name THEN i + 1
      ELSE IF name < s[i + 1].name THEN g[<<l, i>>] ELSE g[<<i + 1, u>>]
Find(s, name) == CHOOSE g : g = [r \in Ranges(s) |-> SearchRound(s, name, g, r)]

LEMMA SearchIsFind ==
  ASSUME NEW s, NEW name
  PROVE  Search(s, name) = Find(s, name)[<<0, Len(s)>>]
BY DEF Search, Find, SearchRound, Ranges

\* A round depends only on rounds with fewer entries.
LEMMA RoundLocal ==
  ASSUME NEW s, Len(s) \in Nat, NEW name, NEW g, NEW h, NEW r \in Ranges(s),
         \A q \in Ranges(s) : q[2] - q[1] < r[2] - r[1] => g[q] = h[q]
  PROVE  SearchRound(s, name, g, r) = SearchRound(s, name, h, r)
<1> DEFINE l == r[1]
           u == r[2]
           i == (l + u) \div 2
<1>1. l \in 0 .. Len(s) /\ u \in 0 .. Len(s)
  BY DEF Ranges
<1>2. CASE l >= u
  BY <1>2 DEF SearchRound
<1>3. CASE ~(l >= u)
  <2>1. i \in Nat /\ l <= i /\ i < u
    BY <1>1, <1>3
  <2>2. /\ <<l, i>> \in Ranges(s) /\ i - l < u - l
        /\ <<i + 1, u>> \in Ranges(s) /\ u - (i + 1) < u - l
    BY <1>1, <2>1 DEF Ranges
  <2>3. g[<<l, i>>] = h[<<l, i>>] /\ g[<<i + 1, u>>] = h[<<i + 1, u>>]
    BY <2>2
  <2> QED
    BY <2>3 DEF SearchRound
<1> QED
  BY <1>2, <1>3

\* The recursion of Search has a solution.
LEMMA FindDefined ==
  ASSUME NEW s, Len(s) \in Nat, NEW name
  PROVE  \A r \in Ranges(s) :
           Find(s, name)[r] = SearchRound(s, name, Find(s, name), r)
<1> DEFINE T == {n \in Nat : \E g : \A r \in Ranges(s) :
                   r[2] - r[1] < n - Len(s) => g[r] = SearchRound(s, name, g, r)}
<1>0. \A r \in Ranges(s) : r[2] - r[1] \in Int /\ r[2] - r[1] >= - Len(s)
                           /\ r[2] - r[1] <= Len(s)
  BY DEF Ranges
<1>1. 0 \in T
  BY <1>0
<1>2. ASSUME NEW n \in T
      PROVE  n + 1 \in T
  <2>1. PICK g : \A r \in Ranges(s) :
                   r[2] - r[1] < n - Len(s) => g[r] = SearchRound(s, name, g, r)
    OBVIOUS
  <2> DEFINE h == [r \in Ranges(s) |-> IF r[2] - r[1] < n - Len(s) THEN g[r]
                                       ELSE SearchRound(s, name, g, r)]
  <2>2. ASSUME NEW r \in Ranges(s), r[2] - r[1] < (n + 1) - Len(s)
        PROVE  h[r] = SearchRound(s, name, h, r)
    <3>1. h[r] = SearchRound(s, name, g, r)
      BY <2>1
    <3>2. \A q \in Ranges(s) : q[2] - q[1] < r[2] - r[1] => g[q] = h[q]
      BY <1>0, <2>2
    <3> HIDE DEF h
    <3> QED
      BY <3>1, <3>2, RoundLocal
  <2> HIDE DEF h
  <2> QED
    BY <2>2
<1>3. T \in SUBSET Nat
  OBVIOUS
<1> DEFINE m == 2 * Len(s) + 1
<1>4. m \in Nat /\ \A r \in Ranges(s) : r[2] - r[1] < m - Len(s)
  BY <1>0
<1> HIDE DEF m
<1>5. m \in T
  <2> HIDE DEF T
  <2> QED
    BY <1>1, <1>2, <1>3, <1>4, SetInduction
<1>6. PICK g : \A r \in Ranges(s) : g[r] = SearchRound(s, name, g, r)
  BY <1>4, <1>5
<1> DEFINE h == [r \in Ranges(s) |-> g[r]]
<1>7. h = [r \in Ranges(s) |-> SearchRound(s, name, h, r)]
  <2>1. ASSUME NEW r \in Ranges(s)
        PROVE  h[r] = SearchRound(s, name, h, r)
    <3>1. h[r] = SearchRound(s, name, g, r) /\ \A q \in Ranges(s) : g[q] = h[q]
      BY <1>6
    <3> HIDE DEF h
    <3> QED
      BY <3>1, RoundLocal
  <2> QED
    BY <2>1
<1> HIDE DEF h
<1> DEFINE f == Find(s, name)
<1>8. f = [r \in Ranges(s) |-> SearchRound(s, name, f, r)]
  BY <1>7, Zenon DEF Find
<1> HIDE DEF f
<1>9. \A r \in Ranges(s) : f[r] = SearchRound(s, name, f, r)
  BY <1>8
<1> QED
  BY <1>9 DEF f

\* The names of an array of entries.
LEMMA NameTypes ==
  ASSUME NEW s \in Seq(OpSampler)
  PROVE  /\ Len(s) \in Nat
         /\ DOMAIN s = 1 .. Len(s)
         /\ \A i \in 1 .. Len(s) : s[i] \in OpSampler /\ s[i].name \in Nat
<1>1. Len(s) \in Nat /\ DOMAIN s = 1 .. Len(s) /\ \A i \in 1 .. Len(s) : s[i] \in OpSampler
  OBVIOUS
<1>2. \A e \in OpSampler : e.name \in Nat
  <2>1. \A x \in Names \cup {NoName} : x \in Nat
    BY NameAssumption DEF NoName
  <2>2. \A e \in OpSampler : e.name \in Names \cup {NoName}
    BY DEF OpSampler
  <2> QED
    BY <2>1, <2>2
<1> QED
  BY <1>1, <1>2

\* bsearch finds a name that is there, returns NULL only if it is not, and
\* compares with a null name only if there is one.
LEMMA SearchExact ==
  ASSUME NEW s \in Seq(OpSampler), Ordered(s), NEW name \in Names
  PROVE  LET found == Search(s, name)
         IN /\ found \in {Crashed} \cup 0 .. Len(s)
            /\ found = 0 => \A i \in 1 .. Len(s) : s[i].name # name
            /\ found \in 1 .. Len(s) => s[found].name = name
            /\ (\A i \in 1 .. Len(s) : s[i].name # NoName) => found # Crashed
<1> DEFINE f == Find(s, name)
           Good(r) == /\ f[r] \in {Crashed} \cup 0 .. Len(s)
                      /\ f[r] = 0 => \A i \in (r[1] + 1) .. r[2] : s[i].name # name
                      /\ f[r] \in 1 .. Len(s) => s[f[r]].name = name
                      /\ (\A i \in 1 .. Len(s) : s[i].name # NoName) => f[r] # Crashed
           T == {n \in Nat : \A r \in Ranges(s) : r[2] - r[1] < n => Good(r)}
<1>1. /\ Len(s) \in Nat /\ DOMAIN s = 1 .. Len(s)
      /\ \A i \in 1 .. Len(s) : s[i].name \in Nat
      /\ name \in Nat /\ name # NoName
  BY NameTypes, NameAssumption DEF NoName
<1>2. \A r \in Ranges(s) : f[r] = SearchRound(s, name, f, r)
  BY <1>1, FindDefined
<1>3. \A r \in Ranges(s) : /\ r[1] \in 0 .. Len(s) /\ r[2] \in 0 .. Len(s)
                           /\ r[2] - r[1] \in Int
  BY <1>1 DEF Ranges
<1> HIDE DEF f
<1>4. ASSUME NEW r \in Ranges(s), r[1] >= r[2]
      PROVE  Good(r)
  <2>1. f[r] = 0
    BY <1>2, <1>4 DEF SearchRound
  <2>2. (r[1] + 1) .. r[2] = {}
    BY <1>3, <1>4
  <2> QED
    BY <1>1, <2>1, <2>2 DEF Crashed
<1>5. 0 \in T
  BY <1>3, <1>4
<1>6. ASSUME NEW n \in T
      PROVE  n + 1 \in T
  <2> SUFFICES ASSUME NEW r \in Ranges(s), r[2] - r[1] < n + 1
               PROVE  Good(r)
    OBVIOUS
  <2>0. \A q \in Ranges(s) : q[2] - q[1] < n => Good(q)
    OBVIOUS
  <2> DEFINE l == r[1]
             u == r[2]
             i == (l + u) \div 2
  <2>1. CASE l >= u
    BY <1>4, <2>1
  <2>2. CASE ~(l >= u)
    <3>1. i \in Nat /\ l <= i /\ i < u /\ i + 1 \in 1 .. Len(s) /\ l \in Nat /\ u \in Nat
      BY <1>3, <2>2, SMTT(30)
    <3>2. /\ <<l, i>> \in Ranges(s) /\ i - l < n
          /\ <<i + 1, u>> \in Ranges(s) /\ u - (i + 1) < n
      BY <1>3, <3>1, SMTT(30) DEF Ranges
    <3>3. Good(<<l, i>>) /\ Good(<<i + 1, u>>)
      BY <2>0, <3>2
    <3>4. f[r] = IF s[i + 1].name = NoName THEN Crashed
                 ELSE IF s[i + 1].name = name THEN i + 1
                 ELSE IF name < s[i + 1].name THEN f[<<l, i>>] ELSE f[<<i + 1, u>>]
      BY <1>2, <2>2 DEF SearchRound
    <3> HIDE DEF i
    <3>5. CASE s[i + 1].name = NoName
      BY <1>1, <3>1, <3>4, <3>5 DEF Crashed
    <3>6. CASE s[i + 1].name = name
      BY <1>1, <3>1, <3>4, <3>6 DEF Crashed
    <3>7. CASE s[i + 1].name # NoName /\ name < s[i + 1].name
      <4>1. f[r] = f[<<l, i>>]
        BY <1>1, <3>1, <3>4, <3>7
      <4>2. ASSUME NEW j \in (l + 1) .. u, j > i
            PROVE  s[j].name # name
        <5>1. j \in DOMAIN s /\ i + 1 \in DOMAIN s
          BY <1>1, <1>3, <3>1, <4>2
        <5>2. CASE j = i + 1
          BY <1>1, <3>1, <3>7, <5>2
        <5>3. CASE i + 1 < j
          <6>1. s[j].name # NoName => s[i + 1].name <= s[j].name
            BY <5>1, <5>3 DEF Ordered
          <6> QED
            BY <1>1, <3>1, <3>7, <5>1, <6>1
        <5> QED
          BY <3>1, <4>2, <5>2, <5>3
      <4>3. \A j \in (l + 1) .. u : j > i \/ j \in (l + 1) .. i
        BY <3>1
      <4> QED
        BY <3>3, <4>1, <4>2, <4>3
    <3>8. CASE s[i + 1].name # NoName /\ s[i + 1].name < name
      <4>1. f[r] = f[<<i + 1, u>>]
        BY <1>1, <3>1, <3>4, <3>8
      <4>2. ASSUME NEW j \in (l + 1) .. u, j <= i + 1
            PROVE  s[j].name # name
        <5>1. j \in DOMAIN s /\ i + 1 \in DOMAIN s
          BY <1>1, <1>3, <3>1, <4>2
        <5>2. CASE j = i + 1
          BY <1>1, <3>1, <3>8, <5>2
        <5>3. CASE j < i + 1
          <6>1. s[j].name <= s[i + 1].name
            BY <3>8, <5>1, <5>3 DEF Ordered
          <6> QED
            BY <1>1, <3>1, <3>8, <5>1, <6>1
        <5> QED
          BY <3>1, <4>2, <5>2, <5>3
      <4>3. \A j \in (l + 1) .. u : j <= i + 1 \/ j \in (i + 1 + 1) .. u
        BY <3>1
      <4> QED
        BY <3>3, <4>1, <4>2, <4>3
    <3> QED
      BY <1>1, <3>1, <3>5, <3>6, <3>7, <3>8
  <2> QED
    BY <2>1, <2>2
<1>7. T \in SUBSET Nat
  OBVIOUS
<1>8. Len(s) + 1 \in T
  <2> HIDE DEF T
  <2> QED
    BY <1>1, <1>5, <1>6, <1>7, SetInduction
<1>9. Good(<<0, Len(s)>>)
  <2>1. <<0, Len(s)>> \in Ranges(s) /\ Len(s) - 0 < Len(s) + 1
    BY <1>1 DEF Ranges
  <2> QED
    BY <1>8, <2>1
<1>10. Search(s, name) = f[<<0, Len(s)>>]
  BY SearchIsFind DEF f
<1> QED
  BY <1>1, <1>9, <1>10

---------------------------------------------------------------------------
(* jaeger_vector_lower_bound *)

\* A round of its loop, on the r[2] entries behind the first r[1].
Spots(s) == {x \in (0 .. Len(s)) \X (0 .. Len(s)) : x[1] + x[2] <= Len(s)}
BoundRound(s, name, g, r) ==
  LET pos == r[1]
      count == r[2]
      step == count \div 2
      elem == s[pos + step + 1].name
  IN  IF count = 0 THEN pos + 1
      ELSE IF elem = NoName THEN Crashed
      ELSE IF elem < name THEN g[<<pos + step + 1, count - step - 1>>]
      ELSE g[<<pos, step>>]
Bound(s, name) == CHOOSE g : g = [r \in Spots(s) |-> BoundRound(s, name, g, r)]

LEMMA LowerBoundIsBound ==
  ASSUME NEW s, NEW name
  PROVE  LowerBound(s, name) = Bound(s, name)[<<0, Len(s)>>]
BY DEF LowerBound, Bound, BoundRound, Spots

\* Where a round goes on.
LEMMA HalfFacts ==
  ASSUME NEW s, Len(s) \in Nat, NEW r \in Spots(s), r[2] # 0
  PROVE  LET pos == r[1]
             count == r[2]
             step == count \div 2
         IN /\ pos \in Nat /\ count \in Nat /\ step \in Nat
            /\ step < count /\ count - step - 1 < count
            /\ count - step - 1 \in Nat
            /\ pos + step + 1 \in 1 .. Len(s) /\ pos + count <= Len(s)
            /\ <<pos, step>> \in Spots(s)
            /\ <<pos + step + 1, count - step - 1>> \in Spots(s)
<1> DEFINE pos == r[1]
           count == r[2]
           step == count \div 2
<1>1. pos \in 0 .. Len(s) /\ count \in 0 .. Len(s) /\ pos + count <= Len(s) /\ count # 0
  BY DEF Spots
<1>2. step \in Nat /\ step < count
  BY <1>1
<1> HIDE DEF step
<1>3. pos + step + 1 \in 1 .. Len(s) /\ count - step - 1 \in 0 .. Len(s)
      /\ (pos + step + 1) + (count - step - 1) <= Len(s)
      /\ step \in 0 .. Len(s) /\ pos + step <= Len(s) /\ pos + step + 1 \in 0 .. Len(s)
      /\ count - step - 1 < count
  BY <1>1, <1>2, SMTT(30)
<1>4. <<pos, step>> \in Spots(s) /\ <<pos + step + 1, count - step - 1>> \in Spots(s)
  BY <1>1, <1>3 DEF Spots
<1> QED
  BY <1>1, <1>2, <1>3, <1>4 DEF step

LEMMA BoundLocal ==
  ASSUME NEW s, Len(s) \in Nat, NEW name, NEW g, NEW h, NEW r \in Spots(s),
         \A q \in Spots(s) : q[2] < r[2] => g[q] = h[q]
  PROVE  BoundRound(s, name, g, r) = BoundRound(s, name, h, r)
<1>1. CASE r[2] = 0
  BY <1>1 DEF BoundRound
<1>2. CASE r[2] # 0
  <2> DEFINE pos == r[1]
             count == r[2]
             step == count \div 2
  <2>1. /\ <<pos, step>> \in Spots(s) /\ step < count
        /\ <<pos + step + 1, count - step - 1>> \in Spots(s) /\ count - step - 1 < count
    BY <1>2, HalfFacts
  <2> HIDE DEF step
  <2>2. /\ g[<<pos, step>>] = h[<<pos, step>>]
        /\ g[<<pos + step + 1, count - step - 1>>] = h[<<pos + step + 1, count - step - 1>>]
    BY <2>1
  <2> QED
    BY <2>2 DEF BoundRound, step
<1> QED
  BY <1>1, <1>2

\* The recursion of LowerBound has a solution.
LEMMA BoundDefined ==
  ASSUME NEW s, Len(s) \in Nat, NEW name
  PROVE  \A r \in Spots(s) :
           Bound(s, name)[r] = BoundRound(s, name, Bound(s, name), r)
<1> DEFINE T == {n \in Nat : \E g : \A r \in Spots(s) :
                   r[2] < n => g[r] = BoundRound(s, name, g, r)}
<1>0. \A r \in Spots(s) : r[2] \in Nat /\ r[2] <= Len(s)
  BY DEF Spots
<1>1. 0 \in T
  BY <1>0
<1>2. ASSUME NEW n \in T
      PROVE  n + 1 \in T
  <2>1. PICK g : \A r \in Spots(s) : r[2] < n => g[r] = BoundRound(s, name, g, r)
    OBVIOUS
  <2> DEFINE h == [r \in Spots(s) |-> IF r[2] < n THEN g[r]
                                      ELSE BoundRound(s, name, g, r)]
  <2>2. ASSUME NEW r \in Spots(s), r[2] < n + 1
        PROVE  h[r] = BoundRound(s, name, h, r)
    <3>1. h[r] = BoundRound(s, name, g, r)
      BY <2>1
    <3>2. \A q \in Spots(s) : q[2] < r[2] => g[q] = h[q]
      BY <1>0, <2>2
    <3> HIDE DEF h
    <3> QED
      BY <3>1, <3>2, BoundLocal
  <2> HIDE DEF h
  <2> QED
    BY <2>2
<1>3. T \in SUBSET Nat
  OBVIOUS
<1> DEFINE m == Len(s) + 1
<1>4. m \in Nat /\ \A r \in Spots(s) : r[2] < m
  BY <1>0
<1> HIDE DEF m
<1>5. m \in T
  <2> HIDE DEF T
  <2> QED
    BY <1>1, <1>2, <1>3, <1>4, SetInduction
<1>6. PICK g : \A r \in Spots(s) : g[r] = BoundRound(s, name, g, r)
  BY <1>4, <1>5
<1> DEFINE h == [r \in Spots(s) |-> g[r]]
<1>7. h = [r \in Spots(s) |-> BoundRound(s, name, h, r)]
  <2>1. ASSUME NEW r \in Spots(s)
        PROVE  h[r] = BoundRound(s, name, h, r)
    <3>1. h[r] = BoundRound(s, name, g, r) /\ \A q \in Spots(s) : g[q] = h[q]
      BY <1>6
    <3> HIDE DEF h
    <3> QED
      BY <3>1, BoundLocal
  <2> QED
    BY <2>1
<1> HIDE DEF h
<1> DEFINE f == Bound(s, name)
<1>8. f = [r \in Spots(s) |-> BoundRound(s, name, f, r)]
  BY <1>7, Zenon DEF Bound
<1> HIDE DEF f
<1>9. \A r \in Spots(s) : f[r] = BoundRound(s, name, f, r)
  BY <1>8
<1> QED
  BY <1>9 DEF f

\* jaeger_vector_lower_bound returns the first place whose entry is not below
\* the name.
LEMMA LowerBoundExact ==
  ASSUME NEW s \in Seq(OpSampler), Ordered(s), NEW name \in Names
  PROVE  LET pos == LowerBound(s, name)
         IN /\ pos \in {Crashed} \cup 1 .. Len(s) + 1
            /\ pos # Crashed =>
                 /\ \A i \in 1 .. pos - 1 : s[i].name # NoName /\ s[i].name < name
                 /\ \A i \in pos .. Len(s) : s[i].name # NoName => name <= s[i].name
            /\ (\A i \in 1 .. Len(s) : s[i].name # NoName) => pos # Crashed
<1> DEFINE f == Bound(s, name)
           Good(r) == /\ f[r] \in {Crashed} \cup (r[1] + 1) .. (r[1] + r[2] + 1)
                      /\ f[r] # Crashed =>
                           /\ \A i \in (r[1] + 1) .. f[r] - 1 :
                                s[i].name # NoName /\ s[i].name < name
                           /\ \A i \in f[r] .. (r[1] + r[2]) :
                                s[i].name # NoName => name <= s[i].name
                      /\ (\A i \in 1 .. Len(s) : s[i].name # NoName) => f[r] # Crashed
           T == {n \in Nat : \A r \in Spots(s) : r[2] < n => Good(r)}
<1>1. /\ Len(s) \in Nat /\ DOMAIN s = 1 .. Len(s)
      /\ \A i \in 1 .. Len(s) : s[i].name \in Nat
      /\ name \in Nat /\ name # NoName
  BY NameTypes, NameAssumption DEF NoName
<1>2. \A r \in Spots(s) : f[r] = BoundRound(s, name, f, r)
  BY <1>1, BoundDefined
<1>3. \A r \in Spots(s) : r[1] \in Nat /\ r[2] \in Nat /\ r[1] + r[2] <= Len(s)
  BY <1>1 DEF Spots
<1> HIDE DEF f
<1>4. 0 \in T
  BY <1>3
<1>5. ASSUME NEW n \in T
      PROVE  n + 1 \in T
  <2> SUFFICES ASSUME NEW r \in Spots(s), r[2] < n + 1
               PROVE  Good(r)
    OBVIOUS
  <2>0. \A q \in Spots(s) : q[2] < n => Good(q)
    OBVIOUS
  <2>1. CASE r[2] = 0
    <3>1. f[r] = r[1] + 1 /\ r[1] \in Nat
      BY <1>2, <1>3, <2>1 DEF BoundRound
    <3> QED
      BY <2>1, <3>1 DEF Crashed
  <2>2. CASE r[2] # 0
    <3> DEFINE pos == r[1]
               count == r[2]
               step == count \div 2
               mid == pos + step + 1
    <3>1. /\ pos \in Nat /\ count \in Nat /\ step \in Nat
          /\ step < count /\ count - step - 1 < count /\ count - step - 1 \in Nat
          /\ mid \in 1 .. Len(s) /\ pos + count <= Len(s)
          /\ <<pos, step>> \in Spots(s) /\ <<mid, count - step - 1>> \in Spots(s)
      BY <1>1, <2>2, HalfFacts
    <3>2. f[r] = IF s[mid].name = NoName THEN Crashed
                 ELSE IF s[mid].name < name THEN f[<<mid, count - step - 1>>]
                 ELSE f[<<pos, step>>]
      BY <1>2, <2>2 DEF BoundRound
    <3> HIDE DEF step
    <3>3. Good(<<pos, step>>) /\ Good(<<mid, count - step - 1>>)
      <4>1. n \in Nat /\ count < n + 1
        OBVIOUS
      <4>2. step < n /\ count - step - 1 < n
        BY <3>1, <4>1
      <4> HIDE DEF T, Good, mid
      <4> QED
        BY <2>0, <3>1, <4>2
    <3>4. mid + (count - step - 1) = pos + count /\ mid = pos + step + 1
      BY <3>1, SMTT(30)
    <3> HIDE DEF mid
    <3>5. CASE s[mid].name = NoName
      BY <1>1, <3>1, <3>2, <3>5
    <3>6. CASE s[mid].name # NoName /\ s[mid].name < name
      <4> DEFINE v == f[<<mid, count - step - 1>>]
      <4>1. f[r] = v
        BY <3>2, <3>6
      <4>2. /\ v \in {Crashed} \cup (mid + 1) .. (pos + count + 1)
            /\ v # Crashed =>
                 /\ \A i \in (mid + 1) .. v - 1 : s[i].name # NoName /\ s[i].name < name
                 /\ \A i \in v .. (pos + count) : s[i].name # NoName => name <= s[i].name
            /\ (\A i \in 1 .. Len(s) : s[i].name # NoName) => v # Crashed
        BY <3>3, <3>4
      <4> HIDE DEF v
      <4>3. ASSUME NEW i \in (pos + 1) .. mid
            PROVE  s[i].name # NoName /\ s[i].name < name
        <5>1. i \in DOMAIN s /\ mid \in DOMAIN s /\ (i = mid \/ i < mid)
          BY <1>1, <3>1, SMTT(30)
        <5>2. s[i].name # NoName /\ s[i].name <= s[mid].name
          BY <1>1, <3>6, <5>1 DEF Ordered
        <5> QED
          BY <1>1, <3>6, <5>1, <5>2
      <4>4. ASSUME v # Crashed, NEW i \in (pos + 1) .. v - 1
            PROVE  i \in (pos + 1) .. mid \/ i \in (mid + 1) .. v - 1
        BY <3>1, <3>4, <4>2, <4>4
      <4>5. (mid + 1) .. (pos + count + 1) \subseteq (pos + 1) .. (pos + count + 1)
        BY <3>1, <3>4
      <4> QED
        BY <4>1, <4>2, <4>3, <4>4, <4>5
    <3>7. CASE s[mid].name # NoName /\ ~(s[mid].name < name)
      <4> DEFINE v == f[<<pos, step>>]
      <4>1. f[r] = v
        BY <3>2, <3>7
      <4>2. /\ v \in {Crashed} \cup (pos + 1) .. (pos + step + 1)
            /\ v # Crashed =>
                 /\ \A i \in (pos + 1) .. v - 1 : s[i].name # NoName /\ s[i].name < name
                 /\ \A i \in v .. (pos + step) : s[i].name # NoName => name <= s[i].name
            /\ (\A i \in 1 .. Len(s) : s[i].name # NoName) => v # Crashed
        BY <3>3
      <4> HIDE DEF v
      <4>3. ASSUME NEW i \in mid .. (pos + count), s[i].name # NoName
            PROVE  name <= s[i].name
        <5>1. i \in DOMAIN s /\ mid \in DOMAIN s /\ (i = mid \/ mid < i)
          BY <1>1, <3>1, SMTT(30)
        <5>2. s[mid].name <= s[i].name
          BY <1>1, <4>3, <5>1 DEF Ordered
        <5> QED
          BY <1>1, <3>7, <5>1, <5>2
      <4>4. ASSUME v # Crashed, NEW i \in v .. (pos + count)
            PROVE  i \in v .. (pos + step) \/ i \in mid .. (pos + count)
        BY <3>1, <3>4, <4>2, <4>4
      <4>5. \A i \in (pos + 1) .. (pos + step + 1) : i \in (pos + 1) .. (pos + count + 1)
        <5>1. pos \in Nat /\ count \in Nat /\ step \in Nat /\ step < count
          BY <3>1
        <5> HIDE DEF pos, count
        <5> QED
          BY <5>1
      <4> QED
        BY <4>1, <4>2, <4>3, <4>4, <4>5
    <3> QED
      BY <3>5, <3>6, <3>7
  <2> QED
    BY <2>1, <2>2
<1>6. T \in SUBSET Nat
  OBVIOUS
<1>7. Len(s) + 1 \in T
  <2> HIDE DEF T
  <2> QED
    BY <1>1, <1>4, <1>5, <1>6, SetInduction
<1>8. Good(<<0, Len(s)>>)
  <2>1. <<0, Len(s)>> \in Spots(s) /\ Len(s) < Len(s) + 1
    BY <1>1 DEF Spots
  <2> QED
    BY <1>7, <2>1
<1>9. LowerBound(s, name) = f[<<0, Len(s)>>]
  BY LowerBoundIsBound DEF f
<1> DEFINE v == LowerBound(s, name)
<1>10. /\ v \in {Crashed} \cup (0 + 1) .. (0 + Len(s) + 1)
       /\ v # Crashed =>
            /\ \A i \in (0 + 1) .. v - 1 : s[i].name # NoName /\ s[i].name < name
            /\ \A i \in v .. (0 + Len(s)) : s[i].name # NoName => name <= s[i].name
       /\ (\A i \in 1 .. Len(s) : s[i].name # NoName) => v # Crashed
  BY <1>8, <1>9
<1>11. 0 + 1 = 1 /\ 0 + Len(s) = Len(s)
  BY <1>1
<1> HIDE DEF v
<1> QED
  BY <1>10, <1>11 DEF v

---------------------------------------------------------------------------
(* The operators that make entries and arrays *)

\* jaeger_vector_insert moves the entries from the place on up by one.
LEMMA Inserted ==
  ASSUME NEW S, NEW s \in Seq(S), NEW pos \in 1 .. Len(s) + 1, NEW e \in S
  PROVE  LET q == InsertAt(s, pos, e)
         IN /\ q \in Seq(S)
            /\ Len(q) = Len(s) + 1
            /\ \A i \in 1 .. Len(s) + 1 :
                 q[i] = IF i < pos THEN s[i] ELSE IF i = pos THEN e ELSE s[i - 1]
<1> DEFINE a == SubSeq(s, 1, pos - 1)
           b == <<e>>
           c == SubSeq(s, pos, Len(s))
           d == a \o b
           q == d \o c
<1>0. Len(s) \in Nat /\ pos \in Nat /\ 1 <= pos /\ pos <= Len(s) + 1
  OBVIOUS
<1>1. a \in Seq(S) /\ Len(a) = pos - 1 /\ \A i \in 1 .. pos - 1 : a[i] = s[i]
  OBVIOUS
<1>2. b \in Seq(S) /\ Len(b) = 1 /\ b[1] = e
  OBVIOUS
<1>3. c \in Seq(S) /\ Len(c) = Len(s) + 1 - pos
      /\ \A i \in 1 .. Len(c) : c[i] = s[pos + i - 1]
  OBVIOUS
<1> HIDE DEF a, b, c
<1>4. /\ d \in Seq(S) /\ Len(d) = Len(a) + Len(b)
      /\ \A i \in 1 .. Len(d) : d[i] = IF i <= Len(a) THEN a[i] ELSE b[i - Len(a)]
  BY <1>1, <1>2, ConcatAt
<1> HIDE DEF d
<1>5. /\ q \in Seq(S) /\ Len(q) = Len(d) + Len(c)
      /\ \A i \in 1 .. Len(q) : q[i] = IF i <= Len(d) THEN d[i] ELSE c[i - Len(d)]
  <2>1. d \in Seq(S) /\ c \in Seq(S)
    BY <1>3, <1>4
  <2> QED
    BY <2>1, ConcatAt
<1>6. q = InsertAt(s, pos, e)
  BY DEF InsertAt, a, b, c, d
<1> HIDE DEF q
<1>7. Len(d) = pos /\ Len(q) = Len(s) + 1
  BY <1>0, <1>1, <1>2, <1>3, <1>4, <1>5
<1>8. ASSUME NEW i \in 1 .. Len(s) + 1
      PROVE  q[i] = IF i < pos THEN s[i] ELSE IF i = pos THEN e ELSE s[i - 1]
  <2>1. CASE i < pos
    <3>1. i \in 1 .. pos - 1 /\ i \in 1 .. Len(d) /\ i \in 1 .. Len(q) /\ i <= Len(d) /\ i <= Len(a)
      BY <1>0, <1>1, <1>7, <2>1
    <3> QED
      BY <1>1, <1>4, <1>5, <2>1, <3>1
  <2>2. CASE i = pos
    <3>1. i \in 1 .. Len(d) /\ i \in 1 .. Len(q) /\ i <= Len(d) /\ ~(i <= Len(a)) /\ i - Len(a) = 1
      BY <1>0, <1>1, <1>7, <2>2
    <3> QED
      BY <1>2, <1>4, <1>5, <2>2, <3>1
  <2>3. CASE i > pos
    <3>1. i \in 1 .. Len(q) /\ ~(i <= Len(d)) /\ i - pos \in 1 .. Len(c) /\ pos + (i - pos) - 1 = i - 1
          /\ ~(i < pos) /\ i # pos
      BY <1>0, <1>3, <1>7, <2>3
    <3>2. q[i] = c[i - pos]
      BY <1>5, <1>7, <3>1
    <3>3. c[i - pos] = s[i - 1]
      BY <1>3, <3>1
    <3> QED
      BY <3>1, <3>2, <3>3
  <2> QED
    BY <1>0, <2>1, <2>2, <2>3
<1> QED
  BY <1>5, <1>6, <1>7, <1>8

LEMMA InsertedAt ==
  ASSUME NEW S, NEW s \in Seq(S), NEW pos \in 1 .. Len(s) + 1, NEW e \in S,
         NEW i \in 1 .. Len(s) + 1
  PROVE  InsertAt(s, pos, e)[i] =
           IF i < pos THEN s[i] ELSE IF i = pos THEN e ELSE s[i - 1]
BY Inserted

\* An entry keeps the array in order where those before it are named and not
\* above it, and it is not above the named ones behind.
LEMMA OrderedInsert ==
  ASSUME NEW s \in Seq(OpSampler), Ordered(s),
         NEW pos \in 1 .. Len(s) + 1, NEW e \in OpSampler,
         \A i \in 1 .. pos - 1 :
           s[i].name # NoName /\ (e.name # NoName => s[i].name <= e.name),
         \A i \in pos .. Len(s) :
           s[i].name # NoName => e.name # NoName /\ e.name <= s[i].name
  PROVE  Ordered(InsertAt(s, pos, e))
<1> DEFINE q == InsertAt(s, pos, e)
<1>1. /\ q \in Seq(OpSampler) /\ Len(q) = Len(s) + 1
      /\ \A i \in 1 .. Len(s) + 1 :
           q[i] = IF i < pos THEN s[i] ELSE IF i = pos THEN e ELSE s[i - 1]
  BY Inserted
<1>2. Len(s) \in Nat /\ DOMAIN s = 1 .. Len(s) /\ DOMAIN q = 1 .. Len(q)
      /\ pos \in Nat /\ 1 <= pos /\ pos <= Len(s) + 1
  BY <1>1
<1> HIDE DEF q
<1>3. ASSUME NEW i \in 1 .. Len(s) + 1, NEW j \in 1 .. Len(s) + 1, i < j, q[j].name # NoName
      PROVE  q[i].name # NoName /\ q[i].name <= q[j].name
  <2>1. CASE j < pos
    <3>1. i \in DOMAIN s /\ j \in DOMAIN s /\ q[i] = s[i] /\ q[j] = s[j]
      BY <1>1, <1>2, <1>3, <2>1
    <3> QED
      BY <1>3, <3>1 DEF Ordered
  <2>2. CASE j = pos
    <3>1. i \in 1 .. pos - 1 /\ q[i] = s[i] /\ q[j] = e
      BY <1>1, <1>2, <1>3, <2>2
    <3> QED
      BY <1>3, <3>1
  <2>3. CASE j > pos
    <3>1. q[j] = s[j - 1] /\ j - 1 \in pos .. Len(s) /\ j - 1 \in DOMAIN s
      BY <1>1, <1>2, <2>3
    <3>2. CASE i < pos
      <4>1. i \in DOMAIN s /\ q[i] = s[i] /\ i < j - 1
        BY <1>1, <1>2, <2>3, <3>2
      <4> QED
        BY <1>3, <3>1, <4>1 DEF Ordered
    <3>3. CASE i = pos
      BY <1>1, <1>3, <3>1, <3>3
    <3>4. CASE i > pos
      <4>1. i - 1 \in DOMAIN s /\ q[i] = s[i - 1] /\ i - 1 < j - 1
        BY <1>1, <1>2, <1>3, <3>4
      <4> QED
        BY <1>3, <3>1, <4>1 DEF Ordered
    <3> QED
      BY <1>2, <3>2, <3>3, <3>4
  <2> QED
    BY <1>2, <2>1, <2>2, <2>3
<1>4. Ordered(q)
  BY <1>1, <1>2, <1>3 DEF Ordered
<1> QED
  BY <1>4 DEF q

\* There is a pointer that no entry has.
LEMMA FreshExists ==
  ASSUME NEW s \in Seq(OpSampler)
  PROVE  /\ FreshPointer(s) \in 1 .. Len(s) + 1
         /\ \A i \in 1 .. Len(s) : s[i].ptr # FreshPointer(s)
<1> DEFINE n == Len(s)
<1>0. n \in Nat /\ DOMAIN s = 1 .. n
  OBVIOUS
<1>1. \E p \in 1 .. n + 1 : p \notin Pointers(s)
  <2> SUFFICES ASSUME \A p \in 1 .. n + 1 : p \in Pointers(s)
               PROVE  FALSE
    OBVIOUS
  <2>1. \A p \in 1 .. n + 1 : \E i \in 1 .. n : s[i].ptr = p
    BY <1>0 DEF Pointers
  <2> DEFINE place == [p \in 1 .. n + 1 |-> CHOOSE i \in 1 .. n : s[i].ptr = p]
  <2>2. \A p \in 1 .. n + 1 : place[p] \in 1 .. n /\ s[place[p]].ptr = p
    BY <2>1
  <2>3. place \in [1 .. n + 1 -> 1 .. n]
    BY <2>2
  <2> HIDE DEF place
  <2>4. /\ IsFiniteSet(1 .. n + 1) /\ IsFiniteSet(1 .. n)
        /\ Cardinality(1 .. n) = n /\ Cardinality(1 .. n + 1) = n + 1
    <3>1. 1 \in Int /\ n \in Int /\ n + 1 \in Int /\ ~(1 > n + 1) /\ (n + 1) - 1 + 1 = n + 1
          /\ (IF 1 > n THEN 0 ELSE n - 1 + 1) = n
      BY <1>0
    <3>2. IsFiniteSet(1 .. n) /\ Cardinality(1 .. n) = IF 1 > n THEN 0 ELSE n - 1 + 1
      BY <3>1, FS_Interval
    <3>3. IsFiniteSet(1 .. n + 1)
          /\ Cardinality(1 .. n + 1) = IF 1 > n + 1 THEN 0 ELSE (n + 1) - 1 + 1
      BY <3>1, FS_Interval
    <3> QED
      BY <3>1, <3>2, <3>3
  <2>5. Cardinality(1 .. n) < Cardinality(1 .. n + 1)
    BY <1>0, <2>4
  <2>6. \E x, y \in 1 .. n + 1 : x # y /\ place[x] = place[y]
    BY <2>3, <2>4, <2>5, FS_PigeonHole
  <2> QED
    BY <2>2, <2>6
<1>2. FreshPointer(s) \in 1 .. n + 1 /\ FreshPointer(s) \notin Pointers(s)
  BY <1>1 DEF FreshPointer
<1>3. FreshPointer(s) # 0
  BY <1>0, <1>2
<1> QED
  BY <1>0, <1>2, <1>3 DEF Pointers

\* A finite set of numbers has an enumeration in strict order: its least
\* number, and then the others'.
Increasing(S) ==
  {q \in [1 .. Cardinality(S) -> S] :
     \A i, j \in 1 .. Cardinality(S) : i < j => q[i] < q[j]}

LEMMA IncreasingExists ==
  ASSUME NEW S \in SUBSET Nat, IsFiniteSet(S)
  PROVE  Increasing(S) # {}
<1> DEFINE T == {n \in Nat : \A U \in SUBSET Nat :
                   IsFiniteSet(U) /\ Cardinality(U) = n => Increasing(U) # {}}
<1>1. 0 \in T
  <2> SUFFICES ASSUME NEW U \in SUBSET Nat, IsFiniteSet(U), Cardinality(U) = 0
               PROVE  Increasing(U) # {}
    OBVIOUS
  <2>1. 1 .. 0 = {}
    OBVIOUS
  <2>2. [i \in 1 .. 0 |-> i] \in [1 .. 0 -> U]
    BY <2>1
  <2>3. [i \in 1 .. 0 |-> i] \in Increasing(U)
    BY <2>1, <2>2 DEF Increasing
  <2> QED
    BY <2>3
<1>2. ASSUME NEW n \in T
      PROVE  n + 1 \in T
  <2> SUFFICES ASSUME NEW U \in SUBSET Nat, IsFiniteSet(U), Cardinality(U) = n + 1
               PROVE  Increasing(U) # {}
    OBVIOUS
  <2>0. n \in Nat /\ U # {}
    <3>1. n \in Nat
      OBVIOUS
    <3> HIDE DEF T
    <3> QED
      BY <3>1, FS_EmptySet
  <2>1. PICK m \in U : \A y \in U : ~(y < m)
    <3>1. IsWellFoundedOn(OpToRel(<, Nat), Nat)
      BY NatLessThanWellFounded
    <3>2. PICK m \in U : \A y \in U : ~(<<y, m>> \in OpToRel(<, Nat))
      BY <2>0, <3>1, WFMin
    <3> QED
      BY <3>2 DEF OpToRel
  <2> DEFINE V == U \ {m}
  <2>2. V \in SUBSET Nat /\ IsFiniteSet(V) /\ Cardinality(V) = n
    <3>1. IsFiniteSet(V) /\ Cardinality(V) = (n + 1) - 1
      BY FS_RemoveElement
    <3> QED
      BY <2>0, <3>1
  <2>3. PICK q \in Increasing(V) : TRUE
    <3>1. Increasing(V) # {}
      <4> HIDE DEF V
      <4> QED
        BY <2>2
    <3> QED
      BY <3>1
  <2>4. q \in [1 .. n -> V] /\ \A i, j \in 1 .. n : i < j => q[i] < q[j]
    BY <2>2, <2>3 DEF Increasing
  <2> DEFINE p == [i \in 1 .. n + 1 |-> IF i = 1 THEN m ELSE q[i - 1]]
  <2>5. \A i \in 1 .. n + 1 : i # 1 => i - 1 \in 1 .. n
    BY <2>0
  <2>6. p \in [1 .. n + 1 -> U]
    BY <2>4, <2>5
  <2>7. ASSUME NEW i \in 1 .. n + 1, NEW j \in 1 .. n + 1, i < j
        PROVE  p[i] < p[j]
    <3>1. j # 1 /\ j - 1 \in 1 .. n /\ p[j] = q[j - 1] /\ q[j - 1] \in V
      BY <2>4, <2>5, <2>7
    <3>2. CASE i = 1
      <4>1. q[j - 1] \in Nat /\ q[j - 1] # m /\ ~(q[j - 1] < m) /\ m \in Nat
        BY <2>1, <3>1
      <4> QED
        BY <3>1, <3>2, <4>1
    <3>3. CASE i # 1
      <4>1. i - 1 \in 1 .. n /\ p[i] = q[i - 1] /\ i - 1 < j - 1
        BY <2>5, <2>7, <3>3
      <4> QED
        BY <2>4, <3>1, <4>1
    <3> QED
      BY <3>2, <3>3
  <2> HIDE DEF p
  <2>8. p \in Increasing(U)
    BY <2>6, <2>7 DEF Increasing
  <2> QED
    BY <2>8
<1>3. T \in SUBSET Nat
  OBVIOUS
<1>4. Cardinality(S) \in Nat
  BY FS_CardinalityType
<1>5. Cardinality(S) \in T
  <2> HIDE DEF T
  <2> QED
    BY <1>1, <1>2, <1>3, <1>4, SetInduction
<1> QED
  BY <1>5

\* What jaeger_vector_sort leaves: every name, once, in strict order.
LEMMA SortedFacts ==
  ASSUME NEW S \in SUBSET Names, IsFiniteSet(S)
  PROVE  LET q == Sorted(S)
             n == Cardinality(S)
         IN /\ n \in Nat /\ q \in [1 .. n -> S] /\ Len(q) = n
            /\ \A i, j \in 1 .. n : i < j => q[i] < q[j]
            /\ \A x \in S : \E i \in 1 .. n : q[i] = x
<1> DEFINE n == Cardinality(S)
           q == Sorted(S)
<1>0. S \in SUBSET Nat
  BY NameAssumption
<1>1. n \in Nat
  BY FS_CardinalityType
<1>2. \E p \in [1 .. n -> S] : \A i, j \in 1 .. n : i < j => p[i] < p[j]
  BY <1>0, IncreasingExists DEF Increasing
<1>3. q \in [1 .. n -> S] /\ \A i, j \in 1 .. n : i < j => q[i] < q[j]
  BY <1>2 DEF Sorted
<1> HIDE DEF q, n
<1>4. \A i, j \in 1 .. n : q[i] = q[j] => i = j
  <2> SUFFICES ASSUME NEW i \in 1 .. n, NEW j \in 1 .. n, i < j, q[i] = q[j]
               PROVE  FALSE
    BY <1>1
  <2>1. q[i] < q[j] /\ q[i] \in Nat /\ q[j] \in Nat
    BY <1>0, <1>3
  <2> QED
    BY <2>1
<1>5. q \in Injection(1 .. n, S)
  BY <1>3, <1>4 DEF Injection, IsInjective
<1>6. IsFiniteSet(1 .. n) /\ Cardinality(1 .. n) = n
  BY <1>1, FS_Interval
<1>7. q \in Surjection(1 .. n, S)
  BY <1>5, <1>6, FS_Injection DEF n
<1>8. \A x \in S : \E i \in 1 .. n : q[i] = x
  BY <1>7 DEF Surjection
<1>9. Len(q) = n
  BY <1>1, <1>3
<1> QED
  BY <1>1, <1>3, <1>8, <1>9 DEF q, n

---------------------------------------------------------------------------
(* What the steps do to the array *)

\* The parts of a strategy for single operations.
LEMMA StrategyTypes ==
  ASSUME NEW s \in Responses, s.case = "per_operation"
  PROVE  /\ DOMAIN s.ops \in SUBSET Names
         /\ IsFiniteSet(DOMAIN s.ops)
         /\ \A name \in DOMAIN s.ops : s.ops[name] \in Rates
         /\ s.default \in Defaults
         /\ s.default.lower \in Nat
<1>1. s \in PerOperation
  BY DEF Responses
<1>2. s.default \in Defaults /\ s.ops \in UNION {[S -> Rates] : S \in Lists}
  BY <1>1 DEF PerOperation
<1>3. PICK S \in Lists : s.ops \in [S -> Rates]
  BY <1>2
<1>4. S \in SUBSET Names /\ IsFiniteSet(S)
  BY DEF Lists
<1>5. \A d \in Defaults : d.lower \in Nat
  BY RateAssumption
<1> QED
  BY <1>2, <1>3, <1>4, <1>5

LEMMA DefaultTypes ==
  ASSUME NEW d \in Defaults
  PROVE  Clamp(d.rate) \in Clamped /\ d.lower \in Nat
BY RateAssumption DEF Clamped

\* An entry that is given other rates keeps its name and its pointer.
LEMMA EntryRates ==
  ASSUME NEW e \in OpSampler, NEW name, strategy.ops[name] \in Rates,
         strategy.default.lower \in Nat
  PROVE  LET d == NewRates(name, e)
         IN /\ d \in OpSampler
            /\ d.name = e.name /\ d.ptr = e.ptr
            /\ d.rate = Clamp(strategy.ops[name]) /\ d.lower = strategy.default.lower
<1> DEFINE r == Clamp(strategy.ops[name])
           l == strategy.default.lower
           d == [e EXCEPT !.rate = r, !.lower = l]
<1>1. r \in Clamped /\ l \in Nat /\ NewRates(name, e) = d
  BY DEF NewRates, Clamped
<1> HIDE DEF r, l
<1>2. d \in OpSampler /\ d.name = e.name /\ d.ptr = e.ptr /\ d.rate = r /\ d.lower = l
  BY <1>1 DEF OpSampler
<1> HIDE DEF d
<1> QED
  BY <1>1, <1>2 DEF r, l

\* The operations the loop of update comes to.
LEMMA TodoTypes ==
  ASSUME IndInv, NEW name \in todo, pc = "loop"
  PROVE  /\ name \in Names
         /\ strategy.ops[name] \in Rates
         /\ strategy.default.lower \in Nat
         /\ strategy.case = "per_operation"
         /\ name \in DOMAIN strategy.ops
<1>1. strategy \in Responses /\ strategy.case = "per_operation" /\ name \in DOMAIN strategy.ops
  BY DEF IndInv, TypeOK, UpdateInv
<1> QED
  BY <1>1, StrategyTypes

\* is_sampled puts an entry for the new name where lower_bound says.
LEMMA NewEntry ==
  ASSUME IndInv, NEW name \in Names, IsSampledNew(name)
  PROVE  LET pos == LowerBound(ops, name)
             e == [name |-> name, ptr |-> FreshPointer(ops), rate |-> Clamp(default.rate),
                   lower |-> default.lower]
         IN /\ pos \in 1 .. Len(ops) + 1
            /\ e \in OpSampler
            /\ ops' = InsertAt(ops, pos, e)
            /\ ops' \in Seq(OpSampler)
            /\ Ordered(ops')
<1> DEFINE pos == LowerBound(ops, name)
           e == [name |-> name, ptr |-> FreshPointer(ops), rate |-> Clamp(default.rate),
                 lower |-> default.lower]
<1>1. ops \in Seq(OpSampler) /\ Ordered(ops) /\ default \in Defaults
  BY DEF IndInv, TypeOK
<1>2. pos # Crashed /\ ops' = InsertAt(ops, pos, e)
  BY DEF IsSampledNew, Insert
<1>3. /\ pos \in 1 .. Len(ops) + 1
      /\ \A i \in 1 .. pos - 1 : ops[i].name # NoName /\ ops[i].name < name
      /\ \A i \in pos .. Len(ops) : ops[i].name # NoName => name <= ops[i].name
  BY <1>1, <1>2, LowerBoundExact
<1>4. FreshPointer(ops) \in Nat
  <2>1. FreshPointer(ops) \in 1 .. Len(ops) + 1
    BY <1>1, FreshExists
  <2> QED
    BY <2>1
<1>5. Clamp(default.rate) \in Clamped /\ default.lower \in Nat
  BY <1>1, DefaultTypes
<1>6. e \in OpSampler /\ e.name = name
  BY <1>4, <1>5 DEF OpSampler
<1> HIDE DEF pos, e
<1>7. ops' \in Seq(OpSampler)
  BY <1>1, <1>2, <1>3, <1>6, Inserted
<1>8. name # NoName /\ name \in Nat
  BY NameAssumption DEF NoName
<1>9. \A i \in 1 .. pos - 1 : i \in 1 .. Len(ops)
  BY <1>1, <1>3
<1>10. \A i \in 1 .. Len(ops) : ops[i].name \in Nat
  BY <1>1, NameTypes
<1>11. \A i \in 1 .. pos - 1 : ops[i].name # NoName /\ (e.name # NoName => ops[i].name <= e.name)
  BY <1>3, <1>6, <1>8, <1>9, <1>10
<1>12. \A i \in pos .. Len(ops) : ops[i].name # NoName => e.name # NoName /\ e.name <= ops[i].name
  BY <1>3, <1>6, <1>8
<1>13. Ordered(ops')
  BY <1>1, <1>2, <1>3, <1>6, <1>11, <1>12, OrderedInsert
<1> QED
  BY <1>2, <1>3, <1>6, <1>7, <1>13 DEF pos, e

\* update gives an entry it finds other rates.
LEMMA FoundEntry ==
  ASSUME IndInv, NEW name \in Names, UpdateFound(name)
  PROVE  /\ ops' \in Seq(OpSampler) /\ Len(ops') = Len(ops)
         /\ \A j \in 1 .. Len(ops) : /\ ops'[j].name = ops[j].name
                                     /\ ops'[j].ptr = ops[j].ptr
                                     /\ ops[j].name # name => ops'[j] = ops[j]
         /\ \E i \in 1 .. Len(ops) : /\ ops'[i].name = name
                                     /\ ops'[i].rate = Clamp(strategy.ops[name])
                                     /\ ops'[i].lower = strategy.default.lower
         /\ Ordered(ops')
<1> DEFINE i == Search(ops, name)
<1>1. /\ ops \in Seq(OpSampler) /\ Ordered(ops) /\ Len(ops) \in Nat
      /\ DOMAIN ops = 1 .. Len(ops)
  BY DEF IndInv, TypeOK
<1>2. /\ i \in DOMAIN ops /\ name \in todo /\ pc = "loop"
      /\ ops' = [ops EXCEPT ![i] = NewRates(name, ops[i])]
  BY DEF UpdateFound, UpdateOne
<1>3. ops[i].name = name
  BY <1>1, <1>2, SearchExact
<1> HIDE DEF i
<1>4. strategy.ops[name] \in Rates /\ strategy.default.lower \in Nat
  BY <1>2, TodoTypes
<1>5. ops[i] \in OpSampler
  BY <1>1, <1>2
<1> DEFINE d == NewRates(name, ops[i])
<1>6. d \in OpSampler /\ d.name = name /\ d.ptr = ops[i].ptr
      /\ d.rate = Clamp(strategy.ops[name]) /\ d.lower = strategy.default.lower
  BY <1>3, <1>4, <1>5, EntryRates
<1> HIDE DEF d
<1>7. ops' \in Seq(OpSampler) /\ Len(ops') = Len(ops)
      /\ \A j \in 1 .. Len(ops) : ops'[j] = IF j = i THEN d ELSE ops[j]
  BY <1>1, <1>2, <1>6 DEF d
<1>8. \A j \in 1 .. Len(ops) : /\ ops'[j].name = ops[j].name
                               /\ ops'[j].ptr = ops[j].ptr
                               /\ ops[j].name # name => ops'[j] = ops[j]
  BY <1>3, <1>6, <1>7
<1>9. DOMAIN ops' = DOMAIN ops
  BY <1>1, <1>7
<1>10. Ordered(ops')
  BY <1>1, <1>8, <1>9 DEF Ordered
<1> QED
  BY <1>1, <1>2, <1>6, <1>7, <1>8, <1>10

\* update puts an entry for a name it does not find where lower_bound says,
\* but the entry's own name is that of the entry it pushes up, or none.
LEMMA InsertEntry ==
  ASSUME IndInv, NEW name \in Names, UpdateInsert(name)
  PROVE  ops' \in Seq(OpSampler) /\ Ordered(ops')
<1> DEFINE pos == LowerBound(ops, name)
           e == StaleSlot(pos)
           d == NewRates(name, e)
<1>1. /\ ops \in Seq(OpSampler) /\ Ordered(ops) /\ Len(ops) \in Nat
      /\ DOMAIN ops = 1 .. Len(ops) /\ default \in Defaults
  BY DEF IndInv, TypeOK
<1>2. name \in todo /\ pc = "loop" /\ pos # Crashed /\ ops' = InsertAt(ops, pos, d)
  BY DEF UpdateInsert, UpdateOne, Insert
<1>3. /\ pos \in 1 .. Len(ops) + 1
      /\ \A i \in 1 .. pos - 1 : ops[i].name # NoName
  BY <1>1, <1>2, LowerBoundExact
<1> HIDE DEF pos
<1>4. e \in OpSampler /\ e.name = IF pos \in DOMAIN ops THEN ops[pos].name ELSE NoName
  <2>1. CASE pos \in DOMAIN ops
    BY <1>1, <2>1 DEF StaleSlot
  <2>2. CASE pos \notin DOMAIN ops
    <3>1. Clamp(default.rate) \in Clamped /\ default.lower \in Nat
      BY <1>1, DefaultTypes
    <3> QED
      BY <2>2, <3>1 DEF StaleSlot, OpSampler
  <2> QED
    BY <2>1, <2>2
<1> HIDE DEF e
<1>5. strategy.ops[name] \in Rates /\ strategy.default.lower \in Nat
  BY <1>2, TodoTypes
<1>6. d \in OpSampler /\ d.name = e.name
  BY <1>4, <1>5, EntryRates
<1> HIDE DEF d
<1>7. ops' \in Seq(OpSampler)
  BY <1>1, <1>2, <1>3, <1>6, Inserted
<1>8. ASSUME NEW i \in 1 .. pos - 1
      PROVE  ops[i].name # NoName /\ (d.name # NoName => ops[i].name <= d.name)
  <2>1. CASE pos \in DOMAIN ops
    <3>1. i \in DOMAIN ops /\ i < pos
      BY <1>1, <1>3
    <3> QED
      BY <1>1, <1>3, <1>4, <1>6, <2>1, <3>1 DEF Ordered
  <2>2. CASE pos \notin DOMAIN ops
    BY <1>3, <1>4, <1>6, <2>2
  <2> QED
    BY <2>1, <2>2
<1>9. ASSUME NEW i \in pos .. Len(ops), ops[i].name # NoName
      PROVE  d.name # NoName /\ d.name <= ops[i].name
  <2>1. pos \in DOMAIN ops /\ i \in DOMAIN ops /\ (pos = i \/ pos < i)
    BY <1>1, <1>3
  <2>2. d.name = ops[pos].name /\ ops[pos].name \in Nat
    BY <1>1, <1>4, <1>6, <2>1, NameTypes
  <2> QED
    BY <1>1, <1>9, <2>1, <2>2 DEF Ordered
<1>10. Ordered(ops')
  BY <1>1, <1>2, <1>3, <1>6, <1>8, <1>9, OrderedInsert
<1> QED
  BY <1>7, <1>10

\* samplers_from_strategies makes one entry for each operation listed.
LEMMA InitEntries ==
  ASSUME strategy \in Responses, strategy.case = "per_operation"
  PROVE  LET q == SamplersFromStrategies
         IN /\ q \in Seq(OpSampler)
            /\ \A i \in 1 .. Len(q) : q[i].name # NoName
            /\ \A i, j \in 1 .. Len(q) :
                 i < j => q[i].name < q[j].name
            /\ \A i, j \in 1 .. Len(q) : i # j => q[i].ptr # q[j].ptr
            /\ \A name \in DOMAIN strategy.ops : \E i \in 1 .. Len(q) :
                 /\ q[i].name = name
                 /\ q[i].rate = Clamp(strategy.ops[name])
                 /\ q[i].lower = strategy.default.lower
            /\ Ordered(q)
<1> DEFINE S == DOMAIN strategy.ops
           names == Sorted(S)
           n == Cardinality(S)
           q == [i \in 1 .. n |->
                  [name |-> names[i], ptr |-> i, rate |-> Clamp(strategy.ops[names[i]]),
                   lower |-> strategy.default.lower]]
<1>1. /\ S \in SUBSET Names /\ IsFiniteSet(S)
      /\ \A name \in S : Clamp(strategy.ops[name]) \in Clamped
      /\ strategy.default.lower \in Nat
  BY StrategyTypes DEF Clamped
<1>2. /\ n \in Nat /\ names \in [1 .. n -> S] /\ Len(names) = n
      /\ \A i, j \in 1 .. n : i < j => names[i] < names[j]
      /\ \A x \in S : \E i \in 1 .. n : names[i] = x
  BY <1>1, SortedFacts
<1>3. q = SamplersFromStrategies
  BY <1>2 DEF SamplersFromStrategies
<1> HIDE DEF names, n
<1>4. \A i \in 1 .. n : /\ q[i].name = names[i] /\ q[i].ptr = i
                        /\ q[i].rate = Clamp(strategy.ops[names[i]])
                        /\ q[i].lower = strategy.default.lower
                        /\ names[i] \in S
  BY <1>2
<1>5. \A i \in 1 .. n : q[i] \in OpSampler
  BY <1>1, <1>2 DEF OpSampler
<1>6. q \in Seq(OpSampler) /\ Len(q) = n /\ DOMAIN q = 1 .. n
  BY <1>2, <1>5
<1> HIDE DEF q
<1>7. \A x \in S : x # NoName /\ x \in Nat
  BY <1>1, NameAssumption DEF NoName
<1>8. Ordered(q)
  BY <1>2, <1>4, <1>6, <1>7 DEF Ordered
<1> QED
  BY <1>2, <1>3, <1>4, <1>6, <1>7, <1>8, SMTT(30)

---------------------------------------------------------------------------
(* The inductive invariant *)

LEMMA SamplerInit == Init => IndInv
<1> SUFFICES ASSUME Init
             PROVE  IndInv
  OBVIOUS
<1>1. default \in Defaults
  BY RateAssumption DEF Init
<1>2. strategy \in Responses
  BY DEF Init, Responses
<1>3. ops = <<>> /\ ops \in Seq(OpSampler) /\ DOMAIN ops = {}
  BY DEF Init
<1>4. updates \in 0 .. MaxUpdates
  BY BoundAssumption DEF Init
<1>5. TypeOK
  BY <1>1, <1>2, <1>3, <1>4 DEF Init, TypeOK
<1>6. Ordered(ops) /\ StrictOrder
  BY <1>3 DEF Ordered, StrictOrder, Named, NamesOwned
<1>7. pc = "idle" /\ type = "probabilistic" /\ strategy.case = "probabilistic"
  BY DEF Init
<1>8. CalmInv /\ UpdateInv
  BY <1>6, <1>7 DEF CalmInv, Adaptive, UpdateInv
<1> QED
  BY <1>5, <1>6, <1>8 DEF IndInv

\* The parts that hold in every environment.
Basic == TypeOK /\ Ordered(ops) /\ UpdateInv

LEMMA BasicStep ==
  ASSUME IndInv, [Next]_vars
  PROVE  Basic'
<1> USE DEF Basic, TypeOK, UpdateInv, sampler, manager, updating
<1>0. Basic
  BY DEF IndInv
<1>1. ASSUME NEW name \in Names, IsSampledNew(name)
      PROVE  Basic'
  <2>1. ops' \in Seq(OpSampler) /\ Ordered(ops')
    BY <1>1, NewEntry
  <2> QED
    BY <1>0, <1>1, <2>1 DEF IsSampledNew
<1>2. CASE Crash
  BY <1>0, <1>2 DEF Crash
<1>3. CASE Request
  BY <1>0, <1>3 DEF Request
<1>4. ASSUME NEW s \in Responses, GoodAnswer(s)
      PROVE  Basic'
  <2>1. /\ strategy' = s /\ pc' = "apply" /\ query' = "ok" /\ updates' = updates + 1
        /\ pc = "reading"
        /\ UNCHANGED <<sampler, connection, parser, todo, success, status, environment>>
    BY <1>4 DEF GoodAnswer
  <2>2. updates' \in 0 .. MaxUpdates
    BY <1>0, <2>1, BoundAssumption
  <2> QED
    BY <1>0, <2>1, <2>2
<1>5. ASSUME NEW how \in {"bad", "refused"}, QueryFails(how),
             connection' \in {"open", "closed"}, parser' \in {"ready", "broken"}
      PROVE  Basic'
  BY <1>0, <1>5 DEF QueryFails
<1>6. CASE ApplyOther
  <2>1. ops' = <<>> /\ ops' \in Seq(OpSampler) /\ Ordered(ops')
    BY <1>6 DEF ApplyOther, Ordered
  <2> QED
    BY <1>0, <1>6, <2>1 DEF ApplyOther, Applies
<1>7. CASE ApplyInit
  <2>1. strategy \in Responses /\ strategy.case = "per_operation"
    BY <1>0, <1>7 DEF ApplyInit, Applies
  <2>2. ops' \in Seq(OpSampler) /\ Ordered(ops')
    BY <1>7, <2>1, InitEntries DEF ApplyInit
  <2>3. default' \in Defaults
    BY <1>7, <2>1, StrategyTypes DEF ApplyInit
  <2> QED
    BY <1>0, <1>7, <2>2, <2>3 DEF ApplyInit
<1>8. CASE ApplyInitFail
  BY <1>0, <1>8 DEF ApplyInitFail
<1>9. CASE ApplyUpdate
  <2>1. strategy \in Responses /\ strategy.case = "per_operation"
    BY <1>0, <1>9 DEF ApplyUpdate, Applies
  <2>2. DOMAIN strategy.ops \subseteq Names
    BY <2>1, StrategyTypes
  <2> QED
    BY <1>0, <1>9, <2>1, <2>2 DEF ApplyUpdate
<1>10. ASSUME NEW name \in Names, UpdateOne(name), ops' \in Seq(OpSampler), Ordered(ops'),
              success' \in BOOLEAN
       PROVE  Basic'
  BY <1>0, <1>10 DEF UpdateOne
<1>11. ASSUME NEW name \in Names, UpdateFound(name)
       PROVE  Basic'
  <2>1. ops' \in Seq(OpSampler) /\ Ordered(ops')
    BY <1>11, FoundEntry
  <2> QED
    BY <1>0, <1>10, <1>11, <2>1 DEF UpdateFound
<1>12. ASSUME NEW name \in Names, UpdateInsert(name)
       PROVE  Basic'
  <2>1. ops' \in Seq(OpSampler) /\ Ordered(ops')
    BY <1>12, InsertEntry
  <2> QED
    BY <1>0, <1>10, <1>12, <2>1 DEF UpdateInsert
<1>13. ASSUME NEW name \in Names, UpdateNoMemory(name)
       PROVE  Basic'
  BY <1>0, <1>10, <1>13 DEF UpdateNoMemory
<1>14. CASE UpdateDone
  BY <1>0, <1>14 DEF UpdateDone
<1>15. CASE Destroy
  <2>1. ops' = <<>> /\ ops' \in Seq(OpSampler) /\ Ordered(ops')
    BY <1>15 DEF Destroy, Ordered
  <2> QED
    BY <1>0, <1>15, <2>1 DEF Destroy
<1>16. CASE UNCHANGED vars
  BY <1>0, <1>16 DEF vars
<1>17. CASE Read
  <2>1. connection \in {"open", "closed"} /\ parser \in {"ready", "broken"}
    BY <1>0
  <2> QED
    BY <1>2, <1>4, <1>5, <1>17, <2>1
       DEF Read, GoodAnswerRefused, BadJson, BadHttp, NoConnection, AnswerCrash
<1>18. CASE Apply
  BY <1>2, <1>6, <1>7, <1>8, <1>9, <1>11, <1>12, <1>13, <1>14, <1>18
     DEF Apply, DestroyCrash, ApplyUninitialised, UpdateCrash
<1>19. CASE \E name \in Names : IsSampledNew(name) \/ IsSampledCrash(name)
  BY <1>1, <1>2, <1>19 DEF IsSampledCrash
<1> QED
  BY <1>3, <1>15, <1>16, <1>17, <1>18, <1>19 DEF Next

---------------------------------------------------------------------------
(* Without stress *)

\* What depends on the array alone, or on it and the strategy.
LEMMA SameArray ==
  ASSUME ops' = ops
  PROVE  /\ StrictOrder' <=> StrictOrder
         /\ Known' = Known
         /\ strategy' = strategy => \A name : Rated(name)' <=> Rated(name)
<1>1. StrictOrder' <=> StrictOrder
  BY DEF StrictOrder, Named, NamesOwned
<1>2. Known' = Known
  BY DEF Known
<1>3. strategy' = strategy => \A name : Rated(name)' <=> Rated(name)
  BY DEF Rated
<1> QED
  BY <1>1, <1>2, <1>3

\* A new entry with a name of its own keeps the strict order, and nothing is
\* lost.
LEMMA CalmNew ==
  ASSUME IndInv, CalmInv, ~MallocMayFail, NEW name \in Names, IsSampledNew(name)
  PROVE  /\ StrictOrder'
         /\ Known \subseteq Known'
         /\ \A n : Rated(n) => Rated(n)'
<1> DEFINE pos == LowerBound(ops, name)
           e == [name |-> name, ptr |-> FreshPointer(ops), rate |-> Clamp(default.rate),
                 lower |-> default.lower]
           len == Len(ops)
<1>1. /\ ops \in Seq(OpSampler) /\ Ordered(ops) /\ len \in Nat /\ DOMAIN ops = 1 .. len
  BY DEF IndInv, TypeOK
<1>2. /\ pos \in 1 .. len + 1 /\ e \in OpSampler /\ ops' = InsertAt(ops, pos, e)
  BY NewEntry
<1>3. /\ \A i \in 1 .. pos - 1 : ops[i].name < name
      /\ \A i \in pos .. len : ops[i].name # NoName => name <= ops[i].name
  BY <1>1, <1>2, LowerBoundExact DEF Crashed
<1>4. \A i \in 1 .. len : ops[i].name # name
  BY <1>1, SearchExact DEF IsSampledNew, NotFound
<1>5. \A i \in 1 .. len : ops[i].ptr # FreshPointer(ops)
  BY <1>1, FreshExists
<1>6. e.name = name /\ e.ptr = FreshPointer(ops)
  OBVIOUS
<1>7. name # NoName /\ name \in Nat /\ strategy' = strategy
  BY NameAssumption DEF NoName, IsSampledNew, updating
<1>8. /\ \A i \in 1 .. len : ops[i].name # NoName /\ ops[i].name \in Nat
      /\ \A i, j \in 1 .. len : i < j => ops[i].name < ops[j].name
      /\ \A i, j \in 1 .. len : i # j /\ ops[i].ptr # 0 => ops[i].ptr # ops[j].ptr
  BY <1>1, NameTypes DEF CalmInv, StrictOrder, Named, NamesOwned
<1> HIDE DEF pos, e, len
<1>9. /\ ops' \in Seq(OpSampler) /\ Len(ops') = len + 1 /\ DOMAIN ops' = 1 .. len + 1
      /\ \A i \in 1 .. len + 1 :
           ops'[i] = IF i < pos THEN ops[i] ELSE IF i = pos THEN e ELSE ops[i - 1]
  <2>1. /\ ops' \in Seq(OpSampler) /\ Len(ops') = len + 1
        /\ \A i \in 1 .. len + 1 :
             ops'[i] = IF i < pos THEN ops[i] ELSE IF i = pos THEN e ELSE ops[i - 1]
    <3> DEFINE q == InsertAt(ops, pos, e)
    <3>1. /\ ops \in Seq(OpSampler) /\ pos \in 1 .. Len(ops) + 1
          /\ e \in OpSampler /\ ops' = q
      BY <1>1, <1>2 DEF len
    <3>2. q \in Seq(OpSampler) /\ Len(q) = Len(ops) + 1
      BY <3>1, Inserted
    <3>3. ASSUME NEW i \in 1 .. Len(ops) + 1
          PROVE  q[i] = IF i < pos THEN ops[i] ELSE IF i = pos THEN e ELSE ops[i - 1]
      BY <3>1, <3>3, InsertedAt
    <3> HIDE DEF q
    <3> QED
      BY <3>1, <3>2, <3>3 DEF len
  <2> QED
    BY <2>1
\* Every old entry has a place in the new array, and only e is new there.
<1> DEFINE up(i) == IF i < pos THEN i ELSE i + 1
           down(i) == IF i < pos THEN i ELSE i - 1
<1>10. \A i \in 1 .. len : up(i) \in 1 .. len + 1 /\ ops'[up(i)] = ops[i]
  <2> SUFFICES ASSUME NEW i \in 1 .. len
               PROVE  up(i) \in 1 .. len + 1 /\ ops'[up(i)] = ops[i]
    OBVIOUS
  <2>1. CASE i < pos
    BY <1>1, <1>2, <1>9, <2>1
  <2>2. CASE ~(i < pos)
    <3>1. i + 1 \in 1 .. len + 1 /\ ~(i + 1 < pos) /\ i + 1 # pos /\ (i + 1) - 1 = i
      BY <1>1, <1>2, <2>2
    <3> QED
      BY <1>9, <2>2, <3>1
  <2> QED
    BY <2>1, <2>2
<1>11. ASSUME NEW i \in 1 .. len + 1, i # pos
       PROVE  down(i) \in 1 .. len /\ ops'[i] = ops[down(i)]
              /\ (down(i) < pos <=> i < pos)
  BY <1>1, <1>2, <1>9, <1>11
<1>12. ops'[pos] = e
  BY <1>2, <1>9
<1>13. ASSUME NEW i \in 1 .. len + 1, NEW j \in 1 .. len + 1, i < j
       PROVE  ops'[i].name < ops'[j].name
  <2>1. CASE i # pos /\ j # pos
    <3>1. down(i) < down(j)
      BY <1>1, <1>2, <1>13, <2>1
    <3> QED
      BY <1>8, <1>11, <2>1, <3>1
  <2>2. CASE i = pos
    <3>1. j # pos /\ down(j) \in pos .. len
      BY <1>1, <1>2, <1>13, <2>2
    <3>2. name <= ops[down(j)].name /\ ops[down(j)].name # name /\ ops[down(j)].name \in Nat
      BY <1>3, <1>4, <1>8, <1>11, <3>1
    <3> QED
      BY <1>6, <1>7, <1>11, <1>12, <2>2, <3>1, <3>2
  <2>3. CASE j = pos
    <3>1. i # pos /\ i \in 1 .. pos - 1 /\ down(i) = i
      BY <1>1, <1>2, <1>13, <2>3
    <3> QED
      BY <1>3, <1>6, <1>11, <1>12, <2>3, <3>1
  <2> QED
    BY <2>1, <2>2, <2>3
<1>14. ASSUME NEW i \in 1 .. len + 1, NEW j \in 1 .. len + 1, i # j, ops'[i].ptr # 0
       PROVE  ops'[i].ptr # ops'[j].ptr
  <2>1. CASE i # pos /\ j # pos
    <3>1. down(i) # down(j)
      BY <1>1, <1>2, <1>14, <2>1
    <3> QED
      BY <1>8, <1>11, <1>14, <2>1, <3>1
  <2>2. CASE i = pos
    BY <1>5, <1>6, <1>11, <1>12, <1>14, <2>2
  <2>3. CASE j = pos
    BY <1>5, <1>6, <1>11, <1>12, <1>14, <2>3
  <2> QED
    BY <2>1, <2>2, <2>3
<1>15. \A i \in 1 .. len + 1 : ops'[i].name # NoName
  BY <1>6, <1>7, <1>8, <1>11, <1>12
<1> HIDE DEF up, down
<1>16. StrictOrder'
  BY <1>9, <1>13, <1>14, <1>15 DEF StrictOrder, Named, NamesOwned
<1>17. Known \subseteq Known'
  BY <1>1, <1>9, <1>10 DEF Known
<1>18. \A n : Rated(n) => Rated(n)'
  BY <1>1, <1>7, <1>9, <1>10, SMTT(30) DEF Rated
<1> QED
  BY <1>16, <1>17, <1>18

LEMMA CalmStep ==
  ASSUME IndInv, [Next]_vars, ~MallocMayFail, ~NewMayCome
  PROVE  CalmInv'
<1> USE DEF sampler, manager, updating
<1>0. CalmInv /\ TypeOK /\ UpdateInv
  BY DEF IndInv
<1>1. ASSUME NEW name \in Names, IsSampledNew(name)
      PROVE  CalmInv'
  <2>1. StrictOrder' /\ Known \subseteq Known' /\ \A n : Rated(n) => Rated(n)'
    BY <1>0, <1>1, CalmNew
  <2>2. UNCHANGED <<type, ready, pc, strategy, todo, status>> /\ pc # "loop"
    BY <1>1 DEF IsSampledNew
  <2> QED
    BY <1>0, <2>1, <2>2 DEF CalmInv, Adaptive
<1>2. CASE Crash
  <2>1. UNCHANGED <<type, ready, ops, pc, strategy, todo>> /\ status' = "crashed"
    BY <1>2 DEF Crash
  <2> QED
    BY <1>0, <2>1, SameArray DEF CalmInv, Adaptive
<1>3. CASE Request
  <2>1. UNCHANGED <<type, ready, ops, strategy, todo, status>> /\ pc = "idle" /\ pc' = "reading"
    BY <1>3 DEF Request
  <2> QED
    BY <1>0, <2>1, SameArray DEF CalmInv, Adaptive
<1>4. ASSUME NEW s \in Responses, GoodAnswer(s)
      PROVE  CalmInv'
  <2>1. /\ UNCHANGED <<type, ready, ops, todo, status>> /\ pc' = "apply" /\ strategy' = s
        /\ Adaptive /\ s.case = "per_operation" => DOMAIN s.ops \subseteq Known
    BY <1>4 DEF GoodAnswer, Known
  <2> QED
    BY <1>0, <2>1, SameArray DEF CalmInv, Adaptive
<1>5. ASSUME NEW how, QueryFails(how)
      PROVE  CalmInv'
  <2>1. UNCHANGED <<type, ready, ops, strategy, todo, status>> /\ pc = "reading" /\ pc' = "idle"
    BY <1>5 DEF QueryFails
  <2> QED
    BY <1>0, <2>1, SameArray DEF CalmInv, Adaptive
<1>6. CASE ApplyOther
  <2>1. ops' = <<>> /\ DOMAIN ops' = {} /\ pc' = "idle" /\ type' # "adaptive"
    BY <1>6 DEF ApplyOther, Applies
  <2>2. StrictOrder'
    BY <2>1 DEF StrictOrder, Named, NamesOwned
  <2> QED
    BY <2>1, <2>2 DEF CalmInv, Adaptive
<1>7. CASE ApplyInit
  <2> DEFINE q == SamplersFromStrategies
  <2>1. strategy \in Responses /\ strategy.case = "per_operation"
    BY <1>0, <1>7 DEF ApplyInit, Applies, TypeOK
  <2>2. ops' = q /\ pc' = "idle" /\ ready' = TRUE /\ strategy' = strategy
    BY <1>7 DEF ApplyInit
  <2>3. /\ q \in Seq(OpSampler)
        /\ \A i \in 1 .. Len(q) : q[i].name # NoName
        /\ \A i, j \in 1 .. Len(q) : i < j => q[i].name < q[j].name
        /\ \A i, j \in 1 .. Len(q) : i # j => q[i].ptr # q[j].ptr
        /\ \A name \in DOMAIN strategy.ops : \E i \in 1 .. Len(q) :
             /\ q[i].name = name
             /\ q[i].rate = Clamp(strategy.ops[name])
             /\ q[i].lower = strategy.default.lower
    BY <2>1, InitEntries
  <2>4. DOMAIN q = 1 .. Len(q)
    BY <2>3
  <2> HIDE DEF q
  <2>5. StrictOrder'
    BY <2>2, <2>3, <2>4 DEF StrictOrder, Named, NamesOwned
  <2>6. \A name \in DOMAIN strategy.ops : Rated(name)'
    BY <2>2, <2>3, <2>4 DEF Rated
  <2> QED
    BY <2>2, <2>5, <2>6 DEF CalmInv
<1>8. ~ApplyInitFail
  BY DEF ApplyInitFail
<1>9. CASE ApplyUpdate
  <2>1. /\ UNCHANGED <<type, ready, ops, strategy, status>> /\ pc = "apply" /\ pc' = "loop"
        /\ todo' = DOMAIN strategy.ops /\ Adaptive /\ strategy.case = "per_operation"
    BY <1>9 DEF ApplyUpdate, Applies
  <2> QED
    BY <1>0, <2>1, SameArray DEF CalmInv, Adaptive
<1>10. ASSUME NEW name \in Names, UpdateFound(name)
       PROVE  CalmInv'
  <2>1. /\ UNCHANGED <<type, ready, strategy, status, pc>> /\ pc = "loop"
        /\ todo' = todo \ {name} /\ Adaptive
    BY <1>0, <1>10 DEF UpdateFound, UpdateOne, Adaptive, CalmInv
  <2>2. /\ ops' \in Seq(OpSampler) /\ Len(ops') = Len(ops)
        /\ \A j \in 1 .. Len(ops) : /\ ops'[j].name = ops[j].name
                                    /\ ops'[j].ptr = ops[j].ptr
                                    /\ ops[j].name # name => ops'[j] = ops[j]
        /\ \E i \in 1 .. Len(ops) : /\ ops'[i].name = name
                                    /\ ops'[i].rate = Clamp(strategy.ops[name])
                                    /\ ops'[i].lower = strategy.default.lower
    BY <1>10, FoundEntry
  <2>3. DOMAIN ops = 1 .. Len(ops) /\ DOMAIN ops' = 1 .. Len(ops)
    BY <1>0, <2>2 DEF TypeOK
  <2>4. StrictOrder' /\ Known' = Known
    BY <1>0, <2>2, <2>3 DEF CalmInv, StrictOrder, Named, NamesOwned, Known
  <2>5. Rated(name)'
    BY <2>1, <2>2, <2>3 DEF Rated
  <2>6. ASSUME NEW n, n # name, Rated(n)
        PROVE  Rated(n)'
    BY <2>1, <2>2, <2>3, <2>6 DEF Rated
  <2> QED
    BY <1>0, <2>1, <2>4, <2>5, <2>6 DEF CalmInv, Adaptive
<1>11. ASSUME NEW name \in Names, UpdateOne(name)
       PROVE  ~NotFound(name)
  <2>1. pc = "loop" /\ name \in DOMAIN strategy.ops /\ Adaptive /\ strategy.case = "per_operation"
    BY <1>0, <1>11 DEF UpdateOne, UpdateInv, Adaptive, CalmInv
  <2>2. name \in Known
    BY <1>0, <2>1 DEF CalmInv
  <2>3. ops \in Seq(OpSampler) /\ Ordered(ops) /\ DOMAIN ops = 1 .. Len(ops)
    BY DEF IndInv, TypeOK
  <2> QED
    BY <2>2, <2>3, SearchExact DEF NotFound, Known
<1>12. CASE UpdateDone
  <2>1. /\ UNCHANGED <<type, ready, ops, strategy, status, todo>> /\ pc = "loop" /\ pc' = "idle"
        /\ todo = {}
    BY <1>12 DEF UpdateDone
  <2> QED
    BY <1>0, <2>1, SameArray DEF CalmInv, Adaptive
<1>13. CASE Destroy
  <2>1. ops' = <<>> /\ DOMAIN ops' = {} /\ status' # "running" /\ pc' = "idle"
    BY <1>13 DEF Destroy
  <2>2. StrictOrder'
    BY <2>1 DEF StrictOrder, Named, NamesOwned
  <2> QED
    BY <2>1, <2>2 DEF CalmInv, Adaptive
<1>14. CASE UNCHANGED vars
  <2>1. UNCHANGED <<type, ready, ops, strategy, status, todo, pc>>
    BY <1>14 DEF vars
  <2> QED
    BY <1>0, <2>1, SameArray DEF CalmInv, Adaptive
<1>15. CASE Read
  BY <1>2, <1>4, <1>5, <1>15
     DEF Read, GoodAnswerRefused, BadJson, BadHttp, NoConnection, AnswerCrash
<1>16. CASE Apply
  BY <1>2, <1>6, <1>7, <1>8, <1>9, <1>10, <1>11, <1>12, <1>16
     DEF Apply, DestroyCrash, ApplyUninitialised, UpdateInsert, UpdateNoMemory, UpdateCrash
<1>17. CASE \E name \in Names : IsSampledNew(name) \/ IsSampledCrash(name)
  BY <1>1, <1>2, <1>17 DEF IsSampledCrash
<1> QED
  BY <1>3, <1>13, <1>14, <1>15, <1>16, <1>17 DEF Next

\* Nothing changes what can happen in a run of the program.
LEMMA SameEnvironment ==
  ASSUME [Next]_vars
  PROVE  environment' = environment
BY DEF Next, vars, sampler, manager, updating, Crash, IsSampledNew, IsSampledCrash,
       Request, Read, GoodAnswer, GoodAnswerRefused, BadJson, BadHttp, NoConnection,
       AnswerCrash, QueryFails, Apply, DestroyCrash, ApplyOther, ApplyInit,
       ApplyInitFail, ApplyUninitialised, ApplyUpdate, UpdateOne, UpdateFound,
       UpdateInsert, UpdateNoMemory, UpdateCrash, UpdateDone, Destroy

---------------------------------------------------------------------------
(* Theorems *)

\* IndInv holds in every state of the remotely controlled sampler, whatever
\* the server answers, is_sampled is asked and malloc refuses (sampler.c).
THEOREM SamplerInvariant == Spec => []IndInv
<1>1. Init => IndInv
  BY SamplerInit
<1>2. IndInv /\ [Next]_vars => IndInv'
  <2> SUFFICES ASSUME IndInv, [Next]_vars
               PROVE  IndInv'
    OBVIOUS
  <2>1. Basic'
    BY BasicStep
  <2>2. environment' = environment
    BY SameEnvironment
  <2>3. ~MallocMayFail' /\ ~NewMayCome' => CalmInv'
    BY <2>2, CalmStep DEF MallocMayFail, NewMayCome
  <2> QED
    BY <2>1, <2>3 DEF IndInv, Basic
<1> QED
  BY <1>1, <1>2, PTL DEF Spec

\* Every field of the sampler, of the HTTP manager and of update keeps its
\* type; a pointer of the array is valid or NULL (jaeger_vector_insert).
THEOREM SamplerTypeCorrect == Spec => []TypeOK
<1>1. IndInv => TypeOK
  BY DEF IndInv
<1> QED
  BY <1>1, SamplerInvariant, PTL

\* The two binary searches agree with what they look for on every array the
\* sampler ever has: also with names that belong to the neighbour, and with
\* nameless entries at the end (bsearch, jaeger_vector_lower_bound).
THEOREM SamplerSearchesExact == Spec => []SearchesExact
<1>1. IndInv => SearchesExact
  <2> SUFFICES ASSUME IndInv
               PROVE  SearchesExact
    OBVIOUS
  <2>1. ops \in Seq(OpSampler) /\ Ordered(ops) /\ DOMAIN ops = 1 .. Len(ops) /\ Len(ops) \in Nat
    BY DEF IndInv, TypeOK
  <2>2. \A i, j \in Named : i < j => ops[i].name <= ops[j].name
    BY <2>1 DEF Named, Ordered
  <2>3. \A i \in DOMAIN ops \ Named, j \in Named : j < i
    <3> SUFFICES ASSUME NEW i \in DOMAIN ops \ Named, NEW j \in Named, ~(j < i)
                 PROVE  FALSE
      OBVIOUS
    <3>1. i \in DOMAIN ops /\ j \in DOMAIN ops /\ i # j /\ i \in Nat /\ j \in Nat
          /\ ops[i].name = NoName /\ ops[j].name # NoName
      BY <2>1 DEF Named
    <3>2. i < j
      BY <3>1
    <3> QED
      BY <2>1, <3>1, <3>2 DEF Ordered
  <2>4. ASSUME NEW name \in Names
        PROVE  LET found == Search(ops, name)
                   pos == LowerBound(ops, name)
               IN  /\ found = 0 => \A i \in Named : ops[i].name # name
                   /\ found > 0 => ops[found].name = name
                   /\ pos > 0 => \A i \in Named : ops[i].name < name <=> i < pos
    <3> DEFINE found == Search(ops, name)
               pos == LowerBound(ops, name)
    <3>1. /\ found \in {Crashed} \cup 0 .. Len(ops)
          /\ found = 0 => \A i \in 1 .. Len(ops) : ops[i].name # name
          /\ found \in 1 .. Len(ops) => ops[found].name = name
      BY <2>1, SearchExact
    <3>2. /\ pos \in {Crashed} \cup 1 .. Len(ops) + 1
          /\ pos # Crashed =>
               /\ \A i \in 1 .. pos - 1 : ops[i].name # NoName /\ ops[i].name < name
               /\ \A i \in pos .. Len(ops) : ops[i].name # NoName => name <= ops[i].name
      BY <2>1, LowerBoundExact
    <3> HIDE DEF found, pos
    <3>3. found > 0 => found \in 1 .. Len(ops)
      BY <2>1, <3>1 DEF Crashed
    <3>4. ASSUME pos > 0, NEW i \in Named
          PROVE  ops[i].name < name <=> i < pos
      <4>1. pos # Crashed /\ pos \in Nat /\ i \in 1 .. Len(ops) /\ ops[i].name # NoName
        BY <2>1, <3>2, <3>4 DEF Crashed, Named
      <4>2. i \in 1 .. pos - 1 \/ i \in pos .. Len(ops)
        BY <2>1, <4>1
      <4>3. ops[i].name \in Nat /\ name \in Nat
        BY <2>1, <4>1, NameTypes, NameAssumption
      <4> QED
        BY <3>2, <4>1, <4>2, <4>3
    <3> QED
      BY <2>1, <3>1, <3>3, <3>4 DEF found, pos, Named
  <2> QED
    BY <2>2, <2>3, <2>4 DEF SearchesExact
<1> QED
  BY <1>1, SamplerInvariant, PTL

\* With memory to spare and a server that lists known operations only, the
\* array has one named entry per operation, in strict order and with a name of
\* its own, and a sampler of adaptive type is an initialised one.
THEOREM SamplerStrictOrder == Spec => []StrictOrderUnlessStressed
<1>1. IndInv => StrictOrderUnlessStressed
  BY DEF IndInv, CalmInv, StrictOrderUnlessStressed
<1> QED
  BY <1>1, SamplerInvariant, PTL

\* Under the same conditions every operation of the last update is found with
\* the rate and the lower bound it was given, whatever other operations
\* is_sampled adds (jaeger_adaptive_sampler_update).
THEOREM SamplerListedRates == Spec => []ListedRatesApply
<1>1. IndInv => ListedRatesApply
  <2> SUFFICES ASSUME IndInv, ~MallocMayFail, ~NewMayCome, Adaptive,
                      pc \in {"idle", "reading"}, strategy.case = "per_operation",
                      NEW name \in DOMAIN strategy.ops
               PROVE  LET i == Search(ops, name)
                      IN  /\ i \in DOMAIN ops
                          /\ ops[i].rate = Clamp(strategy.ops[name])
                          /\ ops[i].lower = strategy.default.lower
    BY DEF ListedRatesApply
  <2>1. /\ ops \in Seq(OpSampler) /\ Ordered(ops) /\ DOMAIN ops = 1 .. Len(ops) /\ Len(ops) \in Nat
        /\ CalmInv /\ strategy \in Responses
    BY DEF IndInv, TypeOK
  <2>2. name \in Names
    BY <2>1, StrategyTypes
  <2>3. /\ \A k \in 1 .. Len(ops) : ops[k].name # NoName
        /\ \A k, l \in 1 .. Len(ops) : k < l => ops[k].name < ops[l].name
        /\ \A k \in 1 .. Len(ops) : ops[k].name \in Nat
    BY <2>1, NameTypes DEF CalmInv, StrictOrder, Named
  <2>4. PICK k \in DOMAIN ops : /\ ops[k].name = name
                                /\ ops[k].rate = Clamp(strategy.ops[name])
                                /\ ops[k].lower = strategy.default.lower
    BY <2>1 DEF CalmInv, Rated
  <2> DEFINE i == Search(ops, name)
  <2>5. /\ i \in 1 .. Len(ops) /\ ops[i].name = name
    <3>1. /\ i \in {Crashed} \cup 0 .. Len(ops)
          /\ i = 0 => \A j \in 1 .. Len(ops) : ops[j].name # name
          /\ i \in 1 .. Len(ops) => ops[i].name = name
          /\ i # Crashed
      BY <2>1, <2>2, <2>3, SearchExact
    <3> HIDE DEF i
    <3>2. i # 0
      BY <2>1, <2>4, <3>1
    <3>3. i \in 1 .. Len(ops)
      BY <2>1, <3>1, <3>2
    <3> QED
      BY <3>1, <3>3
  <2> HIDE DEF i
  <2>6. i = k
    <3>1. ~(i < k) /\ ~(k < i)
      BY <2>1, <2>3, <2>4, <2>5
    <3> QED
      BY <2>1, <2>4, <2>5, <3>1
  <2> QED
    BY <2>1, <2>4, <2>5, <2>6 DEF i
<1> QED
  BY <1>1, SamplerInvariant, PTL
====
