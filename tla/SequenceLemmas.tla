--------------------------- MODULE SequenceLemmas ---------------------------
(***************************************************************************)
(* Facts that several proofs share: what a sequence holds after an append, *)
(* a concatenation or a cut, and induction over the natural numbers.       *)
(***************************************************************************)
EXTENDS Integers, Sequences, Functions, WellFoundedInduction, TLAPS

\* Where the elements of a concatenation come from.
LEMMA ConcatFacts ==
  ASSUME NEW S, NEW a \in Seq(S), NEW b \in Seq(S)
  PROVE  /\ a \o b \in Seq(S)
         /\ Len(a \o b) = Len(a) + Len(b)
         /\ \A i \in 1 .. Len(a) : (a \o b)[i] = a[i]
         /\ \A i \in 1 .. Len(b) : (a \o b)[Len(a) + i] = b[i]
         /\ \A i \in 1 .. Len(a \o b) :
              i \notin 1 .. Len(a) => i - Len(a) \in 1 .. Len(b)
OBVIOUS

\* The same, by place, for a concatenation and an append.
LEMMA ConcatAt ==
  ASSUME NEW S, NEW a \in Seq(S), NEW b \in Seq(S)
  PROVE  /\ a \o b \in Seq(S)
         /\ Len(a \o b) = Len(a) + Len(b)
         /\ \A i \in 1 .. Len(a \o b) :
              (a \o b)[i] = IF i <= Len(a) THEN a[i] ELSE b[i - Len(a)]
OBVIOUS

\* Sequences of one length that agree at every place are equal.
LEMMA SeqEqual ==
  ASSUME NEW S, NEW a \in Seq(S), NEW b \in Seq(S), Len(a) = Len(b),
         \A i \in 1 .. Len(b) : a[i] = b[i]
  PROVE  a = b
OBVIOUS

\* The elements of a sequence are what stands at its places.
LEMMA RangeMembers ==
  ASSUME NEW S, NEW s \in Seq(S)
  PROVE  /\ \A x : x \in Range(s) <=> \E i \in 1 .. Len(s) : s[i] = x
         /\ Len(s) \in Nat
         /\ Range(s) \subseteq S
<1>1. DOMAIN s = 1 .. Len(s) /\ Len(s) \in Nat /\ \A i \in 1 .. Len(s) : s[i] \in S
  OBVIOUS
<1> QED
  BY <1>1 DEF Range

\* What is appended joins the elements.
LEMMA RangeAppend ==
  ASSUME NEW S, NEW s \in Seq(S), NEW x \in S
  PROVE  Range(Append(s, x)) = Range(s) \cup {x}
<1> DEFINE q == Append(s, x)
<1>1. /\ q \in Seq(S) /\ Len(q) = Len(s) + 1 /\ q[Len(s) + 1] = x
      /\ \A i \in 1 .. Len(s) : q[i] = s[i]
  OBVIOUS
<1> HIDE DEF q
<1>2. \A i \in 1 .. Len(q) : i \in 1 .. Len(s) \/ i = Len(s) + 1
  BY <1>1
<1>3. Len(s) + 1 \in 1 .. Len(q) /\ \A i \in 1 .. Len(s) : i \in 1 .. Len(q)
  BY <1>1
<1>4. \A y : y \in Range(q) <=> y \in Range(s) \/ y = x
  BY <1>1, <1>2, <1>3, RangeMembers
<1>5. Range(q) = Range(s) \cup {x}
  BY <1>4
<1> QED
  BY <1>5 DEF q

\* A concatenation has the elements of both parts.
LEMMA RangeConcat ==
  ASSUME NEW S, NEW s \in Seq(S), NEW q \in Seq(S)
  PROVE  Range(s \o q) = Range(s) \cup Range(q)
<1> DEFINE p == s \o q
<1>1. /\ p \in Seq(S)
      /\ Len(p) = Len(s) + Len(q)
      /\ \A i \in 1 .. Len(s) : p[i] = s[i]
      /\ \A i \in 1 .. Len(q) : p[Len(s) + i] = q[i]
      /\ \A i \in 1 .. Len(p) : i \notin 1 .. Len(s) => i - Len(s) \in 1 .. Len(q)
  BY ConcatFacts
<1> HIDE DEF p
<1>2. Len(s) \in Nat /\ Len(q) \in Nat
  OBVIOUS
<1>3. ASSUME NEW i \in 1 .. Len(p)
      PROVE  p[i] \in Range(s) \cup Range(q)
  <2>1. CASE i \in 1 .. Len(s)
    BY <1>1, <2>1, RangeMembers
  <2>2. CASE i \notin 1 .. Len(s)
    <3>1. i - Len(s) \in 1 .. Len(q) /\ Len(s) + (i - Len(s)) = i
      BY <1>1, <1>2, <2>2
    <3>2. p[i] = q[i - Len(s)]
      BY <1>1, <3>1
    <3> QED
      BY <3>1, <3>2, RangeMembers
  <2> QED
    BY <2>1, <2>2
<1>4. /\ \A i \in 1 .. Len(s) : i \in 1 .. Len(p)
      /\ \A i \in 1 .. Len(q) : Len(s) + i \in 1 .. Len(p)
  BY <1>1, <1>2
<1>5. \A y : y \in Range(s) => y \in Range(p)
  BY <1>1, <1>4, RangeMembers, SMTT(30)
<1>6. \A y : y \in Range(q) => y \in Range(p)
  BY <1>1, <1>4, RangeMembers, SMTT(30)
<1>7. \A y : y \in Range(p) => y \in Range(s) \cup Range(q)
  BY <1>1, <1>3, RangeMembers
<1>8. Range(p) = Range(s) \cup Range(q)
  BY <1>5, <1>6, <1>7
<1> QED
  BY <1>8 DEF p

\* Cutting a sequence in two keeps its elements.
LEMMA RangeSplit ==
  ASSUME NEW S, NEW s \in Seq(S), NEW n \in 0 .. Len(s)
  PROVE  Range(s) = Range(SubSeq(s, 1, n)) \cup Range(SubSeq(s, n + 1, Len(s)))
<1> DEFINE a == SubSeq(s, 1, n)
           b == SubSeq(s, n + 1, Len(s))
<1>1. /\ a \in Seq(S) /\ Len(a) = n /\ Len(s) \in Nat /\ n \in Nat /\ n <= Len(s)
      /\ \A i \in 1 .. n : a[i] = s[i]
  OBVIOUS
<1>2. /\ b \in Seq(S) /\ Len(b) = Len(s) - n
      /\ \A i \in 1 .. Len(b) : b[i] = s[n + i]
  BY SMTT(30)
<1> HIDE DEF a, b
<1>3. ASSUME NEW i \in 1 .. Len(s)
      PROVE  s[i] \in Range(a) \cup Range(b)
  <2>1. CASE i <= n
    BY <1>1, <2>1, RangeMembers
  <2>2. CASE ~(i <= n)
    <3>1. i - n \in 1 .. Len(b) /\ b[i - n] = s[i]
      BY <1>1, <1>2, <2>2
    <3> QED
      BY <1>2, <3>1, RangeMembers
  <2> QED
    BY <2>1, <2>2
<1>4. ASSUME NEW i \in 1 .. Len(a)
      PROVE  a[i] \in Range(s)
  BY <1>1, RangeMembers
<1>5. ASSUME NEW i \in 1 .. Len(b)
      PROVE  b[i] \in Range(s)
  <2>1. n + i \in 1 .. Len(s) /\ b[i] = s[n + i]
    BY <1>1, <1>2
  <2> QED
    BY <2>1, RangeMembers
<1>6. \A x : x \in Range(s) <=> x \in Range(a) \cup Range(b)
  <2>1. \A x : x \in Range(s) => x \in Range(a) \cup Range(b)
    BY <1>3, RangeMembers
  <2>2. \A x : x \in Range(a) => x \in Range(s)
    BY <1>1, <1>4, RangeMembers
  <2>3. \A x : x \in Range(b) => x \in Range(s)
    BY <1>2, <1>5, RangeMembers
  <2> QED
    BY <2>1, <2>2, <2>3
<1>7. Range(s) = Range(a) \cup Range(b)
  BY <1>6
<1> QED
  BY <1>7 DEF a, b

\* A sequence is its two parts, one behind the other, also behind another.
LEMMA CutAndJoin ==
  ASSUME NEW S, NEW a \in Seq(S), NEW s \in Seq(S), NEW n \in 0 .. Len(s)
  PROVE  (a \o SubSeq(s, 1, n)) \o SubSeq(s, n + 1, Len(s)) = a \o s
<1> DEFINE x == SubSeq(s, 1, n)
           e == SubSeq(s, n + 1, Len(s))
           y == a \o x
           p == y \o e
           q == a \o s
<1>1. x \in Seq(S) /\ Len(x) = n /\ \A i \in 1 .. n : x[i] = s[i]
  OBVIOUS
<1>2. e \in Seq(S) /\ Len(e) = Len(s) - n /\ \A i \in 1 .. Len(e) : e[i] = s[n + i]
  OBVIOUS
<1>3. q \in Seq(S) /\ Len(q) = Len(a) + Len(s)
      /\ \A i \in 1 .. Len(q) : q[i] = IF i <= Len(a) THEN a[i] ELSE s[i - Len(a)]
  OBVIOUS
<1>4. Len(a) \in Nat /\ Len(s) \in Nat /\ n \in Nat /\ n <= Len(s)
  OBVIOUS
<1> HIDE DEF x, e
<1>5. y \in Seq(S) /\ Len(y) = Len(a) + n
      /\ \A i \in 1 .. Len(y) : y[i] = IF i <= Len(a) THEN a[i] ELSE x[i - Len(a)]
  BY <1>1, ConcatAt
<1> HIDE DEF y
<1>6. p \in Seq(S) /\ Len(p) = Len(a) + Len(s)
      /\ \A i \in 1 .. Len(p) : p[i] = IF i <= Len(y) THEN y[i] ELSE e[i - Len(y)]
  <2>1. p \in Seq(S) /\ Len(p) = Len(y) + Len(e)
        /\ \A i \in 1 .. Len(p) : p[i] = IF i <= Len(y) THEN y[i] ELSE e[i - Len(y)]
    BY <1>2, <1>5, ConcatAt
  <2> HIDE DEF p
  <2> QED
    BY <1>2, <1>4, <1>5, <2>1
<1> HIDE DEF p, q
<1>7. ASSUME NEW i \in 1 .. Len(q)
      PROVE  p[i] = q[i]
  <2>1. CASE i <= Len(a)
    <3>1. i \in 1 .. Len(y) /\ i \in 1 .. Len(p) /\ i <= Len(y)
      BY <1>3, <1>4, <1>5, <1>6, <2>1
    <3> QED
      BY <1>3, <1>5, <1>6, <2>1, <3>1
  <2>2. CASE ~(i <= Len(a)) /\ i <= Len(a) + n
    <3>1. i - Len(a) \in 1 .. n /\ i \in 1 .. Len(y) /\ i \in 1 .. Len(p)
      BY <1>3, <1>4, <1>5, <1>6, <2>2
    <3> QED
      BY <1>1, <1>3, <1>4, <1>5, <1>6, <2>2, <3>1
  <2>3. CASE ~(i <= Len(a) + n)
    <3>1. /\ i - Len(y) \in 1 .. Len(e) /\ ~(i <= Len(a)) /\ ~(i <= Len(y))
          /\ n + (i - Len(y)) = i - Len(a) /\ i \in 1 .. Len(p)
      BY <1>2, <1>3, <1>4, <1>5, <1>6, <2>3
    <3>2. p[i] = e[i - Len(y)] /\ q[i] = s[i - Len(a)]
      BY <1>3, <1>6, <3>1
    <3> QED
      BY <1>2, <3>1, <3>2
  <2> QED
    BY <1>3, <1>4, <2>1, <2>2, <2>3
<1>8. p = q
  BY <1>3, <1>6, <1>7, SeqEqual
<1> QED
  BY <1>8 DEF p, q, x, e, y

\* Appending what is not there keeps the elements distinct.
LEMMA InjectiveAppend ==
  ASSUME NEW S, NEW s \in Seq(S), NEW x \in S, IsInjective(s), x \notin Range(s)
  PROVE  IsInjective(Append(s, x))
<1> DEFINE q == Append(s, x)
<1>1. /\ q \in Seq(S) /\ Len(q) = Len(s) + 1 /\ q[Len(s) + 1] = x
      /\ \A i \in 1 .. Len(s) : q[i] = s[i]
      /\ DOMAIN q = 1 .. Len(q) /\ DOMAIN s = 1 .. Len(s) /\ Len(s) \in Nat
  OBVIOUS
<1> HIDE DEF q
<1>2. \A i \in 1 .. Len(q) : i \in 1 .. Len(s) \/ i = Len(s) + 1
  BY <1>1
<1>3. \A i \in 1 .. Len(s) : s[i] # x
  BY RangeMembers
<1>4. ASSUME NEW i \in 1 .. Len(q), NEW j \in 1 .. Len(q), q[i] = q[j]
      PROVE  i = j
  <2>1. CASE i \in 1 .. Len(s) /\ j \in 1 .. Len(s)
    BY <1>1, <1>4, <2>1 DEF IsInjective
  <2>2. CASE ~(i \in 1 .. Len(s) /\ j \in 1 .. Len(s))
    BY <1>1, <1>2, <1>3, <1>4, <2>2
  <2> QED
    BY <2>1, <2>2
<1>5. IsInjective(q)
  BY <1>1, <1>4 DEF IsInjective
<1> QED
  BY <1>5 DEF q

\* Appending behind a concatenation is appending to its second part.
LEMMA AppendToSecond ==
  ASSUME NEW S, NEW a \in Seq(S), NEW b \in Seq(S), NEW x \in S
  PROVE  a \o Append(b, x) = Append(a \o b, x)
<1> DEFINE c == Append(b, x)
           d == a \o b
           p == a \o c
           q == Append(d, x)
<1>1. /\ c \in Seq(S) /\ Len(c) = Len(b) + 1 /\ c[Len(b) + 1] = x
      /\ \A i \in 1 .. Len(b) : c[i] = b[i]
  OBVIOUS
<1>2. d \in Seq(S) /\ Len(d) = Len(a) + Len(b)
      /\ \A i \in 1 .. Len(d) : d[i] = IF i <= Len(a) THEN a[i] ELSE b[i - Len(a)]
  OBVIOUS
<1>3. Len(a) \in Nat /\ Len(b) \in Nat
  OBVIOUS
<1> HIDE DEF c, d
<1>4. p \in Seq(S) /\ Len(p) = Len(a) + Len(c)
      /\ \A i \in 1 .. Len(p) : p[i] = IF i <= Len(a) THEN a[i] ELSE c[i - Len(a)]
  BY <1>1, SMTT(30)
<1>5. q \in Seq(S) /\ Len(q) = Len(d) + 1 /\ q[Len(d) + 1] = x
      /\ \A i \in 1 .. Len(d) : q[i] = d[i]
  BY <1>2
<1> HIDE DEF p, q
<1>6. ASSUME NEW i \in 1 .. Len(q)
      PROVE  p[i] = q[i]
  <2>1. CASE i <= Len(a)
    <3>1. i \in 1 .. Len(d) /\ i \in 1 .. Len(p)
      BY <1>1, <1>2, <1>3, <1>4, <1>5, <2>1
    <3> QED
      BY <1>2, <1>4, <1>5, <2>1, <3>1
  <2>2. CASE ~(i <= Len(a)) /\ i <= Len(d)
    <3>1. i - Len(a) \in 1 .. Len(b) /\ i \in 1 .. Len(d) /\ i \in 1 .. Len(p)
      BY <1>1, <1>2, <1>3, <1>4, <1>5, <2>2
    <3> QED
      BY <1>1, <1>2, <1>4, <1>5, <2>2, <3>1
  <2>3. CASE ~(i <= Len(d))
    <3>0. i = Len(d) + 1
      BY <1>2, <1>3, <1>5, <2>3, SMTT(30)
    <3>1. i - Len(a) = Len(b) + 1 /\ i \in 1 .. Len(p) /\ ~(i <= Len(a))
      BY <3>0, <1>1, <1>2, <1>3, <1>4, <1>5, <2>3
    <3> QED
      BY <1>1, <1>4, <1>5, <3>0, <3>1
  <2> QED
    BY <1>2, <1>3, <2>1, <2>2, <2>3
<1>7. p = q
  <2>1. Len(p) = Len(q)
    BY <1>1, <1>2, <1>3, <1>4, <1>5
  <2> QED
    BY <1>4, <1>5, <1>6, <2>1, SeqEqual
<1> QED
  BY <1>7 DEF p, q, c, d

\* A set of natural numbers that is not empty has a least element.
LEMMA LeastNumber ==
  ASSUME NEW B \in SUBSET Nat, B # {}
  PROVE  \E x \in B : \A y \in B : x <= y
<1> DEFINE R == OpToRel(<, Nat)
<1>1. IsWellFoundedOn(R, Nat)
  BY NatLessThanWellFounded
<1> HIDE DEF R
<1>2. PICK x \in B : \A y \in B : ~(<<y, x>> \in R)
  BY <1>1, WFMin
<1>3. \A y \in B : ~(y < x)
  BY <1>2 DEF R, OpToRel
<1> QED
  BY <1>3

\* Induction over the natural numbers, for a set: the least number outside
\* the set would be 0 or the successor of one inside.
LEMMA SetInduction ==
  ASSUME NEW T \in SUBSET Nat, 0 \in T, \A n \in T : n + 1 \in T
  PROVE  \A n \in Nat : n \in T
<1> SUFFICES ASSUME NEW n \in Nat, n \notin T
             PROVE  FALSE
  OBVIOUS
<1> DEFINE B == Nat \ T
<1>1. B \in SUBSET Nat /\ B # {}
  OBVIOUS
<1> HIDE DEF B
<1>2. PICK x \in B : \A y \in B : x <= y
  BY <1>1, LeastNumber
<1>3. x \in Nat /\ x # 0 /\ x \notin T
  BY DEF B
<1>4. x - 1 \in Nat /\ x - 1 \notin T
  BY <1>3
<1>5. x - 1 \in B
  BY <1>4 DEF B
<1> QED
  BY <1>2, <1>3, <1>5

\* f starts with a, and each value of it follows from the one before.
Follows(f, a, step) == f[0] = a /\ \A i \in Nat : f[i + 1] = step[<<f[i], i + 1>>]
FollowsTo(n, f, a, step) == f[0] = a /\ \A i \in 1 .. n : f[i] = step[<<f[i - 1], i>>]

\* Such a function exists.
LEMMA NatRecursion ==
  ASSUME NEW S, NEW a \in S, NEW step \in [S \X Nat -> S]
  PROVE  \E f \in [Nat -> S] : Follows(f, a, step)
<1> DEFINE Solves(g, n) == /\ g \in [Nat -> S]
                           /\ g[0] = a
                           /\ \A i \in Nat : i < n => g[i + 1] = step[<<g[i], i + 1>>]
           T == {n \in Nat : \E g : Solves(g, n)}
<1>1. 0 \in T
  <2> DEFINE g == [i \in Nat |-> a]
  <2>1. Solves(g, 0)
    OBVIOUS
  <2> HIDE DEF g
  <2> QED
    BY <2>1
<1>2. ASSUME NEW n \in T
      PROVE  n + 1 \in T
  <2>1. n \in Nat /\ n + 1 \in Nat
    OBVIOUS
  <2>2. PICK g : Solves(g, n)
    OBVIOUS
  <2> DEFINE h == [i \in Nat |-> IF i = n + 1 THEN step[<<g[n], n + 1>>] ELSE g[i]]
  <2>3. h \in [Nat -> S]
    <3>1. step[<<g[n], n + 1>>] \in S
      BY <2>1, <2>2
    <3> QED
      BY <2>2, <3>1
  <2>4. h[0] = a
    BY <2>1, <2>2
  <2>5. ASSUME NEW i \in Nat, i < n + 1
        PROVE  h[i + 1] = step[<<h[i], i + 1>>]
    <3>1. h[i] = g[i]
      BY <2>1, <2>5
    <3>2. CASE i = n
      BY <2>1, <3>1, <3>2
    <3>3. CASE i # n
      <4>1. i < n /\ i + 1 # n + 1 /\ i + 1 \in Nat
        BY <2>1, <2>5, <3>3
      <4>2. h[i + 1] = g[i + 1] /\ g[i + 1] = step[<<g[i], i + 1>>]
        BY <2>2, <4>1
      <4> QED
        BY <3>1, <4>2
    <3> QED
      BY <3>2, <3>3
  <2> HIDE DEF h
  <2>6. Solves(h, n + 1)
    BY <2>3, <2>4, <2>5
  <2> QED
    BY <2>1, <2>6
<1>3. T \in SUBSET Nat
  OBVIOUS
<1>4. \A n \in Nat : n \in T
  <2> HIDE DEF T
  <2> QED
    BY <1>1, <1>2, <1>3, SetInduction
<1>5. ASSUME NEW g, NEW h, NEW n \in Nat, NEW m \in Nat, n <= m,
             Solves(g, n), Solves(h, m)
      PROVE  \A i \in Nat : i <= n => g[i] = h[i]
  <2> DEFINE U == {i \in Nat : i <= n => g[i] = h[i]}
  <2>1. 0 \in U
    BY <1>5
  <2>2. ASSUME NEW i \in U
        PROVE  i + 1 \in U
    <3>1. CASE i + 1 <= n
      <4>1. i \in Nat /\ i < n /\ i < m /\ i <= n
        BY <1>5, <3>1
      <4>2. g[i] = h[i] /\ g[i + 1] = step[<<g[i], i + 1>>] /\ h[i + 1] = step[<<h[i], i + 1>>]
        BY <1>5, <4>1
      <4> QED
        BY <4>1, <4>2
    <3>2. CASE ~(i + 1 <= n)
      BY <3>2
    <3> QED
      BY <3>1, <3>2
  <2>3. U \in SUBSET Nat
    OBVIOUS
  <2>4. \A i \in Nat : i \in U
    <3> HIDE DEF U
    <3> QED
      BY <2>1, <2>2, <2>3, SetInduction
  <2> QED
    BY <2>4
<1> DEFINE F == [n \in Nat |-> CHOOSE g : Solves(g, n)]
           f == [n \in Nat |-> F[n][n]]
<1>6. ASSUME NEW n \in Nat
      PROVE  Solves(F[n], n)
  <2>1. \E g : Solves(g, n)
    BY <1>4
  <2>2. F[n] = CHOOSE g : Solves(g, n)
    OBVIOUS
  <2> HIDE DEF Solves, F
  <2> QED
    BY <2>1, <2>2, Zenon
<1> HIDE DEF F
<1>7. f \in [Nat -> S]
  BY <1>6
<1>8. f[0] = a
  BY <1>6
<1>9. ASSUME NEW i \in Nat
      PROVE  f[i + 1] = step[<<f[i], i + 1>>]
  <2>1. i + 1 \in Nat /\ i <= i + 1 /\ i < i + 1
    OBVIOUS
  <2>2. Solves(F[i], i) /\ Solves(F[i + 1], i + 1)
    BY <1>6, <2>1
  <2>3. F[i][i] = F[i + 1][i]
    <3> HIDE DEF Solves
    <3> QED
      BY <1>5, <2>1, <2>2
  <2>4. F[i + 1][i + 1] = step[<<F[i + 1][i], i + 1>>]
    BY <2>1, <2>2
  <2> QED
    BY <2>1, <2>3, <2>4
<1> HIDE DEF f
<1> QED
  BY <1>7, <1>8, <1>9 DEF Follows

\* The same up to a number.
LEMMA FiniteRecursion ==
  ASSUME NEW S, NEW n \in Nat, NEW a \in S, NEW step \in [S \X (1 .. n) -> S]
  PROVE  \E f \in [0 .. n -> S] : FollowsTo(n, f, a, step)
<1>1. PICK all \in [S \X Nat -> S] :
             \A x \in S, i \in 1 .. n : all[<<x, i>>] = step[<<x, i>>]
  <2> DEFINE q == [p \in S \X Nat |-> IF p[2] \in 1 .. n THEN step[p] ELSE p[1]]
  <2>1. q \in [S \X Nat -> S]
    OBVIOUS
  <2>2. \A x \in S, i \in 1 .. n : q[<<x, i>>] = step[<<x, i>>]
    OBVIOUS
  <2> HIDE DEF q
  <2> QED
    BY <2>1, <2>2
<1>2. PICK g \in [Nat -> S] : Follows(g, a, all)
  BY NatRecursion
<1>3. g[0] = a /\ \A i \in Nat : g[i + 1] = all[<<g[i], i + 1>>]
  BY <1>2 DEF Follows
<1> DEFINE f == [i \in 0 .. n |-> g[i]]
<1>4. f \in [0 .. n -> S] /\ f[0] = a
  BY <1>3
<1>5. ASSUME NEW i \in 1 .. n
      PROVE  f[i] = step[<<f[i - 1], i>>]
  <2>1. i - 1 \in Nat /\ (i - 1) + 1 = i /\ i \in 0 .. n /\ i - 1 \in 0 .. n
    OBVIOUS
  <2>2. g[i] = all[<<g[i - 1], i>>]
    BY <1>3, <2>1
  <2>3. g[i - 1] \in S
    BY <2>1
  <2>4. f[i] = g[i] /\ f[i - 1] = g[i - 1]
    BY <2>1
  <2> QED
    BY <1>1, <2>2, <2>3, <2>4
<1> HIDE DEF f
<1> QED
  BY <1>4, <1>5 DEF FollowsTo
====
