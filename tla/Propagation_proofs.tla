------------------------- MODULE Propagation_proofs -------------------------
(***************************************************************************)
(* Proofs about the propagation of span contexts: what the formats of ids, *)
(* texts and baggage lose and keep, for every base, width and text, and    *)
(* what inject and extract say, write, read and free.                      *)
(***************************************************************************)
EXTENDS Propagation, SequenceLemmas

---------------------------------------------------------------------------
(* Numbers and their digits *)

LEMMA PowerDefined ==
  /\ Power[0] = 1
  /\ \A k \in Nat : Power[k] \in Nat /\ Power[k + 1] = Base * Power[k]
<1> DEFINE step == [p \in Nat \X Nat |-> Base * p[1]]
<1>1. Base \in Nat
  BY WidthAssumption
<1>2. step \in [Nat \X Nat -> Nat] /\ \A x \in Nat, i \in Nat : step[<<x, i>>] = Base * x
  BY <1>1
<1> HIDE DEF step
<1>3. PICK f \in [Nat -> Nat] : Follows(f, 1, step)
  BY <1>2, NatRecursion
<1>4. /\ f[0] = 1
      /\ \A i \in Nat : f[i + 1] = Base * f[i]
  <2>1. f[0] = 1 /\ \A i \in Nat : f[i + 1] = step[<<f[i], i + 1>>]
    BY <1>3 DEF Follows
  <2>2. ASSUME NEW i \in Nat
        PROVE  f[i + 1] = Base * f[i]
    <3>1. f[i] \in Nat /\ i + 1 \in Nat
      OBVIOUS
    <3> QED
      BY <1>2, <2>1, <3>1
  <2> QED
    BY <2>1, <2>2
<1>5. ASSUME NEW k \in Nat
      PROVE  f[k] = IF k = 0 THEN 1 ELSE Base * f[k - 1]
  <2>1. CASE k = 0
    BY <1>4, <2>1
  <2>2. CASE k # 0
    <3>1. k - 1 \in Nat /\ (k - 1) + 1 = k
      BY <2>2
    <3> QED
      BY <1>4, <2>2, <3>1
  <2> QED
    BY <2>1, <2>2
<1>6. f = [k \in Nat |-> IF k = 0 THEN 1 ELSE Base * f[k - 1]]
  BY <1>5
<1>7. Power = [k \in Nat |-> IF k = 0 THEN 1 ELSE Base * Power[k - 1]]
  BY <1>6, Zenon DEF Power
<1>8. \A k \in Nat : Power[k] = IF k = 0 THEN 1 ELSE Base * Power[k - 1]
  BY <1>7
<1>9. ASSUME NEW k \in Nat
      PROVE  Power[k + 1] = Base * Power[k]
  <2>1. k + 1 \in Nat /\ k + 1 # 0 /\ (k + 1) - 1 = k
    OBVIOUS
  <2> QED
    BY <1>8, <2>1
<1>10. Power[0] = 1
  BY <1>8
<1> DEFINE T == {k \in Nat : Power[k] \in Nat}
<1>11. 0 \in T /\ T \in SUBSET Nat
  BY <1>10
<1>12. ASSUME NEW k \in T
       PROVE  k + 1 \in T
  BY <1>1, <1>9
<1>13. \A k \in Nat : k \in T
  <2> HIDE DEF T
  <2> QED
    BY <1>11, <1>12, SetInduction
<1> QED
  BY <1>9, <1>10, <1>13

\* A power is larger than its exponent.
LEMMA PowerGrows ==
  ASSUME NEW k \in Nat
  PROVE  Power[k] \in Nat /\ Power[k] > k
<1> DEFINE T == {i \in Nat : Power[i] > i}
<1>1. 0 \in T /\ T \in SUBSET Nat
  BY PowerDefined
<1>2. ASSUME NEW i \in T
      PROVE  i + 1 \in T
  <2>1. i \in Nat /\ Power[i] \in Nat /\ Power[i] >= i + 1
    BY PowerDefined
  <2>2. PICK p \in Nat : p = Power[i]
    BY <2>1
  <2>3. Power[i + 1] = Base * p
    BY <2>1, <2>2, PowerDefined
  <2>4. PICK b \in Nat : b = Base /\ b >= 2
    BY WidthAssumption
  <2>5. b * p >= 2 * p
    <3>1. (b - 2) * p >= 0
      BY <2>2, <2>4
    <3>2. (b - 2) * p = b * p - 2 * p
      BY <2>2, <2>4
    <3> QED
      BY <2>2, <2>4, <3>1, <3>2
  <2>6. 2 * p > i + 1
    BY <2>1, <2>2
  <2>7. b * p \in Nat /\ b * p > i + 1
    BY <2>2, <2>4, <2>5, <2>6
  <2> QED
    BY <2>1, <2>3, <2>4, <2>7
<1>3. \A i \in Nat : i \in T
  <2> HIDE DEF T
  <2> QED
    BY <1>1, <1>2, SetInduction
<1> QED
  BY <1>3, PowerDefined

\* Division by a product is division by one factor and then by the other.
LEMMA DivProduct ==
  ASSUME NEW n \in Nat, NEW b \in Nat \ {0}, NEW p \in Nat \ {0}
  PROVE  /\ n \div p \in Nat /\ n \div (b * p) \in Nat
         /\ (n \div p) % b \in 0 .. b - 1
         /\ n \div p = b * (n \div (b * p)) + ((n \div p) % b)
<1>1. PICK q \in Nat, r \in 0 .. p - 1 : n = p * q + r /\ q = n \div p
  <2>1. n \div p \in Nat /\ n % p \in 0 .. p - 1 /\ n = p * (n \div p) + (n % p)
    OBVIOUS
  <2> QED
    BY <2>1
<1>2. PICK c \in Nat, d \in 0 .. b - 1 : q = b * c + d /\ d = q % b
  <2>1. q \div b \in Nat /\ q % b \in 0 .. b - 1 /\ q = b * (q \div b) + (q % b)
    OBVIOUS
  <2> QED
    BY <2>1
<1>3. PICK m \in Nat \ {0} : m = b * p
  OBVIOUS
<1>4. n = m * c + (p * d + r)
  <2>1. p * q = p * (b * c) + p * d
    BY <1>2
  <2>2. p * (b * c) = m * c
    BY <1>3
  <2> QED
    BY <1>1, <1>2, <1>3, <2>1, <2>2
<1>5. p * d + r \in 0 .. m - 1
  <2>1. p * d \in Nat /\ p * d + p <= m
    <3>1. (b - 1 - d) * p >= 0
      BY <1>2
    <3>2. (b - 1 - d) * p = b * p - p - p * d
      BY <1>2
    <3>3. p * d \in Nat
      BY <1>2
    <3> QED
      BY <1>3, <3>1, <3>2, <3>3
  <2> QED
    BY <1>1, <1>3, <2>1
<1>6. PICK e \in Nat : e = p * d + r /\ e < m
  BY <1>3, <1>5
<1>7. n \div m = c
  <2>1. n = m * c + e
    BY <1>4, <1>6
  <2>2. PICK x \in Nat, y \in 0 .. m - 1 : n = m * x + y /\ x = n \div m
    <3>1. n \div m \in Nat /\ n % m \in 0 .. m - 1 /\ n = m * (n \div m) + (n % m)
      OBVIOUS
    <3> QED
      BY <3>1
  <2>3. ~(x > c)
    <3> SUFFICES ASSUME x > c
                 PROVE  FALSE
      OBVIOUS
    <3>1. PICK z \in Nat : x = c + 1 + z
      <4>1. x - c - 1 \in Nat /\ x = c + 1 + (x - c - 1)
        OBVIOUS
      <4> QED
        BY <4>1
    <3>2. m * x = m * c + m + m * z /\ m * z \in Nat
      BY <3>1
    <3> QED
      BY <1>3, <1>6, <2>1, <2>2, <3>2
  <2>4. ~(x < c)
    <3> SUFFICES ASSUME x < c
                 PROVE  FALSE
      OBVIOUS
    <3>1. PICK z \in Nat : c = x + 1 + z
      <4>1. c - x - 1 \in Nat /\ c = x + 1 + (c - x - 1)
        OBVIOUS
      <4> QED
        BY <4>1
    <3>2. m * c = m * x + m + m * z /\ m * z \in Nat
      BY <3>1
    <3> QED
      BY <1>3, <1>6, <2>1, <2>2, <3>2
  <2> QED
    BY <2>2, <2>3, <2>4
<1> QED
  BY <1>1, <1>2, <1>3, <1>7

\* A number divided by a larger one is 0.
LEMMA DivSmall ==
  ASSUME NEW n \in Nat, NEW p \in Nat, n < p
  PROVE  n \div p = 0
<1>1. PICK q \in Nat, r \in Nat : n = p * q + r /\ q = n \div p
  <2>1. n \div p \in Nat /\ n % p \in Nat /\ n = p * (n \div p) + (n % p)
    OBVIOUS
  <2> QED
    BY <2>1
<1>2. CASE q = 0
  BY <1>1, <1>2
<1>3. CASE q # 0
  <2>1. PICK z \in Nat : q = z + 1
    <3>1. q - 1 \in Nat /\ q = (q - 1) + 1
      BY <1>3
    <3> QED
      BY <3>1
  <2>2. p * q = p * z + p /\ p * z \in Nat
    BY <2>1
  <2> QED
    BY <1>1, <2>2
<1> QED
  BY <1>2, <1>3

LEMMA ShiftNat ==
  ASSUME NEW a \in Nat, NEW b \in Nat, NEW c \in Nat
  PROVE  a * b + c \in Nat
<1>1. a * b \in Nat
  OBVIOUS
<1> QED
  BY <1>1

\* The recursion of Number has a solution.
Valued(t) ==
  CHOOSE g : g = [i \in 0 .. Len(t) |-> IF i = 0 THEN 0 ELSE Base * g[i - 1] + t[i]]

LEMMA NumberDefined ==
  ASSUME NEW t \in Seq(Nat)
  PROVE  /\ Valued(t) \in [0 .. Len(t) -> Nat]
         /\ Valued(t)[0] = 0
         /\ \A i \in 1 .. Len(t) : Valued(t)[i] = Base * Valued(t)[i - 1] + t[i]
         /\ Number(t) = Valued(t)[Len(t)]
<1> DEFINE step == [p \in Nat \X (1 .. Len(t)) |-> Base * p[1] + t[p[2]]]
<1>1. Base \in Nat /\ Len(t) \in Nat /\ \A i \in 1 .. Len(t) : t[i] \in Nat
  BY WidthAssumption
<1>2. /\ step \in [Nat \X (1 .. Len(t)) -> Nat]
      /\ \A x \in Nat, i \in 1 .. Len(t) : step[<<x, i>>] = Base * x + t[i]
  <2>1. ASSUME NEW p \in Nat \X (1 .. Len(t))
        PROVE  Base * p[1] + t[p[2]] \in Nat
    <3>1. p[1] \in Nat /\ p[2] \in 1 .. Len(t)
      OBVIOUS
    <3> QED
      BY <1>1, <3>1, ShiftNat
  <2>2. step \in [Nat \X (1 .. Len(t)) -> Nat]
    BY <2>1
  <2> QED
    BY <2>2
<1> HIDE DEF step
<1>3. PICK f \in [0 .. Len(t) -> Nat] : FollowsTo(Len(t), f, 0, step)
  BY <1>1, <1>2, FiniteRecursion
<1>4. f[0] = 0 /\ \A i \in 1 .. Len(t) : f[i] = step[<<f[i - 1], i>>]
  BY <1>3 DEF FollowsTo
<1>5. ASSUME NEW i \in 1 .. Len(t)
      PROVE  f[i] = Base * f[i - 1] + t[i]
  <2>1. i - 1 \in 0 .. Len(t)
    BY <1>1
  <2> QED
    BY <1>2, <1>4, <2>1
<1>6. f = [i \in 0 .. Len(t) |-> IF i = 0 THEN 0 ELSE Base * f[i - 1] + t[i]]
  BY <1>1, <1>4, <1>5
<1> DEFINE g == Valued(t)
<1>7. g = [i \in 0 .. Len(t) |-> IF i = 0 THEN 0 ELSE Base * g[i - 1] + t[i]]
  BY <1>6, Zenon DEF Valued
<1>8. Number(t) = g[Len(t)]
  BY Zenon DEF Number, Valued
<1> HIDE DEF g
<1>9. /\ g[0] = 0 /\ DOMAIN g = 0 .. Len(t)
      /\ \A i \in 1 .. Len(t) : g[i] = Base * g[i - 1] + t[i]
  <2>1. DOMAIN g = 0 .. Len(t)
    BY <1>7
  <2>2. \A i \in 0 .. Len(t) : g[i] = IF i = 0 THEN 0 ELSE Base * g[i - 1] + t[i]
    BY <1>7
  <2>3. 0 \in 0 .. Len(t) /\ \A i \in 1 .. Len(t) : i \in 0 .. Len(t) /\ i # 0
    BY <1>1
  <2>4. g[0] = 0
    BY <2>2, <2>3
  <2>5. ASSUME NEW i \in 1 .. Len(t)
        PROVE  g[i] = Base * g[i - 1] + t[i]
    BY <2>2, <2>3
  <2> QED
    BY <2>1, <2>4, <2>5
<1> DEFINE T == {i \in Nat : i <= Len(t) => g[i] \in Nat}
<1>10. 0 \in T /\ T \in SUBSET Nat
  BY <1>9
<1>11. ASSUME NEW i \in T
       PROVE  i + 1 \in T
  <2>1. CASE i + 1 <= Len(t)
    <3>1. i \in Nat /\ i + 1 \in 1 .. Len(t) /\ (i + 1) - 1 = i /\ g[i] \in Nat
      BY <1>1, <2>1
    <3>2. g[i + 1] = Base * g[i] + t[i + 1] /\ t[i + 1] \in Nat
      BY <1>1, <1>9, <3>1
    <3>3. Base * g[i] + t[i + 1] \in Nat
      <4>1. PICK x \in Nat, y \in Nat : x = g[i] /\ y = t[i + 1]
        BY <3>1, <3>2
      <4>2. Base * x + y \in Nat
        BY <1>1, ShiftNat
      <4> QED
        BY <4>1, <4>2
    <3> QED
      BY <3>1, <3>2, <3>3
  <2>2. CASE ~(i + 1 <= Len(t))
    BY <2>2
  <2> QED
    BY <2>1, <2>2
<1>12. \A i \in Nat : i \in T
  <2> HIDE DEF T
  <2> QED
    BY <1>10, <1>11, SetInduction
<1>13. \A i \in 0 .. Len(t) : g[i] \in Nat
  BY <1>1, <1>12
<1>14. g \in [0 .. Len(t) -> Nat]
  BY <1>7, <1>9, <1>13
<1> QED
  BY <1>8, <1>9, <1>14 DEF g

\* A number that has k digits is read back from them.
LEMMA DigitsRead ==
  ASSUME NEW n \in Nat, NEW k \in Nat, n < Power[k]
  PROVE  /\ LastDigits(n, k) \in Seq(0 .. Base - 1)
         /\ Len(LastDigits(n, k)) = k
         /\ Number(LastDigits(n, k)) = n
<1> DEFINE t == LastDigits(n, k)
<1>1. Base \in Nat \ {0} /\ \A i \in Nat : Power[i] \in Nat \ {0} /\ Power[i + 1] = Base * Power[i]
  BY WidthAssumption, PowerDefined, PowerGrows
<1>2. ASSUME NEW i \in 1 .. k
      PROVE  (n \div Power[k - i]) % Base \in 0 .. Base - 1
  <2>1. k - i \in Nat
    OBVIOUS
  <2>2. PICK p \in Nat \ {0} : p = Power[k - i]
    BY <1>1, <2>1
  <2> QED
    BY <1>1, <2>2, DivProduct
<1>3. /\ t \in Seq(0 .. Base - 1) /\ Len(t) = k
      /\ \A i \in 1 .. k : t[i] = (n \div Power[k - i]) % Base
  BY <1>2 DEF LastDigits
<1> HIDE DEF t
<1>4. t \in Seq(Nat)
  BY <1>1, <1>3
<1>5. PICK v \in [0 .. k -> Nat] :
        /\ v[0] = 0
        /\ \A i \in 1 .. k : v[i] = Base * v[i - 1] + t[i]
        /\ Number(t) = v[k]
  BY <1>3, <1>4, NumberDefined
<1> DEFINE T == {i \in Nat : i <= k => v[i] = n \div Power[k - i]}
<1>6. 0 \in T /\ T \in SUBSET Nat
  <2>1. PICK p \in Nat \ {0} : p = Power[k]
    BY <1>1
  <2>2. n \div p = 0
    BY <2>1, DivSmall
  <2>3. k - 0 = k
    OBVIOUS
  <2> QED
    BY <1>5, <2>1, <2>2, <2>3
<1>7. ASSUME NEW i \in T
      PROVE  i + 1 \in T
  <2>1. CASE i + 1 <= k
    <3>1. /\ i \in Nat /\ i + 1 \in 1 .. k /\ (i + 1) - 1 = i /\ i <= k
          /\ k - (i + 1) \in Nat /\ (k - (i + 1)) + 1 = k - i
      BY <2>1
    <3>2. PICK p \in Nat \ {0} : p = Power[k - (i + 1)]
      BY <1>1, <3>1
    <3>3. Power[k - i] = Base * p
      BY <1>1, <3>1, <3>2
    <3>4. v[i + 1] = Base * v[i] + t[i + 1]
      BY <1>5, <3>1
    <3>5. t[i + 1] = (n \div p) % Base
      BY <1>3, <3>1, <3>2
    <3>6. v[i] = n \div (Base * p)
      BY <3>1, <3>3
    <3>7. n \div p = Base * (n \div (Base * p)) + ((n \div p) % Base)
      BY <1>1, DivProduct
    <3>8. v[i + 1] = n \div p
      BY <3>4, <3>5, <3>6, <3>7
    <3> QED
      BY <3>1, <3>2, <3>8
  <2>2. CASE ~(i + 1 <= k)
    BY <2>2
  <2> QED
    BY <2>1, <2>2
<1>8. \A i \in Nat : i \in T
  <2> HIDE DEF T
  <2> QED
    BY <1>6, <1>7, SetInduction
<1>9. v[k] = n
  <2>1. v[k] = n \div Power[k - k] /\ k - k = 0
    BY <1>8
  <2>2. Power[0] = 1
    BY PowerDefined
  <2> QED
    BY <2>1, <2>2
<1> QED
  BY <1>3, <1>5, <1>9 DEF t

\* What strtoull returns is an id, and exact when the number is one.
LEMMA StrtoullFacts ==
  ASSUME NEW t \in Seq(Nat)
  PROVE  /\ Strtoull(t) \in Id
         /\ Number(t) \in Id => Strtoull(t) = Number(t)
<1>1. PICK m \in Nat : m = Power[Width] - 1 /\ Id = 0 .. m
  <2>1. Width \in Nat /\ Power[Width] \in Nat /\ Power[Width] > Width
    BY WidthAssumption, PowerGrows
  <2>2. Power[Width] - 1 \in Nat
    BY <2>1
  <2> QED
    BY <2>2 DEF Id
<1>2. PICK x \in Nat : x = Number(t)
  BY NumberDefined
<1>3. Strtoull(t) = CHOOSE y \in {x, m} : \A z \in {x, m} : y <= z
  BY <1>1, <1>2 DEF Strtoull, Min
<1>4. PICK s : s = Strtoull(t)
  OBVIOUS
<1>5. s \in {x, m} /\ s <= x /\ s <= m
  <2>1. \E y \in {x, m} : \A z \in {x, m} : y <= z
    OBVIOUS
  <2>2. s \in {x, m} /\ \A z \in {x, m} : s <= z
    BY <1>3, <1>4, <2>1, Zenon
  <2> QED
    BY <2>2
<1> QED
  BY <1>1, <1>2, <1>4, <1>5

\* An id in "%x" has at most Width digits and is read back.
LEMMA HexRead ==
  ASSUME NEW n \in Id
  PROVE  /\ Hex(n) \in Seq(0 .. Base - 1)
         /\ Len(Hex(n)) \in 1 .. Width
         /\ Strtoull(Hex(n)) = n
<1> DEFINE D == {k \in 1 .. n + 1 : n < Power[k]}
<1>1. Width \in Nat \ {0} /\ Power[Width] \in Nat /\ n \in Nat /\ n < Power[Width]
  BY WidthAssumption, PowerGrows DEF Id
<1>2. n + 1 \in D /\ D \in SUBSET Nat
  <2>1. n + 1 \in Nat /\ Power[n + 1] \in Nat /\ Power[n + 1] > n + 1
    BY <1>1, PowerGrows
  <2>2. n < Power[n + 1] /\ n + 1 \in 1 .. n + 1
    BY <1>1, <2>1
  <2> QED
    BY <1>1, <2>2
<1>3. Width <= n + 1 => Width \in D
  BY <1>1
<1>4. Hex(n) = LastDigits(n, Min(D))
  BY DEF Hex
<1>5. \A d \in D : d \in 1 .. n + 1 /\ n < Power[d]
  OBVIOUS
<1> HIDE DEF D
<1>6. PICK k : k = Min(D)
  OBVIOUS
<1>7. k \in D /\ \A d \in D : k <= d
  <2>1. \E x \in D : \A y \in D : x <= y
    BY <1>2, LeastNumber
  <2>2. k = CHOOSE x \in D : \A y \in D : x <= y
    BY <1>6 DEF Min
  <2> QED
    BY <2>1, <2>2, Zenon
<1>8. k \in 1 .. Width /\ n < Power[k]
  BY <1>1, <1>2, <1>3, <1>5, <1>7
<1>9. /\ LastDigits(n, k) \in Seq(0 .. Base - 1) /\ Len(LastDigits(n, k)) = k
      /\ Number(LastDigits(n, k)) = n
  BY <1>1, <1>8, DigitsRead
<1>10. LastDigits(n, k) \in Seq(Nat)
  BY <1>9, WidthAssumption
<1>11. Strtoull(LastDigits(n, k)) = n
  BY <1>9, <1>10, StrtoullFacts
<1> QED
  BY <1>4, <1>6, <1>8, <1>9, <1>11

\* What stands in a part of a sequence.
LEMMA PartFacts ==
  ASSUME NEW S, NEW s \in Seq(S), NEW m \in Nat, NEW k \in Nat, m + k <= Len(s)
  PROVE  /\ SubSeq(s, m + 1, m + k) \in Seq(S)
         /\ Len(SubSeq(s, m + 1, m + k)) = k
         /\ \A i \in 1 .. k : SubSeq(s, m + 1, m + k)[i] = s[m + i]
<1>1. Len(s) \in Nat
  OBVIOUS
<1>2. SubSeq(s, m + 1, m + k) = [i \in 1 .. k |-> s[m + i]]
  <2>1. SubSeq(s, m + 1, m + k)
          = [i \in 1 .. (1 + (m + k) - (m + 1)) |-> s[i + (m + 1) - 1]]
    OBVIOUS
  <2>2. 1 + (m + k) - (m + 1) = k /\ \A i \in 1 .. k : i + (m + 1) - 1 = m + i
    OBVIOUS
  <2> QED
    BY <2>1, <2>2
<1>3. \A i \in 1 .. k : s[m + i] \in S
  BY <1>1
<1> QED
  BY <1>2, <1>3

LEMMA SeqFacts ==
  ASSUME NEW S, NEW s \in Seq(S)
  PROVE  /\ Len(s) \in Nat /\ DOMAIN s = 1 .. Len(s)
         /\ \A i \in 1 .. Len(s) : s[i] \in S
OBVIOUS

LEMMA FrontFacts ==
  ASSUME NEW S, NEW s \in Seq(S), NEW k \in 0 .. Len(s)
  PROVE  /\ SubSeq(s, 1, k) \in Seq(S) /\ Len(SubSeq(s, 1, k)) = k
         /\ \A i \in 1 .. k : SubSeq(s, 1, k)[i] = s[i]
OBVIOUS

\* A trace id is read back from its digits, whatever its halves are.
LEMMA TraceIdRead ==
  ASSUME NEW id \in [high : Id, low : Id]
  PROVE  /\ TraceIdFormat(id) \in Seq(0 .. Base - 1)
         /\ Len(TraceIdFormat(id)) <= 2 * Width
         /\ TraceIdScan(TraceIdFormat(id)) = id
<1>1. Width \in Nat \ {0} /\ Base \in Nat /\ Power[Width] \in Nat /\ Power[Width] > Width
  BY WidthAssumption, PowerGrows
<1>2. id.high \in Id /\ id.low \in Id /\ id = [high |-> id.high, low |-> id.low]
  OBVIOUS
<1>3. CASE id.high = 0
  <2> DEFINE t == Hex(id.low)
  <2>1. TraceIdFormat(id) = t
    BY <1>3 DEF TraceIdFormat
  <2>2. t \in Seq(0 .. Base - 1) /\ Len(t) \in 1 .. Width /\ Strtoull(t) = id.low
    BY <1>2, HexRead
  <2> HIDE DEF t
  <2>3. HighLen(t) = 0
    BY <1>1, <2>2 DEF HighLen
  <2>4. SubSeq(t, 1, 0) = <<>> /\ SubSeq(t, 0 + 1, Len(t)) = t
    BY <2>2
  <2>5. Strtoull(<<>>) = 0
    <3>1. PICK e \in Seq(Nat) : e = <<>> /\ Len(e) = 0
      <4>1. <<>> \in Seq(Nat) /\ Len(<<>>) = 0
        OBVIOUS
      <4> QED
        BY <4>1, Zenon
    <3>2. Number(e) = Valued(e)[0] /\ Valued(e)[0] = 0
      BY <3>1, NumberDefined
    <3>3. 0 \in Id
      BY <1>1 DEF Id
    <3> QED
      BY <3>1, <3>2, <3>3, StrtoullFacts
  <2>6. TraceIdScan(t) = id
    BY <1>2, <1>3, <2>2, <2>3, <2>4, <2>5 DEF TraceIdScan
  <2> QED
    BY <1>1, <2>1, <2>2, <2>6
<1>4. CASE id.high # 0
  <2> DEFINE h == Hex(id.high)
             l == Padded(id.low)
             t == h \o l
  <2>1. TraceIdFormat(id) = t
    BY <1>4 DEF TraceIdFormat
  <2>2. h \in Seq(0 .. Base - 1) /\ Len(h) \in 1 .. Width /\ Strtoull(h) = id.high
    BY <1>2, HexRead
  <2>3. l \in Seq(0 .. Base - 1) /\ Len(l) = Width /\ Strtoull(l) = id.low
    <3>1. id.low \in Nat /\ id.low < Power[Width]
      BY <1>1, <1>2 DEF Id
    <3>2. l \in Seq(0 .. Base - 1) /\ Len(l) = Width /\ Number(l) = id.low
      BY <1>1, <3>1, DigitsRead DEF Padded
    <3> HIDE DEF l
    <3>3. l \in Seq(Nat)
      BY <1>1, <3>2
    <3> QED
      BY <1>2, <3>2, <3>3, StrtoullFacts
  <2> HIDE DEF h, l
  <2>4. t \in Seq(0 .. Base - 1) /\ Len(t) = Len(h) + Width
    BY <2>2, <2>3
  <2>5. SubSeq(t, 1, Len(h)) = h
    BY <2>2, <2>3, SMTT(30)
  <2>6. SubSeq(t, Len(h) + 1, Len(t)) = l
    <3>1. \A i \in 1 .. Width : t[Len(h) + i] = l[i]
      BY <2>2, <2>3, ConcatFacts
    <3>2. PICK m \in Nat : m = Len(h)
      BY <2>2
    <3> HIDE DEF t
    <3>3. PICK q : q = SubSeq(t, m + 1, m + Width)
      OBVIOUS
    <3>4. /\ q \in Seq(0 .. Base - 1) /\ Len(q) = Width
          /\ \A i \in 1 .. Width : q[i] = t[m + i]
      <4>1. m + Width <= Len(t) /\ Width \in Nat
        BY <1>1, <2>4, <3>2
      <4>2. PICK D, u : D = 0 .. Base - 1 /\ u = t /\ u \in Seq(D)
        BY <2>4, Zenon
      <4>3. /\ SubSeq(u, m + 1, m + Width) \in Seq(D)
            /\ Len(SubSeq(u, m + 1, m + Width)) = Width
            /\ \A i \in 1 .. Width : SubSeq(u, m + 1, m + Width)[i] = u[m + i]
        <5>1. m + Width <= Len(u)
          BY <4>1, <4>2
        <5>2. u \in Seq(D)
          BY <4>2
        <5> QED
          BY ONLY m \in Nat, <4>1, <5>1, <5>2, PartFacts
      <4> QED
        BY <3>3, <4>2, <4>3, Zenon
    <3>5. q = l
      BY <2>3, <3>1, <3>2, <3>4, SeqEqual
    <3> QED
      BY <2>4, <3>2, <3>3, <3>5
  <2> HIDE DEF t
  <2>7. HighLen(t) = Len(h)
    BY <1>1, <2>2, <2>4 DEF HighLen
  <2>8. TraceIdScan(t) = id
    BY <1>2, <2>2, <2>3, <2>5, <2>6, <2>7 DEF TraceIdScan
  <2> QED
    BY <1>1, <2>1, <2>2, <2>4, <2>8
<1> QED
  BY <1>3, <1>4

\* The header of a context scans, and gives the context back.
LEMMA ContextRead ==
  ASSUME NEW c, IsContext(c),
         NEW ts, ts = ContextFormat(c)
  PROVE  /\ ts \in Seq(Seq(Nat))
         /\ ContextScans(ts)
         /\ TraceIdScan(ts[1]) = c.trace_id
         /\ Strtoull(ts[2]) = c.span_id
         /\ Strtoull(ts[3]) % 256 = c.flags
<1>1. /\ c.trace_id \in [high : Id, low : Id] /\ c.span_id \in Id
      /\ c.flags \in 0 .. 255 /\ c.flags \in Id
  BY DEF IsContext
<1> DEFINE a == TraceIdFormat(c.trace_id)
           b == Hex(c.span_id)
           d == Hex(c.flags)
<1>2. a \in Seq(0 .. Base - 1) /\ Len(a) <= 2 * Width /\ TraceIdScan(a) = c.trace_id
  BY <1>1, TraceIdRead
<1>3. b \in Seq(0 .. Base - 1) /\ Strtoull(b) = c.span_id
  BY <1>1, HexRead
<1>4. d \in Seq(0 .. Base - 1) /\ Strtoull(d) = c.flags
  BY <1>1, HexRead
<1>5. ts = <<a, b, d>>
  BY DEF ContextFormat
<1> HIDE DEF a, b, d
<1>6. \A s \in Seq(0 .. Base - 1) : s \in Seq(Nat) /\ IsNumber(s)
  BY WidthAssumption DEF IsNumber
<1>7. ts \in Seq(Seq(Nat)) /\ Len(ts) = 3 /\ ts[1] = a /\ ts[2] = b /\ ts[3] = d
  BY <1>2, <1>3, <1>4, <1>5, <1>6
<1>8. ContextScans(ts)
  BY <1>2, <1>3, <1>4, <1>6, <1>7 DEF ContextScans, TraceIdScans
<1>9. c.flags % 256 = c.flags
  BY <1>1
<1> QED
  BY <1>2, <1>3, <1>4, <1>7, <1>8, <1>9

---------------------------------------------------------------------------
(* The percent encoding *)

\* The recursions of encode_uri_value and decode_uri_value have a solution.
EncodedTo(t) ==
  CHOOSE g : g = [i \in 0 .. Len(t) |-> IF i = 0 THEN <<>>
                                        ELSE g[i - 1] \o EncodeChar(t[i])]
Start == [dst |-> <<>>, state |-> "default", first |-> 0]
DecodedTo(t) ==
  CHOOSE g : g = [i \in 0 .. Len(t) |-> IF i = 0 THEN Start
                                        ELSE DecodeChar(g[i - 1], t[i])]
Decoders == [dst : Seq(0 .. 255), state : {"default", "percent", "first_hex"},
             first : 0 .. 15]

LEMMA TextFacts ==
  ASSUME NEW t \in Text
  PROVE  t \in Seq(1 .. 255) /\ Len(t) \in Nat /\ \A i \in 1 .. Len(t) : t[i] \in 1 .. 255
<1>1. t \in Seq(1 .. 255)
  BY DEF Text
<1> QED
  BY <1>1, SeqFacts

LEMMA HexDigits ==
  /\ \A x \in 0 .. 15 : encode_hex(x) \in 1 .. 255 /\ decode_hex(encode_hex(x)) = x
  /\ \A ch \in 0 .. 255 : decode_hex(ch) = -1 \/ decode_hex(ch) \in 0 .. 15
BY DEF encode_hex, decode_hex, Digits

(* The two digits into which EncodeChar splits an octet are hexadecimal.     *)
LEMMA Nibbles ==
  ASSUME NEW ch \in 1 .. 255
  PROVE  ch \div 16 \in 0 .. 15 /\ ch % 16 \in 0 .. 15
OBVIOUS

LEMMA EncodeCharFacts ==
  ASSUME NEW ch \in 1 .. 255
  PROVE  /\ EncodeChar(ch) \in Seq(1 .. 255)
         /\ (Len(EncodeChar(ch)) = 1 \/ Len(EncodeChar(ch)) = 3)
<1>1. ch \div 16 \in 0 .. 15 /\ ch % 16 \in 0 .. 15
  BY Nibbles, Zenon
<1>2. encode_hex(ch \div 16) \in 1 .. 255 /\ encode_hex(ch % 16) \in 1 .. 255
  BY <1>1, HexDigits, Zenon
<1>3. PICK a \in 1 .. 255, b \in 1 .. 255 :
        a = encode_hex(ch \div 16) /\ b = encode_hex(ch % 16)
  BY <1>2, Zenon
<1>4. CASE ch \in Plain
  BY <1>4 DEF EncodeChar
<1>5. CASE ch \notin Plain
  <2>1. EncodeChar(ch) = <<37, a, b>>
    BY <1>3, <1>5 DEF EncodeChar, Percent
  <2> QED
    BY <2>1
<1> QED
  BY <1>4, <1>5

LEMMA EncodeDefined ==
  ASSUME NEW t \in Text
  PROVE  /\ EncodedTo(t) \in [0 .. Len(t) -> Seq(1 .. 255)]
         /\ EncodedTo(t)[0] = <<>>
         /\ \A i \in 1 .. Len(t) :
              EncodedTo(t)[i] = EncodedTo(t)[i - 1] \o EncodeChar(t[i])
         /\ encode_uri_value(t) = EncodedTo(t)[Len(t)]
<1> DEFINE S == Seq(1 .. 255)
           step == [p \in S \X (1 .. Len(t)) |-> p[1] \o EncodeChar(t[p[2]])]
<1>1. Len(t) \in Nat /\ \A i \in 1 .. Len(t) : t[i] \in 1 .. 255 /\ EncodeChar(t[i]) \in S
  <2>1. Len(t) \in Nat /\ \A i \in 1 .. Len(t) : t[i] \in 1 .. 255
    BY TextFacts
  <2> QED
    BY <2>1, EncodeCharFacts
<1>2. <<>> \in S
  OBVIOUS
<1>3. \A a \in S, b \in S : a \o b \in S
  OBVIOUS
<1> HIDE DEF S
<1>4. /\ step \in [S \X (1 .. Len(t)) -> S]
      /\ \A x \in S, i \in 1 .. Len(t) : step[<<x, i>>] = x \o EncodeChar(t[i])
  BY <1>1, <1>3
<1> HIDE DEF step
<1>5. PICK f \in [0 .. Len(t) -> S] : FollowsTo(Len(t), f, <<>>, step)
  BY <1>1, <1>2, <1>4, FiniteRecursion
<1>6. f[0] = <<>> /\ \A i \in 1 .. Len(t) : f[i] = step[<<f[i - 1], i>>]
  BY <1>5 DEF FollowsTo
<1>7. ASSUME NEW i \in 1 .. Len(t)
      PROVE  f[i] = f[i - 1] \o EncodeChar(t[i])
  <2>1. i - 1 \in 0 .. Len(t)
    BY <1>1
  <2> QED
    BY <1>4, <1>6, <2>1
<1>8. f = [i \in 0 .. Len(t) |-> IF i = 0 THEN <<>> ELSE f[i - 1] \o EncodeChar(t[i])]
  <2>1. ASSUME NEW i \in 0 .. Len(t)
        PROVE  f[i] = IF i = 0 THEN <<>> ELSE f[i - 1] \o EncodeChar(t[i])
    <3>1. CASE i = 0
      BY <1>6, <3>1
    <3>2. CASE i # 0
      <4>1. i \in 1 .. Len(t)
        BY <1>1, <3>2
      <4> QED
        BY <1>7, <3>2, <4>1
    <3> QED
      BY <3>1, <3>2
  <2> QED
    BY <2>1
<1> DEFINE g == EncodedTo(t)
<1>9. g = [i \in 0 .. Len(t) |-> IF i = 0 THEN <<>> ELSE g[i - 1] \o EncodeChar(t[i])]
  BY <1>8, Zenon DEF EncodedTo
<1>10. encode_uri_value(t) = g[Len(t)]
  BY Zenon DEF encode_uri_value, EncodedTo
<1> HIDE DEF g
<1>11. /\ DOMAIN g = 0 .. Len(t)
       /\ \A i \in 0 .. Len(t) :
            g[i] = IF i = 0 THEN <<>> ELSE g[i - 1] \o EncodeChar(t[i])
  BY <1>9
<1>12. 0 \in 0 .. Len(t) /\ \A i \in 1 .. Len(t) : i \in 0 .. Len(t) /\ i # 0
  BY <1>1
<1>13. g[0] = <<>> /\ \A i \in 1 .. Len(t) : g[i] = g[i - 1] \o EncodeChar(t[i])
  BY <1>11, <1>12
<1> DEFINE T == {i \in Nat : i <= Len(t) => g[i] \in S}
<1>14. 0 \in T /\ T \in SUBSET Nat
  BY <1>2, <1>13
<1>15. ASSUME NEW i \in T
       PROVE  i + 1 \in T
  <2>1. CASE i + 1 <= Len(t)
    <3>1. i \in Nat /\ i + 1 \in 1 .. Len(t) /\ (i + 1) - 1 = i /\ g[i] \in S
      BY <1>1, <2>1
    <3>2. g[i + 1] = g[i] \o EncodeChar(t[i + 1]) /\ EncodeChar(t[i + 1]) \in S
      BY <1>1, <1>13, <3>1
    <3>3. g[i + 1] \in S
      BY <1>3, <3>1, <3>2
    <3> QED
      BY <3>1, <3>3
  <2>2. CASE ~(i + 1 <= Len(t))
    BY <2>2
  <2> QED
    BY <2>1, <2>2
<1>16. \A i \in Nat : i \in T
  <2> HIDE DEF T
  <2> QED
    BY <1>14, <1>15, SetInduction
<1>17. \A i \in 0 .. Len(t) : g[i] \in S
  BY <1>1, <1>16
<1>18. g \in [0 .. Len(t) -> S]
  BY <1>9, <1>11, <1>17
<1> QED
  BY <1>10, <1>13, <1>18 DEF g, S

\* The encoding is a text, of at most three characters for each.
LEMMA EncodeFacts ==
  ASSUME NEW t \in Text
  PROVE  encode_uri_value(t) \in Text /\ Len(encode_uri_value(t)) <= 3 * Len(t)
<1>1. PICK n \in Nat : n = Len(t)
  BY DEF Text
<1>2. \A i \in 1 .. n : /\ EncodeChar(t[i]) \in Seq(1 .. 255)
                        /\ (Len(EncodeChar(t[i])) = 1 \/ Len(EncodeChar(t[i])) = 3)
  <2>1. \A i \in 1 .. n : t[i] \in 1 .. 255
    BY <1>1, TextFacts
  <2> QED
    BY <2>1, EncodeCharFacts
<1>3. PICK f \in [0 .. n -> Seq(1 .. 255)] :
        /\ f[0] = <<>>
        /\ \A i \in 1 .. n : f[i] = f[i - 1] \o EncodeChar(t[i])
        /\ encode_uri_value(t) = f[n]
  BY <1>1, EncodeDefined
<1> DEFINE T == {i \in Nat : i <= n => Len(f[i]) <= 3 * i}
<1>4. 0 \in T /\ T \in SUBSET Nat
  BY <1>3
<1>5. ASSUME NEW i \in T
      PROVE  i + 1 \in T
  <2>1. CASE i + 1 <= n
    <3>1. i \in Nat /\ i + 1 \in 1 .. n /\ (i + 1) - 1 = i /\ Len(f[i]) <= 3 * i
      BY <1>1, <2>1
    <3>2. f[i] \in Seq(1 .. 255) /\ f[i + 1] = f[i] \o EncodeChar(t[i + 1])
      <4>1. i \in 0 .. n
        BY <3>1
      <4> QED
        BY <1>3, <3>1, <4>1
    <3>3. PICK e \in Seq(1 .. 255) : e = EncodeChar(t[i + 1]) /\ (Len(e) = 1 \/ Len(e) = 3)
      BY <1>2, <3>1
    <3>4. Len(f[i + 1]) = Len(f[i]) + Len(e)
      BY <3>2, <3>3
    <3>5. Len(f[i]) \in Nat /\ Len(e) \in Nat /\ Len(e) <= 3
      <4>1. Len(f[i]) \in Nat
        BY <3>2, SeqFacts
      <4>2. Len(e) \in Nat
        BY SeqFacts
      <4>3. PICK k \in Nat : k = Len(e)
        BY <4>2
      <4>4. k = 1 \/ k = 3
        BY <3>3, <4>3, Zenon
      <4>5. k <= 3
        BY ONLY <4>4
      <4> QED
        BY <4>1, <4>3, <4>5
    <3>6. Len(f[i + 1]) <= 3 * (i + 1)
      BY <3>1, <3>4, <3>5
    <3> QED
      BY <3>1, <3>6
  <2>2. CASE ~(i + 1 <= n)
    BY <2>2
  <2> QED
    BY <2>1, <2>2
<1>6. \A i \in Nat : i \in T
  <2> HIDE DEF T
  <2> QED
    BY <1>4, <1>5, SetInduction
<1>7. Len(f[n]) <= 3 * n /\ f[n] \in Text
  BY <1>3, <1>6 DEF Text
<1> QED
  BY <1>1, <1>3, <1>7

\* The characters that a decoder holds back.
Owed(state) == IF state = "default" THEN 0 ELSE IF state = "percent" THEN 1 ELSE 2
Decoder(x, state, n) == [dst |-> x, state |-> state, first |-> n]


\* What each character does to the decoder.
DecodesTo(x, ch, a, n) ==
  /\ ch # Percent => DecodeChar(Decoder(x, "default", n), ch)
                       = Decoder(x \o <<ch>>, "default", 0)
  /\ ch = Percent => DecodeChar(Decoder(x, "default", n), ch) = Decoder(x, "percent", n)
  /\ decode_hex(ch) = -1 => DecodeChar(Decoder(x, "percent", n), ch)
                              = Decoder(x \o <<Percent, ch>>, "default", 0)
  /\ decode_hex(ch) # -1 => DecodeChar(Decoder(x, "percent", n), ch)
                              = Decoder(x, "first_hex", decode_hex(ch))
  /\ decode_hex(ch) = -1 => DecodeChar(Decoder(x, "first_hex", a), ch)
                              = Decoder(x \o <<Percent, encode_hex(a), ch>>, "default", 0)
  /\ decode_hex(ch) # -1 => DecodeChar(Decoder(x, "first_hex", a), ch)
                              = Decoder(x \o <<16 * a + decode_hex(ch)>>, "default", 0)

LEMMA DecodeSteps ==
  ASSUME NEW x \in Seq(0 .. 255), NEW ch \in 0 .. 255, NEW a \in 0 .. 15, NEW n
  PROVE  DecodesTo(x, ch, a, n)
<1>1. ASSUME NEW st, NEW k, NEW s, s = Decoder(x, st, k)
      PROVE  /\ s.dst = x /\ s.state = st /\ s.first = k
             /\ [s EXCEPT !.state = "percent"] = Decoder(x, "percent", k)
  BY <1>1 DEF Decoder
<1>2. /\ ch # Percent => DecodeChar(Decoder(x, "default", n), ch)
                              = Decoder(x \o <<ch>>, "default", 0)
      /\ ch = Percent => DecodeChar(Decoder(x, "default", n), ch)
                              = Decoder(x, "percent", n)
  <2>1. PICK s : s = Decoder(x, "default", n)
    OBVIOUS
  <2>2. s.dst = x /\ s.state = "default"
    BY <1>1, <2>1
  <2>3. [s EXCEPT !.state = "percent"] = Decoder(x, "percent", n)
    BY <1>1, <2>1
  <2>4. CASE ch = Percent
    BY <2>1, <2>2, <2>3, <2>4 DEF DecodeChar
  <2>5. CASE ch # Percent
    BY <2>1, <2>2, <2>5 DEF DecodeChar, Decoder
  <2> QED
    BY <2>4, <2>5
<1>3. /\ decode_hex(ch) = -1 => DecodeChar(Decoder(x, "percent", n), ch)
                                     = Decoder(x \o <<Percent, ch>>, "default", 0)
      /\ decode_hex(ch) # -1 => DecodeChar(Decoder(x, "percent", n), ch)
                                     = Decoder(x, "first_hex", decode_hex(ch))
  <2>1. PICK s : s = Decoder(x, "percent", n)
    OBVIOUS
  <2>2. s.dst = x /\ s.state = "percent"
    BY <1>1, <2>1
  <2>3. \A m : [s EXCEPT !.state = "first_hex", !.first = m] = Decoder(x, "first_hex", m)
    <3> SUFFICES ASSUME NEW m
                 PROVE  [s EXCEPT !.state = "first_hex", !.first = m]
                          = Decoder(x, "first_hex", m)
      OBVIOUS
    <3>1. PICK r : r = [s EXCEPT !.state = "first_hex"]
      OBVIOUS
    <3>2. r = Decoder(x, "first_hex", n)
      BY <2>1, <3>1 DEF Decoder
    <3>3. [r EXCEPT !.first = m] = Decoder(x, "first_hex", m)
      BY <3>2 DEF Decoder
    <3> QED
      BY <3>1, <3>3
  <2>4. CASE decode_hex(ch) = -1
    BY <2>1, <2>2, <2>4 DEF DecodeChar, Decoder
  <2>5. CASE decode_hex(ch) # -1
    <3>1. DecodeChar(s, ch) = [s EXCEPT !.state = "first_hex", !.first = decode_hex(ch)]
      BY <2>2, <2>5 DEF DecodeChar
    <3> QED
      BY <2>1, <2>3, <2>5, <3>1
  <2> QED
    BY <2>4, <2>5
<1>4. /\ decode_hex(ch) = -1 => DecodeChar(Decoder(x, "first_hex", a), ch)
               = Decoder(x \o <<Percent, encode_hex(a), ch>>, "default", 0)
      /\ decode_hex(ch) # -1 => DecodeChar(Decoder(x, "first_hex", a), ch)
               = Decoder(x \o <<16 * a + decode_hex(ch)>>, "default", 0)
  <2>1. PICK s : s = Decoder(x, "first_hex", a)
    OBVIOUS
  <2>2. s.dst = x /\ s.state = "first_hex" /\ s.first = a
    BY <1>1, <2>1
  <2>4. CASE decode_hex(ch) = -1
    BY <2>1, <2>2, <2>4 DEF DecodeChar, Decoder
  <2>5. CASE decode_hex(ch) # -1
    BY <2>1, <2>2, <2>5 DEF DecodeChar, Decoder
  <2> QED
    BY <2>4, <2>5
<1> QED
  BY <1>2, <1>3, <1>4 DEF DecodesTo

\* A character is written or held back.
LEMMA DecodeGrows ==
  ASSUME NEW s \in Decoders, NEW ch \in 0 .. 255
  PROVE  /\ DecodeChar(s, ch) \in Decoders
         /\ Len(DecodeChar(s, ch).dst) + Owed(DecodeChar(s, ch).state)
              <= Len(s.dst) + Owed(s.state) + 1
<1>1. PICK x \in Seq(0 .. 255), a \in 0 .. 15 : x = s.dst /\ a = s.first
  BY DEF Decoders
<1>2. s = Decoder(x, s.state, a) /\ s.state \in {"default", "percent", "first_hex"}
  BY <1>1 DEF Decoders, Decoder
<1>4. Len(x) \in Nat
  OBVIOUS
<1>5. PICK d : d = decode_hex(ch) /\ (d = -1 \/ d \in 0 .. 15)
  <2>1. decode_hex(ch) = -1 \/ decode_hex(ch) \in 0 .. 15
    BY HexDigits, Zenon
  <2> QED
    BY <2>1, Zenon
<1>6. PICK e \in 0 .. 255 : e = encode_hex(a)
  <2>1. encode_hex(a) \in 1 .. 255
    BY HexDigits, Zenon
  <2> QED
    BY <2>1
<1>7. PICK p \in 0 .. 255 : p = Percent
  BY DEF Percent
<1>19. DecodesTo(x, ch, a, a)
  BY DecodeSteps
<1>8. ASSUME NEW y \in Seq(0 .. 255), Len(y) <= Len(x) + Owed(s.state) + 1,
             DecodeChar(s, ch) = Decoder(y, "default", 0)
      PROVE  /\ DecodeChar(s, ch) \in Decoders
             /\ Len(DecodeChar(s, ch).dst) + Owed(DecodeChar(s, ch).state)
                  <= Len(s.dst) + Owed(s.state) + 1
  <2>1. Decoder(y, "default", 0) \in Decoders
        /\ Decoder(y, "default", 0).dst = y /\ Decoder(y, "default", 0).state = "default"
    BY DEF Decoder, Decoders
  <2>2. Owed("default") = 0 /\ Len(y) \in Nat
    BY DEF Owed
  <2> QED
    BY <1>1, <1>8, <2>1, <2>2
<1>9. CASE s.state = "default"
  <2>1. CASE ch # p
    <3>1. DecodeChar(s, ch) = Decoder(x \o <<ch>>, "default", 0)
      BY <1>2, <1>7, <1>9, <2>1, <1>19, Zenon DEF DecodesTo
    <3>2. x \o <<ch>> \in Seq(0 .. 255) /\ Len(x \o <<ch>>) = Len(x) + 1 /\ Owed(s.state) = 0
      BY <1>9 DEF Owed
    <3>3. Len(x \o <<ch>>) <= Len(x) + Owed(s.state) + 1
      BY <1>4, <3>2
    <3> QED
      BY <1>8, <3>1, <3>2, <3>3, Zenon
  <2>2. CASE ch = p
    <3>1. DecodeChar(s, ch) = Decoder(x, "percent", a)
      BY <1>2, <1>7, <1>9, <2>2, <1>19, Zenon DEF DecodesTo
    <3>2. /\ Decoder(x, "percent", a) \in Decoders
          /\ Decoder(x, "percent", a).dst = x /\ Decoder(x, "percent", a).state = "percent"
      BY DEF Decoder, Decoders
    <3>3. Owed("percent") = 1 /\ Owed(s.state) = 0
      BY <1>9 DEF Owed
    <3> QED
      BY <1>1, <1>4, <3>1, <3>2, <3>3
  <2> QED
    BY <2>1, <2>2
<1>10. CASE s.state = "percent"
  <2>1. CASE d = -1
    <3>1. DecodeChar(s, ch) = Decoder(x \o <<p, ch>>, "default", 0)
      BY <1>2, <1>5, <1>7, <1>10, <2>1, <1>19, Zenon DEF DecodesTo
    <3>2. /\ x \o <<p, ch>> \in Seq(0 .. 255) /\ Len(x \o <<p, ch>>) = Len(x) + 2
          /\ Owed(s.state) = 1
      BY <1>10 DEF Owed
    <3>3. Len(x \o <<p, ch>>) <= Len(x) + Owed(s.state) + 1
      BY <1>4, <3>2
    <3> QED
      BY <1>8, <3>1, <3>2, <3>3, Zenon
  <2>2. CASE d # -1
    <3>1. DecodeChar(s, ch) = Decoder(x, "first_hex", d) /\ d \in 0 .. 15
      BY <1>2, <1>5, <1>10, <2>2, <1>19, Zenon DEF DecodesTo
    <3>2. /\ Decoder(x, "first_hex", d) \in Decoders
          /\ Decoder(x, "first_hex", d).dst = x /\ Decoder(x, "first_hex", d).state = "first_hex"
      BY <3>1 DEF Decoder, Decoders
    <3>3. Owed("first_hex") = 2 /\ Owed(s.state) = 1
      BY <1>10 DEF Owed
    <3> QED
      BY <1>1, <1>4, <3>1, <3>2, <3>3
  <2> QED
    BY <2>1, <2>2
<1>11. CASE s.state = "first_hex"
  <2>1. CASE d = -1
    <3>1. DecodeChar(s, ch) = Decoder(x \o <<p, e, ch>>, "default", 0)
      BY <1>2, <1>5, <1>6, <1>7, <1>11, <2>1, <1>19, Zenon DEF DecodesTo
    <3>2. /\ x \o <<p, e, ch>> \in Seq(0 .. 255) /\ Len(x \o <<p, e, ch>>) = Len(x) + 3
          /\ Owed(s.state) = 2
      BY <1>11 DEF Owed
    <3>3. Len(x \o <<p, e, ch>>) <= Len(x) + Owed(s.state) + 1
      BY <1>4, <3>2
    <3> QED
      BY <1>8, <3>1, <3>2, <3>3, Zenon
  <2>2. CASE d # -1
    <3>1. DecodeChar(s, ch) = Decoder(x \o <<16 * a + d>>, "default", 0)
      BY <1>2, <1>5, <1>11, <2>2, <1>19, Zenon DEF DecodesTo
    <3>2. PICK z \in 0 .. 255 : z = 16 * a + d
      <4>1. d \in 0 .. 15
        BY <1>5, <2>2
      <4>2. 16 * a + d \in 0 .. 255
        BY <4>1
      <4> QED
        BY <4>2
    <3>3. /\ x \o <<z>> \in Seq(0 .. 255) /\ Len(x \o <<z>>) = Len(x) + 1
          /\ Owed(s.state) = 2
      BY <1>11 DEF Owed
    <3>4. Len(x \o <<z>>) <= Len(x) + Owed(s.state) + 1
      BY <1>4, <3>3
    <3> QED
      BY <1>8, <3>1, <3>2, <3>3, <3>4, Zenon
  <2> QED
    BY <2>1, <2>2
<1> QED
  BY <1>2, <1>9, <1>10, <1>11

LEMMA DecodeDefined ==
  ASSUME NEW t \in Text
  PROVE  /\ DecodedTo(t) \in [0 .. Len(t) -> Decoders]
         /\ DecodedTo(t)[0] = Start
         /\ \A i \in 1 .. Len(t) : DecodedTo(t)[i] = DecodeChar(DecodedTo(t)[i - 1], t[i])
         /\ decode_uri_value(t) = DecodedTo(t)[Len(t)].dst \o DecodeRest(DecodedTo(t)[Len(t)])
<1> DEFINE step == [p \in Decoders \X (1 .. Len(t)) |-> DecodeChar(p[1], t[p[2]])]
<1>1. Len(t) \in Nat /\ \A i \in 1 .. Len(t) : t[i] \in 0 .. 255
  <2>1. Len(t) \in Nat /\ \A i \in 1 .. Len(t) : t[i] \in 1 .. 255
    BY TextFacts
  <2> QED
    BY <2>1
<1>2. Start \in Decoders
  BY DEF Start, Decoders
<1>3. \A s \in Decoders, i \in 1 .. Len(t) : DecodeChar(s, t[i]) \in Decoders
  BY <1>1, DecodeGrows
<1>4. /\ step \in [Decoders \X (1 .. Len(t)) -> Decoders]
      /\ \A x \in Decoders, i \in 1 .. Len(t) : step[<<x, i>>] = DecodeChar(x, t[i])
  BY <1>3
<1> HIDE DEF step
<1>5. PICK f \in [0 .. Len(t) -> Decoders] : FollowsTo(Len(t), f, Start, step)
  BY <1>1, <1>2, <1>4, FiniteRecursion
<1>6. f[0] = Start /\ \A i \in 1 .. Len(t) : f[i] = step[<<f[i - 1], i>>]
  BY <1>5 DEF FollowsTo
<1>7. ASSUME NEW i \in 1 .. Len(t)
      PROVE  f[i] = DecodeChar(f[i - 1], t[i])
  <2>1. i - 1 \in 0 .. Len(t)
    BY <1>1
  <2> QED
    BY <1>4, <1>6, <2>1
<1>8. f = [i \in 0 .. Len(t) |-> IF i = 0 THEN Start ELSE DecodeChar(f[i - 1], t[i])]
  <2>1. ASSUME NEW i \in 0 .. Len(t)
        PROVE  f[i] = IF i = 0 THEN Start ELSE DecodeChar(f[i - 1], t[i])
    <3>1. CASE i = 0
      BY <1>6, <3>1
    <3>2. CASE i # 0
      <4>1. i \in 1 .. Len(t)
        BY <1>1, <3>2
      <4> QED
        BY <1>7, <3>2, <4>1
    <3> QED
      BY <3>1, <3>2
  <2> QED
    BY <2>1
<1> DEFINE g == DecodedTo(t)
<1>9. g = [i \in 0 .. Len(t) |-> IF i = 0 THEN Start ELSE DecodeChar(g[i - 1], t[i])]
  BY <1>8, Zenon DEF DecodedTo
<1>10. decode_uri_value(t) = g[Len(t)].dst \o DecodeRest(g[Len(t)])
  BY Zenon DEF decode_uri_value, DecodedTo, Start
<1> HIDE DEF g
<1>11. /\ DOMAIN g = 0 .. Len(t)
       /\ \A i \in 0 .. Len(t) : g[i] = IF i = 0 THEN Start ELSE DecodeChar(g[i - 1], t[i])
  BY <1>9
<1>12. 0 \in 0 .. Len(t) /\ \A i \in 1 .. Len(t) : i \in 0 .. Len(t) /\ i # 0
  BY <1>1
<1>13. g[0] = Start /\ \A i \in 1 .. Len(t) : g[i] = DecodeChar(g[i - 1], t[i])
  BY <1>11, <1>12
<1> DEFINE T == {i \in Nat : i <= Len(t) => g[i] \in Decoders}
<1>14. 0 \in T /\ T \in SUBSET Nat
  BY <1>2, <1>13
<1>15. ASSUME NEW i \in T
       PROVE  i + 1 \in T
  <2>1. CASE i + 1 <= Len(t)
    <3>1. i \in Nat /\ i + 1 \in 1 .. Len(t) /\ (i + 1) - 1 = i /\ g[i] \in Decoders
      BY <1>1, <2>1
    <3>2. g[i + 1] = DecodeChar(g[i], t[i + 1])
      BY <1>13, <3>1
    <3>3. g[i + 1] \in Decoders
      BY <1>3, <3>1, <3>2
    <3> QED
      BY <3>1, <3>3
  <2>2. CASE ~(i + 1 <= Len(t))
    BY <2>2
  <2> QED
    BY <2>1, <2>2
<1>16. \A i \in Nat : i \in T
  <2> HIDE DEF T
  <2> QED
    BY <1>14, <1>15, SetInduction
<1>17. \A i \in 0 .. Len(t) : g[i] \in Decoders
  BY <1>1, <1>16
<1>18. g \in [0 .. Len(t) -> Decoders]
  BY <1>9, <1>11, <1>17
<1> QED
  BY <1>10, <1>13, <1>18 DEF g

\* The decoder writes no more than it reads.
LEMMA DecodeFits ==
  ASSUME NEW t \in Text
  PROVE  Len(decode_uri_value(t)) <= Len(t)
<1>1. PICK n \in Nat : n = Len(t)
  BY TextFacts
<1>2. \A i \in 1 .. n : t[i] \in 0 .. 255
  <2>1. \A i \in 1 .. n : t[i] \in 1 .. 255
    BY <1>1, TextFacts
  <2> QED
    BY <2>1
<1>3. PICK f \in [0 .. n -> Decoders] :
        /\ f[0] = Start
        /\ \A i \in 1 .. n : f[i] = DecodeChar(f[i - 1], t[i])
        /\ decode_uri_value(t) = f[n].dst \o DecodeRest(f[n])
  BY <1>1, DecodeDefined
<1> DEFINE Held(s) == Len(s.dst) + Owed(s.state)
           T == {i \in Nat : i <= n => Held(f[i]) <= i}
<1>4. \A s \in Decoders : Held(s) \in Nat
  BY DEF Decoders, Owed
<1>5. 0 \in T /\ T \in SUBSET Nat
  <2>1. Held(Start) = 0
    BY DEF Start, Owed
  <2> HIDE DEF Held
  <2> QED
    BY <1>3, <2>1
<1>6. \A s \in Decoders, ch \in 0 .. 255 : Held(DecodeChar(s, ch)) <= Held(s) + 1
  BY DecodeGrows
<1> HIDE DEF Held
<1>7. ASSUME NEW i \in T
      PROVE  i + 1 \in T
  <2>1. CASE i + 1 <= n
    <3>1. i \in Nat /\ i + 1 \in 1 .. n /\ (i + 1) - 1 = i /\ Held(f[i]) <= i
      BY <1>1, <2>1
    <3>2. i \in 0 .. n /\ i + 1 \in 0 .. n
      BY <3>1
    <3>3. f[i] \in Decoders /\ f[i + 1] \in Decoders /\ f[i + 1] = DecodeChar(f[i], t[i + 1])
      BY <1>3, <3>1, <3>2
    <3>4. Held(f[i + 1]) <= Held(f[i]) + 1
      BY <1>2, <1>6, <3>1, <3>3
    <3>5. Held(f[i]) \in Nat /\ Held(f[i + 1]) \in Nat
      BY <1>4, <3>3
    <3>6. Held(f[i + 1]) <= i + 1
      BY <3>1, <3>4, <3>5
    <3> QED
      BY <3>1, <3>6
  <2>2. CASE ~(i + 1 <= n)
    BY <2>2
  <2> QED
    BY <2>1, <2>2
<1>8. \A i \in Nat : i \in T
  <2> HIDE DEF T
  <2> QED
    BY <1>5, <1>7, SetInduction
<1>9. PICK s \in Decoders : s = f[n] /\ Held(s) <= n
  BY <1>3, <1>8
<1>10. DecodeRest(s) \in Seq(0 .. 255) /\ Len(DecodeRest(s)) = Owed(s.state)
  <2>1. s.state \in {"default", "percent", "first_hex"} /\ s.first \in 0 .. 15
    BY DEF Decoders
  <2>2. encode_hex(s.first) \in 1 .. 255
    BY <2>1, HexDigits, Zenon
  <2>3. PICK e \in 0 .. 255 : e = encode_hex(s.first)
    BY <2>2
  <2>4. CASE s.state = "default"
    BY <2>4 DEF DecodeRest, Owed
  <2>5. CASE s.state = "percent"
    BY <2>5 DEF DecodeRest, Owed, Percent
  <2>6. CASE s.state = "first_hex"
    <3>1. DecodeRest(s) = <<37, e>>
      BY <2>3, <2>6 DEF DecodeRest, Percent
    <3> QED
      BY <2>6, <3>1 DEF Owed
  <2> QED
    BY <2>1, <2>4, <2>5, <2>6
<1>11. Len(s.dst \o DecodeRest(s)) = Held(s)
  <2>1. s.dst \in Seq(0 .. 255)
    BY DEF Decoders
  <2> QED
    BY <1>10, <2>1, ConcatFacts DEF Held
<1> QED
  BY <1>1, <1>3, <1>9, <1>11

\* The encoding of the first characters is the beginning of the encoding.
LEMMA EncodePrefix ==
  ASSUME NEW t \in Text, NEW i \in 0 .. Len(t)
  PROVE  /\ Len(EncodedTo(t)[i]) <= Len(encode_uri_value(t))
         /\ \A j \in 1 .. Len(EncodedTo(t)[i]) :
              encode_uri_value(t)[j] = EncodedTo(t)[i][j]
<1>1. PICK n \in Nat : n = Len(t)
  BY TextFacts
<1>2. \A k \in 1 .. n : EncodeChar(t[k]) \in Seq(1 .. 255)
  <2>1. \A k \in 1 .. n : t[k] \in 1 .. 255
    BY <1>1, TextFacts
  <2> QED
    BY <2>1, EncodeCharFacts
<1>3. PICK f \in [0 .. n -> Seq(1 .. 255)] :
        /\ \A k \in 1 .. n : f[k] = f[k - 1] \o EncodeChar(t[k])
        /\ encode_uri_value(t) = f[n]
        /\ f = EncodedTo(t)
  BY <1>1, EncodeDefined
<1> DEFINE Begins(m) == /\ Len(f[m]) <= Len(f[n])
                        /\ \A j \in 1 .. Len(f[m]) : f[n][j] = f[m][j]
           T == {m \in Nat : m <= n => Begins(n - m)}
<1>4. 0 \in T /\ T \in SUBSET Nat
  <2>1. n - 0 = n /\ n \in 0 .. n
    OBVIOUS
  <2>2. Len(f[n]) \in Nat
    BY <2>1, SeqFacts
  <2> QED
    BY <2>1, <2>2
<1>5. ASSUME NEW m \in T
      PROVE  m + 1 \in T
  <2>1. CASE m + 1 <= n
    <3>1. PICK k \in 1 .. n : k = n - m
      BY <2>1
    <3>2. m \in Nat /\ n - (m + 1) = k - 1 /\ k - 1 \in 0 .. n /\ k \in 0 .. n /\ n \in 0 .. n
      BY <2>1, <3>1
    <3>3. Begins(k)
      BY <2>1, <3>1, <3>2
    <3>4. PICK a \in Seq(1 .. 255), e \in Seq(1 .. 255) : a = f[k - 1] /\ e = EncodeChar(t[k])
      BY <1>2, <3>2
    <3>5. f[k] = a \o e
      BY <1>3, <3>4
    <3>6. /\ Len(a) \in Nat /\ Len(f[k]) \in Nat /\ Len(f[n]) \in Nat /\ Len(e) \in Nat
          /\ Len(f[k]) = Len(a) + Len(e)
          /\ \A j \in 1 .. Len(a) : f[k][j] = a[j]
      <4>1. Len(a) \in Nat /\ Len(e) \in Nat
        BY SeqFacts
      <4>2. Len(f[k]) \in Nat /\ Len(f[n]) \in Nat
        BY <3>2, SeqFacts
      <4>3. Len(a \o e) = Len(a) + Len(e) /\ \A j \in 1 .. Len(a) : (a \o e)[j] = a[j]
        BY ConcatFacts
      <4> QED
        BY <3>5, <4>1, <4>2, <4>3
    <3>7. Begins(k - 1)
      <4>1. Len(a) <= Len(f[n])
        BY <3>3, <3>6
      <4>2. ASSUME NEW j \in 1 .. Len(a)
            PROVE  f[n][j] = a[j]
        <5>1. j \in 1 .. Len(f[k])
          BY <3>6
        <5> QED
          BY <3>3, <3>6, <5>1
      <4> QED
        BY <3>4, <4>1, <4>2
    <3> HIDE DEF Begins
    <3> QED
      BY <3>2, <3>7
  <2>2. CASE ~(m + 1 <= n)
    BY <2>2
  <2> QED
    BY <2>1, <2>2
<1>6. \A m \in Nat : m \in T
  <2> HIDE DEF T
  <2> QED
    BY <1>4, <1>5, SetInduction
<1>7. Begins(i)
  <2>1. n - i \in Nat /\ n - i <= n /\ n - (n - i) = i
    BY <1>1
  <2> HIDE DEF Begins
  <2> QED
    BY <1>6, <2>1
<1> QED
  BY <1>3, <1>7

\* Every text survives the percent encoding.
LEMMA DecodeEncoded ==
  ASSUME NEW t \in Text
  PROVE  decode_uri_value(encode_uri_value(t)) = t
<1>1. PICK n \in Nat : n = Len(t)
  BY TextFacts
<1>2. t \in Seq(0 .. 255) /\ \A k \in 1 .. n : t[k] \in 1 .. 255
  <2>1. t \in Seq(1 .. 255) /\ \A k \in 1 .. n : t[k] \in 1 .. 255
    BY <1>1, TextFacts
  <2> QED
    BY <2>1
<1>3. PICK f \in [0 .. n -> Seq(1 .. 255)] :
        /\ f[0] = <<>>
        /\ \A k \in 1 .. n : f[k] = f[k - 1] \o EncodeChar(t[k])
        /\ encode_uri_value(t) = f[n]
        /\ f = EncodedTo(t)
  BY <1>1, EncodeDefined
<1>4. PICK c \in Text : c = encode_uri_value(t)
  BY EncodeFacts
<1>5. PICK l \in Nat : l = Len(c)
  BY TextFacts
<1>6. PICK g :
        /\ g[0] = Start
        /\ \A i \in 1 .. l : g[i] = DecodeChar(g[i - 1], c[i])
        /\ decode_uri_value(c) = g[l].dst \o DecodeRest(g[l])
  BY <1>5, DecodeDefined
<1> DEFINE Read(i) == Decoder(SubSeq(t, 1, i), "default", 0)
           T == {i \in Nat : i <= n => g[Len(f[i])] = Read(i)}
<1>7. 0 \in T /\ T \in SUBSET Nat
  <2>1. Len(f[0]) = 0 /\ SubSeq(t, 1, 0) = <<>>
    BY <1>1, <1>2, <1>3
  <2>2. Read(0) = Start
    BY <2>1 DEF Decoder, Start
  <2> HIDE DEF Read
  <2> QED
    BY <1>6, <2>1, <2>2
<1>8. ASSUME NEW i \in T
      PROVE  i + 1 \in T
  <2>1. CASE i + 1 <= n
    <3>1. i \in Nat /\ i \in 0 .. n /\ i + 1 \in 0 .. n /\ i + 1 \in 1 .. n /\ (i + 1) - 1 = i
      BY <2>1
    <3>2. PICK x \in Seq(0 .. 255) : x = SubSeq(t, 1, i)
      <4>1. i \in 0 .. Len(t)
        BY <1>1, <3>1
      <4>2. SubSeq(t, 1, i) \in Seq(0 .. 255)
        <5>1. PICK s \in Seq(0 .. 255) : s = t
          BY <1>2, Zenon
        <5>2. PICK m \in 0 .. Len(s) : m = i
          BY <4>1, <5>1, Zenon
        <5>3. SubSeq(s, 1, m) \in Seq(0 .. 255)
          BY ONLY <5>2, FrontFacts
        <5> QED
          BY <5>1, <5>2, <5>3, Zenon
      <4> QED
        BY <4>2
    <3>3. PICK ch \in 1 .. 255 : ch = t[i + 1]
      BY <1>2, <3>1
    <3>4. SubSeq(t, 1, i + 1) = x \o <<ch>>
      BY <1>1, <1>2, <3>1, <3>2, <3>3
    <3>5. PICK k \in Nat : k = Len(f[i])
      BY <3>1, SeqFacts
    <3>6. g[k] = Decoder(x, "default", 0)
      BY <3>1, <3>2, <3>5
    <3> HIDE DEF Read
    <3>7. PICK a \in Seq(1 .. 255), e \in Seq(1 .. 255) : a = f[i] /\ e = EncodeChar(ch)
      BY <3>1, EncodeCharFacts
    <3>8. f[i + 1] = a \o e
      BY <1>3, <3>1, <3>3, <3>7
    <3>9. /\ Len(f[i + 1]) = k + Len(e) /\ Len(e) \in Nat
          /\ k + Len(e) <= l
          /\ \A j \in 1 .. Len(e) : c[k + j] = e[j]
      <4>1. Len(a \o e) = k + Len(e) /\ \A j \in 1 .. Len(e) : (a \o e)[k + j] = e[j]
        BY <3>5, <3>7, ConcatFacts
      <4>2. /\ Len(f[i + 1]) <= l
            /\ \A j \in 1 .. Len(f[i + 1]) : c[j] = f[i + 1][j]
        BY <1>1, <1>3, <1>4, <1>5, <3>1, EncodePrefix
      <4>3. Len(e) \in Nat
        BY SeqFacts
      <4>4. ASSUME NEW j \in 1 .. Len(e)
            PROVE  c[k + j] = e[j]
        <5>1. k + j \in 1 .. k + Len(e)
          BY <4>3
        <5>2. k + j \in 1 .. Len(f[i + 1])
          BY <3>8, <4>1, <5>1, Zenon
        <5> QED
          BY <3>8, <4>1, <4>2, <5>2
      <4> QED
        BY <3>8, <4>1, <4>2, <4>3, <4>4
    <3>10. ASSUME NEW j \in 1 .. Len(e)
           PROVE  g[k + j] = DecodeChar(g[k + j - 1], e[j])
      <4>1. PICK h \in Nat : h = Len(e) /\ k + h <= l
        BY <3>9, Zenon
      <4>2. j \in 1 .. h
        BY <4>1, Zenon
      <4>3. k + j \in 1 .. l
        BY ONLY <4>1, <4>2, k \in Nat, l \in Nat
      <4> QED
        BY <1>6, <3>9, <4>3
    <3>11. g[Len(f[i + 1])] = Decoder(x \o <<ch>>, "default", 0)
      <4>1. CASE ch \in Plain
        <5>1. e = <<ch>> /\ ch # Percent
          BY <3>7, <4>1 DEF EncodeChar, Plain, Percent, Digits, Upper, Lower
        <5>2. Len(e) = 1 /\ e[1] = ch /\ k + 1 - 1 = k
          BY <5>1
        <5>3. g[k + 1] = DecodeChar(g[k], ch)
          BY <3>10, <5>2
        <5>4. DecodesTo(x, ch, 0, 0)
          <6>1. ch \in 0 .. 255 /\ 0 \in 0 .. 15
            OBVIOUS
          <6> QED
            BY <6>1, DecodeSteps, Zenon
        <5> QED
          BY <3>6, <3>9, <5>1, <5>2, <5>3, <5>4 DEF DecodesTo
      <4>2. CASE ch \notin Plain
        <5>1. PICK u \in 0 .. 15, v \in 0 .. 15 : u = ch \div 16 /\ v = ch % 16
          <6>1. ch \div 16 \in 0 .. 15 /\ ch % 16 \in 0 .. 15
            BY Nibbles, Zenon
          <6> QED
            BY <6>1, Zenon
        <5>2. PICK p \in 0 .. 255, q \in 0 .. 255 : p = encode_hex(u) /\ q = encode_hex(v)
          <6>1. encode_hex(u) \in 1 .. 255 /\ encode_hex(v) \in 1 .. 255
            BY HexDigits, Zenon
          <6>2. \A z \in 1 .. 255 : z \in 0 .. 255
            OBVIOUS
          <6>3. encode_hex(u) \in 0 .. 255 /\ encode_hex(v) \in 0 .. 255
            BY <6>1, <6>2, Zenon
          <6> QED
            BY <6>3, Zenon
        <5>3. decode_hex(p) = u /\ decode_hex(q) = v /\ u # -1 /\ v # -1
          <6>1. decode_hex(p) = u /\ decode_hex(q) = v
            BY <5>2, HexDigits, Zenon
          <6>2. u # -1 /\ v # -1
            OBVIOUS
          <6> QED
            BY <6>1, <6>2, Zenon
        <5>4. e = <<37, p, q>>
          BY <3>7, <4>2, <5>1, <5>2 DEF EncodeChar, Percent
        <5>5. /\ Len(e) = 3 /\ e[1] = 37 /\ e[2] = p /\ e[3] = q
              /\ k + 1 - 1 = k /\ k + 2 - 1 = k + 1 /\ k + 3 - 1 = k + 2
          BY <5>4
        <5>6. g[k + 1] = Decoder(x, "percent", 0)
          <6>1. DecodesTo(x, 37, 0, 0)
            <7>1. 37 \in 0 .. 255 /\ 0 \in 0 .. 15
              OBVIOUS
            <7> QED
              BY <7>1, DecodeSteps, Zenon
          <6>2. g[k + 1] = DecodeChar(g[k], 37)
            BY <3>10, <5>5
          <6> QED
            BY <3>6, <6>1, <6>2 DEF DecodesTo, Percent
        <5>7. g[k + 2] = Decoder(x, "first_hex", u)
          <6>1. DecodesTo(x, p, 0, 0)
            <7>1. 0 \in 0 .. 15
              OBVIOUS
            <7> QED
              BY <7>1, DecodeSteps, Zenon
          <6>2. g[k + 2] = DecodeChar(g[k + 1], p)
            BY <3>10, <5>5
          <6> QED
            BY <5>3, <5>6, <6>1, <6>2 DEF DecodesTo
        <5>8. g[k + 3] = Decoder(x \o <<16 * u + v>>, "default", 0)
          <6>1. DecodesTo(x, q, u, 0)
            BY DecodeSteps
          <6>2. g[k + 3] = DecodeChar(g[k + 2], q)
            BY <3>10, <5>5
          <6> QED
            BY <5>3, <5>7, <6>1, <6>2 DEF DecodesTo
        <5>9. 16 * u + v = ch
          BY <5>1
        <5> QED
          BY <3>9, <5>5, <5>8, <5>9
      <4> QED
        BY <4>1, <4>2
    <3>12. g[Len(f[i + 1])] = Read(i + 1)
      BY <3>4, <3>11 DEF Read
    <3> QED
      BY <3>1, <3>12
  <2>2. CASE ~(i + 1 <= n)
    BY <2>2
  <2> QED
    BY <2>1, <2>2
<1>9. \A i \in Nat : i \in T
  <2> HIDE DEF T
  <2> QED
    BY <1>7, <1>8, SetInduction
<1>10. g[l] = Decoder(t, "default", 0)
  <2>1. l = Len(f[n])
    BY <1>3, <1>4, <1>5
  <2>2. g[l] = Read(n)
    BY <1>9, <2>1
  <2>3. SubSeq(t, 1, n) = t
    BY <1>1, <1>2
  <2> QED
    BY <2>2, <2>3
<1>11. g[l].dst = t /\ DecodeRest(g[l]) = <<>>
  BY <1>10 DEF Decoder, DecodeRest
<1>12. t \o <<>> = t
  BY <1>2
<1> QED
  BY <1>4, <1>6, <1>11, <1>12

\* A text has no end before its end.
LEMMA CStringOfText ==
  ASSUME NEW t \in Text
  PROVE  CString(t) = t
<1>1. \A i \in DOMAIN t : t[i] # 0
  <2>1. t \in Seq(1 .. 255) /\ \A i \in 1 .. Len(t) : t[i] \in 1 .. 255
    BY TextFacts
  <2>2. DOMAIN t = 1 .. Len(t)
    BY <2>1, SeqFacts
  <2>3. \A z \in 1 .. 255 : z # 0
    OBVIOUS
  <2> QED
    BY <2>1, <2>2, <2>3, Zenon
<1>2. {i \in DOMAIN t : t[i] = 0} = {}
  BY <1>1
<1> QED
  BY <1>2 DEF CString

---------------------------------------------------------------------------
(* Baggage *)

\* The recursion of FlattenSeq has a solution, and gives a sequence.
Flattened(seqs) ==
  CHOOSE g : g = [i \in 1 .. Len(seqs) |-> IF i = 1 THEN seqs[i] ELSE g[i - 1] \o seqs[i]]

LEMMA FlattenType ==
  ASSUME NEW S, NEW seqs \in Seq(Seq(S))
  PROVE  FlattenSeq(seqs) \in Seq(S)
<1>1. PICK n \in Nat : n = Len(seqs)
  OBVIOUS
<1>2. \A i \in 1 .. n : seqs[i] \in Seq(S)
  BY <1>1
<1>3. CASE n = 0
  <2>1. FlattenSeq(seqs) = seqs
    BY <1>1, <1>3, Zenon DEF FlattenSeq
  <2>2. seqs = <<>>
    <3> DEFINE R == Seq(S)
    <3>1. <<>> \in Seq(R) /\ Len(<<>>) = 0 /\ seqs \in Seq(R)
      OBVIOUS
    <3>2. Len(seqs) = Len(<<>>) /\ \A i \in 1 .. Len(<<>>) : seqs[i] = <<>>[i]
      BY <1>1, <1>3
    <3> HIDE DEF R
    <3> QED
      BY <3>1, <3>2, SeqEqual, Zenon
  <2> QED
    BY <2>1, <2>2
<1>4. CASE n # 0
  <2> DEFINE Q == Seq(S)
             step == [p \in Q \X (1 .. n) |-> p[1] \o seqs[p[2]]]
  <2>1. \A a \in Q, b \in Q : a \o b \in Q
    OBVIOUS
  <2>2. <<>> \in Q /\ \A a \in Q : <<>> \o a = a
    OBVIOUS
  <2> HIDE DEF Q
  <2>3. \A i \in 1 .. n : seqs[i] \in Q
    BY <1>2 DEF Q
  <2>4. /\ step \in [Q \X (1 .. n) -> Q]
        /\ \A x \in Q, i \in 1 .. n : step[<<x, i>>] = x \o seqs[i]
    BY <2>1, <2>3
  <2> HIDE DEF step
  <2>5. PICK f \in [0 .. n -> Q] : FollowsTo(n, f, <<>>, step)
    BY <2>2, <2>4, FiniteRecursion
  <2>6. f[0] = <<>> /\ \A i \in 1 .. n : f[i] = step[<<f[i - 1], i>>]
    BY <2>5 DEF FollowsTo
  <2>7. ASSUME NEW i \in 1 .. n
        PROVE  f[i] = f[i - 1] \o seqs[i] /\ f[i] \in Q
    <3>1. i - 1 \in 0 .. n /\ i \in 0 .. n
      OBVIOUS
    <3>2. f[i - 1] \in Q /\ f[i] \in Q
      BY <3>1
    <3> QED
      BY <2>4, <2>6, <3>2
  <2> DEFINE h == [i \in 1 .. n |-> f[i]]
  <2>8. ASSUME NEW i \in 1 .. n
        PROVE  h[i] = IF i = 1 THEN seqs[i] ELSE h[i - 1] \o seqs[i]
    <3>1. CASE i = 1
      BY <2>2, <2>3, <2>6, <2>7, <3>1
    <3>2. CASE i # 1
      <4>1. i - 1 \in 1 .. n
        BY <3>2
      <4> QED
        BY <2>7, <3>2, <4>1
    <3> QED
      BY <3>1, <3>2
  <2>9. h = [i \in 1 .. n |-> h[i]]
    OBVIOUS
  <2> HIDE DEF h
  <2>10. h = [i \in 1 .. n |-> IF i = 1 THEN seqs[i] ELSE h[i - 1] \o seqs[i]]
    BY <2>8, <2>9
  <2> DEFINE g == Flattened(seqs)
  <2>11. g = [i \in 1 .. n |-> IF i = 1 THEN seqs[i] ELSE g[i - 1] \o seqs[i]]
    <3>1. g = CHOOSE r : r = [i \in 1 .. n |-> IF i = 1 THEN seqs[i] ELSE r[i - 1] \o seqs[i]]
      BY <1>1, Zenon DEF Flattened
    <3> QED
      BY <2>10, <3>1, Zenon
  <2>12. FlattenSeq(seqs) = g[n]
    BY <1>1, <1>4, Zenon DEF FlattenSeq, Flattened
  <2> HIDE DEF g
  <2>13. \A i \in 1 .. n : g[i] = IF i = 1 THEN seqs[i] ELSE g[i - 1] \o seqs[i]
    BY <2>11
  <2> DEFINE T == {i \in Nat : i + 1 <= n => g[i + 1] \in Q}
  <2>14. 0 \in T /\ T \in SUBSET Nat
    BY <1>4, <2>3, <2>13
  <2>15. ASSUME NEW i \in T
         PROVE  i + 1 \in T
    <3>1. CASE (i + 1) + 1 <= n
      <4>1. /\ i \in Nat /\ (i + 1) + 1 \in 1 .. n /\ ((i + 1) + 1) - 1 = i + 1
            /\ (i + 1) + 1 # 1 /\ i + 1 <= n
        BY <3>1
      <4>2. g[(i + 1) + 1] = g[i + 1] \o seqs[(i + 1) + 1]
        BY <2>13, <4>1
      <4>3. g[(i + 1) + 1] \in Q
        BY <2>1, <2>3, <4>1, <4>2
      <4> QED
        BY <4>1, <4>3
    <3>2. CASE ~((i + 1) + 1 <= n)
      BY <3>2
    <3> QED
      BY <3>1, <3>2
  <2>16. \A i \in Nat : i \in T
    <3> HIDE DEF T
    <3> QED
      BY <2>14, <2>15, SetInduction
  <2>17. g[n] \in Q
    <3>1. PICK m \in Nat : m + 1 = n
      BY <1>4
    <3>2. m \in T /\ m + 1 <= n
      BY <2>16, <3>1
    <3> QED
      BY <3>1, <3>2
  <2> QED
    BY <2>12, <2>17 DEF Q
<1> QED
  BY <1>3, <1>4

LEMMA ItemsFacts ==
  ASSUME NEW c, IsContext(c)
  PROVE  /\ Items(c) \in Seq(Keys \X Text)
         /\ Len(Items(c)) \in 0 .. IntMax /\ DOMAIN Items(c) = 1 .. Len(Items(c))
         /\ \A i \in 1 .. Len(Items(c)) : Items(c)[i][1] \in Keys /\ Items(c)[i][2] \in Text
         /\ \A item \in Range(Items(c)) : item[1] \in Keys /\ item[2] \in Text
<1> DEFINE P == Keys \X Text
<1>1. \A p \in P : p[1] \in Keys /\ p[2] \in Text
  OBVIOUS
<1>2. c.buckets \in Seq(Seq(P))
  BY DEF IsContext
<1> HIDE DEF P
<1>3. PICK s \in Seq(P) : s = Items(c)
  BY <1>2, FlattenType DEF Items
<1>4. /\ Len(s) \in Nat /\ DOMAIN s = 1 .. Len(s)
      /\ \A i \in 1 .. Len(s) : s[i] \in P
  BY SeqFacts
<1>5. \A item \in Range(s) : item \in P
  BY <1>4 DEF Range
<1>6. \A i \in 1 .. Len(s) : s[i][1] \in Keys /\ s[i][2] \in Text
  BY <1>1, <1>4, Zenon
<1>7. \A item \in Range(s) : item[1] \in Keys /\ item[2] \in Text
  BY <1>1, <1>5, Zenon
<1>8. Len(s) \in 0 .. IntMax
  BY <1>3, <1>4, IntAssumption DEF IsContext
<1> QED
  BY <1>3, <1>4, <1>6, <1>7, <1>8 DEF P

\* The recursion of PutAll has a solution, which changes no key set.
Putted(b, items) ==
  CHOOSE g : g = [i \in 0 .. Len(items) |->
                    IF i = 0 THEN b ELSE [g[i - 1] EXCEPT ![items[i][1]] = items[i][2]]]

LEMMA PutAllDomain ==
  ASSUME NEW b, b = [k \in Keys |-> b[k]], NEW items, Len(items) \in Nat
  PROVE  PutAll(b, items) = [k \in Keys |-> PutAll(b, items)[k]]
<1>1. PICK n \in Nat : n = Len(items)
  OBVIOUS
<1> DEFINE V == {b[k] : k \in Keys} \cup {items[i][2] : i \in 1 .. n}
           F == [Keys -> V]
           step == [p \in F \X (1 .. n) |-> [p[1] EXCEPT ![items[p[2]][1]] = items[p[2]][2]]]
<1>2. b \in F
  OBVIOUS
<1>3. ASSUME NEW x \in F, NEW i \in 1 .. n
      PROVE  [x EXCEPT ![items[i][1]] = items[i][2]] \in F
  <2>1. items[i][2] \in V
    OBVIOUS
  <2> HIDE DEF V
  <2> QED
    BY <2>1
<1> HIDE DEF F
<1>4. /\ step \in [F \X (1 .. n) -> F]
      /\ \A x \in F, i \in 1 .. n : step[<<x, i>>] = [x EXCEPT ![items[i][1]] = items[i][2]]
  BY <1>3
<1> HIDE DEF step
<1>5. PICK f \in [0 .. n -> F] : FollowsTo(n, f, b, step)
  BY <1>2, <1>4, FiniteRecursion
<1>6. f[0] = b /\ \A i \in 1 .. n : f[i] = step[<<f[i - 1], i>>]
  BY <1>5 DEF FollowsTo
<1>7. ASSUME NEW i \in 0 .. n
      PROVE  f[i] = IF i = 0 THEN b ELSE [f[i - 1] EXCEPT ![items[i][1]] = items[i][2]]
  <2>1. CASE i = 0
    BY <1>6, <2>1
  <2>2. CASE i # 0
    <3>1. i \in 1 .. n /\ i - 1 \in 0 .. n
      BY <2>2
    <3>2. f[i - 1] \in F
      BY <3>1
    <3> QED
      BY <1>4, <1>6, <2>2, <3>1, <3>2
  <2> QED
    BY <2>1, <2>2
<1>8. f = [i \in 0 .. n |->
             IF i = 0 THEN b ELSE [f[i - 1] EXCEPT ![items[i][1]] = items[i][2]]]
  BY <1>7
<1> DEFINE g == Putted(b, items)
<1>9. g = [i \in 0 .. n |->
             IF i = 0 THEN b ELSE [g[i - 1] EXCEPT ![items[i][1]] = items[i][2]]]
  BY <1>1, <1>8, Zenon DEF Putted
<1>10. PutAll(b, items) = g[n]
  BY <1>1, Zenon DEF PutAll, Putted
<1> HIDE DEF g
<1>11. \A i \in 0 .. n :
         g[i] = IF i = 0 THEN b ELSE [g[i - 1] EXCEPT ![items[i][1]] = items[i][2]]
  BY <1>9
<1> DEFINE T == {i \in Nat : i <= n => g[i] \in F}
<1>12. 0 \in T /\ T \in SUBSET Nat
  BY <1>2, <1>11
<1>13. ASSUME NEW i \in T
       PROVE  i + 1 \in T
  <2>1. CASE i + 1 <= n
    <3>1. /\ i \in Nat /\ i + 1 \in 1 .. n /\ i + 1 \in 0 .. n /\ (i + 1) - 1 = i
          /\ i + 1 # 0 /\ g[i] \in F
      BY <2>1
    <3>2. g[i + 1] = [g[i] EXCEPT ![items[i + 1][1]] = items[i + 1][2]]
      BY <1>11, <3>1
    <3>3. PICK x \in F, j \in 1 .. n : x = g[i] /\ j = i + 1
      BY <3>1, Zenon
    <3>4. [x EXCEPT ![items[j][1]] = items[j][2]] \in F
      BY <1>3, Zenon
    <3>5. g[i + 1] \in F
      BY <3>2, <3>3, <3>4, Zenon
    <3> QED
      BY <3>1, <3>5
  <2>2. CASE ~(i + 1 <= n)
    BY <2>2
  <2> QED
    BY <2>1, <2>2
<1>14. \A i \in Nat : i \in T
  <2> HIDE DEF T
  <2> QED
    BY <1>12, <1>13, SetInduction
<1>15. g[n] \in F
  BY <1>14
<1>16. \A x \in F : x = [k \in Keys |-> x[k]]
  <2> HIDE DEF V
  <2> QED
    BY DEF F
<1> QED
  BY <1>10, <1>15, <1>16

---------------------------------------------------------------------------
(* The fields of a binary carrier *)

LEMMA FieldNames ==
  ASSUME NEW p \in Nat \ {0}
  PROVE  /\ FieldName(p) = "high" <=> p = 1
         /\ FieldName(p) = "low" <=> p = 2
         /\ FieldName(p) = "span_id" <=> p = 3
         /\ FieldName(p) = "flags" <=> p = 4
         /\ FieldName(p) = "num_baggage_items" <=> p = 5
         /\ FieldName(p) = "key_len" <=> \E i \in Nat \ {0} : p = 2 + 4 * i
         /\ FieldName(p) = "key" <=> \E i \in Nat \ {0} : p = 3 + 4 * i
         /\ FieldName(p) = "value_len" <=> \E i \in Nat \ {0} : p = 4 + 4 * i
         /\ FieldName(p) = "value" <=> \E i \in Nat \ {0} : p = 5 + 4 * i
<1>1. CASE p \in 1 .. 5
  <2>1. /\ p = 1 => FieldName(p) = "high"
        /\ p = 2 => FieldName(p) = "low"
        /\ p = 3 => FieldName(p) = "span_id"
        /\ p = 4 => FieldName(p) = "flags"
        /\ p = 5 => FieldName(p) = "num_baggage_items"
    BY <1>1 DEF FieldName
  <2>2. /\ p = 1 \/ p = 2 \/ p = 3 \/ p = 4 \/ p = 5
        /\ \A i \in Nat \ {0} : p # 2 + 4 * i /\ p # 3 + 4 * i /\ p # 4 + 4 * i /\ p # 5 + 4 * i
    BY <1>1
  <2> QED
    BY <2>1, <2>2
<1>2. CASE p \notin 1 .. 5
  <2>1. p > 5
    BY <1>2
  <2>2. PICK q \in Nat, r \in 0 .. 3 : p - 5 = 4 * q + r /\ r = (p - 5) % 4
    <3>1. PICK m \in Nat : m = p - 5
      BY <2>1
    <3>2. m \div 4 \in Nat /\ m % 4 \in 0 .. 3 /\ m = 4 * (m \div 4) + (m % 4)
      OBVIOUS
    <3> QED
      BY <3>1, <3>2
  <2>3. FieldName(p) = <<"value", "key_len", "key", "value_len">>[r + 1]
    BY <2>1, <2>2 DEF FieldName
  <2>4. /\ r = 0 => FieldName(p) = "value" /\ p = 5 + 4 * q /\ q # 0
        /\ r = 1 => FieldName(p) = "key_len" /\ p = 2 + 4 * (q + 1)
        /\ r = 2 => FieldName(p) = "key" /\ p = 3 + 4 * (q + 1)
        /\ r = 3 => FieldName(p) = "value_len" /\ p = 4 + 4 * (q + 1)
    BY <2>1, <2>2, <2>3
  <2>5. /\ r # 0 => \A i \in Nat \ {0} : p # 5 + 4 * i
        /\ r # 1 => \A i \in Nat \ {0} : p # 2 + 4 * i
        /\ r # 2 => \A i \in Nat \ {0} : p # 3 + 4 * i
        /\ r # 3 => \A i \in Nat \ {0} : p # 4 + 4 * i
    BY <2>2
  <2>6. /\ q \in Nat /\ q + 1 \in Nat \ {0}
        /\ r = 0 \/ r = 1 \/ r = 2 \/ r = 3
        /\ p # 1 /\ p # 2 /\ p # 3 /\ p # 4 /\ p # 5
    BY <2>1
  <2>7. CASE r = 0
    BY <2>4, <2>5, <2>6, <2>7
  <2>8. CASE r = 1
    BY <2>4, <2>5, <2>6, <2>8
  <2>9. CASE r = 2
    BY <2>4, <2>5, <2>6, <2>9
  <2>10. CASE r = 3
    BY <2>4, <2>5, <2>6, <2>10
  <2> QED
    BY <2>6, <2>7, <2>8, <2>9, <2>10
<1> QED
  BY <1>1, <1>2

\* A function on 1 .. n is a sequence of length n.
LEMMA FunctionLength ==
  ASSUME NEW n \in Nat, NEW w, w = [p \in 1 .. n |-> w[p]]
  PROVE  /\ Len(w) = n /\ DOMAIN w = 1 .. n
         /\ \E S : w \in Seq(S)
<1> DEFINE S == {w[p] : p \in 1 .. n}
<1>1. w \in [1 .. n -> S]
  OBVIOUS
<1> HIDE DEF S
<1>2. w \in Seq(S) /\ Len(w) = n /\ DOMAIN w = 1 .. n
  BY <1>1
<1> QED
  BY <1>2

LEMMA BinaryFacts ==
  ASSUME NEW w, IsBinary(w)
  PROVE  /\ Len(w) \in Nat /\ DOMAIN w = 1 .. Len(w)
         /\ \E S : w \in Seq(S)
<1>1. Len(w) \in Nat /\ w = [p \in 1 .. Len(w) |-> w[p]]
  BY DEF IsBinary
<1> QED
  BY <1>1, FunctionLength

\* What is written of a context.
LEMMA FieldsWritten ==
  ASSUME NEW c, IsContext(c)
  PROVE  /\ Len(BinaryFields(c)) = 5 + 4 * Len(Items(c))
         /\ IsBinary(BinaryFields(c))
         /\ BinaryFields(c)[1] = c.trace_id.high
         /\ BinaryFields(c)[2] = c.trace_id.low
         /\ BinaryFields(c)[3] = c.span_id
         /\ BinaryFields(c)[4] = c.flags
         /\ BinaryFields(c)[5] = Len(Items(c))
         /\ \A i \in 1 .. Len(Items(c)) :
              /\ BinaryFields(c)[3 + 4 * i] = Items(c)[i][1]
              /\ BinaryFields(c)[5 + 4 * i] = Items(c)[i][2]
<1> DEFINE items == Items(c)
           n == Len(items)
           w == BinaryFields(c)
<1>1. /\ n \in Nat /\ n <= IntMax
      /\ \A i \in 1 .. n : items[i][1] \in Keys /\ items[i][2] \in Text
  BY ItemsFacts, IntAssumption
<1>2. /\ c.trace_id.high \in Id /\ c.trace_id.low \in Id /\ c.span_id \in Id
      /\ c.flags \in 0 .. 255
  BY DEF IsContext
<1>3. w = [p \in 1 .. 5 + 4 * n |-> w[p]]
  BY DEF BinaryFields
<1>4. ASSUME NEW p \in 1 .. 5 + 4 * n
      PROVE  w[p] = CASE FieldName(p) = "high" -> c.trace_id.high
                      [] FieldName(p) = "low" -> c.trace_id.low
                      [] FieldName(p) = "span_id" -> c.span_id
                      [] FieldName(p) = "flags" -> c.flags
                      [] FieldName(p) = "num_baggage_items" -> n
                      [] FieldName(p) = "key" -> items[(p - 2) \div 4][1]
                      [] FieldName(p) = "value" -> items[(p - 2) \div 4][2]
                      [] OTHER -> "fits"
  BY DEF BinaryFields
<1> HIDE DEF w, items, n
<1>5. Len(w) = 5 + 4 * n
  <2>1. 5 + 4 * n \in Nat
    BY <1>1
  <2> QED
    BY <1>3, <2>1, FunctionLength
<1>6. /\ w[1] = c.trace_id.high /\ w[2] = c.trace_id.low /\ w[3] = c.span_id
      /\ w[4] = c.flags /\ w[5] = n
  <2>1. /\ 1 \in 1 .. 5 + 4 * n /\ 2 \in 1 .. 5 + 4 * n /\ 3 \in 1 .. 5 + 4 * n
        /\ 4 \in 1 .. 5 + 4 * n /\ 5 \in 1 .. 5 + 4 * n
    BY <1>1
  <2>2. /\ FieldName(1) = "high" /\ FieldName(2) = "low" /\ FieldName(3) = "span_id"
        /\ FieldName(4) = "flags" /\ FieldName(5) = "num_baggage_items"
    BY DEF FieldName
  <2>3. w[1] = c.trace_id.high
    BY <1>4, <2>1, <2>2
  <2>4. w[2] = c.trace_id.low
    BY <1>4, <2>1, <2>2
  <2>5. w[3] = c.span_id
    BY <1>4, <2>1, <2>2
  <2>6. w[4] = c.flags
    BY <1>4, <2>1, <2>2
  <2>7. w[5] = n
    BY <1>4, <2>1, <2>2
  <2> QED
    BY <2>3, <2>4, <2>5, <2>6, <2>7
<1>7. ASSUME NEW i \in 1 .. n
      PROVE  w[3 + 4 * i] = items[i][1] /\ w[5 + 4 * i] = items[i][2]
  <2>1. PICK a \in 1 .. 5 + 4 * n : a = 3 + 4 * i
    BY <1>1
  <2>2. PICK b \in 1 .. 5 + 4 * n : b = 5 + 4 * i
    BY <1>1
  <2>3. (a - 2) \div 4 = i /\ (b - 2) \div 4 = i
    BY <2>1, <2>2, <1>1
  <2>4. a \in Nat \ {0} /\ b \in Nat \ {0} /\ i \in Nat \ {0}
    BY <1>1
  <2>5. FieldName(a) = "key" /\ FieldName(b) = "value"
    BY <2>1, <2>2, <2>4, FieldNames
  <2>6. w[a] = items[i][1]
    BY <1>4, <2>3, <2>5
  <2>7. w[b] = items[i][2]
    BY <1>4, <2>3, <2>5
  <2> QED
    BY <2>1, <2>2, <2>6, <2>7
<1>8. ASSUME NEW p \in 1 .. 5 + 4 * n
      PROVE  FieldFits(p, w[p])
  <2>1. p \in Nat \ {0}
    BY <1>1
  <2>2. p \in 1 .. 3 => w[p] \in Id
    BY <1>2, <1>6
  <2>3. p = 4 => w[p] \in 0 .. 255
    BY <1>2, <1>6
  <2>4. p = 5 => w[p] \in 0 .. 2 * IntMax + 1
    BY <1>1, <1>6, IntAssumption
  <2>5. ASSUME FieldName(p) = "key"
        PROVE  w[p] \in Keys
    <3>1. PICK i \in Nat \ {0} : p = 3 + 4 * i
      BY <2>1, <2>5, FieldNames
    <3>2. i \in 1 .. n
      BY <1>1, <3>1
    <3> QED
      BY <1>1, <1>7, <3>1, <3>2
  <2> QED
    BY <2>2, <2>3, <2>4, <2>5 DEF FieldFits
<1>9. IsBinary(w)
  <2>1. Len(w) \in Nat
    BY <1>1, <1>5
  <2>2. w = [p \in 1 .. Len(w) |-> w[p]]
    BY <1>3, <1>5
  <2> QED
    BY <1>5, <1>8, <2>1, <2>2 DEF IsBinary
<1> QED
  BY <1>5, <1>6, <1>7, <1>9 DEF w, items, n

---------------------------------------------------------------------------
(* Headers, flags, and what was sent *)

LEMMA HeaderFacts ==
  /\ \A ts \in Seq(Seq(Nat)) :
       /\ ContextHeader(ts) \in Header
       /\ ContextHeader(ts).kind = "context" /\ ContextHeader(ts).tokens = ts
  /\ \A k \in Keys, t \in Text :
       /\ ItemHeader(k, t) \in Header
       /\ ItemHeader(k, t).kind = "prefix"
       /\ ItemHeader(k, t).key = k /\ ItemHeader(k, t).text = t
<1> DEFINE S == Seq(Seq(Nat))
           I == Seq(Keys \X ({NoValue} \cup Text))
           K == {"context", "debug", "baggage", "prefix", "other"}
<1>1. <<>> \in S /\ <<>> \in I /\ <<>> \in Text
  BY DEF Text
<1>2. AnyKey \in Keys
  BY KeyAssumption DEF AnyKey
<1>3. Header = [kind : K, key : Keys, text : Text, tokens : S, items : I]
  BY DEF Header
<1>4. "other" \in K /\ "context" \in K /\ "prefix" \in K
  OBVIOUS
<1> HIDE DEF S, I, K
<1>5. OtherHeader \in [kind : K, key : Keys, text : Text, tokens : S, items : I]
  BY <1>1, <1>2, <1>4 DEF OtherHeader
<1>6. ASSUME NEW ts \in S
      PROVE  /\ ContextHeader(ts) \in Header
             /\ ContextHeader(ts).kind = "context" /\ ContextHeader(ts).tokens = ts
  BY <1>3, <1>4, <1>5 DEF ContextHeader
<1>7. ASSUME NEW k \in Keys, NEW t \in Text
      PROVE  /\ ItemHeader(k, t) \in Header
             /\ ItemHeader(k, t).kind = "prefix"
             /\ ItemHeader(k, t).key = k /\ ItemHeader(k, t).text = t
  BY <1>3, <1>4, <1>5 DEF ItemHeader
<1> QED
  BY <1>6, <1>7 DEF S

LEMMA HeaderParts ==
  ASSUME NEW h \in Header
  PROVE  /\ h.key \in Keys /\ h.text \in Text
         /\ h.tokens \in Seq(Seq(Nat)) /\ h.items \in Seq(Keys \X ({NoValue} \cup Text))
         /\ h.kind \in {"context", "debug", "baggage", "prefix", "other"}
<1> DEFINE S == Seq(Seq(Nat))
           I == Seq(Keys \X ({NoValue} \cup Text))
           K == {"context", "debug", "baggage", "prefix", "other"}
<1>1. h \in [kind : K, key : Keys, text : Text, tokens : S, items : I]
  BY DEF Header
<1> HIDE DEF S, I, K
<1>2. h.key \in Keys /\ h.text \in Text /\ h.tokens \in S /\ h.items \in I /\ h.kind \in K
  BY <1>1
<1> QED
  BY <1>2 DEF S, I, K

\* A value comes back from a header as it went in.
LEMMA EncodedFacts ==
  ASSUME NEW t \in Text
  PROVE  Encoded(t) \in Text /\ Decoded(Encoded(t)) = t
<1>1. CASE format = "http_headers"
  <2>1. Encoded(t) = encode_uri_value(t) /\ encode_uri_value(t) \in Text
    BY <1>1, EncodeFacts DEF Encoded
  <2>2. Decoded(Encoded(t)) = CString(decode_uri_value(encode_uri_value(t)))
    BY <1>1, <2>1, Zenon DEF Decoded
  <2>3. decode_uri_value(encode_uri_value(t)) = t
    BY DecodeEncoded
  <2>4. CString(t) = t
    BY CStringOfText
  <2> QED
    BY <2>1, <2>2, <2>3, <2>4, Zenon
<1>2. CASE format # "http_headers"
  <2>1. Encoded(t) = t
    BY <1>2 DEF Encoded
  <2>2. Decoded(t) = t
    BY <1>2 DEF Decoded
  <2> QED
    BY <2>1, <2>2, Zenon
<1> QED
  BY <1>1, <1>2

LEMMA DebuggedFacts ==
  ASSUME NEW x \in 0 .. 255
  PROVE  Debugged(x) \in 0 .. 255 /\ Debugged(Debugged(x)) = Debugged(x)
<1>1. PICK q \in 0 .. 63 : q = x \div 4
  OBVIOUS
<1>2. Debugged(x) = 4 * q + 3
  BY <1>1 DEF Debugged
<1>3. (4 * q + 3) \div 4 = q /\ 4 * q + 3 \in 0 .. 255
  OBVIOUS
<1> QED
  BY <1>2, <1>3 DEF Debugged

LEMMA SuffixType ==
  ASSUME NEW k \in Keys
  PROVE  Suffix(k) \in Keys
BY KeyAssumption DEF Suffix

LEMMA SentFacts ==
  ASSUME IsContext(source)
  PROVE  /\ \A item \in Arriving : item[2] \in Sent(Suffix(item[1]))
         /\ \A k : NoValue \notin Sent(k)
         /\ \A k : Sent(k) # {} =>
              \E item \in Arriving : Suffix(item[1]) = k
<1>1. \A item \in Range(Items(source)) : item[2] \in Text
  BY ItemsFacts
<1>2. \A item \in Range(Items(source)) : item[2] # NoValue
  BY <1>1, ValueAssumption, Zenon
<1>3. \A item \in Arriving : item[2] \in Sent(Suffix(item[1]))
  BY DEF Sent
<1>4. \A k : \A v \in Sent(k) : \E item \in Arriving :
        Suffix(item[1]) = k /\ v = item[2]
  BY DEF Sent
<1>5. \A item \in Arriving : item \in Range(Items(source))
  BY DEF Arriving
<1> HIDE DEF Sent
<1> QED
  BY <1>2, <1>3, <1>4, <1>5, Zenon

LEMMA WireFacts ==
  ASSUME TypeOK
  PROVE  /\ Len(wire) \in Nat /\ DOMAIN wire = 1 .. Len(wire)
         /\ IsText => wire \in Seq(Header)
         /\ ~IsText => IsBinary(wire) /\ format = "binary"
         /\ \E S : wire \in Seq(S)
<1>1. /\ format \in TextFormats \cup {"binary"} /\ CarrierFits(format, wire)
      /\ IsText <=> format \in TextFormats
  BY DEF TypeOK, IsText
<1>2. CASE IsText
  <2>1. wire \in Seq(Header)
    BY <1>1, <1>2, Zenon DEF CarrierFits
  <2> QED
    BY <1>2, <2>1, SeqFacts
<1>3. CASE ~IsText
  <2>1. IsBinary(wire) /\ format = "binary"
    BY <1>1, <1>3, Zenon DEF CarrierFits
  <2> QED
    BY <1>3, <2>1, BinaryFacts
<1> QED
  BY <1>2, <1>3

---------------------------------------------------------------------------
(* The invariant holds initially *)

LEMMA EmptyCarrier ==
  ASSUME NEW f
  PROVE  CarrierFits(f, <<>>)
<1>1. <<>> \in Seq(Header)
  OBVIOUS
<1>2. IsBinary(<<>>)
  BY DEF IsBinary
<1> QED
  BY <1>1, <1>2 DEF CarrierFits

LEMMA InitInv ==
  ASSUME Init
  PROVE  IndInv
<1>1. /\ code = Success /\ bucket = 1 /\ entry = 1 /\ injected = "no"
      /\ pending = {} /\ pos = 0 /\ ctx = NoContext
      /\ buffers = [key |-> "null", value |-> "null"]
      /\ after_debug = FALSE /\ decoding_errors = 0 /\ crashed = "no"
      /\ faults \in FaultSets
  BY DEF Init
<1>2. /\ format \in TextFormats \cup {"binary"}
      /\ CarrierFits(format, wire)
      /\ source # NoContext => IsContext(source)
      /\ (pc = "inject" /\ wire = <<>> /\ IsContext(source)) \/ pc = "deliver"
  <2>1. CASE \E s \in Sources : /\ format = s.format
                               /\ source = s.context
                               /\ wire = <<>>
                               /\ pc = "inject"
    BY <2>1, SourceAssumption, EmptyCarrier, Zenon
  <2>2. CASE \E f \in Foreign : /\ format = f.format
                               /\ source = NoContext
                               /\ wire = f.wire
                               /\ pc = "deliver"
    BY <2>2, ForeignAssumption, Zenon
  <2> QED
    BY <2>1, <2>2, Zenon DEF Init
<1>3. Len(wire) \in Nat
  <2>1. CASE format \in TextFormats
    BY <1>2, <2>1, SeqFacts DEF CarrierFits
  <2>2. CASE format \notin TextFormats
    BY <1>2, <2>2 DEF CarrierFits, IsBinary
  <2> QED
    BY <2>1, <2>2
<1>4. TypeOK
  <2>1. pending \subseteq 1 .. Len(wire) /\ pos \in 0 .. Len(wire)
    BY <1>1, <1>3
  <2>2. /\ code \in Codes /\ injected \in Codes \cup {"no", "invalid_span_context"}
        /\ bucket \in Nat /\ entry \in Nat
        /\ buffers \in [key : {"null", "live", "freed"}, value : {"null", "live", "freed"}]
        /\ pc \in {"inject", "context", "bucket", "item", "write", "deliver",
                   "extract", "headers", "read", "cleanup", "done"}
    BY <1>1, <1>2 DEF Codes
  <2> QED
    BY <1>1, <1>2, <2>1, <2>2 DEF TypeOK
<1>5. Phases
  BY <1>1, <1>2 DEF Phases, Sending
<1>6. LoopInv /\ HeadersInv /\ FieldsInv /\ CleanupInv /\ RoundTrip
  BY <1>2 DEF LoopInv, HeadersInv, FieldsInv, CleanupInv, RoundTrip
<1>7. BufferInv /\ LastsWritten
  BY <1>1 DEF BufferInv, LastsWritten, Success
<1>8. ErrorLeavesNothing
  BY <1>1, <1>2 DEF ErrorLeavesNothing
<1> QED
  BY <1>4, <1>5, <1>6, <1>7, <1>8 DEF IndInv

---------------------------------------------------------------------------
(* What a step of inject or of extract leaves as it is *)

\* Injection has not reached the receiver.
LEMMA StillSending ==
  ASSUME pc' \in {"inject", "context", "bucket", "item", "write", "deliver", "extract"}
  PROVE  /\ HeadersInv' /\ FieldsInv' /\ CleanupInv' /\ RoundTrip'
BY DEF HeadersInv, FieldsInv, CleanupInv, RoundTrip

LEMMA NotLooping ==
  ASSUME pc' \notin {"bucket", "item"}
  PROVE  LoopInv'
BY DEF LoopInv

\* What was sent does not change once it was sent.
LEMMA SentKept ==
  ASSUME UNCHANGED <<format, source, wire, injected>>
  PROVE  /\ IsText' = IsText
         /\ Undisturbed' = Undisturbed
         /\ HasDebug' = HasDebug
         /\ LastsWritten' = LastsWritten
         /\ \A k : Sent(k)' = Sent(k)
         /\ \A k : Suffix(k)' = Suffix(k)
<1>1. format' = format /\ source' = source /\ wire' = wire /\ injected' = injected
  OBVIOUS
<1>2. IsText' = IsText
  BY <1>1 DEF IsText
<1>3. HasDebug' = HasDebug
  BY <1>1 DEF HasDebug, IsText
<1>4. \A item : Encoded(item)' = Encoded(item)
  BY <1>1 DEF Encoded
<1>5. \A item : OnWire(item)' = OnWire(item)
  BY <1>1 DEF OnWire, Encoded
<1>6. \A k : Suffix(k)' = Suffix(k)
  BY <1>1 DEF Suffix
<1>7. \A k : Sent(k)' = Sent(k)
  BY <1>1 DEF Sent, Suffix, Arriving, IsText
<1>8. Undisturbed' = Undisturbed
  BY <1>1 DEF Undisturbed, IsText, OnWire, Encoded
<1>9. LastsWritten' = LastsWritten
  BY <1>1 DEF LastsWritten, IsText, OnWire, Encoded, ContextWritten, LastWritten
<1> QED
  BY <1>2, <1>3, <1>6, <1>7, <1>8, <1>9

---------------------------------------------------------------------------
(* Steps of inject *)

\* The receiver's part of the state is untouched.
LEMMA SendingTypes ==
  ASSUME IndInv, pc \in Sending, UNCHANGED <<given, receiving, crashed>>,
         CarrierFits(format, wire'), Len(wire') \in Nat,
         code' \in Codes, bucket' \in Nat, entry' \in Nat,
         injected' \in Codes \cup {"no", "invalid_span_context"},
         pc' \in Sending \cup {"deliver", "done"}
  PROVE  TypeOK' /\ BufferInv'
<1>1. TypeOK /\ Phases
  BY DEF IndInv
<1>2. /\ format' = format /\ source' = source /\ faults' = faults /\ pending' = pending
      /\ pos' = pos /\ ctx' = ctx /\ buffers' = buffers /\ after_debug' = after_debug
      /\ decoding_errors' = decoding_errors /\ crashed' = crashed
  BY DEF given, receiving
<1>3. /\ pending = {} /\ pos = 0 /\ buffers = [key |-> "null", value |-> "null"]
      /\ crashed = "no"
  BY <1>1 DEF Phases, Sending
<1>4. CarrierFits(format, wire)'
  BY <1>2 DEF CarrierFits
<1>5. pending' \subseteq 1 .. Len(wire') /\ pos' \in 0 .. Len(wire')
  BY <1>2, <1>3
<1>6. (source # NoContext => IsContext(source))' /\ (ctx # NoContext => IsExtracted(ctx))'
  BY <1>1, <1>2 DEF TypeOK
<1>7. pc' \in {"inject", "context", "bucket", "item", "write", "deliver",
               "extract", "headers", "read", "cleanup", "done"}
  BY DEF Sending
<1>8. /\ (format \in TextFormats \cup {"binary"})' /\ (faults \in FaultSets)'
      /\ (buffers \in [key : {"null", "live", "freed"}, value : {"null", "live", "freed"}])'
      /\ (after_debug \in BOOLEAN)' /\ (decoding_errors \in {0, 1})'
      /\ (crashed \in {"no", "null", "assert", "overflow", "double_free"})'
  BY <1>1, <1>2 DEF TypeOK
<1>9. TypeOK'
  BY <1>4, <1>5, <1>6, <1>7, <1>8, Zenon DEF TypeOK, Codes
<1>10. BufferInv'
  BY <1>2, <1>3 DEF BufferInv
<1> QED
  BY <1>9, <1>10

LEMMA InjectInvalidInv ==
  ASSUME IndInv, InjectInvalid
  PROVE  IndInv'
<1>1. /\ pc = "inject" /\ pc' = "done" /\ injected' = "invalid_span_context"
      /\ format' = format /\ source' = source /\ faults' = faults /\ wire' = wire
      /\ code' = code /\ bucket' = bucket /\ entry' = entry
      /\ UNCHANGED <<given, receiving, crashed>>
      /\ pos' = pos /\ ctx' = ctx /\ buffers' = buffers
      /\ decoding_errors' = decoding_errors /\ crashed' = crashed
  BY DEF InjectInvalid, given, receiving
<1>2. TypeOK /\ Phases
  BY DEF IndInv
<1>3. /\ code = Success /\ decoding_errors = 0 /\ crashed = "no"
      /\ buffers = [key |-> "null", value |-> "null"] /\ (IsText => pos = 0)
  BY <1>1, <1>2 DEF Phases, Sending
<1>4. TypeOK' /\ BufferInv'
  <2>1. /\ CarrierFits(format, wire') /\ code' \in Codes /\ bucket' \in Nat /\ entry' \in Nat
    BY <1>1, <1>2, Zenon DEF TypeOK
  <2>2. Len(wire') \in Nat
    BY <1>1, <1>2, WireFacts
  <2>3. pc \in Sending /\ pc' \in Sending \cup {"deliver", "done"}
        /\ injected' \in Codes \cup {"no", "invalid_span_context"}
    BY <1>1 DEF Sending
  <2> QED
    BY <1>1, <2>1, <2>2, <2>3, SendingTypes
<1>5. Phases'
  BY <1>1, <1>3 DEF Phases, Sending, IsText
<1>6. LoopInv' /\ HeadersInv' /\ FieldsInv' /\ CleanupInv'
  BY <1>1 DEF LoopInv, HeadersInv, FieldsInv, CleanupInv
<1>7. LastsWritten'
  BY <1>1 DEF LastsWritten, Success
<1>8. ~Undisturbed'
  BY <1>1 DEF Undisturbed, Success
<1>9. RoundTrip'
  BY <1>8 DEF RoundTrip
<1>10. ErrorLeavesNothing'
  BY <1>1, <1>3 DEF ErrorLeavesNothing, Success, Corrupted
<1> QED
  BY <1>4, <1>5, <1>6, <1>7, <1>9, <1>10 DEF IndInv

\* A step of inject that does not end it: what has to be shown of it.
LEMMA SendingStep ==
  ASSUME IndInv, pc \in Sending, UNCHANGED <<given, receiving, crashed>>,
         pc' \in (Sending \ {"inject"}) \cup {"deliver"},
         CarrierFits(format, wire'), Len(wire') \in Nat,
         code' \in Codes, bucket' \in Nat, entry' \in Nat,
         pc' = "deliver" => injected' \in Codes,
         pc' # "deliver" => injected' = injected,
         pc' \in {"context", "write"} => code' = Success,
         pc' = "context" => wire' = <<>> /\ bucket' = 1 /\ entry' = 1,
         pc' \in {"context", "bucket", "item"} => IsText,
         pc' = "write" => ~IsText /\ Len(wire') <= Len(BinaryFields(source)),
         LoopInv', LastsWritten'
  PROVE  IndInv'
<1>1. TypeOK /\ Phases
  BY DEF IndInv
<1>2. /\ format' = format /\ source' = source /\ pending' = pending
      /\ pos' = pos /\ ctx' = ctx /\ buffers' = buffers /\ after_debug' = after_debug
      /\ decoding_errors' = decoding_errors /\ crashed' = crashed
  BY DEF given, receiving
<1>3. /\ pending = {} /\ pos = 0 /\ buffers = [key |-> "null", value |-> "null"]
      /\ ~after_debug /\ crashed = "no" /\ decoding_errors = 0
      /\ IsContext(source) /\ injected = "no"
  BY <1>1 DEF Phases, Sending
<1>4. injected' \in Codes \cup {"no", "invalid_span_context"}
  BY <1>3
<1>5. TypeOK' /\ BufferInv'
  <2>1. pc' \in Sending \cup {"deliver", "done"}
    OBVIOUS
  <2> QED
    BY <1>4, <2>1, SendingTypes
<1>6. HeadersInv' /\ FieldsInv' /\ CleanupInv' /\ RoundTrip'
  BY StillSending DEF Sending
<1>7. Phases'
  <2>1. BinaryFields(source') = BinaryFields(source) /\ IsContext(source')
    BY <1>2, <1>3
  <2>2. IsText' = IsText
    BY <1>2 DEF IsText
  <2> HIDE DEF IsText
  <2> QED
    BY <1>2, <1>3, <2>1, <2>2 DEF Phases, Sending
<1>8. ErrorLeavesNothing'
  BY <1>2, <1>3 DEF ErrorLeavesNothing, Sending
<1> QED
  BY <1>5, <1>6, <1>7, <1>8 DEF IndInv

\* What is in the carrier stays there when it grows, or does not change.
LEMMA WireGrows ==
  ASSUME NEW S, wire \in Seq(S), NEW e \in Seq(S), wire' = wire \o e,
         format' = format, source' = source
  PROVE  /\ ContextWritten => ContextWritten'
         /\ \A item : OnWire(item) => OnWire(item)'
         /\ \A b : LastWritten(b) => LastWritten(b)'
<1>1. /\ Len(wire) \in Nat /\ DOMAIN wire = 1 .. Len(wire)
      /\ wire' \in Seq(S) /\ Len(wire') = Len(wire) + Len(e) /\ Len(e) \in Nat
      /\ \A i \in 1 .. Len(wire) : wire'[i] = wire[i]
  BY ConcatFacts, SeqFacts
<1>2. DOMAIN wire' = 1 .. Len(wire')
  BY <1>1, SeqFacts
<1>3. \A i \in DOMAIN wire : i \in DOMAIN wire' /\ wire'[i] = wire[i]
  BY <1>1, <1>2
<1>4. ASSUME ContextWritten
      PROVE  ContextWritten'
  <2>1. Len(wire) >= 1
    BY <1>4 DEF ContextWritten
  <2>2. wire'[1] = wire[1] /\ wire' # <<>>
    BY <1>1, <2>1
  <2> QED
    BY <1>4, <2>2 DEF ContextWritten
<1>5. \A v : Encoded(v)' = Encoded(v)
  BY DEF Encoded
<1>6. \A item : OnWire(item) => OnWire(item)'
  BY <1>3, <1>5, Zenon DEF OnWire
<1>7. \A b : LastWritten(b) => LastWritten(b)'
  BY <1>6 DEF LastWritten
<1> QED
  BY <1>4, <1>6, <1>7

LEMMA WrittenKept ==
  ASSUME wire' = wire, format' = format, source' = source
  PROVE  /\ ContextWritten' = ContextWritten
         /\ \A item : OnWire(item)' = OnWire(item)
         /\ \A b : LastWritten(b)' = LastWritten(b)
<1>1. \A item : OnWire(item)' = OnWire(item)
  BY DEF OnWire, Encoded
<1> QED
  BY <1>1 DEF ContextWritten, LastWritten

LEMMA BucketFacts ==
  ASSUME IsContext(source)
  PROVE  /\ source.buckets \in Seq(Seq(Keys \X Text))
         /\ Len(source.buckets) \in Nat
         /\ DOMAIN source.buckets = 1 .. Len(source.buckets)
         /\ \A b \in 1 .. Len(source.buckets) :
              /\ source.buckets[b] \in Seq(Keys \X Text)
              /\ Len(source.buckets[b]) \in Nat
              /\ \A i \in 1 .. Len(source.buckets[b]) :
                   source.buckets[b][i][1] \in Keys /\ source.buckets[b][i][2] \in Text
<1> DEFINE P == Keys \X Text
           Q == Seq(P)
<1>1. \A x \in P : x[1] \in Keys /\ x[2] \in Text
  OBVIOUS
<1>2. PICK s \in Seq(Q) : s = source.buckets
  BY DEF IsContext
<1>3. \A q \in Q : Len(q) \in Nat /\ \A i \in 1 .. Len(q) : q[i] \in P
  <2> HIDE DEF P
  <2> QED
    OBVIOUS
<1> HIDE DEF P, Q
<1>4. Len(s) \in Nat /\ DOMAIN s = 1 .. Len(s) /\ \A b \in 1 .. Len(s) : s[b] \in Q
  BY SeqFacts
<1>5. \A b \in 1 .. Len(s) :
        /\ s[b] \in Q /\ Len(s[b]) \in Nat
        /\ \A i \in 1 .. Len(s[b]) : s[b][i][1] \in Keys /\ s[b][i][2] \in Text
  BY <1>1, <1>3, <1>4, Zenon
<1> QED
  BY <1>2, <1>4, <1>5, Zenon DEF P, Q

LEMMA InjectInv ==
  ASSUME IndInv, Inject
  PROVE  IndInv'
<1>1. /\ pc = "inject" /\ pc' = IF IsText THEN "context" ELSE "write"
      /\ wire' = wire /\ code' = code /\ bucket' = bucket /\ entry' = entry
      /\ injected' = injected /\ UNCHANGED <<given, receiving, crashed>>
  BY DEF Inject, sending
<1>2. TypeOK /\ Phases
  BY DEF IndInv
<1>3. /\ IsContext(source) /\ code = Success /\ injected = "no"
      /\ wire = <<>> /\ bucket = 1 /\ entry = 1
  BY <1>1, <1>2 DEF Phases, Sending
<1>4. Len(wire') <= Len(BinaryFields(source)) /\ Len(wire') \in Nat
  <2>1. PICK n \in Nat : n = Len(Items(source))
    BY <1>3, ItemsFacts
  <2>2. Len(BinaryFields(source)) = 5 + 4 * n
    BY <1>3, <2>1, FieldsWritten
  <2>3. Len(wire') = 0
    BY <1>1, <1>3
  <2> QED
    BY <2>2, <2>3
<1>5. CarrierFits(format, wire') /\ code' \in Codes /\ bucket' \in Nat /\ entry' \in Nat
  BY <1>1, <1>2, Zenon DEF TypeOK
<1>6. LoopInv' /\ LastsWritten'
  BY <1>1, <1>3 DEF LoopInv, LastsWritten, Success
<1>7. pc \in Sending /\ pc' \in {"context", "write"}
  BY <1>1 DEF Sending
<1>8. pc' = "context" => IsText
  BY <1>1
<1>9. pc' = "write" => ~IsText
  BY <1>1
<1>10. pc' \in (Sending \ {"inject"}) \cup {"deliver"} /\ pc' \notin {"deliver", "bucket", "item"}
  BY <1>7 DEF Sending
<1>11. wire' = <<>> /\ bucket' = 1 /\ entry' = 1 /\ code' = Success /\ injected' = injected
  BY <1>1, <1>3
<1> QED
  <2>1. pc' # "deliver" /\ (pc' \in {"context", "bucket", "item"} => IsText)
    BY <1>8, <1>10
  <2> QED
    BY <1>1, <1>4, <1>5, <1>6, <1>7, <1>9, <1>10, <1>11, <2>1, SendingStep

LEMMA SetContextInv ==
  ASSUME IndInv, SetContext
  PROVE  IndInv'
<1>1. /\ pc = "context" /\ pc' = "bucket"
      /\ \/ wire' = <<ContextHeader(ContextFormat(source))>> /\ code' = Success
         \/ wire' = wire /\ code' = Unknown
      /\ bucket' = bucket /\ entry' = entry /\ source' = source
      /\ injected' = injected /\ UNCHANGED <<given, receiving, crashed>>
  BY DEF SetContext, sending, given
<1>2. TypeOK /\ Phases
  BY DEF IndInv
<1>3. /\ IsContext(source) /\ injected = "no" /\ IsText
      /\ wire = <<>> /\ bucket = 1 /\ entry = 1
  BY <1>1, <1>2 DEF Phases, Sending
<1>4. PICK h \in Header : h = ContextHeader(ContextFormat(source))
  <2>1. ContextFormat(source) \in Seq(Seq(Nat))
    BY <1>3, ContextRead
  <2> QED
    BY <2>1, HeaderFacts
<1>5. wire' \in Seq(Header) /\ (code' = Success => wire' # <<>> /\ wire'[1] = h)
  <2>1. CASE wire' = <<h>> /\ code' = Success
    <3>1. <<h>> \in Seq(Header) /\ <<h>> # <<>> /\ <<h>>[1] = h
      OBVIOUS
    <3> QED
      BY <2>1, <3>1
  <2>2. CASE wire' = wire /\ code' = Unknown
    <3>1. <<>> \in Seq(Header)
      OBVIOUS
    <3> QED
      BY <1>3, <2>2, <3>1 DEF Success, Unknown
  <2> QED
    BY <1>1, <1>4, <2>1, <2>2
<1>6. CarrierFits(format, wire') /\ Len(wire') \in Nat
  BY <1>3, <1>5 DEF CarrierFits, IsText
<1>7. code' = Success => ContextWritten'
  BY <1>1, <1>4, <1>5 DEF ContextWritten
<1>8. LoopInv'
  <2>1. bucket' \in 1 .. Len(source.buckets) + 1 /\ bucket' - 1 = 0 /\ entry' = 1
    BY <1>1, <1>3, BucketFacts
  <2>2. \A b \in 1 .. bucket' - 1 : FALSE
    BY <2>1
  <2> QED
    BY <1>1, <1>7, <2>1, <2>2 DEF LoopInv
<1>9. LastsWritten'
  BY <1>1, <1>3 DEF LastsWritten, Success
<1>10. code' \in Codes /\ bucket' \in Nat /\ entry' \in Nat
  BY <1>1, <1>3 DEF Codes
<1>11. /\ pc \in Sending /\ pc' \in (Sending \ {"inject"}) \cup {"deliver"}
       /\ pc' \notin {"deliver", "context", "write"}
  BY <1>1 DEF Sending
<1> QED
  <2>1. pc' # "deliver" /\ pc' # "context" /\ pc' # "write"
    BY <1>11
  <2> QED
    BY <1>1, <1>3, <1>6, <1>8, <1>9, <1>10, <1>11, <2>1, SendingStep

LEMMA NextBucketInv ==
  ASSUME IndInv, NextBucket
  PROVE  IndInv'
<1>1. /\ pc = "bucket"
      /\ wire' = wire /\ code' = code /\ bucket' = bucket /\ entry' = entry
      /\ format' = format /\ source' = source
      /\ UNCHANGED <<given, receiving, crashed>>
  BY DEF NextBucket, given
<1>2. TypeOK /\ Phases /\ LoopInv
  BY DEF IndInv
<1>3. IsContext(source) /\ injected = "no" /\ IsText
  BY <1>1, <1>2 DEF Phases, Sending
<1>4. /\ bucket \in 1 .. Len(source.buckets) + 1 /\ entry = 1
      /\ code = Success => ContextWritten /\ \A b \in 1 .. bucket - 1 : LastWritten(b)
  BY <1>1, <1>2 DEF LoopInv
<1>5. /\ Len(source.buckets) \in Nat /\ DOMAIN source.buckets = 1 .. Len(source.buckets)
      /\ \A b \in 1 .. Len(source.buckets) : Len(source.buckets[b]) \in Nat
  BY <1>3, BucketFacts
<1>6. ContextWritten' = ContextWritten /\ \A b : LastWritten(b)' = LastWritten(b)
  BY <1>1, WrittenKept
<1>7. /\ CarrierFits(format, wire') /\ code' \in Codes /\ bucket' \in Nat /\ entry' \in Nat
      /\ Len(wire') \in Nat
  BY <1>1, <1>2, WireFacts, Zenon DEF TypeOK
<1>8. pc \in Sending
  BY <1>1 DEF Sending
<1>9. CASE bucket <= Len(source.buckets) /\ code = Success
  <2>1. pc' = "item" /\ injected' = injected
    BY <1>9 DEF NextBucket
  <2>2. bucket \in 1 .. Len(source.buckets)
    BY <1>4, <1>5, <1>9
  <2>3. 1 \in 1 .. Len(source.buckets[bucket]) + 1 /\ ~(1 > 1)
    BY <1>5, <2>2
  <2>4. LoopInv'
    BY <1>1, <1>4, <1>6, <1>9, <2>1, <2>2, <2>3 DEF LoopInv
  <2>5. LastsWritten'
    BY <1>3, <2>1 DEF LastsWritten, Success
  <2>6. /\ pc' \in (Sending \ {"inject"}) \cup {"deliver"}
        /\ pc' # "deliver" /\ pc' # "context" /\ pc' # "write"
        /\ pc' \notin {"context", "write"}
    BY <2>1 DEF Sending
  <2> QED
    BY <1>1, <1>3, <1>7, <1>8, <2>1, <2>4, <2>5, <2>6, SendingStep
<1>10. CASE ~(bucket <= Len(source.buckets) /\ code = Success)
  <2>1. pc' = "deliver" /\ injected' = code
    BY <1>10 DEF NextBucket
  <2>2. ASSUME code = Success
        PROVE  ContextWritten /\ \A b \in DOMAIN source.buckets : LastWritten(b)
    <3>1. bucket - 1 = Len(source.buckets)
      BY <1>4, <1>5, <1>10, <2>2
    <3> QED
      BY <1>4, <1>5, <2>2, <3>1
  <2>3. LastsWritten'
    BY <1>1, <1>6, <2>1, <2>2 DEF LastsWritten
  <2>4. LoopInv'
    BY <2>1 DEF LoopInv
  <2>5. /\ pc' \in (Sending \ {"inject"}) \cup {"deliver"}
        /\ pc' # "context" /\ pc' # "write"
        /\ pc' \notin {"context", "write"} /\ pc' \notin {"context", "bucket", "item"}
        /\ injected' \in Codes
    BY <1>1, <1>7, <2>1 DEF Sending
  <2> QED
    BY <1>1, <1>7, <1>8, <2>1, <2>3, <2>4, <2>5, SendingStep
<1> QED
  BY <1>9, <1>10

LEMMA SetItemInv ==
  ASSUME IndInv, SetItem
  PROVE  IndInv'
<1>1. PICK item : item = source.buckets[bucket][entry]
  OBVIOUS
<1>2. /\ pc = "item" /\ pc' = pc
      /\ entry <= Len(source.buckets[bucket])
      /\ \/ /\ wire' = Append(wire, ItemHeader(item[1], Encoded(item[2])))
            /\ code' = Success
         \/ wire' = wire /\ code' = Unknown
      /\ entry' = entry + 1 /\ bucket' = bucket /\ injected' = injected
      /\ format' = format /\ source' = source
      /\ UNCHANGED <<given, receiving, crashed>>
  BY <1>1 DEF SetItem, given
<1>3. TypeOK /\ Phases /\ LoopInv
  BY DEF IndInv
<1>4. IsContext(source) /\ injected = "no" /\ IsText
  BY <1>2, <1>3 DEF Phases, Sending
<1>5. /\ bucket \in 1 .. Len(source.buckets)
      /\ entry \in 1 .. Len(source.buckets[bucket]) + 1
      /\ ContextWritten /\ \A b \in 1 .. bucket - 1 : LastWritten(b)
  BY <1>2, <1>3 DEF LoopInv
<1>6. Len(source.buckets) \in Nat /\ Len(source.buckets[bucket]) \in Nat
  BY <1>4, <1>5, BucketFacts
<1>7. entry \in 1 .. Len(source.buckets[bucket])
  BY <1>2, <1>5, <1>6
<1>8. item[1] \in Keys /\ item[2] \in Text
  BY <1>1, <1>4, <1>5, <1>7, BucketFacts
<1>9. PICK h \in Header : h = ItemHeader(item[1], Encoded(item[2]))
  BY <1>8, EncodedFacts, HeaderFacts, Zenon
<1>10. wire \in Seq(Header)
  BY <1>3, <1>4, WireFacts
<1>11. PICK e \in Seq(Header) :
         /\ wire' = wire \o e
         /\ code' = Success => e = <<h>>
  <2>1. CASE wire' = Append(wire, h) /\ code' = Success
    <3>1. Append(wire, h) = wire \o <<h>> /\ <<h>> \in Seq(Header)
      BY <1>10
    <3> QED
      BY <2>1, <3>1
  <2>2. CASE wire' = wire /\ code' = Unknown
    <3>1. wire = wire \o <<>> /\ <<>> \in Seq(Header)
      BY <1>10
    <3>2. code' # Success
      BY <2>2 DEF Success, Unknown
    <3> QED
      BY <2>2, <3>1, <3>2
  <2> QED
    BY <1>2, <1>9, <2>1, <2>2
<1>12. ContextWritten' /\ \A b \in 1 .. bucket - 1 : LastWritten(b)'
  BY <1>2, <1>5, <1>10, <1>11, WireGrows
<1>13. wire' \in Seq(Header)
  BY <1>10, <1>11
<1>14. ASSUME code' = Success
       PROVE  OnWire(item)'
  <2>1. wire' = wire \o <<h>>
    BY <1>11, <1>14
  <2>2. PICK n \in Nat : n = Len(wire)
    BY <1>10
  <2>3. n + 1 \in DOMAIN wire' /\ wire'[n + 1] = h
    BY <1>10, <2>1, <2>2
  <2>4. h = ItemHeader(item[1], Encoded(item[2])')
    BY <1>2, <1>9 DEF Encoded
  <2> QED
    BY <2>3, <2>4 DEF OnWire
<1>15. LoopInv'
  <2>1. entry' - 1 = entry /\ entry' \in 1 .. Len(source.buckets[bucket]) + 1
    BY <1>2, <1>6, <1>7
  <2> QED
    BY <1>1, <1>2, <1>5, <1>12, <1>14, <2>1 DEF LoopInv
<1>16. LastsWritten'
  BY <1>2, <1>4 DEF LastsWritten, Success
<1>17. CarrierFits(format, wire') /\ Len(wire') \in Nat
  BY <1>4, <1>13 DEF CarrierFits, IsText
<1>18. code' \in Codes /\ bucket' \in Nat /\ entry' \in Nat
  BY <1>2, <1>5, <1>6 DEF Codes
<1>19. /\ pc \in Sending /\ pc' \in (Sending \ {"inject"}) \cup {"deliver"}
       /\ pc' # "deliver" /\ pc' # "context" /\ pc' # "write"
       /\ pc' \notin {"context", "write"}
  BY <1>2 DEF Sending
<1> QED
  BY <1>2, <1>4, <1>15, <1>16, <1>17, <1>18, <1>19, SendingStep

LEMMA BucketDoneInv ==
  ASSUME IndInv, BucketDone
  PROVE  IndInv'
<1>1. /\ pc = "item" /\ pc' = "bucket"
      /\ entry > Len(source.buckets[bucket])
      /\ entry' = 1 /\ bucket' = bucket + 1 /\ injected' = injected
      /\ format' = format /\ source' = source /\ wire' = wire /\ code' = code
      /\ UNCHANGED <<given, receiving, crashed>>
  BY DEF BucketDone, given
<1>2. TypeOK /\ Phases /\ LoopInv
  BY DEF IndInv
<1>3. IsContext(source) /\ injected = "no" /\ IsText
  BY <1>1, <1>2 DEF Phases, Sending
<1>4. /\ bucket \in 1 .. Len(source.buckets)
      /\ entry \in 1 .. Len(source.buckets[bucket]) + 1
      /\ ContextWritten /\ \A b \in 1 .. bucket - 1 : LastWritten(b)
      /\ code = Success /\ entry > 1 => OnWire(source.buckets[bucket][entry - 1])
  BY <1>1, <1>2 DEF LoopInv
<1>5. /\ Len(source.buckets) \in Nat /\ source.buckets[bucket] \in Seq(Keys \X Text)
      /\ Len(source.buckets[bucket]) \in Nat
  BY <1>3, <1>4, BucketFacts
<1>6. ContextWritten' = ContextWritten /\ \A b : LastWritten(b)' = LastWritten(b)
  BY <1>1, WrittenKept
<1>7. ASSUME code = Success
      PROVE  LastWritten(bucket)
  <2>1. entry - 1 = Len(source.buckets[bucket])
    BY <1>1, <1>4, <1>5
  <2>2. source.buckets[bucket] # <<>> => Len(source.buckets[bucket]) >= 1
    BY <1>5
  <2>3. source.buckets[bucket] # <<>> => entry > 1
    BY <1>4, <1>5, <2>1, <2>2
  <2> QED
    BY <1>4, <1>7, <2>1, <2>3 DEF LastWritten
<1>8. LoopInv'
  <2>1. /\ bucket' \in 1 .. Len(source.buckets) + 1
        /\ \A b \in 1 .. bucket' - 1 : b \in 1 .. bucket - 1 \/ b = bucket
    BY <1>1, <1>4, <1>5
  <2>2. code = Success => \A b \in 1 .. bucket' - 1 : LastWritten(b)'
    BY <1>4, <1>6, <1>7, <2>1
  <2> QED
    BY <1>1, <1>4, <1>6, <2>1, <2>2 DEF LoopInv
<1>9. LastsWritten'
  BY <1>1, <1>3 DEF LastsWritten, Success
<1>10. /\ CarrierFits(format, wire') /\ code' \in Codes /\ Len(wire') \in Nat
  BY <1>1, <1>2, WireFacts, Zenon DEF TypeOK
<1>11. bucket' \in Nat /\ entry' \in Nat
  BY <1>1, <1>4, <1>5
<1>12. /\ pc \in Sending /\ pc' \in (Sending \ {"inject"}) \cup {"deliver"}
       /\ pc' # "deliver" /\ pc' # "context" /\ pc' # "write"
       /\ pc' \notin {"context", "write"}
  BY <1>1 DEF Sending
<1> QED
  BY <1>1, <1>3, <1>8, <1>9, <1>10, <1>11, <1>12, SendingStep

LEMMA BinaryAppend ==
  ASSUME NEW w, IsBinary(w), NEW x, FieldFits(Len(w) + 1, x)
  PROVE  IsBinary(Append(w, x)) /\ Len(Append(w, x)) = Len(w) + 1
<1>1. PICK S : w \in Seq(S)
  BY BinaryFacts
<1>2. PICK n \in Nat : n = Len(w)
  BY BinaryFacts
<1>3. \A p \in 1 .. n : FieldFits(p, w[p])
  BY <1>2 DEF IsBinary
<1> DEFINE T == S \cup {x}
           q == Append(w, x)
<1>4. \A i \in 1 .. n : w[i] \in T
  BY <1>1, <1>2
<1>5. w \in Seq(T) /\ x \in T
  BY <1>1
<1> HIDE DEF T
<1>6. /\ q \in Seq(T) /\ Len(q) = n + 1 /\ q[n + 1] = x
      /\ \A i \in 1 .. n : q[i] = w[i]
  BY <1>2, <1>5
<1> HIDE DEF q
<1>7. q = [p \in 1 .. n + 1 |-> q[p]]
  BY <1>6
<1>8. ASSUME NEW p \in 1 .. n + 1
      PROVE  FieldFits(p, q[p])
  <2>1. p \in 1 .. n \/ p = n + 1
    OBVIOUS
  <2> QED
    BY <1>2, <1>3, <1>6, <2>1
<1>9. IsBinary(q)
  BY <1>6, <1>7, <1>8 DEF IsBinary
<1> QED
  BY <1>2, <1>6, <1>9 DEF q

LEMMA BinaryFront ==
  ASSUME NEW w, IsBinary(w), NEW n \in 0 .. Len(w)
  PROVE  IsBinary(SubSeq(w, 1, n)) /\ Len(SubSeq(w, 1, n)) = n
<1>1. PICK S : w \in Seq(S)
  BY BinaryFacts
<1> DEFINE q == SubSeq(w, 1, n)
<1>2. n \in Nat /\ Len(w) \in Nat /\ \A p \in 1 .. n : p \in 1 .. Len(w)
  BY BinaryFacts
<1>3. q \in Seq(S) /\ Len(q) = n /\ \A i \in 1 .. n : q[i] = w[i]
  BY <1>1, FrontFacts
<1> HIDE DEF q
<1>4. q = [p \in 1 .. n |-> q[p]]
  BY <1>3
<1>5. \A p \in 1 .. n : FieldFits(p, q[p])
  BY <1>2, <1>3 DEF IsBinary
<1>6. IsBinary(q)
  BY <1>2, <1>3, <1>4, <1>5 DEF IsBinary
<1> QED
  BY <1>3, <1>6 DEF q

LEMMA WriteBinaryInv ==
  ASSUME IndInv, WriteBinary
  PROVE  IndInv'
<1>1. PICK fields : fields = BinaryFields(source)
  OBVIOUS
<1>2. /\ pc = "write" /\ code' = code /\ bucket' = bucket /\ entry' = entry
      /\ format' = format /\ source' = source
      /\ UNCHANGED <<given, receiving, crashed>>
      /\ \/ pc' = "deliver" /\ injected' \in {Success, Unknown} /\ wire' = wire
         \/ /\ Len(wire) # Len(fields) /\ wire' = Append(wire, fields[Len(wire) + 1])
            /\ pc' = pc /\ injected' = injected
  BY <1>1 DEF WriteBinary, given
<1>3. TypeOK /\ Phases
  BY DEF IndInv
<1>4. /\ IsContext(source) /\ injected = "no" /\ ~IsText /\ code = Success
      /\ Len(wire) <= Len(fields)
  BY <1>1, <1>2, <1>3 DEF Phases, Sending
<1>5. /\ IsBinary(fields) /\ Len(fields) \in Nat
      /\ \A p \in 1 .. Len(fields) : FieldFits(p, fields[p])
  BY <1>1, <1>4, FieldsWritten DEF IsBinary
<1>6. IsBinary(wire) /\ Len(wire) \in Nat
  BY <1>3, <1>4, WireFacts
<1>7. /\ IsBinary(wire') /\ Len(wire') \in Nat
      /\ pc' = "write" => Len(wire') <= Len(fields)
  <2>1. CASE pc' = "deliver" /\ wire' = wire
    BY <1>6, <2>1
  <2>2. CASE Len(wire) # Len(fields) /\ wire' = Append(wire, fields[Len(wire) + 1])
    <3>1. Len(wire) + 1 \in 1 .. Len(fields)
      BY <1>4, <1>5, <1>6, <2>2
    <3>2. IsBinary(wire') /\ Len(wire') = Len(wire) + 1
      BY <1>5, <1>6, <2>2, <3>1, BinaryAppend
    <3> QED
      BY <1>5, <1>6, <3>1, <3>2
  <2> QED
    BY <1>2, <2>1, <2>2
<1>8. CarrierFits(format, wire')
  BY <1>4, <1>7 DEF CarrierFits, IsText
<1>9. code' \in Codes /\ bucket' \in Nat /\ entry' \in Nat
  BY <1>2, <1>3 DEF TypeOK
<1>10. LastsWritten' /\ LoopInv'
  BY <1>2, <1>4 DEF LastsWritten, LoopInv, IsText
<1>11. /\ pc \in Sending /\ pc' \in (Sending \ {"inject"}) \cup {"deliver"}
       /\ pc' # "context" /\ pc' \notin {"context", "bucket", "item"}
       /\ pc' = "deliver" => injected' \in Codes
       /\ pc' # "deliver" => injected' = injected
  BY <1>2 DEF Sending, Codes
<1>12. code' = Success
  BY <1>2, <1>4
<1> QED
  BY <1>1, <1>2, <1>4, <1>7, <1>8, <1>9, <1>10, <1>11, <1>12, SendingStep

---------------------------------------------------------------------------
(* Delivery *)

LEMMA DeliverInv ==
  ASSUME IndInv, Deliver
  PROVE  IndInv'
<1>1. /\ pc = "deliver" /\ pc' = "extract" /\ code' = Success
      /\ format' = format /\ source' = source /\ faults' = faults
      /\ bucket' = bucket /\ entry' = entry /\ injected' = injected
      /\ pending' = pending /\ pos' = pos /\ ctx' = ctx /\ buffers' = buffers
      /\ after_debug' = after_debug /\ decoding_errors' = decoding_errors
      /\ crashed' = crashed
      /\ IF IsText THEN \E extra \in Extras : wire' = wire \o extra
         ELSE \E n \in 0 .. Len(wire) : wire' = SubSeq(wire, 1, n)
  BY DEF Deliver, given, sending, receiving
<1>2. TypeOK /\ Phases /\ LastsWritten
  BY DEF IndInv
<1>3. /\ pending = {} /\ pos = 0 /\ buffers = [key |-> "null", value |-> "null"]
      /\ ~after_debug /\ crashed = "no" /\ decoding_errors = 0
  BY <1>1, <1>2 DEF Phases, Sending
<1>4. CarrierFits(format, wire') /\ Len(wire') \in Nat /\ LastsWritten'
  <2>1. CASE IsText
    <3>1. wire \in Seq(Header)
      BY <1>2, <2>1, WireFacts
    <3>2. PICK extra \in Seq(Header) : wire' = wire \o extra
      BY <1>1, <2>1, ExtrasAssumption
    <3>3. wire' \in Seq(Header)
      BY <3>1, <3>2
    <3>4. CarrierFits(format, wire')
      BY <2>1, <3>3 DEF CarrierFits, IsText
    <3>5. /\ ContextWritten => ContextWritten'
          /\ \A b : LastWritten(b) => LastWritten(b)'
      BY <1>1, <3>1, <3>2, WireGrows
    <3>6. LastsWritten'
      BY <1>1, <1>2, <2>1, <3>5 DEF LastsWritten
    <3> QED
      BY <3>3, <3>4, <3>6, SeqFacts
  <2>2. CASE ~IsText
    <3>1. IsBinary(wire)
      BY <1>2, <2>2, WireFacts
    <3>2. PICK n \in 0 .. Len(wire) : wire' = SubSeq(wire, 1, n)
      BY <1>1, <2>2
    <3>3. IsBinary(wire')
      BY <3>1, <3>2, BinaryFront
    <3>4. Len(wire') \in Nat
      BY <3>3 DEF IsBinary
    <3>5. CarrierFits(format, wire')
      BY <2>2, <3>3 DEF CarrierFits, IsText
    <3>6. LastsWritten'
      BY <1>1, <2>2 DEF LastsWritten, IsText
    <3> QED
      BY <3>4, <3>5, <3>6
  <2> QED
    BY <2>1, <2>2
<1>5. TypeOK'
  <2>1. CarrierFits(format, wire)'
    BY <1>1, <1>4
  <2>2. (pending \subseteq 1 .. Len(wire))' /\ (pos \in 0 .. Len(wire))'
    BY <1>1, <1>3, <1>4
  <2>3. (code \in Codes)'
    BY <1>1 DEF Codes
  <2> QED
    BY <1>1, <1>2, <2>1, <2>2, <2>3 DEF TypeOK
<1>6. Phases'
  BY <1>1, <1>3 DEF Phases, Sending, IsText
<1>7. LoopInv' /\ HeadersInv' /\ FieldsInv' /\ CleanupInv' /\ RoundTrip'
  BY <1>1 DEF LoopInv, HeadersInv, FieldsInv, CleanupInv, RoundTrip
<1>8. BufferInv' /\ ErrorLeavesNothing'
  BY <1>1, <1>3 DEF BufferInv, ErrorLeavesNothing
<1> QED
  BY <1>4, <1>5, <1>6, <1>7, <1>8 DEF IndInv

---------------------------------------------------------------------------
(* Extraction *)

NullBuffers == [key |-> "null", value |-> "null"]

\* What every step of extract keeps, and what has to be shown of it.
LEMMA ReceivingTypes ==
  ASSUME IndInv, UNCHANGED <<given, wire, sending>>,
         pc' \in {"headers", "read", "cleanup", "done"}, code' \in Codes,
         pending' \subseteq 1 .. Len(wire), pos' \in 0 .. Len(wire),
         ctx' # NoContext => IsExtracted(ctx'),
         buffers' \in [key : {"null", "live", "freed"}, value : {"null", "live", "freed"}],
         after_debug' \in BOOLEAN, decoding_errors' \in {0, 1},
         crashed' \in {"no", "null", "assert", "overflow", "double_free"},
         pc' \in {"headers", "read"} => code' = Success /\ IsExtracted(ctx'),
         pc' = "headers" => IsText,
         pc' = "read" => ~IsText,
         pc' # "done" => decoding_errors' = 0,
         IsText => pos' = 0 /\ buffers' = NullBuffers
  PROVE  /\ TypeOK' /\ Phases' /\ LoopInv' /\ LastsWritten'
<1>1. TypeOK /\ LastsWritten
  BY DEF IndInv
<1>2. /\ format' = format /\ source' = source /\ faults' = faults /\ wire' = wire
      /\ bucket' = bucket /\ entry' = entry /\ injected' = injected
  BY DEF given, sending
<1>3. LastsWritten' /\ IsText' = IsText
  BY <1>1, <1>2, SentKept
<1>4. LoopInv'
  BY DEF LoopInv
<1>5. TypeOK'
  <2>1. /\ (format \in TextFormats \cup {"binary"})' /\ (faults \in FaultSets)'
        /\ (source # NoContext => IsContext(source))' /\ CarrierFits(format, wire)'
        /\ (bucket \in Nat)' /\ (entry \in Nat)'
        /\ (injected \in Codes \cup {"no", "invalid_span_context"})'
    BY <1>1, <1>2 DEF TypeOK
  <2>2. /\ pc' \in {"inject", "context", "bucket", "item", "write", "deliver",
                    "extract", "headers", "read", "cleanup", "done"}
    OBVIOUS
  <2>3. pending' \subseteq 1 .. Len(wire') /\ pos' \in 0 .. Len(wire')
    BY <1>2
  <2> QED
    BY <2>1, <2>2, <2>3, Zenon DEF TypeOK
<1>6. Phases'
  BY <1>2, <1>3 DEF Phases, Sending, NullBuffers
<1> QED
  BY <1>3, <1>4, <1>5, <1>6

LEMMA EmptyContextType ==
  /\ IsExtracted(EmptyContext)
  /\ EmptyContext.debug_id = FALSE
  /\ EmptyContext.trace_id = [high |-> 0, low |-> 0]
  /\ \A k \in Keys : EmptyContext.baggage[k] = NoValue
<1>1. 0 \in Id
  BY PowerGrows, WidthAssumption DEF Id
<1> QED
  BY <1>1 DEF IsExtracted, EmptyContext, NoBaggage

\* What the context has collected from the headers that have been passed.
Collected(c, debugged, passed) ==
  /\ (\E i \in passed : wire[i].kind = "context") =>
       /\ c.trace_id = source.trace_id
       /\ c.span_id = source.span_id
       /\ c.flags = IF debugged THEN Debugged(source.flags) ELSE source.flags
  /\ c.debug_id = \E i \in passed : wire[i].kind = "debug"
  /\ \A k \in Keys : c.baggage[k] \in Sent(k) \cup {NoValue}
  /\ \A i \in passed : IsItem(wire[i]) =>
       c.baggage[Suffix(wire[i].key)] \in Sent(Suffix(wire[i].key))

LEMMA HeadersCollected ==
  HeadersInv <=> (pc = "headers" /\ crashed = "no" /\ Undisturbed =>
                    Collected(ctx, after_debug, DOMAIN wire \ pending))
BY DEF HeadersInv, Collected, IsItem

LEMMA CollectedKept ==
  ASSUME UNCHANGED <<format, source, wire, injected>>,
         NEW passed, passed = DOMAIN wire \ pending',
         pc' = "headers" /\ crashed' = "no" /\ Undisturbed =>
           Collected(ctx', after_debug', passed)
  PROVE  HeadersInv'
<1>1. /\ wire' = wire /\ source' = source /\ format' = format
      /\ Undisturbed' = Undisturbed
      /\ \A k : Sent(k)' = Sent(k)
      /\ \A k : Suffix(k)' = Suffix(k)
  BY SentKept
<1>2. SUFFICES ASSUME pc' = "headers", crashed' = "no", Undisturbed
               PROVE  HeadersInv'
  BY <1>1 DEF HeadersInv
<1>3. Collected(ctx', after_debug', passed)
  BY <1>2
<1> QED
  BY <1>1, <1>3 DEF HeadersInv, Collected, IsItem

LEMMA ExtractInv ==
  ASSUME IndInv, Extract
  PROVE  IndInv'
<1>1. /\ pc = "extract" /\ UNCHANGED <<given, wire, sending>>
      /\ format' = format /\ source' = source /\ injected' = injected /\ wire' = wire
      /\ pos' = pos /\ buffers' = buffers /\ after_debug' = after_debug
      /\ decoding_errors' = decoding_errors /\ crashed' = crashed
      /\ \/ /\ ctx' = EmptyContext
            /\ pending' = IF IsText THEN DOMAIN wire ELSE {}
            /\ pc' = IF IsText THEN "headers" ELSE "read"
            /\ code' = code
         \/ code' = Unknown /\ pc' = "cleanup" /\ ctx' = ctx /\ pending' = pending
  BY DEF Extract, Fail, given, sending
<1>2. TypeOK /\ Phases
  BY DEF IndInv
<1>3. /\ code = Success /\ pending = {} /\ pos = 0 /\ buffers = NullBuffers
      /\ ~after_debug /\ crashed = "no" /\ decoding_errors = 0
  BY <1>1, <1>2 DEF Phases, Sending, NullBuffers
<1>4. DOMAIN wire = 1 .. Len(wire) /\ Len(wire) \in Nat
  BY <1>2, WireFacts
<1>5. TypeOK' /\ Phases' /\ LoopInv' /\ LastsWritten'
  <2>1. /\ pc' \in {"headers", "read", "cleanup", "done"} /\ code' \in Codes
        /\ pending' \subseteq 1 .. Len(wire) /\ pos' \in 0 .. Len(wire)
        /\ pc' \in {"headers", "read"} => code' = Success
        /\ pc' = "headers" => IsText
        /\ pc' = "read" => ~IsText
    BY <1>1, <1>3, <1>4 DEF Codes
  <2>2. /\ buffers' = NullBuffers /\ pos' = 0
        /\ buffers' \in [key : {"null", "live", "freed"}, value : {"null", "live", "freed"}]
        /\ decoding_errors' \in {0, 1} /\ decoding_errors' = 0
        /\ crashed' \in {"no", "null", "assert", "overflow", "double_free"}
    BY <1>1, <1>3 DEF NullBuffers
  <2>4. after_debug' \in BOOLEAN
    BY <1>1, <1>2, Zenon DEF TypeOK
  <2>3. /\ ctx' # NoContext => IsExtracted(ctx')
        /\ pc' \in {"headers", "read"} => IsExtracted(ctx')
    BY <1>1, <1>2, EmptyContextType DEF TypeOK
  <2> QED
    BY <1>1, <2>1, <2>2, <2>3, <2>4, ReceivingTypes
<1>6. HeadersInv'
  <2>1. ASSUME pc' = "headers"
        PROVE  Collected(ctx', after_debug', {})
    <3>1. ctx' = EmptyContext
      BY <1>1, <2>1
    <3> QED
      BY <3>1, EmptyContextType DEF Collected
  <2>2. pc' = "headers" => DOMAIN wire \ pending' = {}
    BY <1>1
  <2>3. PICK passed : passed = DOMAIN wire \ pending'
    OBVIOUS
  <2>4. pc' = "headers" => Collected(ctx', after_debug', passed)
    BY <2>1, <2>2, <2>3, Zenon
  <2> QED
    BY <1>1, <2>3, <2>4, CollectedKept
<1>7. FieldsInv'
  <2>1. SUFFICES ASSUME pc' = "read", Undisturbed'
                 PROVE  FieldsInv'
    BY DEF FieldsInv
  <2>2. ctx' = EmptyContext /\ pos' = 0 /\ ~after_debug'
    BY <1>1, <1>3, <2>1
  <2>3. IsContext(source')
    BY <1>5, <2>1 DEF TypeOK, Undisturbed
  <2>4. \A i \in DOMAIN Items(source') : ~(pos' >= 5 + 4 * i)
    BY <2>2, <2>3, ItemsFacts
  <2> QED
    BY <2>2, <2>4, EmptyContextType DEF FieldsInv
<1>8. CleanupInv' /\ RoundTrip'
  BY <1>1, <1>3 DEF CleanupInv, RoundTrip, Success, Unknown
<1>9. BufferInv' /\ ErrorLeavesNothing'
  BY <1>1, <1>3 DEF BufferInv, ErrorLeavesNothing, NullBuffers
<1> QED
  BY <1>5, <1>6, <1>7, <1>8, <1>9 DEF IndInv

\* A callback that leaves the context well formed, and passes one header on.
LEMMA CallbackStep ==
  ASSUME IndInv, crashed = "no", NEW i, Pass(i),
         IsExtracted(ctx'), after_debug' \in BOOLEAN,
         crashed' \in {"no", "null", "assert"},
         \/ pc' = pc /\ code' = code
         \/ pc' = "cleanup" /\ code' \in {Corrupted, Unknown},
         pc' = "headers" /\ crashed' = "no" /\ Undisturbed =>
           Collected(ctx', after_debug', (DOMAIN wire \ pending) \cup {i})
  PROVE  IndInv'
<1>1. /\ pc = "headers" /\ i \in pending /\ pending' = pending \ {i}
      /\ UNCHANGED <<given, wire, sending>>
      /\ format' = format /\ source' = source /\ injected' = injected /\ wire' = wire
      /\ pos' = pos /\ buffers' = buffers /\ decoding_errors' = decoding_errors
  BY DEF Pass, given, sending
<1>2. TypeOK /\ Phases
  BY DEF IndInv
<1>3. /\ code = Success /\ IsText /\ pos = 0 /\ buffers = NullBuffers
      /\ decoding_errors = 0
  BY <1>1, <1>2 DEF Phases, NullBuffers
<1>4. DOMAIN wire = 1 .. Len(wire) /\ Len(wire) \in Nat /\ pending \subseteq 1 .. Len(wire)
  BY <1>2, WireFacts DEF TypeOK
<1>5. /\ \/ pc' = "headers" /\ code' = Success
         \/ pc' = "cleanup" /\ code' \in {Corrupted, Unknown}
      /\ pc' \in {"headers", "read", "cleanup", "done"} /\ code' \in Codes
      /\ pc' # "read" /\ pc' # "done"
  BY <1>1, <1>3 DEF Codes
<1>6. TypeOK' /\ Phases' /\ LoopInv' /\ LastsWritten'
  <2>1. pending' \subseteq 1 .. Len(wire) /\ pos' \in 0 .. Len(wire)
    BY <1>1, <1>3, <1>4
  <2>2. /\ buffers' = NullBuffers /\ pos' = 0
        /\ buffers' \in [key : {"null", "live", "freed"}, value : {"null", "live", "freed"}]
        /\ decoding_errors' \in {0, 1} /\ decoding_errors' = 0
        /\ crashed' \in {"no", "null", "assert", "overflow", "double_free"}
    BY <1>1, <1>3 DEF NullBuffers
  <2>3. pc' \in {"headers", "read"} => code' = Success /\ IsExtracted(ctx')
    BY <1>5
  <2> QED
    BY <1>1, <1>3, <1>5, <2>1, <2>2, <2>3, ReceivingTypes
<1>7. HeadersInv'
  <2>1. DOMAIN wire \ pending' = (DOMAIN wire \ pending) \cup {i}
    BY <1>1, <1>4
  <2>2. PICK passed : passed = (DOMAIN wire \ pending) \cup {i}
    OBVIOUS
  <2>3. passed = DOMAIN wire \ pending'
    BY <2>1, <2>2, Zenon
  <2>4. pc' = "headers" /\ crashed' = "no" /\ Undisturbed =>
          Collected(ctx', after_debug', passed)
    BY <2>2, Zenon
  <2> QED
    BY <1>1, <2>3, <2>4, CollectedKept
<1>8. FieldsInv' /\ CleanupInv' /\ RoundTrip'
  BY <1>5 DEF FieldsInv, CleanupInv, RoundTrip, Success, Corrupted, Unknown
<1>9. BufferInv' /\ ErrorLeavesNothing'
  BY <1>1, <1>3, <1>5 DEF BufferInv, ErrorLeavesNothing, NullBuffers
<1> QED
  BY <1>6, <1>7, <1>8, <1>9 DEF IndInv

\* What is known when a header is passed to the callback.
LEMMA Passing ==
  ASSUME IndInv, crashed = "no", NEW i, Pass(i)
  PROVE  /\ pc = "headers" /\ IsText /\ IsExtracted(ctx) /\ after_debug \in BOOLEAN
         /\ i \in DOMAIN wire /\ wire[i] \in Header
         /\ Undisturbed => /\ IsContext(source)
                           /\ Collected(ctx, after_debug, DOMAIN wire \ pending)
<1>1. TypeOK /\ Phases /\ HeadersInv
  BY DEF IndInv
<1>2. pc = "headers" /\ i \in pending
  BY DEF Pass
<1>3. IsText /\ IsExtracted(ctx) /\ after_debug \in BOOLEAN
  BY <1>1, <1>2 DEF Phases, TypeOK
<1>4. i \in 1 .. Len(wire)
  BY <1>1, <1>2 DEF TypeOK
<1>5. i \in DOMAIN wire /\ wire[i] \in Header
  BY <1>1, <1>3, <1>4, WireFacts, SeqFacts
<1>6. Undisturbed => IsContext(source)
  BY <1>1 DEF TypeOK, Undisturbed
<1>7. Undisturbed => Collected(ctx, after_debug, DOMAIN wire \ pending)
  BY <1>1, <1>2, HeadersCollected
<1> QED
  BY <1>2, <1>3, <1>5, <1>6, <1>7

LEMMA CallbackFails ==
  ASSUME IndInv, crashed = "no", NEW i,
         CallbackNoMemory(i) \/ ExtractBaggageCrash(i) \/ DecodeCrash(i)
  PROVE  IndInv'
<1>1. /\ Pass(i) /\ ctx' = ctx /\ after_debug' = after_debug
      /\ \/ pc' = "cleanup" /\ code' \in {Corrupted, Unknown} /\ crashed' = crashed
         \/ pc' = pc /\ code' = code /\ crashed' \in {"null", "assert"}
  BY DEF CallbackNoMemory, ExtractBaggageCrash, DecodeCrash, Fail
<1>2. IsExtracted(ctx') /\ after_debug' \in BOOLEAN
  BY <1>1, Passing
<1>3. ~(pc' = "headers" /\ crashed' = "no")
  BY <1>1
<1>4. crashed' \in {"no", "null", "assert"}
  BY <1>1
<1> QED
  BY <1>1, <1>2, <1>3, <1>4, CallbackStep

LEMMA ExtractOtherInv ==
  ASSUME IndInv, crashed = "no", NEW i, ExtractOther(i)
  PROVE  IndInv'
<1>1. /\ Pass(i) /\ wire[i].kind \in {"other", "prefix"} /\ ~IsItem(wire[i]) /\ pc' = pc /\ code' = code /\ ctx' = ctx
      /\ after_debug' = after_debug /\ crashed' = crashed
  BY DEF ExtractOther, IsItem
<1>2. /\ IsExtracted(ctx') /\ after_debug' \in BOOLEAN
      /\ Undisturbed => Collected(ctx', after_debug', DOMAIN wire \ pending)
  BY <1>1, Passing
<1>3. PICK passed : passed = DOMAIN wire \ pending
  OBVIOUS
<1>4. Undisturbed => Collected(ctx', after_debug', passed \cup {i})
  BY <1>1, <1>2, <1>3 DEF Collected
<1> QED
  BY <1>1, <1>2, <1>3, <1>4, CallbackStep

(* Marking a collected context as a debug one leaves it a context.           *)
LEMMA DebugKeepsType ==
  ASSUME NEW c, NEW d, IsExtracted(c),
         d.trace_id = c.trace_id, d.span_id = c.span_id, d.flags = Debugged(c.flags),
         d.debug_id = TRUE, d.baggage = c.baggage, DOMAIN d = DOMAIN c
  PROVE  IsExtracted(d)
<1>1. c.flags \in 0 .. 255
  BY Zenon DEF IsExtracted
<1>2. Debugged(c.flags) \in 0 .. 255
  BY <1>1, DebuggedFacts, Zenon
<1> QED
  BY <1>2, Zenon DEF IsExtracted

LEMMA ExtractDebugInv ==
  ASSUME IndInv, crashed = "no", NEW i, ExtractDebug(i)
  PROVE  IndInv'
<1>1. /\ Pass(i) /\ wire[i].kind = "debug" /\ pc' = pc /\ code' = code
      /\ ctx' = [ctx EXCEPT !.debug_id = TRUE, !.flags = Debugged(@)]
      /\ after_debug' = TRUE /\ crashed' = crashed
  BY DEF ExtractDebug
<1>2. /\ IsExtracted(ctx) /\ after_debug \in BOOLEAN
      /\ Undisturbed => IsContext(source) /\ Collected(ctx, after_debug, DOMAIN wire \ pending)
  BY <1>1, Passing
<1>3. /\ ctx'.trace_id = ctx.trace_id /\ ctx'.span_id = ctx.span_id
      /\ ctx'.flags = Debugged(ctx.flags) /\ ctx'.debug_id = TRUE
      /\ ctx'.baggage = ctx.baggage /\ DOMAIN ctx' = DOMAIN ctx
  BY <1>1, <1>2 DEF IsExtracted, EmptyContext
<1>4. IsExtracted(ctx')
  BY <1>2, <1>3, DebugKeepsType, Zenon
<1>5. PICK passed : passed = DOMAIN wire \ pending
  OBVIOUS
<1>6. ASSUME Undisturbed
      PROVE  Collected(ctx', after_debug', passed \cup {i})
  <2>1. Collected(ctx, after_debug, passed)
    <3>1. Collected(ctx, after_debug, DOMAIN wire \ pending)
      BY ONLY <1>2, <1>6
    <3> QED
      BY ONLY <1>5, <3>1, Zenon
  <2>2. Debugged(Debugged(source.flags)) = Debugged(source.flags)
    BY <1>2, <1>6, DebuggedFacts DEF IsContext
  <2>3. (\E j \in passed \cup {i} : wire[j].kind = "context") =>
          \E j \in passed : wire[j].kind = "context"
    BY <1>1
  <2>4. (\E j \in passed \cup {i} : wire[j].kind = "context") =>
          /\ ctx'.trace_id = source.trace_id
          /\ ctx'.span_id = source.span_id
          /\ ctx'.flags = Debugged(source.flags)
    BY <1>3, <2>1, <2>2, <2>3 DEF Collected
  <2>5. ctx'.debug_id = \E j \in passed \cup {i} : wire[j].kind = "debug"
    BY <1>1, <1>3
  <2>6. /\ \A k \in Keys : ctx'.baggage[k] \in Sent(k) \cup {NoValue}
        /\ \A j \in passed \cup {i} : IsItem(wire[j]) =>
             ctx'.baggage[Suffix(wire[j].key)] \in Sent(Suffix(wire[j].key))
    BY <1>1, <1>3, <2>1 DEF Collected, IsItem
  <2> QED
    BY <1>1, <2>4, <2>5, <2>6 DEF Collected
<1>7. after_debug' \in BOOLEAN /\ crashed' \in {"no", "null", "assert"}
  BY <1>1
<1> QED
  BY <1>1, <1>4, <1>5, <1>6, <1>7, CallbackStep

\* A scanned context has its types, whatever the tokens are.
LEMMA ScannedTypes ==
  ASSUME NEW ts \in Seq(Seq(Nat)), ContextScans(ts)
  PROVE  /\ TraceIdScan(ts[1]) \in [high : Id, low : Id]
         /\ Strtoull(ts[2]) \in Id
         /\ Strtoull(ts[3]) % 256 \in 0 .. 255
<1> DEFINE Q == Seq(Nat)
<1>1. \A t \in Q : Strtoull(t) \in Id
  BY StrtoullFacts
<1>2. ts \in Seq(Q) /\ Len(ts) >= 3
  BY DEF ContextScans
<1> HIDE DEF Q
<1>3. ts[1] \in Q /\ ts[2] \in Q /\ ts[3] \in Q
  <2>1. Len(ts) \in Nat /\ \A i \in 1 .. Len(ts) : ts[i] \in Q
    BY <1>2, SeqFacts
  <2>2. 1 \in 1 .. Len(ts) /\ 2 \in 1 .. Len(ts) /\ 3 \in 1 .. Len(ts)
    BY <1>2, <2>1
  <2> QED
    BY <2>1, <2>2
<1>4. PICK t \in Seq(Nat) : t = ts[1]
  BY <1>3 DEF Q
<1>5. PICK n \in Nat, h \in Nat : n = Len(t) /\ h = HighLen(t) /\ h <= n
  <2>1. PICK n \in Nat : n = Len(t)
    BY SeqFacts
  <2>2. PICK w \in Nat : w = Width
    BY WidthAssumption
  <2>3. HighLen(t) = IF n > w THEN n - w ELSE 0
    BY <2>1, <2>2 DEF HighLen
  <2>4. HighLen(t) \in Nat /\ HighLen(t) <= n
    BY <2>3
  <2> QED
    BY <2>1, <2>4
<1>6. SubSeq(t, 1, h) \in Seq(Nat)
  <2>1. h \in 0 .. Len(t)
    BY <1>5
  <2> QED
    BY <2>1, FrontFacts
<1>7. SubSeq(t, h + 1, Len(t)) \in Seq(Nat)
  <2>1. PICK k \in Nat : h + k = n
    <3>1. n - h \in Nat /\ h + (n - h) = n
      BY <1>5
    <3> QED
      BY <3>1
  <2>2. SubSeq(t, h + 1, h + k) \in Seq(Nat)
    <3>1. h + k <= Len(t)
      BY <1>5, <2>1
    <3> QED
      BY <3>1, PartFacts
  <2> QED
    BY <1>5, <2>1, <2>2
<1>8. TraceIdScan(t) = [high |-> Strtoull(SubSeq(t, 1, h)),
                        low |-> Strtoull(SubSeq(t, h + 1, Len(t)))]
  BY <1>5, Zenon DEF TraceIdScan
<1>9. Strtoull(SubSeq(t, 1, h)) \in Id /\ Strtoull(SubSeq(t, h + 1, Len(t))) \in Id
  BY <1>6, <1>7, StrtoullFacts
<1>10. TraceIdScan(ts[1]) \in [high : Id, low : Id]
  BY <1>4, <1>8, <1>9
<1>11. Strtoull(ts[3]) % 256 \in 0 .. 255
  <2>1. Strtoull(ts[3]) \in Id
    BY <1>1, <1>3
  <2>2. PICK x \in Nat : x = Strtoull(ts[3])
    BY <2>1, WidthAssumption, PowerGrows DEF Id
  <2>3. x % 256 \in 0 .. 255
    OBVIOUS
  <2> QED
    BY <2>2, <2>3
<1> QED
  BY <1>1, <1>3, <1>10, <1>11

LEMMA ExtractContextInv ==
  ASSUME IndInv, crashed = "no", NEW i, ExtractContext(i)
  PROVE  IndInv'
<1>1. PICK ts : ts = wire[i].tokens
  OBVIOUS
<1>2. /\ Pass(i) /\ wire[i].kind = "context" /\ after_debug' = FALSE /\ crashed' = crashed
      /\ \/ /\ ContextScans(ts)
            /\ ctx' = [ctx EXCEPT !.trace_id = TraceIdScan(ts[1]),
                                  !.span_id = Strtoull(ts[2]),
                                  !.flags = Strtoull(ts[3]) % 256]
            /\ pc' = pc /\ code' = code
         \/ pc' = "cleanup" /\ code' \in {Corrupted, Unknown} /\ ctx' = ctx
  BY <1>1 DEF ExtractContext, Fail
<1>3. /\ pc = "headers" /\ IsExtracted(ctx) /\ i \in DOMAIN wire /\ wire[i] \in Header /\ IsText
      /\ Undisturbed => IsContext(source) /\ Collected(ctx, after_debug, DOMAIN wire \ pending)
  BY <1>2, Passing
<1>4. after_debug' \in BOOLEAN /\ crashed' \in {"no", "null", "assert"}
  BY <1>2
<1>5. CASE pc' = "cleanup" /\ code' \in {Corrupted, Unknown} /\ ctx' = ctx
  <2>1. pc' # "headers" /\ IsExtracted(ctx')
    BY <1>3, <1>5
  <2> QED
    BY <1>2, <1>4, <1>5, <2>1, CallbackStep
<1>6. CASE /\ ContextScans(ts)
           /\ ctx' = [ctx EXCEPT !.trace_id = TraceIdScan(ts[1]),
                                 !.span_id = Strtoull(ts[2]),
                                 !.flags = Strtoull(ts[3]) % 256]
           /\ pc' = pc /\ code' = code
  <2>1. /\ ctx'.trace_id = TraceIdScan(ts[1]) /\ ctx'.span_id = Strtoull(ts[2])
        /\ ctx'.flags = Strtoull(ts[3]) % 256 /\ ctx'.debug_id = ctx.debug_id
        /\ ctx'.baggage = ctx.baggage /\ DOMAIN ctx' = DOMAIN ctx
    BY <1>3, <1>6 DEF IsExtracted, EmptyContext
  <2>2. ts \in Seq(Seq(Nat))
    BY <1>1, <1>3, HeaderParts
  <2>3. /\ TraceIdScan(ts[1]) \in [high : Id, low : Id] /\ Strtoull(ts[2]) \in Id
        /\ Strtoull(ts[3]) % 256 \in 0 .. 255
    BY <1>6, <2>2, ScannedTypes
  <2>4. IsExtracted(ctx')
    BY <1>3, <2>1, <2>3 DEF IsExtracted
  <2>5. PICK passed : passed = DOMAIN wire \ pending
    OBVIOUS
  <2>6. ASSUME Undisturbed
        PROVE  Collected(ctx', after_debug', passed \cup {i})
    <3>1. Collected(ctx, after_debug, passed) /\ IsContext(source)
      BY <1>3, <2>5, <2>6
    <3>2. wire[i] = ContextHeader(ContextFormat(source))
      BY <1>2, <1>3, <2>6 DEF Undisturbed
    <3>3. PICK fs : fs = ContextFormat(source)
      OBVIOUS
    <3>4. /\ fs \in Seq(Seq(Nat)) /\ TraceIdScan(fs[1]) = source.trace_id
          /\ Strtoull(fs[2]) = source.span_id /\ Strtoull(fs[3]) % 256 = source.flags
      BY <3>1, <3>3, ContextRead
    <3>5. ts = fs
      BY <1>1, <3>2, <3>3, <3>4, HeaderFacts
    <3>6. /\ ctx'.trace_id = source.trace_id /\ ctx'.span_id = source.span_id
          /\ ctx'.flags = source.flags
      BY <2>1, <3>4, <3>5, Zenon
    <3>7. ctx'.debug_id = \E j \in passed \cup {i} : wire[j].kind = "debug"
      BY <1>2, <2>1, <3>1 DEF Collected
    <3>8. /\ \A k \in Keys : ctx'.baggage[k] \in Sent(k) \cup {NoValue}
          /\ \A j \in passed \cup {i} : IsItem(wire[j]) =>
               ctx'.baggage[Suffix(wire[j].key)] \in Sent(Suffix(wire[j].key))
      BY <1>2, <2>1, <3>1 DEF Collected, IsItem
    <3> QED
      BY <1>2, <3>6, <3>7, <3>8 DEF Collected
  <2> QED
    BY <1>2, <1>4, <1>6, <2>4, <2>5, <2>6, CallbackStep
<1> QED
  BY <1>2, <1>5, <1>6

LEMMA ExtractItemInv ==
  ASSUME IndInv, crashed = "no", NEW i, ExtractItem(i)
  PROVE  IndInv'
<1>1. PICK s, v : s = Suffix(wire[i].key) /\ v = Decoded(wire[i].text)
  OBVIOUS
<1>2. /\ Pass(i) /\ IsItem(wire[i]) /\ wire[i].kind = "prefix" /\ after_debug' = after_debug
      /\ crashed' = crashed /\ pc' = pc /\ code' = code
      /\ ctx' = [ctx EXCEPT !.baggage[s] = v]
  BY <1>1 DEF ExtractItem, IsItem
<1>3. /\ IsExtracted(ctx) /\ i \in DOMAIN wire /\ wire[i] \in Header /\ IsText
      /\ after_debug \in BOOLEAN
      /\ Undisturbed => IsContext(source) /\ Collected(ctx, after_debug, DOMAIN wire \ pending)
  BY <1>2, Passing
<1>4. s \in Keys
  BY <1>1, <1>3, HeaderParts, SuffixType
<1>5. /\ ctx'.trace_id = ctx.trace_id /\ ctx'.span_id = ctx.span_id
      /\ ctx'.flags = ctx.flags /\ ctx'.debug_id = ctx.debug_id
      /\ ctx'.baggage = [ctx.baggage EXCEPT ![s] = v] /\ DOMAIN ctx' = DOMAIN ctx
  BY <1>2, <1>3 DEF IsExtracted, EmptyContext
<1>6. ctx.baggage = [k \in Keys |-> ctx.baggage[k]]
  BY <1>3 DEF IsExtracted
<1>7. /\ ctx'.baggage = [k \in Keys |-> ctx'.baggage[k]]
      /\ ctx'.baggage[s] = v
      /\ \A k \in Keys : k # s => ctx'.baggage[k] = ctx.baggage[k]
  BY <1>4, <1>5, <1>6
<1>8. IsExtracted(ctx')
  BY <1>3, <1>5, <1>7 DEF IsExtracted
<1>9. PICK passed : passed = DOMAIN wire \ pending
  OBVIOUS
<1>10. ASSUME Undisturbed
       PROVE  Collected(ctx', after_debug', passed \cup {i})
  <2>1. Collected(ctx, after_debug, passed) /\ IsContext(source)
    BY <1>3, <1>9, <1>10
  <2>2. PICK item \in Range(Items(source)) : wire[i] = ItemHeader(item[1], Encoded(item[2]))
    BY <1>2, <1>3, <1>10 DEF Undisturbed
  <2>3. item[1] \in Keys /\ item[2] \in Text
    BY <2>1, ItemsFacts
  <2>4. Encoded(item[2]) \in Text /\ Decoded(Encoded(item[2])) = item[2]
    BY <2>3, EncodedFacts
  <2>5. wire[i].key = item[1] /\ wire[i].text = Encoded(item[2])
    BY <2>2, <2>3, <2>4, HeaderFacts
  <2>6. s = Suffix(item[1]) /\ v = item[2]
    BY <1>1, <2>4, <2>5, Zenon
  <2>7. v \in Sent(s)
    <3>1. item \in Arriving
      BY <1>2, <2>5 DEF Arriving, IsItem
    <3> QED
      BY <2>1, <2>6, <3>1, SentFacts, Zenon
  <2>8. (\E j \in passed \cup {i} : wire[j].kind = "context") =>
          /\ ctx'.trace_id = source.trace_id /\ ctx'.span_id = source.span_id
          /\ ctx'.flags = IF after_debug' THEN Debugged(source.flags) ELSE source.flags
    BY <1>2, <1>5, <2>1 DEF Collected
  <2>9. ctx'.debug_id = \E j \in passed \cup {i} : wire[j].kind = "debug"
    BY <1>2, <1>5, <2>1 DEF Collected
  <2>10. \A k \in Keys : ctx'.baggage[k] \in Sent(k) \cup {NoValue}
    <3>1. \A k \in Keys : ctx.baggage[k] \in Sent(k) \cup {NoValue}
      BY <2>1 DEF Collected
    <3> QED
      BY <1>7, <2>7, <3>1
  <2>11. ASSUME NEW j \in passed \cup {i}, IsItem(wire[j])
         PROVE  ctx'.baggage[Suffix(wire[j].key)] \in Sent(Suffix(wire[j].key))
    <3>1. CASE Suffix(wire[j].key) = s
      BY <1>7, <2>7, <3>1
    <3>2. CASE Suffix(wire[j].key) # s
      <4>1. j \in passed
        BY <1>1, <3>2
      <4>2. ctx.baggage[Suffix(wire[j].key)] \in Sent(Suffix(wire[j].key))
        BY <2>1, <2>11, <4>1 DEF Collected
      <4>3. Suffix(wire[j].key) \in Keys
        <5>1. wire \in Seq(Header) /\ j \in DOMAIN wire
          BY <1>3, <1>9, <4>1, WireFacts DEF IndInv
        <5>2. wire[j] \in Header
          BY <5>1, SeqFacts
        <5> QED
          BY <5>2, HeaderParts, SuffixType
      <4> QED
        BY <1>7, <3>2, <4>2, <4>3
    <3> QED
      BY <3>1, <3>2
  <2> QED
    BY <2>8, <2>9, <2>10, <2>11 DEF Collected
<1>11. after_debug' \in BOOLEAN /\ crashed' \in {"no", "null", "assert"}
  BY <1>2, <1>3
<1> QED
  BY <1>2, <1>8, <1>9, <1>10, <1>11, CallbackStep

LEMMA ExtractBaggageInv ==
  ASSUME IndInv, crashed = "no", NEW i, ExtractBaggage(i)
  PROVE  IndInv'
<1>1. PICK items, bad, first :
        /\ items = wire[i].items
        /\ bad = {j \in DOMAIN items : items[j][2] = NoValue}
        /\ first = IF bad = {} THEN Len(items) ELSE Min(bad) - 1
  OBVIOUS
<1>2. /\ Pass(i) /\ wire[i].kind = "baggage" /\ after_debug' = after_debug
      /\ crashed' = crashed
      /\ ctx' = [ctx EXCEPT !.baggage = PutAll(@, SubSeq(items, 1, first))]
      /\ \/ pc' = pc /\ code' = code
         \/ pc' = "cleanup" /\ code' = Corrupted
  <2>1. IF bad = {} THEN pc' = pc /\ code' = code ELSE pc' = "cleanup" /\ code' = Corrupted
    BY <1>1, Zenon DEF ExtractBaggage, Fail
  <2>2. ctx' = [ctx EXCEPT !.baggage = PutAll(@, SubSeq(items, 1, first))]
    BY <1>1, Zenon DEF ExtractBaggage
  <2> QED
    BY <2>1, <2>2 DEF ExtractBaggage
<1>3. /\ IsExtracted(ctx) /\ i \in DOMAIN wire /\ wire[i] \in Header /\ IsText
      /\ after_debug \in BOOLEAN
  BY <1>2, Passing
<1>4. ~Undisturbed
  BY <1>2, <1>3 DEF Undisturbed
<1> DEFINE P == Keys \X ({NoValue} \cup Text)
<1>5. items \in Seq(P)
  BY <1>1, <1>3, HeaderParts
<1> HIDE DEF P
<1>6. first \in 0 .. Len(items)
  <2>1. PICK n \in Nat : n = Len(items) /\ DOMAIN items = 1 .. n
    BY <1>5, SeqFacts
  <2>2. CASE bad = {}
    BY <1>1, <2>1, <2>2
  <2>3. CASE bad # {}
    <3>1. bad \in SUBSET Nat /\ \A j \in bad : j \in 1 .. n
      BY <1>1, <2>1
    <3>2. \E x \in bad : \A y \in bad : x <= y
      BY <2>3, <3>1, LeastNumber
    <3>3. Min(bad) \in bad
      BY <3>2, Zenon DEF Min
    <3> QED
      BY <1>1, <2>1, <2>3, <3>1, <3>3
  <2> QED
    BY <2>2, <2>3
<1>7. PICK parts \in Seq(P) : parts = SubSeq(items, 1, first)
  BY <1>5, <1>6, FrontFacts
<1>8. ctx.baggage = [k \in Keys |-> ctx.baggage[k]]
  BY <1>3 DEF IsExtracted
<1>9. PICK b : b = PutAll(ctx.baggage, parts)
  OBVIOUS
<1>10. b = [k \in Keys |-> b[k]]
  <2>1. Len(parts) \in Nat
    BY SeqFacts
  <2> QED
    BY <1>8, <1>9, <2>1, PutAllDomain
<1>11. /\ ctx'.trace_id = ctx.trace_id /\ ctx'.span_id = ctx.span_id
       /\ ctx'.flags = ctx.flags /\ ctx'.debug_id = ctx.debug_id
       /\ ctx'.baggage = b /\ DOMAIN ctx' = DOMAIN ctx
  BY <1>2, <1>3, <1>7, <1>9 DEF IsExtracted, EmptyContext
<1>12. IsExtracted(ctx')
  BY <1>3, <1>10, <1>11 DEF IsExtracted
<1>13. /\ after_debug' \in BOOLEAN /\ crashed' \in {"no", "null", "assert"}
       /\ \/ pc' = pc /\ code' = code
          \/ pc' = "cleanup" /\ code' \in {Corrupted, Unknown}
  BY <1>2, <1>3
<1> QED
  BY <1>2, <1>4, <1>12, <1>13, CallbackStep

\* Everything that was sent has been collected when no header is left.
LEMMA AllCollected ==
  ASSUME IndInv, pc = "headers", crashed = "no", pending = {}, Undisturbed
  PROVE  /\ IsContext(source) /\ IsText
         /\ ctx.trace_id = source.trace_id
         /\ ctx.span_id = source.span_id
         /\ ctx.flags = IF after_debug THEN Debugged(source.flags) ELSE source.flags
         /\ ctx.debug_id = HasDebug
         /\ \A k \in Keys : IF Sent(k) = {} THEN ctx.baggage[k] = NoValue
                            ELSE ctx.baggage[k] \in Sent(k)
         /\ IsEmpty(source) <=> /\ ctx.trace_id = EmptyContext.trace_id
                                /\ ctx.baggage = NoBaggage
<1>1. TypeOK /\ Phases /\ HeadersInv /\ LastsWritten
  BY DEF IndInv
<1>2. IsText /\ IsExtracted(ctx)
  BY <1>1 DEF Phases
<1>3. source # NoContext /\ injected = Success /\ IsContext(source)
  BY <1>1 DEF Undisturbed, TypeOK
<1>4. Collected(ctx, after_debug, DOMAIN wire)
  <2>1. DOMAIN wire \ pending = DOMAIN wire
    OBVIOUS
  <2> QED
    BY <1>1, <2>1, HeadersCollected, Zenon
<1>5. 1 \in DOMAIN wire /\ wire[1].kind = "context"
  <2>1. wire # <<>> /\ wire[1] = ContextHeader(ContextFormat(source))
    BY <1>1, <1>2, <1>3 DEF LastsWritten, ContextWritten
  <2>2. wire \in Seq(Header)
    BY <1>1, <1>2, WireFacts
  <2>3. 1 \in DOMAIN wire
    BY <2>1, <2>2
  <2>4. ContextFormat(source) \in Seq(Seq(Nat))
    BY <1>3, ContextRead
  <2> QED
    BY <2>1, <2>3, <2>4, HeaderFacts
<1>6. /\ ctx.trace_id = source.trace_id /\ ctx.span_id = source.span_id
      /\ ctx.flags = IF after_debug THEN Debugged(source.flags) ELSE source.flags
  BY <1>4, <1>5 DEF Collected
<1>7. ctx.debug_id = HasDebug
  BY <1>2, <1>4 DEF Collected, HasDebug
<1>8. ASSUME NEW item \in Arriving
      PROVE  ctx.baggage[Suffix(item[1])] \in Sent(Suffix(item[1]))
  <2> item \in Range(Items(source)) /\ item[1] # EmptyKey
    BY <1>2 DEF Arriving
  <2>1. PICK j \in DOMAIN wire : wire[j] = ItemHeader(item[1], Encoded(item[2]))
    BY <1>2 DEF Undisturbed, OnWire
  <2>2. item[1] \in Keys /\ item[2] \in Text
    BY <1>3, ItemsFacts
  <2>3. Encoded(item[2]) \in Text
    BY <2>2, EncodedFacts
  <2>4. IsItem(wire[j]) /\ wire[j].key = item[1]
    BY <2>1, <2>2, <2>3, HeaderFacts DEF IsItem
  <2> QED
    BY <1>4, <2>4, Zenon DEF Collected
<1>9. ASSUME NEW k \in Keys
      PROVE  IF Sent(k) = {} THEN ctx.baggage[k] = NoValue ELSE ctx.baggage[k] \in Sent(k)
  <2>1. CASE Sent(k) = {}
    BY <1>4, <2>1 DEF Collected
  <2>2. CASE Sent(k) # {}
    <3>1. PICK item \in Arriving : Suffix(item[1]) = k
      BY <1>3, <2>2, SentFacts
    <3> QED
      BY <1>8, <2>2, <3>1, Zenon
  <2> QED
    BY <2>1, <2>2
<1>10. (Arriving = {}) <=> ctx.baggage = NoBaggage
  <2>1. ASSUME Arriving = {}
        PROVE  ctx.baggage = NoBaggage
    <3>2. \A k : Sent(k) = {}
      BY <1>3, <2>1, SentFacts, Zenon
    <3>3. ctx.baggage = [k \in Keys |-> ctx.baggage[k]]
      BY <1>2 DEF IsExtracted
    <3>4. \A k \in Keys : ctx.baggage[k] = NoValue
      BY <1>9, <3>2
    <3> QED
      BY <3>3, <3>4 DEF NoBaggage
  <2>2. ASSUME NEW item \in Arriving
        PROVE  ctx.baggage # NoBaggage
    <3>1. ctx.baggage[Suffix(item[1])] # NoValue
      BY <1>3, <1>8, SentFacts
    <3>2. Suffix(item[1]) \in Keys
      BY <1>3, ItemsFacts, SuffixType DEF Arriving
    <3> QED
      BY <3>1, <3>2 DEF NoBaggage
  <2> QED
    BY <2>1, <2>2
<1>11. IsEmpty(source) <=> ctx.trace_id = EmptyContext.trace_id /\ ctx.baggage = NoBaggage
  BY <1>2, <1>6, <1>10 DEF IsEmpty, Arriving
<1> QED
  BY <1>2, <1>3, <1>6, <1>7, <1>9, <1>11

LEMMA HeadersDoneInv ==
  ASSUME IndInv, crashed = "no", HeadersDone
  PROVE  IndInv'
<1>1. /\ pc = "headers" /\ pending = {} /\ UNCHANGED <<given, wire, sending>>
      /\ pc' = IF /\ ctx.trace_id = EmptyContext.trace_id
                  /\ ~ctx.debug_id
                  /\ ctx.baggage = NoBaggage
               THEN "cleanup" ELSE "done"
      /\ format' = format /\ source' = source /\ injected' = injected /\ wire' = wire
      /\ code' = code /\ pending' = pending /\ pos' = pos /\ ctx' = ctx
      /\ buffers' = buffers /\ after_debug' = after_debug
      /\ decoding_errors' = decoding_errors /\ crashed' = crashed
  BY DEF HeadersDone, given, sending, receiving
<1>2. TypeOK /\ Phases
  BY DEF IndInv
<1>3. /\ code = Success /\ IsText /\ IsExtracted(ctx) /\ decoding_errors = 0
      /\ pos = 0 /\ buffers = NullBuffers
  BY <1>1, <1>2 DEF Phases, NullBuffers
<1>4. pc' \in {"headers", "read", "cleanup", "done"} /\ pc' # "headers" /\ pc' # "read"
  BY <1>1
<1>5. TypeOK' /\ Phases' /\ LoopInv' /\ LastsWritten'
  <2>1. /\ code' \in Codes /\ pending' \subseteq 1 .. Len(wire) /\ pos' \in 0 .. Len(wire)
        /\ ctx' # NoContext => IsExtracted(ctx')
        /\ buffers' \in [key : {"null", "live", "freed"}, value : {"null", "live", "freed"}]
        /\ after_debug' \in BOOLEAN /\ decoding_errors' \in {0, 1}
        /\ crashed' \in {"no", "null", "assert", "overflow", "double_free"}
    BY <1>1, <1>2, Zenon DEF TypeOK
  <2>2. pos' = 0 /\ buffers' = NullBuffers /\ decoding_errors' = 0
    BY <1>1, <1>3
  <2> QED
    BY <1>1, <1>4, <2>1, <2>2, ReceivingTypes
<1>6. HeadersInv' /\ FieldsInv'
  BY <1>4 DEF HeadersInv, FieldsInv
<1>7. BufferInv' /\ ErrorLeavesNothing'
  BY <1>1, <1>3 DEF BufferInv, ErrorLeavesNothing, NullBuffers, Success, Corrupted
<1>8. /\ Undisturbed' = Undisturbed /\ HasDebug' = HasDebug /\ IsText' = IsText
      /\ \A k : Sent(k)' = Sent(k)
  BY <1>1, SentKept
<1>9. CleanupInv'
  <2>1. SUFFICES ASSUME pc' = "cleanup", Undisturbed
                 PROVE  IsText /\ IsEmpty(source) /\ ~HasDebug
    BY <1>1, <1>8 DEF CleanupInv
  <2>2. /\ ctx.trace_id = EmptyContext.trace_id /\ ~ctx.debug_id /\ ctx.baggage = NoBaggage
    BY <1>1, <2>1
  <2> QED
    BY <1>1, <2>1, <2>2, AllCollected
<1>10. RoundTrip'
  <2>1. SUFFICES ASSUME pc' = "done", Undisturbed
                 PROVE  RoundTrip'
    BY <1>8 DEF RoundTrip
  <2>2. /\ ctx.trace_id = source.trace_id /\ ctx.span_id = source.span_id
        /\ ctx.flags = IF after_debug THEN Debugged(source.flags) ELSE source.flags
        /\ ctx.debug_id = HasDebug
        /\ \A k \in Keys : IF Sent(k) = {} THEN ctx.baggage[k] = NoValue
                           ELSE ctx.baggage[k] \in Sent(k)
        /\ IsEmpty(source) <=> /\ ctx.trace_id = EmptyContext.trace_id
                               /\ ctx.baggage = NoBaggage
    BY <1>1, <2>1, AllCollected
  <2>3. ~(IsEmpty(source) /\ ~HasDebug)
    BY <1>1, <2>1, <2>2
  <2> QED
    BY <1>1, <1>8, <2>2, <2>3 DEF RoundTrip
<1> QED
  BY <1>5, <1>6, <1>7, <1>9, <1>10 DEF IndInv

LEMMA CleanupCrashInv ==
  ASSUME IndInv, CleanupCrash
  PROVE  IndInv'
<1>1. /\ pc = "cleanup" /\ pc' = pc /\ "freed" \in {buffers.key, buffers.value}
      /\ UNCHANGED <<given, wire, sending>>
      /\ format' = format /\ source' = source /\ injected' = injected /\ wire' = wire
      /\ code' = code /\ pending' = pending /\ pos' = pos /\ ctx' = ctx
      /\ buffers' = buffers /\ after_debug' = after_debug
      /\ decoding_errors' = decoding_errors /\ crashed' = "double_free"
  BY DEF CleanupCrash, given, sending, receiving
<1>2. TypeOK /\ Phases /\ BufferInv /\ CleanupInv
  BY DEF IndInv
<1>3. /\ decoding_errors = 0 /\ pos >= 9
      /\ IsText => pos = 0 /\ buffers = NullBuffers
  BY <1>1, <1>2 DEF Phases, BufferInv, NullBuffers
<1>4. TypeOK' /\ Phases' /\ LoopInv' /\ LastsWritten'
  <2>1. /\ code' \in Codes /\ pending' \subseteq 1 .. Len(wire) /\ pos' \in 0 .. Len(wire)
        /\ ctx' # NoContext => IsExtracted(ctx')
        /\ buffers' \in [key : {"null", "live", "freed"}, value : {"null", "live", "freed"}]
        /\ after_debug' \in BOOLEAN /\ decoding_errors' \in {0, 1}
    BY <1>1, <1>2, Zenon DEF TypeOK
  <2>2. /\ pc' \in {"headers", "read", "cleanup", "done"} /\ pc' # "headers" /\ pc' # "read"
        /\ crashed' \in {"no", "null", "assert", "overflow", "double_free"} /\ decoding_errors' = 0
        /\ IsText => pos' = 0 /\ buffers' = NullBuffers
    BY <1>1, <1>3
  <2> QED
    BY <1>1, <2>1, <2>2, ReceivingTypes
<1>5. HeadersInv' /\ FieldsInv' /\ RoundTrip'
  BY <1>1 DEF HeadersInv, FieldsInv, RoundTrip
<1>6. BufferInv' /\ ErrorLeavesNothing'
  BY <1>1, <1>3 DEF BufferInv, ErrorLeavesNothing
<1>7. CleanupInv'
  <2>1. Undisturbed' = Undisturbed /\ HasDebug' = HasDebug /\ IsText' = IsText
    BY <1>1, SentKept
  <2> QED
    BY <1>1, <1>2, <2>1 DEF CleanupInv
<1> QED
  BY <1>4, <1>5, <1>6, <1>7 DEF IndInv

LEMMA ReadOverflowInv ==
  ASSUME IndInv, ReadOverflow
  PROVE  IndInv'
<1>1. /\ pc = "read" /\ pc' = pc /\ UNCHANGED <<given, wire, sending>>
      /\ format' = format /\ source' = source /\ injected' = injected /\ wire' = wire
      /\ code' = code /\ pending' = pending /\ pos' = pos /\ ctx' = ctx
      /\ buffers' = buffers /\ after_debug' = after_debug
      /\ decoding_errors' = decoding_errors /\ crashed' = "overflow"
  BY DEF ReadOverflow, given, sending, receiving
<1>2. TypeOK /\ Phases /\ BufferInv /\ FieldsInv
  BY DEF IndInv
<1>3. /\ decoding_errors = 0 /\ code = Success /\ ~IsText /\ IsExtracted(ctx)
  BY <1>1, <1>2 DEF Phases
<1>4. TypeOK' /\ Phases' /\ LoopInv' /\ LastsWritten'
  <2>1. /\ code' \in Codes /\ pending' \subseteq 1 .. Len(wire) /\ pos' \in 0 .. Len(wire)
        /\ ctx' # NoContext => IsExtracted(ctx')
        /\ buffers' \in [key : {"null", "live", "freed"}, value : {"null", "live", "freed"}]
        /\ after_debug' \in BOOLEAN /\ decoding_errors' \in {0, 1}
    BY <1>1, <1>2, Zenon DEF TypeOK
  <2>2. /\ pc' = "read" /\ crashed' \in {"no", "null", "assert", "overflow", "double_free"}
        /\ decoding_errors' = 0 /\ code' = Success /\ IsExtracted(ctx') /\ ~IsText
    BY <1>1, <1>3
  <2> QED
    BY <1>1, <2>1, <2>2, ReceivingTypes
<1>5. HeadersInv' /\ CleanupInv' /\ RoundTrip' /\ ErrorLeavesNothing'
  BY <1>1 DEF HeadersInv, CleanupInv, RoundTrip, ErrorLeavesNothing
<1>6. BufferInv'
  BY <1>1, <1>2 DEF BufferInv
<1>7. FieldsInv'
  <2>1. Undisturbed' = Undisturbed /\ \A k : Sent(k)' = Sent(k)
    BY <1>1, SentKept
  <2> QED
    BY <1>1, <1>2, <2>1 DEF FieldsInv
<1> QED
  BY <1>4, <1>5, <1>6, <1>7 DEF IndInv

LEMMA CleanupHolds ==
  ASSUME IndInv, Cleanup
  PROVE  IndInv'
<1>1. /\ pc = "cleanup" /\ pc' = "done"
      /\ UNCHANGED <<given, wire, sending>>
      /\ format' = format /\ source' = source /\ injected' = injected /\ wire' = wire
      /\ code' = code /\ pending' = pending /\ pos' = pos /\ ctx' = NoContext
      /\ buffers' = NullBuffers /\ after_debug' = after_debug
      /\ decoding_errors' = decoding_errors + (IF code = Corrupted THEN 1 ELSE 0)
      /\ crashed' = crashed
  BY DEF Cleanup, given, sending, NullBuffers
<1>2. TypeOK /\ Phases /\ BufferInv /\ CleanupInv /\ ErrorLeavesNothing
  BY DEF IndInv
<1>3. decoding_errors = 0 /\ (IsText => pos = 0)
  BY <1>1, <1>2 DEF Phases
<1>4. decoding_errors' = IF code = Corrupted THEN 1 ELSE 0
  BY <1>1, <1>3
<1>5. TypeOK' /\ Phases' /\ LoopInv' /\ LastsWritten'
  <2>1. /\ code' \in Codes /\ pending' \subseteq 1 .. Len(wire) /\ pos' \in 0 .. Len(wire)
        /\ after_debug' \in BOOLEAN /\ crashed' \in {"no", "null", "assert", "overflow", "double_free"}
    BY <1>1, <1>2, Zenon DEF TypeOK
  <2>2. /\ pc' \in {"headers", "read", "cleanup", "done"} /\ pc' # "headers" /\ pc' # "read"
        /\ decoding_errors' \in {0, 1} /\ ctx' = NoContext
        /\ buffers' \in [key : {"null", "live", "freed"}, value : {"null", "live", "freed"}]
        /\ IsText => pos' = 0 /\ buffers' = NullBuffers
    BY <1>1, <1>3, <1>4 DEF NullBuffers
  <2> QED
    BY <1>1, <2>1, <2>2, ReceivingTypes
<1>6. HeadersInv' /\ FieldsInv' /\ CleanupInv'
  BY <1>1 DEF HeadersInv, FieldsInv, CleanupInv
<1>7. BufferInv' /\ ErrorLeavesNothing'
  BY <1>1, <1>2, <1>4 DEF BufferInv, ErrorLeavesNothing, NullBuffers
<1>8. RoundTrip'
  <2>1. Undisturbed' = Undisturbed /\ HasDebug' = HasDebug /\ IsText' = IsText
    BY <1>1, SentKept
  <2>2. SUFFICES ASSUME Undisturbed, code = Success
                 PROVE  RoundTrip'
    BY <1>1, <2>1 DEF RoundTrip
  <2>3. IsText /\ IsEmpty(source) /\ ~HasDebug
    BY <1>1, <1>2, <2>2 DEF CleanupInv
  <2> QED
    BY <1>1, <2>1, <2>3 DEF RoundTrip
<1> QED
  BY <1>5, <1>6, <1>7, <1>8 DEF IndInv

\* A read that fails.
LEMMA ReadFails ==
  ASSUME IndInv, ReadShort \/ ReadNoMemory
  PROVE  IndInv'
<1>1. /\ pc = "read" /\ pc' = "cleanup" /\ code' \in {Corrupted, Unknown}
      /\ UNCHANGED <<given, wire, sending>>
      /\ pending' = pending /\ pos' = pos /\ ctx' = ctx /\ after_debug' = after_debug
      /\ decoding_errors' = decoding_errors /\ crashed' = crashed
      /\ \/ buffers' = buffers
         \/ buffers' = [buffers EXCEPT !.key = "null"]
         \/ buffers' = [buffers EXCEPT !.value = "null"]
  <2>1. CASE ReadShort
    BY <2>1 DEF ReadShort, Fail, receiving
  <2>2. CASE ReadNoMemory
    BY <2>2 DEF ReadNoMemory, Fail
  <2> QED
    BY <2>1, <2>2
<1>2. TypeOK /\ Phases /\ BufferInv /\ ErrorLeavesNothing
  BY DEF IndInv
<1>3. decoding_errors = 0 /\ ~IsText
  BY <1>1, <1>2 DEF Phases
<1>4. /\ buffers \in [key : {"null", "live", "freed"}, value : {"null", "live", "freed"}]
      /\ pos \in 0 .. Len(wire)
  BY <1>2 DEF TypeOK
<1>5. /\ buffers' \in [key : {"null", "live", "freed"}, value : {"null", "live", "freed"}]
      /\ "freed" \in {buffers'.key, buffers'.value} => "freed" \in {buffers.key, buffers.value}
  BY <1>1, <1>4
<1>6. TypeOK' /\ Phases' /\ LoopInv' /\ LastsWritten'
  <2>1. /\ pending' \subseteq 1 .. Len(wire) /\ pos' \in 0 .. Len(wire)
        /\ ctx' # NoContext => IsExtracted(ctx')
        /\ after_debug' \in BOOLEAN /\ decoding_errors' \in {0, 1}
        /\ crashed' \in {"no", "null", "assert", "overflow", "double_free"}
    BY <1>1, <1>2, Zenon DEF TypeOK
  <2>2. /\ pc' \in {"headers", "read", "cleanup", "done"} /\ pc' # "headers" /\ pc' # "read"
        /\ pc' \notin {"headers", "read"} /\ code' \in Codes /\ decoding_errors' = 0
    BY <1>1, <1>3 DEF Codes
  <2> QED
    BY <1>1, <1>3, <1>5, <2>1, <2>2, ReceivingTypes
<1>7. HeadersInv' /\ FieldsInv' /\ RoundTrip' /\ CleanupInv'
  BY <1>1 DEF HeadersInv, FieldsInv, RoundTrip, CleanupInv, Success, Corrupted, Unknown
<1>8. BufferInv'
  BY <1>1, <1>2, <1>5 DEF BufferInv
<1>9. ErrorLeavesNothing'
  BY <1>1, <1>2 DEF ErrorLeavesNothing
<1> QED
  BY <1>6, <1>7, <1>8, <1>9 DEF IndInv

\* In a binary carrier keys are as they are, and every item was sent.
LEMMA ItemsSent ==
  ASSUME IsContext(source), ~IsText
  PROVE  /\ \A i \in 1 .. Len(Items(source)) :
              Items(source)[i][2] \in Sent(Items(source)[i][1])
         /\ \A k : NoValue \notin Sent(k)
         /\ \A k : Sent(k) # {} =>
              \E i \in 1 .. Len(Items(source)) : Items(source)[i][1] = k
<1>1. format # "http_headers"
  BY DEF IsText, TextFormats
<1>2. \A k : Suffix(k) = k
  BY <1>1 DEF Suffix
<1>3. PICK s : s = Items(source)
  OBVIOUS
<1>4. DOMAIN s = 1 .. Len(s)
  BY <1>3, ItemsFacts
<1>5. \A i \in 1 .. Len(s) : s[i] \in Range(s)
  BY <1>4 DEF Range
<1>6. \A item \in Range(s) : \E i \in 1 .. Len(s) : s[i] = item
  BY <1>4 DEF Range
<1>7. /\ \A item \in Range(s) : item[2] \in Sent(Suffix(item[1]))
      /\ \A k : NoValue \notin Sent(k)
      /\ \A k : Sent(k) # {} => \E item \in Range(s) : Suffix(item[1]) = k
  <2>1. Arriving = Range(s)
    BY <1>3 DEF Arriving
  <2> QED
    BY <2>1, SentFacts
<1>8. \A i \in 1 .. Len(s) : s[i][2] \in Sent(s[i][1])
  BY <1>2, <1>5, <1>7, Zenon
<1>9. ASSUME NEW k, Sent(k) # {}
      PROVE  \E i \in 1 .. Len(s) : s[i][1] = k
  <2>1. PICK item \in Range(s) : Suffix(item[1]) = k
    BY <1>7, <1>9, Zenon
  <2>2. PICK i \in 1 .. Len(s) : s[i] = item
    BY <1>6, Zenon
  <2> QED
    BY <1>2, <2>1, <2>2, Zenon
<1> QED
  BY <1>3, <1>7, <1>8, <1>9, Zenon

LEMMA ReadDoneInv ==
  ASSUME IndInv, crashed = "no", ReadDone
  PROVE  IndInv'
<1>1. /\ pc = "read" /\ ReadsDone /\ pc' = "done" /\ UNCHANGED <<given, wire, sending>>
      /\ format' = format /\ source' = source /\ injected' = injected /\ wire' = wire
      /\ code' = code /\ pending' = pending /\ pos' = pos /\ ctx' = ctx
      /\ buffers' = buffers /\ after_debug' = after_debug
      /\ decoding_errors' = decoding_errors /\ crashed' = crashed
  BY DEF ReadDone, given, sending, receiving
<1>2. TypeOK /\ Phases /\ BufferInv /\ FieldsInv
  BY DEF IndInv
<1>3. /\ code = Success /\ ~IsText /\ IsExtracted(ctx) /\ decoding_errors = 0
  BY <1>1, <1>2 DEF Phases
<1>4. /\ IsBinary(wire) /\ Len(wire) \in Nat /\ pos \in 0 .. Len(wire)
  BY <1>2, <1>3, WireFacts DEF TypeOK
<1>5. PICK n \in Nat : (wire[5] <= IntMax => n = wire[5]) /\ pos = 5 + 4 * n
  <2>1. pos >= 5 /\ pos = 5 + 4 * ItemsWanted
    BY <1>1 DEF ReadsDone
  <2>2. 5 \in 1 .. Len(wire)
    BY <1>4, <2>1
  <2>3. wire[5] \in Nat
    BY <1>4, <2>2, IntAssumption DEF IsBinary, FieldFits
  <2>4. ItemsWanted \in Nat /\ (wire[5] <= IntMax => ItemsWanted = wire[5])
    BY <1>4, <2>1, <2>3, IntAssumption DEF ItemsWanted
  <2> QED
    BY <2>1, <2>4
<1>6. "live" \notin {buffers.key, buffers.value}
  <2>1. pos <= 5 \/ FieldName(pos) = "value"
    <3>1. CASE n = 0
      BY <1>5, <3>1
    <3>2. CASE n # 0
      <4>1. pos \in Nat \ {0} /\ n \in Nat \ {0}
        BY <1>5, <3>2
      <4> QED
        BY <1>5, <4>1, FieldNames
    <3> QED
      BY <3>1, <3>2
  <2> QED
    BY <1>1, <1>2, <2>1 DEF BufferInv
<1>7. TypeOK' /\ Phases' /\ LoopInv' /\ LastsWritten'
  <2>1. /\ code' \in Codes /\ pending' \subseteq 1 .. Len(wire) /\ pos' \in 0 .. Len(wire)
        /\ ctx' # NoContext => IsExtracted(ctx')
        /\ buffers' \in [key : {"null", "live", "freed"}, value : {"null", "live", "freed"}]
        /\ after_debug' \in BOOLEAN /\ decoding_errors' \in {0, 1}
        /\ crashed' \in {"no", "null", "assert", "overflow", "double_free"}
    BY <1>1, <1>2, Zenon DEF TypeOK
  <2>2. /\ pc' \in {"headers", "read", "cleanup", "done"} /\ pc' # "headers" /\ pc' # "read"
        /\ pc' \notin {"headers", "read"} /\ decoding_errors' = 0
    BY <1>1, <1>3
  <2> QED
    BY <1>1, <1>3, <2>1, <2>2, ReceivingTypes
<1>8. HeadersInv' /\ FieldsInv' /\ CleanupInv'
  BY <1>1 DEF HeadersInv, FieldsInv, CleanupInv
<1>9. BufferInv'
  BY <1>1, <1>2 DEF BufferInv
<1>10. ErrorLeavesNothing'
  BY <1>1, <1>3, <1>6 DEF ErrorLeavesNothing, Success, Corrupted
<1>11. RoundTrip'
  <2>1. /\ Undisturbed' = Undisturbed /\ HasDebug' = HasDebug /\ IsText' = IsText
        /\ \A k : Sent(k)' = Sent(k)
    BY <1>1, SentKept
  <2>2. SUFFICES ASSUME Undisturbed
                 PROVE  RoundTrip'
    BY <2>1 DEF RoundTrip
  <2>3. IsContext(source) /\ wire = BinaryFields(source)
    BY <1>2, <1>3, <2>2 DEF Undisturbed, TypeOK
  <2>4. n = Len(Items(source)) /\ DOMAIN Items(source) = 1 .. n
    <3>1. BinaryFields(source)[5] = Len(Items(source))
      BY <2>3, FieldsWritten
    <3>2. /\ DOMAIN Items(source) = 1 .. Len(Items(source))
          /\ Len(Items(source)) \in 0 .. IntMax
      BY <2>3, ItemsFacts
    <3>3. wire[5] <= IntMax
      BY <2>3, <3>1, <3>2, IntAssumption
    <3> QED
      BY <1>5, <2>3, <3>1, <3>2, <3>3
  <2>5. /\ ctx.trace_id.high = source.trace_id.high /\ ctx.trace_id.low = source.trace_id.low
        /\ ctx.span_id = source.span_id /\ ctx.flags = source.flags
        /\ ~ctx.debug_id /\ ~after_debug
        /\ \A k \in Keys : ctx.baggage[k] \in Sent(k) \cup {NoValue}
    BY <1>1, <1>2, <1>5, <2>2 DEF FieldsInv
  <2>6. \A i \in 1 .. n : ctx.baggage[Items(source)[i][1]] \in Sent(Items(source)[i][1])
    <3>1. \A i \in 1 .. n : pos >= 5 + 4 * i
      BY <1>5
    <3> QED
      BY <1>1, <1>2, <2>2, <2>4, <3>1 DEF FieldsInv
  <2>7. ctx.trace_id = source.trace_id
    BY <1>3, <2>3, <2>5 DEF IsExtracted, IsContext
  <2>8. ASSUME NEW k \in Keys
        PROVE  IF Sent(k) = {} THEN ctx.baggage[k] = NoValue ELSE ctx.baggage[k] \in Sent(k)
    <3>1. CASE Sent(k) = {}
      BY <2>5, <3>1
    <3>2. CASE Sent(k) # {}
      <4>1. PICK i \in 1 .. n : Items(source)[i][1] = k
        BY <1>3, <2>3, <2>4, <3>2, ItemsSent
      <4> QED
        BY <2>6, <3>2, <4>1
    <3> QED
      BY <3>1, <3>2
  <2>9. ctx.debug_id = HasDebug
    <3>1. ctx.debug_id \in BOOLEAN /\ ~HasDebug
      BY <1>3 DEF IsExtracted, HasDebug
    <3>2. HasDebug \in BOOLEAN
      BY DEF HasDebug
    <3> QED
      BY <2>5, <3>1, <3>2
  <2> QED
    BY <1>1, <1>3, <2>1, <2>5, <2>7, <2>8, <2>9 DEF RoundTrip
<1> QED
  BY <1>7, <1>8, <1>9, <1>10, <1>11 DEF IndInv

\* What a read changes in the context: the field it is about, or one key.
ReadInto(c, p, f, key) ==
  /\ DOMAIN c = DOMAIN ctx
  /\ c.trace_id.high = (IF p = 1 THEN f ELSE ctx.trace_id.high)
  /\ c.trace_id.low = (IF p = 2 THEN f ELSE ctx.trace_id.low)
  /\ c.trace_id = [high |-> c.trace_id.high, low |-> c.trace_id.low]
  /\ c.span_id = (IF p = 3 THEN f ELSE ctx.span_id)
  /\ c.flags = (IF p = 4 THEN f ELSE ctx.flags)
  /\ c.debug_id = ctx.debug_id
  /\ c.baggage = IF FieldName(p) = "value" THEN [ctx.baggage EXCEPT ![key] = f]
                 ELSE ctx.baggage

LEMMA ReadFieldContext ==
  ASSUME IsExtracted(ctx), NEW p \in Nat \ {0}, NEW f, NEW key,
         NEW c, c = CASE FieldName(p) = "high" -> [ctx EXCEPT !.trace_id.high = f]
                      [] FieldName(p) = "low" -> [ctx EXCEPT !.trace_id.low = f]
                      [] FieldName(p) = "span_id" -> [ctx EXCEPT !.span_id = f]
                      [] FieldName(p) = "flags" -> [ctx EXCEPT !.flags = f]
                      [] FieldName(p) = "value" -> [ctx EXCEPT !.baggage[key] = f]
                      [] OTHER -> ctx
  PROVE  ReadInto(c, p, f, key)
<1>1. /\ DOMAIN ctx = {"trace_id", "span_id", "flags", "debug_id", "baggage"}
      /\ DOMAIN ctx.trace_id = {"high", "low"}
      /\ ctx.trace_id = [high |-> ctx.trace_id.high, low |-> ctx.trace_id.low]
  BY DEF IsExtracted, EmptyContext
<1>2. PICK name : name = FieldName(p)
  OBVIOUS
<1>3. /\ name = "high" <=> p = 1
      /\ name = "low" <=> p = 2
      /\ name = "span_id" <=> p = 3
      /\ name = "flags" <=> p = 4
  BY <1>2, FieldNames
<1>4. c = CASE name = "high" -> [ctx EXCEPT !.trace_id.high = f]
            [] name = "low" -> [ctx EXCEPT !.trace_id.low = f]
            [] name = "span_id" -> [ctx EXCEPT !.span_id = f]
            [] name = "flags" -> [ctx EXCEPT !.flags = f]
            [] name = "value" -> [ctx EXCEPT !.baggage[key] = f]
            [] OTHER -> ctx
  BY <1>2, Zenon
<1>5. CASE name = "high"
  BY <1>1, <1>2, <1>3, <1>4, <1>5 DEF ReadInto
<1>6. CASE name = "low"
  BY <1>1, <1>2, <1>3, <1>4, <1>6 DEF ReadInto
<1>7. CASE name = "span_id"
  BY <1>1, <1>2, <1>3, <1>4, <1>7 DEF ReadInto
<1>8. CASE name = "flags"
  BY <1>1, <1>2, <1>3, <1>4, <1>8 DEF ReadInto
<1>9. CASE name = "value"
  BY <1>1, <1>2, <1>3, <1>4, <1>9 DEF ReadInto
<1>10. CASE name \notin {"high", "low", "span_id", "flags", "value"}
  BY <1>1, <1>2, <1>3, <1>4, <1>10 DEF ReadInto
<1> QED
  BY <1>5, <1>6, <1>7, <1>8, <1>9, <1>10

\* Which buffers are in use after a read.
LEMMA ReadFieldBuffers ==
  ASSUME TypeOK, BufferInv, pc = "read", NEW p, p = pos + 1,
         NEW b, b = CASE FieldName(p) = "key_len" -> [buffers EXCEPT !.key = "live"]
                      [] FieldName(p) = "value_len" -> [buffers EXCEPT !.value = "live"]
                      [] FieldName(p) = "value" -> [key |-> "freed", value |-> "freed"]
                      [] OTHER -> buffers
  PROVE  /\ b \in [key : {"null", "live", "freed"}, value : {"null", "live", "freed"}]
         /\ (p <= 5 \/ FieldName(p) = "value") => "live" \notin {b.key, b.value}
         /\ "freed" \in {b.key, b.value} => p >= 9
<1>1. /\ buffers \in [key : {"null", "live", "freed"}, value : {"null", "live", "freed"}]
      /\ pos \in Nat
  BY WireFacts DEF TypeOK
<1>2. /\ pos <= 5 => "live" \notin {buffers.key, buffers.value}
      /\ "freed" \in {buffers.key, buffers.value} => pos >= 9
  BY DEF BufferInv
<1>3. p \in Nat \ {0}
  BY <1>1
<1>4. PICK name : name = FieldName(p)
  OBVIOUS
<1>5. /\ name \in {"key_len", "value_len"} => p > 5
      /\ name = "value" => p >= 9
  <2>1. /\ name = "key_len" <=> \E i \in Nat \ {0} : p = 2 + 4 * i
        /\ name = "value_len" <=> \E i \in Nat \ {0} : p = 4 + 4 * i
        /\ name = "value" <=> \E i \in Nat \ {0} : p = 5 + 4 * i
    BY <1>3, <1>4, FieldNames
  <2>2. name = "key_len" => p > 5
    BY <2>1
  <2>3. name = "value_len" => p > 5
    BY <2>1
  <2>4. name = "value" => p >= 9
    BY <2>1
  <2> QED
    BY <2>2, <2>3, <2>4
<1>6. b = CASE name = "key_len" -> [buffers EXCEPT !.key = "live"]
            [] name = "value_len" -> [buffers EXCEPT !.value = "live"]
            [] name = "value" -> [key |-> "freed", value |-> "freed"]
            [] OTHER -> buffers
  BY <1>4, Zenon
<1>7. /\ b \in [key : {"null", "live", "freed"}, value : {"null", "live", "freed"}]
      /\ (p <= 5 \/ name = "value") => "live" \notin {b.key, b.value}
      /\ "freed" \in {b.key, b.value} => p >= 9
  <2>1. CASE name = "key_len"
    BY <1>1, <1>2, <1>5, <1>6, <2>1
  <2>2. CASE name = "value_len"
    BY <1>1, <1>2, <1>5, <1>6, <2>2
  <2>3. CASE name = "value"
    BY <1>1, <1>2, <1>5, <1>6, <2>3
  <2>4. CASE name \notin {"key_len", "value_len", "value"}
    BY <1>1, <1>2, <1>5, <1>6, <2>4
  <2> QED
    BY <2>1, <2>2, <2>3, <2>4
<1> QED
  BY <1>4, <1>7

LEMMA ReadFieldInv ==
  ASSUME IndInv, crashed = "no", ReadField
  PROVE  IndInv'
<1>1. TypeOK /\ Phases /\ BufferInv /\ FieldsInv /\ ErrorLeavesNothing
  BY DEF IndInv
<1>2. PICK p, f, key : p = pos + 1 /\ f = wire[pos + 1] /\ key = wire[pos - 1]
  OBVIOUS
<1>3. /\ pc = "read" /\ pos < Len(wire) /\ pos' = p /\ pc' = pc /\ code' = code
      /\ UNCHANGED <<given, wire, sending>>
      /\ format' = format /\ source' = source /\ injected' = injected /\ wire' = wire
      /\ pending' = pending /\ after_debug' = after_debug
      /\ decoding_errors' = decoding_errors /\ crashed' = crashed
  BY <1>2 DEF ReadField, given, sending
<1>4. /\ code = Success /\ ~IsText /\ IsExtracted(ctx) /\ decoding_errors = 0
  BY <1>1, <1>3 DEF Phases
<1>5. /\ IsBinary(wire) /\ Len(wire) \in Nat /\ pos \in 0 .. Len(wire)
  BY <1>1, <1>4, WireFacts DEF TypeOK
<1>6. /\ p \in Nat \ {0} /\ p \in 1 .. Len(wire) /\ pos \in Nat /\ pos = p - 1
  BY <1>2, <1>3, <1>5
<1>7. ReadInto(ctx', p, f, key)
  <2>1. ctx' = CASE FieldName(p) = "high" -> [ctx EXCEPT !.trace_id.high = f]
                 [] FieldName(p) = "low" -> [ctx EXCEPT !.trace_id.low = f]
                 [] FieldName(p) = "span_id" -> [ctx EXCEPT !.span_id = f]
                 [] FieldName(p) = "flags" -> [ctx EXCEPT !.flags = f]
                 [] FieldName(p) = "value" -> [ctx EXCEPT !.baggage[key] = f]
                 [] OTHER -> ctx
    BY <1>2, Zenon DEF ReadField
  <2>2. PICK c : c = ctx'
    OBVIOUS
  <2>3. ReadInto(c, p, f, key)
    BY <1>4, <1>6, <2>1, <2>2, ReadFieldContext
  <2> QED
    BY <2>2, <2>3, Zenon
<1>8. /\ buffers' \in [key : {"null", "live", "freed"}, value : {"null", "live", "freed"}]
      /\ (p <= 5 \/ FieldName(p) = "value") => "live" \notin {buffers'.key, buffers'.value}
      /\ "freed" \in {buffers'.key, buffers'.value} => p >= 9
  <2>1. buffers' = CASE FieldName(p) = "key_len" -> [buffers EXCEPT !.key = "live"]
                     [] FieldName(p) = "value_len" -> [buffers EXCEPT !.value = "live"]
                     [] FieldName(p) = "value" -> [key |-> "freed", value |-> "freed"]
                     [] OTHER -> buffers
    BY <1>2, Zenon DEF ReadField
  <2>2. PICK b : b = buffers'
    OBVIOUS
  <2>3. /\ b \in [key : {"null", "live", "freed"}, value : {"null", "live", "freed"}]
        /\ (p <= 5 \/ FieldName(p) = "value") => "live" \notin {b.key, b.value}
        /\ "freed" \in {b.key, b.value} => p >= 9
    BY <1>1, <1>2, <1>3, <2>1, <2>2, ReadFieldBuffers
  <2> QED
    BY <2>2, <2>3, Zenon
<1>9. FieldFits(p, f)
  BY <1>2, <1>5, <1>6 DEF IsBinary
<1>10. ASSUME FieldName(p) = "value"
       PROVE  key \in Keys
  <2>1. PICK i \in Nat \ {0} : p = 5 + 4 * i
    BY <1>6, <1>10, FieldNames
  <2>2. PICK q \in 1 .. Len(wire) : q = 3 + 4 * i /\ q = pos - 1
    BY <1>5, <1>6, <2>1
  <2>3. q \in Nat \ {0} /\ q > 5
    BY <2>2
  <2>4. FieldName(q) = "key"
    BY <2>2, <2>3, FieldNames
  <2>5. FieldFits(q, wire[q])
    BY <1>5 DEF IsBinary
  <2> QED
    BY <1>2, <2>2, <2>3, <2>4, <2>5 DEF FieldFits
<1>11. /\ ctx.baggage = [k \in Keys |-> ctx.baggage[k]]
       /\ ctx.trace_id \in [high : Id, low : Id] /\ ctx.span_id \in Id
       /\ ctx.flags \in 0 .. 255 /\ ctx.debug_id \in BOOLEAN
       /\ DOMAIN ctx = DOMAIN EmptyContext
  BY <1>4 DEF IsExtracted
<1>12. /\ ctx'.baggage = [k \in Keys |-> ctx'.baggage[k]]
       /\ \A k \in Keys : \/ ctx'.baggage[k] = ctx.baggage[k]
                          \/ FieldName(p) = "value" /\ k = key /\ ctx'.baggage[k] = f
       /\ FieldName(p) = "value" => ctx'.baggage[key] = f
  <2>1. CASE FieldName(p) = "value"
    <3>1. ctx'.baggage = [ctx.baggage EXCEPT ![key] = f]
      BY <1>7, <2>1 DEF ReadInto
    <3> QED
      BY <1>10, <1>11, <2>1, <3>1
  <2>2. CASE FieldName(p) # "value"
    <3>1. ctx'.baggage = ctx.baggage
      BY <1>7, <2>2 DEF ReadInto
    <3> QED
      BY <1>11, <2>2, <3>1
  <2> QED
    BY <2>1, <2>2
<1>13. IsExtracted(ctx')
  <2>1. /\ p = 1 \/ p = 2 \/ p = 3 => f \in Id
        /\ p = 4 => f \in 0 .. 255
    BY <1>9 DEF FieldFits
  <2>2. ctx'.trace_id.high \in Id /\ ctx'.trace_id.low \in Id
    BY <1>7, <1>11, <2>1 DEF ReadInto
  <2>3. ctx'.trace_id \in [high : Id, low : Id]
    <3>1. PICK x \in Id, y \in Id : x = ctx'.trace_id.high /\ y = ctx'.trace_id.low
      BY <2>2
    <3>2. ctx'.trace_id = [high |-> x, low |-> y]
      BY <1>7, <3>1, Zenon DEF ReadInto
    <3> QED
      BY <3>2
  <2>4. /\ ctx'.span_id \in Id /\ ctx'.flags \in 0 .. 255
        /\ ctx'.debug_id \in BOOLEAN /\ DOMAIN ctx' = DOMAIN EmptyContext
    BY <1>7, <1>11, <2>1 DEF ReadInto
  <2> QED
    BY <1>12, <2>3, <2>4 DEF IsExtracted
<1>14. TypeOK' /\ Phases' /\ LoopInv' /\ LastsWritten'
  <2>1. /\ code' \in Codes /\ pending' \subseteq 1 .. Len(wire)
        /\ after_debug' \in BOOLEAN /\ decoding_errors' \in {0, 1}
        /\ crashed' \in {"no", "null", "assert", "overflow", "double_free"}
    BY <1>1, <1>3, Zenon DEF TypeOK
  <2>2. /\ pc' \in {"headers", "read", "cleanup", "done"} /\ pc' # "headers"
        /\ pos' \in 0 .. Len(wire) /\ decoding_errors' = 0 /\ code' = Success
    BY <1>3, <1>4, <1>5, <1>6
  <2> QED
    BY <1>3, <1>4, <1>8, <1>13, <2>1, <2>2, ReceivingTypes
<1>15. HeadersInv' /\ CleanupInv' /\ RoundTrip'
  BY <1>3 DEF HeadersInv, CleanupInv, RoundTrip
<1>16. BufferInv'
  BY <1>3, <1>8 DEF BufferInv
<1>17. ErrorLeavesNothing'
  BY <1>3 DEF ErrorLeavesNothing
<1>18. FieldsInv'
  <2>1. Undisturbed' = Undisturbed /\ \A k : Sent(k)' = Sent(k)
    BY <1>3, SentKept
  <2>2. SUFFICES ASSUME Undisturbed
                 PROVE  FieldsInv'
    BY <2>1 DEF FieldsInv
  <2>3. IsContext(source) /\ wire = BinaryFields(source)
    BY <1>1, <1>4, <2>2 DEF Undisturbed, TypeOK
  <2>14. PICK items : items = Items(source)
    OBVIOUS
  <2>15. PICK n \in Nat : n = Len(items) /\ DOMAIN items = 1 .. n
    BY <2>3, <2>14, ItemsFacts
  <2>4. items = Items(source) /\ n = Len(items) /\ DOMAIN items = 1 .. n
    BY <2>14, <2>15
  <2>5. /\ wire[1] = source.trace_id.high /\ wire[2] = source.trace_id.low
        /\ wire[3] = source.span_id /\ wire[4] = source.flags
        /\ Len(wire) = 5 + 4 * n
        /\ \A i \in 1 .. n : wire[3 + 4 * i] = items[i][1] /\ wire[5 + 4 * i] = items[i][2]
    BY <2>3, <2>4, FieldsWritten
  <2>6. \A i \in 1 .. n : items[i][2] \in Sent(items[i][1]) /\ items[i][1] \in Keys
    BY <1>4, <2>3, <2>4, ItemsSent, ItemsFacts
  <2>7. /\ pos >= 1 => ctx.trace_id.high = source.trace_id.high
        /\ pos >= 2 => ctx.trace_id.low = source.trace_id.low
        /\ pos >= 3 => ctx.span_id = source.span_id
        /\ pos >= 4 => ctx.flags = source.flags
        /\ ~ctx.debug_id /\ ~after_debug
        /\ \A k \in Keys : ctx.baggage[k] \in Sent(k) \cup {NoValue}
        /\ \A i \in 1 .. n : pos >= 5 + 4 * i => ctx.baggage[items[i][1]] \in Sent(items[i][1])
    BY <1>1, <1>3, <2>2, <2>4 DEF FieldsInv
  <2>8. FieldName(p) = "value" => f \in Sent(key)
    <3>1. SUFFICES ASSUME FieldName(p) = "value"
                   PROVE  f \in Sent(key)
      OBVIOUS
    <3>2. PICK i \in Nat \ {0} : p = 5 + 4 * i
      BY <1>6, <3>1, FieldNames
    <3>3. i \in 1 .. n /\ pos - 1 = 3 + 4 * i /\ pos + 1 = 5 + 4 * i
      BY <1>2, <1>6, <2>5, <3>2
    <3> QED
      BY <1>2, <2>5, <2>6, <3>3
  <2>9. /\ p >= 1 => ctx'.trace_id.high = source.trace_id.high
        /\ p >= 2 => ctx'.trace_id.low = source.trace_id.low
        /\ p >= 3 => ctx'.span_id = source.span_id
        /\ p >= 4 => ctx'.flags = source.flags
    <3>1. /\ p # 1 /\ p >= 1 => pos >= 1
          /\ p # 2 /\ p >= 2 => pos >= 2
          /\ p # 3 /\ p >= 3 => pos >= 3
          /\ p # 4 /\ p >= 4 => pos >= 4
      BY <1>6
    <3>2. /\ p = 1 => f = source.trace_id.high
          /\ p = 2 => f = source.trace_id.low
          /\ p = 3 => f = source.span_id
          /\ p = 4 => f = source.flags
      BY <1>2, <1>6, <2>5
    <3> QED
      BY <1>7, <2>7, <3>1, <3>2 DEF ReadInto
  <2>10. ~ctx'.debug_id /\ ~after_debug'
    BY <1>3, <1>7, <2>7 DEF ReadInto
  <2>11. \A k \in Keys : ctx'.baggage[k] \in Sent(k) \cup {NoValue}
    BY <1>12, <2>7, <2>8
  <2>12. ASSUME NEW i \in 1 .. n, p >= 5 + 4 * i
         PROVE  ctx'.baggage[items[i][1]] \in Sent(items[i][1])
    <3>1. CASE p = 5 + 4 * i
      <4>1. i \in Nat \ {0}
        OBVIOUS
      <4>2. FieldName(p) = "value"
        BY <1>6, <3>1, <4>1, FieldNames
      <4>3. key = items[i][1]
        <5>1. pos - 1 = 3 + 4 * i
          BY <1>6, <3>1
        <5> QED
          BY <1>2, <2>5, <5>1
      <4> QED
        BY <1>12, <2>8, <4>2, <4>3
    <3>2. CASE p # 5 + 4 * i
      <4>1. pos >= 5 + 4 * i
        BY <1>6, <2>12, <3>2
      <4>2. ctx.baggage[items[i][1]] \in Sent(items[i][1]) /\ items[i][1] \in Keys
        BY <2>6, <2>7, <4>1
      <4> QED
        BY <1>12, <2>8, <4>2
    <3> QED
      BY <3>1, <3>2
  <2>13. /\ pos' = p /\ Items(source') = items /\ DOMAIN items = 1 .. n
         /\ source' = source
    BY <1>3, <2>4
  <2> QED
    BY <2>1, <2>9, <2>10, <2>11, <2>12, <2>13 DEF FieldsInv
<1> QED
  BY <1>14, <1>15, <1>16, <1>17, <1>18 DEF IndInv

---------------------------------------------------------------------------
(* The theorems *)

LEMMA NextInv ==
  ASSUME IndInv, [Next]_vars
  PROVE  IndInv'
<1>1. CASE UNCHANGED vars
  <2>1. /\ format' = format /\ source' = source /\ wire' = wire /\ faults' = faults
        /\ pc' = pc /\ code' = code /\ bucket' = bucket /\ entry' = entry
        /\ injected' = injected /\ pending' = pending /\ pos' = pos /\ ctx' = ctx
        /\ buffers' = buffers /\ after_debug' = after_debug
        /\ decoding_errors' = decoding_errors /\ crashed' = crashed
    BY <1>1 DEF vars
  <2>2. /\ IsText' = IsText /\ Undisturbed' = Undisturbed /\ HasDebug' = HasDebug
        /\ LastsWritten' = LastsWritten
        /\ (\A k : Sent(k)' = Sent(k)) /\ (\A k : Suffix(k)' = Suffix(k))
    BY <2>1, SentKept
  <2>3. /\ ContextWritten' = ContextWritten /\ \A item : OnWire(item)' = OnWire(item)
        /\ \A b : LastWritten(b)' = LastWritten(b)
    BY <2>1, WrittenKept
  <2>4. TypeOK' /\ Phases' /\ BufferInv'
    BY <2>1, <2>2 DEF IndInv, TypeOK, Phases, BufferInv
  <2>5. LoopInv' /\ LastsWritten' /\ ErrorLeavesNothing'
    BY <2>1, <2>2, <2>3 DEF IndInv, LoopInv, ErrorLeavesNothing
  <2>6. HeadersInv'
    BY <2>1, <2>2 DEF IndInv, HeadersInv
  <2>7. FieldsInv' /\ CleanupInv' /\ RoundTrip'
    BY <2>1, <2>2 DEF IndInv, FieldsInv, CleanupInv, RoundTrip
  <2> QED
    BY <2>4, <2>5, <2>6, <2>7 DEF IndInv
<1>2. CASE Next
  <2>1. crashed = "no"
    BY <1>2 DEF Next
  <2>2. CASE InjectInvalid
    BY <2>2, InjectInvalidInv
  <2>3. CASE Inject
    BY <2>3, InjectInv
  <2>4. CASE SetContext
    BY <2>4, SetContextInv
  <2>5. CASE NextBucket
    BY <2>5, NextBucketInv
  <2>6. CASE SetItem
    BY <2>6, SetItemInv
  <2>7. CASE BucketDone
    BY <2>7, BucketDoneInv
  <2>8. CASE WriteBinary
    BY <2>8, WriteBinaryInv
  <2>9. CASE Deliver
    BY <2>9, DeliverInv
  <2>10. CASE Extract
    BY <2>10, ExtractInv
  <2>11. ASSUME NEW i \in pending,
                CallbackNoMemory(i) \/ ExtractBaggageCrash(i) \/ DecodeCrash(i)
         PROVE  IndInv'
    BY <2>1, <2>11, CallbackFails
  <2>12. ASSUME NEW i \in pending, ExtractContext(i)
         PROVE  IndInv'
    BY <2>1, <2>12, ExtractContextInv
  <2>13. ASSUME NEW i \in pending, ExtractDebug(i)
         PROVE  IndInv'
    BY <2>1, <2>13, ExtractDebugInv
  <2>14. ASSUME NEW i \in pending, ExtractBaggage(i)
         PROVE  IndInv'
    BY <2>1, <2>14, ExtractBaggageInv
  <2>15. ASSUME NEW i \in pending, ExtractItem(i)
         PROVE  IndInv'
    BY <2>1, <2>15, ExtractItemInv
  <2>16. ASSUME NEW i \in pending, ExtractOther(i)
         PROVE  IndInv'
    BY <2>1, <2>16, ExtractOtherInv
  <2>17. CASE HeadersDone
    BY <2>1, <2>17, HeadersDoneInv
  <2>18. CASE ReadShort \/ ReadNoMemory
    BY <2>18, ReadFails
  <2>19. CASE ReadField
    BY <2>1, <2>19, ReadFieldInv
  <2>20. CASE ReadDone
    BY <2>1, <2>20, ReadDoneInv
  <2>21. CASE Cleanup
    BY <2>21, CleanupHolds
  <2>22. CASE CleanupCrash
    BY <2>22, CleanupCrashInv
  <2>23. CASE ReadOverflow
    BY <2>23, ReadOverflowInv
  <2> QED
    BY <1>2, <2>2, <2>3, <2>4, <2>5, <2>6, <2>7, <2>8, <2>9, <2>10, <2>11, <2>12,
       <2>13, <2>14, <2>15, <2>16, <2>17, <2>18, <2>19, <2>20, <2>21, <2>22, <2>23 DEF Next
<1> QED
  BY <1>1, <1>2

\* inject and extract keep the invariant, for every base and width of ids, every
\* context, carrier, set of headers of others and set of calls that fail.
THEOREM PropagationInvariant == Spec => []IndInv
<1>1. Init => IndInv
  BY InitInv
<1>2. IndInv /\ [Next]_vars => IndInv'
  BY NextInv
<1> QED
  BY <1>1, <1>2, PTL DEF Spec

\* What strtoull and the flags' mask leave fits its width, and an extracted
\* context has every field, whatever the carrier holds.
THEOREM PropagationTypes == Spec => []TypeOK
<1>1. IndInv => TypeOK
  BY DEF IndInv
<1> QED
  BY <1>1, PropagationInvariant, PTL

\* A context that was injected is what extract returns, in each of the three
\* formats, for all ids, flags and baggage values.
THEOREM RoundTripHolds == Spec => []RoundTrip
<1>1. IndInv => RoundTrip
  BY DEF IndInv
<1> QED
  BY <1>1, PropagationInvariant, PTL

\* A failed extract returns no context, holds no buffer and is counted once if
\* the carrier was corrupted; a buffer is freed twice only after an item.
THEOREM ErrorsLeaveNothing == Spec => []ErrorLeavesNothing
<1>1. IndInv => ErrorLeavesNothing
  BY DEF IndInv
<1> QED
  BY <1>1, PropagationInvariant, PTL

\* The buffers of encode_uri_value, decode_uri_value and the trace id's scan
\* are large enough for every text, however its escapes end.
THEOREM BuffersHold == Spec => []BuffersSuffice
<1>1. ASSUME TypeOK
      PROVE  BuffersSuffice
  <2>1. ASSUME IsText, NEW i \in DOMAIN wire
        PROVE  /\ Len(decode_uri_value(wire[i].text)) <= Len(wire[i].text)
               /\ ContextScans(wire[i].tokens) => HighLen(wire[i].tokens[1]) <= Width
    <3>1. wire[i] \in Header
      BY <1>1, <2>1, WireFacts, SeqFacts
    <3>2. wire[i].text \in Text /\ wire[i].tokens \in Seq(Seq(Nat))
      BY <3>1, HeaderParts
    <3>3. Len(decode_uri_value(wire[i].text)) <= Len(wire[i].text)
      BY <3>2, DecodeFits
    <3>4. ASSUME ContextScans(wire[i].tokens)
          PROVE  HighLen(wire[i].tokens[1]) <= Width
      <4>1. PICK ts : ts = wire[i].tokens
        OBVIOUS
      <4> DEFINE Q == Seq(Nat)
      <4>2. ts \in Seq(Q) /\ Len(ts) >= 3
        BY <3>2, <3>4, <4>1 DEF ContextScans
      <4> HIDE DEF Q
      <4>3. ts[1] \in Q
        <5>1. Len(ts) \in Nat /\ \A j \in 1 .. Len(ts) : ts[j] \in Q
          BY <4>2, SeqFacts
        <5>2. 1 \in 1 .. Len(ts)
          BY <4>2, <5>1
        <5> QED
          BY <5>1, <5>2
      <4>4. PICK n \in Nat : n = Len(ts[1])
        BY <4>3, SeqFacts DEF Q
      <4>5. PICK w \in Nat : w = Width
        BY WidthAssumption
      <4>6. n <= 2 * w
        BY <3>4, <4>1, <4>4, <4>5 DEF ContextScans, TraceIdScans
      <4>7. HighLen(ts[1]) = IF n > w THEN n - w ELSE 0
        BY <4>4, <4>5 DEF HighLen
      <4>8. HighLen(ts[1]) <= w
        BY <4>6, <4>7
      <4> QED
        BY <4>1, <4>5, <4>8
    <3> QED
      BY <3>3, <3>4
  <2>2. ASSUME source # NoContext, NEW item \in Range(Items(source))
        PROVE  Len(encode_uri_value(item[2])) <= 3 * Len(item[2])
    <3>1. IsContext(source)
      BY <1>1, <2>2 DEF TypeOK
    <3>2. item[2] \in Text
      BY <2>2, <3>1, ItemsFacts
    <3> QED
      BY <3>2, EncodeFacts
  <2> QED
    BY <2>1, <2>2 DEF BuffersSuffice
<1> QED
  BY <1>1, PropagationTypes, PTL

====
