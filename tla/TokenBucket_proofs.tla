------------------------ MODULE TokenBucket_proofs ------------------------
(* The rate limit and the throughput guarantee of the token bucket, for    *)
(* every set of rates, every cost and every length of the run.             *)
EXTENDS TokenBucket, TLAPS

\* A bucket holds at least one trace (jaeger_rate_limiting_sampler_init).
LEMMA MaxBalanceType ==
  ASSUME NEW r \in Int PROVE MaxBalance(r) \in Int /\ MaxBalance(r) >= Cost
BY UnitAssumption DEF MaxBalance

\* What accrues in a tick adds up, the one fact about products that is needed.
LEMMA Accrual ==
  ASSUME NEW a \in Int, NEW b \in Int, NEW r \in Int
  PROVE  /\ (a + 1 - b) * r = (a - b) * r + r
         /\ (b - (a + 1)) * r = (b - a) * r - r
         /\ (b - a) * r = -((a - b) * r)
         /\ (a - b) * r \in Int /\ (b - a) * r \in Int
         /\ (a - a) * r = 0
OBVIOUS

\* Time that has passed at a rate that is not negative yields no debt.
LEMMA NoDebt ==
  ASSUME NEW a \in Int, NEW b \in Int, NEW r \in Int, a >= b, r >= 0
  PROVE  (a - b) * r >= 0
OBVIOUS

\* A new bucket is full and its books are empty.
LEMMA InitInv == Init => IndInv
<1> SUFFICES ASSUME Init PROVE IndInv
  OBVIOUS
<1>1. rate \in Int /\ MaxBalance(rate) \in Int /\ MaxBalance(rate) >= Cost
  BY MaxBalanceType, RateAssumption DEF Init
<1>2. (last_tick - now) * rate = 0
  BY <1>1, Accrual DEF Init
<1> QED
  BY <1>1, <1>2, UnitAssumption, TimeAssumption
  DEF Init, IndInv, TypeOK, AccountType, Account, Bookkeeping, WindowInv,
      RefusedInv, CapInv, Gain

\* The clock only adds to what has accrued.
LEMMA TickInv == IndInv /\ Tick => IndInv'
<1> SUFFICES ASSUME IndInv, Tick PROVE IndInv'
  OBVIOUS
<1>1. /\ rate \in Int /\ now \in Int /\ last_tick \in Int /\ last_tick <= now
      /\ MaxBalance(rate) \in Int
  BY MaxBalanceType, RateAssumption DEF IndInv, TypeOK
<1>2. TypeOK'
  BY <1>1, TimeAssumption DEF IndInv, TypeOK, Tick, AccountType
<1>3. MaxBalance(rate)' = MaxBalance(rate)
  BY DEF Tick, MaxBalance
<1>4. /\ (last_tick' - now') * rate' = (last_tick - now) * rate - rate
      /\ (now' - last_tick') * rate' = (now - last_tick) * rate + rate
      /\ (last_tick - now) * rate \in Int /\ (now - last_tick) * rate \in Int
  BY <1>1, Accrual DEF Tick
<1>5. Bookkeeping' /\ RefusedInv' /\ CapInv'
  BY <1>1, <1>3, <1>4
  DEF IndInv, TypeOK, AccountType, Tick, Bookkeeping, RefusedInv, CapInv, Gain
<1>6. WindowInv'
  BY <1>1, <1>3, <1>4
  DEF IndInv, TypeOK, AccountType, Tick, WindowInv, Gain
<1> QED
  BY <1>2, <1>5, <1>6 DEF IndInv

\* A window that has just begun has seen nothing.
LEMMA StartWindowInv == IndInv /\ StartWindow => IndInv'
<1> SUFFICES ASSUME IndInv, StartWindow PROVE IndInv'
  OBVIOUS
<1>1. /\ rate \in Int /\ now \in Int /\ last_tick \in Int /\ last_tick <= now
      /\ MaxBalance(rate) \in Int
  BY MaxBalanceType, RateAssumption DEF IndInv, TypeOK
<1>2. TypeOK'
  BY DEF IndInv, TypeOK, StartWindow, AccountType, Account
<1>3. MaxBalance(rate)' = MaxBalance(rate)
  BY DEF StartWindow, MaxBalance
<1>4. Bookkeeping' /\ RefusedInv' /\ CapInv'
  BY <1>3 DEF IndInv, StartWindow, Bookkeeping, RefusedInv, CapInv, Gain
<1>5. ASSUME rate >= 0 PROVE (now - last_tick) * rate >= 0
  BY <1>1, <1>5, NoDebt
<1>6. WindowInv'
  BY <1>1, <1>5 DEF IndInv, TypeOK, AccountType, StartWindow, Account,
                    WindowInv, Gain
<1> QED
  BY <1>2, <1>4, <1>6 DEF IndInv

\* A refill brings the books up to now; the cap can only lower the balance.
LEMMA IsSampledInv ==
  ASSUME NEW probable \in BOOLEAN, IndInv, IsSampled(probable)
  PROVE  IndInv'
<1> DEFINE B == balance + (now - last_tick) * rate
           M == MaxBalance(rate)
<1>1. /\ rate \in Int /\ now \in Int /\ last_tick \in Int /\ last_tick <= now
      /\ balance \in Int /\ earned \in Int /\ spent \in Nat
      /\ mark.earned \in Int /\ mark.spent \in Nat
      /\ full.earned \in Int /\ full.spent \in Nat
  BY RateAssumption DEF IndInv, TypeOK, AccountType
<1>2. M \in Int /\ M >= Cost /\ Cost \in Nat /\ Cost > 0
  BY <1>1, MaxBalanceType, UnitAssumption
<1>3. /\ (now - last_tick) * rate \in Int
      /\ (last_tick - now) * rate = -((now - last_tick) * rate)
      /\ (now - now) * rate = 0
  BY <1>1, Accrual
<1>4. B \in Int /\ Refilled = (IF M < B THEN M ELSE B) /\ Refilled \in Int
  BY <1>1, <1>2, <1>3 DEF Refilled
<1>5. /\ now' = now /\ rate' = rate /\ earned' = earned /\ mark' = mark
      /\ last_tick' = now /\ M' = M
      /\ full' = IF M <= B THEN Account ELSE full
  BY DEF IsSampled, Refill, LastTick, MaxBalance
<1>6. \/ /\ Refilled >= Cost /\ balance' = Refilled - Cost
         /\ spent' = spent + Cost /\ decision' = TRUE
      \/ /\ Refilled < Cost /\ balance' = Refilled
         /\ spent' = spent /\ decision' = probable
  BY DEF IsSampled, Grant, Refuse
<1>7. (last_tick' - now') * rate' = 0 /\ (now' - last_tick') * rate' = 0
  BY <1>1, <1>3, <1>5
<1> HIDE DEF B, M
<1>8. TypeOK'
  <2>1. /\ now \in 0 .. MaxTime /\ rate \in Rates /\ mark \in AccountType
        /\ full \in AccountType /\ Account \in AccountType
    BY <1>1 DEF IndInv, TypeOK, AccountType, Account
  <2>2. full' \in AccountType
    BY <2>1, <1>5
  <2>3. balance' \in Int /\ spent' \in Nat
    BY <1>1, <1>2, <1>4, <1>6
  <2>4. decision' \in BOOLEAN
    BY <1>6
  <2>5. last_tick' \in 0 .. now'
    BY <2>1, <1>5, TimeAssumption
  <2>6. earned' \in Int
    BY <1>1, <1>5
  <2> QED
    BY <2>1, <2>2, <2>3, <2>4, <2>5, <2>6, <1>5 DEF TypeOK
<1>9. B = M + Gain(full) - (spent - full.spent)
  BY <1>1, <1>2, <1>3 DEF IndInv, Bookkeeping, Gain, B, M
<1>10. Bookkeeping'
  <2>1. CASE M <= B
    BY <2>1, <1>1, <1>2, <1>4, <1>5, <1>6, <1>7
    DEF Bookkeeping, Gain, Account, M
  <2>2. CASE ~(M <= B)
    BY <2>2, <1>1, <1>2, <1>4, <1>5, <1>6, <1>7, <1>9
    DEF Bookkeeping, Gain, M
  <2> QED
    BY <2>1, <2>2
<1>11. ASSUME rate >= 0 PROVE spent' - mark.spent + balance' <= M + Gain(mark)
  <2>1. Gain(mark) \in Int
    BY <1>1 DEF Gain
  <2>2. \/ spent - mark.spent + B <= M + Gain(mark)
        \/ spent = mark.spent /\ Gain(mark) >= 0
    BY <1>11, <1>1, <1>2, <1>3, <2>1 DEF IndInv, WindowInv, B, M
  <2> QED
    BY <2>1, <2>2, <1>1, <1>2, <1>4, <1>6
<1>12. WindowInv'
  <2>1. Gain(mark)' = Gain(mark) /\ Gain(mark) \in Int
    BY <1>1, <1>5 DEF Gain
  <2> QED
    BY <2>1, <1>1, <1>2, <1>5, <1>7, <1>11 DEF WindowInv, M
<1>13. RefusedInv'
  BY <1>6 DEF RefusedInv
<1>14. CapInv'
  <2>1. balance' <= M
    BY <1>1, <1>2, <1>4, <1>6
  <2>2. ASSUME rate >= 0 PROVE balance' >= 0
    <3>1. balance >= 0 /\ (now - last_tick) * rate >= 0
      BY <2>2, <1>1, NoDebt DEF IndInv, CapInv
    <3>2. Refilled >= 0
      BY <3>1, <1>1, <1>2, <1>3, <1>4 DEF B
    <3> QED
      BY <3>2, <1>2, <1>4, <1>6
  <2> QED
    BY <2>1, <2>2, <1>5 DEF CapInv, M
<1> QED
  BY <1>8, <1>10, <1>12, <1>13, <1>14 DEF IndInv

\* Another lower bound starts the books anew.
LEMMA UpdateInv ==
  ASSUME NEW r \in Rates, IndInv, Update(r)
  PROVE  IndInv'
<1>1. r \in Int /\ now \in 0 .. MaxTime /\ MaxBalance(r) \in Int /\ MaxBalance(r) >= Cost
  BY RateAssumption, MaxBalanceType DEF IndInv, TypeOK
<1>2. (last_tick' - now') * rate' = 0 /\ MaxBalance(rate)' = MaxBalance(r)
  <2>1. (now - now) * r = 0
    BY <1>1, Accrual, TimeAssumption
  <2> QED
    BY <2>1 DEF Update, MaxBalance
<1> QED
  BY <1>1, <1>2, UnitAssumption, TimeAssumption
  DEF Update, IndInv, TypeOK, AccountType, Bookkeeping, WindowInv, RefusedInv,
      CapInv, Gain

\* Every step of the sampler keeps the books.
LEMMA NextInv == IndInv /\ [Next]_vars => IndInv'
<1> SUFFICES ASSUME IndInv, [Next]_vars PROVE IndInv'
  OBVIOUS
<1>1. CASE Tick
  BY <1>1, TickInv
<1>2. CASE StartWindow
  BY <1>2, StartWindowInv
<1>3. ASSUME NEW probable \in BOOLEAN, IsSampled(probable) PROVE IndInv'
  BY <1>3, IsSampledInv
<1>4. ASSUME NEW r \in Rates, Update(r) PROVE IndInv'
  BY <1>4, UpdateInv
<1>5. CASE UNCHANGED vars
  BY <1>5 DEF vars, IndInv, TypeOK, Bookkeeping, WindowInv, RefusedInv, CapInv,
              Gain, MaxBalance
<1> QED
  BY <1>1, <1>2, <1>3, <1>4, <1>5 DEF Next

\* The books of the token bucket are always right.
THEOREM BucketInvariant == Spec => []IndInv
BY InitInv, NextInv, PTL DEF Spec

\* The rate limit holds over every window.
LEMMA InvRateBounded == IndInv => RateBounded
<1> SUFFICES ASSUME IndInv, rate >= 0
             PROVE  spent - mark.spent <= MaxBalance(rate) + Gain(mark)
  BY DEF RateBounded
<1>1. /\ rate \in Int /\ now \in Int /\ last_tick \in Int /\ last_tick <= now
      /\ balance \in Int /\ MaxBalance(rate) \in Int /\ MaxBalance(rate) >= 0
      /\ spent \in Nat /\ mark.spent \in Nat /\ Gain(mark) \in Int
  BY MaxBalanceType, RateAssumption, UnitAssumption
  DEF IndInv, TypeOK, AccountType, Gain
<1>2. /\ (now - last_tick) * rate \in Int /\ (now - last_tick) * rate >= 0
      /\ (last_tick - now) * rate = -((now - last_tick) * rate)
  BY <1>1, NoDebt, Accrual
<1>3. balance >= 0
  BY DEF IndInv, CapInv
<1>4. \/ spent - mark.spent + balance
           <= MaxBalance(rate) + (last_tick - now) * rate + Gain(mark)
      \/ spent = mark.spent /\ Gain(mark) >= 0
  BY DEF IndInv, WindowInv
<1> QED
  BY <1>1, <1>2, <1>3, <1>4

\* The throughput guarantee follows from the books.
LEMMA InvUnsampled == IndInv => UnsampledOnlyWhenSpent
<1> SUFFICES ASSUME IndInv, ~decision
             PROVE  spent - full.spent + Cost
                      > MaxBalance(rate) + (last_tick - now) * rate + Gain(full)
  BY DEF UnsampledOnlyWhenSpent
<1>1. /\ rate \in Int /\ now \in Int /\ last_tick \in Int
      /\ balance \in Int /\ MaxBalance(rate) \in Int /\ Cost \in Nat
      /\ spent \in Nat /\ full.spent \in Nat /\ Gain(full) \in Int
  BY MaxBalanceType, RateAssumption, UnitAssumption
  DEF IndInv, TypeOK, AccountType, Gain
<1>2. (last_tick - now) * rate \in Int
  BY <1>1, Accrual
<1>3. balance < Cost
  BY DEF IndInv, RefusedInv
<1>4. balance = MaxBalance(rate) + (last_tick - now) * rate + Gain(full)
                  - (spent - full.spent)
  BY DEF IndInv, Bookkeeping
<1> QED
  BY <1>1, <1>2, <1>3, <1>4

\* Type correctness: whatever the rates, last_tick never passes the clock, so
\* that check_credit's interval is never negative.
THEOREM BucketTypeCorrect == Spec => []TypeOK
<1>1. IndInv => TypeOK
  BY DEF IndInv
<1> QED
  BY <1>1, BucketInvariant, PTL

\* The rate limit: over every window of every run, check_credit grants at most
\* a full bucket and what accrued in the window.
THEOREM BucketRateBounded == Spec => []RateBounded
BY BucketInvariant, InvRateBounded, PTL

\* The throughput guarantee: is_sampled says no only when all that accrued
\* since the bucket was last full, but for less than one trace, is spent.
THEOREM BucketThroughput == Spec => []UnsampledOnlyWhenSpent
BY BucketInvariant, InvUnsampled, PTL
====
