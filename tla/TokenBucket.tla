---------------------------- MODULE TokenBucket ----------------------------
(***************************************************************************)
(* The guaranteed-throughput sampler of sampler.c and its lower bound: a   *)
(* probabilistic decision combined with a rate limiter, the token bucket   *)
(* of token_bucket.c.                                                      *)
(*                                                                         *)
(* Credits and time are integers: time passes in ticks, a rate is a number *)
(* of credits per tick and one trace costs Cost credits (in the code, one  *)
(* credit; rounding of doubles is left out).  Rates may be negative, as    *)
(* nothing in the code keeps a server from sending such a bound.  The      *)
(* caller of is_sampled holds the mutex of its adaptive or remotely        *)
(* controlled sampler, so that a call is one step.                         *)
(***************************************************************************)
EXTENDS Integers

CONSTANTS Rates,    \* the lower bounds the sampler is given, per tick
          Second,   \* ticks in a second
          Cost,     \* credits one trace costs
          MaxTime   \* bound on the clock

ASSUME RateAssumption == Rates \subseteq Int /\ Rates # {}
ASSUME UnitAssumption == Second \in Nat \ {0} /\ Cost \in Nat \ {0}
ASSUME TimeAssumption == MaxTime \in Nat

VARIABLES now,        \* the steady clock
          rate,       \* lower_bound_sampler.tok.credits_per_second
          balance,    \* tok.balance
          last_tick,  \* tok.last_tick
          decision,   \* what is_sampled returned last
          earned,     \* credits accrued since the bucket's init (ghost)
          spent,      \* credits granted since then (ghost)
          mark,       \* earned and spent at the start of some window (ghost)
          full        \* earned and spent when the bucket was last full (ghost)

vars == <<now, rate, balance, last_tick, decision, earned, spent, mark, full>>

Account == [earned |-> earned, spent |-> spent]

\* jaeger_rate_limiting_sampler_init: JAEGERTRACINGC_MAX(rate, 1).
MaxBalance(r) == IF r * Second > Cost THEN r * Second ELSE Cost

Init ==
  /\ now = 0
  /\ rate \in Rates
  /\ balance = MaxBalance(rate)
  /\ last_tick = 0
  /\ decision = TRUE
  /\ earned = 0
  /\ spent = 0
  /\ mark = Account
  /\ full = Account

\* The clock advances.
Tick ==
  /\ now < MaxTime
  /\ now' = now + 1
  /\ earned' = earned + rate
  /\ UNCHANGED <<rate, balance, last_tick, decision, spent, mark, full>>

\* A window of time begins; its start may be any moment.
StartWindow ==
  /\ mark' = Account
  /\ UNCHANGED <<now, rate, balance, last_tick, decision, earned, spent, full>>

---------------------------------------------------------------------------
(* jaeger_token_bucket_check_credit *)

MutRefilled == balance + (now - last_tick) * rate
MutRefilledLate == balance

\* The balance after the refill.
Refilled ==
  LET new_balance == balance + (now - last_tick) * rate
  IN  IF MaxBalance(rate) < new_balance THEN MaxBalance(rate) ELSE new_balance

MutLastTick == now + 1

LastTick == now

Refill ==
  /\ last_tick' = LastTick
  /\ full' = IF MaxBalance(rate) <= balance + (now - last_tick) * rate
             THEN Account ELSE full

Grant ==
  /\ Refilled >= Cost
  /\ balance' = Refilled - Cost
  /\ spent' = spent + Cost

Refuse ==
  /\ Refilled < Cost
  /\ balance' = Refilled
  /\ UNCHANGED spent

\* guaranteed_throughput_probabilistic_sampler_is_sampled consults the bucket
\* in either case: a trace the probabilistic sampler picked pays if it can.
IsSampled(probable) ==
  /\ Refill
  /\ \/ Grant /\ decision' = TRUE
     \/ Refuse /\ decision' = probable
  /\ UNCHANGED <<now, rate, earned, mark>>

\* ..._update with another lower bound: a new bucket, and it is full.
Update(r) ==
  /\ r # rate
  /\ rate' = r
  /\ balance' = MaxBalance(r)
  /\ last_tick' = now
  /\ decision' = TRUE
  /\ earned' = 0
  /\ spent' = 0
  /\ mark' = [earned |-> 0, spent |-> 0]
  /\ full' = [earned |-> 0, spent |-> 0]
  /\ UNCHANGED now

Next ==
  \/ Tick
  \/ StartWindow
  \/ \E probable \in BOOLEAN : IsSampled(probable)
  \/ \E r \in Rates : Update(r)

Spec == Init /\ [][Next]_vars

---------------------------------------------------------------------------
(* Properties *)

AccountType == [earned : Int, spent : Nat]

\* Every variable has its type; the clock never runs behind last_tick, which
\* check_credit asserts of the interval it computes.
TypeOK ==
  /\ now \in 0 .. MaxTime
  /\ rate \in Rates
  /\ balance \in Int
  /\ last_tick \in 0 .. now
  /\ decision \in BOOLEAN
  /\ earned \in Int
  /\ spent \in Nat
  /\ mark \in AccountType
  /\ full \in AccountType

Gain(account) == earned - account.earned

\* The rate limit, over every window of time and not only from the start: the
\* traces the lower bound lets through cost at most one full bucket and what
\* accrued in the window (check_credit's cap on the balance).  A negative
\* rate accrues a debt that a window has not paid when it ends.
RateBounded ==
  rate >= 0 => spent - mark.spent <= MaxBalance(rate) + Gain(mark)

\* The throughput guarantee: when is_sampled says no, all that accrued since
\* the bucket was last full has been spent on traces, but for less than Cost;
\* no refill is ever lost between two calls, however they are spaced.
UnsampledOnlyWhenSpent ==
  ~decision =>
    spent - full.spent + Cost > MaxBalance(rate) + (last_tick - now) * rate
                                  + Gain(full)

---------------------------------------------------------------------------
(* The inductive invariant *)

\* Exact bookkeeping: the balance is a full bucket, plus what accrued up to
\* last_tick since it was full, minus what was spent since.
Bookkeeping ==
  balance = MaxBalance(rate) + (last_tick - now) * rate + Gain(full)
              - (spent - full.spent)

\* At last_tick, a window was within its bound with the balance to spare; a
\* window that began later has seen nothing spent.
WindowInv ==
  rate >= 0 =>
    \/ spent - mark.spent + balance
         <= MaxBalance(rate) + (last_tick - now) * rate + Gain(mark)
    \/ spent = mark.spent /\ Gain(mark) >= 0 /\ Gain(mark) <= (now - last_tick) * rate

\* A call that says no leaves less than a trace costs.
RefusedInv == ~decision => balance < Cost

\* The balance stays under the cap and, at a rate that is not negative, is
\* never overdrawn.
CapInv ==
  /\ balance <= MaxBalance(rate)
  /\ rate >= 0 => balance >= 0

IndInv ==
  /\ TypeOK
  /\ Bookkeeping
  /\ WindowInv
  /\ RefusedInv
  /\ CapInv
====
