------------------------------ MODULE FcnPayoff ------------------------------
(***************************************************************************)
(* The arithmetic of the canonical FCN/RakiPlus lane - the headers under   *)
(* cpp/include/fina_risk and schedule.cpp - and what its compiler refuses. *)
(*                                                                         *)
(* Performances, barriers and strikes are naturals in one unit, Unit being *)
(* a performance of 1.  A fixing is given by its performance (spot over    *)
(* reference spot); 0 stands for what is_valid_fixing refuses (NaN, zero,  *)
(* negative).  Rates are naturals too, and a range rate is a multiple of   *)
(* its period's number of fixings, so that the accrued fraction is exact.  *)
(* A cash flow keeps its settlement date instead of its discount factor.   *)
(***************************************************************************)
EXTENDS Integers, Sequences, FiniteSetsExt, Bags

CONSTANTS
  Underlyings,
  Observations,  \* number of observations in the cube
  Dates,         \* their serial dates
  Unit           \* the performance 1.0

Obs == 0 .. Observations - 1

ASSUME CubeAssumption ==
  /\ Observations \in Nat \ {0}
  /\ Dates \in [Obs -> Nat]
  /\ \A i, j \in Obs : i < j => Dates[i] < Dates[j]
  /\ IsFiniteSet(Underlyings) /\ Underlyings # {}
  /\ Unit \in Nat \ {0}

\* enum class KnockOutKind; enum class Comparison.
KnockOutKinds == {"none", "local", "global"}
Comparisons == {">", ">=", "<", "<="}

\* struct CouponPeriodTerms.
Periods ==
  [start : Nat, end : Nat, payment : Nat, rate : Nat, fixed : Nat,
   lower : Nat, upper : Nat, paid : Nat, total : Nat, barrier : Nat,
   localCoupon : Nat, globalCoupon : Nat]

Compare(value, barrier, op) ==
  CASE op = ">"  -> value > barrier
    [] op = ">=" -> value >= barrier
    [] op = "<"  -> value < barrier
    [] op = "<=" -> value <= barrier

ResolveKo(localHit, globalHit, precedence) ==
  IF localHit /\ globalHit THEN precedence
  ELSE IF globalHit THEN "global"
  ELSE IF localHit THEN "local" ELSE "none"

\* observation_on_or_before: 0 also when every date is later.
Past(target) == {k \in Obs : Dates[k] <= target}
OnOrBefore(target) ==
  IF Past(target) = {} THEN 0 ELSE Cardinality(Past(target)) - 1

\* first_observation_after.
FirstAfter(target) == Cardinality(Past(target))

ValidFixing(fixing) == fixing > 0
WorstOf(fixing) == Min({fixing[u] : u \in Underlyings})

InRange(value, p, lowerInclusive, upperInclusive) ==
  /\ IF lowerInclusive THEN value >= p.lower ELSE value > p.lower
  /\ IF upperInclusive THEN value <= p.upper ELSE value < p.upper

Larger(a, b) == IF a > b THEN a ELSE b
Smaller(a, b) == IF a < b THEN a ELSE b

Total(p) == Larger(p.total, 1)
\* max(qualifying - already_paid, 0)
Unpaid(p, qualifying) == IF qualifying > p.paid THEN qualifying - p.paid ELSE 0

\* Mutant: the accrued fraction is not capped at 1.
PeriodRateUncapped(p, qualifying, carried) ==
  p.fixed + (p.rate * (Unpaid(p, qualifying) + carried)) \div Total(p)

PeriodRate(p, qualifying, carried) ==
  p.fixed + (p.rate * Smaller(Unpaid(p, qualifying) + carried, Total(p)))
              \div Total(p)

\* Mutant: no floor, more fixings qualify than the period has.
NextMemoryUnfloored(p, qualifying) == Total(p) - Unpaid(p, qualifying)

NextMemory(p, qualifying) ==
  IF Total(p) > Unpaid(p, qualifying) THEN Total(p) - Unpaid(p, qualifying)
                                      ELSE 0

\* ki_enabled holds for every request the compiler accepts: without a
\* knock_in object the barrier is 0, which it refuses.
KnockIn(s, performance) == Compare(performance, s.kiBarrier, s.kiOperator)

TerminalPayoff(s, knockIn, performance) ==
  IF knockIn /\ s.strike > performance THEN s.strike - performance ELSE 0

FundingAmount(s) == IF s.fundingEnabled THEN s.notional * s.returnRatio ELSE 0

\* What a payment adds to the sums of a leg; a zero sum is no cash flow.
Cash(flow, amount) ==
  IF amount = 0 THEN EmptyBag ELSE [f \in {flow} |-> amount]

\* barriers.memory_ko, with fcn_terms.memory_ko as its default.
MemoryKo(s) ==
  IF s.barrierMemoryKo = "absent" THEN s.memoryKo ELSE s.barrierMemoryKo = "on"

\* compile_canonical_terms, in the order it refuses.  A pillar counts when its
\* date is a whole number above zero (dated) and its rate a number (rated).
Refusal(s) ==
  IF s.evaluation = 0 \/ s.references = 0 \/ ~s.worstOf THEN "unsupported"
  ELSE IF ~ \E pillar \in s.pillars : pillar.dated /\ pillar.rated
    THEN "unresolved"
  ELSE IF s.continuous THEN "unsupported"
  ELSE IF s.memoryKo /\ ~s.memoryMode THEN "ambiguous"
  ELSE IF s.strike = 0 \/ s.kiBarrier = 0
            \/ \E i \in DOMAIN s.periods : s.periods[i].end < s.periods[i].start
    THEN "unsupported"
  ELSE IF s.references # Cardinality(Underlyings) THEN "unsupported"
  ELSE "verified"
=============================================================================
