--------------------------- MODULE FcnEngineProofs ---------------------------
(***************************************************************************)
(* Proofs about the native FCN engine, for every cube, path and request:   *)
(* its types, with the counts it reports bounded by the paths it priced;   *)
(* that the put agrees with these counts; what a knock-out ends; and what  *)
(* all the paths of a cube return as principal and pay as coupons.         *)
(***************************************************************************)
EXTENDS FcnEngine, SumProofs

(***************************************************************************)
(* The observation dates.                                                  *)
(***************************************************************************)
LEMMA WorstNat ==
  ASSUME NEW f \in [Underlyings -> Nat]
  PROVE  WorstOf(f) \in Nat
<1>1. {f[u] : u \in Underlyings} \subseteq Nat
  OBVIOUS
<1>2. {f[u] : u \in Underlyings} # {}
  BY CubeAssumption
<1>3. QED
  BY <1>1, <1>2, MinNat DEF WorstOf

LEMMA CubeFacts ==
  /\ Observations \in Nat \ {0}
  /\ 0 \in Obs
  /\ \A k \in Obs : Dates[k] \in Nat /\ k \in Nat
  /\ \A i, j \in Obs : i < j => Dates[i] < Dates[j]
  /\ Unit \in Nat
BY CubeAssumption DEF Obs

\* The observations up to a date are an initial segment of the cube.
LEMMA PastIsSegment ==
  ASSUME NEW t \in Nat
  PROVE  \E n \in 0 .. Observations : Past(t) = 0 .. n - 1
<1> DEFINE Later == {k \in Nat : k \notin Past(t)}
<1>1. Observations \in Later
  BY CubeFacts DEF Past, Obs
<1>2. PICK n \in Later : \A k \in Later : n <= k
  <2>1. Later \subseteq Nat /\ Later # {}
    BY <1>1
  <2>2. QED
    BY <2>1, LeastNat
<1>3. n \in 0 .. Observations
  BY <1>1, <1>2, CubeFacts
<1>4. \A k \in 0 .. n - 1 : k \in Past(t)
  BY <1>2, <1>3, CubeFacts
<1>5. ASSUME NEW k \in Past(t) PROVE k \in 0 .. n - 1
  <2>1. k \in Obs /\ k \in Nat /\ Dates[k] <= t /\ Dates[k] \in Nat
    BY CubeFacts DEF Past
  <2>2. n \notin Past(t) /\ n \in Nat
    OBVIOUS
  <2>3. SUFFICES ASSUME n <= k PROVE FALSE
    BY <2>1, <2>2
  <2>4. n \in Obs
    BY <2>1, <2>2, <2>3, CubeFacts DEF Obs
  <2>5. Dates[n] \in Nat /\ Dates[n] > t
    BY <2>2, <2>4, CubeFacts DEF Past
  <2>6. CASE n = k
    BY <2>2, <2>6
  <2>7. CASE n < k
    <3>1. Dates[n] < Dates[k]
      BY <2>1, <2>4, <2>7, CubeFacts
    <3>2. QED
      BY <2>1, <2>5, <3>1
  <2>8. QED
    BY <2>1, <2>2, <2>3, <2>6, <2>7
<1>6. QED
  BY <1>3, <1>4, <1>5

\* What the two lookups of schedule.cpp return.
LEMMA Lookups ==
  ASSUME NEW t \in Nat
  PROVE  /\ OnOrBefore(t) \in Obs
         /\ FirstAfter(t) \in Nat
         /\ \A k \in Obs : k > OnOrBefore(t) => Dates[k] > t
<1>1. PICK n \in 0 .. Observations : Past(t) = 0 .. n - 1
  BY PastIsSegment
<1>2. Cardinality(Past(t)) = n /\ n \in Nat
  <2>1. n \in Nat /\ 0 \in Int /\ n - 1 \in Int
    BY CubeFacts
  <2>2. Cardinality(0 .. n - 1) = IF 0 > n - 1 THEN 0 ELSE (n - 1) - 0 + 1
    BY <2>1, FS_Interval
  <2>3. QED
    BY <1>1, <2>1, <2>2
<1>3. OnOrBefore(t) = IF n = 0 THEN 0 ELSE n - 1
  <2>1. (Past(t) = {}) <=> (n = 0)
    BY <1>1, <1>2
  <2>2. QED
    BY <1>2, <2>1 DEF OnOrBefore
<1>4. OnOrBefore(t) \in Obs
  BY <1>2, <1>3, CubeFacts DEF Obs
<1>5. ASSUME NEW k \in Obs, k > OnOrBefore(t) PROVE Dates[k] > t
  <2>1. k \in Nat /\ Dates[k] \in Nat
    BY CubeFacts
  <2>2. k \notin Past(t)
    BY <1>1, <1>2, <1>3, <1>5, <2>1
  <2>3. QED
    BY <2>1, <2>2 DEF Past
<1>6. QED
  BY <1>2, <1>4, <1>5 DEF FirstAfter

(***************************************************************************)
(* Bags of cash.                                                           *)
(***************************************************************************)
LEMMA CashIsBag ==
  ASSUME NEW flow, NEW amount \in Nat
  PROVE  /\ IsABag(Cash(flow, amount))
         /\ DOMAIN Cash(flow, amount) \subseteq {flow}
<1>1. CASE amount = 0
  BY <1>1 DEF Cash, IsABag, EmptyBag, SetToBag
<1>2. CASE amount # 0
  BY <1>2 DEF Cash, IsABag
<1>3. QED
  BY <1>1, <1>2

LEMMA EmptyIsBag == IsABag(EmptyBag) /\ DOMAIN EmptyBag = {}
BY DEF IsABag, EmptyBag, SetToBag

LEMMA SumIsBag ==
  ASSUME NEW A, NEW B, IsABag(A), IsABag(B)
  PROVE  /\ IsABag(A (+) B)
         /\ DOMAIN (A (+) B) = DOMAIN A \cup DOMAIN B
         /\ \A f : f \notin DOMAIN B => Held(f, A (+) B) = Held(f, A)
<1>1. DOMAIN (A (+) B) = DOMAIN A \cup DOMAIN B
  BY DEF (+)
<1>2. \A f \in DOMAIN A : A[f] \in Nat /\ A[f] > 0
  BY DEF IsABag
<1>3. \A f \in DOMAIN B : B[f] \in Nat /\ B[f] > 0
  BY DEF IsABag
<1>4. ASSUME NEW f \in DOMAIN A \cup DOMAIN B
      PROVE  (IF f \in DOMAIN A THEN A[f] ELSE 0)
               + (IF f \in DOMAIN B THEN B[f] ELSE 0) \in {n \in Nat : n > 0}
  BY <1>2, <1>3, <1>4
<1>5. IsABag(A (+) B)
  BY <1>1, <1>4 DEF IsABag, (+)
<1>6. ASSUME NEW f, f \notin DOMAIN B PROVE Held(f, A (+) B) = Held(f, A)
  BY <1>1, <1>2, <1>6 DEF (+), Held
<1>7. QED
  BY <1>1, <1>5, <1>6

(***************************************************************************)
(* The types of what the loops compute.                                    *)
(***************************************************************************)
\* What totals and state range over, and the paths the counts can speak of:
\* a knock-out is counted when its path leaves the observations.
PathStates ==
  [ko : KnockOutKinds, koObs : Obs, ki : BOOLEAN,
   locked : [local : SUBSET Underlyings, global : SUBSET Underlyings],
   unpaid : Nat, terminal : Nat]
CountedPaths == totals.paths + Count(pc \in {"coupon", "settle"})

TypeInv ==
  /\ sheet \in Sheets
  /\ verdict \in {"pending", "verified", "unsupported", "ambiguous",
                  "unresolved"}
  /\ pc \in {"compile", "start", "observe", "coupon", "settle", "done"}
  /\ fixings \in Paths \cup {NoPath}
  /\ pc \in {"observe", "coupon", "settle"} => fixings \in Paths
  /\ obs \in Obs
  /\ period \in 1 .. Len(sheet.periods) + 1
  /\ state \in PathStates
  /\ totals = [paid |-> totals.paid, ki |-> totals.ki, ko |-> totals.ko,
               local |-> totals.local, global |-> totals.global,
               paths |-> totals.paths]
  /\ IsABag(totals.paid) /\ DOMAIN totals.paid \subseteq Flows

CountInv ==
  /\ totals.paths \in 0 .. PathCount
  /\ pc # "done" => totals.paths < PathCount
  /\ \A n \in {totals.ki, totals.ko, totals.local, totals.global} :
       n \in 0 .. CountedPaths

IInv == TypeInv /\ CountInv

LEMMA SheetFacts ==
  ASSUME NEW s \in Sheets
  PROVE  /\ s.finalFixing \in Nat /\ s.maturity \in Nat /\ s.notional \in Nat
         /\ s.returnRatio \in Nat /\ s.strike \in Nat
         /\ Len(s.periods) \in Nat
         /\ \A i \in 1 .. Len(s.periods) : s.periods[i] \in Periods
<1>1. s.periods \in Seq(Periods)
  BY SheetTypes
<1>2. {s.evaluation, s.finalFixing, s.maturity, s.notional, s.returnRatio,
       s.strike, s.kiBarrier} \subseteq Nat
  BY SheetTypes
<1>3. QED
  BY <1>1, <1>2

LEMMA WorstType ==
  ASSUME fixings \in Paths
  PROVE  \A k \in Obs : Worst(k) \in Nat
<1>1. fixings \in [Obs -> [Underlyings -> Nat]]
  BY SheetAssumption
<1>2. QED
  BY <1>1, WorstNat DEF Worst

LEMMA AmountTypes ==
  ASSUME NEW s \in Sheets, NEW performance \in Nat, NEW knockIn \in BOOLEAN
  PROVE  /\ FundingAmount(s) \in Nat
         /\ s.notional * TerminalPayoff(s, knockIn, performance) \in Nat
<1>1. TerminalPayoff(s, knockIn, performance) \in Nat
  BY SheetFacts DEF TerminalPayoff
<1>2. QED
  BY <1>1, SheetFacts DEF FundingAmount

LEMMA KnockInType ==
  ASSUME NEW s \in Sheets, NEW performance \in Nat
  PROVE  KnockIn(s, performance) \in BOOLEAN
<1>1. s.kiBarrier \in Nat /\ s.kiOperator \in Comparisons
  BY SheetTypes
<1>2. ASSUME NEW op \in Comparisons
      PROVE  Compare(performance, s.kiBarrier, op) \in BOOLEAN
  <2>1. CASE op = ">"
    BY <2>1 DEF Compare
  <2>2. CASE op = ">="
    BY <2>2 DEF Compare
  <2>3. CASE op = "<"
    BY <2>3 DEF Compare
  <2>4. CASE op = "<="
    BY <2>4 DEF Compare
  <2>5. QED
    BY <2>1, <2>2, <2>3, <2>4 DEF Comparisons
<1>3. QED
  BY <1>1, <1>2 DEF KnockIn

LEMMA DivNat ==
  ASSUME NEW a \in Nat, NEW b \in Nat, b > 0
  PROVE  a \div b \in Nat
OBVIOUS

LEMMA RateTypes ==
  ASSUME NEW p \in Periods, NEW qualifying \in Nat, NEW carried \in Nat
  PROVE  /\ PeriodRate(p, qualifying, carried) \in Nat
         /\ NextMemory(p, qualifying) \in Nat
         /\ Total(p) \in Nat
<1>1. p.rate \in Nat /\ p.fixed \in Nat /\ p.paid \in Nat /\ p.total \in Nat
  BY DEF Periods
<1>2. Total(p) \in Nat /\ Total(p) > 0
  BY <1>1 DEF Total, Larger
<1>3. Unpaid(p, qualifying) \in Nat
  BY <1>1 DEF Unpaid
<1>4. Smaller(Unpaid(p, qualifying) + carried, Total(p)) \in Nat
  BY <1>2, <1>3 DEF Smaller
<1>5. p.rate * Smaller(Unpaid(p, qualifying) + carried, Total(p)) \in Nat
  BY <1>1, <1>4
<1>6. PeriodRate(p, qualifying, carried) \in Nat
  BY <1>1, <1>2, <1>5, DivNat DEF PeriodRate
<1>7. QED
  BY <1>2, <1>3, <1>6 DEF NextMemory

LEMMA FinalIndexType ==
  ASSUME sheet \in Sheets
  PROVE  FinalIndex \in Obs
BY SheetFacts, Lookups DEF FinalIndex

LEMMA KoNowType ==
  ASSUME sheet \in Sheets
  PROVE  KoNow \in KnockOutKinds
BY SheetTypes DEF KoNow, ResolveKo, KnockOutKinds

LEMMA ObservedType ==
  ASSUME TypeInv, pc = "observe"
  PROVE  Observed \in PathStates
<1>1. KoNow \in KnockOutKinds
  BY KoNowType DEF TypeInv
<1>2. Worst(obs) \in Nat
  BY WorstType DEF TypeInv
<1>3. KnockIn(sheet, Worst(obs)) \in BOOLEAN
  BY <1>2, KnockInType DEF TypeInv
<1>4. ASSUME NEW locks \in SUBSET Underlyings, NEW side
      PROVE  Locked(locks, side) \in SUBSET Underlyings
  BY DEF Locked
<1>5. /\ state.locked.local \in SUBSET Underlyings
      /\ state.locked.global \in SUBSET Underlyings
  BY DEF TypeInv, PathStates
<1>6. [local  |-> Locked(state.locked.local, sheet.local),
       global |-> Locked(state.locked.global, sheet.global)]
        \in [local : SUBSET Underlyings, global : SUBSET Underlyings]
  BY <1>4, <1>5
<1>7. QED
  BY <1>1, <1>2, <1>3, <1>6 DEF TypeInv, PathStates, Observed

LEMMA PeriodFacts ==
  ASSUME TypeInv, Accruing
  PROVE  /\ ThisPeriod \in Periods
         /\ End \in Obs /\ Begin \in Nat
         /\ CappedEnd \in Obs
<1>1. Len(sheet.periods) \in Nat /\ period \in 1 .. Len(sheet.periods)
  BY SheetFacts DEF TypeInv, Accruing
<1>2. ThisPeriod \in Periods
  BY <1>1, SheetFacts DEF TypeInv, ThisPeriod
<1>3. End \in Obs /\ Begin \in Nat
  BY <1>2, Lookups DEF Periods, End, Begin
<1>4. CappedEnd \in Obs
  BY <1>3 DEF CappedEnd, Smaller, TypeInv, PathStates
<1>5. QED
  BY <1>2, <1>3, <1>4

LEMMA CouponTypes ==
  ASSUME TypeInv, Accruing
  PROVE  /\ CouponRate \in Nat
         /\ CouponDate \in Nat
         /\ UnpaidAfter \in Nat
<1>1. ThisPeriod \in Periods /\ Begin \in Nat /\ CappedEnd \in Nat
  BY PeriodFacts, CubeFacts
<1>2. QualifyingFixings \in Nat
  <2> DEFINE Q == {k \in Begin .. CappedEnd :
                     InRange(Worst(k), ThisPeriod, sheet.lowerInclusive,
                             sheet.upperInclusive)}
  <2>1. IsFiniteSet(Begin .. CappedEnd)
    BY <1>1, FS_Interval
  <2>2. IsFiniteSet(Q)
    BY <2>1, FS_Subset
  <2>3. QED
    BY <2>2, FS_CardinalityType DEF QualifyingFixings
<1>3. CarriedMemory \in Nat /\ state.unpaid \in Nat
  BY DEF CarriedMemory, TypeInv, PathStates
<1>4. /\ PeriodRate(ThisPeriod, QualifyingFixings, CarriedMemory) \in Nat
      /\ NextMemory(ThisPeriod, QualifyingFixings) \in Nat
      /\ Total(ThisPeriod) \in Nat
  BY <1>1, <1>2, <1>3, RateTypes
<1>5. /\ ThisPeriod.fixed \in Nat /\ ThisPeriod.localCoupon \in Nat
      /\ ThisPeriod.globalCoupon \in Nat /\ ThisPeriod.payment \in Nat
  BY <1>1 DEF Periods
<1>6. Dates[state.koObs] \in Nat
  BY CubeFacts DEF TypeInv, PathStates
<1>7. QED
  BY <1>4, <1>5, <1>6 DEF CouponRate, CouponDate, UnpaidAfter

\* The cash of the current coupon.
CouponCash == Cash(<<"COUPON", period, CouponDate>>, sheet.notional * CouponRate)

LEMMA CouponBag ==
  ASSUME TypeInv, Accruing
  PROVE  /\ IsABag(CouponCash)
         /\ DOMAIN CouponCash \subseteq {<<"COUPON", period, CouponDate>>}
         /\ DOMAIN CouponCash \subseteq Flows
<1>1. sheet.notional * CouponRate \in Nat
  BY CouponTypes, SheetFacts DEF TypeInv
<1>2. period \in Nat
  BY SheetFacts DEF TypeInv
<1>3. <<"COUPON", period, CouponDate>> \in Flows
  BY <1>2, CouponTypes DEF Flows
<1>4. QED
  BY <1>1, <1>3, CashIsBag DEF CouponCash

LEMMA SettledBags ==
  ASSUME TypeInv
  PROVE  /\ IsABag(Funding) /\ DOMAIN Funding \subseteq Flows
         /\ IsABag(ResidualPut) /\ DOMAIN ResidualPut \subseteq Flows
         /\ Terminated => /\ DOMAIN ResidualPut = {}
                          /\ \A f \in DOMAIN Funding : f[3] = Dates[state.koObs]
<1>1. /\ sheet \in Sheets /\ state.koObs \in Obs
      /\ state.ki \in BOOLEAN /\ state.terminal \in Nat
  BY DEF TypeInv, PathStates
<1>2. /\ state.koObs \in Nat /\ Dates[state.koObs] \in Nat
      /\ FinalIndex \in Nat /\ sheet.maturity \in Nat
  BY <1>1, CubeFacts, FinalIndexType, SheetFacts
<1>3. /\ FundingAmount(sheet) \in Nat
      /\ sheet.notional * TerminalPayoff(sheet, state.ki, state.terminal)
           \in Nat
  BY <1>1, AmountTypes
<1>4. /\ <<"FUNDING", state.koObs, Dates[state.koObs]>> \in Flows
      /\ <<"FUNDING", FinalIndex, sheet.maturity>> \in Flows
      /\ <<"PUT", 0, sheet.maturity>> \in Flows
  BY <1>2 DEF Flows
<1>5. CASE Terminated
  <2>1. /\ IsABag(Funding)
        /\ DOMAIN Funding \subseteq
             {<<"FUNDING", state.koObs, Dates[state.koObs]>>}
    BY <1>3, <1>5, CashIsBag DEF Funding
  <2>2. ResidualPut = EmptyBag
    BY <1>5 DEF ResidualPut
  <2>3. QED
    BY <1>4, <2>1, <2>2, EmptyIsBag
<1>6. CASE ~Terminated
  BY <1>3, <1>4, <1>6, CashIsBag DEF Funding, ResidualPut
<1>7. QED
  BY <1>5, <1>6

\* What Settle leaves in the bag.
LEMMA SettledSum ==
  ASSUME TypeInv
  PROVE  LET sum == totals.paid (+) Funding (+) ResidualPut
         IN /\ IsABag(sum)
            /\ DOMAIN sum
                 = DOMAIN totals.paid \cup DOMAIN Funding \cup DOMAIN ResidualPut
            /\ \A f : f \notin DOMAIN Funding \cup DOMAIN ResidualPut =>
                       Held(f, sum) = Held(f, totals.paid)
<1> DEFINE A == totals.paid (+) Funding
           B == A (+) ResidualPut
<1>1. /\ IsABag(A) /\ DOMAIN A = DOMAIN totals.paid \cup DOMAIN Funding
      /\ \A f : f \notin DOMAIN Funding => Held(f, A) = Held(f, totals.paid)
  BY SettledBags, SumIsBag DEF TypeInv
<1> HIDE DEF A
<1>2. IsABag(ResidualPut)
  BY SettledBags
<1>3. /\ IsABag(B) /\ DOMAIN B = DOMAIN A \cup DOMAIN ResidualPut
      /\ \A f : f \notin DOMAIN ResidualPut => Held(f, B) = Held(f, A)
  BY <1>1, <1>2, SumIsBag
<1> HIDE DEF B
<1>4. /\ IsABag(B)
      /\ DOMAIN B = DOMAIN totals.paid \cup DOMAIN Funding \cup DOMAIN ResidualPut
      /\ \A f : f \notin DOMAIN Funding \cup DOMAIN ResidualPut =>
                 Held(f, B) = Held(f, totals.paid)
  BY <1>1, <1>3
<1>5. QED
  BY <1>4 DEF A, B

(***************************************************************************)
(* The invariant: one lemma for the types, one for the counts.             *)
(***************************************************************************)
LEMMA FreshType == Fresh \in PathStates
BY CubeFacts DEF Fresh, PathStates, KnockOutKinds

LEMMA ZeroType ==
  /\ IsABag(Zero.paid) /\ DOMAIN Zero.paid \subseteq Flows
  /\ Zero = [paid |-> Zero.paid, ki |-> Zero.ki, ko |-> Zero.ko,
             local |-> Zero.local, global |-> Zero.global,
             paths |-> Zero.paths]
BY EmptyIsBag DEF Zero

LEMMA InitIInv == Init => IInv
<1> SUFFICES ASSUME Init PROVE IInv
  OBVIOUS
<1>1. Len(sheet.periods) \in Nat
  BY SheetFacts DEF Init
<1>2. TypeInv
  BY <1>1, FreshType, ZeroType, CubeFacts DEF Init, TypeInv
<1>3. CountInv
  BY SheetAssumption DEF Init, CountInv, Zero, CountedPaths, Count
<1>4. QED
  BY <1>2, <1>3 DEF IInv

LEMMA TypeStep ==
  ASSUME TypeInv, Next
  PROVE  TypeInv'
<1> USE DEF TypeInv
<1>0. Len(sheet.periods) \in Nat
  BY SheetFacts
<1>1. ASSUME NEW status \in {"unsupported", "ambiguous", "unresolved"},
             Fail(status)
      PROVE  TypeInv'
  BY <1>1, ZeroType DEF Fail
<1>2. CASE Compile
  <2>1. Refusal(sheet) \in
          {"verified", "unsupported", "ambiguous", "unresolved"}
    BY DEF Refusal
  <2>2. QED
    BY <1>1, <1>2, <2>1 DEF Compile
<1>3. CASE StartPath
  BY <1>0, <1>3, FreshType, CubeFacts DEF StartPath
<1>4. CASE Observe
  <2>1. Observed \in PathStates
    BY <1>4, ObservedType DEF Observe
  <2>2. obs + 1 \in Obs
    BY <1>4, FinalIndexType, CubeFacts DEF Observe, Obs
  <2>3. QED
    BY <1>4, <2>1, <2>2 DEF Observe
<1>5. CASE FinishObserving
  <2>1. Observed \in PathStates
    BY <1>5, ObservedType DEF FinishObserving
  <2>2. QED
    BY <1>5, <2>1 DEF FinishObserving
<1>6. CASE SkipPeriod
  BY <1>0, <1>6 DEF SkipPeriod
<1>7. CASE EndCoupons
  BY <1>7 DEF EndCoupons
<1>8. CASE PayCoupon
  <2>1. Accruing
    BY <1>8 DEF PayCoupon
  <2>2. totals'.paid = totals.paid (+) CouponCash
    BY <1>8 DEF PayCoupon, CouponCash
  <2>3. IsABag(totals'.paid) /\ DOMAIN totals'.paid \subseteq Flows
    BY <2>1, <2>2, CouponBag, SumIsBag
  <2>4. state' \in PathStates
    BY <1>8, <2>1, CouponTypes DEF PayCoupon, PathStates
  <2>5. period' \in 1 .. Len(sheet.periods) + 1
    BY <1>0, <1>8 DEF PayCoupon, Accruing
  <2>6. pc' \in {"coupon", "settle"} /\ pc = "coupon"
    BY <1>8 DEF PayCoupon, Accruing
  <2>7. totals' = [paid |-> totals'.paid, ki |-> totals'.ki,
                   ko |-> totals'.ko, local |-> totals'.local,
                   global |-> totals'.global, paths |-> totals'.paths]
    BY <1>8 DEF PayCoupon
  <2>8. UNCHANGED <<sheet, verdict, fixings, obs>>
    BY <1>8 DEF PayCoupon
  <2>9. QED
    BY <2>3, <2>4, <2>5, <2>6, <2>7, <2>8
<1>9. CASE InvalidFixing
  BY <1>1, <1>9 DEF InvalidFixing
<1>10. CASE Settle
  <2>1. totals'.paid = totals.paid (+) Funding (+) ResidualPut
    BY <1>10 DEF Settle
  <2>2. IsABag(totals'.paid) /\ DOMAIN totals'.paid \subseteq Flows
    BY <2>1, SettledBags, SettledSum
  <2>3. totals' = [paid |-> totals'.paid, ki |-> totals'.ki,
                   ko |-> totals'.ko, local |-> totals'.local,
                   global |-> totals'.global, paths |-> totals'.paths]
    BY <1>10 DEF Settle
  <2>4. pc' \in {"done", "start"} /\ fixings' = NoPath
    BY <1>10 DEF Settle
  <2>5. UNCHANGED <<sheet, verdict, obs, period, state>>
    BY <1>10 DEF Settle
  <2>6. QED
    BY <2>2, <2>3, <2>4, <2>5
<1>11. CASE Done
  BY <1>11 DEF Done, vars
<1>12. QED
  BY <1>2, <1>3, <1>4, <1>5, <1>6, <1>7, <1>8, <1>9, <1>10, <1>11 DEF Next

LEMMA CountStep ==
  ASSUME TypeInv, CountInv, Next
  PROVE  CountInv'
<1> USE DEF CountInv, CountedPaths, Count
<1>0. PathCount \in Nat \ {0}
  BY SheetAssumption
<1>1. ASSUME totals' = Zero PROVE CountInv'
  BY <1>0, <1>1 DEF Zero
<1>2. CASE Compile
  BY <1>0, <1>1, <1>2 DEF Compile, Fail
<1>3. CASE StartPath
  BY <1>0, <1>3 DEF StartPath
<1>4. CASE Observe
  BY <1>4 DEF Observe
<1>5. CASE FinishObserving
  <2>1. /\ totals'.paths = totals.paths
        /\ totals'.ki \in {totals.ki, totals.ki + 1}
        /\ totals'.ko \in {totals.ko, totals.ko + 1}
        /\ totals'.local \in {totals.local, totals.local + 1}
        /\ totals'.global \in {totals.global, totals.global + 1}
    BY <1>5 DEF FinishObserving, TypeInv
  <2>2. pc = "observe" /\ pc' = "coupon"
    BY <1>5 DEF FinishObserving
  <2>3. QED
    BY <1>0, <2>1, <2>2
<1>6. CASE SkipPeriod
  BY <1>6 DEF SkipPeriod
<1>7. CASE EndCoupons
  BY <1>7 DEF EndCoupons
<1>8. CASE PayCoupon
  <2>1. /\ totals'.paths = totals.paths
        /\ totals'.ki = totals.ki /\ totals'.ko = totals.ko
        /\ totals'.local = totals.local /\ totals'.global = totals.global
    BY <1>8 DEF PayCoupon, TypeInv
  <2>2. pc' \in {"coupon", "settle"} /\ pc = "coupon"
    BY <1>8 DEF PayCoupon, Accruing
  <2>3. QED
    BY <2>1, <2>2
<1>9. CASE InvalidFixing
  BY <1>1, <1>9 DEF InvalidFixing, Fail
<1>10. CASE Settle
  <2>1. /\ totals'.paths = totals.paths + 1
        /\ totals'.ki = totals.ki /\ totals'.ko = totals.ko
        /\ totals'.local = totals.local /\ totals'.global = totals.global
    BY <1>10 DEF Settle, TypeInv
  <2>2. /\ pc = "settle"
        /\ pc' = IF totals'.paths = PathCount THEN "done" ELSE "start"
    BY <1>10 DEF Settle
  <2>3. QED
    BY <1>0, <2>1, <2>2
<1>11. CASE Done
  BY <1>11 DEF Done, vars
<1>12. QED
  BY <1>2, <1>3, <1>4, <1>5, <1>6, <1>7, <1>8, <1>9, <1>10, <1>11 DEF Next

LEMMA StepIInv == IInv /\ [Next]_vars => IInv'
<1> SUFFICES ASSUME IInv, [Next]_vars PROVE IInv'
  OBVIOUS
<1>1. CASE Next
  BY <1>1, TypeStep, CountStep DEF IInv
<1>2. CASE UNCHANGED vars
  BY <1>2 DEF IInv, TypeInv, CountInv, CountedPaths, vars
<1>3. QED
  BY <1>1, <1>2

LEMMA IInvInductive == Spec => []IInv
BY InitIInv, StepIInv, PTL DEF Spec

LEMMA IInvTypeOK == IInv => TypeOK
<1> SUFFICES ASSUME IInv PROVE TypeOK
  OBVIOUS
<1>1. PathCount \in Nat \ {0}
  BY SheetAssumption
<1>2. /\ totals.paths \in Nat /\ CountedPaths \in Nat
      /\ CountedPaths <= PathCount
  BY <1>1 DEF IInv, CountInv, CountedPaths, Count
<1>3. ASSUME NEW n \in {totals.ki, totals.ko, totals.local, totals.global}
      PROVE  n \in 0 .. PathCount
  BY <1>1, <1>2 DEF IInv, CountInv
<1>4. QED
  BY <1>3 DEF IInv, TypeInv, TypeOK, PathStates

\* The engine's records keep their types, every index it reads stays in its
\* array, and no count it reports exceeds the paths of the cube.
THEOREM TypeCorrect == Spec => []TypeOK
BY IInvInductive, IInvTypeOK, PTL

(***************************************************************************)
(* The put and the counts.                                                 *)
(***************************************************************************)
Puts(sums) == {f \in DOMAIN sums.paid : f[1] = "PUT"}

\* A put was paid by a path that was counted as knocked in and not as called.
PutInv ==
  /\ closed.ki \in Nat /\ closed.ko \in Nat /\ closed.paths \in Nat
  /\ Puts(totals) # {} => totals.ki > 0 /\ totals.ko < CountedPaths
  /\ pc \in {"coupon", "settle"} =>
       /\ state.ki => totals.ki > 0
       /\ ~Terminated => totals.ko <= totals.paths
  /\ Puts(closed) # {} => closed.ki > 0 /\ closed.ko < closed.paths

LEMMA CouponIsNoPut ==
  ASSUME TypeInv, PayCoupon
  PROVE  Puts(totals') = Puts(totals)
<1>1. Accruing /\ totals'.paid = totals.paid (+) CouponCash
  BY DEF PayCoupon, CouponCash, TypeInv
<1>2. DOMAIN totals'.paid = DOMAIN totals.paid \cup DOMAIN CouponCash
  BY <1>1, CouponBag, SumIsBag DEF TypeInv
<1>3. \A f \in DOMAIN CouponCash : f[1] # "PUT"
  BY <1>1, CouponBag
<1>4. QED
  BY <1>2, <1>3 DEF Puts

LEMMA NewPut ==
  ASSUME TypeInv, Settle, Puts(totals) = {}, Puts(totals') # {}
  PROVE  ~Terminated /\ state.ki
<1>1. totals'.paid = totals.paid (+) Funding (+) ResidualPut
  BY DEF Settle, TypeInv
<1>2. DOMAIN totals'.paid
        = DOMAIN totals.paid \cup DOMAIN Funding \cup DOMAIN ResidualPut
  BY <1>1, SettledSum
<1>3. \A f \in DOMAIN Funding : f[1] = "FUNDING"
  BY DEF Funding, Cash, EmptyBag, SetToBag
<1>4. DOMAIN ResidualPut # {}
  BY <1>2, <1>3 DEF Puts
<1>5. ~Terminated
  BY <1>4, EmptyIsBag DEF ResidualPut
<1>6. SUFFICES ASSUME ~state.ki PROVE FALSE
  BY <1>5
<1>7. sheet.notional * TerminalPayoff(sheet, state.ki, state.terminal) = 0
  BY <1>6, SheetFacts DEF TerminalPayoff, TypeInv
<1>8. QED
  BY <1>4, <1>5, <1>7, EmptyIsBag DEF ResidualPut, Cash

LEMMA InitPutInv == Init => PutInv
BY EmptyIsBag DEF Init, PutInv, Puts, Zero

LEMMA StepPutInv ==
  ASSUME IInv, IInv', PutInv, Next
  PROVE  PutInv'
<1> USE DEF PutInv, CountedPaths, Count, Terminated
<1>0. /\ TypeInv /\ totals.paths \in Nat /\ totals.ki \in Nat /\ totals.ko \in Nat
      /\ totals.ko <= CountedPaths
  BY SheetAssumption DEF IInv, CountInv
<1>1. ASSUME totals' = Zero, closed' = Zero, pc' = "done" PROVE PutInv'
  BY <1>1, EmptyIsBag DEF Zero, Puts
<1>2. CASE Compile
  BY <1>1, <1>2 DEF Compile, Fail, Puts
<1>3. CASE StartPath
  BY <1>3 DEF StartPath, Puts
<1>4. CASE Observe
  BY <1>4 DEF Observe, Puts
<1>5. CASE FinishObserving
  <2>1. /\ totals'.paths = totals.paths /\ totals'.paid = totals.paid
        /\ totals'.ki = totals.ki + (IF Observed.ki THEN 1 ELSE 0)
        /\ totals'.ko = totals.ko + (IF KoNow # "none" THEN 1 ELSE 0)
    BY <1>0, <1>5 DEF FinishObserving, TypeInv
  <2>2. pc = "observe" /\ pc' = "coupon" /\ closed' = closed
    BY <1>5 DEF FinishObserving
  <2>3. state' = Observed /\ state'.ko = KoNow
    BY <1>0, <1>5 DEF FinishObserving, Observed, TypeInv, PathStates
  <2>4. Puts(totals') = Puts(totals) /\ Puts(closed') = Puts(closed)
    BY <2>1, <2>2 DEF Puts
  <2>5. state.ki \in BOOLEAN /\ state'.ki \in BOOLEAN
    BY DEF IInv, TypeInv, PathStates
  <2>6. QED
    BY <1>0, <2>1, <2>2, <2>3, <2>4, <2>5
<1>6. CASE SkipPeriod
  BY <1>6 DEF SkipPeriod, Puts
<1>7. CASE EndCoupons
  BY <1>7 DEF EndCoupons, Puts
<1>8. CASE PayCoupon
  <2>1. /\ totals'.paths = totals.paths
        /\ totals'.ki = totals.ki /\ totals'.ko = totals.ko
        /\ closed' = closed
    BY <1>0, <1>8 DEF PayCoupon, TypeInv
  <2>2. pc' \in {"coupon", "settle"} /\ pc = "coupon"
    BY <1>8 DEF PayCoupon, Accruing
  <2>3. state'.ki = state.ki /\ state'.ko = state.ko
    BY <1>0, <1>8 DEF PayCoupon, TypeInv, PathStates
  <2>4. Puts(totals') = Puts(totals) /\ Puts(closed') = Puts(closed)
    BY <1>0, <1>8, <2>1, CouponIsNoPut
  <2>5. QED
    BY <2>1, <2>2, <2>3, <2>4
<1>9. CASE InvalidFixing
  BY <1>1, <1>9 DEF InvalidFixing, Fail
<1>10. CASE Settle
  <2>1. /\ totals'.paths = totals.paths + 1
        /\ totals'.ki = totals.ki /\ totals'.ko = totals.ko
        /\ closed' = totals'
    BY <1>0, <1>10 DEF Settle, TypeInv
  <2>2. pc = "settle" /\ pc' \in {"done", "start"}
    BY <1>10 DEF Settle
  <2>3. ASSUME Puts(totals') # {}
        PROVE  totals.ki > 0 /\ totals.ko < totals.paths + 1
    <3>1. CASE Puts(totals) # {}
      BY <2>2, <3>1
    <3>2. CASE Puts(totals) = {}
      <4>1. ~Terminated /\ state.ki
        BY <1>0, <1>10, <2>3, <3>2, NewPut
      <4>2. QED
        BY <1>0, <2>2, <4>1
    <3>3. QED
      BY <3>1, <3>2
  <2>4. /\ Puts(closed') = Puts(totals')
        /\ CountedPaths' = totals.paths + 1
        /\ closed'.ki = totals.ki /\ closed'.ko = totals.ko
        /\ closed'.paths = totals.paths + 1
    BY <1>0, <2>1, <2>2
  <2>5. pc' \notin {"coupon", "settle"}
    BY <2>2
  <2>6. QED
    BY <1>0, <2>1, <2>3, <2>4, <2>5
<1>11. CASE Done
  BY <1>11 DEF Done, vars, Puts
<1>12. QED
  BY <1>2, <1>3, <1>4, <1>5, <1>6, <1>7, <1>8, <1>9, <1>10, <1>11 DEF Next

LEMMA PutInvInductive == Spec => []PutInv
<1>1. IInv /\ IInv' /\ PutInv /\ [Next]_vars => PutInv'
  <2>1. ASSUME IInv, IInv', PutInv, Next PROVE PutInv'
    BY <2>1, StepPutInv
  <2>2. ASSUME PutInv, UNCHANGED vars PROVE PutInv'
    <3>1. /\ totals' = totals /\ closed' = closed /\ pc' = pc
          /\ state' = state
      BY <2>2 DEF vars
    <3>2. /\ Puts(totals') = Puts(totals) /\ Puts(closed') = Puts(closed)
          /\ CountedPaths' = CountedPaths /\ Terminated' = Terminated
      BY <3>1 DEF Puts, CountedPaths, Count, Terminated
    <3>3. QED
      BY <2>2, <3>1, <3>2 DEF PutInv
  <2>3. QED
    BY <2>1, <2>2
<1>2. QED
  BY <1>1, InitPutInv, IInvInductive, PTL DEF Spec

\* A reader of the two probabilities can rely on them: nobody paid a put when
\* no path is counted as knocked in, or when every path is counted as called.
THEOREM PutsExplained == Spec => []PutExplained
<1>1. IInv /\ PutInv => PutExplained
  <2>1. SUFFICES ASSUME PutInv, closed.ki = 0 \/ closed.ko = closed.paths,
                        NEW f \in DOMAIN closed.paid, f[1] = "PUT"
                 PROVE  FALSE
    BY DEF PutExplained
  <2>2. f \in Puts(closed)
    BY <2>1 DEF Puts
  <2>3. closed.ki > 0 /\ closed.ko < closed.paths
    BY <2>1, <2>2 DEF PutInv
  <2>4. QED
    BY <2>1, <2>3 DEF PutInv
<1>2. QED
  BY <1>1, IInvInductive, PutInvInductive, PTL

(***************************************************************************)
(* What a knock-out ends.                                                  *)
(***************************************************************************)
LEMMA CouponOfCalledPath ==
  ASSUME TypeInv, PayCoupon, Terminated, NEW f \in DOMAIN totals'.paid,
         Held(f, totals'.paid) > Held(f, totals.paid)
  PROVE  \/ f[3] <= Dates[state.koObs]
         \/ f[1] = "COUPON" /\ sheet.periods[f[2]].end < Dates[state.koObs]
<1>1. Accruing /\ totals'.paid = totals.paid (+) CouponCash
  BY DEF PayCoupon, CouponCash, TypeInv
<1>2. Held(f, totals.paid) \in Nat
  BY DEF TypeInv, IsABag, Held
<1>3. f \in DOMAIN CouponCash
  <2>1. SUFFICES ASSUME f \notin DOMAIN CouponCash PROVE FALSE
    OBVIOUS
  <2>2. IsABag(totals.paid) /\ IsABag(CouponCash)
    BY <1>1, CouponBag DEF TypeInv
  <2>3. Held(f, totals.paid (+) CouponCash) = Held(f, totals.paid)
    BY <2>1, <2>2, SumIsBag
  <2>4. QED
    BY <1>1, <1>2, <2>3
<1>4. f = <<"COUPON", period, CouponDate>>
  BY <1>1, <1>3, CouponBag
<1>5. state.koObs \in Obs /\ state.koObs \in Nat /\ Dates[state.koObs] \in Nat
  BY CubeFacts DEF TypeInv, PathStates
<1>6. CASE IsKoPeriod
  BY <1>4, <1>5, <1>6 DEF CouponDate
<1>7. CASE ~IsKoPeriod
  <2>1. End \in Nat /\ ThisPeriod.end \in Nat
    BY <1>1, PeriodFacts, CubeFacts DEF Periods
  <2>2. state.koObs > OnOrBefore(ThisPeriod.end)
    BY <1>5, <1>7, <2>1 DEF IsKoPeriod, End
  <2>3. Dates[state.koObs] > ThisPeriod.end
    BY <1>5, <2>1, <2>2, Lookups
  <2>4. QED
    BY <1>4, <1>5, <2>1, <2>3 DEF ThisPeriod
<1>8. QED
  BY <1>6, <1>7

LEMMA SettlementOfCalledPath ==
  ASSUME TypeInv, Settle, Terminated, NEW f \in DOMAIN totals'.paid,
         Held(f, totals'.paid) > Held(f, totals.paid)
  PROVE  f[3] = Dates[state.koObs]
<1>1. totals'.paid = totals.paid (+) Funding (+) ResidualPut
  BY DEF Settle, TypeInv
<1>2. Held(f, totals.paid) \in Nat
  BY DEF TypeInv, IsABag, Held
<1>3. f \in DOMAIN Funding
  <2>1. SUFFICES ASSUME f \notin DOMAIN Funding PROVE FALSE
    OBVIOUS
  <2>2. Held(f, totals'.paid) = Held(f, totals.paid)
    BY <1>1, <2>1, SettledBags, SettledSum
  <2>3. QED
    BY <1>2, <2>2
<1>4. QED
  BY <1>3, SettledBags

LEMMA CallStep ==
  ASSUME TypeInv, Next, Terminated, NEW f \in DOMAIN totals'.paid,
         Held(f, totals'.paid) > Held(f, totals.paid)
  PROVE  \/ f[3] <= Dates[state.koObs]
         \/ f[1] = "COUPON" /\ sheet.periods[f[2]].end < Dates[state.koObs]
<1>1. Held(f, totals.paid) \in Nat /\ Dates[state.koObs] \in Nat
  BY CubeFacts DEF TypeInv, IsABag, Held, PathStates
<1>2. totals'.paid # totals.paid /\ totals'.paid # EmptyBag
  BY <1>1, EmptyIsBag
<1>3. ASSUME NEW status PROVE ~Fail(status)
  BY <1>2 DEF Fail, Zero
<1>4. CASE PayCoupon
  BY <1>4, CouponOfCalledPath
<1>5. CASE Settle
  BY <1>1, <1>5, SettlementOfCalledPath
<1>6. CASE FinishObserving
  BY <1>2, <1>6 DEF FinishObserving, TypeInv
<1>7. CASE InvalidFixing
  BY <1>3, <1>7 DEF InvalidFixing
<1>8. CASE Compile
  BY <1>2, <1>3, <1>8 DEF Compile
<1>9. CASE StartPath \/ Observe \/ SkipPeriod \/ EndCoupons \/ Done
  BY <1>2, <1>9 DEF StartPath, Observe, SkipPeriod, EndCoupons, Done, vars
<1>10. QED
  BY <1>4, <1>5, <1>6, <1>7, <1>8, <1>9 DEF Next

\* A call ends the note: what a called path pays settles on the day of the
\* call at the latest, but for coupons of periods that ended before it.
THEOREM CallEndsTheNote == Spec => NothingAfterCall
<1> DEFINE Late ==
      Terminated =>
        \A f \in DOMAIN totals'.paid :
          Held(f, totals'.paid) > Held(f, totals.paid) =>
            \/ f[3] <= Dates[state.koObs]
            \/ f[1] = "COUPON" /\ sheet.periods[f[2]].end < Dates[state.koObs]
<1>1. IInv /\ [Next]_vars => [Late]_vars
  BY CallStep DEF IInv
<1>2. QED
  BY <1>1, IInvInductive, PTL DEF Spec, NothingAfterCall

-----------------------------------------------------------------------------
(***************************************************************************)
(* The sums of a call: principal and coupons of all its paths.             *)
(***************************************************************************)
\* The cash of the flows in a set.
Cashed(bag, flows) == SumFunctionOnSet(bag, DOMAIN bag \cap flows)

LEMMA AddedCash ==
  ASSUME NEW A, IsABag(A), IsFiniteSet(DOMAIN A),
         NEW flow, NEW amount \in Nat, NEW flows
  PROVE  /\ IsABag(A (+) Cash(flow, amount))
         /\ IsFiniteSet(DOMAIN (A (+) Cash(flow, amount)))
         /\ Cashed(A (+) Cash(flow, amount), flows)
              = Cashed(A, flows) + IF flow \in flows THEN amount ELSE 0
<1> DEFINE B == Cash(flow, amount)
           N == A (+) B
           F == DOMAIN A \cap flows
           R == F \ {flow}
<1>1. IsABag(B) /\ DOMAIN B = (IF amount = 0 THEN {} ELSE {flow})
  <2>1. IsABag(B)
    BY CashIsBag
  <2>2. DOMAIN B = (IF amount = 0 THEN {} ELSE {flow})
    BY EmptyIsBag DEF Cash
  <2>3. QED
    BY <2>1, <2>2
<1>2. amount # 0 => B[flow] = amount
  BY DEF Cash
<1> HIDE DEF B
<1>3. /\ IsABag(N) /\ DOMAIN N = DOMAIN A \cup DOMAIN B
      /\ \A f : f \notin DOMAIN B => Held(f, N) = Held(f, A)
  BY <1>1, SumIsBag
<1>4. \A f \in DOMAIN N : N[f] = Held(f, A) + Held(f, B)
  BY DEF Held, (+)
<1> HIDE DEF N
<1>5. IsFiniteSet(DOMAIN N)
  BY <1>1, <1>3, FS_AddElement, FS_EmptySet
<1>6. /\ \A f \in DOMAIN A : A[f] \in Nat /\ A[f] \in Int
      /\ \A f \in DOMAIN N : N[f] \in Nat /\ N[f] \in Int
  BY <1>3 DEF IsABag
<1>7. /\ IsFiniteSet(F) /\ IsFiniteSet(R) /\ F \subseteq DOMAIN A
      /\ R \subseteq F /\ flow \notin R
  BY FS_Subset
<1>8. \A f \in DOMAIN A : f # flow \/ amount = 0 => f \in DOMAIN N /\ N[f] = A[f]
  BY <1>1, <1>3, <1>6 DEF Held
<1>9. CASE amount = 0 \/ flow \notin flows
  <2>1. DOMAIN N \cap flows = F
    BY <1>1, <1>3, <1>9
  <2>2. \A f \in F : A[f] \in Int /\ N[f] = A[f]
    BY <1>6, <1>8, <1>9
  <2>3. Cashed(N, flows) = Cashed(A, flows)
    <3> HIDE DEF F
    <3>1. SumFunctionOnSet(A, F) = SumFunctionOnSet(N, F)
      BY <1>7, <2>2, SumSame
    <3>2. QED
      BY <2>1, <3>1 DEF Cashed, F
  <2>4. Cashed(A, flows) \in Nat
    BY <1>6, <1>7, SumNat DEF Cashed
  <2>5. QED
    BY <1>3, <1>5, <1>9, <2>3, <2>4 DEF N, B
<1>10. CASE amount # 0 /\ flow \in flows
  <2> DEFINE base == SumFunctionOnSet(A, R)
  <2>1. DOMAIN N \cap flows = R \cup {flow} /\ flow \in DOMAIN N
    BY <1>1, <1>3, <1>10
  <2>2. \A f \in R : A[f] \in Int /\ A[f] \in Nat /\ N[f] = A[f] /\ f \in DOMAIN N
    BY <1>6, <1>7, <1>8
  <2> HIDE DEF R, F
  <2>3. SumFunctionOnSet(N, R) = base /\ base \in Nat
    BY <1>7, <2>2, SumSame, SumNat
  <2>4. SumFunctionOnSet(N, R \cup {flow}) = base + N[flow]
    BY <1>6, <1>7, <2>1, <2>2, <2>3, SumAdd
  <2>5. SumFunctionOnSet(A, F) = base + Held(flow, A) /\ Held(flow, A) \in Nat
    <3>1. CASE flow \in DOMAIN A
      <4>1. F = R \cup {flow}
        BY <1>10, <3>1 DEF F, R
      <4>2. QED
        BY <1>6, <1>7, <2>2, <3>1, <4>1, SumAdd DEF Held
    <3>2. CASE flow \notin DOMAIN A
      <4>1. F = R
        BY <3>2 DEF F, R
      <4>2. QED
        BY <2>3, <3>2, <4>1 DEF Held
    <3>3. QED
      BY <3>1, <3>2
  <2>6. N[flow] = Held(flow, A) + amount
    BY <1>1, <1>2, <1>4, <1>10, <2>1 DEF Held
  <2>7. Cashed(N, flows) = Cashed(A, flows) + amount
    BY <2>1, <2>3, <2>4, <2>5, <2>6 DEF Cashed, F
  <2>8. QED
    BY <1>3, <1>5, <1>10, <2>7 DEF N, B
<1>11. QED
  BY <1>9, <1>10

LEMMA Times ==
  ASSUME NEW a \in Nat, NEW b \in Nat
  PROVE  (a + 1) * b = a * b + b
OBVIOUS

(***************************************************************************)
(* Principal.                                                              *)
(***************************************************************************)
Principal == {f \in Flows : f[1] = "FUNDING"}
Early == {f \in Principal : f[3] # sheet.maturity}
Coupons == {f \in Flows : f[1] = "COUPON"}
OffMaturity == \A k \in Obs : Dates[k] # sheet.maturity

\* The sums so far: a path that is called is counted before it is paid.
PrincipalInv ==
  /\ IsFiniteSet(DOMAIN totals.paid)
  /\ Cashed(totals.paid, Principal) = totals.paths * FundingAmount(sheet)
  /\ OffMaturity =>
       Cashed(totals.paid, Early)
         + (IF pc \in {"coupon", "settle"} /\ Terminated
              THEN FundingAmount(sheet) ELSE 0)
         = totals.ko * FundingAmount(sheet)

\* The sums of the completed paths.
ClosedInv ==
  /\ IsFiniteSet(DOMAIN closed.paid)
  /\ IsABag(closed.paid) /\ DOMAIN closed.paid \subseteq Flows
  /\ Cashed(closed.paid, Principal) = closed.paths * FundingAmount(sheet)
  /\ OffMaturity =>
       Cashed(closed.paid, Early) = closed.ko * FundingAmount(sheet)

LEMMA NothingCashed ==
  /\ IsFiniteSet(DOMAIN Zero.paid)
  /\ \A flows : Cashed(Zero.paid, flows) = 0
<1>1. DOMAIN Zero.paid = {}
  BY EmptyIsBag DEF Zero
<1>2. \A flows : {} \cap flows = {}
  OBVIOUS
<1>3. QED
  BY <1>1, <1>2, SumEmpty, FS_EmptySet DEF Cashed

LEMMA CashedNat ==
  ASSUME NEW A, IsABag(A), IsFiniteSet(DOMAIN A), NEW flows
  PROVE  Cashed(A, flows) \in Nat
<1>1. IsFiniteSet(DOMAIN A \cap flows)
  BY FS_Subset
<1>2. \A f \in DOMAIN A : A[f] \in Nat
  BY DEF IsABag
<1>3. QED
  BY <1>1, <1>2, SumNat DEF Cashed

LEMMA FundingNat ==
  ASSUME TypeInv
  PROVE  FundingAmount(sheet) \in Nat
BY SheetFacts DEF FundingAmount, TypeInv

\* What Settle adds to the cash of some flows.
LEMMA SettledCash ==
  ASSUME TypeInv, IsFiniteSet(DOMAIN totals.paid), NEW flows
  PROVE  LET paid == totals.paid (+) Funding (+) ResidualPut
             flow == IF Terminated
                       THEN <<"FUNDING", state.koObs, Dates[state.koObs]>>
                       ELSE <<"FUNDING", FinalIndex, sheet.maturity>>
         IN /\ IsFiniteSet(DOMAIN paid)
            /\ flow \in Principal
            /\ (\A f \in flows : f[1] # "PUT") =>
                 Cashed(paid, flows) = Cashed(totals.paid, flows)
                   + IF flow \in flows THEN FundingAmount(sheet) ELSE 0
<1> DEFINE flow == IF Terminated
                     THEN <<"FUNDING", state.koObs, Dates[state.koObs]>>
                     ELSE <<"FUNDING", FinalIndex, sheet.maturity>>
           put == <<"PUT", 0, sheet.maturity>>
           owed == sheet.notional * TerminalPayoff(sheet, state.ki, state.terminal)
           A == totals.paid (+) Funding
           B == A (+) ResidualPut
<1>1. Funding = Cash(flow, FundingAmount(sheet)) /\ FundingAmount(sheet) \in Nat
  BY FundingNat DEF Funding
<1>2. IsABag(totals.paid)
  BY DEF TypeInv
<1>3. /\ IsABag(A) /\ IsFiniteSet(DOMAIN A)
      /\ Cashed(A, flows) = Cashed(totals.paid, flows)
           + IF flow \in flows THEN FundingAmount(sheet) ELSE 0
  <2> HIDE DEF flow
  <2>1. QED
    BY <1>1, <1>2, AddedCash
<1>4. flow \in Principal
  <2>1. state.koObs \in Nat /\ Dates[state.koObs] \in Nat
        /\ FinalIndex \in Nat /\ sheet.maturity \in Nat
    BY FinalIndexType, CubeFacts, SheetFacts DEF TypeInv, PathStates
  <2>2. QED
    BY <2>1 DEF Principal, Flows
<1>5. ResidualPut = Cash(put, IF Terminated THEN 0 ELSE owed)
  BY DEF ResidualPut, Cash
<1>6. (IF Terminated THEN 0 ELSE owed) \in Nat
  BY AmountTypes DEF TypeInv, PathStates
<1> HIDE DEF A, owed
<1>7. /\ IsFiniteSet(DOMAIN B)
      /\ Cashed(B, flows) = Cashed(A, flows)
           + IF put \in flows THEN (IF Terminated THEN 0 ELSE owed) ELSE 0
  <2> HIDE DEF put
  <2>1. QED
    BY <1>3, <1>5, <1>6, AddedCash
<1>8. Cashed(A, flows) \in Nat
  BY <1>3, CashedNat
<1> HIDE DEF B
<1>9. (\A f \in flows : f[1] # "PUT") => Cashed(B, flows) = Cashed(A, flows)
  <2>1. put[1] = "PUT"
    OBVIOUS
  <2>2. QED
    BY <1>7, <1>8, <2>1
<1>10. QED
  BY <1>3, <1>4, <1>7, <1>9 DEF A, B

\* A coupon is no principal.
LEMMA PaidCash ==
  ASSUME TypeInv, PayCoupon, IsFiniteSet(DOMAIN totals.paid), NEW flows
  PROVE  /\ IsFiniteSet(DOMAIN totals'.paid)
         /\ Cashed(totals'.paid, flows) = Cashed(totals.paid, flows)
              + IF <<"COUPON", period, CouponDate>> \in flows
                  THEN sheet.notional * CouponRate ELSE 0
<1>1. totals'.paid = totals.paid
        (+) Cash(<<"COUPON", period, CouponDate>>, sheet.notional * CouponRate)
  BY DEF PayCoupon, TypeInv
<1>2. IsABag(totals.paid)
  BY DEF TypeInv
<1>3. sheet.notional * CouponRate \in Nat
  <2>1. CouponRate \in Nat /\ sheet.notional \in Nat
    BY CouponTypes, SheetFacts DEF TypeInv, PayCoupon
  <2>2. QED
    BY <2>1
<1>4. QED
  BY <1>1, <1>2, <1>3, AddedCash

LEMMA PrincipalStep ==
  ASSUME IInv, IInv', PrincipalInv, ClosedInv, Next
  PROVE  PrincipalInv' /\ ClosedInv'
<1> DEFINE F == FundingAmount(sheet)
<1>1. /\ TypeInv /\ F \in Nat /\ totals.paths \in Nat /\ totals.ko \in Nat
  BY FundingNat, SheetAssumption DEF IInv, CountInv, CountedPaths, Count
<1>2. /\ UNCHANGED sheet => UNCHANGED <<FundingAmount(sheet), Early, OffMaturity>>
  BY DEF FundingAmount, Early, OffMaturity
<1>3. UNCHANGED sheet
  BY DEF Next, Compile, Fail, StartPath, Observe, FinishObserving, SkipPeriod,
         EndCoupons, PayCoupon, InvalidFixing, Settle, Done, vars
<1>4. F' = F /\ Early' = Early /\ (OffMaturity' <=> OffMaturity)
  BY <1>2, <1>3
<1> HIDE DEF F
<1>5. ASSUME NEW status, Fail(status) PROVE PrincipalInv' /\ ClosedInv'
  <2>1. totals' = Zero /\ closed' = Zero /\ pc' = "done"
    BY <1>5 DEF Fail
  <2>2. 0 * F' = 0
    BY <1>1, <1>4
  <2>3. \A flows : Cashed(Zero.paid, flows) = 0
    BY NothingCashed
  <2>4. Zero.paths = 0 /\ Zero.ko = 0
    BY DEF Zero
  <2>5. QED
    BY <2>1, <2>2, <2>3, <2>4, NothingCashed, ZeroType
    DEF PrincipalInv, ClosedInv, F
<1>6. ASSUME UNCHANGED <<totals, closed>>,
             UNCHANGED (pc \in {"coupon", "settle"} /\ Terminated)
      PROVE  PrincipalInv' /\ ClosedInv'
  <2>2. PrincipalInv'
    <3>1. Cashed(totals.paid, Principal)' = Cashed(totals.paid, Principal)
      BY <1>6 DEF Cashed
    <3>2. Cashed(totals.paid, Early)' = Cashed(totals.paid, Early)
      BY <1>4, <1>6 DEF Cashed
    <3>3. QED
      BY <1>4, <1>6, <3>1, <3>2 DEF PrincipalInv, F
  <2>3. ClosedInv'
    <3>1. Cashed(closed.paid, Principal)' = Cashed(closed.paid, Principal)
      BY <1>6 DEF Cashed
    <3>2. Cashed(closed.paid, Early)' = Cashed(closed.paid, Early)
      BY <1>4, <1>6 DEF Cashed
    <3>3. QED
      BY <1>4, <1>6, <3>1, <3>2 DEF ClosedInv, F
  <2>4. QED
    BY <2>2, <2>3
<1>7. CASE Compile
  <2>1. CASE Refusal(sheet) = "verified"
    <3>1. UNCHANGED <<totals, closed, state>> /\ pc = "compile" /\ pc' = "start"
      BY <1>7, <2>1 DEF Compile
    <3>2. QED
      BY <1>6, <3>1
  <2>2. CASE Refusal(sheet) # "verified"
    BY <1>5, <1>7, <2>2 DEF Compile
  <2>3. QED
    BY <2>1, <2>2
<1>8. CASE StartPath
  <2>1. UNCHANGED <<totals, closed>> /\ pc = "start" /\ pc' = "observe"
    BY <1>8 DEF StartPath
  <2>2. QED
    BY <1>6, <2>1
<1>9. CASE Observe
  <2>1. UNCHANGED <<totals, closed>> /\ pc = "observe" /\ pc' = "observe"
    BY <1>9 DEF Observe
  <2>2. QED
    BY <1>6, <2>1
<1>10. CASE SkipPeriod
  <2>1. UNCHANGED <<totals, closed, state>> /\ pc = "coupon" /\ pc' = "coupon"
    BY <1>10 DEF SkipPeriod
  <2>2. QED
    BY <1>6, <2>1 DEF Terminated
<1>11. CASE EndCoupons
  <2>1. UNCHANGED <<totals, closed, state>> /\ pc = "coupon" /\ pc' = "settle"
    BY <1>11 DEF EndCoupons
  <2>2. QED
    BY <1>6, <2>1 DEF Terminated
<1>12. CASE Done
  <2>1. UNCHANGED <<totals, closed, state, pc>>
    BY <1>12 DEF Done, vars
  <2>2. QED
    BY <1>6, <2>1 DEF Terminated
<1>13. CASE FinishObserving
  <2>1. /\ pc = "observe" /\ pc' = "coupon" /\ state' = Observed
        /\ totals'.paid = totals.paid /\ totals'.paths = totals.paths
        /\ totals'.ko = totals.ko + Count(KoNow # "none")
        /\ UNCHANGED closed
    BY <1>1, <1>13 DEF FinishObserving, TypeInv
  <2>2. Terminated' <=> KoNow # "none"
    BY <1>1, <2>1 DEF Terminated, Observed, TypeInv, PathStates
  <2>3. /\ Cashed(totals.paid, Principal)' = Cashed(totals.paid, Principal)
        /\ Cashed(totals.paid, Early)' = Cashed(totals.paid, Early)
        /\ Cashed(closed.paid, Principal)' = Cashed(closed.paid, Principal)
        /\ Cashed(closed.paid, Early)' = Cashed(closed.paid, Early)
    BY <1>4, <2>1 DEF Cashed
  <2>4. (totals.ko + 1) * F = totals.ko * F + F
    BY <1>1, Times
  <2>5. PrincipalInv'
    <3>1. Cashed(totals.paid, Early) \in Nat
      BY <1>1, CashedNat DEF TypeInv, PrincipalInv
    <3>2. OffMaturity => Cashed(totals.paid, Early) = totals.ko * F
      BY <2>1, <3>1, <1>1 DEF PrincipalInv, F
    <3>3. OffMaturity => Cashed(totals.paid, Early) + (IF Terminated' THEN F ELSE 0)
                           = totals'.ko * F
      <4>1. CASE KoNow # "none"
        BY <1>1, <2>1, <2>2, <2>4, <3>1, <3>2, <4>1 DEF Count
      <4>2. CASE KoNow = "none"
        <5>1. totals'.ko = totals.ko /\ ~Terminated'
          BY <1>1, <2>1, <2>2, <4>2 DEF Count
        <5>2. QED
          BY <3>1, <3>2, <5>1
      <4>3. QED
        BY <4>1, <4>2
    <3>4. IsFiniteSet(DOMAIN totals'.paid)
      BY <2>1 DEF PrincipalInv
    <3>5. Cashed(totals.paid, Principal)' = totals'.paths * F
      BY <2>1, <2>3 DEF PrincipalInv, F
    <3>6. QED
      BY <1>4, <2>1, <2>3, <3>3, <3>4, <3>5 DEF PrincipalInv, F
  <2>6. ClosedInv'
    BY <1>4, <2>1, <2>3 DEF ClosedInv, F
  <2>7. QED
    BY <2>5, <2>6
<1>14. CASE PayCoupon
  <2>1. /\ pc = "coupon" /\ pc' \in {"coupon", "settle"}
        /\ state'.ko = state.ko /\ UNCHANGED closed
        /\ totals'.paths = totals.paths /\ totals'.ko = totals.ko
    BY <1>1, <1>14 DEF PayCoupon, Accruing, TypeInv, PathStates
  <2>2. /\ <<"COUPON", period, CouponDate>> \notin Principal
        /\ <<"COUPON", period, CouponDate>> \notin Early
    BY DEF Principal, Early
  <2>3. \A flows : Cashed(totals.paid, flows) \in Nat
    BY <1>1, CashedNat DEF TypeInv, PrincipalInv
  <2>4. /\ IsFiniteSet(DOMAIN totals'.paid)
        /\ Cashed(totals'.paid, Principal) = Cashed(totals.paid, Principal)
        /\ Cashed(totals'.paid, Early) = Cashed(totals.paid, Early)
    BY <1>1, <1>14, <2>2, <2>3, PaidCash DEF PrincipalInv
  <2>5. /\ Cashed(totals.paid, Principal)' = Cashed(totals'.paid, Principal)
        /\ Cashed(totals.paid, Early)' = Cashed(totals'.paid, Early)
        /\ Cashed(closed.paid, Principal)' = Cashed(closed.paid, Principal)
        /\ Cashed(closed.paid, Early)' = Cashed(closed.paid, Early)
    BY <1>4, <2>1 DEF Cashed
  <2>6. PrincipalInv'
    BY <1>4, <2>1, <2>4, <2>5 DEF PrincipalInv, F, Terminated
  <2>7. ClosedInv'
    BY <1>4, <2>1, <2>5 DEF ClosedInv, F
  <2>8. QED
    BY <2>6, <2>7
<1>15. CASE InvalidFixing
  BY <1>5, <1>15 DEF InvalidFixing
<1>16. CASE Settle
  <2> DEFINE flow == IF Terminated
                       THEN <<"FUNDING", state.koObs, Dates[state.koObs]>>
                       ELSE <<"FUNDING", FinalIndex, sheet.maturity>>
  <2>1. /\ totals'.paid = totals.paid (+) Funding (+) ResidualPut
        /\ totals'.paths = totals.paths + 1 /\ totals'.ko = totals.ko
        /\ closed' = totals' /\ pc = "settle" /\ pc' \in {"start", "done"}
    BY <1>1, <1>16 DEF Settle, TypeInv
  <2>2. /\ \A f \in Principal : f[1] # "PUT"
        /\ \A f \in Early : f[1] # "PUT"
    BY DEF Principal, Early
  <2>3. /\ IsFiniteSet(DOMAIN totals'.paid) /\ flow \in Principal
        /\ Cashed(totals'.paid, Principal)
             = Cashed(totals.paid, Principal) + F
        /\ Cashed(totals'.paid, Early)
             = Cashed(totals.paid, Early) + IF flow \in Early THEN F ELSE 0
    <3>1. IsFiniteSet(DOMAIN totals.paid)
      BY DEF PrincipalInv
    <3> HIDE DEF flow
    <3>2. /\ IsFiniteSet(DOMAIN totals'.paid) /\ flow \in Principal
          /\ Cashed(totals'.paid, Principal)
               = Cashed(totals.paid, Principal)
                   + IF flow \in Principal THEN F ELSE 0
      BY <1>1, <2>1, <2>2, <3>1, SettledCash DEF F, flow
    <3>3. Cashed(totals'.paid, Early)
            = Cashed(totals.paid, Early) + IF flow \in Early THEN F ELSE 0
      BY <1>1, <2>1, <2>2, <3>1, SettledCash DEF F, flow
    <3>4. QED
      BY <3>2, <3>3
  <2>4. OffMaturity => (flow \in Early <=> Terminated)
    <3>1. state.koObs \in Obs
      BY <1>1 DEF TypeInv, PathStates
    <3>2. OffMaturity => (flow[3] # sheet.maturity <=> Terminated)
      BY <3>1 DEF OffMaturity
    <3> HIDE DEF flow
    <3>3. QED
      BY <2>3, <3>2 DEF Early
  <2> HIDE DEF flow
  <2>5. (totals.paths + 1) * F = totals.paths * F + F
    BY <1>1, Times
  <2>6. /\ Cashed(totals'.paid, Principal) = totals'.paths * F
        /\ OffMaturity => Cashed(totals'.paid, Early) = totals'.ko * F
    <3>1. Cashed(totals'.paid, Principal) = totals'.paths * F
      BY <2>1, <2>3, <2>5 DEF PrincipalInv, F
    <3>2. ASSUME OffMaturity PROVE Cashed(totals'.paid, Early) = totals.ko * F
      BY <2>1, <2>3, <2>4, <3>2 DEF PrincipalInv, F
    <3>3. QED
      BY <2>1, <3>1, <3>2
  <2>7. /\ IsABag(totals'.paid) /\ DOMAIN totals'.paid \subseteq Flows
    BY DEF IInv, TypeInv
  <2>8. /\ Cashed(totals.paid, Principal)' = Cashed(totals'.paid, Principal)
        /\ Cashed(totals.paid, Early)' = Cashed(totals'.paid, Early)
        /\ Cashed(closed.paid, Principal)' = Cashed(totals'.paid, Principal)
        /\ Cashed(closed.paid, Early)' = Cashed(totals'.paid, Early)
    BY <1>4, <2>1 DEF Cashed
  <2>9. Cashed(totals'.paid, Early) \in Nat
    BY <2>3, <2>7, CashedNat
  <2>10. PrincipalInv'
    BY <1>4, <2>1, <2>3, <2>6, <2>8, <2>9 DEF PrincipalInv, F
  <2>11. ClosedInv'
    BY <1>4, <2>1, <2>3, <2>6, <2>7, <2>8 DEF ClosedInv, F
  <2>12. QED
    BY <2>10, <2>11
<1>17. QED
  BY <1>7, <1>8, <1>9, <1>10, <1>11, <1>12, <1>13, <1>14, <1>15, <1>16 DEF Next

LEMMA PrincipalInductive == Spec => [](PrincipalInv /\ ClosedInv)
<1>1. Init => PrincipalInv /\ ClosedInv
  <2> SUFFICES ASSUME Init PROVE PrincipalInv /\ ClosedInv
    OBVIOUS
  <2>1. totals = Zero /\ closed = Zero /\ pc = "compile"
    BY DEF Init
  <2>2. FundingAmount(sheet) \in Nat
    BY InitIInv, FundingNat DEF IInv
  <2>3. Zero.paths = 0 /\ Zero.ko = 0 /\ 0 * FundingAmount(sheet) = 0
    BY <2>2 DEF Zero
  <2>4. QED
    BY <2>1, <2>3, NothingCashed, ZeroType DEF PrincipalInv, ClosedInv
<1>2. IInv /\ IInv' /\ PrincipalInv /\ ClosedInv /\ [Next]_vars
        => PrincipalInv' /\ ClosedInv'
  <2> SUFFICES ASSUME IInv, IInv', PrincipalInv, ClosedInv, [Next]_vars
               PROVE  PrincipalInv' /\ ClosedInv'
    OBVIOUS
  <2>1. CASE Next
    BY <2>1, PrincipalStep
  <2>2. CASE UNCHANGED vars
    BY <2>2 DEF vars, PrincipalInv, ClosedInv, Cashed, Early, OffMaturity,
                FundingAmount, Terminated
  <2>3. QED
    BY <2>1, <2>2
<1>3. QED
  BY <1>1, <1>2, IInvInductive, PTL DEF Spec

\* Over a cube of any number of paths the native engine returns every path's
\* principal exactly once: in all as often as paths were completed, and early
\* as often as paths were counted as called (engine.cpp, price).
THEOREM PrincipalReturnedOnce == Spec => []PrincipalOnce
<1>1. ClosedInv => PrincipalOnce
  <2> SUFFICES ASSUME ClosedInv PROVE PrincipalOnce
    OBVIOUS
  <2>1. {f \in DOMAIN closed.paid : f[1] = "FUNDING"}
          = DOMAIN closed.paid \cap Principal
    BY DEF ClosedInv, Principal
  <2>2. {f \in DOMAIN closed.paid : f[1] = "FUNDING" /\ f[3] # sheet.maturity}
          = DOMAIN closed.paid \cap Early
    BY DEF ClosedInv, Principal, Early
  <2>3. QED
    BY <2>1, <2>2 DEF ClosedInv, PrincipalOnce, Amount, Cashed, OffMaturity
<1>2. QED
  BY <1>1, PrincipalInductive, PTL

(***************************************************************************)
(* Coupons.                                                                *)
(***************************************************************************)
\* The full rate of a period, of the first n periods, of the schedule, and the
\* best knock-out coupon of each kind.
Rates == [i \in DOMAIN sheet.periods |->
            sheet.periods[i].fixed + sheet.periods[i].rate]
RateUpTo(n) == SumFunctionOnSet(Rates, 1 .. n)
Extras(kind) ==
  [i \in DOMAIN sheet.periods |->
     IF kind = "local" THEN sheet.periods[i].localCoupon
                       ELSE sheet.periods[i].globalCoupon]
Best(kind) == Max({0} \cup {Extras(kind)[i] : i \in DOMAIN sheet.periods})

\* The periods behind the path being priced, the knock-out coupon it may still
\* pay, and the rates its paths so far may have paid.
Passed == IF pc = "coupon" THEN period - 1
          ELSE IF pc = "settle" THEN Len(sheet.periods) ELSE 0
Open == IF pc = "coupon" /\ Terminated THEN Best(state.ko) ELSE 0
Budget == totals.paths * RateUpTo(Len(sheet.periods)) + RateUpTo(Passed)
            + totals.local * Best("local") + totals.global * Best("global")

BudgetInv ==
  /\ IsFiniteSet(DOMAIN totals.paid)
  /\ pc = "observe" => period = 1
  /\ Cashed(totals.paid, Coupons) + sheet.notional * Open
       <= sheet.notional * Budget

ClosedCoupons ==
  /\ DOMAIN closed.paid \subseteq Flows
  /\ Cashed(closed.paid, Coupons) <=
       sheet.notional * (closed.paths * RateUpTo(Len(sheet.periods))
         + closed.local * Best("local") + closed.global * Best("global"))

LEMMA SheetRates ==
  ASSUME TypeInv
  PROVE  /\ Len(sheet.periods) \in Nat /\ sheet.notional \in Nat
         /\ DOMAIN sheet.periods = 1 .. Len(sheet.periods)
         /\ \A n \in 0 .. Len(sheet.periods) :
              /\ IsFiniteSet(1 .. n) /\ RateUpTo(n) \in Nat
              /\ \A i \in 1 .. n : Rates[i] \in Nat
              /\ RateUpTo(n) <= RateUpTo(Len(sheet.periods))
         /\ RateUpTo(0) = 0
         /\ \A n \in 1 .. Len(sheet.periods) :
              RateUpTo(n) = RateUpTo(n - 1) + sheet.periods[n].fixed
                              + sheet.periods[n].rate
<1> DEFINE N == Len(sheet.periods)
<1>1. N \in Nat /\ sheet.notional \in Nat /\ DOMAIN sheet.periods = 1 .. N
  <2>1. sheet.periods \in Seq(Periods)
    BY SheetTypes DEF TypeInv
  <2>2. QED
    BY <2>1, SheetFacts DEF TypeInv
<1>2. \A i \in 1 .. N : /\ Rates[i] = sheet.periods[i].fixed + sheet.periods[i].rate
                        /\ sheet.periods[i].fixed \in Nat
                        /\ sheet.periods[i].rate \in Nat
                        /\ Rates[i] \in Nat /\ Rates[i] \in Int
  <2>1. \A i \in 1 .. N : sheet.periods[i] \in Periods
    BY SheetFacts DEF TypeInv
  <2>2. \A i \in 1 .. N : /\ sheet.periods[i].fixed \in Nat
                          /\ sheet.periods[i].rate \in Nat
    BY <2>1 DEF Periods
  <2>3. \A i \in 1 .. N :
          Rates[i] = sheet.periods[i].fixed + sheet.periods[i].rate
    BY <1>1 DEF Rates
  <2>4. QED
    BY <2>2, <2>3
<1> HIDE DEF N
<1>3. ASSUME NEW n \in 0 .. N
      PROVE  /\ IsFiniteSet(1 .. n) /\ RateUpTo(n) \in Nat
             /\ \A i \in 1 .. n : Rates[i] \in Nat
             /\ RateUpTo(n) <= RateUpTo(N)
  <2>1. n \in Nat /\ 1 .. n \subseteq 1 .. N
    BY <1>1
  <2>2. IsFiniteSet(1 .. n) /\ IsFiniteSet(1 .. N)
    BY <1>1, <2>1, FS_Interval
  <2>3. \A i \in 1 .. n : Rates[i] \in Nat
    BY <1>2, <2>1
  <2>4. RateUpTo(n) \in Nat
    BY <2>2, <2>3, SumNat DEF RateUpTo
  <2>5. RateUpTo(n) <= RateUpTo(N)
    BY <1>2, <2>1, <2>2, SumPart DEF RateUpTo
  <2>6. QED
    BY <2>2, <2>3, <2>4, <2>5
<1>4. RateUpTo(0) = 0
  <2>1. 1 .. 0 = {}
    OBVIOUS
  <2>2. QED
    BY <2>1, SumEmpty DEF RateUpTo
<1>5. ASSUME NEW n \in 1 .. N
      PROVE  RateUpTo(n) = RateUpTo(n - 1) + sheet.periods[n].fixed
                             + sheet.periods[n].rate
  <2>1. /\ n - 1 \in 0 .. N /\ 1 .. n = 1 .. n - 1 \cup {n}
        /\ n \notin 1 .. n - 1 /\ 1 .. n \subseteq 1 .. N
    BY <1>1
  <2>2. IsFiniteSet(1 .. n - 1) /\ RateUpTo(n - 1) \in Nat
    BY <1>3, <2>1
  <2>3. \A i \in 1 .. n - 1 \cup {n} : Rates[i] \in Int
    BY <1>2, <2>1
  <2>4. SumFunctionOnSet(Rates, 1 .. n - 1 \cup {n})
          = SumFunctionOnSet(Rates, 1 .. n - 1) + Rates[n]
    <3> DEFINE I == 1 .. n - 1
    <3> HIDE DEF I
    <3>1. IsFiniteSet(I) /\ n \notin I /\ \A i \in I \cup {n} : Rates[i] \in Int
      BY <2>1, <2>2, <2>3 DEF I
    <3>2. SumFunctionOnSet(Rates, I \cup {n}) = SumFunctionOnSet(Rates, I) + Rates[n]
      BY <3>1, SumAdd
    <3>3. QED
      BY <3>2 DEF I
  <2>5. RateUpTo(n) = RateUpTo(n - 1) + Rates[n]
    BY <2>1, <2>4 DEF RateUpTo
  <2>6. QED
    BY <1>2, <2>2, <2>5
<1>6. QED
  BY <1>1, <1>3, <1>4, <1>5 DEF N

LEMMA SheetExtras ==
  ASSUME TypeInv, NEW kind
  PROVE  /\ Best(kind) \in Nat
         /\ \A i \in DOMAIN sheet.periods : /\ Extras(kind)[i] \in Nat
                                            /\ Extras(kind)[i] <= Best(kind)
<1> DEFINE N == Len(sheet.periods)
           I == {Extras(kind)[i] : i \in DOMAIN sheet.periods}
           S == {0} \cup I
<1>1. /\ N \in Nat /\ DOMAIN sheet.periods = 1 .. N
      /\ IsFiniteSet(DOMAIN sheet.periods)
  BY SheetRates, FS_Interval
<1>2. \A i \in DOMAIN sheet.periods : Extras(kind)[i] \in Nat
  BY <1>1, SheetFacts DEF Extras, Periods, TypeInv
<1>3. IsFiniteSet(I)
  BY <1>1, FiniteImage
<1>4. I \subseteq Nat
  BY <1>2
<1>5. \A i \in DOMAIN sheet.periods : Extras(kind)[i] \in I
  OBVIOUS
<1>6. Best(kind) = Max(S)
  BY DEF Best
<1> HIDE DEF I
<1>7. IsFiniteSet(S) /\ S \subseteq Nat /\ S # {}
  BY <1>3, <1>4, FS_AddElement
<1>8. Max(S) \in S /\ \A y \in S : y <= Max(S)
  BY <1>7, GreatestNat
<1>9. QED
  BY <1>2, <1>4, <1>5, <1>6, <1>7, <1>8

LEMMA DivBound ==
  ASSUME NEW r \in Nat, NEW x \in Nat, NEW t \in Nat, t > 0, x <= t
  PROVE  (r * x) \div t <= r
<1> DEFINE q == (r * x) \div t
<1>1. q \in Nat /\ r * x \in Nat /\ t * q <= r * x
  OBVIOUS
<1>2. r * x <= r * t
  OBVIOUS
<1> HIDE DEF q
<1>3. t * q <= t * r
  BY <1>1, <1>2
<1>4. q <= r
  <2>1. SUFFICES ASSUME q >= r + 1 PROVE FALSE
    BY <1>1
  <2>2. t * q >= t * (r + 1)
    BY <1>1, <2>1
  <2>3. t * (r + 1) = t * r + t
    OBVIOUS
  <2>4. QED
    BY <1>1, <1>3, <2>2, <2>3
<1>5. QED
  BY <1>4 DEF q

\* A coupon pays no more than the rates of its period and the knock-out coupon.
LEMMA CouponRateBound ==
  ASSUME TypeInv, Accruing
  PROVE  /\ CouponRate \in Nat
         /\ CouponRate + (IF IsKoPeriod THEN 0 ELSE Open)
              <= ThisPeriod.fixed + ThisPeriod.rate + Open
<1> DEFINE qualifying == QualifyingFixings
           x == Smaller(Unpaid(ThisPeriod, qualifying) + CarriedMemory,
                        Total(ThisPeriod))
           extra == IF ~IsKoPeriod THEN 0
                    ELSE IF state.ko = "local" THEN ThisPeriod.localCoupon
                                               ELSE ThisPeriod.globalCoupon
           base == IF CouponBarrierOk
                     THEN PeriodRate(ThisPeriod, qualifying, CarriedMemory)
                     ELSE ThisPeriod.fixed
<1>1. /\ ThisPeriod \in Periods /\ period \in DOMAIN sheet.periods
      /\ pc = "coupon"
  BY PeriodFacts, SheetRates DEF Accruing, TypeInv
<1>2. CouponRate \in Nat
  BY CouponTypes
<1>3. /\ ThisPeriod.fixed \in Nat /\ ThisPeriod.rate \in Nat
      /\ ThisPeriod.localCoupon \in Nat /\ ThisPeriod.globalCoupon \in Nat
      /\ ThisPeriod.total \in Nat /\ ThisPeriod.paid \in Nat
  BY <1>1 DEF Periods
<1>4. Total(ThisPeriod) \in Nat /\ Total(ThisPeriod) > 0
  BY <1>3 DEF Total, Larger
<1>5. qualifying \in Nat /\ CarriedMemory \in Nat
  <2>1. IsFiniteSet(Begin .. CappedEnd)
    <3>1. Begin \in Int /\ CappedEnd \in Int
      BY PeriodFacts, CubeFacts
    <3>2. QED
      BY <3>1, FS_Interval
  <2>2. qualifying \in Nat
    <3> DEFINE Q == {k \in Begin .. CappedEnd :
                       InRange(Worst(k), ThisPeriod, sheet.lowerInclusive,
                               sheet.upperInclusive)}
    <3>1. IsFiniteSet(Q)
      BY <2>1, FS_Subset
    <3>2. QED
      BY <3>1, FS_CardinalityType DEF QualifyingFixings
  <2>3. QED
    BY <2>2 DEF CarriedMemory, TypeInv, PathStates
<1> HIDE DEF qualifying
<1>6. Unpaid(ThisPeriod, qualifying) \in Nat
  BY <1>3, <1>5 DEF Unpaid
<1>7. x \in Nat /\ x <= Total(ThisPeriod)
  BY <1>4, <1>5, <1>6 DEF Smaller
<1>8. PeriodRate(ThisPeriod, qualifying, CarriedMemory)
        = ThisPeriod.fixed + (ThisPeriod.rate * x) \div Total(ThisPeriod)
  BY DEF PeriodRate
<1> HIDE DEF x
<1>9. /\ (ThisPeriod.rate * x) \div Total(ThisPeriod) \in Nat
      /\ (ThisPeriod.rate * x) \div Total(ThisPeriod) <= ThisPeriod.rate
  <2>1. ThisPeriod.rate * x \in Nat
    BY <1>3, <1>7
  <2>2. QED
    BY <1>3, <1>4, <1>7, <2>1, DivNat, DivBound
<1>10. base \in Nat /\ base <= ThisPeriod.fixed + ThisPeriod.rate
  BY <1>3, <1>8, <1>9
<1>11. Open \in Nat /\ extra \in Nat /\ extra <= Open
       /\ (~IsKoPeriod => extra = 0)
  <2>1. CASE Terminated
    <3>1. Open = Best(state.ko) /\ state.ko \in {"local", "global"}
      BY <1>1, <2>1 DEF Open, Terminated, TypeInv, PathStates, KnockOutKinds
    <3>2. Extras(state.ko)[period] = IF state.ko = "local"
            THEN ThisPeriod.localCoupon ELSE ThisPeriod.globalCoupon
      BY <1>1 DEF Extras, ThisPeriod
    <3>3. Best(state.ko) \in Nat /\ Extras(state.ko)[period] <= Best(state.ko)
      BY <1>1, SheetExtras
    <3>4. QED
      BY <1>3, <3>1, <3>2, <3>3
  <2>2. CASE ~Terminated
    BY <2>2 DEF Open, IsKoPeriod
  <2>3. QED
    BY <2>1, <2>2
<1>12. CouponRate = base + extra
  BY DEF CouponRate, qualifying
<1> HIDE DEF base, extra
<1>13. QED
  BY <1>2, <1>3, <1>10, <1>11, <1>12

\* Some budget is spent, some set aside.
LEMMA Spend ==
  ASSUME NEW n \in Nat, NEW cash \in Nat, NEW open \in Nat, NEW budget \in Nat,
         cash + n * open <= n * budget,
         NEW rate \in Nat, NEW left \in Nat, NEW grown \in Nat,
         rate + left + budget <= grown + open
  PROVE  cash + n * rate + n * left <= n * grown
<1>1. n * (rate + left + budget) <= n * (grown + open)
  <2> DEFINE a == rate + left + budget
             b == grown + open
  <2>1. a \in Nat /\ b \in Nat /\ a <= b
    OBVIOUS
  <2> HIDE DEF a, b
  <2>2. n * a <= n * b
    BY <2>1
  <2>3. QED
    BY <2>2 DEF a, b
<1>2. n * (rate + left + budget) = n * rate + n * left + n * budget
  OBVIOUS
<1>3. n * (grown + open) = n * grown + n * open
  OBVIOUS
<1>4. /\ n * rate \in Nat /\ n * left \in Nat /\ n * budget \in Nat
      /\ n * grown \in Nat /\ n * open \in Nat
  OBVIOUS
<1> DEFINE nr == n * rate
           nl == n * left
           nb == n * budget
           ng == n * grown
           no == n * open
<1>5. nr + nl + nb <= ng + no /\ cash + no <= nb
  BY <1>1, <1>2, <1>3
<1> HIDE DEF nr, nl, nb, ng, no
<1>6. cash + nr + nl <= ng
  BY <1>4, <1>5 DEF nr, nl, nb, ng, no
<1>7. QED
  BY <1>6 DEF nr, nl, ng

LEMMA BudgetTypes ==
  ASSUME IInv
  PROVE  /\ Open \in Nat /\ Budget \in Nat /\ Passed \in 0 .. Len(sheet.periods)
         /\ RateUpTo(Passed) \in Nat
<1>0. TypeInv
  BY DEF IInv
<1>1. Passed \in 0 .. Len(sheet.periods)
  BY <1>0, SheetRates DEF Passed, TypeInv
<1>2. \A kind : Best(kind) \in Nat
  BY <1>0, SheetExtras
<1>3. Open \in Nat
  BY <1>2 DEF Open
<1>4. /\ RateUpTo(Passed) \in Nat /\ RateUpTo(Len(sheet.periods)) \in Nat
  BY <1>0, <1>1, SheetRates
<1>5. totals.paths \in Nat /\ totals.local \in Nat /\ totals.global \in Nat
  BY SheetAssumption DEF IInv, CountInv, CountedPaths, Count
<1>6. /\ totals.paths * RateUpTo(Len(sheet.periods)) \in Nat
      /\ totals.local * Best("local") \in Nat
      /\ totals.global * Best("global") \in Nat
  BY <1>2, <1>4, <1>5
<1>7. QED
  BY <1>1, <1>3, <1>4, <1>6 DEF Budget

LEMMA SameRates ==
  ASSUME UNCHANGED sheet
  PROVE  /\ \A n : RateUpTo(n)' = RateUpTo(n)
         /\ \A kind : Best(kind)' = Best(kind)
BY DEF RateUpTo, Best, Rates, Extras

\* A step that pays a rate and leaves room for it.
LEMMA BudgetKept ==
  ASSUME IInv, IInv', BudgetInv, UNCHANGED sheet,
         pc' = "observe" => period' = 1,
         IsFiniteSet(DOMAIN totals'.paid), NEW rate \in Nat,
         Cashed(totals'.paid, Coupons)
           = Cashed(totals.paid, Coupons) + sheet.notional * rate,
         rate + Open' + Budget <= Budget' + Open
  PROVE  BudgetInv'
<1> DEFINE cash == Cashed(totals.paid, Coupons)
           n == sheet.notional
<1>1. Open \in Nat /\ Budget \in Nat /\ Open' \in Nat /\ Budget' \in Nat
  <2>1. Open \in Nat /\ Budget \in Nat
    BY BudgetTypes
  <2>2. (IInv => Open \in Nat /\ Budget \in Nat)'
    BY BudgetTypes, PTL
  <2>3. QED
    BY <2>1, <2>2
<1>2. cash \in Nat /\ n \in Nat
  BY CashedNat, SheetRates DEF BudgetInv, IInv, TypeInv
<1>3. cash + n * Open <= n * Budget
  BY DEF BudgetInv
<1> HIDE DEF cash, n
<1>4. cash + n * rate + n * Open' <= n * Budget'
  BY <1>1, <1>2, <1>3, Spend
<1>5. Cashed(totals.paid, Coupons)' = cash + n * rate
  BY DEF cash, n, Cashed
<1>6. QED
  BY <1>4, <1>5 DEF BudgetInv, n

\* A step that pays nothing.
LEMMA BudgetIdle ==
  ASSUME IInv, IInv', BudgetInv, UNCHANGED <<sheet, totals.paid>>,
         pc' = "observe" => period' = 1,
         Open' + Budget <= Budget' + Open
  PROVE  BudgetInv'
<1>1. Cashed(totals.paid, Coupons) \in Nat /\ sheet.notional \in Nat
  BY CashedNat, SheetRates DEF BudgetInv, IInv, TypeInv
<1> DEFINE nothing == 0
<1>2. /\ Cashed(totals'.paid, Coupons)
           = Cashed(totals.paid, Coupons) + sheet.notional * nothing
      /\ nothing \in Nat
  BY <1>1
<1>3. IsFiniteSet(DOMAIN totals'.paid)
  BY DEF BudgetInv
<1>4. Open \in Nat /\ Budget \in Nat /\ Open' \in Nat /\ Budget' \in Nat
  <2>1. Open \in Nat /\ Budget \in Nat
    BY BudgetTypes
  <2>2. (IInv => Open \in Nat /\ Budget \in Nat)'
    BY BudgetTypes, PTL
  <2>3. QED
    BY <2>1, <2>2
<1>5. nothing + Open' + Budget <= Budget' + Open
  <2> DEFINE left == Open' + Budget
  <2>1. nothing + Open' + Budget = left
    BY <1>4
  <2>2. left <= Budget' + Open
    OBVIOUS
  <2>3. QED
    BY <2>1, <2>2
<1> HIDE DEF nothing
<1>6. QED
  BY <1>2, <1>3, <1>5, BudgetKept

\* The counts that the budget depends on.
LEMMA BudgetOf ==
  ASSUME IInv, IInv', UNCHANGED sheet,
         totals'.paths = totals.paths, totals'.local = totals.local,
         totals'.global = totals.global
  PROVE  /\ Passed' = Passed => Budget' = Budget
         /\ RateUpTo(Passed) <= RateUpTo(Passed') => Budget <= Budget'
         /\ Budget' = Budget - RateUpTo(Passed) + RateUpTo(Passed')
<1> DEFINE rest == totals.paths * RateUpTo(Len(sheet.periods))
                     + totals.local * Best("local")
                     + totals.global * Best("global")
<1>1. /\ RateUpTo(Passed)' = RateUpTo(Passed')
      /\ (totals.paths * RateUpTo(Len(sheet.periods)))'
           = totals.paths * RateUpTo(Len(sheet.periods))
      /\ (totals.local * Best("local"))' = totals.local * Best("local")
      /\ (totals.global * Best("global"))' = totals.global * Best("global")
  BY SameRates DEF RateUpTo, Rates, Best, Extras
<1>2. /\ totals.paths * RateUpTo(Len(sheet.periods)) \in Nat
      /\ totals.local * Best("local") \in Nat
      /\ totals.global * Best("global") \in Nat
  <2>1. totals.paths \in Nat /\ totals.local \in Nat /\ totals.global \in Nat
    BY SheetAssumption DEF IInv, CountInv, CountedPaths, Count
  <2>2. /\ RateUpTo(Len(sheet.periods)) \in Nat
        /\ Best("local") \in Nat /\ Best("global") \in Nat
    BY SheetRates, SheetExtras DEF IInv
  <2>3. QED
    BY <2>1, <2>2
<1>3. RateUpTo(Passed) \in Nat /\ RateUpTo(Passed') \in Nat
  <2>1. (IInv => RateUpTo(Passed) \in Nat)'
    BY BudgetTypes, PTL
  <2>2. QED
    BY <1>1, <2>1, BudgetTypes
<1>4. Budget = rest + RateUpTo(Passed) /\ rest \in Nat
  BY <1>2, <1>3 DEF Budget
<1>5. Budget' = rest + RateUpTo(Passed')
  <2>1. Budget' = (totals.paths * RateUpTo(Len(sheet.periods)))'
                    + RateUpTo(Passed)' + (totals.local * Best("local"))'
                    + (totals.global * Best("global"))'
    BY DEF Budget
  <2>2. QED
    BY <1>1, <1>2, <1>3, <2>1
<1> HIDE DEF rest
<1>6. QED
  BY <1>3, <1>4, <1>5

\* What the budget is where price stands.
LEMMA PeriodPassed ==
  ASSUME IInv, pc = "coupon", period <= Len(sheet.periods)
  PROVE  /\ Passed = period - 1
         /\ RateUpTo(period) \in Nat /\ RateUpTo(period - 1) \in Nat
         /\ RateUpTo(period) = RateUpTo(period - 1) + ThisPeriod.fixed
                                 + ThisPeriod.rate
         /\ RateUpTo(period) <= RateUpTo(Len(sheet.periods))
         /\ ThisPeriod.fixed \in Nat /\ ThisPeriod.rate \in Nat
<1>1. /\ period \in 1 .. Len(sheet.periods) /\ Len(sheet.periods) \in Nat
      /\ period \in 0 .. Len(sheet.periods)
      /\ period - 1 \in 0 .. Len(sheet.periods)
  BY SheetFacts DEF IInv, TypeInv
<1>2. ThisPeriod \in Periods
  BY <1>1, SheetFacts DEF IInv, TypeInv, ThisPeriod
<1>3. ThisPeriod.fixed \in Nat /\ ThisPeriod.rate \in Nat
  BY <1>2 DEF Periods
<1>4. /\ RateUpTo(period) \in Nat /\ RateUpTo(period - 1) \in Nat
      /\ RateUpTo(period) <= RateUpTo(Len(sheet.periods))
      /\ RateUpTo(period) = RateUpTo(period - 1) + ThisPeriod.fixed
                              + ThisPeriod.rate
  BY <1>1, SheetRates DEF IInv, ThisPeriod
<1>5. QED
  BY <1>3, <1>4 DEF Passed

LEMMA Widened ==
  ASSUME NEW open \in Nat, NEW left \in Nat, left <= open,
         NEW budget \in Nat, NEW grown \in Nat, budget <= grown
  PROVE  left + budget <= grown + open
OBVIOUS

LEMMA PaidWithin ==
  ASSUME NEW open \in Nat, NEW left \in Nat, NEW budget \in Nat,
         NEW rate \in Nat, NEW fixed \in Nat, NEW range \in Nat,
         rate + left <= fixed + range + open,
         NEW before \in Nat, NEW after \in Nat,
         after >= before + fixed + range
  PROVE  rate + left + budget <= budget - before + after + open
OBVIOUS

LEMMA BudgetStep ==
  ASSUME IInv, IInv', BudgetInv, Next
  PROVE  BudgetInv'
<1> DEFINE N == Len(sheet.periods)
<1>1. /\ TypeInv /\ totals.paths \in Nat /\ totals.local \in Nat
      /\ totals.global \in Nat
  BY SheetAssumption DEF IInv, CountInv, CountedPaths, Count
<1>2. UNCHANGED sheet
  BY DEF Next, Compile, Fail, StartPath, Observe, FinishObserving, SkipPeriod,
         EndCoupons, PayCoupon, InvalidFixing, Settle, Done, vars
<1>3. /\ Open \in Nat /\ Budget \in Nat /\ Passed \in 0 .. N
      /\ Open' \in Nat /\ Budget' \in Nat
  <2>1. (IInv => Open \in Nat /\ Budget \in Nat)'
    BY BudgetTypes, PTL
  <2>2. QED
    BY <2>1, BudgetTypes
<1>4. N \in Nat /\ sheet.notional \in Nat /\ RateUpTo(N) \in Nat /\ RateUpTo(0) = 0
      /\ RateUpTo(Passed) \in Nat /\ RateUpTo(Passed) <= RateUpTo(N)
  BY <1>1, <1>3, SheetRates
<1>5. ASSUME NEW status, Fail(status) PROVE BudgetInv'
  <2>1. totals' = Zero /\ pc' = "done"
    BY <1>5 DEF Fail
  <2>2. Cashed(totals.paid, Coupons)' = 0 /\ IsFiniteSet(DOMAIN totals'.paid)
    BY <2>1, NothingCashed DEF Cashed
  <2>3. Open' = 0
    BY <2>1 DEF Open
  <2>4. sheet'.notional \in Nat /\ sheet'.notional * 0 = 0
        /\ 0 <= sheet'.notional * Budget'
    BY <1>2, <1>3, <1>4
  <2>5. QED
    BY <2>1, <2>2, <2>3, <2>4 DEF BudgetInv
<1>6. ASSUME UNCHANGED <<totals, Open, Passed>>,
             pc' = "observe" => period' = 1
      PROVE  BudgetInv'
  <2>1. Budget' = Budget
    BY <1>2, <1>6, BudgetOf
  <2>2. Open' + Budget <= Budget' + Open
    BY <1>3, <1>6, <2>1
  <2>3. QED
    BY <1>2, <1>6, <2>2, BudgetIdle
<1>7. CASE Compile
  <2>1. CASE Refusal(sheet) = "verified"
    <3>1. UNCHANGED totals /\ pc = "compile" /\ pc' = "start"
      BY <1>7, <2>1 DEF Compile
    <3>2. QED
      BY <1>6, <3>1 DEF Open, Passed
  <2>2. CASE Refusal(sheet) # "verified"
    BY <1>5, <1>7, <2>2 DEF Compile
  <2>3. QED
    BY <2>1, <2>2
<1>8. CASE StartPath
  <2>1. UNCHANGED totals /\ pc = "start" /\ pc' = "observe" /\ period' = 1
    BY <1>8 DEF StartPath
  <2>2. QED
    BY <1>6, <2>1 DEF Open, Passed
<1>9. CASE Observe
  <2>1. UNCHANGED <<totals, period>> /\ pc = "observe" /\ pc' = "observe"
    BY <1>9 DEF Observe
  <2>2. QED
    BY <1>6, <2>1 DEF Open, Passed, BudgetInv
<1>10. CASE Done
  <2>1. UNCHANGED <<totals, period, pc, state, sheet>>
    BY <1>10 DEF Done, vars
  <2>2. UNCHANGED <<Open, Passed>>
    BY <2>1 DEF Open, Passed, Terminated, Best, Extras
  <2>3. QED
    BY <1>6, <2>1, <2>2 DEF BudgetInv
<1>11. CASE SkipPeriod
  <2>1. /\ UNCHANGED <<totals, state>> /\ pc = "coupon" /\ pc' = "coupon"
        /\ period <= N /\ period' = period + 1
    BY <1>11 DEF SkipPeriod
  <2>2. Open' = Open
    BY <1>2, <2>1 DEF Open, Terminated, Best, Extras
  <2>3. /\ Passed = period - 1 /\ Passed' = period
        /\ RateUpTo(Passed) <= RateUpTo(Passed')
    <3>1. period \in Nat
      BY <1>1 DEF TypeInv
    <3>2. Passed' = period
      BY <2>1, <3>1 DEF Passed
    <3>3. QED
      BY <2>1, <3>2, PeriodPassed
  <2>4. Budget <= Budget'
    BY <1>2, <2>1, <2>3, BudgetOf
  <2>5. Open' + Budget <= Budget' + Open
    <3>1. Open' <= Open
      BY <1>3, <2>2
    <3>2. QED
      BY <1>3, <2>4, <3>1, Widened
  <2>6. QED
    BY <1>2, <2>1, <2>5, BudgetIdle
<1>12. CASE EndCoupons
  <2>1. UNCHANGED <<totals, state>> /\ pc = "coupon" /\ pc' = "settle"
    BY <1>12 DEF EndCoupons
  <2>2. Open' = 0 /\ Passed' = N
    BY <1>2, <2>1 DEF Open, Passed
  <2>3. RateUpTo(Passed) <= RateUpTo(Passed')
    BY <1>4, <2>2
  <2>4. Budget <= Budget'
    BY <1>2, <2>1, <2>3, BudgetOf
  <2>5. Open' + Budget <= Budget' + Open
    <3>1. Open' <= Open
      BY <1>3, <2>2
    <3>2. QED
      BY <1>3, <2>4, <3>1, Widened
  <2>6. QED
    BY <1>2, <2>1, <2>5, BudgetIdle
<1>13. CASE FinishObserving
  <2>1. /\ pc = "observe" /\ pc' = "coupon" /\ state' = Observed
        /\ totals'.paid = totals.paid /\ totals'.paths = totals.paths
        /\ totals'.local = totals.local + Count(KoNow = "local")
        /\ totals'.global = totals.global + Count(KoNow = "global")
        /\ period' = period
    BY <1>1, <1>13 DEF FinishObserving, TypeInv
  <2>2. state'.ko = KoNow /\ KoNow \in KnockOutKinds
    BY <1>1, <1>13, <2>1, KoNowType DEF Observed, TypeInv, PathStates
  <2>3. Passed = 0 /\ Passed' = 0 /\ Open = 0
    BY <2>1 DEF Passed, Open, BudgetInv
  <2>4. Best("local") \in Nat /\ Best("global") \in Nat
    BY <1>1, SheetExtras
  <2>5. Open' = IF KoNow = "local" THEN Best("local")
                ELSE IF KoNow = "global" THEN Best("global") ELSE 0
    BY <1>2, <2>1, <2>2, SameRates DEF Open, Terminated, KnockOutKinds
  <2>6. /\ (totals.local + 1) * Best("local")
             = totals.local * Best("local") + Best("local")
        /\ (totals.global + 1) * Best("global")
             = totals.global * Best("global") + Best("global")
    BY <1>1, <2>4, Times
  <2>7. /\ totals'.local * Best("local") = totals.local * Best("local")
             + IF KoNow = "local" THEN Best("local") ELSE 0
        /\ totals'.global * Best("global") = totals.global * Best("global")
             + IF KoNow = "global" THEN Best("global") ELSE 0
    <3>1. /\ totals.local * Best("local") \in Nat
          /\ totals.global * Best("global") \in Nat
      BY <1>1, <2>4
    <3>2. /\ totals'.local = IF KoNow = "local" THEN totals.local + 1
                                                ELSE totals.local
          /\ totals'.global = IF KoNow = "global" THEN totals.global + 1
                                                  ELSE totals.global
      BY <1>1, <2>1 DEF Count
    <3>3. QED
      BY <2>6, <3>1, <3>2
  <2>8. /\ Budget = totals.paths * RateUpTo(N) + RateUpTo(0)
             + totals.local * Best("local") + totals.global * Best("global")
        /\ Budget' = totals.paths * RateUpTo(N) + RateUpTo(0)
             + totals'.local * Best("local") + totals'.global * Best("global")
    <3>1. /\ RateUpTo(Passed)' = RateUpTo(0)
          /\ RateUpTo(Len(sheet.periods))' = RateUpTo(N)
          /\ Best("local")' = Best("local") /\ Best("global")' = Best("global")
      BY <1>2, <2>3, SameRates DEF RateUpTo, Rates, Best, Extras
    <3>2. QED
      BY <2>1, <2>3, <3>1 DEF Budget
  <2>9. Open' + Budget <= Budget' + Open
    <3> DEFINE p == totals.paths * RateUpTo(N)
               l == totals.local * Best("local")
               g == totals.global * Best("global")
    <3>1. p \in Nat /\ l \in Nat /\ g \in Nat /\ RateUpTo(0) = 0
      BY <1>1, <1>4, <2>4, SMTT(30)
    <3>2. Budget = p + l + g
      BY <2>8, <3>1
    <3>3. Budget' = p + (l + IF KoNow = "local" THEN Best("local") ELSE 0)
                      + (g + IF KoNow = "global" THEN Best("global") ELSE 0)
      BY <2>7, <2>8, <3>1
    <3> HIDE DEF p, l, g
    <3>4. QED
      BY <2>3, <2>4, <2>5, <3>1, <3>2, <3>3
  <2>10. QED
    BY <1>2, <2>1, <2>9, BudgetIdle
<1>14. CASE PayCoupon
  <2>1. /\ Accruing /\ pc = "coupon" /\ period <= N /\ state'.ko = state.ko
        /\ totals'.paths = totals.paths /\ totals'.local = totals.local
        /\ totals'.global = totals.global
        /\ IF IsKoPeriod THEN pc' = "settle" ELSE pc' = "coupon" /\ period' = period + 1
    BY <1>1, <1>14 DEF PayCoupon, Accruing, TypeInv, PathStates
  <2>2. /\ IsFiniteSet(DOMAIN totals'.paid) /\ CouponRate \in Nat
        /\ Cashed(totals'.paid, Coupons)
             = Cashed(totals.paid, Coupons) + sheet.notional * CouponRate
    <3>1. <<"COUPON", period, CouponDate>> \in Coupons
      <4>1. CouponDate \in Nat /\ period \in Nat
        BY <1>1, <2>1, CouponTypes DEF TypeInv
      <4>2. QED
        BY <4>1 DEF Coupons, Flows
    <3>2. CouponRate \in Nat
      BY <1>1, <2>1, CouponTypes
    <3>3. QED
      BY <1>1, <1>14, <3>1, <3>2, PaidCash DEF BudgetInv
  <2>3. Open' = IF IsKoPeriod THEN 0 ELSE Open
    BY <1>2, <2>1, SameRates DEF Open, Terminated
  <2>4. /\ RateUpTo(period) \in Nat /\ RateUpTo(period - 1) \in Nat
        /\ RateUpTo(period) = RateUpTo(period - 1) + ThisPeriod.fixed
                                + ThisPeriod.rate
        /\ RateUpTo(period) <= RateUpTo(N)
        /\ ThisPeriod.fixed \in Nat /\ ThisPeriod.rate \in Nat
        /\ Passed = period - 1
    BY <2>1, PeriodPassed
  <2>5. RateUpTo(Passed') >= RateUpTo(period) /\ RateUpTo(Passed') \in Nat
    <3>1. period \in Nat
      BY <1>1 DEF TypeInv
    <3>2. Passed' = IF IsKoPeriod THEN N ELSE period
      BY <1>2, <2>1, <3>1 DEF Passed
    <3>3. QED
      BY <1>4, <2>4, <3>2
  <2>6. Budget' = Budget - RateUpTo(period - 1) + RateUpTo(Passed')
    BY <1>2, <2>1, <2>4, BudgetOf
  <2>7. CouponRate + Open' <= ThisPeriod.fixed + ThisPeriod.rate + Open
    BY <1>1, <1>3, <2>1, <2>2, <2>3, CouponRateBound
  <2>8. CouponRate + Open' + Budget <= Budget' + Open
    <3>1. /\ RateUpTo(Passed') >= RateUpTo(period - 1) + ThisPeriod.fixed
                                   + ThisPeriod.rate
          /\ RateUpTo(Passed') \in Nat
      BY <2>4, <2>5
    <3>2. CouponRate + Open' + Budget
            <= Budget - RateUpTo(period - 1) + RateUpTo(Passed') + Open
      BY <1>3, <2>2, <2>4, <2>7, <3>1, PaidWithin
    <3>3. QED
      BY <2>6, <3>2
  <2>9. QED
    BY <1>2, <2>1, <2>2, <2>8, BudgetKept
<1>15. CASE InvalidFixing
  BY <1>5, <1>15 DEF InvalidFixing
<1>16. CASE Settle
  <2>1. /\ totals'.paid = totals.paid (+) Funding (+) ResidualPut
        /\ totals'.paths = totals.paths + 1 /\ totals'.local = totals.local
        /\ totals'.global = totals.global /\ pc = "settle"
        /\ pc' \in {"start", "done"}
    BY <1>1, <1>16 DEF Settle, TypeInv
  <2> DEFINE flow == IF Terminated
                       THEN <<"FUNDING", state.koObs, Dates[state.koObs]>>
                       ELSE <<"FUNDING", FinalIndex, sheet.maturity>>
             nothing == 0
  <2>2. /\ \A f \in Coupons : f[1] # "PUT" /\ f[1] # "FUNDING"
        /\ \A f \in Principal : f[1] = "FUNDING"
        /\ IsFiniteSet(DOMAIN totals.paid)
    BY DEF Coupons, Principal, BudgetInv
  <2>3. /\ IsFiniteSet(DOMAIN totals'.paid) /\ flow \notin Coupons
        /\ Cashed(totals'.paid, Coupons) = Cashed(totals.paid, Coupons)
             + IF flow \in Coupons THEN FundingAmount(sheet) ELSE 0
    <3> HIDE DEF flow
    <3>1. /\ IsFiniteSet(DOMAIN totals'.paid) /\ flow \in Principal
          /\ Cashed(totals'.paid, Coupons) = Cashed(totals.paid, Coupons)
               + IF flow \in Coupons THEN FundingAmount(sheet) ELSE 0
      BY <1>1, <2>1, <2>2, SettledCash DEF flow
    <3>2. QED
      BY <2>2, <3>1
  <2> HIDE DEF flow
  <2>4. Cashed(totals.paid, Coupons) \in Nat
    BY <1>1, <2>2, CashedNat DEF TypeInv
  <2>5. Open = 0 /\ Open' = 0 /\ Passed = N /\ Passed' = 0
    BY <2>1 DEF Open, Passed
  <2>6. (totals.paths + 1) * RateUpTo(N) = totals.paths * RateUpTo(N) + RateUpTo(N)
    BY <1>1, <1>4, Times
  <2>7. Budget' = Budget
    <3>1. /\ RateUpTo(Passed)' = 0
          /\ RateUpTo(Len(sheet.periods))' = RateUpTo(N)
          /\ Best("local")' = Best("local") /\ Best("global")' = Best("global")
      BY <1>2, <1>4, <2>5, SameRates DEF RateUpTo, Rates, Best, Extras
    <3> DEFINE p == totals.paths * RateUpTo(N)
               l == totals.local * Best("local")
               g == totals.global * Best("global")
    <3>2. p \in Nat /\ l \in Nat /\ g \in Nat
      BY <1>1, <1>4, SheetExtras, SMTT(30)
    <3>3. Budget = p + RateUpTo(N) + l + g
      BY <2>5 DEF Budget
    <3>4. Budget' = (p + RateUpTo(N)) + 0 + l + g
      BY <2>1, <2>6, <3>1 DEF Budget
    <3> HIDE DEF p, l, g
    <3>5. QED
      BY <1>4, <3>2, <3>3, <3>4
  <2>8. /\ Cashed(totals'.paid, Coupons)
             = Cashed(totals.paid, Coupons) + sheet.notional * nothing
        /\ nothing \in Nat /\ nothing + Open' + Budget <= Budget' + Open
    BY <1>3, <1>4, <2>3, <2>4, <2>5, <2>7
  <2> HIDE DEF nothing
  <2>9. QED
    BY <1>2, <2>1, <2>3, <2>8, BudgetKept
<1>17. QED
  BY <1>7, <1>8, <1>9, <1>10, <1>11, <1>12, <1>13, <1>14, <1>15, <1>16 DEF Next

LEMMA ClosedTypes ==
  ASSUME IInv, BudgetInv
  PROVE  /\ Cashed(totals.paid, Coupons) \in Nat
         /\ Best("local") \in Nat /\ Best("global") \in Nat
<1>1. Cashed(totals.paid, Coupons) \in Nat
  BY CashedNat DEF IInv, TypeInv, BudgetInv
<1>2. Best("local") \in Nat /\ Best("global") \in Nat
  BY SheetExtras DEF IInv
<1>3. QED
  BY <1>1, <1>2

LEMMA ClosedCouponsStep ==
  ASSUME IInv, IInv', BudgetInv, BudgetInv', ClosedCoupons, Next
  PROVE  ClosedCoupons'
<1>1. UNCHANGED sheet
  BY DEF Next, Compile, Fail, StartPath, Observe, FinishObserving, SkipPeriod,
         EndCoupons, PayCoupon, InvalidFixing, Settle, Done, vars
<1>2. CASE UNCHANGED closed
  <2>1. /\ Cashed(closed.paid, Coupons)' = Cashed(closed.paid, Coupons)
        /\ RateUpTo(Len(sheet.periods))' = RateUpTo(Len(sheet.periods))
        /\ Best("local")' = Best("local") /\ Best("global")' = Best("global")
    BY <1>1, <1>2 DEF Cashed, RateUpTo, Rates, Best, Extras
  <2>2. QED
    BY <1>1, <1>2, <2>1 DEF ClosedCoupons
<1>3. CASE /\ closed' = totals' /\ pc' \notin {"coupon", "settle"}
  <2>1. /\ DOMAIN totals'.paid \subseteq Flows /\ sheet'.notional \in Nat
        /\ sheet.notional \in Nat /\ TypeInv
    BY <1>1, SheetFacts DEF IInv, TypeInv
  <2>2. Open' = 0 /\ Passed' = 0
    BY <1>3 DEF Open, Passed
  <2>3. /\ RateUpTo(Passed)' = 0
        /\ RateUpTo(Len(sheet.periods))' \in Nat
    BY <1>1, <2>1, <2>2, SheetRates DEF RateUpTo, Rates
  <2>4. /\ totals'.paths \in Nat /\ totals'.local \in Nat /\ totals'.global \in Nat
    BY SheetAssumption DEF IInv, CountInv, CountedPaths, Count
  <2>5. Best("local")' \in Nat /\ Best("global")' \in Nat
    <3>1. (IInv /\ BudgetInv =>
             Best("local") \in Nat /\ Best("global") \in Nat)'
      BY ClosedTypes, PTL
    <3>2. QED
      BY <3>1
  <2> DEFINE promise == totals'.paths * RateUpTo(Len(sheet.periods))'
                          + totals'.local * Best("local")'
                          + totals'.global * Best("global")'
  <2>6. Budget' = promise
    <3> DEFINE p == totals'.paths * RateUpTo(Len(sheet.periods))'
               l == totals'.local * Best("local")'
               g == totals'.global * Best("global")'
    <3>1. p \in Nat /\ l \in Nat /\ g \in Nat
      BY <2>3, <2>4, <2>5
    <3>2. Budget' = p + 0 + l + g
      BY <2>3 DEF Budget
    <3> HIDE DEF p, l, g
    <3>3. Budget' = p + l + g
      BY <3>1, <3>2
    <3>4. QED
      BY <3>3 DEF p, l, g
  <2>7. Cashed(totals.paid, Coupons)' <= sheet'.notional * promise
    <3>1. Cashed(totals.paid, Coupons)' \in Nat
      <4>1. (IInv /\ BudgetInv => Cashed(totals.paid, Coupons) \in Nat)'
        BY ClosedTypes, PTL
      <4>2. QED
        BY <4>1
    <3>2. sheet'.notional * Open' = 0
      BY <2>1, <2>2
    <3>3. Cashed(totals.paid, Coupons)' + sheet'.notional * Open'
            <= sheet'.notional * Budget'
      BY DEF BudgetInv
    <3> HIDE DEF promise
    <3>4. QED
      BY <2>6, <3>1, <3>2, <3>3
  <2>8. Cashed(closed.paid, Coupons)' = Cashed(totals.paid, Coupons)'
    BY <1>3 DEF Cashed
  <2>9. QED
    BY <1>3, <2>1, <2>7, <2>8 DEF ClosedCoupons
<1>4. \/ UNCHANGED closed
      \/ closed' = totals' /\ pc' \notin {"coupon", "settle"}
  <2>1. ASSUME NEW status, Fail(status)
        PROVE  closed' = totals' /\ pc' \notin {"coupon", "settle"}
    BY <2>1 DEF Fail
  <2>2. Settle => closed' = totals' /\ pc' \notin {"coupon", "settle"}
    BY DEF Settle
  <2>3. Compile \/ InvalidFixing =>
          \/ UNCHANGED closed
          \/ closed' = totals' /\ pc' \notin {"coupon", "settle"}
    BY <2>1 DEF Compile, InvalidFixing
  <2>4. StartPath \/ Observe \/ FinishObserving \/ SkipPeriod \/ EndCoupons
          \/ PayCoupon \/ Done => UNCHANGED closed
    BY DEF StartPath, Observe, FinishObserving, SkipPeriod, EndCoupons,
           PayCoupon, Done, vars
  <2>5. QED
    BY <2>2, <2>3, <2>4 DEF Next
<1>5. QED
  BY <1>2, <1>3, <1>4

LEMMA BudgetInductive == Spec => [](BudgetInv /\ ClosedCoupons)
<1>1. Init => BudgetInv /\ ClosedCoupons
  <2> SUFFICES ASSUME Init PROVE BudgetInv /\ ClosedCoupons
    OBVIOUS
  <2>1. totals = Zero /\ closed = Zero /\ pc = "compile"
    BY DEF Init
  <2>2. IInv
    BY InitIInv
  <2>3. Open = 0 /\ Passed = 0
    BY <2>1 DEF Open, Passed
  <2>4. /\ RateUpTo(Len(sheet.periods)) \in Nat /\ sheet.notional \in Nat
        /\ Best("local") \in Nat /\ Best("global") \in Nat /\ Budget \in Nat
    BY <2>2, BudgetTypes, SheetRates, SheetExtras DEF IInv
  <2>5. Zero.paths = 0 /\ Zero.local = 0 /\ Zero.global = 0
    BY DEF Zero
  <2>6. sheet.notional * Open = 0 /\ 0 <= sheet.notional * Budget
    BY <2>3, <2>4
  <2>7. 0 <= sheet.notional * (0 * RateUpTo(Len(sheet.periods))
                                 + 0 * Best("local") + 0 * Best("global"))
    BY <2>4
  <2>8. BudgetInv
    BY <2>1, <2>6, NothingCashed DEF BudgetInv
  <2>9. ClosedCoupons
    BY <2>1, <2>5, <2>7, NothingCashed, ZeroType DEF ClosedCoupons
  <2>10. QED
    BY <2>8, <2>9
<1>2. IInv /\ IInv' /\ BudgetInv /\ ClosedCoupons /\ [Next]_vars
        => BudgetInv' /\ ClosedCoupons'
  <2> SUFFICES ASSUME IInv, IInv', BudgetInv, ClosedCoupons, [Next]_vars
               PROVE  BudgetInv' /\ ClosedCoupons'
    OBVIOUS
  <2>1. CASE Next
    BY <2>1, BudgetStep, ClosedCouponsStep
  <2>2. CASE UNCHANGED vars
    BY <2>2 DEF vars, BudgetInv, ClosedCoupons, Cashed, Open, Passed, Budget,
                RateUpTo, Rates, Best, Extras, Terminated
  <2>3. QED
    BY <2>1, <2>2
<1>3. QED
  BY <1>1, <1>2, IInvInductive, PTL DEF Spec

\* Over a cube of any number of paths the coupons the native engine pays stay
\* within the fixed and range rates of the periods, whatever unpaid coupon is
\* carried over, and one knock-out coupon for a path that was called
\* (engine.cpp, price).
THEOREM CouponsWithinPromise == Spec => []CouponWithinPromise
<1>1. IInv /\ ClosedCoupons => CouponWithinPromise
  <2> SUFFICES ASSUME IInv, ClosedCoupons PROVE CouponWithinPromise
    OBVIOUS
  <2>1. {f \in DOMAIN closed.paid : f[1] = "COUPON"}
          = DOMAIN closed.paid \cap Coupons
    BY DEF ClosedCoupons, Coupons
  <2>2. SumFunction(Rates) = RateUpTo(Len(sheet.periods))
    <3>1. DOMAIN Rates = 1 .. Len(sheet.periods)
      BY SheetRates DEF Rates, IInv
    <3>2. QED
      BY <3>1 DEF SumFunction, RateUpTo
  <2>3. /\ {sheet.periods[i].localCoupon : i \in DOMAIN sheet.periods}
             = {Extras("local")[i] : i \in DOMAIN sheet.periods}
        /\ {sheet.periods[i].globalCoupon : i \in DOMAIN sheet.periods}
             = {Extras("global")[i] : i \in DOMAIN sheet.periods}
    BY DEF Extras
  <2>4. QED
    BY <2>1, <2>2, <2>3 DEF ClosedCoupons, CouponWithinPromise, Amount, Cashed,
                            Best, Rates
<1>2. QED
  BY <1>1, BudgetInductive, IInvInductive, PTL
=============================================================================
