--------------------------- MODULE FcnQuoteProofs ---------------------------
(***************************************************************************)
(* Proofs about the request lane, for every request, market and draw: its  *)
(* types; that on a cube of numbers a bump is refused exactly when its      *)
(* request is; and that a name that is never the worst has no delta and no *)
(* gamma.                                                                  *)
(***************************************************************************)
EXTENDS FcnQuote, SumProofs

(***************************************************************************)
(* Observations and numbers.                                               *)
(***************************************************************************)
LEMMA Least ==
  ASSUME NEW S, S \subseteq Nat, S # {}
  PROVE  Min(S) \in S /\ \A y \in S : Min(S) <= y
BY LeastNat DEF Min

LEMMA DivInt ==
  ASSUME NEW a \in Int, NEW b \in Nat, b > 0
  PROVE  a \div b \in Int
OBVIOUS

LEMMA CubeFacts ==
  /\ Observations \in Nat \ {0} /\ Unit \in Nat
  /\ 0 \in Obs /\ Obs \subseteq Nat /\ IsFiniteSet(Obs)
  /\ Cardinality(Obs) = Observations
  /\ \A k \in Obs : Dates[k] \in Nat
<1>1. /\ Observations \in Nat \ {0} /\ Unit \in Nat
      /\ \A k \in Obs : Dates[k] \in Nat
  BY CubeAssumption
<1>2. IsFiniteSet(Obs) /\ Cardinality(Obs) = Observations
  <2>1. 0 \in Int /\ Observations - 1 \in Int
    BY <1>1
  <2>2. /\ IsFiniteSet(0 .. Observations - 1)
        /\ Cardinality(0 .. Observations - 1)
             = IF 0 > Observations - 1 THEN 0 ELSE (Observations - 1) - 0 + 1
    BY <2>1, FS_Interval
  <2>3. QED
    BY <1>1, <2>2 DEF Obs
<1>3. QED
  BY <1>1, <1>2 DEF Obs

LEMMA FinalInCube ==
  ASSUME NEW s
  PROVE  Final(s) \in Obs
<1> DEFINE P == Past(s.finalFixing)
<1>1. IsFiniteSet(P) /\ Cardinality(P) \in Nat /\ Cardinality(P) <= Observations
  BY CubeFacts, FS_Subset, FS_CardinalityType DEF Past
<1>2. P # {} => Cardinality(P) # 0
  BY <1>1, FS_EmptySet
<1>3. QED
  BY <1>1, <1>2, CubeFacts DEF Final, OnOrBefore, Obs

(***************************************************************************)
(* Requests that differ in their market alone, and the bumps.              *)
(***************************************************************************)
SameNote(s, z) ==
  /\ s.evaluation = z.evaluation /\ s.references = z.references
  /\ s.worstOf = z.worstOf /\ s.continuous = z.continuous
  /\ s.pillars = z.pillars
  /\ s.memoryKo = z.memoryKo /\ s.memoryMode = z.memoryMode
  /\ s.barrierMemoryKo = z.barrierMemoryKo
  /\ s.strike = z.strike /\ s.kiBarrier = z.kiBarrier
  /\ s.kiOperator = z.kiOperator
  /\ s.finalFixing = z.finalFixing /\ s.maturity = z.maturity
  /\ s.notional = z.notional
  /\ s.fundingEnabled = z.fundingEnabled /\ s.returnRatio = z.returnRatio
  /\ s.couponMemory = z.couponMemory
  /\ s.lowerInclusive = z.lowerInclusive
  /\ s.upperInclusive = z.upperInclusive
  /\ s.local = z.local /\ s.global = z.global
  /\ s.precedence = z.precedence /\ s.periods = z.periods

PillarRecords ==
  [dateGiven : BOOLEAN, rateGiven : BOOLEAN, readable : BOOLEAN,
   dated : BOOLEAN, rated : BOOLEAN, date : Nat, rate : Int]

LEMMA RequestFacts ==
  ASSUME NEW r \in Requests
  PROVE  /\ {r.evaluation, r.strike, r.finalFixing, r.maturity, r.notional,
              r.returnRatio} \subseteq Nat
         /\ r.fundingEnabled \in BOOLEAN
         /\ r.periods \in Seq(Periods)
         /\ r.pillars \subseteq PillarRecords
         /\ IsFiniteSet(Given(r)) /\ IsFiniteSet(Compiled(r))
         /\ Given(r) \subseteq PillarRecords
         /\ Compiled(r) \subseteq PillarRecords
         /\ r.quoted \in [Underlyings -> Nat]
         /\ r.reference \in [Underlyings -> Nat]
<1>1. r \in Terms(r.surfaces) /\ IsFiniteSet(r.pillars)
  BY RequestTypes
<1>2. r.pillars \subseteq PillarRecords
  BY <1>1 DEF Terms, PillarRecords
<1>3. Given(r) \subseteq r.pillars /\ Compiled(r) \subseteq r.pillars
  BY DEF Given, Compiled
<1>4. IsFiniteSet(Given(r)) /\ IsFiniteSet(Compiled(r))
  BY <1>1, <1>3, FS_Subset
<1>5. QED
  BY <1>1, <1>2, <1>3, <1>4 DEF Terms

LEMMA Bumped ==
  ASSUME NEW r \in Requests, NEW u \in Underlyings, NEW sign
  PROVE  /\ SameNote(r, SpotBumped(r, u, sign))
         /\ SpotBumped(r, u, sign).reference
              = [r.reference EXCEPT ![u] = Times(@, sign)]
         /\ SameNote(r, VolBumped(r, u, sign))
         /\ VolBumped(r, u, sign).reference = r.reference
<1>1. r \in Terms(r.surfaces)
  BY RequestTypes
<1>2. /\ SameNote(r, SpotBumped(r, u, sign))
      /\ SpotBumped(r, u, sign).reference
           = [r.reference EXCEPT ![u] = Times(@, sign)]
  BY <1>1 DEF SpotBumped, SameNote, Terms
<1>3. /\ SameNote(r, VolBumped(r, u, sign))
      /\ VolBumped(r, u, sign).reference = r.reference
  BY <1>1 DEF VolBumped, SameNote, Terms
<1>4. QED
  BY <1>2, <1>3

(***************************************************************************)
(* Without memory knock-out a note looks at the worst performances alone.  *)
(***************************************************************************)
LEMMA SameCalls ==
  ASSUME NEW s, NEW z, SameNote(s, z), ~MemoryKo(s), NEW f, NEW g,
         \A k \in Obs : Worst(f, k) = Worst(g, k)
  PROVE  /\ Final(s) = Final(z) /\ Calls(s, f) = Calls(z, g)
         /\ Calls(s, f) \subseteq Obs
         /\ Called(s, f) <=> Called(z, g)
         /\ CallObs(s, f) = CallObs(z, g)
         /\ Called(s, f) => /\ CallObs(s, f) \in Obs
                            /\ CallKind(s, f) = CallKind(z, g)
<1>1. Final(s) = Final(z) /\ Final(s) \in Obs
  BY FinalInCube DEF SameNote, Final
<1>2. 0 .. Final(s) \subseteq Obs
  BY <1>1, CubeFacts DEF Obs
<1>3. ~MemoryKo(z)
  BY DEF MemoryKo, SameNote
<1>4. ASSUME NEW k \in Obs
      PROVE  /\ Touches(s, f, s.local, k) <=> Touches(z, g, z.local, k)
             /\ Touches(s, f, s.global, k) <=> Touches(z, g, z.global, k)
  BY <1>3 DEF Touches, SameNote
<1>5. Calls(s, f) = Calls(z, g) /\ Calls(s, f) \subseteq Obs
  <2>1. \A k : k \in Calls(s, f) <=> k \in Calls(z, g)
    BY <1>1, <1>2, <1>4 DEF Calls
  <2>2. Calls(s, f) \subseteq Obs
    BY <1>2 DEF Calls
  <2>3. QED
    BY <2>1, <2>2 DEF Calls
<1>6. /\ Called(s, f) <=> Called(z, g)
      /\ CallObs(s, f) = CallObs(z, g)
  BY <1>5 DEF Called, CallObs
<1>7. ASSUME Called(s, f)
      PROVE  CallObs(s, f) \in Obs /\ CallKind(s, f) = CallKind(z, g)
  <2>1. CallObs(s, f) \in Obs
    BY <1>5, <1>7, CubeFacts, Least DEF Called, CallObs
  <2>2. CallKind(s, f) = CallKind(z, g)
    BY <1>4, <1>6, <2>1 DEF CallKind, SameNote
  <2>3. QED
    BY <2>1, <2>2
<1>8. QED
  BY <1>1, <1>5, <1>6, <1>7

LEMMA CountedFacts ==
  ASSUME NEW s, NEW f, NEW p, Counted(s, f, p) # {}
  PROVE  /\ Max(Counted(s, f, p)) \in Obs
         /\ Counted(s, f, p) \subseteq Obs
<1>1. Counted(s, f, p) \subseteq Obs
  BY DEF Counted, Window
<1>2. IsFiniteSet(Counted(s, f, p)) /\ Counted(s, f, p) \subseteq Nat
  BY <1>1, CubeFacts, FS_Subset
<1>3. QED
  BY <1>1, <1>2, GreatestNat

LEMMA SameCoupon ==
  ASSUME NEW s, NEW z, SameNote(s, z), ~MemoryKo(s), NEW f, NEW g,
         \A k \in Obs : Worst(f, k) = Worst(g, k)
  PROVE  /\ \A p : Counted(s, f, p) = Counted(z, g, p)
         /\ \A p : Counted(s, f, p) # {} =>
                     /\ Qualifying(s, f, p) = Qualifying(z, g, p)
                     /\ BarrierOk(s, f, p) <=> BarrierOk(z, g, p)
                     /\ Left(s, f, p) = Left(z, g, p)
<1>1. ASSUME NEW p PROVE Counted(s, f, p) = Counted(z, g, p)
  BY SameCalls DEF Counted
<1>2. ASSUME NEW p, Counted(s, f, p) # {}
      PROVE  /\ Qualifying(s, f, p) = Qualifying(z, g, p)
             /\ BarrierOk(s, f, p) <=> BarrierOk(z, g, p)
  <2>1. /\ Counted(s, f, p) = Counted(z, g, p) /\ Counted(s, f, p) \subseteq Obs
        /\ Max(Counted(s, f, p)) \in Obs
    BY <1>1, <1>2, CountedFacts
  <2>2. s.lowerInclusive = z.lowerInclusive /\ s.upperInclusive = z.upperInclusive
    BY DEF SameNote
  <2>3. Qualifying(s, f, p) = Qualifying(z, g, p)
    <3> DEFINE S == {k \in Counted(s, f, p) :
                       InRange(Worst(f, k), p, s.lowerInclusive, s.upperInclusive)}
               Z == {k \in Counted(z, g, p) :
                       InRange(Worst(g, k), p, z.lowerInclusive, z.upperInclusive)}
    <3>1. \A k : k \in S <=> k \in Z
      BY <2>1, <2>2
    <3>2. S = Z
      <4> HIDE DEF S, Z
      <4>1. QED
        BY <3>1
    <3>3. QED
      BY <3>2 DEF Qualifying
  <2>4. BarrierOk(s, f, p) <=> BarrierOk(z, g, p)
    BY <2>1 DEF BarrierOk
  <2>5. QED
    BY <2>3, <2>4
<1>3. QED
  BY <1>1, <1>2 DEF Left

LEMMA SameDue ==
  ASSUME NEW s, \A i \in DOMAIN s.periods : i \in Int, NEW z, SameNote(s, z),
         ~MemoryKo(s), NEW f, NEW g,
         \A k \in Obs : Worst(f, k) = Worst(g, k)
  PROVE  Due(s, f) = Due(z, g)
<1>1. s.periods = z.periods /\ s.couponMemory = z.couponMemory
        /\ s.notional = z.notional /\ s.maturity = z.maturity
  BY DEF SameNote
<1>2. ASSUME NEW i \in DOMAIN s.periods
      PROVE  Carried(s, f, i) = Carried(z, g, i)
  <2> DEFINE S == {j \in 1 .. i - 1 : Counted(s, f, s.periods[j]) # {}}
             Z == {j \in 1 .. i - 1 : Counted(z, g, z.periods[j]) # {}}
  <2>1. S = Z
    <3>1. \A p : Counted(s, f, p) = Counted(z, g, p)
      BY SameCoupon
    <3>2. QED
      BY <1>1, <3>1
  <2>2. S \subseteq 1 .. i - 1 /\ \A j \in S : Counted(s, f, s.periods[j]) # {}
    OBVIOUS
  <2>3. S # {} => Left(s, f, s.periods[Max(S)]) = Left(z, g, z.periods[Max(S)])
    <3>1. S # {} => Max(S) \in S
      <4>1. IsFiniteSet(S) /\ S \subseteq Nat
        <5>1. IsFiniteSet(1 .. i - 1) /\ 1 .. i - 1 \subseteq Nat
          <6>1. 1 \in Int /\ i - 1 \in Int
            OBVIOUS
          <6>2. QED
            BY <6>1, FS_Interval
        <5>2. QED
          BY <2>2, <5>1, FS_Subset
      <4> HIDE DEF S
      <4>2. QED
        BY <4>1, GreatestNat
    <3>2. \A p : Counted(s, f, p) # {} => Left(s, f, p) = Left(z, g, p)
      BY SameCoupon
    <3> HIDE DEF S
    <3>3. QED
      BY <1>1, <2>2, <3>1, <3>2
  <2>4. QED
    BY <1>1, <2>1, <2>3 DEF Carried
<1>3. ASSUME NEW i \in DOMAIN s.periods, Counted(s, f, s.periods[i]) # {}
      PROVE  Coupon(s, f, i) = Coupon(z, g, i)
  <2> DEFINE p == s.periods[i]
  <2>1. /\ p = z.periods[i] /\ Carried(s, f, i) = Carried(z, g, i)
        /\ Counted(s, f, p) # {}
    BY <1>1, <1>2, <1>3
  <2> HIDE DEF p
  <2>2. /\ Qualifying(s, f, p) = Qualifying(z, g, p)
        /\ BarrierOk(s, f, p) <=> BarrierOk(z, g, p)
    BY <2>1, SameCoupon
  <2>3. /\ Called(s, f) <=> Called(z, g)
        /\ CallObs(s, f) = CallObs(z, g)
        /\ Called(s, f) => CallKind(s, f) = CallKind(z, g)
    BY SameCalls
  <2>4. QED
    BY <1>1, <2>1, <2>2, <2>3 DEF Coupon, p
<1>4. Principal(s, f) = Principal(z, g)
  BY <1>1, SameCalls DEF Principal, FundingAmount, SameNote
<1>5. Put(s, f) = Put(z, g)
  <2>1. Final(s) \in Obs /\ Final(s) = Final(z) /\ (Called(s, f) <=> Called(z, g))
    BY SameCalls, FinalInCube
  <2>2. CASE Called(s, f)
    BY <2>1, <2>2 DEF Put
  <2>3. CASE ~Called(s, f)
    <3>1. KnockedIn(s, f) <=> KnockedIn(z, g)
      BY <2>1, <2>3 DEF KnockedIn, KnockIn, SameNote
    <3>2. QED
      BY <1>1, <2>1, <2>3, <3>1 DEF Put, TerminalPayoff, SameNote
  <2>4. QED
    BY <2>2, <2>3
<1>6. {Coupon(s, f, i) : i \in {j \in DOMAIN s.periods :
                                  Counted(s, f, s.periods[j]) # {}}}
        = {Coupon(z, g, i) : i \in {j \in DOMAIN z.periods :
                                      Counted(z, g, z.periods[j]) # {}}}
  <2>1. {j \in DOMAIN s.periods : Counted(s, f, s.periods[j]) # {}}
          = {j \in DOMAIN z.periods : Counted(z, g, z.periods[j]) # {}}
    BY <1>1, SameCoupon
  <2>2. QED
    BY <1>3, <2>1
<1>7. QED
  BY <1>4, <1>5, <1>6 DEF Due

(***************************************************************************)
(* What a path is worth is a number: two equal ones differ by nothing.     *)
(***************************************************************************)
LEMMA CurveInt ==
  ASSUME NEW pillars, IsFiniteSet(pillars), pillars \subseteq PillarRecords,
         NEW date \in Nat
  PROVE  CurveRateAt(pillars, date) \in Int
<1> DEFINE dates == {p.date : p \in pillars}
           Rate(d) == (CHOOSE p \in pillars : p.date = d).rate
           before == {d \in dates : d < date}
           after == {d \in dates : d >= date}
<1>1. IsFiniteSet(dates) /\ dates \subseteq Nat
  <2> DEFINE g == [p \in pillars |-> p.date]
  <2>1. IsFiniteSet({g[p] : p \in pillars})
    <3> HIDE DEF g
    <3>1. QED
      BY FiniteImage
  <2>2. {g[p] : p \in pillars} = dates
    OBVIOUS
  <2>3. dates \subseteq Nat
    BY DEF PillarRecords
  <2>4. QED
    BY <2>1, <2>2, <2>3
<1>2. ASSUME NEW d \in dates PROVE Rate(d) \in Int
  <2>1. \E p \in pillars : p.date = d
    OBVIOUS
  <2>2. QED
    BY <2>1 DEF PillarRecords
<1>3. dates # {} => Min(dates) \in dates /\ Max(dates) \in dates
  <2> HIDE DEF dates
  <2>1. QED
    BY <1>1, Least, GreatestNat
<1>4. CurveRateAt(pillars, date) =
        IF dates = {} THEN 0
        ELSE IF date <= Min(dates) THEN Rate(Min(dates))
        ELSE IF date >= Max(dates) THEN Rate(Max(dates))
        ELSE Rate(Max(before)) + ((Rate(Min(after)) - Rate(Max(before)))
               * (date - Max(before))) \div (Min(after) - Max(before))
  BY DEF CurveRateAt
<1> HIDE DEF dates, Rate
<1>5. ASSUME dates # {}, ~(date <= Min(dates)), ~(date >= Max(dates))
      PROVE  Rate(Max(before)) + ((Rate(Min(after)) - Rate(Max(before)))
               * (date - Max(before))) \div (Min(after) - Max(before)) \in Int
  <2>1. Min(dates) \in before /\ Max(dates) \in after
    <3>1. /\ Min(dates) \in dates /\ Max(dates) \in dates
          /\ Min(dates) \in Nat /\ Max(dates) \in Nat
      BY <1>1, <1>3, <1>5
    <3>2. Min(dates) < date /\ Max(dates) >= date
      BY <1>5, <3>1
    <3>3. QED
      BY <3>1, <3>2
  <2>2. IsFiniteSet(before) /\ before \subseteq Nat /\ after \subseteq Nat
    BY <1>1, FS_Subset
  <2>3. Max(before) \in before /\ Min(after) \in after
    <3> HIDE DEF before, after
    <3>1. QED
      BY <2>1, <2>2, Least, GreatestNat
  <2>4. /\ Max(before) \in Nat /\ Min(after) \in Nat
        /\ Max(before) < date /\ date <= Min(after)
        /\ Max(before) \in dates /\ Min(after) \in dates
    BY <2>2, <2>3
  <2>5. /\ Rate(Max(before)) \in Int /\ Rate(Min(after)) \in Int
        /\ Min(after) - Max(before) \in Nat /\ Min(after) - Max(before) > 0
    BY <1>2, <2>4
  <2>6. (Rate(Min(after)) - Rate(Max(before))) * (date - Max(before)) \in Int
    BY <2>4, <2>5
  <2> HIDE DEF before, after
  <2>7. QED
    BY <2>5, <2>6, DivInt
<1>6. QED
  BY <1>2, <1>3, <1>4, <1>5

LEMMA DiscountInt ==
  ASSUME NEW r \in Requests, NEW date \in Nat
  PROVE  Discount(r, date) \in Int
<1>1. CurveRateAt(Compiled(r), date) \in Int
  BY RequestFacts, CurveInt
<1>2. Larger(date - r.evaluation, 0) \in Int
  BY RequestFacts DEF Larger
<1>3. CurveRateAt(Compiled(r), date) * Larger(date - r.evaluation, 0) \in Int
  BY <1>1, <1>2
<1>4. QED
  BY <1>3, DivInt DEF Discount, Whole

\* One leg of what is due.
Leg(leg) ==
  /\ IsFiniteSet(DOMAIN leg)
  /\ \A flow \in DOMAIN leg : leg[flow] \in Int /\ flow[3] \in Nat

LEMMA CashLeg ==
  ASSUME NEW flow, flow[3] \in Nat, NEW amount \in Int
  PROVE  Leg(Cash(flow, amount))
<1>1. Leg(EmptyBag)
  BY FS_EmptySet DEF Leg, EmptyBag, SetToBag
<1>2. Leg([f \in {flow} |-> amount])
  BY FS_Singleton DEF Leg
<1>3. QED
  BY <1>1, <1>2 DEF Cash

LEMMA RateInt ==
  ASSUME NEW p \in Periods, NEW qualifying \in Nat, NEW carried \in Nat
  PROVE  /\ PeriodRate(p, qualifying, carried) \in Nat
         /\ NextMemory(p, qualifying) \in Nat /\ Total(p) \in Nat
<1>1. p.rate \in Nat /\ p.fixed \in Nat /\ p.paid \in Nat /\ p.total \in Nat
  BY DEF Periods
<1>2. Total(p) \in Nat /\ Total(p) > 0
  BY <1>1 DEF Total, Larger
<1>3. Unpaid(p, qualifying) \in Nat
  BY <1>1 DEF Unpaid
<1>4. Smaller(Unpaid(p, qualifying) + carried, Total(p)) \in Nat
  BY <1>2, <1>3 DEF Smaller
<1>5. p.rate * Smaller(Unpaid(p, qualifying) + carried, Total(p)) \in Nat
  BY <1>1, <1>4
<1>6. \A a, b \in Nat : b > 0 => a \div b \in Nat
  OBVIOUS
<1>7. PeriodRate(p, qualifying, carried) \in Nat
  BY <1>1, <1>2, <1>5, <1>6 DEF PeriodRate
<1>8. QED
  BY <1>2, <1>3, <1>7 DEF NextMemory

LEMMA QualifyingNat ==
  ASSUME NEW s, NEW f, NEW p
  PROVE  Qualifying(s, f, p) \in Nat
<1>1. IsFiniteSet(Counted(s, f, p))
  BY CubeFacts, FS_Subset DEF Counted, Window
<1>2. QED
  BY <1>1, FS_Subset, FS_CardinalityType DEF Qualifying

LEMMA CarriedNat ==
  ASSUME NEW s, s.periods \in Seq(Periods), NEW f, NEW i \in DOMAIN s.periods
  PROVE  Carried(s, f, i) \in Nat
<1> DEFINE S == {j \in 1 .. i - 1 : Counted(s, f, s.periods[j]) # {}}
<1>1. i \in Int /\ 1 .. i - 1 \subseteq DOMAIN s.periods
  OBVIOUS
<1>2. IsFiniteSet(S) /\ S \subseteq Nat
  <2>1. IsFiniteSet(1 .. i - 1) /\ 1 .. i - 1 \subseteq Nat
    <3>1. 1 \in Int /\ i - 1 \in Int
      BY <1>1
    <3>2. QED
      BY <3>1, FS_Interval
  <2>2. QED
    BY <2>1, FS_Subset
<1>3. S # {} => Max(S) \in DOMAIN s.periods
  <2>1. S # {} => Max(S) \in S
    <3> HIDE DEF S
    <3>1. QED
      BY <1>2, GreatestNat
  <2>2. QED
    BY <1>1, <2>1
<1>4. ASSUME NEW j \in DOMAIN s.periods PROVE Left(s, f, s.periods[j]) \in Nat
  <2>1. s.periods[j] \in Periods
    OBVIOUS
  <2>2. QED
    BY <2>1, QualifyingNat, RateInt DEF Left
<1> HIDE DEF S
<1>5. QED
  BY <1>3, <1>4 DEF Carried, S

LEMMA CallInCube ==
  ASSUME NEW s, NEW f, Called(s, f)
  PROVE  CallObs(s, f) \in Obs /\ Dates[CallObs(s, f)] \in Nat
<1>1. 0 .. Final(s) \subseteq Obs
  BY FinalInCube, CubeFacts DEF Obs
<1>2. Calls(s, f) \subseteq Obs /\ Calls(s, f) # {}
  BY <1>1 DEF Calls, Called
<1>3. CallObs(s, f) \in Obs
  BY <1>2, CubeFacts, Least DEF CallObs
<1>4. QED
  BY <1>3, CubeFacts

Paths == [Obs -> [Underlyings -> Nat]]

LEMMA WorstNat ==
  ASSUME NEW f \in Paths, NEW k \in Obs
  PROVE  Worst(f, k) \in Nat
<1>1. {f[k][u] : u \in Underlyings} \subseteq Nat
  BY DEF Paths
<1>2. {f[k][u] : u \in Underlyings} # {}
  BY CubeAssumption
<1>3. QED
  BY <1>1, <1>2, Least DEF Worst, WorstOf

LEMMA PrincipalLeg ==
  ASSUME NEW r \in Requests, NEW f \in Paths
  PROVE  Leg(Principal(r, f))
<1> DEFINE flow == IF Called(r, f)
                     THEN <<"FUNDING", CallObs(r, f), Dates[CallObs(r, f)]>>
                     ELSE <<"FUNDING", Final(r), r.maturity>>
<1>1. flow[3] \in Nat
  BY CallInCube, RequestFacts
<1>2. FundingAmount(r) \in Int
  BY RequestFacts DEF FundingAmount
<1> HIDE DEF flow
<1>3. QED
  BY <1>1, <1>2, CashLeg DEF Principal, flow

LEMMA PutLeg ==
  ASSUME NEW r \in Requests, NEW f \in Paths
  PROVE  Leg(Put(r, f))
<1> DEFINE flow == <<"PUT", 0, r.maturity>>
           amount == r.notional * TerminalPayoff(r, KnockedIn(r, f),
                                                 Worst(f, Final(r)))
<1>1. Worst(f, Final(r)) \in Nat
  BY FinalInCube, WorstNat
<1>2. flow[3] \in Nat
  BY RequestFacts
<1>3. TerminalPayoff(r, KnockedIn(r, f), Worst(f, Final(r))) \in Int
  BY <1>1, RequestFacts DEF TerminalPayoff
<1>4. amount \in Int
  BY <1>3, RequestFacts
<1> HIDE DEF flow, amount
<1>5. Leg(Cash(flow, amount))
  BY <1>2, <1>4, CashLeg
<1>6. Leg(EmptyBag)
  BY FS_EmptySet DEF Leg, EmptyBag, SetToBag
<1>7. QED
  BY <1>5, <1>6 DEF Put, flow, amount

LEMMA CouponLeg ==
  ASSUME NEW r \in Requests, NEW f \in Paths, NEW i \in DOMAIN r.periods
  PROVE  Leg(Coupon(r, f, i))
<1> DEFINE p == r.periods[i]
           calls == Called(r, f) /\ CallObs(r, f) \in Window(p)
           rate == IF BarrierOk(r, f, p)
                     THEN PeriodRate(p, Qualifying(r, f, p), Carried(r, f, i))
                     ELSE p.fixed
           extra == IF ~calls THEN 0
                    ELSE IF CallKind(r, f) = "local" THEN p.localCoupon
                                                     ELSE p.globalCoupon
           flow == <<"COUPON", i, IF calls THEN Dates[CallObs(r, f)]
                                           ELSE p.payment>>
<1>1. p \in Periods /\ r.notional \in Nat /\ r.periods \in Seq(Periods)
  BY RequestFacts
<1> HIDE DEF p
<1>2. /\ p.fixed \in Nat /\ p.localCoupon \in Nat /\ p.globalCoupon \in Nat
      /\ p.payment \in Nat
  BY <1>1 DEF Periods
<1>3. rate \in Nat
  <2>1. Qualifying(r, f, p) \in Nat /\ Carried(r, f, i) \in Nat
    BY <1>1, QualifyingNat, CarriedNat
  <2>2. QED
    BY <1>1, <1>2, <2>1, RateInt
<1>4. extra \in Nat
  BY <1>2
<1>5. flow[3] \in Nat
  BY <1>2, CallInCube
<1> HIDE DEF rate, extra, flow
<1>6. r.notional * (rate + extra) \in Int
  BY <1>1, <1>3, <1>4
<1>7. Leg(Cash(flow, r.notional * (rate + extra)))
  BY <1>5, <1>6, CashLeg
<1>8. QED
  BY <1>7 DEF Coupon, p, rate, extra, flow

LEMMA DueLeg ==
  ASSUME NEW r \in Requests, NEW f \in Paths
  PROVE  Leg(Due(r, f))
<1> DEFINE J == {j \in DOMAIN r.periods : Counted(r, f, r.periods[j]) # {}}
           coupons == {Coupon(r, f, i) : i \in J}
           legs == {Principal(r, f), Put(r, f)} \cup coupons
           flows == UNION {DOMAIN leg : leg \in legs}
<1>1. IsFiniteSet(J)
  <2>1. r.periods \in Seq(Periods)
    BY RequestFacts
  <2>2. IsFiniteSet(1 .. Len(r.periods)) /\ DOMAIN r.periods = 1 .. Len(r.periods)
    <3>1. Len(r.periods) \in Int /\ 1 \in Int
      BY <2>1
    <3>2. QED
      BY <2>1, <3>1, FS_Interval
  <2>3. QED
    BY <2>2, FS_Subset
<1>2. IsFiniteSet(coupons)
  <2> DEFINE g == [i \in J |-> Coupon(r, f, i)]
  <2>1. IsFiniteSet({g[i] : i \in J})
    <3> HIDE DEF g, J
    <3>1. QED
      BY <1>1, FiniteImage
  <2>2. {g[i] : i \in J} = coupons
    OBVIOUS
  <2>3. QED
    BY <2>1, <2>2
<1>3. \A leg \in coupons : Leg(leg)
  BY CouponLeg
<1> HIDE DEF coupons
<1>4. IsFiniteSet(legs) /\ \A leg \in legs : Leg(leg)
  <2>1. IsFiniteSet((coupons \cup {Put(r, f)}) \cup {Principal(r, f)})
    BY <1>2, FS_AddElement
  <2>2. legs = (coupons \cup {Put(r, f)}) \cup {Principal(r, f)}
    OBVIOUS
  <2>3. Leg(Principal(r, f)) /\ Leg(Put(r, f))
    BY PrincipalLeg, PutLeg
  <2>4. QED
    BY <1>3, <2>1, <2>2, <2>3
<1> HIDE DEF legs
<1>5. IsFiniteSet(flows)
  <2> DEFINE g == [leg \in legs |-> DOMAIN leg]
             D == {g[leg] : leg \in legs}
  <2>1. IsFiniteSet(D)
    <3> HIDE DEF g
    <3>1. QED
      BY <1>4, FiniteImage
  <2>2. D = {DOMAIN leg : leg \in legs}
    OBVIOUS
  <2>3. \A S \in D : IsFiniteSet(S)
    BY <1>4 DEF Leg
  <2>4. IsFiniteSet(UNION D)
    <3> HIDE DEF D
    <3>1. QED
      BY <2>1, <2>3, FS_UNION
  <2>5. QED
    BY <2>2, <2>4
<1>6. Due(r, f) = [flow \in flows |->
                     (CHOOSE leg \in legs : flow \in DOMAIN leg)[flow]]
  BY DEF Due, Together, legs, coupons
<1>7. ASSUME NEW flow \in flows
      PROVE  /\ (CHOOSE leg \in legs : flow \in DOMAIN leg)[flow] \in Int
             /\ flow[3] \in Nat
  <2>1. PICK leg : leg = CHOOSE l \in legs : flow \in DOMAIN l
    OBVIOUS
  <2>2. leg \in legs /\ flow \in DOMAIN leg
    BY <2>1
  <2>3. leg[flow] \in Int /\ flow[3] \in Nat
    BY <1>4, <2>2 DEF Leg
  <2>4. QED
    BY <2>1, <2>3
<1> HIDE DEF flows
<1>8. DOMAIN Due(r, f) = flows
  BY <1>6
<1>9. QED
  BY <1>5, <1>6, <1>7, <1>8 DEF Leg

LEMMA PathInt ==
  ASSUME NEW r \in Requests, NEW f \in Paths
  PROVE  PathPv(r, f) \in Int
<1> DEFINE due == Due(r, f)
           h == [flow \in DOMAIN due |->
                   due[flow] * Discount(r, flow[3])
                     * (IF flow[1] = "PUT" THEN -1 ELSE 1)]
<1>1. Leg(due)
  BY DueLeg
<1>2. PathPv(r, f) = SumFunctionOnSet(h, DOMAIN due)
  <2>1. PathPv(r, f) = SumFunction(h)
    BY DEF PathPv
  <2>2. DOMAIN h = DOMAIN due
    OBVIOUS
  <2> HIDE DEF h, due
  <2>3. QED
    BY <2>1, <2>2 DEF SumFunction
<1> HIDE DEF due
<1>3. ASSUME NEW flow \in DOMAIN due PROVE h[flow] \in Int
  <2>1. due[flow] \in Int /\ Discount(r, flow[3]) \in Int
    BY <1>1, DiscountInt DEF Leg
  <2>2. due[flow] * Discount(r, flow[3]) \in Int
    BY <2>1
  <2>3. QED
    BY <2>2
<1> HIDE DEF h
<1>4. SumFunctionOnSet(h, DOMAIN due) \in Int
  BY <1>1, <1>3, SumTake DEF Leg
<1>5. QED
  BY <1>2, <1>4

(***************************************************************************)
(* Fixings of a cube against reference spots, bumped or not.               *)
(***************************************************************************)
Signs == {-1, 0, 1}

LEMMA TimesFacts ==
  ASSUME NEW x \in Nat, NEW sign \in Signs, Times(x, -1) > 0
  PROVE  /\ Times(x, sign) \in Nat /\ Times(x, sign) > 0
         /\ Times(x, sign) <= Times(x, 1) /\ Times(x, 0) = x
<1>1. Times(x, -1) = (x * 4) \div 5
  BY DEF Times
<1>2. Times(x, 0) = (x * 5) \div 5
  BY DEF Times
<1>3. Times(x, 1) = (x * 6) \div 5
  BY DEF Times
<1>4. /\ (x * 5) \div 5 = x /\ (x * 4) \div 5 <= x /\ x <= (x * 6) \div 5
      /\ (x * 4) \div 5 \in Nat /\ (x * 6) \div 5 \in Nat
  OBVIOUS
<1>5. QED
  BY <1>1, <1>2, <1>3, <1>4 DEF Signs

LEMMA Quotient ==
  ASSUME NEW a \in Nat, NEW b \in Nat, b > 0, a >= b
  PROVE  a \div b \in Nat /\ a \div b > 0
OBVIOUS

LEMMA NoQuotient ==
  ASSUME NEW b \in Nat, b > 0
  PROVE  0 \div b = 0
OBVIOUS

LEMMA PositiveFactor ==
  ASSUME NEW a \in Int, NEW b \in Nat, a * b > 0
  PROVE  a > 0
<1>1. b # 0 /\ (a <= 0 => a * b <= 0)
  OBVIOUS
<1>2. QED
  BY <1>1

LEMMA LevelInt ==
  ASSUME NEW r \in Requests, NEW draw \in Draws, NEW p \in DOMAIN draw,
         NEW k \in Obs, NEW u \in Underlyings
  PROVE  /\ Level(r, draw, p, k, u) \in Int
         /\ ~Reads(r, u, k) => Level(r, draw, p, k, u) = 0
<1>1. CurveRateAt(Given(r), Dates[k]) \in Int
  BY RequestFacts, CubeFacts, CurveInt
<1>2. StepVol(r, u) \in Int
  <2>1. CASE u \in DOMAIN r.surfaces
    <3>1. r.surfaces[u].strike \in Nat /\ r.surfaces[u].knockIn \in Nat
      BY <2>1, RequestTypes
    <3>2. QED
      BY <3>1, <2>1 DEF StepVol, Larger
  <2>2. CASE u \notin DOMAIN r.surfaces
    BY <2>2 DEF StepVol, DefaultVol
  <2>3. QED
    BY <2>1, <2>2
<1>3. draw[p][k][u] \in Int /\ r.quoted[u] \in Int
  BY RequestTypes, RequestFacts
<1>4. StepVol(r, u) * draw[p][k][u] \in Int
  BY <1>2, <1>3
<1>5. r.quoted[u] * (20 + CurveRateAt(Given(r), Dates[k])
                       + StepVol(r, u) * draw[p][k][u]) \in Int
  BY <1>1, <1>3, <1>4
<1>6. QED
  BY <1>5, DivInt DEF Level

\* What the lane knows of a cube it has drawn.
Drawn(r, levels) ==
  \E draw \in Draws : levels = DailyPathCube(r, draw)

LEMMA CubeFixings ==
  ASSUME NEW r \in Requests, ~CubeRefused(r), NEW levels, Drawn(r, levels),
         NEW z, NEW reference, z.reference = reference,
         reference \in [Underlyings -> Nat],
         \A u \in Underlyings : reference[u] > 0
                                  /\ reference[u] <= Times(r.reference[u], 1),
         NEW p \in DOMAIN levels
  PROVE  /\ Fixings(z, levels[p]) \in Paths
         /\ \A k \in Obs, u \in Underlyings :
              Fixings(z, levels[p])[k][u] > 0 <=> levels[p][k][u] > 0
<1>1. PICK draw \in Draws : levels = DailyPathCube(r, draw)
  BY DEF Drawn
<1>2. p \in DOMAIN draw
  BY <1>1 DEF DailyPathCube
<1>3. ASSUME NEW k \in Obs, NEW u \in Underlyings
      PROVE  /\ Fixings(z, levels[p])[k][u] \in Nat
             /\ Fixings(z, levels[p])[k][u] > 0 <=> levels[p][k][u] > 0
  <2>1. PICK level : level = Level(r, draw, p, k, u)
    OBVIOUS
  <2>2. levels[p][k][u] = level
    BY <1>1, <1>2, <2>1 DEF DailyPathCube
  <2>3. Fixings(z, levels[p])[k][u] = (level * Unit) \div reference[u]
    BY <2>2 DEF Fixings
  <2>4. /\ reference[u] \in Nat /\ reference[u] > 0
        /\ reference[u] <= Times(r.reference[u], 1)
    OBVIOUS
  <2>5. CASE Reads(r, u, k)
    <3>1. level \in Int /\ level * Unit >= Times(r.reference[u], 1)
      BY <1>2, <2>1, <2>5, LevelInt, MarketAssumption
    <3>2. Times(r.reference[u], 1) \in Int
      BY RequestFacts, DivInt DEF Times
    <3>3. level * Unit \in Int
      BY <3>1, CubeFacts
    <3>4. /\ level * Unit \in Nat /\ level * Unit >= reference[u]
          /\ level * Unit > 0
      BY <2>4, <3>1, <3>2, <3>3
    <3>5. level > 0
      BY <3>1, <3>4, CubeFacts, PositiveFactor
    <3>6. QED
      BY <2>2, <2>3, <2>4, <3>4, <3>5, Quotient
  <2>6. CASE ~Reads(r, u, k)
    <3>1. level = 0
      BY <1>2, <2>1, <2>6, LevelInt
    <3>2. level * Unit = 0
      BY <3>1, CubeFacts
    <3>3. 0 \div reference[u] = 0
      BY <2>4, NoQuotient
    <3>4. QED
      BY <2>2, <2>3, <3>1, <3>2, <3>3
  <2>7. QED
    BY <2>5, <2>6
<1>4. Fixings(z, levels[p]) = [k \in Obs |-> [u \in Underlyings |->
                                 Fixings(z, levels[p])[k][u]]]
  BY DEF Fixings
<1>5. QED
  BY <1>3, <1>4 DEF Paths

LEMMA BumpedReference ==
  ASSUME NEW r \in Requests, ~CubeRefused(r), NEW u \in Underlyings,
         NEW sign \in Signs
  PROVE  /\ SpotBumped(r, u, sign).reference \in [Underlyings -> Nat]
         /\ r.reference \in [Underlyings -> Nat]
         /\ \A v \in Underlyings :
              /\ SpotBumped(r, u, sign).reference[v] > 0
              /\ SpotBumped(r, u, sign).reference[v] <= Times(r.reference[v], 1)
              /\ r.reference[v] > 0
              /\ r.reference[v] <= Times(r.reference[v], 1)
<1>1. SpotBumped(r, u, sign).reference
        = [r.reference EXCEPT ![u] = Times(r.reference[u], sign)]
  BY Bumped
<1>2. r.reference \in [Underlyings -> Nat]
  BY RequestFacts
<1>3. ASSUME NEW v \in Underlyings
      PROVE  /\ Times(r.reference[v], sign) \in Nat
             /\ Times(r.reference[v], sign) > 0
             /\ Times(r.reference[v], sign) <= Times(r.reference[v], 1)
             /\ r.reference[v] > 0
             /\ r.reference[v] <= Times(r.reference[v], 1)
  <2>1. Times(r.reference[v], -1) > 0 /\ r.reference[v] \in Nat
    BY <1>2, MarketAssumption
  <2>2. \A s \in Signs : /\ Times(r.reference[v], s) \in Nat
                         /\ Times(r.reference[v], s) > 0
                         /\ Times(r.reference[v], s) <= Times(r.reference[v], 1)
                         /\ Times(r.reference[v], 0) = r.reference[v]
    BY <2>1, TimesFacts
  <2>3. 0 \in Signs
    BY DEF Signs
  <2>4. QED
    BY <2>2, <2>3
<1>4. QED
  BY <1>1, <1>2, <1>3

(***************************************************************************)
(* What the engine says of a request and of its bumps.                     *)
(***************************************************************************)
Completes(s, levels) ==
  \A p \in DOMAIN levels : Complete(s, Fixings(s, levels[p]))

LEMMA SeenInCube ==
  ASSUME NEW s, NEW f
  PROVE  /\ 0 .. (IF Called(s, f) THEN CallObs(s, f) ELSE Final(s)) \subseteq Obs
         /\ \A p : Counted(s, f, p) \subseteq Obs
<1>1. ASSUME NEW last \in Obs PROVE 0 .. last \subseteq Obs
  BY CubeFacts DEF Obs
<1>2. (IF Called(s, f) THEN CallObs(s, f) ELSE Final(s)) \in Obs
  BY CallInCube, FinalInCube
<1>3. \A p : Counted(s, f, p) \subseteq Obs
  BY DEF Counted, Window
<1>4. QED
  BY <1>1, <1>2, <1>3

LEMMA CompletePath ==
  ASSUME NEW s, NEW f, \A k \in Obs, u \in Underlyings : f[k][u] > 0
  PROVE  Complete(s, f)
<1> DEFINE last == IF Called(s, f) THEN CallObs(s, f) ELSE Final(s)
           seen == 0 .. last \cup
                     UNION {Counted(s, f, s.periods[i]) : i \in DOMAIN s.periods}
<1>1. seen \subseteq Obs
  BY SeenInCube
<1>2. Complete(s, f) <=> \A k \in seen, u \in Underlyings : ValidFixing(f[k][u])
  BY DEF Complete
<1> HIDE DEF seen
<1>3. QED
  BY <1>1, <1>2 DEF ValidFixing

LEMMA NativeStatus ==
  ASSUME NEW r, NEW z, SameNote(r, z), NEW levels,
         Completes(r, levels) <=> Completes(z, levels)
  PROVE  /\ NativePrice(z, levels).status = NativePrice(r, levels).status
         /\ NativePrice(r, levels).status
              \in {"ok", "unsupported", "unresolved"}
         /\ NativePrice(r, levels).status = "ok" =>
              /\ Completes(r, levels)
              /\ NativePrice(z, levels)
                   = [status |-> "ok",
                      pv |-> SumFunction([p \in DOMAIN levels |->
                               PathPv(z, Fixings(z, levels[p]))])]
<1>1. Refusal(z) = Refusal(r)
  BY DEF Refusal, SameNote
<1>2. ASSUME NEW s
      PROVE  NativePrice(s, levels) =
        IF Refusal(s) # "verified"
          THEN [status |-> IF Refusal(s) = "unsupported" THEN "unsupported"
                                                         ELSE "unresolved",
                pv |-> 0]
        ELSE IF ~Completes(s, levels) THEN [status |-> "unresolved", pv |-> 0]
        ELSE [status |-> "ok", pv |-> SumFunction([p \in DOMAIN levels |->
                                PathPv(s, Fixings(s, levels[p]))])]
  BY DEF NativePrice, Completes
<1>3. ASSUME NEW s
      PROVE  NativePrice(s, levels).status =
               IF Refusal(s) = "unsupported" THEN "unsupported"
               ELSE IF Refusal(s) # "verified" \/ ~Completes(s, levels)
                 THEN "unresolved" ELSE "ok"
  <2> DEFINE refused == IF Refusal(s) = "unsupported" THEN "unsupported"
                                                      ELSE "unresolved"
             value == SumFunction([p \in DOMAIN levels |->
                                     PathPv(s, Fixings(s, levels[p]))])
  <2>1. NativePrice(s, levels) =
          IF Refusal(s) # "verified" THEN [status |-> refused, pv |-> 0]
          ELSE IF ~Completes(s, levels) THEN [status |-> "unresolved", pv |-> 0]
          ELSE [status |-> "ok", pv |-> value]
    BY <1>2
  <2> HIDE DEF refused, value
  <2>2. NativePrice(s, levels).status =
          IF Refusal(s) # "verified" THEN refused
          ELSE IF ~Completes(s, levels) THEN "unresolved" ELSE "ok"
    BY <2>1
  <2>3. QED
    BY <2>2 DEF refused
<1>4. ASSUME NativePrice(r, levels).status = "ok"
      PROVE  Refusal(r) = "verified" /\ Completes(r, levels)
  BY <1>3, <1>4
<1>5. QED
  <2>1. /\ NativePrice(z, levels).status = NativePrice(r, levels).status
        /\ NativePrice(r, levels).status
             \in {"ok", "unsupported", "unresolved"}
    BY <1>1, <1>3
  <2>2. ASSUME NativePrice(r, levels).status = "ok"
        PROVE  NativePrice(z, levels)
                 = [status |-> "ok",
                    pv |-> SumFunction([p \in DOMAIN levels |->
                             PathPv(z, Fixings(z, levels[p]))])]
    <3>1. Refusal(z) = "verified" /\ Completes(z, levels)
      BY <1>1, <1>4, <2>2
    <3>2. QED
      BY <1>2, <3>1
  <2>3. QED
    BY <1>4, <2>1, <2>2

\* On a cube of numbers every bump is complete.
WholeCube(levels) ==
  \A p \in DOMAIN levels, k \in Obs, u \in Underlyings : levels[p][k][u] > 0

LEMMA WholeCubeCompletes ==
  ASSUME NEW r \in Requests, ~CubeRefused(r),
         NEW levels, Drawn(r, levels), WholeCube(levels),
         NEW z, z.reference \in [Underlyings -> Nat],
         \A u \in Underlyings : z.reference[u] > 0
                                  /\ z.reference[u] <= Times(r.reference[u], 1)
  PROVE  Completes(z, levels)
<1> SUFFICES ASSUME NEW p \in DOMAIN levels
             PROVE  Complete(z, Fixings(z, levels[p]))
  BY DEF Completes
<1>1. PICK reference : z.reference = reference
  OBVIOUS
<1>2. \A k \in Obs, u \in Underlyings : Fixings(z, levels[p])[k][u] > 0
  BY <1>1, CubeFixings DEF WholeCube
<1>3. QED
  BY <1>2, CompletePath

LEMMA NativeOfBumps ==
  ASSUME NEW r \in Requests, ~CubeRefused(r),
         NEW levels, Drawn(r, levels), WholeCube(levels),
         NEW u \in Underlyings, NEW sign \in Signs
  PROVE  /\ NativePrice(SpotBumped(r, u, sign), levels).status
              = NativePrice(r, levels).status
         /\ NativePrice(VolBumped(r, u, sign), levels).status
              = NativePrice(r, levels).status
<1>1. PICK z : z = SpotBumped(r, u, sign)
  OBVIOUS
<1>2. PICK y : y = VolBumped(r, u, sign)
  OBVIOUS
<1>3. SameNote(r, z) /\ SameNote(r, y) /\ y.reference = r.reference
  BY <1>1, <1>2, Bumped
<1>4. /\ z.reference \in [Underlyings -> Nat] /\ r.reference \in [Underlyings -> Nat]
      /\ \A v \in Underlyings :
           /\ z.reference[v] > 0 /\ z.reference[v] <= Times(r.reference[v], 1)
           /\ r.reference[v] > 0 /\ r.reference[v] <= Times(r.reference[v], 1)
  BY <1>1, BumpedReference
<1>5. Completes(r, levels) /\ Completes(z, levels) /\ Completes(y, levels)
  BY <1>3, <1>4, WholeCubeCompletes
<1>6. QED
  BY <1>1, <1>2, <1>3, <1>5, NativeStatus

(***************************************************************************)
(* The bump of a name that is not the worst.                               *)
(***************************************************************************)
LEMMA SameWorst ==
  ASSUME NEW u \in Underlyings,
         NEW f \in [Underlyings -> Nat], NEW g \in [Underlyings -> Nat],
         \A v \in Underlyings \ {u} : f[v] = g[v],
         \E v \in Underlyings \ {u} : f[v] < f[u],
         \E v \in Underlyings \ {u} : g[v] < g[u]
  PROVE  WorstOf(f) = WorstOf(g)
<1> DEFINE A == {f[v] : v \in Underlyings}
           B == {g[v] : v \in Underlyings}
<1>1. A \subseteq Nat /\ B \subseteq Nat /\ A # {} /\ B # {}
  OBVIOUS
<1>2. /\ Min(A) \in A /\ \A y \in A : Min(A) <= y
      /\ Min(B) \in B /\ \A y \in B : Min(B) <= y
  <2> HIDE DEF A, B
  <2>1. QED
    BY <1>1, Least
<1>3. Min(A) \in B
  <2>1. PICK w \in Underlyings : Min(A) = f[w]
    BY <1>2
  <2>2. w # u
    <3>1. PICK v \in Underlyings \ {u} : f[v] < f[u]
      OBVIOUS
    <3>2. f[w] <= f[v] /\ f[v] \in Nat /\ f[u] \in Nat
      BY <1>2, <2>1
    <3>3. QED
      BY <3>1, <3>2
  <2>3. QED
    BY <2>1, <2>2
<1>4. Min(B) \in A
  <2>1. PICK w \in Underlyings : Min(B) = g[w]
    BY <1>2
  <2>2. w # u
    <3>1. PICK v \in Underlyings \ {u} : g[v] < g[u]
      OBVIOUS
    <3>2. g[w] <= g[v] /\ g[v] \in Nat /\ g[u] \in Nat
      BY <1>2, <2>1
    <3>3. QED
      BY <3>1, <3>2
  <2>3. QED
    BY <2>1, <2>2
<1> HIDE DEF A, B
<1>5. Min(A) = Min(B)
  <2>1. Min(A) \in Nat /\ Min(B) \in Nat
    BY <1>1, <1>2
  <2>2. Min(A) <= Min(B) /\ Min(B) <= Min(A)
    BY <1>2, <1>3, <1>4
  <2>3. QED
    BY <2>1, <2>2
<1>6. QED
  BY <1>5 DEF WorstOf, A, B

LEMMA SameValue ==
  ASSUME NEW r \in Requests, ~MemoryKo(r), NEW z, SameNote(r, z),
         NEW f, NEW g, \A k \in Obs : Worst(f, k) = Worst(g, k)
  PROVE  PathPv(r, f) = PathPv(z, g)
<1>1. Due(r, f) = Due(z, g)
  <2>1. \A i \in DOMAIN r.periods : i \in Int
    <3>1. r.periods \in Seq(Periods)
      BY RequestFacts
    <3>2. QED
      BY <3>1
  <2>2. QED
    BY <2>1, SameDue
<1>2. \A date : Discount(r, date) = Discount(z, date)
  BY DEF Discount, Compiled, SameNote
<1>3. QED
  BY <1>1, <1>2 DEF PathPv

LEMMA SameComplete ==
  ASSUME NEW s, NEW z, SameNote(s, z), ~MemoryKo(s), NEW f, NEW g,
         \A k \in Obs : Worst(f, k) = Worst(g, k),
         \A k \in Obs, u \in Underlyings : f[k][u] > 0 <=> g[k][u] > 0
  PROVE  Complete(s, f) <=> Complete(z, g)
<1>1. /\ Final(s) = Final(z) /\ (Called(s, f) <=> Called(z, g))
      /\ CallObs(s, f) = CallObs(z, g)
  BY SameCalls
<1>2. \A p : Counted(s, f, p) = Counted(z, g, p)
  BY SameCoupon
<1>3. s.periods = z.periods
  BY DEF SameNote
<1> DEFINE seen == 0 .. (IF Called(s, f) THEN CallObs(s, f) ELSE Final(s)) \cup
                     UNION {Counted(s, f, s.periods[i]) : i \in DOMAIN s.periods}
<1>4. seen = 0 .. (IF Called(z, g) THEN CallObs(z, g) ELSE Final(z)) \cup
               UNION {Counted(z, g, z.periods[i]) : i \in DOMAIN z.periods}
  BY <1>1, <1>2, <1>3
<1>5. seen \subseteq Obs
  BY SeenInCube
<1> HIDE DEF seen
<1>6. Complete(s, f) <=> \A k \in seen, u \in Underlyings : ValidFixing(f[k][u])
  BY DEF Complete, seen
<1>7. Complete(z, g) <=> \A k \in seen, u \in Underlyings : ValidFixing(g[k][u])
  BY <1>4 DEF Complete
<1>8. QED
  BY <1>5, <1>6, <1>7 DEF ValidFixing

\* u is not the worst name of a cube, and would not be after its bumps.
NotWorst(r, levels, u) ==
  \A p \in DOMAIN levels, k \in Obs, sign \in Signs :
    \E v \in Underlyings \ {u} :
      Fixings(SpotBumped(r, u, sign), levels[p])[k][v]
        < Fixings(SpotBumped(r, u, sign), levels[p])[k][u]

LEMMA IdlePath ==
  ASSUME NEW r \in Requests, ~CubeRefused(r), ~MemoryKo(r),
         NEW levels, Drawn(r, levels), NEW u \in Underlyings,
         NotWorst(r, levels, u), NEW sign \in Signs, NEW p \in DOMAIN levels
  PROVE  LET z == SpotBumped(r, u, sign)
         IN /\ PathPv(z, Fixings(z, levels[p])) = PathPv(r, Fixings(r, levels[p]))
            /\ Complete(r, Fixings(r, levels[p]))
                 <=> Complete(z, Fixings(z, levels[p]))
<1>1. PICK z : z = SpotBumped(r, u, sign)
  OBVIOUS
<1>2. PICK y : y = SpotBumped(r, u, 0)
  OBVIOUS
<1>3. 0 \in Signs
  BY DEF Signs
<1>4. /\ SameNote(r, z) /\ r.reference \in [Underlyings -> Nat]
      /\ z.reference = [r.reference EXCEPT ![u] = Times(@, sign)]
      /\ y.reference = [r.reference EXCEPT ![u] = Times(@, 0)]
  BY <1>1, <1>2, Bumped, RequestFacts
<1>5. y.reference = r.reference
  <2>1. Times(r.reference[u], 0) = r.reference[u]
    BY <1>3, <1>4, MarketAssumption, TimesFacts
  <2>2. QED
    BY <1>4, <2>1
<1>6. Fixings(y, levels[p]) = Fixings(r, levels[p])
  BY <1>5 DEF Fixings
<1>7. /\ Fixings(z, levels[p]) \in Paths /\ Fixings(r, levels[p]) \in Paths
      /\ \A k \in Obs, v \in Underlyings :
           Fixings(r, levels[p])[k][v] > 0 <=> Fixings(z, levels[p])[k][v] > 0
  <2>1. /\ z.reference \in [Underlyings -> Nat]
        /\ \A v \in Underlyings :
             /\ z.reference[v] > 0 /\ z.reference[v] <= Times(r.reference[v], 1)
             /\ r.reference[v] > 0 /\ r.reference[v] <= Times(r.reference[v], 1)
    BY <1>1, BumpedReference
  <2>2. PICK reference : reference = z.reference
    OBVIOUS
  <2>3. /\ Fixings(z, levels[p]) \in Paths
        /\ \A k \in Obs, v \in Underlyings :
             Fixings(z, levels[p])[k][v] > 0 <=> levels[p][k][v] > 0
    BY <2>1, <2>2, CubeFixings
  <2>4. PICK refs : refs = r.reference
    OBVIOUS
  <2>5. /\ Fixings(r, levels[p]) \in Paths
        /\ \A k \in Obs, v \in Underlyings :
             Fixings(r, levels[p])[k][v] > 0 <=> levels[p][k][v] > 0
    BY <1>4, <2>1, <2>4, CubeFixings
  <2>6. QED
    BY <2>3, <2>5
<1>8. ASSUME NEW k \in Obs
      PROVE  Worst(Fixings(r, levels[p]), k) = Worst(Fixings(z, levels[p]), k)
  <2>1. \A v \in Underlyings \ {u} :
          Fixings(r, levels[p])[k][v] = Fixings(z, levels[p])[k][v]
    <3>1. \A v \in Underlyings \ {u} : z.reference[v] = r.reference[v]
      BY <1>4
    <3>2. QED
      BY <3>1 DEF Fixings
  <2>2. \E v \in Underlyings \ {u} :
          Fixings(z, levels[p])[k][v] < Fixings(z, levels[p])[k][u]
    BY <1>1 DEF NotWorst
  <2>3. \E v \in Underlyings \ {u} :
          Fixings(r, levels[p])[k][v] < Fixings(r, levels[p])[k][u]
    BY <1>2, <1>3, <1>6 DEF NotWorst
  <2>4. PICK f, g : f = Fixings(r, levels[p])[k] /\ g = Fixings(z, levels[p])[k]
    OBVIOUS
  <2>5. f \in [Underlyings -> Nat] /\ g \in [Underlyings -> Nat]
    BY <1>7, <2>4 DEF Paths
  <2>6. WorstOf(f) = WorstOf(g)
    BY <2>1, <2>2, <2>3, <2>4, <2>5, SameWorst
  <2>7. QED
    BY <2>4, <2>6 DEF Worst
<1>9. PathPv(r, Fixings(r, levels[p])) = PathPv(z, Fixings(z, levels[p]))
  BY <1>4, <1>8, SameValue
<1>10. Complete(r, Fixings(r, levels[p])) <=> Complete(z, Fixings(z, levels[p]))
  BY <1>4, <1>7, <1>8, SameComplete
<1>11. QED
  BY <1>1, <1>9, <1>10

(***************************************************************************)
(* The invariant of the lane: what an answer was computed from.            *)
(***************************************************************************)
Accepted(r) == r.memoryKo => r.memoryMode
QuoteInv ==
  /\ request \in Requests
  /\ stage \in {"validate", "cube", "price", "bump", "answered", "raised"}
  /\ stage \in {"validate", "cube", "price", "raised"} =>
       risk = <<>> /\ result = NoResult
  /\ stage \in {"cube", "price", "bump", "answered"} => Accepted(request)
  /\ stage \in {"price", "bump", "answered"} =>
       ~CubeRefused(request) /\ Drawn(request, cube)
  /\ stage \in {"bump", "answered"} => result = NativePrice(request, cube)
  /\ stage = "bump" => result.status = "ok" /\ DOMAIN risk # Underlyings
  /\ stage = "answered" =>
       \/ result.status = "ok" /\ DOMAIN risk = Underlyings
       \/ result.status # "ok" /\ risk = <<>>
  /\ DOMAIN risk \subseteq Underlyings
  /\ \A u \in DOMAIN risk : risk[u] = Sensitivities(u)

LEMMA QuoteInit == Init => QuoteInv
BY DEF Init, QuoteInv

LEMMA QuoteStep == QuoteInv /\ [Next]_vars => QuoteInv'
<1> SUFFICES ASSUME QuoteInv, [Next]_vars PROVE QuoteInv'
  OBVIOUS
<1>1. CASE ValidateFcnRequest
  BY <1>1 DEF ValidateFcnRequest, QuoteInv, Accepted
<1>2. CASE BuildDailyPathCube
  <2>1. /\ stage = "cube" /\ UNCHANGED <<request, risk, result>>
        /\ stage' \in {"raised", "price"}
        /\ stage' = "price" => ~CubeRefused(request) /\ Drawn(request, cube')
    BY <1>2 DEF BuildDailyPathCube, Drawn
  <2>2. risk = <<>> /\ result = NoResult /\ Accepted(request)
    BY <2>1 DEF QuoteInv
  <2>3. DOMAIN risk' = {}
    BY <2>1, <2>2
  <2>4. QED
    BY <2>1, <2>2, <2>3 DEF QuoteInv, Drawn
<1>3. CASE PriceRequest
  <2>1. /\ stage = "price" /\ UNCHANGED <<request, cube, risk>>
        /\ result' = NativePrice(request, cube)
        /\ stage' = IF result'.status = "ok" THEN "bump" ELSE "answered"
    BY <1>3 DEF PriceRequest
  <2>2. /\ risk = <<>> /\ Accepted(request) /\ ~CubeRefused(request)
        /\ Drawn(request, cube)
    BY <2>1 DEF QuoteInv
  <2>3. DOMAIN risk' = {} /\ Underlyings # {}
    BY <2>1, <2>2, CubeAssumption
  <2>4. QED
    BY <2>1, <2>2, <2>3 DEF QuoteInv, Drawn
<1>4. CASE BumpName
  <2>1. /\ stage = "bump" /\ UNCHANGED <<request, cube>>
        /\ Underlyings \ DOMAIN risk # {}
    BY <1>4 DEF BumpName, QuoteInv
  <2>2. PICK u : u = Min(Underlyings \ DOMAIN risk)
    OBVIOUS
  <2>3. u \in Underlyings
    <3>1. Underlyings \ DOMAIN risk \subseteq Nat
      BY NamesAssumption
    <3>2. QED
      BY <2>1, <2>2, <3>1, Least
  <2>4. CASE Unbumpable(request, u)
    <3>1. risk' = <<>> /\ result' = NoResult /\ stage' = "raised"
      BY <1>4, <2>2, <2>4 DEF BumpName
    <3>2. DOMAIN risk' = {} /\ request' \in Requests
      BY <2>1, <3>1 DEF QuoteInv
    <3>3. QED
      BY <3>1, <3>2 DEF QuoteInv
  <2>5. CASE ~Unbumpable(request, u)
    <3>1. /\ risk' = [v \in DOMAIN risk \cup {u} |->
                        IF v = u THEN Sensitivities(u) ELSE risk[v]]
          /\ stage' = IF DOMAIN risk' = Underlyings THEN "answered" ELSE "bump"
          /\ UNCHANGED result
      BY <1>4, <2>2, <2>5 DEF BumpName
    <3>2. \A v : Sensitivities(v)' = Sensitivities(v)
      BY <2>1, <3>1 DEF Sensitivities
    <3>3. \A v \in DOMAIN risk' : risk'[v] = Sensitivities(v)
      BY <3>1 DEF QuoteInv
    <3>4. DOMAIN risk' \subseteq Underlyings
      BY <2>3, <3>1 DEF QuoteInv
    <3>5. /\ result = NativePrice(request, cube) /\ result.status = "ok"
          /\ Accepted(request) /\ ~CubeRefused(request) /\ Drawn(request, cube)
          /\ request \in Requests
      BY <2>1 DEF QuoteInv
    <3>6. QED
      BY <2>1, <3>1, <3>2, <3>3, <3>4, <3>5 DEF QuoteInv, Drawn
  <2>6. QED
    BY <2>4, <2>5
<1>5. CASE QuotePrice
  <2>1. DOMAIN risk' = {}
    BY <1>5 DEF QuotePrice
  <2>2. QED
    BY <1>5, <2>1 DEF QuotePrice, QuoteInv
<1>6. CASE UNCHANGED vars
  BY <1>6 DEF vars, QuoteInv, Drawn, Sensitivities
<1>7. QED
  BY <1>1, <1>2, <1>3, <1>4, <1>5, <1>6 DEF Next

\* What an answer of the request lane was computed from: a request that was
\* accepted, a cube drawn from its own market, and every sensitivity on that
\* same cube (fcn_native.py, price_fcn_request).
THEOREM QuoteInvariant == Spec => []QuoteInv
BY QuoteInit, QuoteStep, PTL DEF Spec

\* The state of the lane keeps its types, and an answer is complete: priced
\* with the sensitivities of every name, or refused without any
\* (fcn_native.py, price_fcn_request).
THEOREM QuoteTypes == Spec => []TypeOK
<1>1. QuoteInv => TypeOK
  <2> SUFFICES ASSUME QuoteInv PROVE TypeOK
    OBVIOUS
  <2>1. ASSUME stage \in {"bump", "answered"}
        PROVE  /\ result.status \in {"ok", "unsupported", "unresolved"}
               /\ result # NoResult
    <3>1. result.status \in {"ok", "unsupported", "unresolved"}
      <4>1. SameNote(request, request)
        BY DEF SameNote
      <4>2. NativePrice(request, cube).status
              \in {"ok", "unsupported", "unresolved"}
        BY <4>1, NativeStatus
      <4>3. QED
        BY <2>1, <4>2 DEF QuoteInv
    <3>2. NoResult.status = "none"
      BY DEF NoResult
    <3>3. QED
      BY <3>1, <3>2
  <2>2. ASSUME stage \notin {"bump", "answered"}
        PROVE  result = NoResult /\ result.status = "none"
    BY <2>2 DEF QuoteInv, NoResult
  <2>3. QED
    BY <2>1, <2>2 DEF QuoteInv, TypeOK
<1>2. QED
  BY <1>1, QuoteInvariant, PTL

\* On a cube of numbers the engine has one answer to a request and to every
\* bump of it, so no present value of zero of a refusal enters a sensitivity,
\* although the lane reads it without the status (fcn_native.py,
\* price_fcn_request).
THEOREM BumpsRefusedTogether == Spec => []RefusedTogether
<1>1. QuoteInv => RefusedTogether
  <2> SUFFICES ASSUME QuoteInv, result # NoResult, WholeCube(cube)
               PROVE  \A u \in Underlyings, sign \in {-1, 1} :
                        /\ NativePrice(SpotBumped(request, u, sign), cube).status
                             = result.status
                        /\ NativePrice(VolBumped(request, u, sign), cube).status
                             = result.status
    BY DEF RefusedTogether, WholeCube
  <2>1. stage \in {"bump", "answered"}
    BY DEF QuoteInv
  <2>2. /\ request \in Requests /\ ~CubeRefused(request)
        /\ Drawn(request, cube) /\ result = NativePrice(request, cube)
    BY <2>1 DEF QuoteInv
  <2>3. {-1, 1} \subseteq Signs
    BY DEF Signs
  <2>4. QED
    BY <2>2, <2>3, NativeOfBumps
<1>2. QED
  BY <1>1, QuoteInvariant, PTL

\* A name that is never the worst of a cube, before and after its bumps, has
\* no delta and no gamma: nothing of a bump is left in the other prices, and
\* every price is of the same draw (fcn_native.py, _bumped_request).
THEOREM IdleNames == Spec => []IdleNameHasNoRisk
<1>1. QuoteInv => IdleNameHasNoRisk
  <2> SUFFICES ASSUME QuoteInv, stage = "answered", ~MemoryKo(request),
                      NEW u \in DOMAIN risk, Idle(u)
               PROVE  risk[u].delta = 0 /\ risk[u].gamma = 0
    BY DEF IdleNameHasNoRisk
  <2>1. /\ request \in Requests /\ Accepted(request) /\ ~CubeRefused(request)
        /\ Drawn(request, cube) /\ result = NativePrice(request, cube)
        /\ u \in Underlyings /\ risk[u] = Sensitivities(u)
    BY DEF QuoteInv
  <2>2. result.status = "ok"
    BY DEF QuoteInv
  <2>3. NotWorst(request, cube, u)
    BY DEF Idle, NotWorst, Signs
  <2>4. /\ Completes(request, cube)
        /\ result.pv = SumFunction([p \in DOMAIN cube |->
                                      PathPv(request, Fixings(request, cube[p]))])
    <3>1. SameNote(request, request)
      BY DEF SameNote
    <3>2. QED
      BY <2>1, <2>2, <3>1, NativeStatus
  <2>5. ASSUME NEW sign \in {-1, 1}
        PROVE  NativePrice(SpotBumped(request, u, sign), cube).pv = result.pv
    <3>1. sign \in Signs
      BY DEF Signs
    <3>2. PICK z : z = SpotBumped(request, u, sign)
      OBVIOUS
    <3>3. \A p \in DOMAIN cube :
            /\ PathPv(z, Fixings(z, cube[p]))
                 = PathPv(request, Fixings(request, cube[p]))
            /\ Complete(request, Fixings(request, cube[p]))
                 <=> Complete(z, Fixings(z, cube[p]))
      BY <2>1, <2>3, <3>1, <3>2, IdlePath
    <3>4. SameNote(request, z) /\ (Completes(request, cube) <=> Completes(z, cube))
      BY <2>1, <3>2, <3>3, Bumped DEF Completes
    <3>5. NativePrice(z, cube)
            = [status |-> "ok", pv |-> SumFunction([p \in DOMAIN cube |->
                  PathPv(z, Fixings(z, cube[p]))])]
      BY <2>1, <2>2, <3>4, NativeStatus
    <3>6. [p \in DOMAIN cube |-> PathPv(z, Fixings(z, cube[p]))]
            = [p \in DOMAIN cube |-> PathPv(request, Fixings(request, cube[p]))]
      BY <3>3
    <3>7. NativePrice(z, cube).pv = result.pv
      BY <2>4, <3>5, <3>6
    <3>8. QED
      BY <3>2, <3>7
  <2>6. result.pv \in Int
    <3> DEFINE h == [p \in DOMAIN cube |->
                       PathPv(request, Fixings(request, cube[p]))]
    <3>1. IsFiniteSet(DOMAIN cube)
      <4>1. PICK draw \in Draws : cube = DailyPathCube(request, draw)
        BY <2>1 DEF Drawn
      <4>2. DOMAIN cube = DOMAIN draw
        BY <4>1 DEF DailyPathCube
      <4>3. QED
        BY <4>2, RequestTypes
    <3>2. ASSUME NEW p \in DOMAIN cube PROVE h[p] \in Int
      <4>1. PICK reference : reference = request.reference
        OBVIOUS
      <4>2. /\ reference \in [Underlyings -> Nat]
            /\ \A v \in Underlyings :
                 reference[v] > 0
                   /\ reference[v] <= Times(request.reference[v], 1)
        BY <2>1, <4>1, BumpedReference DEF Signs
      <4>3. Fixings(request, cube[p]) \in Paths
        BY <2>1, <4>1, <4>2, CubeFixings
      <4>4. QED
        BY <2>1, <4>3, PathInt
    <3>3. result.pv = SumFunction(h) /\ DOMAIN h = DOMAIN cube
      BY <2>4
    <3> HIDE DEF h
    <3>4. SumFunctionOnSet(h, DOMAIN cube) \in Int
      BY <3>1, <3>2, SumTake
    <3>5. QED
      BY <3>3, <3>4 DEF SumFunction
  <2>7. /\ risk[u].delta = NativePrice(SpotBumped(request, u, 1), cube).pv
                             - NativePrice(SpotBumped(request, u, -1), cube).pv
        /\ risk[u].gamma = NativePrice(SpotBumped(request, u, 1), cube).pv
                             - 2 * result.pv
                             + NativePrice(SpotBumped(request, u, -1), cube).pv
    BY <2>1 DEF Sensitivities
  <2>8. /\ NativePrice(SpotBumped(request, u, 1), cube).pv = result.pv
        /\ NativePrice(SpotBumped(request, u, -1), cube).pv = result.pv
    BY <2>5
  <2>9. QED
    BY <2>6, <2>7, <2>8
<1>2. QED
  BY <1>1, QuoteInvariant, PTL
=============================================================================
