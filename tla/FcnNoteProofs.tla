---------------------------- MODULE FcnNoteProofs ----------------------------
(***************************************************************************)
(* The native engine implements the note: that stepping through the        *)
(* observations and the coupon periods with state all paths share pays     *)
(* what FcnDue says a path owes, for every cube, path and request.  And it *)
(* pays what the Python oracle pays, since that pays what FcnDue says too: *)
(* the oracle's fold over the periods is followed as the engine's walk is. *)
(***************************************************************************)
EXTENDS FcnEngineProofs, FcnOracle

(***************************************************************************)
(* The note is stated with its own copy of the payoff's operators.         *)
(***************************************************************************)
LEMMA SameLibrary ==
  /\ \A S : Note!Cardinality(S) = Cardinality(S)
  /\ \A S : Note!Min(S) = Min(S)
  /\ \A S : Note!Max(S) = Max(S)
  /\ Note!EmptyBag = EmptyBag
<1>1. \A S : Note!Cardinality(S) = Cardinality(S)
  BY DEF Note!Cardinality, Cardinality
<1>2. \A S : Note!Min(S) = Min(S)
  BY DEF Note!Min, Min
<1>3. \A S : Note!Max(S) = Max(S)
  BY DEF Note!Max, Max
<1>4. Note!EmptyBag = EmptyBag
  BY DEF Note!EmptyBag, EmptyBag, Note!SetToBag, SetToBag
<1>5. QED
  BY <1>1, <1>2, <1>3, <1>4

LEMMA SameDates ==
  ASSUME NEW t
  PROVE  /\ Note!Obs = Obs
         /\ Note!Past(t) = Past(t)
         /\ Note!OnOrBefore(t) = OnOrBefore(t)
         /\ Note!FirstAfter(t) = FirstAfter(t)
<1>1. Note!Obs = Obs
  BY DEF Note!Obs, Obs
<1>2. Note!Past(t) = Past(t)
  BY <1>1 DEF Note!Past, Past
<1>3. Note!OnOrBefore(t) = OnOrBefore(t)
  BY <1>2, SameLibrary DEF Note!OnOrBefore, OnOrBefore
<1>4. Note!FirstAfter(t) = FirstAfter(t)
  BY <1>2, SameLibrary DEF Note!FirstAfter, FirstAfter
<1>5. QED
  BY <1>1, <1>2, <1>3, <1>4

LEMMA SameTerms ==
  ASSUME NEW s
  PROVE  /\ Note!MemoryKo(s) = MemoryKo(s)
         /\ Note!FundingAmount(s) = FundingAmount(s)
         /\ \A performance : Note!KnockIn(s, performance) = KnockIn(s, performance)
         /\ \A knockIn, performance :
              Note!TerminalPayoff(s, knockIn, performance)
                = TerminalPayoff(s, knockIn, performance)
<1>1. \A performance : Note!KnockIn(s, performance) = KnockIn(s, performance)
  BY DEF Note!KnockIn, KnockIn, Note!Compare, Compare
<1>2. QED
  BY <1>1 DEF Note!MemoryKo, MemoryKo, Note!FundingAmount, FundingAmount,
              Note!TerminalPayoff, TerminalPayoff

LEMMA SamePeriods ==
  ASSUME NEW p
  PROVE  /\ Note!Total(p) = Total(p)
         /\ \A q : Note!NextMemory(p, q) = NextMemory(p, q)
         /\ \A q, c : Note!PeriodRate(p, q, c) = PeriodRate(p, q, c)
         /\ \A v, l, u : Note!InRange(v, p, l, u) = InRange(v, p, l, u)
<1>1. Note!Total(p) = Total(p)
  BY DEF Note!Total, Total, Note!Larger, Larger
<1>2. \A q : Note!Unpaid(p, q) = Unpaid(p, q)
  BY DEF Note!Unpaid, Unpaid
<1>3. \A a, b : Note!Smaller(a, b) = Smaller(a, b)
  BY DEF Note!Smaller, Smaller
<1>4. \A q : Note!NextMemory(p, q) = NextMemory(p, q)
  BY <1>1, <1>2 DEF Note!NextMemory, NextMemory
<1>5. \A q, c : Note!PeriodRate(p, q, c) = PeriodRate(p, q, c)
  BY <1>1, <1>2, <1>3 DEF Note!PeriodRate, PeriodRate
<1>6. \A v, l, u : Note!InRange(v, p, l, u) = InRange(v, p, l, u)
  BY DEF Note!InRange, InRange
<1>7. QED
  BY <1>1, <1>4, <1>5, <1>6

LEMMA SameValues ==
  /\ \A a, b, op : Note!Compare(a, b, op) = Compare(a, b, op)
  /\ \A x : Note!ValidFixing(x) = ValidFixing(x)
  /\ \A f : Note!WorstOf(f) = WorstOf(f)
  /\ \A flow, amount : Note!Cash(flow, amount) = Cash(flow, amount)
<1>1. \A a, b, op : Note!Compare(a, b, op) = Compare(a, b, op)
  BY DEF Note!Compare, Compare
<1>2. \A x : Note!ValidFixing(x) = ValidFixing(x)
  BY DEF Note!ValidFixing, ValidFixing
<1>3. \A f : Note!WorstOf(f) = WorstOf(f)
  BY SameLibrary DEF Note!WorstOf, WorstOf
<1>4. \A flow, amount : Note!Cash(flow, amount) = Cash(flow, amount)
  BY SameLibrary DEF Note!Cash, Cash
<1>5. QED
  BY <1>1, <1>2, <1>3, <1>4

(***************************************************************************)
(* Periods and dates.                                                      *)
(***************************************************************************)
LEMMA Segments ==
  ASSUME NEW t \in Nat
  PROVE  /\ FirstAfter(t) \in 0 .. Observations
         /\ \A k \in Obs : Dates[k] <= t <=> k < FirstAfter(t)
         /\ Dates[0] <= t => OnOrBefore(t) = FirstAfter(t) - 1
<1>1. PICK n \in 0 .. Observations : Past(t) = 0 .. n - 1
  BY PastIsSegment
<1>2. n \in Nat /\ Cardinality(Past(t)) = n
  <2>1. n \in Nat /\ 0 \in Int /\ n - 1 \in Int
    BY CubeFacts
  <2>2. Cardinality(0 .. n - 1) = IF 0 > n - 1 THEN 0 ELSE (n - 1) - 0 + 1
    BY <2>1, FS_Interval
  <2>3. QED
    BY <1>1, <2>1, <2>2
<1>3. FirstAfter(t) = n
  BY <1>2 DEF FirstAfter
<1>4. ASSUME NEW k \in Obs PROVE Dates[k] <= t <=> k < n
  <2>1. k \in Nat /\ (k \in Past(t) <=> Dates[k] <= t)
    BY CubeFacts DEF Past
  <2>2. k \in 0 .. n - 1 <=> k < n
    BY <1>2, <2>1
  <2>3. QED
    BY <1>1, <2>1, <2>2
<1>5. ASSUME Dates[0] <= t PROVE OnOrBefore(t) = n - 1
  <2>1. Past(t) # {}
    BY <1>5, CubeFacts DEF Past
  <2>2. QED
    BY <1>2, <2>1 DEF OnOrBefore
<1>6. QED
  BY <1>1, <1>3, <1>4, <1>5

\* A period's window is what the engine's two bounds enclose.
LEMMA WindowBounds ==
  ASSUME NEW s \in Sheets, NEW i \in 1 .. Len(s.periods)
  PROVE  LET p == s.periods[i]
         IN /\ FirstAfter(p.start) \in Nat /\ OnOrBefore(p.end) \in Obs
            /\ \A k \in Obs : k \in Note!Window(p) <=>
                 FirstAfter(p.start) <= k /\ k <= OnOrBefore(p.end)
            /\ Note!Window(p) \subseteq Obs
            /\ \A k \in Obs : k <= OnOrBefore(p.end) => Dates[k] <= p.end
            /\ \A k \in Obs : FirstAfter(p.start) <= k <=> p.start < Dates[k]
<1> DEFINE p == s.periods[i]
<1>1. p \in Periods /\ p.start \in Nat /\ p.end \in Nat
  BY SheetFacts DEF Periods
<1>2. Dates[0] <= p.end /\ i \in DOMAIN s.periods
  <2>1. s.periods \in Seq(Periods)
    BY SheetTypes
  <2>2. i \in DOMAIN s.periods
    BY <2>1
  <2>3. p.end >= Dates[0]
    BY <2>2, SheetAssumption
  <2>4. QED
    BY <1>1, <2>2, <2>3, CubeFacts
<1> HIDE DEF p
<1>3. OnOrBefore(p.end) \in Obs /\ FirstAfter(p.start) \in Nat
  BY <1>1, Lookups
<1>4. ASSUME NEW k \in Obs
      PROVE  /\ FirstAfter(p.start) <= k <=> p.start < Dates[k]
             /\ k <= OnOrBefore(p.end) <=> Dates[k] <= p.end
  <2>1. k \in Nat /\ Dates[k] \in Nat
    BY CubeFacts
  <2>2. Dates[k] <= p.start <=> k < FirstAfter(p.start)
    BY <1>1, Segments
  <2>3. /\ Dates[k] <= p.end <=> k < FirstAfter(p.end)
        /\ OnOrBefore(p.end) = FirstAfter(p.end) - 1
        /\ FirstAfter(p.end) \in Nat
    BY <1>1, <1>2, Segments, Lookups
  <2>4. QED
    BY <1>1, <1>3, <2>1, <2>2, <2>3
<1>5. Note!Window(p) \subseteq Obs
  BY SameDates DEF Note!Window
<1>6. ASSUME NEW k \in Obs
      PROVE  k \in Note!Window(p) <=> p.start < Dates[k] /\ Dates[k] <= p.end
  BY SameDates DEF Note!Window
<1>7. QED
  BY <1>3, <1>4, <1>5, <1>6 DEF p

\* Accepted requests have forward periods, and then one after the other.
LEMMA PeriodsForward ==
  ASSUME NEW s \in Sheets, Refusal(s) = "verified",
         NEW i \in 1 .. Len(s.periods)
  PROVE  /\ s.periods[i].start \in Nat /\ s.periods[i].end \in Nat
         /\ s.periods[i].start <= s.periods[i].end
<1>1. s.periods[i].start \in Nat /\ s.periods[i].end \in Nat
  BY SheetFacts DEF Periods
<1>2. i \in DOMAIN s.periods
  BY SheetTypes
<1>3. ~ (s.periods[i].end < s.periods[i].start)
  BY <1>2 DEF Refusal
<1>4. QED
  BY <1>1, <1>3

LEMMA Chain ==
  ASSUME NEW a \in Nat, NEW b \in Nat, NEW c \in Nat, NEW d \in Nat,
         a <= b, b <= c, c <= d
  PROVE  a <= d
OBVIOUS

LEMMA PeriodsInOrder ==
  ASSUME NEW s \in Sheets, Refusal(s) = "verified",
         NEW i \in 1 .. Len(s.periods), NEW j \in 1 .. Len(s.periods), i < j
  PROVE  s.periods[i].end <= s.periods[j].start
<1> DEFINE Bad == {n \in Nat : /\ i < n /\ n <= Len(s.periods)
                               /\ ~ (s.periods[i].end <= s.periods[n].start)}
<1>1. Len(s.periods) \in Nat /\ s.periods \in Seq(Periods)
  BY SheetFacts, SheetTypes
<1>2. SUFFICES ASSUME Bad # {} PROVE FALSE
  BY <1>1
<1>3. PICK n \in Bad : \A m \in Bad : n <= m
  <2>1. Bad \subseteq Nat
    OBVIOUS
  <2>2. QED
    BY <1>2, <2>1, LeastNat
<1>4. /\ n \in 1 .. Len(s.periods) /\ n - 1 \in 1 .. Len(s.periods)
      /\ n \in DOMAIN s.periods /\ n > 1
  BY <1>1, <1>3
<1>5. s.periods[n - 1].end <= s.periods[n].start
  BY <1>4, SheetAssumption
<1>6. CASE n - 1 = i
  BY <1>3, <1>5, <1>6
<1>7. CASE n - 1 # i
  <2>1. n - 1 \in Nat /\ i < n - 1 /\ n - 1 <= Len(s.periods)
    BY <1>1, <1>3, <1>4, <1>7
  <2>2. n - 1 \notin Bad
    <3>1. ~ (n <= n - 1)
      BY <1>4
    <3>2. QED
      BY <1>3, <3>1
  <2>3. s.periods[i].end <= s.periods[n - 1].start
    BY <2>1, <2>2
  <2>4. /\ s.periods[n - 1].start <= s.periods[n - 1].end
        /\ s.periods[n - 1].start \in Nat /\ s.periods[n - 1].end \in Nat
        /\ s.periods[n].start \in Nat /\ s.periods[i].end \in Nat
    BY <1>4, PeriodsForward
  <2> HIDE DEF Bad
  <2>5. s.periods[i].end <= s.periods[n].start
    BY <1>5, <2>3, <2>4, Chain
  <2>6. QED
    BY <1>3, <2>5 DEF Bad
<1>8. QED
  BY <1>6, <1>7

\* Where a period begins and ends, so does none before it.
LEMMA BoundsInOrder ==
  ASSUME NEW s \in Sheets, Refusal(s) = "verified",
         NEW i \in 1 .. Len(s.periods), NEW j \in 1 .. Len(s.periods), i < j,
         NEW k \in Obs, k \in Note!Window(s.periods[j])
  PROVE  /\ s.periods[i].end < Dates[k]
         /\ FirstAfter(s.periods[i].start) <= k
         /\ OnOrBefore(s.periods[i].end) < k
<1>1. /\ s.periods[i].end <= s.periods[j].start
      /\ s.periods[i].start <= s.periods[i].end
      /\ s.periods[i].start \in Nat /\ s.periods[i].end \in Nat
      /\ s.periods[j].start \in Nat /\ k \in Nat /\ Dates[k] \in Nat
  BY PeriodsInOrder, PeriodsForward, CubeFacts
<1>2. s.periods[j].start < Dates[k]
  BY WindowBounds
<1>3. s.periods[i].end < Dates[k] /\ s.periods[i].start < Dates[k]
  BY <1>1, <1>2, SMTT(30)
<1>4. FirstAfter(s.periods[i].start) <= k
  BY <1>3, WindowBounds
<1>5. OnOrBefore(s.periods[i].end) \in Nat
  BY <1>1, Lookups, CubeFacts
<1>6. ~ (k <= OnOrBefore(s.periods[i].end))
  <2>1. k <= OnOrBefore(s.periods[i].end) => Dates[k] <= s.periods[i].end
    BY WindowBounds
  <2>2. QED
    BY <1>1, <1>3, <2>1
<1>7. QED
  BY <1>1, <1>3, <1>4, <1>5, <1>6

(***************************************************************************)
(* The walk over the observations finds the call the note defines.         *)
(***************************************************************************)
\* What memory has locked after n observations.
LocksBy(side, n) ==
  IF MemoryKo(sheet) /\ side.enabled
    THEN {u \in Underlyings : \E j \in 0 .. n - 1 :
            Compare(fixings[j][u], side.barrier, side.operator)}
    ELSE {}

Called == Note!Called(sheet, fixings)
CallObs == Note!CallObs(sheet, fixings)
CallKind == Note!CallKind(sheet, fixings)

\* Observing: no observation so far is a call, and each of them is there.
WalkInv ==
  pc = "observe" =>
    /\ obs <= FinalIndex
    /\ ~Terminated /\ ~state.ki /\ state.unpaid = 0 /\ period = 1
    /\ state.locked.local = LocksBy(sheet.local, obs)
    /\ state.locked.global = LocksBy(sheet.global, obs)
    /\ \A k \in 0 .. obs - 1 :
         k \notin Note!Calls(sheet, fixings) /\ ValidAt(k)
    /\ totals = closed

LEMMA FinalIsFinal ==
  /\ Note!Final(sheet) = FinalIndex
  /\ \A k : Note!Worst(fixings, k) = Worst(k)
<1>1. Note!Final(sheet) = FinalIndex
  BY SameDates DEF Note!Final, FinalIndex
<1>2. \A k : Note!Worst(fixings, k) = Worst(k)
  BY SameValues DEF Note!Worst, Worst
<1>3. QED
  BY <1>1, <1>2

LEMMA HitIsTouch ==
  ASSUME NEW side, obs \in Nat
  PROVE  /\ Locked(LocksBy(side, obs), side) = LocksBy(side, obs + 1)
         /\ Hit(LocksBy(side, obs), side)
              <=> Note!Touches(sheet, fixings, side, obs)
<1> DEFINE Through(j, u) ==
             Compare(fixings[j][u], side.barrier, side.operator)
<1>1. CASE MemoryKo(sheet) /\ side.enabled
  <2>1. LocksBy(side, obs) = {u \in Underlyings : \E j \in 0 .. obs - 1 : Through(j, u)}
    BY <1>1 DEF LocksBy
  <2>2. LocksBy(side, obs + 1) = {u \in Underlyings : \E j \in 0 .. obs : Through(j, u)}
    BY <1>1 DEF LocksBy
  <2>3. Locked(LocksBy(side, obs), side)
          = LocksBy(side, obs) \cup {u \in Underlyings : Through(obs, u)}
    BY <1>1 DEF Locked
  <2> HIDE DEF Through
  <2>4. Locked(LocksBy(side, obs), side) = LocksBy(side, obs + 1)
    <3>1. ASSUME NEW u \in Underlyings
          PROVE  (\E j \in 0 .. obs : Through(j, u))
                   <=> (\E j \in 0 .. obs - 1 : Through(j, u)) \/ Through(obs, u)
      <4>1. 0 .. obs = 0 .. obs - 1 \cup {obs}
        OBVIOUS
      <4>2. QED
        BY <4>1
    <3>2. QED
      BY <2>1, <2>2, <2>3, <3>1
  <2>5. Hit(LocksBy(side, obs), side) <=> LocksBy(side, obs + 1) = Underlyings
    BY <1>1, <2>4 DEF Hit
  <2>6. Note!Touches(sheet, fixings, side, obs)
          <=> \A u \in Underlyings : \E j \in 0 .. obs : Through(j, u)
    BY <1>1, SameTerms, SameValues DEF Note!Touches, Through
  <2>7. QED
    BY <2>2, <2>4, <2>5, <2>6
<1>2. CASE ~ (MemoryKo(sheet) /\ side.enabled)
  <2>1. Locked(LocksBy(side, obs), side) = LocksBy(side, obs + 1)
    BY <1>2 DEF Locked, LocksBy
  <2>2. Hit(LocksBy(side, obs), side) <=> Note!Touches(sheet, fixings, side, obs)
    BY <1>2, SameTerms, SameValues, FinalIsFinal DEF Hit, Note!Touches
  <2>3. QED
    BY <2>1, <2>2
<1>3. QED
  BY <1>1, <1>2

LEMMA CallsFacts ==
  ASSUME TypeInv
  PROVE  /\ Note!Calls(sheet, fixings) \subseteq 0 .. FinalIndex
         /\ FinalIndex \in Nat
         /\ Called => /\ CallObs \in Note!Calls(sheet, fixings)
                      /\ CallObs \in Obs /\ CallObs \in Nat
                      /\ CallObs <= FinalIndex
                      /\ \A k \in Note!Calls(sheet, fixings) : CallObs <= k
<1>1. FinalIndex \in Obs /\ FinalIndex \in Nat
  BY FinalIndexType, CubeFacts DEF TypeInv
<1>2. Note!Calls(sheet, fixings) \subseteq 0 .. FinalIndex
  BY FinalIsFinal DEF Note!Calls
<1>3. ASSUME Called
      PROVE  /\ CallObs \in Note!Calls(sheet, fixings)
             /\ \A k \in Note!Calls(sheet, fixings) : CallObs <= k
  <2> DEFINE S == Note!Calls(sheet, fixings)
  <2>1. S \subseteq Nat /\ S # {}
    BY <1>1, <1>2, <1>3 DEF Called, Note!Called
  <2>2. \E m \in S : \A n \in S : m <= n
    BY <2>1, LeastNat
  <2>3. CallObs = Min(S)
    BY SameLibrary DEF CallObs, Note!CallObs
  <2> HIDE DEF S
  <2>4. Min(S) \in S /\ \A n \in S : Min(S) <= n
    BY <2>2 DEF Min
  <2>5. QED
    BY <2>3, <2>4 DEF S
<1>4. QED
  BY <1>1, <1>2, <1>3, CubeFacts DEF Obs

LEMMA KoNowIsCall ==
  ASSUME TypeInv, WalkInv, pc = "observe"
  PROVE  /\ KoNow # "none" => /\ Called /\ CallObs = obs
                              /\ KoNow = CallKind
         /\ KoNow = "none" => obs \notin Note!Calls(sheet, fixings)
         /\ KoNow = "none" /\ obs = FinalIndex => ~Called
<1> DEFINE Local == Note!Touches(sheet, fixings, sheet.local, obs)
           Global == Note!Touches(sheet, fixings, sheet.global, obs)
<1>1. obs \in Nat /\ obs \in 0 .. FinalIndex
  BY CubeFacts, FinalIndexType DEF TypeInv, WalkInv
<1>2. /\ Hit(state.locked.local, sheet.local) <=> Local
      /\ Hit(state.locked.global, sheet.global) <=> Global
  BY <1>1, HitIsTouch DEF WalkInv
<1>3. sheet.precedence \in {"local", "global"}
  BY SheetTypes DEF TypeInv, KnockOutKinds
<1>4. obs \in Note!Calls(sheet, fixings) <=> Local \/ Global
  BY <1>1, FinalIsFinal DEF Note!Calls
<1> HIDE DEF Local, Global
<1>5. KoNow = IF Local /\ Global THEN sheet.precedence
              ELSE IF Global THEN "global" ELSE IF Local THEN "local" ELSE "none"
  BY <1>2 DEF KoNow, ResolveKo
<1>6. KoNow # "none" <=> obs \in Note!Calls(sheet, fixings)
  BY <1>3, <1>4, <1>5
<1>7. ASSUME KoNow # "none"
      PROVE  Called /\ CallObs = obs /\ KoNow = CallKind
  <2>1. Called
    BY <1>6, <1>7 DEF Called, Note!Called
  <2>2. CallObs <= obs /\ CallObs \in Note!Calls(sheet, fixings) /\ CallObs \in Nat
    BY <1>6, <1>7, <2>1, CallsFacts
  <2>3. ~ (CallObs <= obs - 1)
    BY <1>1, <2>2 DEF WalkInv
  <2>4. CallObs = obs
    BY <1>1, <2>2, <2>3
  <2>5. CallKind = IF Local /\ Global THEN sheet.precedence
                   ELSE IF Local THEN "local" ELSE "global"
    BY <2>4 DEF CallKind, CallObs, Note!CallKind, Local, Global
  <2>6. Local \/ Global
    BY <1>4, <1>6, <1>7
  <2>7. QED
    BY <1>5, <2>1, <2>4, <2>5, <2>6
<1>8. ASSUME KoNow = "none", obs = FinalIndex PROVE ~Called
  <2>1. SUFFICES ASSUME Called PROVE FALSE
    OBVIOUS
  <2>2. /\ CallObs \in Note!Calls(sheet, fixings) /\ CallObs \in Nat
        /\ CallObs <= FinalIndex
    BY <2>1, CallsFacts
  <2>3. CallObs # obs
    BY <1>6, <1>8, <2>2
  <2>4. CallObs \in 0 .. obs - 1
    BY <1>1, <1>8, <2>2, <2>3
  <2>5. QED
    BY <2>2, <2>4 DEF WalkInv
<1>9. QED
  BY <1>6, <1>7, <1>8

(***************************************************************************)
(* The walk over the coupon periods pays the coupons the note defines.     *)
(***************************************************************************)
Counted(i) == Note!Counted(sheet, fixings, sheet.periods[i])
Coupon(i) == Note!Coupon(sheet, fixings, i)

\* The number of periods dealt with.
Through == IF pc = "coupon" THEN period - 1 ELSE Len(sheet.periods)

\* What the first n coupons owe on a flow.
OwedSoFar(flow, n) ==
  IF flow[1] = "COUPON" /\ flow[2] \in 1 .. n /\ Counted(flow[2]) # {}
    THEN Held(flow, Coupon(flow[2])) ELSE 0

\* What the observations have left behind ...
CallInv ==
  /\ state.ko = IF Called THEN CallKind ELSE "none"
  /\ Called => state.koObs = CallObs
  /\ ~Called => state.terminal = Worst(FinalIndex)
  /\ state.ki <=> Note!KnockedIn(sheet, fixings)
  /\ \A k \in 0 .. (IF Called THEN CallObs ELSE FinalIndex) : ValidAt(k)

\* ... what the path is counted as ...
PathCounts ==
  /\ totals.ki = closed.ki + Count(Note!KnockedIn(sheet, fixings))
  /\ totals.ko = closed.ko + Count(Called)
  /\ totals.local = closed.local + Count(Called /\ CallKind = "local")
  /\ totals.global = closed.global + Count(Called /\ CallKind = "global")
  /\ totals.paths = closed.paths

\* ... and what the periods so far have paid and left unpaid.
CouponInv ==
  /\ \A i \in 1 .. Through : \A k \in Counted(i) : ValidAt(k)
  /\ \A i \in 1 .. Through : Counted(i) # {} =>
       IsABag(Coupon(i)) /\ DOMAIN Coupon(i) \subseteq Flows
  /\ pc = "coupon" => state.unpaid = Note!Carried(sheet, fixings, period)
  /\ \A flow \in Flows :
       Held(flow, totals.paid)
         = Held(flow, closed.paid) + OwedSoFar(flow, Through)

PaidInv ==
  pc \in {"coupon", "settle"} => CallInv /\ PathCounts /\ CouponInv

LEMMA CallKindType ==
  ASSUME TypeInv
  PROVE  CallKind \in {"local", "global"}
BY SheetTypes DEF TypeInv, CallKind, Note!CallKind, KnockOutKinds

LEMMA TerminatedIsCalled ==
  ASSUME TypeInv, CallInv
  PROVE  Terminated <=> Called
BY CallKindType DEF CallInv, Terminated

LEMMA CountedBounds ==
  ASSUME TypeInv, NEW i \in 1 .. Len(sheet.periods)
  PROVE  /\ Counted(i) \subseteq Obs
         /\ \A k \in Obs : k \in Counted(i) <=>
              /\ FirstAfter(sheet.periods[i].start) <= k
              /\ k <= OnOrBefore(sheet.periods[i].end)
              /\ Called => k <= CallObs
         /\ Counted(i) \subseteq Note!Window(sheet.periods[i])
<1> DEFINE W == Note!Window(sheet.periods[i])
<1>1. /\ W \subseteq Obs
      /\ \A k \in Obs : k \in W <=>
           /\ FirstAfter(sheet.periods[i].start) <= k
           /\ k <= OnOrBefore(sheet.periods[i].end)
  BY WindowBounds DEF TypeInv
<1>2. Counted(i) = IF Called THEN W \cap 0 .. CallObs ELSE W
  BY DEF Counted, Note!Counted, Called, CallObs
<1>3. \A k \in Obs : k \in Nat
  BY CubeFacts
<1> HIDE DEF W
<1>4. Called => CallObs \in Nat
  BY CallsFacts
<1>5. \A k \in Obs : k \in Counted(i) <=> k \in W /\ (Called => k <= CallObs)
  BY <1>2, <1>3, <1>4
<1>6. Counted(i) \subseteq W
  BY <1>2
<1>7. QED
  BY <1>1, <1>5, <1>6 DEF W

\* A skipped period counts no fixing.
LEMMA SkippedCountsNone ==
  ASSUME TypeInv, period \in 1 .. Len(sheet.periods), Outside
  PROVE  Counted(period) = {}
<1>1. SUFFICES ASSUME NEW k \in Counted(period) PROVE FALSE
  OBVIOUS
<1>2. k \in Obs /\ Begin <= k /\ k <= End
  BY <1>1, CountedBounds DEF Begin, End, ThisPeriod
<1>3. k \in Nat /\ k < Observations /\ Observations \in Nat
  BY <1>2, CubeFacts DEF Obs
<1>4. Begin \in Nat /\ End \in Nat
  <2>1. ThisPeriod \in Periods
    BY SheetFacts DEF ThisPeriod, TypeInv
  <2>2. QED
    BY <2>1, Lookups, CubeFacts DEF Begin, End, Periods
<1>5. QED
  BY <1>2, <1>3, <1>4 DEF Outside

\* The bounds of period i, and the last fixing it counts.
FirstOf(i) == FirstAfter(sheet.periods[i].start)
EndOf(i) == OnOrBefore(sheet.periods[i].end)
LastOf(i) == IF Called THEN Smaller(EndOf(i), CallObs) ELSE EndOf(i)

LEMMA BoundTypes ==
  ASSUME TypeInv, NEW i \in 1 .. Len(sheet.periods)
  PROVE  /\ FirstOf(i) \in Nat /\ EndOf(i) \in Obs /\ EndOf(i) \in Nat
         /\ LastOf(i) \in Obs /\ LastOf(i) \in Nat
<1>1. FirstOf(i) \in Nat /\ EndOf(i) \in Obs
  BY WindowBounds DEF FirstOf, EndOf, TypeInv
<1>2. LastOf(i) \in Obs
  BY <1>1, CallsFacts DEF LastOf, Smaller
<1>3. QED
  BY <1>1, <1>2, CubeFacts

\* A period the path lives to counts the fixings between its bounds.
LEMMA CountedIs ==
  ASSUME TypeInv, NEW i \in 1 .. Len(sheet.periods),
         FirstOf(i) <= EndOf(i), Called => FirstOf(i) <= CallObs
  PROVE  /\ Counted(i) = FirstOf(i) .. LastOf(i)
         /\ Counted(i) # {}
         /\ Note!Max(Counted(i)) = LastOf(i)
         /\ Called => (CallObs <= EndOf(i)
                         <=> CallObs \in Note!Window(sheet.periods[i]))
<1>1. /\ FirstOf(i) \in Nat /\ EndOf(i) \in Nat
      /\ LastOf(i) \in Obs /\ LastOf(i) \in Nat
      /\ Called => CallObs \in Obs /\ CallObs \in Nat
  BY BoundTypes, CallsFacts
<1>2. FirstOf(i) <= LastOf(i)
  BY <1>1 DEF LastOf, Smaller
<1>3. \A k \in Obs : k \in Counted(i) <=>
        FirstOf(i) <= k /\ k <= EndOf(i) /\ (Called => k <= CallObs)
  BY CountedBounds DEF FirstOf, EndOf
<1>4. Counted(i) = FirstOf(i) .. LastOf(i)
  <2>1. \A k \in FirstOf(i) .. LastOf(i) : k \in Obs
    BY <1>1, CubeFacts DEF Obs
  <2>2. ASSUME NEW k \in Obs
        PROVE  k <= LastOf(i) <=> k <= EndOf(i) /\ (Called => k <= CallObs)
    BY <1>1, CubeFacts DEF LastOf, Smaller
  <2>3. \A k \in Obs : k \in Counted(i) <=> k \in FirstOf(i) .. LastOf(i)
    BY <1>1, <1>3, <2>2, CubeFacts DEF Obs
  <2>4. Counted(i) \subseteq Obs
    BY CountedBounds
  <2>5. QED
    BY <2>1, <2>3, <2>4
<1>5. Note!Max(Counted(i)) = LastOf(i)
  <2>1. LastOf(i) \in FirstOf(i) .. LastOf(i)
    BY <1>1, <1>2
  <2>2. \A x \in FirstOf(i) .. LastOf(i) :
          (\A y \in FirstOf(i) .. LastOf(i) : x >= y) => x = LastOf(i)
    BY <1>1, <2>1
  <2>3. \A y \in FirstOf(i) .. LastOf(i) : LastOf(i) >= y
    BY <1>1
  <2>4. Max(FirstOf(i) .. LastOf(i)) = LastOf(i)
    BY <2>1, <2>2, <2>3 DEF Max
  <2>5. QED
    BY <1>4, <2>4, SameLibrary
<1>6. ASSUME Called
      PROVE  CallObs <= EndOf(i)
               <=> CallObs \in Note!Window(sheet.periods[i])
  BY <1>1, <1>6, WindowBounds DEF FirstOf, EndOf, TypeInv
<1>7. QED
  BY <1>1, <1>2, <1>4, <1>5, <1>6

\* The fixings of an accruing period are those the engine loops over.
LEMMA AccruingCounts ==
  ASSUME TypeInv, CallInv, Accruing
  PROVE  /\ Counted(period) = Begin .. CappedEnd
         /\ Counted(period) # {}
         /\ Note!Max(Counted(period)) = CappedEnd
         /\ IsKoPeriod <=> /\ Called
                           /\ CallObs \in Note!Window(sheet.periods[period])
<1>1. period \in 1 .. Len(sheet.periods)
  BY SheetFacts DEF TypeInv, Accruing
<1>2. /\ Terminated <=> Called
      /\ Called => state.koObs = CallObs /\ CallObs \in Nat
  BY TerminatedIsCalled, CallsFacts DEF CallInv
<1>3. Begin = FirstOf(period) /\ End = EndOf(period)
  BY DEF Begin, End, ThisPeriod, FirstOf, EndOf
<1>4. CappedEnd = LastOf(period)
  BY <1>2, <1>3 DEF CappedEnd, LastOf
<1>5. Begin \in Nat /\ End \in Nat
  BY <1>1, <1>3, BoundTypes
<1>6. Begin <= End /\ (Called => Begin <= CallObs)
  BY <1>2, <1>5 DEF Accruing, Outside
<1>7. QED
  BY <1>1, <1>2, <1>3, <1>4, <1>6, CountedIs DEF IsKoPeriod

LEMMA AccruingPays ==
  ASSUME TypeInv, CallInv, Accruing
  PROVE  /\ Note!BarrierOk(sheet, fixings, ThisPeriod) <=> CouponBarrierOk
         /\ Note!Qualifying(sheet, fixings, ThisPeriod) = QualifyingFixings
         /\ sheet.couponMemory =>
              UnpaidAfter = Note!Left(sheet, fixings, ThisPeriod)
<1>1. /\ Note!Counted(sheet, fixings, ThisPeriod) = Begin .. CappedEnd
      /\ Note!Max(Note!Counted(sheet, fixings, ThisPeriod)) = CappedEnd
  BY AccruingCounts DEF Counted, ThisPeriod
<1>2. Note!BarrierOk(sheet, fixings, ThisPeriod) <=> CouponBarrierOk
  BY <1>1, FinalIsFinal DEF Note!BarrierOk, CouponBarrierOk
<1>3. Note!Qualifying(sheet, fixings, ThisPeriod) = QualifyingFixings
  <2>1. {k \in Begin .. CappedEnd :
           Note!InRange(Note!Worst(fixings, k), ThisPeriod,
                        sheet.lowerInclusive, sheet.upperInclusive)}
        = {k \in Begin .. CappedEnd :
             InRange(Worst(k), ThisPeriod, sheet.lowerInclusive,
                     sheet.upperInclusive)}
    BY FinalIsFinal, SamePeriods
  <2>2. QED
    BY <1>1, <2>1, SameLibrary DEF Note!Qualifying, QualifyingFixings
<1>4. sheet.couponMemory =>
        UnpaidAfter = Note!Left(sheet, fixings, ThisPeriod)
  BY <1>2, <1>3, SamePeriods DEF Note!Left, UnpaidAfter
<1>5. QED
  BY <1>2, <1>3, <1>4

\* The coupon of the period, once the memory carried into it is right.
LEMMA AccruingCoupon ==
  ASSUME TypeInv, CallInv, Accruing,
         state.unpaid = Note!Carried(sheet, fixings, period)
  PROVE  Coupon(period) = CouponCash
<1> DEFINE s == sheet
           c == Note!Carried(sheet, fixings, period)
<1>1. CarriedMemory = c
  BY DEF CarriedMemory, Note!Carried
<1>2. /\ Called /\ CallObs \in Note!Window(ThisPeriod) <=> IsKoPeriod
      /\ IsKoPeriod => state.koObs = CallObs /\ state.ko = CallKind
  BY AccruingCounts DEF CallInv, ThisPeriod
<1>3. (IF Note!BarrierOk(sheet, fixings, ThisPeriod)
         THEN Note!PeriodRate(ThisPeriod,
                Note!Qualifying(sheet, fixings, ThisPeriod), c)
         ELSE ThisPeriod.fixed)
      = IF CouponBarrierOk
          THEN PeriodRate(ThisPeriod, QualifyingFixings, CarriedMemory)
          ELSE ThisPeriod.fixed
  BY <1>1, AccruingPays, SamePeriods
<1>4. QED
  BY <1>2, <1>3, SameValues
  DEF Coupon, Note!Coupon, CouponCash, CouponDate, CouponRate, ThisPeriod,
      Called, CallObs, CallKind

\* A period that counts no fixing carries on what was carried into it.
LEMMA CarriedAfter ==
  ASSUME TypeInv, NEW i \in 1 .. Len(sheet.periods)
  PROVE  Note!Carried(sheet, fixings, i + 1) =
           IF Counted(i) = {} THEN Note!Carried(sheet, fixings, i)
           ELSE IF sheet.couponMemory
             THEN Note!Left(sheet, fixings, sheet.periods[i]) ELSE 0
<1> DEFINE Earlier(n) == {j \in 1 .. n : Counted(j) # {}}
<1>1. i \in Nat /\ i - 1 \in Nat /\ (i + 1) - 1 = i /\ (i - 1) + 1 = i
  BY SheetFacts DEF TypeInv
<1>2. ASSUME NEW n \in Nat
      PROVE  Note!Carried(sheet, fixings, n + 1) =
               IF sheet.couponMemory /\ Earlier(n) # {}
                 THEN Note!Left(sheet, fixings,
                                sheet.periods[Note!Max(Earlier(n))])
                 ELSE 0
  <2>1. (n + 1) - 1 = n
    OBVIOUS
  <2>2. QED
    BY <2>1 DEF Note!Carried, Counted
<1>3. Earlier(i) = Earlier(i - 1) \cup (IF Counted(i) # {} THEN {i} ELSE {})
  <2>1. 1 .. i = 1 .. i - 1 \cup {i}
    BY <1>1
  <2>2. QED
    BY <2>1
<1>4. CASE Counted(i) = {}
  <2>1. Earlier(i) = Earlier(i - 1)
    BY <1>3, <1>4
  <2>2. QED
    BY <1>1, <1>2, <1>4, <2>1
<1>5. CASE Counted(i) # {}
  <2>1. i \in Earlier(i)
    BY <1>1, <1>5
  <2>2. Note!Max(Earlier(i)) = i
    <3>1. \A y \in Earlier(i) : i >= y /\ y \in Nat
      BY <1>1
    <3>2. \A x \in Earlier(i) : (\A y \in Earlier(i) : x >= y) => x = i
      BY <1>1, <2>1, <3>1
    <3>3. Max(Earlier(i)) = i
      BY <2>1, <3>1, <3>2 DEF Max
    <3>4. QED
      BY <3>3, SameLibrary
  <2>3. QED
    BY <1>1, <1>2, <1>5, <2>1, <2>2
<1>6. QED
  BY <1>4, <1>5

\* What is carried into the next period.
LEMMA CarriedNext ==
  ASSUME TypeInv, CallInv, period \in 1 .. Len(sheet.periods),
         state.unpaid = Note!Carried(sheet, fixings, period)
  PROVE  /\ Counted(period) = {} =>
              Note!Carried(sheet, fixings, period + 1) = state.unpaid
         /\ Accruing =>
              Note!Carried(sheet, fixings, period + 1) = UnpaidAfter
<1>1. Accruing => Counted(period) # {}
  BY AccruingCounts
<1>2. Accruing =>
        UnpaidAfter = IF sheet.couponMemory
                        THEN Note!Left(sheet, fixings, sheet.periods[period])
                        ELSE 0
  BY AccruingPays DEF UnpaidAfter, ThisPeriod
<1>3. QED
  BY <1>1, <1>2, CarriedAfter

LEMMA CarriedFirst == Note!Carried(sheet, fixings, 1) = 0
<1>1. 1 .. 1 - 1 = {}
  OBVIOUS
<1>2. QED
  BY <1>1 DEF Note!Carried

\* After the call no later period counts a fixing.
LEMMA RestCountsNone ==
  ASSUME TypeInv, CallInv, Refusal(sheet) = "verified", Called,
         period \in 1 .. Len(sheet.periods),
         NEW j \in 1 .. Len(sheet.periods), j > period,
         CallObs < Begin \/ CallObs <= End
  PROVE  Counted(j) = {}
<1>1. SUFFICES ASSUME NEW k \in Counted(j) PROVE FALSE
  OBVIOUS
<1>2. k \in Obs /\ k \in Note!Window(sheet.periods[j]) /\ k <= CallObs
  BY <1>1, CountedBounds
<1>3. Begin <= k /\ End < k
  BY <1>2, BoundsInOrder DEF Begin, End, ThisPeriod, TypeInv
<1>4. k \in Nat /\ Begin \in Nat /\ End \in Nat /\ CallObs \in Nat
  <2>1. ThisPeriod \in Periods
    BY SheetFacts DEF ThisPeriod, TypeInv
  <2>2. QED
    BY <1>2, <2>1, Lookups, CubeFacts, CallsFacts DEF Begin, End, Periods
<1>5. QED
  BY <1>2, <1>3, <1>4

LEMMA BrokenCountsNone ==
  ASSUME TypeInv, CallInv, Called, period \in 1 .. Len(sheet.periods),
         CallObs < Begin
  PROVE  Counted(period) = {}
<1>1. SUFFICES ASSUME NEW k \in Counted(period) PROVE FALSE
  OBVIOUS
<1>2. k \in Obs /\ k <= CallObs /\ Begin <= k
  BY <1>1, CountedBounds DEF Begin, ThisPeriod
<1>3. k \in Nat /\ Begin \in Nat /\ CallObs \in Nat
  <2>1. ThisPeriod \in Periods
    BY SheetFacts DEF ThisPeriod, TypeInv
  <2>2. QED
    BY <1>2, <2>1, Lookups, CubeFacts, CallsFacts DEF Begin, Periods
<1>4. QED
  BY <1>2, <1>3

(***************************************************************************)
(* What a path has paid when it is settled is what it is due.              *)
(***************************************************************************)
LEMMA HeldSum ==
  ASSUME NEW A, NEW B, IsABag(A), IsABag(B), NEW flow
  PROVE  /\ Held(flow, A (+) B) = Held(flow, A) + Held(flow, B)
         /\ Held(flow, A) \in Nat
         /\ flow \in DOMAIN A <=> Held(flow, A) > 0
<1>1. \A f \in DOMAIN A : A[f] \in Nat /\ A[f] > 0
  BY DEF IsABag
<1>2. \A f \in DOMAIN B : B[f] \in Nat /\ B[f] > 0
  BY DEF IsABag
<1>3. Held(flow, A) \in Nat /\ (flow \in DOMAIN A <=> Held(flow, A) > 0)
  BY <1>1 DEF Held
<1>4. Held(flow, A (+) B) = Held(flow, A) + Held(flow, B)
  BY <1>1, <1>2 DEF Held, (+)
<1>5. QED
  BY <1>3, <1>4

LEMMA SameHoldings ==
  ASSUME NEW A, NEW B, IsABag(A), IsABag(B),
         DOMAIN A \subseteq Flows, DOMAIN B \subseteq Flows,
         \A flow \in Flows : Held(flow, A) = Held(flow, B)
  PROVE  A = B
<1>1. \A flow : flow \in DOMAIN A <=> Held(flow, A) > 0
  BY HeldSum
<1>2. \A flow : flow \in DOMAIN B <=> Held(flow, B) > 0
  BY HeldSum
<1>3. DOMAIN A = DOMAIN B
  BY <1>1, <1>2
<1>4. \A flow \in DOMAIN A : A[flow] = B[flow]
  BY <1>3 DEF Held
<1>5. QED
  BY <1>3, <1>4 DEF IsABag

\* Legs that share no flow are held together as each by itself.
LEMMA TogetherHolds ==
  ASSUME NEW legs, \A leg \in legs : IsABag(leg),
         \A leg, other \in legs : \A f \in DOMAIN leg \cap DOMAIN other :
           leg = other
  PROVE  /\ IsABag(Note!Together(legs))
         /\ DOMAIN Note!Together(legs) = UNION {DOMAIN leg : leg \in legs}
         /\ \A leg \in legs : \A f \in DOMAIN leg :
              Held(f, Note!Together(legs)) = leg[f]
<1> DEFINE T == Note!Together(legs)
           Of(f) == CHOOSE leg \in legs : f \in DOMAIN leg
<1>1. /\ DOMAIN T = UNION {DOMAIN leg : leg \in legs}
      /\ T = [f \in DOMAIN T |-> T[f]]
      /\ \A f \in DOMAIN T : T[f] = Of(f)[f]
  BY DEF Note!Together
<1>2. ASSUME NEW f \in DOMAIN T
      PROVE  Of(f) \in legs /\ f \in DOMAIN Of(f)
  BY <1>1
<1>3. ASSUME NEW leg \in legs, NEW f \in DOMAIN leg
      PROVE  f \in DOMAIN T /\ T[f] = leg[f]
  <2>1. f \in DOMAIN T
    BY <1>1
  <2>2. Of(f) = leg
    BY <1>2, <2>1
  <2>3. QED
    BY <1>1, <2>1, <2>2
<1>4. ASSUME NEW f \in DOMAIN T PROVE T[f] \in {n \in Nat : n > 0}
  BY <1>1, <1>2 DEF IsABag
<1> HIDE DEF T
<1>5. IsABag(T)
  BY <1>1, <1>4 DEF IsABag
<1>6. QED
  BY <1>1, <1>3, <1>5 DEF Held, T

Legs ==
  {Funding, ResidualPut}
    \cup {Coupon(i) : i \in {j \in 1 .. Len(sheet.periods) : Counted(j) # {}}}

LEMMA DueIsLegs ==
  ASSUME TypeInv, CallInv
  PROVE  Note!Due(sheet, fixings) = Note!Together(Legs)
<1>1. Terminated <=> Called
  BY TerminatedIsCalled
<1>2. Note!Principal(sheet, fixings) = Funding
  BY <1>1, SameValues, SameTerms, FinalIsFinal
  DEF Note!Principal, Funding, Called, CallObs, CallInv
<1>3. Note!Put(sheet, fixings) = ResidualPut
  <2>1. CASE Called
    BY <1>1, <2>1, SameLibrary DEF Note!Put, ResidualPut, Called
  <2>2. CASE ~Called
    <3>1. Note!TerminalPayoff(sheet, Note!KnockedIn(sheet, fixings),
                              Note!Worst(fixings, Note!Final(sheet)))
            = TerminalPayoff(sheet, state.ki, state.terminal)
      BY <2>2, SameTerms, FinalIsFinal
      DEF CallInv, TerminalPayoff, TypeInv, PathStates
    <3>2. QED
      BY <1>1, <2>2, <3>1, SameValues DEF Note!Put, ResidualPut, Called
  <2>3. QED
    BY <2>1, <2>2
<1>4. DOMAIN sheet.periods = 1 .. Len(sheet.periods)
  BY SheetTypes DEF TypeInv
<1>5. QED
  BY <1>2, <1>3, <1>4 DEF Note!Due, Legs, Counted, Coupon

LEMMA LegFlows ==
  /\ \A f \in DOMAIN Funding : f[1] = "FUNDING"
  /\ \A f \in DOMAIN ResidualPut : f[1] = "PUT"
  /\ \A i : \A f \in DOMAIN Coupon(i) : f[1] = "COUPON" /\ f[2] = i
<1>1. ASSUME NEW flow, NEW amount, NEW f \in DOMAIN Cash(flow, amount)
      PROVE  f = flow
  BY EmptyIsBag DEF Cash
<1>2. \A f \in DOMAIN Funding : f[1] = "FUNDING"
  BY <1>1 DEF Funding
<1>3. \A f \in DOMAIN ResidualPut : f[1] = "PUT"
  BY <1>1, EmptyIsBag DEF ResidualPut
<1>4. ASSUME NEW i, NEW f \in DOMAIN Coupon(i)
      PROVE  f[1] = "COUPON" /\ f[2] = i
  BY <1>1, SameValues DEF Coupon, Note!Coupon
<1>5. QED
  BY <1>2, <1>3, <1>4

LEMMA SettledIsDue ==
  ASSUME TypeInv, pc = "settle", CallInv, CouponInv,
         IsABag(closed.paid), DOMAIN closed.paid \subseteq Flows
  PROVE  totals.paid (+) Funding (+) ResidualPut
           = closed.paid (+) Note!Due(sheet, fixings)
<1> DEFINE D == Note!Together(Legs)
           N == Len(sheet.periods)
<1>1. /\ IsABag(Funding) /\ DOMAIN Funding \subseteq Flows
      /\ IsABag(ResidualPut) /\ DOMAIN ResidualPut \subseteq Flows
      /\ IsABag(totals.paid) /\ DOMAIN totals.paid \subseteq Flows
  BY SettledBags DEF TypeInv
<1>2. \A i \in 1 .. N : Counted(i) # {} =>
        IsABag(Coupon(i)) /\ DOMAIN Coupon(i) \subseteq Flows
  BY DEF CouponInv, Through
<1>3. \A leg \in Legs : IsABag(leg) /\ DOMAIN leg \subseteq Flows
  BY <1>1, <1>2 DEF Legs
<1>4. ASSUME NEW leg \in Legs, NEW other \in Legs,
             NEW f \in DOMAIN leg \cap DOMAIN other
      PROVE  leg = other
  BY LegFlows DEF Legs
<1>5. /\ IsABag(D) /\ DOMAIN D = UNION {DOMAIN leg : leg \in Legs}
      /\ \A leg \in Legs : \A f \in DOMAIN leg : Held(f, D) = leg[f]
  BY <1>3, <1>4, TogetherHolds
<1>6. DOMAIN D \subseteq Flows
  BY <1>3, <1>5
<1> HIDE DEF D
<1>7. ASSUME NEW f \in Flows
      PROVE  Held(f, D)
               = OwedSoFar(f, N) + Held(f, Funding) + Held(f, ResidualPut)
  <2>1. \A bag : Held(f, bag) = IF f \in DOMAIN bag THEN bag[f] ELSE 0
    BY DEF Held
  <2>2. Funding \in Legs /\ ResidualPut \in Legs
    BY DEF Legs
  <2>3. CASE f[1] = "FUNDING"
    <3>1. f \in DOMAIN D <=> f \in DOMAIN Funding
      BY <1>5, <2>2, <2>3, LegFlows DEF Legs
    <3>2. Held(f, D) = Held(f, Funding)
      BY <1>5, <2>1, <2>2, <3>1
    <3>3. f \notin DOMAIN ResidualPut /\ OwedSoFar(f, N) = 0
      BY <2>3, LegFlows DEF OwedSoFar
    <3>4. Held(f, Funding) \in Nat
      BY <1>1, HeldSum
    <3>5. QED
      BY <2>1, <3>2, <3>3, <3>4
  <2>4. CASE f[1] = "PUT"
    <3>1. f \in DOMAIN D <=> f \in DOMAIN ResidualPut
      BY <1>5, <2>2, <2>4, LegFlows DEF Legs
    <3>2. Held(f, D) = Held(f, ResidualPut)
      BY <1>5, <2>1, <2>2, <3>1
    <3>3. f \notin DOMAIN Funding /\ OwedSoFar(f, N) = 0
      BY <2>4, LegFlows DEF OwedSoFar
    <3>4. Held(f, ResidualPut) \in Nat
      BY <1>1, HeldSum
    <3>5. QED
      BY <2>1, <3>2, <3>3, <3>4
  <2>5. CASE f[1] = "COUPON"
    <3>1. f \notin DOMAIN Funding /\ f \notin DOMAIN ResidualPut
      BY <2>5, LegFlows
    <3>2. CASE f[2] \in 1 .. N /\ Counted(f[2]) # {}
      <4>1. Coupon(f[2]) \in Legs
        BY <3>2 DEF Legs
      <4>2. f \in DOMAIN D <=> f \in DOMAIN Coupon(f[2])
        BY <1>5, <3>1, <4>1, LegFlows DEF Legs
      <4>3. Held(f, D) = Held(f, Coupon(f[2]))
        BY <1>5, <2>1, <4>1, <4>2
      <4>4. Held(f, Coupon(f[2])) \in Nat
        BY <1>2, <3>2, HeldSum
      <4>5. QED
        BY <2>1, <2>5, <3>1, <3>2, <4>3, <4>4 DEF OwedSoFar
    <3>3. CASE ~ (f[2] \in 1 .. N /\ Counted(f[2]) # {})
      <4>1. f \notin DOMAIN D
        BY <1>5, <3>1, <3>3, LegFlows DEF Legs
      <4>2. QED
        BY <2>1, <3>1, <3>3, <4>1 DEF OwedSoFar
    <3>4. QED
      BY <3>2, <3>3
  <2>6. QED
    BY <2>3, <2>4, <2>5 DEF Flows
<1> DEFINE Left == totals.paid (+) Funding (+) ResidualPut
           Right == closed.paid (+) D
<1>8. /\ IsABag(Left) /\ IsABag(Right)
      /\ DOMAIN Left \subseteq Flows /\ DOMAIN Right \subseteq Flows
  <2>1. IsABag(Left) /\ DOMAIN Left \subseteq Flows
    <3>1. /\ IsABag(Left)
          /\ DOMAIN Left = DOMAIN totals.paid \cup DOMAIN Funding
                              \cup DOMAIN ResidualPut
      BY SettledSum
    <3> HIDE DEF Left
    <3>2. QED
      BY <1>1, <3>1
  <2>2. /\ IsABag(Right)
        /\ DOMAIN Right = DOMAIN closed.paid \cup DOMAIN D
    BY <1>5, SumIsBag
  <2> HIDE DEF Left, Right
  <2>3. QED
    BY <1>6, <2>1, <2>2
<1>9. ASSUME NEW f \in Flows PROVE Held(f, Left) = Held(f, Right)
  <2>1. /\ IsABag(totals.paid (+) Funding)
        /\ Held(f, totals.paid (+) Funding)
             = Held(f, totals.paid) + Held(f, Funding)
    <3> DEFINE A == totals.paid
               B == Funding
    <3>1. IsABag(A) /\ IsABag(B)
      BY <1>1
    <3> HIDE DEF A, B
    <3>2. IsABag(A (+) B)
      BY <3>1, SumIsBag
    <3>3. Held(f, A (+) B) = Held(f, A) + Held(f, B)
      BY <3>1, HeldSum
    <3>4. QED
      BY <3>2, <3>3 DEF A, B
  <2>2. Held(f, Left)
          = Held(f, totals.paid (+) Funding) + Held(f, ResidualPut)
    BY <1>1, <2>1, HeldSum
  <2>3. Held(f, Right) = Held(f, closed.paid) + Held(f, D)
    BY <1>5, HeldSum
  <2>4. Held(f, totals.paid) = Held(f, closed.paid) + OwedSoFar(f, N)
    BY DEF CouponInv, Through
  <2>5. /\ Held(f, totals.paid) \in Nat /\ Held(f, closed.paid) \in Nat
        /\ Held(f, Funding) \in Nat /\ Held(f, ResidualPut) \in Nat
        /\ Held(f, D) \in Nat
    BY <1>1, <1>5, HeldSum
  <2>6. OwedSoFar(f, N) \in Nat
    BY <1>2, HeldSum DEF OwedSoFar
  <2>7. QED
    BY <1>7, <2>1, <2>2, <2>3, <2>4, <2>5, <2>6
<1>10. Left = Right
  BY <1>8, <1>9, SameHoldings
<1>11. QED
  BY <1>10, DueIsLegs DEF D

(***************************************************************************)
(* What the walks of one path have in common.                              *)
(***************************************************************************)
LEMMA SamePath ==
  ASSUME UNCHANGED <<sheet, fixings>>
  PROVE  /\ Called' = Called /\ CallObs' = CallObs /\ CallKind' = CallKind
         /\ FinalIndex' = FinalIndex
         /\ \A k : Worst(k)' = Worst(k) /\ (ValidAt(k)' <=> ValidAt(k))
         /\ \A i : Counted(i)' = Counted(i) /\ Coupon(i)' = Coupon(i)
         /\ \A i : Note!Carried(sheet, fixings, i)' = Note!Carried(sheet, fixings, i)
         /\ Note!Calls(sheet, fixings)' = Note!Calls(sheet, fixings)
         /\ Note!KnockedIn(sheet, fixings)' = Note!KnockedIn(sheet, fixings)
BY DEF Called, CallObs, CallKind, FinalIndex, Worst, ValidAt, Counted, Coupon

(***************************************************************************)
(* The invariant of the refinement, walk by walk.                          *)
(***************************************************************************)
BaseInv ==
  /\ IInv
  /\ closed = [paid |-> closed.paid, ki |-> closed.ki, ko |-> closed.ko,
               local |-> closed.local, global |-> closed.global,
               paths |-> closed.paths]
  /\ IsABag(closed.paid) /\ DOMAIN closed.paid \subseteq Flows
  /\ pc = "compile" =>
       verdict = "pending" /\ fixings = NoPath /\ totals = Zero /\ closed = Zero
  /\ pc \in {"start", "observe", "coupon", "settle"} =>
       verdict = "verified" /\ Refusal(sheet) = "verified"
  /\ pc = "start" => fixings = NoPath /\ totals = closed

RefInv == BaseInv /\ WalkInv /\ PaidInv

LEMMA BaseStep ==
  ASSUME BaseInv, Next
  PROVE  BaseInv'
<1> USE DEF BaseInv
<1>1. IInv'
  BY StepIInv
<1>2. ASSUME NEW status, Fail(status) PROVE BaseInv'
  BY <1>1, <1>2, ZeroType DEF Fail
<1>3. CASE Compile
  BY <1>1, <1>2, <1>3 DEF Compile
<1>4. CASE StartPath
  BY <1>1, <1>4 DEF StartPath
<1>5. CASE Observe
  BY <1>1, <1>5 DEF Observe
<1>6. CASE FinishObserving
  BY <1>1, <1>6 DEF FinishObserving
<1>7. CASE SkipPeriod
  BY <1>1, <1>7 DEF SkipPeriod
<1>8. CASE EndCoupons
  BY <1>1, <1>8 DEF EndCoupons
<1>9. CASE PayCoupon
  <2>1. UNCHANGED <<sheet, verdict, fixings, closed>>
    BY <1>9 DEF PayCoupon
  <2>2. pc = "coupon" /\ pc' \in {"coupon", "settle"}
    BY <1>9 DEF PayCoupon, Accruing
  <2>3. QED
    BY <1>1, <2>1, <2>2
<1>10. CASE InvalidFixing
  BY <1>2, <1>10 DEF InvalidFixing
<1>11. CASE Settle
  <2>1. closed' = totals' /\ fixings' = NoPath /\ pc = "settle"
        /\ UNCHANGED <<sheet, verdict>> /\ pc' \in {"start", "done"}
    BY <1>11 DEF Settle
  <2>2. /\ totals' = [paid |-> totals'.paid, ki |-> totals'.ki,
                      ko |-> totals'.ko, local |-> totals'.local,
                      global |-> totals'.global, paths |-> totals'.paths]
        /\ IsABag(totals'.paid) /\ DOMAIN totals'.paid \subseteq Flows
    BY <1>1 DEF IInv, TypeInv
  <2>3. QED
    BY <1>1, <2>1, <2>2
<1>12. CASE Done
  BY <1>1, <1>12 DEF Done, vars
<1>13. QED
  BY <1>3, <1>4, <1>5, <1>6, <1>7, <1>8, <1>9, <1>10, <1>11, <1>12 DEF Next

LEMMA WalkStep ==
  ASSUME BaseInv, WalkInv, Next
  PROVE  WalkInv'
<1> SUFFICES ASSUME pc' = "observe" PROVE WalkInv'
  BY DEF WalkInv
<1>0. TypeInv
  BY DEF BaseInv, IInv
<1>1. CASE StartPath
  <2>1. /\ obs' = 0 /\ period' = 1 /\ state' = Fresh
        /\ pc = "start" /\ UNCHANGED <<sheet, totals, closed>>
    BY <1>1 DEF StartPath
  <2>2. 0 .. 0 - 1 = {}
    OBVIOUS
  <2>3. /\ LocksBy(sheet.local, obs)' = {}
        /\ LocksBy(sheet.global, obs)' = {}
    BY <2>1, <2>2 DEF LocksBy
  <2>4. FinalIndex' = FinalIndex /\ FinalIndex \in Nat
    BY <1>0, <2>1, FinalIndexType, CubeFacts DEF FinalIndex, TypeInv
  <2>5. ~Terminated'
    BY <2>1 DEF Terminated, Fresh
  <2>6. /\ ~state'.ki /\ state'.unpaid = 0
        /\ state'.locked.local = {} /\ state'.locked.global = {}
    BY <2>1 DEF Fresh
  <2>7. totals' = closed'
    BY <2>1 DEF BaseInv
  <2>8. \A k \in 0 .. obs' - 1 : FALSE
    BY <2>1, <2>2
  <2>9. obs' <= FinalIndex'
    BY <2>1, <2>4
  <2>10. QED
    BY <2>1, <2>3, <2>5, <2>6, <2>7, <2>8, <2>9 DEF WalkInv
<1>2. CASE Observe
  <2>1. /\ pc = "observe" /\ KoNow = "none" /\ obs < FinalIndex /\ ValidAt(obs)
        /\ state' = Observed /\ obs' = obs + 1
        /\ UNCHANGED <<sheet, fixings, period, totals, closed>>
    BY <1>2 DEF Observe
  <2>2. obs \in Nat /\ FinalIndex \in Nat
    BY <1>0, FinalIndexType, CubeFacts DEF TypeInv
  <2>3. /\ Observed.ko = "none" /\ ~Observed.ki /\ Observed.unpaid = 0
        /\ Observed.locked.local = Locked(state.locked.local, sheet.local)
        /\ Observed.locked.global = Locked(state.locked.global, sheet.global)
    BY <1>0, <2>1, <2>2 DEF Observed, WalkInv, TypeInv, PathStates
  <2>4. \A side : Locked(LocksBy(side, obs), side) = LocksBy(side, obs + 1)
    BY <2>2, HitIsTouch
  <2>5. /\ LocksBy(sheet.local, obs)' = LocksBy(sheet.local, obs + 1)
        /\ LocksBy(sheet.global, obs)' = LocksBy(sheet.global, obs + 1)
    BY <2>1 DEF LocksBy
  <2>6. /\ state'.locked.local = LocksBy(sheet.local, obs)'
        /\ state'.locked.global = LocksBy(sheet.global, obs)'
    BY <2>1, <2>3, <2>4, <2>5 DEF WalkInv
  <2>7. obs \notin Note!Calls(sheet, fixings)
    BY <1>0, <2>1, KoNowIsCall
  <2>8. \A k \in 0 .. obs : k \notin Note!Calls(sheet, fixings) /\ ValidAt(k)
    <3>1. 0 .. obs = 0 .. obs - 1 \cup {obs}
      BY <2>2
    <3>2. QED
      BY <2>1, <2>7, <3>1 DEF WalkInv
  <2>9. (obs + 1) - 1 = obs /\ obs + 1 <= FinalIndex
    BY <2>1, <2>2
  <2>10. /\ FinalIndex' = FinalIndex
         /\ Note!Calls(sheet, fixings)' = Note!Calls(sheet, fixings)
         /\ \A k : ValidAt(k)' <=> ValidAt(k)
    BY <2>1, SamePath
  <2>11. \A k \in 0 .. obs' - 1 :
           k \notin Note!Calls(sheet, fixings)' /\ ValidAt(k)'
    BY <2>1, <2>8, <2>9, <2>10
  <2>12. ~Terminated'
    BY <2>1, <2>3 DEF Terminated
  <2>13. /\ obs' <= FinalIndex' /\ ~state'.ki /\ state'.unpaid = 0
         /\ period' = 1 /\ totals' = closed'
    BY <2>1, <2>3, <2>9, <2>10 DEF WalkInv
  <2>14. QED
    BY <2>6, <2>11, <2>12, <2>13 DEF WalkInv
<1>3. CASE Done
  <2>1. UNCHANGED vars
    BY <1>3 DEF Done
  <2>2. UNCHANGED <<pc, sheet, fixings, obs, period, state, totals, closed>>
    BY <2>1 DEF vars
  <2>3. QED
    BY <2>2, <1>3 DEF Done
<1>4. CASE PayCoupon
  BY <1>4 DEF PayCoupon, Accruing
<1>5. QED
  BY <1>1, <1>2, <1>3, <1>4 DEF Next, Compile, Fail, FinishObserving,
     SkipPeriod, EndCoupons, InvalidFixing, Settle

\* What the walk over the observations hands to the walk over the periods.
LEMMA FinishStep ==
  ASSUME BaseInv, WalkInv, FinishObserving
  PROVE  CallInv' /\ PathCounts' /\ CouponInv'
<1>0. /\ TypeInv /\ pc = "observe" /\ pc' = "coupon" /\ ValidAt(obs)
      /\ KoNow # "none" \/ obs = FinalIndex
      /\ state' = Observed /\ UNCHANGED <<sheet, fixings, obs, period, closed>>
  BY DEF FinishObserving, BaseInv, IInv
<1>1. /\ obs \in Nat /\ FinalIndex \in Nat /\ obs <= FinalIndex
      /\ ~state.ki /\ state.unpaid = 0 /\ period = 1 /\ totals = closed
  BY <1>0, FinalIndexType, CubeFacts DEF TypeInv, WalkInv
<1>2. /\ Called' = Called /\ CallObs' = CallObs /\ CallKind' = CallKind
      /\ FinalIndex' = FinalIndex
      /\ \A k : Worst(k)' = Worst(k) /\ (ValidAt(k)' <=> ValidAt(k))
      /\ Note!Carried(sheet, fixings, 1)' = Note!Carried(sheet, fixings, 1)
      /\ (Note!KnockedIn(sheet, fixings)' <=> Note!KnockedIn(sheet, fixings))
  BY <1>0, SamePath
<1>3. /\ KoNow # "none" => Called /\ CallObs = obs /\ KoNow = CallKind
      /\ KoNow = "none" => obs = FinalIndex /\ ~Called
  BY <1>0, KoNowIsCall
<1>4. /\ Observed.ko = KoNow
      /\ KoNow # "none" => Observed.koObs = obs
      /\ Observed.unpaid = state.unpaid
      /\ obs = FinalIndex => /\ Observed.terminal = Worst(obs)
                             /\ Observed.ki = KnockIn(sheet, Worst(obs))
      /\ obs # FinalIndex => Observed.ki = state.ki
  BY <1>0 DEF Observed, TypeInv, PathStates
<1>5. Observed.ki <=> Note!KnockedIn(sheet, fixings)
  <2>1. Note!KnockedIn(sheet, fixings) <=>
          (Called => CallObs = FinalIndex) /\ KnockIn(sheet, Worst(FinalIndex))
    BY FinalIsFinal, SameTerms DEF Note!KnockedIn, Called, CallObs
  <2>2. CASE obs = FinalIndex
    <3>1. Called => CallObs = FinalIndex
      BY <1>3, <2>2
    <3>2. QED
      BY <1>4, <2>1, <2>2, <3>1
  <2>3. CASE obs # FinalIndex
    <3>1. Called /\ CallObs # FinalIndex
      BY <1>0, <1>3, <2>3
    <3>2. QED
      BY <1>1, <1>4, <2>1, <2>3, <3>1
  <2>4. QED
    BY <2>2, <2>3
<1>6. \A k \in 0 .. obs : ValidAt(k)
  <2>1. 0 .. obs = 0 .. obs - 1 \cup {obs}
    BY <1>1
  <2>2. QED
    BY <1>0, <2>1 DEF WalkInv
<1>7. CallInv'
  <2>1. state'.ko = IF Called THEN CallKind ELSE "none"
    BY <1>0, <1>3, <1>4
  <2>2. Called => state'.koObs = CallObs
    BY <1>0, <1>3, <1>4
  <2>3. ~Called => state'.terminal = Worst(FinalIndex)
    BY <1>0, <1>3, <1>4
  <2>4. (IF Called THEN CallObs ELSE FinalIndex) = obs
    BY <1>0, <1>3
  <2>5. \A k \in 0 .. (IF Called THEN CallObs ELSE FinalIndex) : ValidAt(k)
    BY <1>6, <2>4
  <2>6. state'.ki <=> Note!KnockedIn(sheet, fixings)
    BY <1>0, <1>5
  <2>7. QED
    BY <1>2, <2>1, <2>2, <2>3, <2>5, <2>6 DEF CallInv
<1>8. PathCounts'
  <2>1. /\ totals'.ki = totals.ki + Count(Observed.ki)
        /\ totals'.ko = totals.ko + Count(KoNow # "none")
        /\ totals'.local = totals.local + Count(KoNow = "local")
        /\ totals'.global = totals.global + Count(KoNow = "global")
        /\ totals'.paths = totals.paths
    BY <1>0 DEF FinishObserving, TypeInv
  <2>2. /\ KoNow # "none" <=> Called
        /\ \A side \in {"local", "global"} :
             KoNow = side <=> Called /\ CallKind = side
    BY <1>3
  <2>3. /\ Count(Observed.ki) = Count(Note!KnockedIn(sheet, fixings))
        /\ Count(KoNow # "none") = Count(Called)
        /\ Count(KoNow = "local") = Count(Called /\ CallKind = "local")
        /\ Count(KoNow = "global") = Count(Called /\ CallKind = "global")
    BY <1>5, <2>2 DEF Count
  <2>4. /\ Count(Note!KnockedIn(sheet, fixings))'
             = Count(Note!KnockedIn(sheet, fixings))
        /\ Count(Called)' = Count(Called)
        /\ Count(Called /\ CallKind = "local")'
             = Count(Called /\ CallKind = "local")
        /\ Count(Called /\ CallKind = "global")'
             = Count(Called /\ CallKind = "global")
    BY <1>2 DEF Count
  <2>5. QED
    BY <1>0, <1>1, <2>1, <2>3, <2>4 DEF PathCounts
<1>9. CouponInv'
  <2>1. Through' = 0
    BY <1>0, <1>1 DEF Through
  <2>2. 1 .. 0 = {}
    OBVIOUS
  <2>3. state'.unpaid = Note!Carried(sheet, fixings, period)'
    BY <1>0, <1>1, <1>2, <1>4, CarriedFirst
  <2>4. totals'.paid = closed'.paid
    BY <1>0, <1>1 DEF FinishObserving, TypeInv
  <2>5. ASSUME NEW flow \in Flows
        PROVE  Held(flow, totals.paid)'
                 = Held(flow, closed.paid)' + OwedSoFar(flow, Through)'
    <3>1. OwedSoFar(flow, Through)' = 0
      BY <2>1, <2>2 DEF OwedSoFar
    <3>2. Held(flow, closed.paid)' \in Nat
      <4>1. IsABag(closed'.paid)
        BY <1>0 DEF BaseInv
      <4>2. QED
        BY <4>1, HeldSum
    <3>3. QED
      BY <2>4, <3>1, <3>2 DEF Held
  <2>6. QED
    BY <2>1, <2>2, <2>3, <2>5 DEF CouponInv
<1>10. QED
  BY <1>7, <1>8, <1>9

\* One more period dealt with, whose coupon, if any, was added.
LEMMA OwedNext ==
  ASSUME NEW n \in Nat, NEW flow
  PROVE  OwedSoFar(flow, n + 1) =
           IF flow[1] = "COUPON" /\ flow[2] = n + 1 /\ Counted(n + 1) # {}
             THEN Held(flow, Coupon(n + 1)) ELSE OwedSoFar(flow, n)
<1>1. 1 .. n + 1 = 1 .. n \cup {n + 1} /\ n + 1 \notin 1 .. n
  OBVIOUS
<1>2. QED
  BY <1>1 DEF OwedSoFar

\* Periods that count nothing owe nothing.
LEMMA OwedRest ==
  ASSUME NEW n \in Nat, NEW m \in Nat, n <= m, NEW flow,
         \A i \in n + 1 .. m : Counted(i) = {}
  PROVE  OwedSoFar(flow, m) = OwedSoFar(flow, n)
<1>1. 1 .. m = 1 .. n \cup n + 1 .. m
  OBVIOUS
<1>2. QED
  BY <1>1 DEF OwedSoFar

LEMMA CallKept ==
  ASSUME TypeInv, TypeInv', CallInv, PathCounts,
         UNCHANGED <<sheet, fixings, closed>>,
         state'.ko = state.ko, state'.koObs = state.koObs,
         state'.ki = state.ki, state'.terminal = state.terminal,
         totals'.ki = totals.ki, totals'.ko = totals.ko,
         totals'.local = totals.local, totals'.global = totals.global,
         totals'.paths = totals.paths
  PROVE  CallInv' /\ PathCounts'
<1>1. /\ Called' = Called /\ CallObs' = CallObs /\ CallKind' = CallKind
      /\ FinalIndex' = FinalIndex
      /\ \A k : Worst(k)' = Worst(k) /\ (ValidAt(k)' <=> ValidAt(k))
      /\ (Note!KnockedIn(sheet, fixings)' <=> Note!KnockedIn(sheet, fixings))
  BY SamePath
<1>2. CallInv'
  BY <1>1 DEF CallInv
<1>3. /\ Count(Note!KnockedIn(sheet, fixings))'
           = Count(Note!KnockedIn(sheet, fixings))
      /\ Count(Called)' = Count(Called)
      /\ Count(Called /\ CallKind = "local")'
           = Count(Called /\ CallKind = "local")
      /\ Count(Called /\ CallKind = "global")'
           = Count(Called /\ CallKind = "global")
  BY <1>1 DEF Count
<1>4. PathCounts'
  BY <1>3 DEF PathCounts
<1>5. QED
  BY <1>2, <1>4

LEMMA SkipStep ==
  ASSUME BaseInv, BaseInv', CallInv, PathCounts, CouponInv, SkipPeriod
  PROVE  CallInv' /\ PathCounts' /\ CouponInv'
<1>0. /\ TypeInv /\ TypeInv' /\ pc = "coupon" /\ pc' = "coupon"
      /\ period' = period + 1 /\ Outside
      /\ UNCHANGED <<sheet, fixings, state, totals, closed>>
  BY DEF SkipPeriod, BaseInv, IInv
<1>1. period \in 1 .. Len(sheet.periods) /\ Len(sheet.periods) \in Nat
  BY SheetFacts DEF SkipPeriod, BaseInv, IInv, TypeInv
<1>2. CallInv' /\ PathCounts'
  BY <1>0, CallKept
<1>3. Counted(period) = {}
  BY <1>0, <1>1, SkippedCountsNone
<1>4. Through = period - 1 /\ Through' = period /\ period - 1 \in Nat
      /\ (period - 1) + 1 = period /\ 1 .. period = 1 .. period - 1 \cup {period}
  BY <1>0, <1>1 DEF Through
<1>5. /\ \A i : Counted(i)' = Counted(i) /\ Coupon(i)' = Coupon(i)
      /\ \A k : ValidAt(k)' <=> ValidAt(k)
      /\ \A i : Note!Carried(sheet, fixings, i)'
                  = Note!Carried(sheet, fixings, i)
  BY <1>0, SamePath
<1>6. \A i \in 1 .. period : \A k \in Counted(i) : ValidAt(k)
  BY <1>3, <1>4 DEF CouponInv
<1>7. \A i \in 1 .. period : Counted(i) # {} =>
        IsABag(Coupon(i)) /\ DOMAIN Coupon(i) \subseteq Flows
  BY <1>3, <1>4 DEF CouponInv
<1>8. state.unpaid = Note!Carried(sheet, fixings, period)
  BY <1>0 DEF CouponInv
<1>9. state'.unpaid = Note!Carried(sheet, fixings, period)'
  <2>1. Note!Carried(sheet, fixings, period + 1) = state.unpaid
    BY <1>0, <1>1, <1>3, <1>8, CarriedNext
  <2>2. Note!Carried(sheet, fixings, period)'
          = Note!Carried(sheet, fixings, period + 1)
    BY <1>0, SamePath
  <2>3. QED
    BY <1>0, <2>1, <2>2
<1>10. ASSUME NEW flow \in Flows
       PROVE  Held(flow, totals.paid)'
                = Held(flow, closed.paid)' + OwedSoFar(flow, Through)'
  <2>1. OwedSoFar(flow, period) = OwedSoFar(flow, period - 1)
    BY <1>3, <1>4, OwedNext
  <2>2. OwedSoFar(flow, Through)' = OwedSoFar(flow, period)
    BY <1>0, <1>4, <1>5 DEF OwedSoFar, Held
  <2>3. Held(flow, totals.paid)
          = Held(flow, closed.paid) + OwedSoFar(flow, period - 1)
    BY <1>4 DEF CouponInv
  <2>4. QED
    BY <1>0, <2>1, <2>2, <2>3 DEF Held
<1>11. CouponInv'
  BY <1>4, <1>5, <1>6, <1>7, <1>9, <1>10 DEF CouponInv
<1>12. QED
  BY <1>2, <1>11

LEMMA EndStep ==
  ASSUME BaseInv, BaseInv', CallInv, PathCounts, CouponInv, EndCoupons
  PROVE  CallInv' /\ PathCounts' /\ CouponInv'
<1> DEFINE N == Len(sheet.periods)
<1>0. /\ TypeInv /\ TypeInv' /\ pc = "coupon" /\ pc' = "settle"
      /\ Refusal(sheet) = "verified"
      /\ UNCHANGED <<sheet, fixings, state, totals, closed>>
  BY DEF EndCoupons, BaseInv, IInv
<1>1. period \in 1 .. N + 1 /\ N \in Nat
  BY <1>0, SheetFacts DEF TypeInv
<1>2. CallInv' /\ PathCounts'
  BY <1>0, CallKept
<1>3. Through = period - 1 /\ Through' = N /\ period - 1 \in Nat
      /\ (period - 1) + 1 = period /\ period - 1 <= N
      /\ 1 .. N = 1 .. period - 1 \cup period .. N
  BY <1>0, <1>1 DEF Through
<1>4. \A i \in period .. N : Counted(i) = {}
  <2>1. CASE period <= N
    <3>1. /\ period \in 1 .. Len(sheet.periods)
          /\ Called /\ CallObs < Begin
      BY <1>0, <1>1, <2>1, TerminatedIsCalled DEF EndCoupons, CallInv
    <3>2. Counted(period) = {}
      BY <1>0, <3>1, BrokenCountsNone
    <3>3. ASSUME NEW j \in period .. N, j # period PROVE Counted(j) = {}
      <4>1. j \in 1 .. Len(sheet.periods) /\ j > period
        BY <1>1, <3>3
      <4>2. QED
        BY <1>0, <3>1, <4>1, RestCountsNone
    <3>4. QED
      BY <3>2, <3>3
  <2>2. CASE ~ (period <= N)
    BY <1>1, <2>2
  <2>3. QED
    BY <2>1, <2>2
<1>5. /\ \A i : Counted(i)' = Counted(i) /\ Coupon(i)' = Coupon(i)
      /\ \A k : ValidAt(k)' <=> ValidAt(k)
  BY <1>0, SamePath
<1> HIDE DEF N
<1>6. \A i \in 1 .. N : \A k \in Counted(i) : ValidAt(k)
  BY <1>3, <1>4 DEF CouponInv
<1>7. \A i \in 1 .. N : Counted(i) # {} =>
        IsABag(Coupon(i)) /\ DOMAIN Coupon(i) \subseteq Flows
  BY <1>3, <1>4 DEF CouponInv
<1>8. ASSUME NEW flow \in Flows
      PROVE  Held(flow, totals.paid)'
               = Held(flow, closed.paid)' + OwedSoFar(flow, Through)'
  <2>1. OwedSoFar(flow, N) = OwedSoFar(flow, period - 1)
    BY <1>1, <1>3, <1>4, OwedRest
  <2>2. OwedSoFar(flow, Through)' = OwedSoFar(flow, N)
    BY <1>0, <1>3, <1>5 DEF OwedSoFar, Held
  <2>3. Held(flow, totals.paid)
          = Held(flow, closed.paid) + OwedSoFar(flow, period - 1)
    BY <1>3 DEF CouponInv
  <2>4. QED
    BY <1>0, <2>1, <2>2, <2>3 DEF Held
<1>9. CouponInv'
  BY <1>0, <1>3, <1>5, <1>6, <1>7, <1>8 DEF CouponInv
<1>10. QED
  BY <1>2, <1>9

LEMMA PayStep ==
  ASSUME BaseInv, BaseInv', CallInv, PathCounts, CouponInv, PayCoupon
  PROVE  CallInv' /\ PathCounts' /\ CouponInv'
<1> DEFINE N == Len(sheet.periods)
<1>0. /\ TypeInv /\ TypeInv' /\ pc = "coupon" /\ Accruing
      /\ Refusal(sheet) = "verified"
      /\ UNCHANGED <<sheet, fixings, closed>>
      /\ \A k \in Begin .. CappedEnd : ValidAt(k)
  BY DEF PayCoupon, Accruing, BaseInv, IInv
<1>1. period \in 1 .. N /\ N \in Nat
  BY <1>0, SheetFacts DEF TypeInv, Accruing
<1>2. /\ state'.ko = state.ko /\ state'.koObs = state.koObs
      /\ state'.ki = state.ki /\ state'.terminal = state.terminal
      /\ state'.unpaid = UnpaidAfter
      /\ totals'.ki = totals.ki /\ totals'.ko = totals.ko
      /\ totals'.local = totals.local /\ totals'.global = totals.global
      /\ totals'.paths = totals.paths
      /\ totals'.paid = totals.paid (+) CouponCash
  BY <1>0 DEF PayCoupon, TypeInv, PathStates, CouponCash
<1>3. CallInv' /\ PathCounts'
  BY <1>0, <1>2, CallKept
<1>4. state.unpaid = Note!Carried(sheet, fixings, period)
  BY <1>0 DEF CouponInv
<1>5. Coupon(period) = CouponCash
  BY <1>0, <1>4, AccruingCoupon
<1>6. /\ Counted(period) = Begin .. CappedEnd /\ Counted(period) # {}
      /\ IsKoPeriod <=> /\ Called
                        /\ CallObs \in Note!Window(sheet.periods[period])
  BY <1>0, AccruingCounts
<1>7. /\ IsABag(CouponCash) /\ DOMAIN CouponCash \subseteq Flows
      /\ DOMAIN CouponCash \subseteq {<<"COUPON", period, CouponDate>>}
  BY <1>0, CouponBag
<1>8. Through = period - 1 /\ period - 1 \in Nat /\ (period - 1) + 1 = period
      /\ 1 .. period = 1 .. period - 1 \cup {period}
  BY <1>0, <1>1 DEF Through
<1>9. /\ \A i : Counted(i)' = Counted(i) /\ Coupon(i)' = Coupon(i)
      /\ \A k : ValidAt(k)' <=> ValidAt(k)
  BY <1>0, SamePath
\* What the periods so far pay, this one included.
<1>10. \A i \in 1 .. period : \A k \in Counted(i) : ValidAt(k)
  BY <1>0, <1>6, <1>8 DEF CouponInv
<1>11. \A i \in 1 .. period : Counted(i) # {} =>
         IsABag(Coupon(i)) /\ DOMAIN Coupon(i) \subseteq Flows
  BY <1>5, <1>7, <1>8 DEF CouponInv
<1>12. ASSUME NEW flow \in Flows
       PROVE  Held(flow, totals'.paid)
                = Held(flow, closed.paid) + OwedSoFar(flow, period)
  <2>1. /\ Held(flow, totals'.paid)
             = Held(flow, totals.paid) + Held(flow, CouponCash)
        /\ Held(flow, totals.paid) \in Nat
    <3>1. IsABag(totals.paid)
      BY <1>0 DEF TypeInv
    <3>2. QED
      BY <1>2, <1>7, <3>1, HeldSum
  <2>2. Held(flow, totals.paid)
          = Held(flow, closed.paid) + OwedSoFar(flow, period - 1)
    BY <1>8 DEF CouponInv
  <2>3. Held(flow, closed.paid) \in Nat
    BY HeldSum DEF BaseInv
  <2>4. CASE flow[1] = "COUPON" /\ flow[2] = period
    <3>1. flow[2] \notin 1 .. period - 1
      BY <1>1, <2>4
    <3>2. OwedSoFar(flow, period - 1) = 0
      BY <3>1 DEF OwedSoFar
    <3>3. OwedSoFar(flow, period) = Held(flow, CouponCash)
      BY <1>5, <1>6, <1>8, <2>4, OwedNext
    <3>4. QED
      BY <2>1, <2>2, <2>3, <3>2, <3>3
  <2>5. CASE ~ (flow[1] = "COUPON" /\ flow[2] = period)
    <3>1. OwedSoFar(flow, period) = OwedSoFar(flow, period - 1)
      BY <1>8, <2>5, OwedNext
    <3>2. Held(flow, CouponCash) = 0
      BY <1>7, <2>5 DEF Held
    <3>3. QED
      BY <2>1, <2>2, <3>1, <3>2
  <2>6. QED
    BY <2>4, <2>5
<1>13. CASE ~IsKoPeriod
  <2>1. pc' = "coupon" /\ period' = period + 1
    BY <1>0, <1>13 DEF PayCoupon
  <2>2. Through' = period
    BY <1>1, <2>1 DEF Through
  <2>3. state'.unpaid = Note!Carried(sheet, fixings, period)'
    <3>1. Note!Carried(sheet, fixings, period + 1) = UnpaidAfter
      BY <1>0, <1>1, <1>4, CarriedNext
    <3>2. Note!Carried(sheet, fixings, period)'
            = Note!Carried(sheet, fixings, period + 1)
      BY <1>0, <2>1, SamePath
    <3>3. QED
      BY <1>2, <3>1, <3>2
  <2>4. ASSUME NEW flow \in Flows
        PROVE  Held(flow, totals.paid)'
                 = Held(flow, closed.paid)' + OwedSoFar(flow, Through)'
    <3>1. OwedSoFar(flow, Through)' = OwedSoFar(flow, period)
      BY <1>9, <2>2 DEF OwedSoFar, Held
    <3>2. QED
      BY <1>0, <1>12, <3>1 DEF Held
  <2>5. CouponInv'
    BY <1>9, <1>10, <1>11, <2>2, <2>3, <2>4 DEF CouponInv
  <2>6. QED
    BY <1>3, <2>5
<1>14. CASE IsKoPeriod
  <2>1. pc' = "settle"
    BY <1>14 DEF PayCoupon
  <2>2. Through' = N
    BY <1>0, <2>1 DEF Through
  <2>3. Called /\ CallObs <= End
    BY <1>0, <1>6, <1>14 DEF IsKoPeriod, CallInv
  <2>4. ASSUME NEW j \in period + 1 .. N PROVE Counted(j) = {}
    <3>1. j \in 1 .. Len(sheet.periods) /\ j > period
      BY <1>1
    <3>2. QED
      BY <1>0, <1>1, <2>3, <3>1, RestCountsNone
  <2>5. 1 .. N = 1 .. period \cup period + 1 .. N
    BY <1>1
  <2>6. \A i \in 1 .. N : \A k \in Counted(i) : ValidAt(k)
    BY <1>10, <2>4, <2>5
  <2>7. \A i \in 1 .. N : Counted(i) # {} =>
          IsABag(Coupon(i)) /\ DOMAIN Coupon(i) \subseteq Flows
    BY <1>11, <2>4, <2>5
  <2>8. ASSUME NEW flow \in Flows
        PROVE  Held(flow, totals.paid)'
                 = Held(flow, closed.paid)' + OwedSoFar(flow, Through)'
    <3>1. OwedSoFar(flow, Through)' = OwedSoFar(flow, N)
      BY <1>9, <2>2 DEF OwedSoFar, Held
    <3>2. period \in Nat /\ period <= N
      BY <1>1
    <3>3. OwedSoFar(flow, N) = OwedSoFar(flow, period)
      BY <1>1, <2>4, <3>2, OwedRest
    <3>4. QED
      BY <1>0, <1>12, <3>1, <3>3 DEF Held
  <2>9. CouponInv'
    BY <1>9, <2>1, <2>2, <2>6, <2>7, <2>8 DEF CouponInv
  <2>10. QED
    BY <1>3, <2>9
<1>15. QED
  BY <1>13, <1>14

LEMMA PaidStep ==
  ASSUME BaseInv, BaseInv', WalkInv, PaidInv, Next
  PROVE  PaidInv'
<1> SUFFICES ASSUME pc' \in {"coupon", "settle"}
             PROVE  CallInv' /\ PathCounts' /\ CouponInv'
  BY DEF PaidInv
<1>1. CASE FinishObserving
  BY <1>1, FinishStep
<1>2. CASE SkipPeriod
  <2>1. pc = "coupon"
    BY <1>2 DEF SkipPeriod
  <2>2. QED
    BY <1>2, <2>1, SkipStep DEF PaidInv
<1>3. CASE EndCoupons
  <2>1. pc = "coupon"
    BY <1>3 DEF EndCoupons
  <2>2. QED
    BY <1>3, <2>1, EndStep DEF PaidInv
<1>4. CASE PayCoupon
  <2>1. pc = "coupon"
    BY <1>4 DEF PayCoupon, Accruing
  <2>2. QED
    BY <1>4, <2>1, PayStep DEF PaidInv
<1>5. CASE Compile \/ StartPath \/ Observe \/ InvalidFixing \/ Settle \/ Done
  BY <1>5 DEF Compile, Fail, StartPath, Observe, InvalidFixing, Settle, Done,
              vars
<1>6. QED
  BY <1>1, <1>2, <1>3, <1>4, <1>5 DEF Next

LEMMA RefStep == RefInv /\ [Next]_vars => RefInv'
<1> SUFFICES ASSUME RefInv, [Next]_vars PROVE RefInv'
  OBVIOUS
<1>1. CASE Next
  <2>1. BaseInv'
    BY <1>1, BaseStep DEF RefInv
  <2>2. QED
    BY <1>1, <2>1, WalkStep, PaidStep DEF RefInv
<1>2. CASE UNCHANGED vars
  <2>1. /\ UNCHANGED <<sheet, verdict, pc, fixings, obs, period>>
        /\ UNCHANGED <<state, totals, closed>>
    BY <1>2 DEF vars
  <2>2. BaseInv'
    BY <2>1, <1>2, StepIInv DEF RefInv, BaseInv
  <2>3. UNCHANGED <<Called, CallObs, CallKind, FinalIndex>>
        /\ \A k : Worst(k)' = Worst(k) /\ (ValidAt(k)' <=> ValidAt(k))
        /\ \A i : Counted(i)' = Counted(i) /\ Coupon(i)' = Coupon(i)
        /\ Note!Calls(sheet, fixings)' = Note!Calls(sheet, fixings)
    BY <2>1, SamePath
  <2>4. WalkInv'
    BY <2>1, <2>3 DEF RefInv, WalkInv, Terminated, LocksBy
  <2>5. ASSUME pc \in {"coupon", "settle"} PROVE CallInv' /\ PathCounts'
    BY <2>1, <2>2, <2>5, CallKept DEF RefInv, PaidInv, BaseInv, IInv
  <2>6. ASSUME pc \in {"coupon", "settle"} PROVE CouponInv'
    <3>1. Through' = Through
      BY <2>1 DEF Through
    <3>2. Note!Carried(sheet, fixings, period)'
            = Note!Carried(sheet, fixings, period)
      BY <2>1
    <3>3. \A flow : OwedSoFar(flow, Through)' = OwedSoFar(flow, Through)
      BY <2>3, <3>1 DEF OwedSoFar, Held
    <3>4. CouponInv
      BY <2>6 DEF RefInv, PaidInv
    <3>5. QED
      BY <2>1, <2>3, <3>1, <3>2, <3>3, <3>4 DEF CouponInv, Held
  <2>7. PaidInv'
    BY <2>1, <2>5, <2>6 DEF PaidInv
  <2>8. QED
    BY <2>2, <2>4, <2>7 DEF RefInv
<1>3. QED
  BY <1>1, <1>2

LEMMA RefInit == Init => RefInv
<1> SUFFICES ASSUME Init PROVE RefInv
  OBVIOUS
<1>1. BaseInv
  BY InitIInv, ZeroType DEF Init, BaseInv
<1>2. WalkInv /\ PaidInv
  BY DEF Init, WalkInv, PaidInv
<1>3. QED
  BY <1>1, <1>2 DEF RefInv

LEMMA RefInductive == Spec => []RefInv
BY RefInit, RefStep, PTL DEF Spec

(***************************************************************************)
(* Every step of the engine is a step of the note, or none.                *)
(***************************************************************************)
LEMMA PriceableIsVerified ==
  ASSUME NEW s \in Sheets
  PROVE  Note!Priceable(s) <=> Refusal(s) = "verified"
<1>1. Cardinality(Underlyings) \in Nat /\ Cardinality(Underlyings) # 0
  BY CubeAssumption, FS_CardinalityType, FS_EmptySet
<1>2. {s.evaluation, s.finalFixing, s.maturity, s.notional, s.returnRatio,
       s.strike, s.kiBarrier} \subseteq Nat
  BY SheetTypes
<1>3. s.evaluation \in Nat /\ s.strike \in Nat /\ s.kiBarrier \in Nat
  BY <1>2
<1>4. ASSUME NEW i \in DOMAIN s.periods
      PROVE  s.periods[i].start <= s.periods[i].end
               <=> ~ (s.periods[i].end < s.periods[i].start)
  <2>1. s.periods[i] \in Periods
    BY SheetTypes
  <2>2. QED
    BY <2>1 DEF Periods
<1>5. Note!Cardinality(Underlyings) = Cardinality(Underlyings)
  BY SameLibrary
<1> DEFINE References == Cardinality(Underlyings)
<1> HIDE DEF References
<1>6. References # 0 /\ Note!Cardinality(Underlyings) = References
  BY <1>1, <1>5 DEF References
<1>7. Refusal(s) = "verified" <=>
        /\ s.evaluation # 0 /\ s.references # 0 /\ s.worstOf
        /\ \E pillar \in s.pillars : pillar.dated /\ pillar.rated
        /\ ~s.continuous
        /\ ~ (s.memoryKo /\ ~s.memoryMode)
        /\ s.strike # 0 /\ s.kiBarrier # 0
        /\ \A i \in DOMAIN s.periods :
             ~ (s.periods[i].end < s.periods[i].start)
        /\ s.references = References
  BY DEF Refusal, References
<1>8. QED
  BY <1>3, <1>4, <1>6, <1>7 DEF Note!Priceable

\* What the note looks at, period by period.
LEMMA CompleteIsValid ==
  ASSUME TypeInv
  PROVE  Note!Complete(sheet, fixings) <=>
           /\ \A k \in 0 .. (IF Called THEN CallObs ELSE FinalIndex) :
                ValidAt(k)
           /\ \A i \in 1 .. Len(sheet.periods) : \A k \in Counted(i) :
                ValidAt(k)
<1> DEFINE Seen == 0 .. (IF Called THEN CallObs ELSE FinalIndex)
           Counts == UNION {Counted(i) : i \in 1 .. Len(sheet.periods)}
<1>1. DOMAIN sheet.periods = 1 .. Len(sheet.periods)
  BY SheetTypes DEF TypeInv
<1>2. Note!Complete(sheet, fixings) <=>
        \A k \in Seen \cup Counts, u \in Underlyings : ValidFixing(fixings[k][u])
  BY <1>1, FinalIsFinal, SameValues
  DEF Note!Complete, Called, CallObs, Counted
<1>3. Note!Complete(sheet, fixings) <=> \A k \in Seen \cup Counts : ValidAt(k)
  BY <1>2 DEF ValidAt
<1>4. QED
  BY <1>3

LEMMA DrawStep ==
  ASSUME RefInv, StartPath
  PROVE  Note!Draw
<1>1. /\ verdict = "verified" /\ fixings = NoPath /\ totals = closed
      /\ totals.paths < PathCount
  BY DEF RefInv, BaseInv, IInv, CountInv, StartPath
<1>2. QED
  BY <1>1 DEF StartPath, Note!Draw

LEMMA PriceStep ==
  ASSUME RefInv, Settle
  PROVE  Note!Price
<1>1. /\ TypeInv /\ pc = "settle" /\ CallInv /\ PathCounts /\ CouponInv
      /\ IsABag(closed.paid) /\ DOMAIN closed.paid \subseteq Flows
      /\ verdict = "verified"
  BY DEF RefInv, BaseInv, IInv, PaidInv, Settle
<1>2. fixings # NoPath
  BY <1>1, SheetAssumption DEF TypeInv
<1>3. Note!Complete(sheet, fixings)
  BY <1>1, CompleteIsValid DEF CallInv, CouponInv, Through
<1>4. totals' = [paid |-> closed.paid (+) Note!Due(sheet, fixings),
                 ki |-> totals.ki, ko |-> totals.ko,
                 local |-> totals.local, global |-> totals.global,
                 paths |-> totals.paths + 1]
  <2>1. totals.paid (+) Funding (+) ResidualPut
          = closed.paid (+) Note!Due(sheet, fixings)
    BY <1>1, SettledIsDue
  <2>2. QED
    BY <1>1, <2>1 DEF Settle, TypeInv
<1>5. \A A, B : Note!(+)(A, B) = A (+) B
  BY DEF Note!(+), (+)
<1>6. \A condition : Note!Count(condition) = Count(condition)
  BY DEF Note!Count, Count
<1>7. /\ UNCHANGED <<sheet, verdict>> /\ fixings' = NoPath /\ closed' = totals'
  BY DEF Settle
<1>8. closed' =
        [paid   |-> Note!(+)(closed.paid, Note!Due(sheet, fixings)),
         ki     |-> closed.ki + Note!Count(Note!KnockedIn(sheet, fixings)),
         ko     |-> closed.ko + Note!Count(Called),
         local  |-> closed.local + Note!Count(Called /\ CallKind = "local"),
         global |-> closed.global + Note!Count(Called /\ CallKind = "global"),
         paths  |-> closed.paths + 1]
  BY <1>1, <1>4, <1>5, <1>6, <1>7 DEF PathCounts
<1>9. QED
  BY <1>1, <1>2, <1>3, <1>7, <1>8 DEF Note!Price, Called, CallKind

LEMMA RefuseStep ==
  ASSUME RefInv, InvalidFixing
  PROVE  Note!Refuse
<1>0. /\ TypeInv /\ verdict = "verified" /\ Zero = Note!None
      /\ pc \in {"observe", "coupon"}
  BY SameLibrary
  DEF RefInv, BaseInv, IInv, InvalidFixing, Accruing, Zero, Note!None
<1>1. fixings # NoPath
  BY <1>0, SheetAssumption DEF TypeInv
<1>2. ~Note!Complete(sheet, fixings)
  <2>1. CASE pc = "observe" /\ ~ValidAt(obs)
    <3>1. obs \in Nat /\ obs <= FinalIndex /\ FinalIndex \in Nat
      BY <1>0, <2>1, FinalIndexType, CubeFacts DEF RefInv, WalkInv, TypeInv
    <3>2. Called => CallObs \in Nat /\ ~ (CallObs \in 0 .. obs - 1)
      BY <1>0, <2>1, CallsFacts DEF RefInv, WalkInv
    <3>3. obs \in 0 .. (IF Called THEN CallObs ELSE FinalIndex)
      BY <3>1, <3>2
    <3>4. QED
      BY <1>0, <2>1, <3>3, CompleteIsValid
  <2>2. CASE Accruing /\ \E k \in Begin .. CappedEnd : ~ValidAt(k)
    <3>1. CallInv
      BY <2>2 DEF RefInv, PaidInv, Accruing
    <3>2. Counted(period) = Begin .. CappedEnd
      BY <1>0, <2>2, <3>1, AccruingCounts
    <3>3. period \in 1 .. Len(sheet.periods)
      BY <1>0, <2>2, SheetFacts DEF Accruing, TypeInv
    <3>4. QED
      BY <1>0, <2>2, <3>2, <3>3, CompleteIsValid
  <2>3. QED
    BY <2>1, <2>2 DEF InvalidFixing
<1>3. /\ verdict' = "unresolved" /\ closed' = Zero
      /\ UNCHANGED <<sheet, fixings>>
  BY DEF InvalidFixing, Fail
<1>4. QED
  BY <1>0, <1>1, <1>2, <1>3 DEF Note!Refuse

LEMMA CompileStep ==
  ASSUME RefInv, Compile
  PROVE  Note!Accept \/ Note!Refuse
<1>0. /\ sheet \in Sheets /\ verdict = "pending" /\ Zero = Note!None
      /\ pc = "compile"
  BY SameLibrary
  DEF RefInv, BaseInv, IInv, TypeInv, Compile, Zero, Note!None
<1>1. CASE Refusal(sheet) = "verified"
  <2>1. verdict' = "verified" /\ UNCHANGED <<sheet, fixings, closed>>
    BY <1>1 DEF Compile
  <2>2. QED
    BY <1>0, <1>1, <2>1, PriceableIsVerified DEF Note!Accept
<1>2. CASE Refusal(sheet) # "verified"
  <2>1. /\ verdict' = Refusal(sheet) /\ closed' = Zero
        /\ UNCHANGED <<sheet, fixings>>
    BY <1>2 DEF Compile, Fail
  <2>2. Refusal(sheet) \in Note!Refusals
    BY <1>2 DEF Refusal, Note!Refusals
  <2>3. QED
    BY <1>0, <1>2, <2>1, <2>2, PriceableIsVerified DEF Note!Refuse
<1>3. QED
  BY <1>1, <1>2

\* The native engine, which walks each path once and keeps a running state
\* that all paths share (engine.cpp, price), implements the note: the verdict
\* on a request, the paths priced and what they add up to change only as the
\* payoff stated on whole paths allows, for every cube and every request.
THEOREM EngineRefinesNote == Spec => NoteRefined
<1>1. Init => Note!Init
  <2>1. Zero = Note!None
    BY SameLibrary DEF Zero, Note!None
  <2>2. QED
    BY <2>1 DEF Init, Note!Init
<1>2. RefInv /\ [Next]_vars
        => [Note!Next]_<<sheet, verdict, fixings, closed>>
  <2> SUFFICES ASSUME RefInv, Next
               PROVE  \/ Note!Next
                      \/ UNCHANGED <<sheet, verdict, fixings, closed>>
    BY DEF vars
  <2>1. CASE Compile
    BY <2>1, CompileStep DEF Note!Next
  <2>2. CASE StartPath
    BY <2>2, DrawStep DEF Note!Next
  <2>3. CASE InvalidFixing
    BY <2>3, RefuseStep DEF Note!Next
  <2>4. CASE Settle
    BY <2>4, PriceStep DEF Note!Next
  <2>5. CASE Observe \/ FinishObserving \/ SkipPeriod \/ EndCoupons
               \/ PayCoupon \/ Done
    BY <2>5 DEF Observe, FinishObserving, SkipPeriod, EndCoupons, PayCoupon,
                Done, vars
  <2>6. QED
    BY <2>1, <2>2, <2>3, <2>4, <2>5 DEF Next
<1>3. QED
  BY <1>1, <1>2, RefInductive, PTL DEF Spec, NoteRefined, Note!Spec

-----------------------------------------------------------------------------
(***************************************************************************)
(* The oracle (FcnOracle): its call, its principal and its put.            *)
(***************************************************************************)
LEMMA OracleCalls ==
  ASSUME TypeInv, Plainly
  PROVE  /\ OracleHits = Note!Calls(sheet, fixings)
         /\ OracleCalled <=> Called
         /\ OracleKoIndex = CallObs
<1>1. OracleMemoryKo <=> MemoryKo(sheet)
  BY DEF OracleMemoryKo, MemoryKo, Plainly
<1>2. ASSUME NEW side, NEW k
      PROVE  OracleHit(side, k) <=> Note!Touches(sheet, fixings, side, k)
  <2>1. Note!MemoryKo(sheet) <=> OracleMemoryKo
    BY <1>1, SameTerms
  <2>2. QED
    BY <2>1, SameValues, FinalIsFinal DEF OracleHit, Note!Touches
<1>3. OracleHits = Note!Calls(sheet, fixings)
  BY <1>2, FinalIsFinal DEF OracleHits, Note!Calls
<1>4. QED
  BY <1>3, SameLibrary
  DEF OracleCalled, OracleKoIndex, Called, CallObs, Note!Called, Note!CallObs

LEMMA OracleSelects ==
  ASSUME TypeInv, Plainly, Called
  PROVE  OracleSelected = CallKind
<1> DEFINE Local == Note!Touches(sheet, fixings, sheet.local, CallObs)
           Global == Note!Touches(sheet, fixings, sheet.global, CallObs)
<1>1. Local \/ Global
  <2>1. CallObs \in Note!Calls(sheet, fixings)
    BY CallsFacts
  <2>2. QED
    BY <2>1 DEF Note!Calls
<1>2. /\ OracleHit(sheet.local, CallObs) <=> Local
      /\ OracleHit(sheet.global, CallObs) <=> Global
  <2>1. OracleMemoryKo <=> Note!MemoryKo(sheet)
    BY SameTerms DEF OracleMemoryKo, MemoryKo, Plainly
  <2>2. QED
    BY <2>1, SameValues, FinalIsFinal DEF OracleHit, Note!Touches
<1>3. CallKind = IF Local /\ Global THEN sheet.precedence
                 ELSE IF Local THEN "local" ELSE "global"
  BY DEF CallKind, Note!CallKind, CallObs
<1> HIDE DEF Local, Global
<1>4. QED
  BY <1>1, <1>2, <1>3, OracleCalls DEF OracleSelected, ResolveKo

LEMMA OracleSettles ==
  ASSUME TypeInv, CallInv, Plainly
  PROVE  OracleFunding = Funding /\ OraclePut = ResidualPut
<1>1. /\ Terminated <=> Called
      /\ OracleCalled <=> Called
      /\ Called => OracleKoIndex = state.koObs
  BY TerminatedIsCalled, OracleCalls DEF CallInv
<1>2. FundingAmount(sheet) = sheet.notional * sheet.returnRatio
  BY DEF FundingAmount, Plainly
<1>3. OracleFunding = Funding
  BY <1>1, <1>2 DEF OracleFunding, Funding
<1>4. OraclePut = ResidualPut
  <2>1. CASE Called
    BY <1>1, <2>1 DEF OraclePut, ResidualPut
  <2>2. CASE ~Called
    <3>1. OracleKi <=> Note!KnockedIn(sheet, fixings)
      BY <2>2, <1>1, SameTerms, FinalIsFinal
      DEF OracleKi, Note!KnockedIn, Called
    <3>2. TerminalPayoff(sheet, OracleKi, Worst(FinalIndex))
            = TerminalPayoff(sheet, state.ki, state.terminal)
      BY <2>2, <3>1 DEF CallInv, TerminalPayoff, TypeInv, PathStates
    <3>3. Larger(sheet.notional, 1) = sheet.notional
      <4>1. sheet.notional \in Nat
        BY SheetFacts DEF TypeInv
      <4>2. QED
        BY <4>1 DEF Larger, Plainly
    <3>4. QED
      BY <1>1, <2>2, <3>2, <3>3 DEF OraclePut, ResidualPut
  <2>3. QED
    BY <2>1, <2>2
<1>5. QED
  BY <1>3, <1>4

(***************************************************************************)
(* The fold over the coupon periods: its value after each of them.         *)
(***************************************************************************)
OracleStart == [paid |-> EmptyBag, memory |-> 0, open |-> TRUE]
OracleAfter(i, before) ==
  IF ~before.open \/ OracleBreaks(sheet.periods[i])
    THEN [before EXCEPT !.open = FALSE]
    ELSE [OracleCoupon(i, before.memory) EXCEPT !.paid = before.paid (+) @]
OracleWalk(h, n) ==
  h = [i \in 0 .. n |-> IF i = 0 THEN OracleStart ELSE OracleAfter(i, h[i - 1])]

LEMMA OracleWalkExists ==
  ASSUME NEW n \in Nat
  PROVE  \E h : OracleWalk(h, n)
<1> DEFINE Good == {m \in Nat : \E h : OracleWalk(h, m)}
<1>1. 0 \in Good
  <2>1. OracleWalk([i \in 0 .. 0 |-> OracleStart], 0)
    BY DEF OracleWalk
  <2>2. QED
    BY <2>1
<1>2. ASSUME NEW m \in Nat, m \in Good PROVE m + 1 \in Good
  <2>1. PICK h : OracleWalk(h, m)
    BY <1>2
  <2> DEFINE e == [i \in 0 .. m + 1 |->
                     IF i = 0 THEN OracleStart ELSE OracleAfter(i, h[i - 1])]
  <2>2. \A i \in 0 .. m : e[i] = h[i]
    BY <2>1 DEF OracleWalk
  <2>3. \A i \in 0 .. m + 1 : i # 0 => i - 1 \in 0 .. m
    OBVIOUS
  <2>4. e = [i \in 0 .. m + 1 |->
               IF i = 0 THEN OracleStart ELSE OracleAfter(i, h[i - 1])]
    OBVIOUS
  <2> HIDE DEF e
  <2>5. OracleWalk(e, m + 1)
    BY <2>2, <2>3, <2>4 DEF OracleWalk
  <2>6. QED
    BY <2>5
<1> HIDE DEF Good
<1>3. Nat \subseteq Good
  BY <1>1, <1>2, CountingUp
<1>4. QED
  BY <1>3 DEF Good

LEMMA OracleCouponsAre ==
  ASSUME Len(sheet.periods) \in Nat
  PROVE  \E h : /\ OracleWalk(h, Len(sheet.periods))
                /\ OracleCoupons = h[Len(sheet.periods)].paid
<1> DEFINE h == CHOOSE f : OracleWalk(f, Len(sheet.periods))
<1>1. OracleWalk(h, Len(sheet.periods))
  BY OracleWalkExists
<1>2. OracleCoupons = h[Len(sheet.periods)].paid
  BY DEF OracleCoupons, OracleWalk, OracleStart, OracleAfter
<1>3. QED
  BY <1>1, <1>2

(***************************************************************************)
(* One period.                                                             *)
(***************************************************************************)
\* A period the oracle breaks at counts no fixing, nor does any after it.
LEMMA OracleBreakCountsNone ==
  ASSUME TypeInv, Plainly, Refusal(sheet) = "verified",
         NEW i \in 1 .. Len(sheet.periods), OracleBreaks(sheet.periods[i]),
         NEW j \in i .. Len(sheet.periods)
  PROVE  Counted(j) = {}
<1>1. SUFFICES ASSUME NEW k \in Counted(j) PROVE FALSE
  OBVIOUS
<1>2. j \in 1 .. Len(sheet.periods) /\ i \in DOMAIN sheet.periods
  BY SheetTypes DEF TypeInv
<1>3. /\ k \in Obs /\ k \in Note!Window(sheet.periods[j])
      /\ FirstOf(j) <= k /\ (Called => k <= CallObs)
  BY <1>2, CountedBounds DEF FirstOf
<1>4. FirstOf(i) <= k
  BY <1>2, <1>3, BoundsInOrder, SheetFacts DEF FirstOf, TypeInv
<1>5. /\ k \in Nat /\ k < Observations /\ Observations \in Nat
      /\ FirstOf(i) \in Nat /\ EndOf(i) \in Nat
      /\ Called => CallObs \in Nat
  BY <1>3, CubeFacts, BoundTypes, CallsFacts DEF Obs
<1>6. \/ FirstOf(i) > EndOf(i)
      \/ FirstOf(i) >= Observations
      \/ Called /\ CallObs < FirstOf(i)
  BY OracleCalls DEF OracleBreaks, FirstOf, EndOf
<1>7. FirstOf(i) <= EndOf(i)
  BY <1>2 DEF Plainly, FirstOf, EndOf
<1>8. QED
  BY <1>3, <1>4, <1>5, <1>6, <1>7

\* Otherwise it pays the coupon of the note, and carries what the note does.
LEMMA OraclePays ==
  ASSUME TypeInv, Plainly, ~MemoryUnderBarrier,
         NEW i \in 1 .. Len(sheet.periods), ~OracleBreaks(sheet.periods[i]),
         NEW memory, memory = Note!Carried(sheet, fixings, i)
  PROVE  /\ Counted(i) # {}
         /\ OracleCoupon(i, memory) =
              [paid |-> Coupon(i),
               memory |-> Note!Carried(sheet, fixings, i + 1),
               open |-> ~(Called /\ CallObs <= EndOf(i))]
<1> DEFINE p == sheet.periods[i]
           final == Called /\ CallObs <= EndOf(i)
<1>1. /\ FirstOf(i) \in Nat /\ EndOf(i) \in Nat
      /\ Called => CallObs \in Nat
      /\ p \in Periods
  BY BoundTypes, CallsFacts, SheetFacts DEF TypeInv
<1>2. FirstOf(i) <= EndOf(i) /\ (Called => FirstOf(i) <= CallObs)
  BY <1>1, OracleCalls DEF OracleBreaks, FirstOf, EndOf
<1>3. /\ Counted(i) = FirstOf(i) .. LastOf(i)
      /\ Counted(i) # {}
      /\ Note!Max(Counted(i)) = LastOf(i)
      /\ final <=> Called /\ CallObs \in Note!Window(p)
  BY <1>2, CountedIs
<1> HIDE DEF p, final
<1>4. OracleLast(p) = LastOf(i)
  BY OracleCalls DEF OracleLast, LastOf, EndOf, p
<1> DEFINE q == Cardinality(
                  {k \in FirstAfter(p.start) .. OracleLast(p) :
                     InRange(Worst(k), p, sheet.lowerInclusive,
                             sheet.upperInclusive)})
           ok == p.barrier = 0 \/ Worst(OracleLast(p)) >= p.barrier
<1>5. Note!Qualifying(sheet, fixings, p) = q
  <2>1. Note!Counted(sheet, fixings, p) = FirstAfter(p.start) .. OracleLast(p)
    BY <1>3, <1>4 DEF Counted, FirstOf, p
  <2>2. {k \in FirstAfter(p.start) .. OracleLast(p) :
           Note!InRange(Note!Worst(fixings, k), p,
                        sheet.lowerInclusive, sheet.upperInclusive)}
        = {k \in FirstAfter(p.start) .. OracleLast(p) :
             InRange(Worst(k), p, sheet.lowerInclusive, sheet.upperInclusive)}
    BY FinalIsFinal, SamePeriods
  <2>3. QED
    BY <2>1, <2>2, SameLibrary DEF Note!Qualifying
<1>6. Note!BarrierOk(sheet, fixings, p) <=> ok
  BY <1>3, <1>4, FinalIsFinal DEF Note!BarrierOk, Counted, p
<1> DEFINE rate == IF ok THEN PeriodRate(p, q, memory) ELSE p.fixed
           extra == IF ~final THEN 0
                    ELSE IF CallKind = "local" THEN p.localCoupon
                                               ELSE p.globalCoupon
           date == IF final THEN Dates[CallObs] ELSE p.payment
<1>7. Coupon(i) = Cash(<<"COUPON", i, date>>, sheet.notional * (rate + extra))
  <2>1. (IF Note!BarrierOk(sheet, fixings, p)
           THEN Note!PeriodRate(p, Note!Qualifying(sheet, fixings, p),
                                Note!Carried(sheet, fixings, i))
           ELSE p.fixed) = rate
    BY <1>5, <1>6, SamePeriods
  <2> HIDE DEF rate, q, ok
  <2>2. QED
    BY <1>3, <2>1, SameValues
    DEF Coupon, Note!Coupon, Called, CallObs, CallKind, p
<1>8. Note!Carried(sheet, fixings, i + 1) =
        IF sheet.couponMemory /\ ok THEN NextMemory(p, q) ELSE 0
  <2>1. Note!Carried(sheet, fixings, i + 1) =
          IF sheet.couponMemory THEN Note!Left(sheet, fixings, p) ELSE 0
    BY <1>3, CarriedAfter DEF p
  <2>2. sheet.couponMemory => ok
    <3>1. i \in DOMAIN sheet.periods
      BY SheetTypes DEF TypeInv
    <3>2. sheet.couponMemory => ~ (p.barrier > 0)
      BY <3>1 DEF MemoryUnderBarrier, p
    <3>3. p.barrier \in Nat
      BY <1>1 DEF Periods
    <3>4. QED
      BY <3>2, <3>3
  <2>3. Note!Left(sheet, fixings, p) =
          IF ok THEN NextMemory(p, q) ELSE Total(p)
    BY <1>5, <1>6, SamePeriods DEF Note!Left
  <2> HIDE DEF q, ok
  <2>4. QED
    BY <2>1, <2>2, <2>3
<1>9. final <=> OracleCalled /\ OracleKoIndex <= OnOrBefore(p.end)
  BY OracleCalls DEF final, EndOf, p
<1>10. final => Called /\ OracleKoIndex = CallObs /\ OracleSelected = CallKind
  BY OracleCalls, OracleSelects DEF final
<1>11. OracleCoupon(i, memory) =
         [paid   |-> Cash(<<"COUPON", i, date>>, sheet.notional * (rate + extra)),
          memory |-> IF sheet.couponMemory /\ ok THEN NextMemory(p, q) ELSE 0,
          open   |-> ~final]
  BY <1>9, <1>10 DEF OracleCoupon, p
<1>12. QED
  BY <1>3, <1>7, <1>8, <1>11 DEF final

(***************************************************************************)
(* All periods.                                                            *)
(***************************************************************************)
\* After i periods the oracle has paid what the note owes for them.  Once it
\* has broken off nothing is left to pay.
WalkPays(h, i) ==
  /\ h[i] = [paid |-> h[i].paid, memory |-> h[i].memory, open |-> h[i].open]
  /\ IsABag(h[i].paid) /\ DOMAIN h[i].paid \subseteq Flows
  /\ \A flow \in Flows : Held(flow, h[i].paid) = OwedSoFar(flow, i)
  /\ h[i].open => h[i].memory = Note!Carried(sheet, fixings, i + 1)
  /\ ~h[i].open => \A j \in i + 1 .. Len(sheet.periods) : Counted(j) = {}

LEMMA OracleStep ==
  ASSUME TypeInv, CouponInv, pc = "settle", Plainly, ~MemoryUnderBarrier,
         Refusal(sheet) = "verified",
         NEW h, OracleWalk(h, Len(sheet.periods)),
         NEW i \in 1 .. Len(sheet.periods), WalkPays(h, i - 1)
  PROVE  WalkPays(h, i)
<1> DEFINE b == h[i - 1]
<1>1. /\ i \in Nat /\ i # 0 /\ i - 1 \in Nat /\ (i - 1) + 1 = i
      /\ Len(sheet.periods) \in Nat /\ i <= Len(sheet.periods)
      /\ \A j : j \in i .. Len(sheet.periods) =>
                  j \in 1 .. Len(sheet.periods)
      /\ \A j : j \in i + 1 .. Len(sheet.periods) => j \in i .. Len(sheet.periods)
      /\ i \in i .. Len(sheet.periods)
  BY SheetFacts DEF TypeInv
<1>2. h[i] = OracleAfter(i, b)
  BY <1>1 DEF OracleWalk
<1>3. /\ b = [paid |-> b.paid, memory |-> b.memory, open |-> b.open]
      /\ IsABag(b.paid) /\ DOMAIN b.paid \subseteq Flows
      /\ \A flow \in Flows : Held(flow, b.paid) = OwedSoFar(flow, i - 1)
      /\ b.open => b.memory = Note!Carried(sheet, fixings, i)
      /\ ~b.open => \A j \in i .. Len(sheet.periods) : Counted(j) = {}
  BY <1>1 DEF WalkPays
<1> HIDE DEF b
<1>4. CASE ~b.open \/ OracleBreaks(sheet.periods[i])
  <2>1. h[i] = [paid |-> b.paid, memory |-> b.memory, open |-> FALSE]
    BY <1>2, <1>3, <1>4 DEF OracleAfter
  <2>2. \A j \in i .. Len(sheet.periods) : Counted(j) = {}
    BY <1>3, <1>4, OracleBreakCountsNone
  <2>3. \A flow \in Flows : OwedSoFar(flow, i) = OwedSoFar(flow, i - 1)
    BY <1>1, <2>2, OwedRest
  <2>4. QED
    BY <1>1, <1>3, <2>1, <2>2, <2>3 DEF WalkPays
<1>5. CASE b.open /\ ~OracleBreaks(sheet.periods[i])
  <2>1. b.memory = Note!Carried(sheet, fixings, i)
    BY <1>3, <1>5
  <2>2. /\ Counted(i) # {}
        /\ OracleCoupon(i, b.memory) =
             [paid |-> Coupon(i),
              memory |-> Note!Carried(sheet, fixings, i + 1),
              open |-> ~(Called /\ CallObs <= EndOf(i))]
    BY <1>5, <2>1, OraclePays
  <2>3. h[i] = [paid |-> b.paid (+) Coupon(i),
                memory |-> Note!Carried(sheet, fixings, i + 1),
                open |-> ~(Called /\ CallObs <= EndOf(i))]
    BY <1>2, <1>5, <2>2 DEF OracleAfter
  <2>4. IsABag(Coupon(i)) /\ DOMAIN Coupon(i) \subseteq Flows
    BY <2>2 DEF CouponInv, Through
  <2>5. /\ IsABag(h[i].paid) /\ DOMAIN h[i].paid \subseteq Flows
        /\ \A flow \in Flows :
             Held(flow, h[i].paid) = Held(flow, b.paid) + Held(flow, Coupon(i))
    <3>1. h[i].paid = b.paid (+) Coupon(i)
      BY <2>3
    <3>2. /\ IsABag(b.paid (+) Coupon(i))
          /\ DOMAIN (b.paid (+) Coupon(i)) \subseteq Flows
      BY <1>3, <2>4, SumIsBag
    <3>3. \A flow : Held(flow, b.paid (+) Coupon(i))
                      = Held(flow, b.paid) + Held(flow, Coupon(i))
      BY <1>3, <2>4, HeldSum
    <3>4. QED
      BY <3>1, <3>2, <3>3
  <2>6. \A flow \in Flows : Held(flow, h[i].paid) = OwedSoFar(flow, i)
    <3>1. SUFFICES ASSUME NEW flow \in Flows
                   PROVE  Held(flow, h[i].paid) = OwedSoFar(flow, i)
      OBVIOUS
    <3>2. Held(flow, h[i].paid) = OwedSoFar(flow, i - 1) + Held(flow, Coupon(i))
      BY <1>3, <2>5
    <3>3. OwedSoFar(flow, i) =
            IF flow[1] = "COUPON" /\ flow[2] = i THEN Held(flow, Coupon(i))
            ELSE OwedSoFar(flow, i - 1)
      BY <1>1, <2>2, OwedNext
    <3>4. CASE flow[1] = "COUPON" /\ flow[2] = i
      <4>1. OwedSoFar(flow, i - 1) = 0
        BY <1>1, <3>4 DEF OwedSoFar
      <4>2. Held(flow, Coupon(i)) \in Nat
        BY <2>4, HeldSum
      <4>3. QED
        BY <3>2, <3>3, <3>4, <4>1, <4>2
    <3>5. CASE ~ (flow[1] = "COUPON" /\ flow[2] = i)
      <4>1. Held(flow, Coupon(i)) = 0
        BY <3>5, LegFlows DEF Held
      <4>2. Held(flow, b.paid) \in Nat
        BY <1>3, HeldSum
      <4>3. QED
        BY <1>3, <3>2, <3>3, <3>5, <4>1, <4>2
    <3>6. QED
      BY <3>4, <3>5
  <2>7. ASSUME ~h[i].open, NEW j \in i + 1 .. Len(sheet.periods)
        PROVE  Counted(j) = {}
    <3>1. SUFFICES ASSUME NEW k \in Counted(j) PROVE FALSE
      OBVIOUS
    <3>2. Called /\ CallObs <= EndOf(i) /\ j \in 1 .. Len(sheet.periods) /\ i < j
      <4>1. h[i].open = ~(Called /\ CallObs <= EndOf(i))
        BY <2>3
      <4>2. Called /\ CallObs <= EndOf(i)
        BY <2>7, <4>1, Zenon
      <4>3. j \in 1 .. Len(sheet.periods) /\ i < j
        BY <1>1
      <4>4. QED
        BY <4>2, <4>3
    <3>3. k \in Obs /\ k \in Note!Window(sheet.periods[j]) /\ k <= CallObs
      BY <3>2, CountedBounds
    <3>4. EndOf(i) < k
      BY <3>2, <3>3, BoundsInOrder DEF EndOf, TypeInv
    <3>5. k \in Nat /\ CallObs \in Nat /\ EndOf(i) \in Nat
      BY <3>2, <3>3, CubeFacts, CallsFacts, BoundTypes
    <3>6. QED
      BY <3>2, <3>3, <3>4, <3>5
  <2>8. QED
    BY <2>3, <2>5, <2>6, <2>7 DEF WalkPays
<1>6. QED
  BY <1>4, <1>5

LEMMA OracleCouponsOwed ==
  ASSUME TypeInv, CouponInv, pc = "settle", Plainly, ~MemoryUnderBarrier,
         Refusal(sheet) = "verified"
  PROVE  /\ IsABag(OracleCoupons) /\ DOMAIN OracleCoupons \subseteq Flows
         /\ \A flow \in Flows :
              Held(flow, OracleCoupons) = OwedSoFar(flow, Len(sheet.periods))
<1> DEFINE N == Len(sheet.periods)
<1>1. N \in Nat
  BY SheetFacts DEF TypeInv
<1>2. PICK h : OracleWalk(h, N) /\ OracleCoupons = h[N].paid
  BY <1>1, OracleCouponsAre
<1> DEFINE Good == {i \in Nat : i <= N => WalkPays(h, i)}
<1>3. 0 \in Good
  <2>1. h[0] = OracleStart
    BY <1>1, <1>2 DEF OracleWalk
  <2>2. \A flow : OwedSoFar(flow, 0) = 0 /\ Held(flow, EmptyBag) = 0
    BY EmptyIsBag DEF OwedSoFar, Held
  <2>3. WalkPays(h, 0)
    BY <2>1, <2>2, EmptyIsBag, CarriedFirst DEF WalkPays, OracleStart
  <2>4. QED
    BY <2>3
<1>4. ASSUME NEW i \in Nat, i \in Good PROVE i + 1 \in Good
  <2>1. SUFFICES ASSUME i + 1 <= N PROVE WalkPays(h, i + 1)
    OBVIOUS
  <2>2. i + 1 \in 1 .. N /\ (i + 1) - 1 = i /\ WalkPays(h, i)
    BY <1>1, <1>4, <2>1
  <2> HIDE DEF Good
  <2>3. QED
    BY <1>2, <2>2, OracleStep
<1> HIDE DEF Good
<1>5. N \in Good
  BY <1>1, <1>3, <1>4, CountingUp
<1>6. WalkPays(h, N)
  BY <1>1, <1>5 DEF Good
<1>7. QED
  BY <1>2, <1>6 DEF WalkPays

(***************************************************************************)
(* On every cube and path, for a request that is Plainly of both lanes and *)
(* carries no coupon memory under a coupon barrier, the engine (engine.cpp) *)
(* pays what price_fcn_reference (fcn_reference.py) pays: the same amount  *)
(* of the same leg on the same date.  Nothing is said of present values:   *)
(* the lanes discount at different rates unless the curve is flat.         *)
(***************************************************************************)
THEOREM EngineMatchesOracle == Spec => []OracleAgrees
<1>1. RefInv => OracleAgrees
  <2>1. SUFFICES ASSUME RefInv, Plainly, ~MemoryUnderBarrier, pc = "settle"
                 PROVE  EnginePaid = closed.paid (+) OracleCoupons
                                       (+) OracleFunding (+) OraclePut
    BY DEF OracleAgrees, LanesAgree
  <2>2. /\ TypeInv /\ CallInv /\ CouponInv /\ Refusal(sheet) = "verified"
        /\ IsABag(closed.paid) /\ DOMAIN closed.paid \subseteq Flows
    BY <2>1 DEF RefInv, BaseInv, PaidInv, IInv
  <2>3. /\ IsABag(OracleCoupons) /\ DOMAIN OracleCoupons \subseteq Flows
        /\ \A flow \in Flows :
             Held(flow, OracleCoupons) = OwedSoFar(flow, Len(sheet.periods))
    BY <2>1, <2>2, OracleCouponsOwed
  <2>4. IsABag(totals.paid) /\ DOMAIN totals.paid \subseteq Flows
    BY <2>2 DEF TypeInv
  <2>5. /\ IsABag(closed.paid (+) OracleCoupons)
        /\ DOMAIN (closed.paid (+) OracleCoupons) \subseteq Flows
    BY <2>2, <2>3, SumIsBag
  <2>6. \A flow \in Flows :
          Held(flow, totals.paid) = Held(flow, closed.paid (+) OracleCoupons)
    BY <2>1, <2>2, <2>3, HeldSum DEF CouponInv, Through
  <2>7. totals.paid = closed.paid (+) OracleCoupons
    BY <2>4, <2>5, <2>6, SameHoldings
  <2>8. QED
    BY <2>1, <2>2, <2>7, OracleSettles DEF EnginePaid
<1>2. QED
  BY <1>1, RefInductive, PTL
=============================================================================
