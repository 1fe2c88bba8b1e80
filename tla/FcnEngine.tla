------------------------------ MODULE FcnEngine ------------------------------
(***************************************************************************)
(* The native FCN/RakiPlus engine, cpp/src/fina_risk/engine.cpp: the       *)
(* refusals of compile_canonical_terms, then price, which walks every path *)
(* observation by observation and coupon period by coupon period with one  *)
(* PathState that all paths share and every path resets.                   *)
(***************************************************************************)
EXTENDS FcnPayoff

CONSTANTS
  Sheets,     \* canonical requests considered
  Paths,      \* paths of fixings considered
  PathCount,  \* paths in the cube
  NoPath

VARIABLES
  sheet,     \* the request, and the terms compiled from it
  verdict,   \* evidence status of the result
  pc,        \* where price is
  fixings,   \* the path being priced
  obs,       \* loop variable over observations
  period,    \* loop variable over coupon periods
  state,     \* PathState, and terminal_performance
  totals,    \* the sums and counts of price
  closed     \* history: totals when the last path was completed

vars == <<sheet, verdict, pc, fixings, obs, period, state, totals, closed>>

\* The engine relies on ordered, disjoint periods that end within the cube
\* (observation_on_or_before answers 0 for a date before the cube) and on a
\* final fixing in it; nothing checks this.
ASSUME SheetAssumption ==
  /\ PathCount \in Nat \ {0}
  /\ NoPath \notin Paths
  /\ Paths \subseteq [Obs -> [Underlyings -> Nat]]
  /\ \A s \in Sheets :
       /\ s.finalFixing >= Dates[0]
       /\ \A i \in DOMAIN s.periods :
            /\ s.periods[i].end >= Dates[0]
            /\ s.periods[i].rate % Total(s.periods[i]) = 0
            /\ i > 1 => s.periods[i - 1].end <= s.periods[i].start

\* The numbers of a request are naturals, its operators those of types.hpp.
ASSUME SheetTypes ==
  \A s \in Sheets :
    /\ {s.evaluation, s.finalFixing, s.maturity, s.notional, s.returnRatio,
         s.strike, s.kiBarrier} \subseteq Nat
    /\ s.kiOperator \in Comparisons
    /\ s.precedence \in KnockOutKinds \ {"none"}
    /\ s.periods \in Seq(Periods)

Zero == [paid |-> EmptyBag, ki |-> 0, ko |-> 0, local |-> 0, global |-> 0,
         paths |-> 0]

Fresh == [ko |-> "none", koObs |-> 0, ki |-> FALSE, locked |-> [local |-> {},
          global |-> {}], unpaid |-> 0, terminal |-> Unit]

FinalIndex == OnOrBefore(sheet.finalFixing)
Terminated == state.ko # "none"
-----------------------------------------------------------------------------
Init ==
  /\ sheet \in Sheets
  /\ verdict = "pending"
  /\ pc = "compile"
  /\ fixings = NoPath
  /\ obs = 0
  /\ period = 1
  /\ state = Fresh
  /\ totals = Zero
  /\ closed = Zero

\* error_result: a new result without legs, cash flows or probabilities.
Fail(status) ==
  /\ verdict' = status
  /\ pc' = "done"
  /\ totals' = Zero
  /\ closed' = Zero
  /\ UNCHANGED <<sheet, fixings, obs, period, state>>

Compile ==
  /\ pc = "compile"
  /\ IF Refusal(sheet) = "verified"
       THEN /\ verdict' = "verified"
            /\ pc' = "start"
            /\ UNCHANGED <<sheet, fixings, obs, period, state, totals, closed>>
       ELSE Fail(Refusal(sheet))

\* Mutant: the memory locks are not cleared between paths.
StartPathLocked ==
  /\ pc = "start"
  /\ pc' = "observe"
  /\ fixings' \in Paths
  /\ obs' = 0
  /\ period' = 1
  /\ state' = [Fresh EXCEPT !.locked = state.locked]
  /\ UNCHANGED <<sheet, verdict, totals, closed>>

\* The next path of the cube, and the reset of PathState.
StartPath ==
  /\ pc = "start"
  /\ pc' = "observe"
  /\ fixings' \in Paths
  /\ obs' = 0
  /\ period' = 1
  /\ state' = Fresh
  /\ UNCHANGED <<sheet, verdict, totals, closed>>

ValidAt(k) == \A u \in Underlyings : ValidFixing(fixings[k][u])
Worst(k) == WorstOf(fixings[k])

\* The locks of one side after this observation; only memory KO keeps them.
Locked(locks, side) ==
  IF MemoryKo(sheet) /\ side.enabled
    THEN locks \cup {u \in Underlyings :
                       Compare(fixings[obs][u], side.barrier, side.operator)}
    ELSE locks

Hit(locks, side) ==
  /\ side.enabled
  /\ IF MemoryKo(sheet) THEN Locked(locks, side) = Underlyings
                        ELSE Compare(Worst(obs), side.barrier, side.operator)

KoNow == ResolveKo(Hit(state.locked.local, sheet.local),
                   Hit(state.locked.global, sheet.global), sheet.precedence)

\* PathState after this observation.
Observed ==
  LET final == obs = FinalIndex
  IN [state EXCEPT
        !.ko       = KoNow,
        !.koObs    = IF KoNow = "none" THEN @ ELSE obs,
        !.ki       = IF final THEN KnockIn(sheet, Worst(obs)) ELSE @,
        !.terminal = IF final THEN Worst(obs) ELSE @,
        !.locked   = [local  |-> Locked(@.local, sheet.local),
                      global |-> Locked(@.global, sheet.global)]]

Observe ==
  /\ pc = "observe"
  /\ ValidAt(obs)
  /\ KoNow = "none" /\ obs < FinalIndex
  /\ state' = Observed
  /\ obs' = obs + 1
  /\ UNCHANGED <<sheet, verdict, pc, fixings, period, totals, closed>>

Count(condition) == IF condition THEN 1 ELSE 0

\* The walk ends at a knock-out or at the final fixing.
FinishObserving ==
  /\ pc = "observe"
  /\ ValidAt(obs)
  /\ KoNow # "none" \/ obs = FinalIndex
  /\ state' = Observed
  /\ totals' = [totals EXCEPT
                  !.ki     = @ + Count(Observed.ki),
                  !.ko     = @ + Count(KoNow # "none"),
                  !.local  = @ + Count(KoNow = "local"),
                  !.global = @ + Count(KoNow = "global")]
  /\ pc' = "coupon"
  /\ UNCHANGED <<sheet, verdict, fixings, obs, period, closed>>

ThisPeriod == sheet.periods[period]
Begin == FirstAfter(ThisPeriod.start)
End == OnOrBefore(ThisPeriod.end)
Outside == Begin > End \/ Begin >= Observations
CappedEnd == IF Terminated THEN Smaller(End, state.koObs) ELSE End

\* continue: the cube has no observation in the period.
SkipPeriod ==
  /\ pc = "coupon"
  /\ period <= Len(sheet.periods)
  /\ Outside
  /\ period' = period + 1
  /\ UNCHANGED <<sheet, verdict, pc, fixings, obs, state, totals, closed>>

\* break, or the end of the schedule.
EndCoupons ==
  /\ pc = "coupon"
  /\ period <= Len(sheet.periods) =>
       ~Outside /\ Terminated /\ state.koObs < Begin
  /\ pc' = "settle"
  /\ UNCHANGED <<sheet, verdict, fixings, obs, period, state, totals, closed>>

Accruing ==
  /\ pc = "coupon"
  /\ period <= Len(sheet.periods)
  /\ ~Outside
  /\ Terminated => state.koObs >= Begin

QualifyingFixings ==
  Cardinality({k \in Begin .. CappedEnd :
                 InRange(Worst(k), ThisPeriod, sheet.lowerInclusive,
                         sheet.upperInclusive)})
CouponBarrierOk ==
  ThisPeriod.barrier = 0 \/ Worst(CappedEnd) >= ThisPeriod.barrier
CarriedMemory == IF sheet.couponMemory THEN state.unpaid ELSE 0
IsKoPeriod == Terminated /\ state.koObs <= End

\* Mutant: the coupon of the knock-out period waits for its payment date.
CouponDateScheduled == ThisPeriod.payment

CouponDate == IF IsKoPeriod THEN Dates[state.koObs] ELSE ThisPeriod.payment

CouponRate ==
  (IF CouponBarrierOk
     THEN PeriodRate(ThisPeriod, QualifyingFixings, CarriedMemory)
     ELSE ThisPeriod.fixed)
  + (IF ~IsKoPeriod THEN 0
     ELSE IF state.ko = "local" THEN ThisPeriod.localCoupon
                                ELSE ThisPeriod.globalCoupon)

UnpaidAfter ==
  IF ~sheet.couponMemory THEN 0
  ELSE IF CouponBarrierOk THEN NextMemory(ThisPeriod, QualifyingFixings)
  ELSE Total(ThisPeriod)

PayCoupon ==
  /\ Accruing
  /\ \A k \in Begin .. CappedEnd : ValidAt(k)
  /\ totals' = [totals EXCEPT
                  !.paid = @ (+) Cash(<<"COUPON", period, CouponDate>>,
                                      sheet.notional * CouponRate)]
  /\ state' = [state EXCEPT !.unpaid = UnpaidAfter]
  /\ IF IsKoPeriod THEN pc' = "settle" /\ UNCHANGED period
                   ELSE period' = period + 1 /\ UNCHANGED pc
  /\ UNCHANGED <<sheet, verdict, fixings, obs, closed>>

\* A missing fixing, in either loop, discards what was priced.
InvalidFixing ==
  /\ \/ pc = "observe" /\ ~ValidAt(obs)
     \/ Accruing /\ \E k \in Begin .. CappedEnd : ~ValidAt(k)
  /\ Fail("unresolved")

\* Mutant: principal always settles at maturity.
FundingAtMaturity ==
  Cash(<<"FUNDING", FinalIndex, sheet.maturity>>, FundingAmount(sheet))

Funding ==
  Cash(IF Terminated THEN <<"FUNDING", state.koObs, Dates[state.koObs]>>
                     ELSE <<"FUNDING", FinalIndex, sheet.maturity>>,
       FundingAmount(sheet))

\* Mutant: the put is not cancelled by a knock-out.
ResidualPutOnCalled ==
  Cash(<<"PUT", 0, sheet.maturity>>,
       sheet.notional * TerminalPayoff(sheet, state.ki, state.terminal))

ResidualPut ==
  IF Terminated THEN EmptyBag
  ELSE Cash(<<"PUT", 0, sheet.maturity>>,
            sheet.notional * TerminalPayoff(sheet, state.ki, state.terminal))

\* Funding and the residual put; the path is complete.
Settle ==
  /\ pc = "settle"
  /\ totals' = [totals EXCEPT !.paid = @ (+) Funding (+) ResidualPut,
                              !.paths = @ + 1]
  /\ closed' = totals'
  /\ fixings' = NoPath
  /\ pc' = IF totals'.paths = PathCount THEN "done" ELSE "start"
  /\ UNCHANGED <<sheet, verdict, obs, period, state>>

\* The result is returned.
Done == pc = "done" /\ UNCHANGED vars

Next ==
  \/ Compile \/ StartPath \/ Observe \/ FinishObserving \/ SkipPeriod
  \/ EndCoupons \/ PayCoupon \/ InvalidFixing \/ Settle \/ Done

Spec == Init /\ [][Next]_vars

\* price is a loop nest over a finite cube and returns.
FairSpec == Spec /\ WF_vars(Next)
-----------------------------------------------------------------------------
Flows == {"FUNDING", "COUPON", "PUT"} \X Nat \X Nat

TypeOK ==
  /\ sheet \in Sheets
  /\ verdict \in {"pending", "verified", "unsupported", "ambiguous",
                  "unresolved"}
  /\ pc \in {"compile", "start", "observe", "coupon", "settle", "done"}
  /\ fixings \in Paths \cup {NoPath}
  /\ obs \in Obs
  /\ period \in 1 .. Len(sheet.periods) + 1
  /\ state.ko \in KnockOutKinds
  /\ state.koObs \in Obs
  /\ state.ki \in BOOLEAN
  /\ state.locked \in [local : SUBSET Underlyings, global : SUBSET Underlyings]
  /\ state.unpaid \in Nat
  /\ state.terminal \in Nat
  /\ IsABag(totals.paid) /\ DOMAIN totals.paid \subseteq Flows
  /\ \A n \in {totals.ki, totals.ko, totals.local, totals.global} :
       n \in 0 .. PathCount

\* The cash a bag holds for a flow, and for the flows of a condition.
Held(f, bag) == IF f \in DOMAIN bag THEN bag[f] ELSE 0
Amount(bag, Condition(_)) ==
  SumFunctionOnSet(bag, {f \in DOMAIN bag : Condition(f)})

\* Every path returns its principal once: at its call when it was counted as
\* knocked out, at maturity when it was not (or was called on that very day).
PrincipalOnce ==
  LET returned(f) == f[1] = "FUNDING"
      early(f)    == f[1] = "FUNDING" /\ f[3] # sheet.maturity
  IN /\ Amount(closed.paid, returned) = closed.paths * FundingAmount(sheet)
     /\ (\A k \in Obs : Dates[k] # sheet.maturity) =>
          Amount(closed.paid, early) = closed.ko * FundingAmount(sheet)

\* The put and the counts reported to the caller agree: without a knock-in, or
\* when every path was called, no put was paid, although a path can be knocked
\* in and called on the same day.
PutExplained ==
  closed.ki = 0 \/ closed.ko = closed.paths =>
    \A f \in DOMAIN closed.paid : f[1] # "PUT"

\* The coupons of all paths stay within the fixed and range rates of their
\* periods, whatever is carried over, and one knock-out coupon a called path.
CouponWithinPromise ==
  LET coupon(f)  == f[1] = "COUPON"
      indices    == DOMAIN sheet.periods
      fullRate   == SumFunction([i \in indices |-> sheet.periods[i].fixed
                                                     + sheet.periods[i].rate])
      best(rate(_)) == Max({0} \cup {rate(sheet.periods[i]) : i \in indices})
  IN Amount(closed.paid, coupon) <= sheet.notional *
       (closed.paths * fullRate
          + closed.local * best(LAMBDA p : p.localCoupon)
          + closed.global * best(LAMBDA p : p.globalCoupon))

\* A call ends the note: what a called path pays settles on the day of the
\* call at the latest, but for coupons of periods that ended before it.
NothingAfterCall ==
  [][Terminated =>
       \A f \in DOMAIN totals'.paid :
         Held(f, totals'.paid) > Held(f, totals.paid) =>
           \/ f[3] <= Dates[state.koObs]
           \/ f[1] = "COUPON" /\ sheet.periods[f[2]].end < Dates[state.koObs]
    ]_vars

\* The engine prices every path as the note promises, and paths one by one.
Note == INSTANCE FcnNote WITH totals <- closed
NoteRefined == Note!Spec

\* benchmark/fcn-native-parity.md: "Unpaid coupon memory carries when enabled
\* and releases through a qualifying subsequent period."  A period without a
\* qualifying fixing pays its fixed coupon only.
MemoryNeedsQualifying ==
  [][PayCoupon /\ QualifyingFixings = 0 /\ ~IsKoPeriod =>
       Amount(totals'.paid, LAMBDA f : f[1] = "COUPON")
         <= Amount(totals.paid, LAMBDA f : f[1] = "COUPON")
              + sheet.notional * ThisPeriod.fixed]_vars
=============================================================================
