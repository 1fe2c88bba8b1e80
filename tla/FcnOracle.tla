----------------------------- MODULE FcnOracle -----------------------------
(***************************************************************************)
(* price_fcn_reference (fcn_reference.py): the readable scalar oracle that *)
(* the tests compare the native lane with, path by path, and where the two *)
(* agree.  It quotes every leg per unit of notional, of at least one; here *)
(* each quote is multiplied by that unit again, and like the engine's cash *)
(* flows it keeps its date instead of a discount factor.  The factors are  *)
(* not the same: the oracle's have the rate of the first pillar for every  *)
(* date, the engine's the rate of the curve at each.                       *)
(***************************************************************************)
EXTENDS FcnEngine

\* barrier.get("memory_ko", False): the default of fcn_terms is not looked at.
OracleMemoryKo == sheet.barrierMemoryKo = "on"

OracleHit(side, k) ==
  /\ side.enabled
  /\ IF OracleMemoryKo
       THEN \A u \in Underlyings : \E j \in 0 .. k :
              Compare(fixings[j][u], side.barrier, side.operator)
       ELSE Compare(Worst(k), side.barrier, side.operator)

\* The scan over observations: ko_index and selected.
OracleHits == {k \in 0 .. FinalIndex : \/ OracleHit(sheet.local, k)
                                       \/ OracleHit(sheet.global, k)}
OracleCalled == OracleHits # {}
OracleKoIndex == Min(OracleHits)
OracleSelected ==
  IF ~OracleCalled THEN "none"
  ELSE ResolveKo(OracleHit(sheet.local, OracleKoIndex),
                 OracleHit(sheet.global, OracleKoIndex), sheet.precedence)
OracleKi ==
  /\ OracleCalled => OracleKoIndex = FinalIndex
  /\ KnockIn(sheet, Worst(FinalIndex))

\* Mutant: the period of the call counts the fixings after the call.
OracleLastWholePeriod(p) == OnOrBefore(p.end)

OracleLast(p) ==
  IF OracleCalled THEN Smaller(OnOrBefore(p.end), OracleKoIndex)
                  ELSE OnOrBefore(p.end)

\* One period, given the memory carried into it.
OracleCoupon(i, memory) ==
  LET p          == sheet.periods[i]
      qualifying == Cardinality(
        {k \in FirstAfter(p.start) .. OracleLast(p) :
           InRange(Worst(k), p, sheet.lowerInclusive, sheet.upperInclusive)})
      barrierOk  == p.barrier = 0 \/ Worst(OracleLast(p)) >= p.barrier
      final      == OracleCalled /\ OracleKoIndex <= OnOrBefore(p.end)
      rate       == IF barrierOk THEN PeriodRate(p, qualifying, memory)
                                 ELSE p.fixed
      extra      == IF ~final THEN 0
                    ELSE IF OracleSelected = "local" THEN p.localCoupon
                                                     ELSE p.globalCoupon
  IN [paid   |-> Cash(<<"COUPON", i, IF final THEN Dates[OracleKoIndex]
                                              ELSE p.payment>>,
                      sheet.notional * (rate + extra)),
      memory |-> IF sheet.couponMemory /\ barrierOk
                   THEN NextMemory(p, qualifying) ELSE 0,
      open   |-> ~final]

\* A period without an observation, or after the call, ends the schedule.
OracleBreaks(p) ==
  \/ FirstAfter(p.start) > OnOrBefore(p.end)
  \/ FirstAfter(p.start) >= Observations
  \/ OracleCalled /\ OracleKoIndex < FirstAfter(p.start)

OracleCoupons ==
  LET walk[i \in 0 .. Len(sheet.periods)] ==
        IF i = 0 THEN [paid |-> EmptyBag, memory |-> 0, open |-> TRUE]
        ELSE LET before == walk[i - 1]
             IN IF ~before.open \/ OracleBreaks(sheet.periods[i])
                  THEN [before EXCEPT !.open = FALSE]
                  ELSE LET now == OracleCoupon(i, before.memory)
                       IN [now EXCEPT !.paid = before.paid (+) @]
  IN walk[Len(sheet.periods)].paid

\* The principal is returned whatever notional_return says.
OracleFunding ==
  Cash(IF OracleCalled
         THEN <<"FUNDING", OracleKoIndex, Dates[OracleKoIndex]>>
         ELSE <<"FUNDING", FinalIndex, sheet.maturity>>,
       sheet.notional * sheet.returnRatio)

\* No notional is in the put: it is a quote as it stands.
OraclePut ==
  IF OracleCalled THEN EmptyBag
  ELSE Cash(<<"PUT", 0, sheet.maturity>>,
            Larger(sheet.notional, 1)
              * TerminalPayoff(sheet, OracleKi, Worst(FinalIndex)))
-----------------------------------------------------------------------------
\* What the engine pays on the path it is about to complete.
EnginePaid == totals.paid (+) Funding (+) ResidualPut

LanesAgree ==
  pc = "settle" => EnginePaid
    = closed.paid (+) OracleCoupons (+) OracleFunding (+) OraclePut

\* Requests on which nothing else tells the lanes apart: the notional is at
\* least one, memory KO is set on the barriers, principal is returned, every
\* period has an observation.
Plainly ==
  /\ sheet.notional > 0
  /\ sheet.barrierMemoryKo = "absent" => ~sheet.memoryKo
  /\ sheet.fundingEnabled
  /\ \A i \in DOMAIN sheet.periods :
       FirstAfter(sheet.periods[i].start) <= OnOrBefore(sheet.periods[i].end)

MemoryUnderBarrier ==
  /\ sheet.couponMemory
  /\ \E i \in DOMAIN sheet.periods : sheet.periods[i].barrier > 0

\* Where no unpaid coupon is carried past a coupon barrier, the engine, which
\* steps through the observations with state that all paths share, pays what
\* the oracle, which slices each path, pays: the same amounts on the same
\* dates, before either lane discounts them.
OracleAgrees == Plainly /\ ~MemoryUnderBarrier => LanesAgree

\* fcn_reference.py: "It preserves explicit lifecycle ordering for comparison
\* with the native C++ lane."  The lanes agree under coupon barriers too.
OracleAgreesUnderBarrier == Plainly => LanesAgree
=============================================================================
