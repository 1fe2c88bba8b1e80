------------------------------- MODULE FcnDue -------------------------------
(***************************************************************************)
(* What an FCN/RakiPlus note owes on a path of fixings, stated on the path *)
(* as a whole: when it is called, which fixings each coupon period counts, *)
(* what it carries over, what is returned when.  s is a request, f a path. *)
(***************************************************************************)
EXTENDS FcnPayoff

Worst(f, k) == WorstOf(f[k])
Final(s) == OnOrBefore(s.finalFixing)

\* Observation k calls the note on one side: today's worst performance is
\* through the barrier or, with memory, every underlying has been by now.
Touches(s, f, side, k) ==
  /\ side.enabled
  /\ IF MemoryKo(s)
       THEN \A u \in Underlyings :
              \E j \in 0 .. k : Compare(f[j][u], side.barrier, side.operator)
       ELSE Compare(Worst(f, k), side.barrier, side.operator)

Calls(s, f) == {k \in 0 .. Final(s) : \/ Touches(s, f, s.local, k)
                                      \/ Touches(s, f, s.global, k)}
Called(s, f) == Calls(s, f) # {}
CallObs(s, f) == Min(Calls(s, f))
CallKind(s, f) ==
  LET k == CallObs(s, f)
  IN IF Touches(s, f, s.local, k) /\ Touches(s, f, s.global, k)
       THEN s.precedence
       ELSE IF Touches(s, f, s.local, k) THEN "local" ELSE "global"

\* The fixings a period counts: after its start, up to its end and the call.
Window(p) == {k \in Obs : p.start < Dates[k] /\ Dates[k] <= p.end}
Counted(s, f, p) ==
  IF Called(s, f) THEN Window(p) \cap 0 .. CallObs(s, f) ELSE Window(p)
Qualifying(s, f, p) ==
  Cardinality({k \in Counted(s, f, p) :
                 InRange(Worst(f, k), p, s.lowerInclusive, s.upperInclusive)})
BarrierOk(s, f, p) ==
  p.barrier = 0 \/ Worst(f, Max(Counted(s, f, p))) >= p.barrier

\* The fixings a period leaves unpaid, and those carried into period i.
Left(s, f, p) ==
  IF BarrierOk(s, f, p) THEN NextMemory(p, Qualifying(s, f, p)) ELSE Total(p)
Carried(s, f, i) ==
  LET earlier == {j \in 1 .. i - 1 : Counted(s, f, s.periods[j]) # {}}
  IN IF s.couponMemory /\ earlier # {}
       THEN Left(s, f, s.periods[Max(earlier)]) ELSE 0

Coupon(s, f, i) ==
  LET p     == s.periods[i]
      calls == Called(s, f) /\ CallObs(s, f) \in Window(p)
      rate  == IF BarrierOk(s, f, p)
                 THEN PeriodRate(p, Qualifying(s, f, p), Carried(s, f, i))
                 ELSE p.fixed
      extra == IF ~calls THEN 0
               ELSE IF CallKind(s, f) = "local" THEN p.localCoupon
                                                ELSE p.globalCoupon
  IN Cash(<<"COUPON", i, IF calls THEN Dates[CallObs(s, f)] ELSE p.payment>>,
          s.notional * (rate + extra))

Principal(s, f) ==
  Cash(IF Called(s, f)
         THEN <<"FUNDING", CallObs(s, f), Dates[CallObs(s, f)]>>
         ELSE <<"FUNDING", Final(s), s.maturity>>,
       FundingAmount(s))

KnockedIn(s, f) ==
  /\ Called(s, f) => CallObs(s, f) = Final(s)
  /\ KnockIn(s, Worst(f, Final(s)))

Put(s, f) ==
  IF Called(s, f) THEN EmptyBag
  ELSE Cash(<<"PUT", 0, s.maturity>>,
            s.notional * TerminalPayoff(s, KnockedIn(s, f), Worst(f, Final(s))))

\* Everything one path pays.  No two of its payments are of one flow.
Together(legs) ==
  [flow \in UNION {DOMAIN leg : leg \in legs} |->
     (CHOOSE leg \in legs : flow \in DOMAIN leg)[flow]]
Due(s, f) ==
  Together({Principal(s, f), Put(s, f)} \cup
           {Coupon(s, f, i) : i \in {j \in DOMAIN s.periods :
                                       Counted(s, f, s.periods[j]) # {}}})

\* The fixings the note looks at are all there.
Complete(s, f) ==
  LET last == IF Called(s, f) THEN CallObs(s, f) ELSE Final(s)
      seen == 0 .. last \cup
                UNION {Counted(s, f, s.periods[i]) : i \in DOMAIN s.periods}
  IN \A k \in seen, u \in Underlyings : ValidFixing(f[k][u])

\* The request has everything a price needs.
Priceable(s) ==
  /\ s.evaluation > 0
  /\ s.references = Cardinality(Underlyings)
  /\ s.worstOf /\ ~s.continuous
  /\ s.memoryKo => s.memoryMode
  /\ \E pillar \in s.pillars : pillar.dated /\ pillar.rated
  /\ s.strike > 0 /\ s.kiBarrier > 0
  /\ \A i \in DOMAIN s.periods : s.periods[i].start <= s.periods[i].end
=============================================================================
