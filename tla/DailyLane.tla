----------------------------- MODULE DailyLane -----------------------------
(***************************************************************************)
(* The daily lane: a path cube with one row per trading day, priced twice  *)
(* - by daily_termsheet.py on the days up to the job's expiry, and by the  *)
(* native price_daily_job on the days up to the last expiry of the sheet.  *)
(* The two were written separately and must give one price.                *)
(***************************************************************************)
EXTENDS FixtureLane

\* How many of the sorted dates are on or before x (searchsorted, right).
UpTo(dates, x) == Cardinality({k \in DOMAIN dates : dates[k] <= x})

\* The sell-side volatility: the surface at the exercise and at the knock-in
\* moneyness, whichever is higher.
ConservativeVols(job) ==
  [u \in DOMAIN job.equity |->
     Max({SurfaceVol(job.surfaces[u], (ratio * References(job)[u]) \div Unit,
                     job.expiry) : ratio \in {job.strike, job.kiBarrier}})]

LastExpiry(jobs) == Max({jobs[j].expiry : j \in DOMAIN jobs})

\* build_daily_path_cube: the market and volatilities of the first job, on
\* the trading days to the last expiry of the sheet.  A vol shift keeps the
\* draw; it is not for a local volatility.
BuildDailyPathCube(jobs, draw, locvol, shift) ==
  LET job == jobs[1]
      vols == ConservativeVols(job)
  IN Simulate([quoted |-> Quotes(job), surfaces |-> job.surfaces,
               vols |-> [u \in DOMAIN vols |-> vols[u] + shift[u]],
               evaluation |-> job.evaluation, locvol |-> locvol], draw)

WorstOn(job, cube, p, t) == Worst(At(cube, p, t), References(job))
AllAbove(job, cube, p, t) ==
  \A u \in DOMAIN cube[p] :
    Performance(cube[p][u][t], References(job)[u]) >= job.callBarrier
\* The first of the first n days on which every name is at or above the call
\* barrier, or never.  Days are counted from 0.
KoStep(job, cube, p, n, never) ==
  LET hits == {t \in 0 .. n - 1 : AllAbove(job, cube, p, t)}
  IN IF hits = {} THEN never ELSE Min(hits)

\* One coupon period of one path, on the days first .. last: the fixings in
\* range beyond the paid ones, and the missed ones carried over from before.
\* A called period pays nothing and carries nothing.
DailyPeriod(job, period, cube, p, first, last, ko, memory) ==
  LET observed == Cardinality({t \in first .. last :
                    /\ WorstOn(job, cube, p, t) >= period.low
                    /\ WorstOn(job, cube, p, t) <= period.up})
      future == Max({observed - period.paid, 0})
      total == Max({period.total, 1})
      alive == ko > last
  IN [cash |-> IF alive THEN (job.notional * period.rate
                                * Min({future + memory, total})
                                * Discount(job.evaluation, period.payment))
                               \div total ELSE 0,
      memory |-> IF alive THEN Max({total - future, 0}) ELSE 0]

\* The coupon loop over one path: its periods in order, each from the day
\* after the previous end.  Skips says which periods are passed over.
DailyCoupon(job, dates, cube, p, ko, Skips(_, _, _)) ==
  LET state[i \in 0 .. Len(job.periods)] ==
        IF i = 0 THEN [cash |-> 0, memory |-> 0, previous |-> job.evaluation]
        ELSE LET period == job.periods[i]
                 before == state[i - 1]
                 first == UpTo(dates, before.previous)
                 last == UpTo(dates, period.end) - 1
                 paid == DailyPeriod(job, period, cube, p, first, last, ko,
                                     before.memory)
             IN IF Skips(period, first, last)
                  THEN [before EXCEPT !.previous = period.end]
                  ELSE [cash |-> before.cash + paid.cash,
                        memory |-> paid.memory, previous |-> period.end]
  IN state[Len(job.periods)].cash

Quoted(job, cash) == (cash * job.quoteScale) \div Max({job.notional, 1})
DailyLegs(job, cube, last, Ko(_), Coupon(_)) ==
  LET df == Discount(job.evaluation, job.expiry)
      put == SumOver(LAMBDA p : Intrinsic(WorstOn(job, cube, p, last),
                                          job.strike),
                     {p \in DOMAIN cube :
                        /\ WorstOn(job, cube, p, last) <= job.kiBarrier
                        /\ Ko(p) > last})
  IN [PUT |-> 0 - df * put, FUNDING |-> df * Unit * Cardinality(DOMAIN cube),
      COUPON |-> Quoted(job, SumOver(Coupon, DOMAIN cube))]

\* price_daily_termsheet: the cube must have exactly the trading days up to
\* the job's own expiry.
PriceDailyTermsheet(job, dates, cube) ==
  LET n == Len(dates)
      Ko(p) == KoStep(job, cube, p, n, n)
      Skips(period, first, last) == last < first \/ period.rate = 0
  IN DailyLegs(job, cube, n - 1, Ko,
               LAMBDA p : DailyCoupon(job, dates, cube, p, Ko(p), Skips))

\* Mutant: every day of the sheet counts.
ExpiryDaysAll(job, dates) == Len(dates)
\* The days up to the job's expiry.
ExpiryDays(job, dates) == Clip(UpTo(dates, job.expiry), 1, Len(dates))

\* price_daily_job: the whole cube, with the days after the job's expiry cut
\* off for the call and for the put, but not for the coupon.
PriceDailyJob(job, dates, cube) ==
  LET O == Len(dates)
      EO == ExpiryDays(job, dates)
      Ko(p) == KoStep(job, cube, p, EO, O)
      Skips(period, first, last) ==
        \/ period.end < dates[1]
        \/ Max({last, 0}) < first
        \/ period.rate = 0
  IN DailyLegs(job, cube, EO - 1, Ko,
               LAMBDA p : DailyCoupon(job, dates, cube, p, Ko(p), Skips))

\* The canonical price of a sheet: the first job without its coupon, and the
\* coupon of the third when there is one.
Canonical(legs) ==
  LET coupon == IF Len(legs) > 2 THEN legs[3].COUPON ELSE legs[1].COUPON
  IN legs[1].PUT + legs[1].FUNDING + coupon
RunDailyTermsheet(jobs, dates, cube) ==
  Canonical([j \in DOMAIN jobs |-> PriceDailyJob(jobs[j], dates, cube)])

\* capture_native_quote: the sheet on its cube, and on the cubes of the same
\* draw with one volatility shifted up and down.
VolShift == 1
CaptureNativeQuote(jobs, dates, draw) ==
  LET none == [u \in DOMAIN jobs[1].equity |-> 0]
      PvWith(shift) ==
        RunDailyTermsheet(jobs, dates,
                          BuildDailyPathCube(jobs, draw, FALSE, shift))
  IN [pv |-> PvWith(none),
      vega |-> [u \in DOMAIN none |-> PvWith([none EXCEPT ![u] = VolShift])
                                   - PvWith([none EXCEPT ![u] = -VolShift])]]
=============================================================================
