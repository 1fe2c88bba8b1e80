---------------------------- MODULE FixtureLane ----------------------------
(***************************************************************************)
(* The fixture lane (pricing.py): a two-name market from a legacy job, the *)
(* callable coupon on a grid of steps, the three legs, and the bumps that  *)
(* re-price them on the same draws.  A draw is what one seed gives: for    *)
(* each path, step and name a shock of the log-spot.                       *)
(***************************************************************************)
EXTENDS TerminalKernel

CONSTANT XadAvailable  \* the optional adjoint package is installed

\* What a legacy job keeps: numbers, dates as day serials, and the surfaces,
\* references, quotes and locks of its names by position.
Surfaces == [strikes : Seq(Nat), pillars : Seq(Nat), vol : Seq(Seq(Nat))]
Jobs ==
  [instrument : STRING, underlyings : Seq(Nat \ {0}),
   equity : Seq([id : STRING, spot : Nat, reference : Nat \ {0}]),
   surfaces : Seq(Surfaces), evaluation : Nat, expiry : Nat,
   callBarrier : Nat, kiBarrier : Nat, strike : Nat, locked : Seq(BOOLEAN),
   notional : Nat, quoteScale : Nat,
   periods : Seq([end : Nat, payment : Nat, rate : Nat, paid : Nat,
                  total : Nat, low : Nat, up : Nat])]
\* Every name has its surface, lock and reference, and a surface has a value
\* for each strike of each pillar.
Sound(job) ==
  /\ job \in Jobs
  /\ DOMAIN job.equity \subseteq DOMAIN job.surfaces \cap DOMAIN job.locked
  /\ job.underlyings # <<>> =>
       DOMAIN job.equity \subseteq DOMAIN job.underlyings
  /\ \A u \in DOMAIN job.surfaces :
       LET surface == job.surfaces[u]
       IN surface.vol # <<>> =>
            /\ surface.strikes # <<>>
            /\ \A row \in DOMAIN surface.vol :
                 DOMAIN surface.vol[row] = DOMAIN surface.strikes

\* A basket wider than two names is refused, never truncated.
TooWide(job) == Max({Len(job.equity), Len(job.underlyings)}) > 2

\* The deal's fixings are the references; a market without a deal falls back
\* to its own.  A caller's spots replace the quotes, never the references.
References(job) ==
  IF job.underlyings # <<>> THEN job.underlyings
  ELSE [u \in DOMAIN job.equity |-> job.equity[u].reference]
Quotes(job) == [u \in DOMAIN job.equity |-> job.equity[u].spot]

\* The volatility a surface gives near a spot: a name without one has a
\* default.  The row is the pillar nearest to the horizon.
DefaultVol == 2
Horizon == 2
SurfaceVol(surface, spot, date) ==
  IF surface.vol = <<>> THEN DefaultVol
  ELSE LET row == IF surface.pillars = <<>> THEN Min({4, Len(surface.vol)})
                  ELSE Min({Nearest(surface.pillars, date),
                            Len(surface.vol)})
       IN surface.vol[row][Nearest(surface.strikes, spot)]

\* The flat volatility of a name is read at the quote of the market data,
\* also when the caller prices other spots; with a vol_ratio it is read at
\* that share of the reference instead.
Vols(job, ratio) ==
  [u \in DOMAIN job.equity |->
     IF ratio = 0 THEN SurfaceVol(job.surfaces[u], job.equity[u].spot,
                                  job.evaluation + Horizon)
     ELSE SurfaceVol(job.surfaces[u], (ratio * References(job)[u]) \div Unit,
                     job.expiry)]

\* Mutant: the volatility is read at the spots the caller prices.
MarketOfBumped(job, option) ==
  [quoted |-> option.spots, references |-> References(job),
   vols |-> [u \in DOMAIN job.equity |->
               SurfaceVol(job.surfaces[u], option.spots[u],
                          job.evaluation + Horizon)],
   surfaces |-> job.surfaces, evaluation |-> job.evaluation,
   locvol |-> option.locvol]
\* The market a job is priced on, with the caller's spots.
MarketOf(job, option) ==
  [quoted |-> option.spots, references |-> References(job),
   vols |-> Vols(job, option.ratio), surfaces |-> job.surfaces,
   evaluation |-> job.evaluation, locvol |-> option.locvol]

\* The cube a draw drives from the quoted spots.  The volatility is flat, or
\* read from the surface at the spot of the step before (local volatility).
Simulate(market, draw) ==
  [p \in DOMAIN draw |->
    [u \in DOMAIN market.quoted |->
      LET Sigma(spot) ==
            IF market.locvol
            THEN SurfaceVol(market.surfaces[u], spot, market.evaluation)
            ELSE market.vols[u]
          spot[t \in -1 .. Len(draw[p]) - 1] ==
            IF t = -1 THEN market.quoted[u]
            ELSE LET before == spot[t - 1]
                 IN (before * (10 + Sigma(before) * draw[p][t + 1][u]))
                      \div 10
      IN [t \in 0 .. Len(draw[p]) - 1 |-> spot[t]]]]

Steps(cube) == Cardinality(DOMAIN cube[1][1])
At(cube, p, t) == [u \in DOMAIN cube[p] |-> cube[p][u][t]]

\* The date of each step: numpy.linspace over the life, cut to whole days.
Grid(evaluation, expiry, steps) ==
  [k \in 0 .. steps - 1 |->
     evaluation + (k * (expiry - evaluation)) \div (steps - 1)]

\* Mutant: the last such step, not the first.
CallDateLast(job, cube, p) ==
  LET Above(t, u) ==
        Performance(cube[p][u][t], References(job)[u]) >= job.callBarrier
      called == {t \in 0 .. Steps(cube) - 1 :
                   /\ \E u \in DOMAIN cube[p] : Above(t, u)
                   /\ \A u \in DOMAIN cube[p] :
                        job.locked[u] \/ \E r \in 0 .. t : Above(r, u)}
  IN IF called = {} THEN Steps(cube) ELSE Max(called)
\* The step on which every name has been at or above the call barrier, or
\* the number of steps.  Locks are looked at only on a step on which some
\* path gains one.
CallDate(job, cube, p) ==
  LET Above(q, t, u) ==
        Performance(cube[q][u][t], References(job)[u]) >= job.callBarrier
      Locked(t, u) == \/ job.locked[u]
                      \/ \E r \in 0 .. t : Above(p, r, u)
      called == {t \in 0 .. Steps(cube) - 1 :
                   /\ \E q \in DOMAIN cube, u \in DOMAIN cube[p] :
                        Above(q, t, u)
                   /\ \A u \in DOMAIN cube[p] : Locked(t, u)}
  IN IF called = {} THEN Steps(cube) ELSE Min(called)

\* The window of period i: from the step after the previous period's end,
\* paid or not, to its own.
EndStep(job, grid, i) == Nearest(grid, job.periods[i].end)
BeginStep(job, grid, i) ==
  IF i = 1 THEN 0 ELSE EndStep(job, grid, i - 1) + 1

\* What a period pays on a path called at step call: its whole coupon, less
\* the steps after the call.  A period with nothing owed pays nothing.
PeriodPays(job, grid, i, call) ==
  LET period == job.periods[i]
      span == Max({EndStep(job, grid, i) - BeginStep(job, grid, i) + 1, 1})
      elapsed == Clip(call - BeginStep(job, grid, i) + 1, 0, span)
  IN IF period.total <= period.paid THEN 0
     ELSE (job.notional * period.rate * elapsed) \div span

\* Each period is discounted from its payment date, not from its end.
CouponPv(job, cube) ==
  LET grid == Grid(job.evaluation, job.expiry, Steps(cube))
      Cash(p) == SumOver(
        LAMBDA i : PeriodPays(job, grid, i, CallDate(job, cube, p))
                     * Discount(job.evaluation, job.periods[i].payment),
        DOMAIN job.periods)
  IN (SumOver(Cash, DOMAIN cube) * job.quoteScale)
       \div Max({job.notional, 1})

\* The down-and-in put on the last step of a cube, the funding and the
\* coupon; and the put's adjoint on the same branches.
PriceCube(job, market, cube) ==
  LET last == [p \in DOMAIN cube |-> At(cube, p, Steps(cube) - 1)]
      df == Discount(job.evaluation, job.expiry)
      KnockedIn(worst) == worst <= job.kiBarrier
  IN [legs |-> TerminalLegs(last, market.references, job.strike, df,
                            CouponPv(job, cube), KnockedIn),
      adjoint |-> [u \in DOMAIN job.equity |->
                     AdjointDollar(last, market.references, job.strike, df,
                                   u, KnockedIn)],
      last |-> last, quoted |-> market.quoted]
\* price_fixture: a job's market, the cube drawn on it and its price.
PriceMarket(job, market, draw) ==
  PriceCube(job, market, Simulate(market, draw))
PriceFixture(job, option, draw) ==
  PriceMarket(job, MarketOf(job, option), draw)
PutPrice(result) == 0 - result.legs.PUT

\* bump_result: the base, then each name up and down, all on one draw.  Bump
\* is the share of the spot.  A dollar delta is a delta times its spot: the
\* adjoint's when there is one, the central difference's otherwise.
Bump == 2
Shifted(option, u, sign) ==
  [option EXCEPT !.spots[u] = (@ * (10 + sign * Bump)) \div 10]
Bumped(job, base, up, down) ==
  LET names == DOMAIN job.equity
      fd == [u \in names |-> ((up[u] - down[u]) * 10) \div (2 * Bump)]
      selected == IF XadAvailable THEN base.adjoint ELSE fd
      forecast == SumOver(LAMBDA u : (selected[u] * Bump) \div 10, names)
      actual == up[Len(job.equity)] - PutPrice(base)
  IN [base |-> base, up |-> up, down |-> down, fd |-> fd,
      selected |-> selected, names |-> names,
      forecast |-> forecast, actual |-> actual,
      unexplained |-> actual - forecast]
BumpResult(job, option, draw) ==
  LET Price(u, sign) ==
        PutPrice(PriceFixture(job, Shifted(option, u, sign), draw))
  IN Bumped(job, PriceFixture(job, option, draw),
            [u \in DOMAIN job.equity |-> Price(u, 1)],
            [u \in DOMAIN job.equity |-> Price(u, -1)])
=============================================================================
