------------------------------ MODULE FcnQuote ------------------------------
(***************************************************************************)
(* The request lane of the canonical note: quote.price (server.py) and     *)
(* price_fcn_request (fcn_native.py).  A request is validated, a path cube *)
(* is drawn from its market, and the native engine prices that one cube    *)
(* for the request and for four bumps of each name.  The engine is taken   *)
(* at its word: a path is worth what FcnDue says it pays, which is what    *)
(* FcnEngine.tla implements.  Levels are naturals, a mean over paths is    *)
(* the sum over them, a sensitivity is its difference before division.     *)
(***************************************************************************)
EXTENDS FcnDue

CONSTANTS
  Requests,  \* requests made: FcnEngine's sheets with a market
  Draws,     \* what a seed may draw: path |-> observation |-> name |-> move
  NoCube

ASSUME NamesAssumption == Underlyings \subseteq Nat  \* in the request's order

Side == [enabled : BOOLEAN, barrier : Nat, operator : Comparisons]
\* What json makes of a request: numbers are naturals here (a rate may be
\* negative).  A pillar's date and rate are given (not null) or not; int() and
\* float() can read them or not; and they are what the engine takes, a whole
\* number above zero and a number, or something else, like a text.  A surface
\* is there or not, has a volatility up to some date, and may have null points.
Terms(surfaces) ==
  [hasFields : BOOLEAN, evaluation : Nat, references : Nat,
   worstOf : BOOLEAN, continuous : BOOLEAN,
   pillars : SUBSET [dateGiven : BOOLEAN, rateGiven : BOOLEAN,
                     readable : BOOLEAN, dated : BOOLEAN, rated : BOOLEAN,
                     date : Nat, rate : Int],
   memoryKo : BOOLEAN, memoryMode : BOOLEAN,
   barrierMemoryKo : {"absent", "on", "off"},
   strike : Nat, kiBarrier : Nat, kiOperator : Comparisons,
   finalFixing : Nat, maturity : Nat, notional : Nat,
   fundingEnabled : BOOLEAN, returnRatio : Nat, couponMemory : BOOLEAN,
   lowerInclusive : BOOLEAN, upperInclusive : BOOLEAN,
   local : Side, global : Side, precedence : {"local", "global"},
   periods : Seq(Periods),
   quoted : [Underlyings -> Nat], reference : [Underlyings -> Nat],
   surfaces : {surfaces}]
ASSUME RequestTypes ==
  /\ \A r \in Requests :
       /\ r \in Terms(r.surfaces)
       /\ IsFiniteSet(r.pillars)
       /\ \A pillar \in r.pillars :
            /\ pillar.dated => pillar.dateGiven /\ pillar.date > 0
            /\ pillar.rated => pillar.rateGiven
            /\ pillar.dated /\ pillar.rated => pillar.readable
       /\ \A u \in DOMAIN r.surfaces :
            r.surfaces[u] \in [strike : Nat, knockIn : Nat, until : Nat,
                               nulls : BOOLEAN]
  /\ \A draw \in Draws :
       /\ IsFiniteSet(DOMAIN draw)
       /\ \A p \in DOMAIN draw : draw[p] \in [Obs -> [Underlyings -> Int]]

VARIABLES
  request,
  stage,   \* where price_fcn_request is
  cube,    \* path |-> observation |-> name |-> level
  risk,    \* the sensitivities of the names bumped so far
  result   \* the engine's answer to the request itself

vars == <<request, stage, cube, risk, result>>

NoResult == [status |-> "none", pv |-> 0]

\* The pillars this lane draws with, and those the engine discounts with.
Given(r) == {p \in r.pillars : p.dateGiven /\ p.rateGiven}
Compiled(r) == {p \in r.pillars : p.dated /\ p.rated}
\* Linear between the pillars, flat beyond the ends, zero without any.
CurveRateAt(pillars, date) ==
  LET dates == {p.date : p \in pillars}
      Rate(d) == (CHOOSE p \in pillars : p.date = d).rate
  IN IF dates = {} THEN 0
     ELSE IF date <= Min(dates) THEN Rate(Min(dates))
     ELSE IF date >= Max(dates) THEN Rate(Max(dates))
     ELSE LET d0 == Max({d \in dates : d < date})
              d1 == Min({d \in dates : d >= date})
          IN Rate(d0) + ((Rate(d1) - Rate(d0)) * (date - d0)) \div (d1 - d0)
Whole == 100  \* a discount factor of one
Discount(r, date) ==
  Whole - (CurveRateAt(Compiled(r), date) * Larger(date - r.evaluation, 0))
            \div 10

-----------------------------------------------------------------------------
(* build_daily_path_cube *)

\* The surface at the exercise and at the knock-in moneyness, whichever is
\* higher; a name without one has a default.  Where a surface cannot be read
\* the step is not a number, and neither is any level from there on: 0.
DefaultVol == 4
StepVol(r, u) ==
  IF u \in DOMAIN r.surfaces
    THEN Larger(r.surfaces[u].strike, r.surfaces[u].knockIn) ELSE DefaultVol
Reads(r, u, k) == u \in DOMAIN r.surfaces => Dates[k] <= r.surfaces[u].until
Level(r, draw, p, k, u) ==
  IF Reads(r, u, k)
    THEN (r.quoted[u] * (20 + CurveRateAt(Given(r), Dates[k])
                            + StepVol(r, u) * draw[p][k][u])) \div 20
    ELSE 0
DailyPathCube(r, draw) ==
  [p \in DOMAIN draw |-> [k \in Obs |-> [u \in Underlyings |->
     Level(r, draw, p, k, u)]]]

\* No trading day, no spot, no curve, or one that cannot be read: an exception.
CubeRefused(r) ==
  \/ ~ \E k \in Obs : r.evaluation <= Dates[k]
                      /\ Dates[k] <= Larger(r.maturity, r.finalFixing)
  \/ \E u \in Underlyings : r.quoted[u] <= 0
  \/ Given(r) = {}
  \/ \E pillar \in Given(r) : ~pillar.readable

Times(x, sign) == (x * (5 + sign)) \div 5

\* A level is an exponential: where it is a number it is positive, and it does
\* not round to zero here, also as a performance against a reference spot that
\* is bumped up.  No reference spot is bumped to zero.
ASSUME MarketAssumption ==
  \A r \in Requests : ~CubeRefused(r) =>
    \A u \in Underlyings :
      /\ Times(r.reference[u], -1) > 0
      /\ \A draw \in Draws : \A p \in DOMAIN draw, k \in Obs :
           Reads(r, u, k) =>
             Level(r, draw, p, k, u) * Unit >= Times(r.reference[u], 1)

-----------------------------------------------------------------------------
(* price_fcn_rakiplus, on a cube and the reference spots of a request *)

Fixings(r, path) ==
  [k \in Obs |-> [u \in Underlyings |->
     (path[k][u] * Unit) \div r.reference[u]]]
PathPv(r, f) ==
  LET due == Due(r, f)
  IN SumFunction([flow \in DOMAIN due |->
       due[flow] * Discount(r, flow[3])
         * (IF flow[1] = "PUT" THEN -1 ELSE 1)])

\* A refusal has a present value too, of zero.
NativePrice(r, levels) ==
  LET refusal == Refusal(r)
      complete == \A p \in DOMAIN levels : Complete(r, Fixings(r, levels[p]))
  IN IF refusal # "verified"
       THEN [status |-> IF refusal = "unsupported" THEN "unsupported"
                                                   ELSE "unresolved",
             pv |-> 0]
     ELSE IF ~complete THEN [status |-> "unresolved", pv |-> 0]
     ELSE [status |-> "ok", pv |-> SumFunction([p \in DOMAIN levels |->
                                     PathPv(r, Fixings(r, levels[p]))])]

-----------------------------------------------------------------------------
(* The bumps.  Spots move by a fifth, volatilities by one. *)

\* Mutant: the quoted and the reference spot of every name move.
SpotBumpedAll(r, u, sign) ==
  [r EXCEPT !.quoted = [v \in Underlyings |-> Times(@[v], sign)],
            !.reference = [v \in Underlyings |-> Times(@[v], sign)]]
\* Mutant: the bump itself is taken for the factor.
SpotBumpedByFactor(r, u, sign) ==
  [r EXCEPT !.quoted[u] = (@ * sign) \div 5,
            !.reference[u] = (@ * sign) \div 5]
SpotBumped(r, u, sign) ==
  [r EXCEPT !.quoted[u] = Times(@, sign), !.reference[u] = Times(@, sign)]
VolBumped(r, u, sign) ==
  IF u \notin DOMAIN r.surfaces THEN r
  ELSE [r EXCEPT !.surfaces[u].strike = @ + sign,
                 !.surfaces[u].knockIn = @ + sign]

\* Every bump is priced on the cube of the request.
Sensitivities(u) ==
  LET Spot(sign) == NativePrice(SpotBumped(request, u, sign), cube).pv
      Vol(sign)  == NativePrice(VolBumped(request, u, sign), cube).pv
  IN [delta |-> Spot(1) - Spot(-1),
      gamma |-> Spot(1) - 2 * result.pv + Spot(-1),
      vega  |-> Vol(1) - Vol(-1)]

-----------------------------------------------------------------------------
Init ==
  /\ request \in Requests
  /\ stage = "validate"
  /\ cube = NoCube
  /\ risk = <<>>
  /\ result = NoResult

\* Every field is there, and nothing is ambiguous; else an exception.
ValidateFcnRequest ==
  /\ stage = "validate"
  /\ stage' = IF /\ request.hasFields
                 /\ request.worstOf
                 /\ request.memoryKo => request.memoryMode
                THEN "cube" ELSE "raised"
  /\ UNCHANGED <<request, cube, risk, result>>

BuildDailyPathCube ==
  /\ stage = "cube"
  /\ IF CubeRefused(request)
       THEN stage' = "raised" /\ UNCHANGED cube
       ELSE /\ stage' = "price"
            /\ \E draw \in Draws : cube' = DailyPathCube(request, draw)
  /\ UNCHANGED <<request, risk, result>>

\* What the engine refuses is the answer, without sensitivities.
PriceRequest ==
  /\ stage = "price"
  /\ result' = NativePrice(request, cube)
  /\ stage' = IF result'.status = "ok" THEN "bump" ELSE "answered"
  /\ UNCHANGED <<request, cube, risk>>

\* Mutant: the answer is given after the first name.
BumpNameOnce ==
  /\ stage = "bump"
  /\ risk' = [v \in {Min(Underlyings)} |-> Sensitivities(v)]
  /\ stage' = "answered"
  /\ UNCHANGED <<request, cube, result>>
\* A null volatility cannot be bumped: an exception, with a price in hand.
Unbumpable(r, u) == u \in DOMAIN r.surfaces /\ r.surfaces[u].nulls
\* The next name of the request.
BumpName ==
  /\ stage = "bump"
  /\ LET u == Min(Underlyings \ DOMAIN risk)
     IN IF Unbumpable(request, u)
          THEN risk' = <<>> /\ result' = NoResult /\ stage' = "raised"
          ELSE /\ risk' = [v \in DOMAIN risk \cup {u} |->
                            IF v = u THEN Sensitivities(u) ELSE risk[v]]
               /\ stage' = IF DOMAIN risk' = Underlyings
                           THEN "answered" ELSE "bump"
               /\ UNCHANGED result
  /\ UNCHANGED <<request, cube>>

\* The caller has the answer or the exception, and asks again.
QuotePrice ==
  /\ stage \in {"answered", "raised"}
  /\ request' \in Requests
  /\ stage' = "validate"
  /\ cube' = NoCube
  /\ risk' = <<>>
  /\ result' = NoResult

Next == \/ ValidateFcnRequest \/ BuildDailyPathCube \/ PriceRequest
        \/ BumpName \/ QuotePrice

Spec == Init /\ [][Next]_vars
-----------------------------------------------------------------------------
TypeOK ==
  /\ request \in Requests
  /\ stage \in {"validate", "cube", "price", "bump", "answered", "raised"}
  /\ DOMAIN risk \subseteq Underlyings
  /\ result.status \in {"none", "ok", "unsupported", "unresolved"}
  /\ stage \in {"bump", "answered"} <=> result # NoResult
  /\ stage = "answered" => \/ result.status = "ok" /\ DOMAIN risk = Underlyings
                           \/ result.status # "ok" /\ risk = <<>>

\* What the engine refuses has a present value of zero, and this lane reads
\* the present value of a bump without its status.  On a cube of numbers that
\* never matters: a bump is refused exactly when the request is, and a request
\* that is refused is not bumped.  (A cube with a gap is excepted: a bump can
\* move the call of a path past the gap, where the request stopped before it.)
RefusedTogether ==
  result # NoResult
    /\ (\A p \in DOMAIN cube, k \in Obs, u \in Underlyings : cube[p][k][u] > 0) =>
      \A u \in Underlyings, sign \in {-1, 1} :
        /\ NativePrice(SpotBumped(request, u, sign), cube).status = result.status
        /\ NativePrice(VolBumped(request, u, sign), cube).status = result.status

\* A name is idle when bumping it by a fifth leaves another name worst on
\* every observation of every path.
Idle(u) ==
  \A p \in DOMAIN cube, k \in Obs, sign \in {-1, 0, 1} :
    LET f == Fixings(SpotBumped(request, u, sign), cube[p])[k]
    IN \E v \in Underlyings \ {u} : f[v] < f[u]

\* The bumps share the draw of the price and move one name only: without
\* memory knock-out, which looks at every name, an idle name has no risk.
IdleNameHasNoRisk ==
  stage = "answered" /\ ~MemoryKo(request) =>
    \A u \in DOMAIN risk :
      Idle(u) => risk[u].delta = 0 /\ risk[u].gamma = 0

\* risk-representation-and-sensitivity-framework.md: "raw_delta = dV / dS".
\* A delta has the sign of what the note gains on the same draw when the name
\* rises by a fifth against when it falls by a fifth.
DeltaIsDirectional ==
  stage = "answered" =>
    \A u \in DOMAIN risk :
      LET Moved(sign) == [p \in DOMAIN cube |-> [k \in Obs |->
                            [cube[p][k] EXCEPT ![u] = Times(@, sign)]]]
          gain == NativePrice(request, Moved(1)).pv
                    - NativePrice(request, Moved(-1)).pv
      IN /\ gain > 0 => risk[u].delta >= 0
         /\ gain < 0 => risk[u].delta <= 0
=============================================================================
