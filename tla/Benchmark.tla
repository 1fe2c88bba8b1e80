----------------------------- MODULE Benchmark -----------------------------
(***************************************************************************)
(* The shared-path benchmark: one corpus of worst-of baskets on one cube,  *)
(* priced instrument by instrument by the Python lane (benchmarking.py,    *)
(* hybrid.py) or by the C++ parity lane and its Python mirror              *)
(* (cpp_parity.py).  Each lane builds its own corpus from the sizes it is   *)
(* asked for, and only the Python lane clamps them.  Structures repeat, so  *)
(* the adjoint results are cached.                                         *)
(* A delta is a dollar delta (a delta times its spot), a bumped one the     *)
(* difference before its division; a mean over paths is the sum over them. *)
(***************************************************************************)
EXTENDS FixtureLane

CONSTANTS
  MaxInstruments, \* bound on the instruments of one request
  Underlyings,    \* the names of the corpus
  Terminals,      \* the cubes the sizes asked for build: path |-> name |-> spot
  ClampedCube,    \* the cube the clamped paths and factors build instead
  ParityBumps     \* the bumps asked of the parity lane, in tenths of a spot

ASSUME SizeAssumption ==
  /\ MaxInstruments \in Nat
  /\ Underlyings \in 3 .. 1200
  /\ ClampedCube \in [Terminals -> Terminals]
  /\ ParityBumps \subseteq Nat \ {0}
  /\ \A cube \in Terminals :
       /\ IsFiniteSet(DOMAIN cube)
       /\ \A p \in DOMAIN cube : cube[p] \in [0 .. Underlyings - 1 -> Nat]

VARIABLES
  request,   \* the run in progress, or one that is over
  corpus,    \* spots, terminal cube, baskets and strikes
  processed, \* how many instruments are priced
  sums,      \* the checksums of the lane in progress
  cached,    \* hybrid results, by structure and strike
  methods,   \* how many instruments each delta method priced
  rows,      \* the risk rows of the Python lane
  reports    \* the results of the lanes that have finished on this corpus

benchVars ==
  <<request, corpus, processed, sums, cached, methods, rows, reports>>

Spot(n) == 10000 * (n + 1)
With(fun, key, value) ==
  [k \in DOMAIN fun \cup {key} |-> IF k = key THEN value ELSE fun[k]]
Strike(i) ==
  ((7 * Unit) \div 10) + (2 * Unit * ((i * 17) % 101)) \div 1000
Basket(i) == [k \in 1 .. 3 |-> (3 * i + (k - 1) * 137) % Underlyings]

\* The cache keeps the baskets to the unique structures; without it every
\* instrument has its own.
UniqueBaskets(instruments, unique, structureCache) ==
  IF structureCache THEN Clip(unique, 1, instruments) ELSE instruments
\* What a request asks for: how many instruments and unique structures, and
\* the paths and factors (with the seed), which stand for their cube.
Sizes == [instruments : 0 .. MaxInstruments, unique : 1 .. MaxInstruments,
          structureCache : BOOLEAN, cube : Terminals]
BuildCorpus(sizes) ==
  LET baskets == UniqueBaskets(sizes.instruments, sizes.unique,
                               sizes.structureCache)
  IN [instruments |-> sizes.instruments, unique |-> baskets,
      terminal |-> sizes.cube,
      basket |-> [i \in 0 .. baskets - 1 |-> Basket(i)],
      strike |-> [i \in 0 .. baskets - 1 |-> Strike(i)]]
\* run_benchmark prices one instrument at least, on 100 paths or more and on
\* no more factors than names; the parity lane takes the sizes as they come.
Clamps(sizes) == [sizes EXCEPT !.instruments = Max({1, @}),
                               !.cube = ClampedCube[@]]
CorpusOf(lane, sizes) ==
  BuildCorpus(IF lane = "python" THEN Clamps(sizes) ELSE sizes)

Structure(i) == i % corpus.unique
\* The terminal and the spots of a structure's three names.
BasketSpots(s) == [k \in 1 .. 3 |-> Spot(corpus.basket[s][k])]
BasketTerminal(s) ==
  [p \in DOMAIN corpus.terminal |->
     [k \in 1 .. 3 |-> corpus.terminal[p][corpus.basket[s][k]]]]
Always(worst) == TRUE
\* A name's spot moved by some tenths of itself.
Stretch(terminal, k, tenths) ==
  [p \in DOMAIN terminal |->
     [terminal[p] EXCEPT ![k] = (@ * (10 + tenths)) \div 10]]
\* A bump up and a bump down are of one size: whole numbers round nothing off.
ASSUME BumpAssumption ==
  \A cube \in Terminals : \A p \in DOMAIN cube, n \in 0 .. Underlyings - 1 :
    \A bump \in ParityBumps \cup {Bump} :
      LET Moved(tenths) == Performance((cube[p][n] * tenths) \div 10, Spot(n))
      IN Moved(10 + bump) + Moved(10 - bump)
           = 2 * Performance(cube[p][n], Spot(n))
PutOf(terminal, spots, strike) ==
  0 - TerminalLegs(terminal, spots, strike, 1, 0, Always).PUT

-----------------------------------------------------------------------------
(* hybrid_delta *)

\* The paths at a kink: on the strike or on the 0.70 barrier, to a width.
Transition(terminal, spots, strike, width) ==
  {p \in DOMAIN terminal :
     \E level \in {strike, (7 * Unit) \div 10} :
       Worst(terminal[p], spots) - level \in -width .. width}

\* The weight of a path in a smoothed delta rises with its distance into the
\* money, from nothing to one.
Width == Unit \div 100
ASSUME WidthAssumption == Width # 0  \* the scale resolves a smoothing width
SmoothWeight(distance) ==
  Clip((Unit \div 2) + (distance * Unit) \div (8 * Width), 0, Unit)

\* The adjoint on the stable paths (without the package: nothing) and, on
\* the others, the pathwise slope of the worst name; or a smoothed delta.
HybridDelta(terminal, spots, strike, smoothing) ==
  LET width == IF smoothing THEN Width ELSE 0
      kinks == Transition(terminal, spots, strike, width)
      stable == DOMAIN terminal \ kinks
      adjoint == XadAvailable /\ stable # {}
      Stable(k) ==
        IF ~adjoint THEN 0
        ELSE AdjointDollar([p \in stable |-> terminal[p]], spots, strike, 1,
                           k, Always)
      Fallback(k) ==
        0 - Unit * Cardinality({p \in kinks :
                      /\ Worst(terminal[p], spots) < strike
                      /\ WorstName(terminal[p], spots) = k})
      Smooth(k) ==
        0 - SumOver(LAMBDA p : SmoothWeight(strike - Worst(terminal[p],
                                                           spots)),
                    {p \in DOMAIN terminal : WorstName(terminal[p], spots)
                                               = k})
  IN [value |-> [k \in 1 .. 3 |->
                   IF smoothing THEN Smooth(k) ELSE Stable(k) + Fallback(k)],
      method |->
        IF smoothing
        THEN IF adjoint THEN "AAD_SMOOTHED" ELSE "PATHWISE_SMOOTHED"
        ELSE IF ~adjoint THEN "PATHWISE"
        ELSE IF kinks # {} THEN "AAD_FIXED_BRANCH+PATHWISE"
        ELSE "AAD_FIXED_BRANCH"]

-----------------------------------------------------------------------------
(* One instrument of the Python lane *)

\* Central differences of the value, one minus the put, on the same cube.
BumpedPv(s, k, tenths) ==
  0 - PutOf(Stretch(BasketTerminal(s), k, tenths), BasketSpots(s),
            corpus.strike[s])
\* Mutant: every structure at the strike of the first.
BasePvFirstStrike(s) ==
  0 - PutOf(BasketTerminal(s), BasketSpots(s), corpus.strike[0])
BasePv(s) == 0 - PutOf(BasketTerminal(s), BasketSpots(s), corpus.strike[s])
FdDollar(s, k) == BumpedPv(s, k, Bump) - BumpedPv(s, k, -Bump)
\* Mutant: the down bump is not priced.
FdGammaOneSided(s, k) == BumpedPv(s, k, Bump) - BasePv(s)
FdGamma(s, k) == BumpedPv(s, k, Bump) - 2 * BasePv(s) + BumpedPv(s, k, -Bump)

\* Mutant: keyed by the number of names.
CacheKeyOfSize(s) == Len(corpus.basket[s])
\* A structure's results are cached under the structure and its strike.
CacheKey(s) == <<s, corpus.strike[s]>>
Hybrid(s) ==
  IF CacheKey(s) \in DOMAIN cached THEN cached[CacheKey(s)]
  ELSE HybridDelta(BasketTerminal(s), BasketSpots(s), corpus.strike[s],
                   request.smoothing)

NoSums == [pv |-> 0, delta |-> 0, gamma |-> 0, pnl |-> 0]
\* What worst-of spots one bump higher would change.
PnlOf(s, bump) ==
  LET terminal == BasketTerminal(s)
      Raised == [p \in DOMAIN terminal |->
                   [k \in 1 .. 3 |-> (terminal[p][k] * (10 + bump)) \div 10]]
  IN PutOf(Raised, BasketSpots(s), corpus.strike[s])
       - PutOf(terminal, BasketSpots(s), corpus.strike[s])

\* Mutant: the rows keep the bumped delta, whatever delta is summed.
RowsOfBumps(s, delta) ==
  [k \in 1 .. 3 |->
     [instrument |-> processed, name |-> corpus.basket[s][k],
      base |-> BasePv(s), delta |-> FdDollar(s, k)]]
\* The risk rows of an instrument, one for each of its names.
RowsOf(s, delta) ==
  [k \in 1 .. 3 |->
     [instrument |-> processed, name |-> corpus.basket[s][k],
      base |-> BasePv(s), delta |-> delta[k]]]

PythonInstrument ==
  LET s == Structure(processed)
      hybrid == Hybrid(s)
      delta == [k \in 1 .. 3 |-> IF request.hybrid THEN hybrid.value[k]
                                 ELSE FdDollar(s, k)]
      priced == request.sensitivities
  IN /\ sums' = [pv |-> sums.pv + BasePv(s),
                 delta |-> IF priced THEN sums.delta
                             + SumOver(LAMBDA k : delta[k], 1 .. 3)
                           ELSE sums.delta,
                 gamma |-> IF priced THEN sums.gamma
                             + SumOver(LAMBDA k : FdGamma(s, k), 1 .. 3)
                           ELSE sums.gamma,
                 pnl |-> IF request.pnl THEN sums.pnl + PnlOf(s, Bump)
                         ELSE sums.pnl]
     /\ IF priced /\ request.hybrid
          THEN /\ cached' = With(cached, CacheKey(s), hybrid)
               /\ methods' = methods (+) SetToBag({hybrid.method})
          ELSE UNCHANGED <<cached, methods>>
     /\ rows' = IF request.emitRows
                THEN rows \o RowsOf(s, [k \in 1 .. 3 |->
                               IF priced THEN delta[k] ELSE 0])
                ELSE rows

-----------------------------------------------------------------------------
(* One instrument of the parity lane: native, and the mirror of it, which   *)
(* difference the put                                                       *)
ParityInstrument ==
  LET s == Structure(processed)
      bump == request.bump
      Put(k, tenths) == PutOf(Stretch(BasketTerminal(s), k, tenths),
                              BasketSpots(s), corpus.strike[s])
      put == PutOf(BasketTerminal(s), BasketSpots(s), corpus.strike[s])
      delta == [k \in 1 .. 3 |-> Put(k, bump) - Put(k, -bump)]
      gamma == [k \in 1 .. 3 |-> Put(k, bump) - 2 * put + Put(k, -bump)]
  IN /\ sums' = [sums EXCEPT !.pv = @ - put,
                   !.delta = @ + SumOver(LAMBDA k : delta[k], 1 .. 3),
                   !.gamma = @ + SumOver(LAMBDA k : gamma[k], 1 .. 3),
                   !.pnl = @ + PnlOf(s, bump)]
     /\ UNCHANGED <<cached, methods, rows>>

-----------------------------------------------------------------------------
Idle == [lane |-> "none"]
NoCorpus == [instruments |-> 0, unique |-> 1, terminal |-> <<>>,
             basket |-> <<>>, strike |-> <<>>]
BenchInit ==
  /\ request = Idle
  /\ corpus = NoCorpus
  /\ processed = 0
  /\ sums = NoSums
  /\ cached = <<>>
  /\ methods = EmptyBag
  /\ rows = <<>>
  /\ reports = <<>>

\* A request builds the corpus of its lane and sizes.  The lanes are compared
\* by asking both for the same sizes.
Begin(asked) ==
  /\ request = Idle
  /\ asked.lane \notin DOMAIN reports
  /\ \A lane \in DOMAIN reports : reports[lane].sizes = asked.sizes
  /\ request' = asked
  /\ corpus' = CorpusOf(asked.lane, asked.sizes)
  /\ processed' = 0
  /\ sums' = NoSums
  /\ cached' = <<>>
  /\ methods' = EmptyBag
  /\ rows' = <<>>
  /\ UNCHANGED reports

\* The Python lane bumps by a constant, and sums a P&L only when one is asked
\* for (and some state of the payoff is kept).
RunBenchmark(sizes, hybrid, smoothing, sensitivities, pnl, emitRows) ==
  Begin([lane |-> "python", sizes |-> sizes, hybrid |-> hybrid,
         smoothing |-> smoothing, sensitivities |-> sensitivities,
         pnl |-> pnl, bump |-> Bump, emitRows |-> emitRows])
\* The parity lane bumps by what the caller says.
RunCppParity(sizes, bump) ==
  Begin([lane |-> "cpp", sizes |-> sizes, hybrid |-> FALSE,
         smoothing |-> FALSE, sensitivities |-> TRUE, pnl |-> TRUE,
         bump |-> bump, emitRows |-> FALSE])

\* The loop over the instruments of the request.
PriceInstrument ==
  /\ request # Idle
  /\ processed < corpus.instruments
  /\ IF request.lane = "python" THEN PythonInstrument ELSE ParityInstrument
  /\ processed' = processed + 1
  /\ UNCHANGED <<request, corpus, reports>>

\* The method reported for the deltas is the one most instruments had.
DeltaMethod ==
  IF methods = EmptyBag THEN {"CRN_BUMP_REVALUE"}
  ELSE {m \in BagToSet(methods) :
          \A n \in BagToSet(methods) : methods[n] <= methods[m]}
Finish ==
  /\ request # Idle
  /\ processed = corpus.instruments
  /\ \E method \in DeltaMethod :
       reports' = With(reports, request.lane,
                       [sums |-> sums, method |-> method,
                        sizes |-> request.sizes, hybrid |-> request.hybrid,
                        priced |-> request.sensitivities,
                        pnl |-> request.pnl, bump |-> request.bump])
  /\ request' = Idle
  /\ UNCHANGED <<corpus, processed, sums, cached, methods, rows>>

BenchStart ==
  \E sizes \in Sizes :
    \/ \E bump \in ParityBumps : RunCppParity(sizes, bump)
    \/ \E hybrid, smoothing, sensitivities, pnl, emitRows \in BOOLEAN :
         /\ smoothing => hybrid
         /\ RunBenchmark(sizes, hybrid, smoothing, sensitivities, pnl, emitRows)
BenchNext == BenchStart \/ PriceInstrument \/ Finish
-----------------------------------------------------------------------------
\* A structure's cached result is the one a fresh evaluation gives: the cache
\* changes the speed of the Python lane, never its numbers.
CacheIsFresh ==
  \A s \in DOMAIN corpus.basket :
    request # Idle /\ CacheKey(s) \in DOMAIN cached =>
      cached[CacheKey(s)]
        = HybridDelta(BasketTerminal(s), BasketSpots(s), corpus.strike[s],
                      request.smoothing)

\* The rows a batch persists add up to the checksums it reports: the deltas
\* once, the values once for each of an instrument's three names.
RowsMatchChecksum ==
  LET Total(F(_)) == SumOver(LAMBDA n : F(rows[n]), DOMAIN rows)
  IN rows # <<>> =>
       /\ Total(LAMBDA row : row.delta) = sums.delta
       /\ Total(LAMBDA row : row.base) = 3 * sums.pv

\* A worst-of put is convex in each spot, so on one cube no instrument's
\* central second difference can have the wrong sign: the Python lane's, of
\* the value, is never above zero, and the parity lane's, of the put, never
\* below.
BumpsAreConvex ==
  \A lane \in DOMAIN reports :
    IF lane = "python" THEN reports[lane].sums.gamma <= 0
                       ELSE reports[lane].sums.gamma >= 0

\* Both lanes have reported on one corpus: asked for the same sizes, which
\* the clamps of the Python lane leave as they are.
Both(P(_, _)) ==
  {"python", "cpp"} \subseteq DOMAIN reports =>
    LET python == reports["python"]
        cpp == reports["cpp"]
    IN python.sizes = cpp.sizes /\ Clamps(python.sizes) = python.sizes =>
         P(python, cpp)
\* On one corpus both lanes give the same value and, asked for a P&L of the
\* same move, the same P&L, whatever each caches, bumps or leaves out.
LanesPriceAlike ==
  Both(LAMBDA python, cpp :
         /\ python.sums.pv = cpp.sums.pv
         /\ python.pnl /\ python.bump = cpp.bump =>
              python.sums.pnl = cpp.sums.pnl)

\* What cpp_parity.py says of the lanes ("Both parities must produce the same
\* pricing results", with the same bump conventions): on one corpus, by the
\* same bump and without the adjoint, they report the same delta.
LanesGiveSameDelta ==
  Both(LAMBDA python, cpp :
         python.priced /\ ~python.hybrid /\ python.bump = cpp.bump =>
           python.sums.delta = cpp.sums.delta)
=============================================================================
