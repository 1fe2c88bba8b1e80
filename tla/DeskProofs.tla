----------------------------- MODULE DeskProofs -----------------------------
(***************************************************************************)
(* Proofs about the benchmark among the desk's tools, for every corpus and *)
(* every number of instruments: that a cached sensitivity is a fresh one,  *)
(* that rows add up to checksums, that the two lanes value a corpus alike, *)
(* and that bumps of a worst-of put are convex.                            *)
(***************************************************************************)
EXTENDS RiskDesk, SumProofs, SequenceTheorems

(***************************************************************************)
(* No other tool touches the benchmark.                                    *)
(***************************************************************************)
LEMMA ToolsKeep == Tool => UNCHANGED benchVars
<1> SUFFICES ASSUME Tool PROVE UNCHANGED benchVars
  OBVIOUS
<1>1. ASSUME NEW a, NEW b, Reply(a, b) PROVE UNCHANGED benchVars
  BY <1>1 DEF Reply
<1>2. ASSUME NEW book, NEW locvol, NEW ratio, NEW draw,
             PricingTool(book, locvol, ratio, draw)
      PROVE  UNCHANGED benchVars
  BY <1>2, <1>1 DEF PricingTool
<1>3. ASSUME NEW book, NEW draw, RunRiskSingle(book, draw)
      PROVE  UNCHANGED benchVars
  BY <1>3, <1>1 DEF RunRiskSingle
<1>4. ASSUME NEW book, NEW locvol, NEW draw, AggregateTool(book, locvol, draw)
      PROVE  UNCHANGED benchVars
  BY <1>4, <1>1 DEF AggregateTool
<1>5. ASSUME NEW sheet, DailyTool(sheet) PROVE UNCHANGED benchVars
  BY <1>5, <1>1 DEF DailyTool
<1>6. ASSUME NEW y, ScheduleTool(y) PROVE UNCHANGED benchVars
  BY <1>6, <1>1 DEF ScheduleTool
<1>7. ASSUME NEW sheet, NEW draws, EtlTool(sheet, draws)
      PROVE  UNCHANGED benchVars
  BY <1>7, <1>1 DEF EtlTool
<1>8. ASSUME NEW q, NEW table, OlapQuery(q, table) PROVE UNCHANGED benchVars
  BY <1>8, <1>1 DEF OlapQuery
<1>9. QED
  BY <1>2, <1>3, <1>4, <1>5, <1>6, <1>7, <1>8 DEF Tool

LEMMA BenchSteps ==
  [Next]_vars => \/ UNCHANGED benchVars
                 \/ BenchStart \/ PriceInstrument \/ Finish \/ Forget
BY ToolsKeep DEF Next, BenchTool, BenchNext, Answered, vars

(***************************************************************************)
(* The corpus.                                                             *)
(***************************************************************************)
Baskets == 0 .. corpus.unique - 1
CorpusOk ==
  /\ corpus.instruments \in Nat
  /\ corpus.unique \in Nat
  /\ corpus.instruments > 0 => corpus.unique > 0
  /\ corpus.basket \in [Baskets -> [1 .. 3 -> 0 .. Underlyings - 1]]
  /\ corpus.strike \in [Baskets -> Int]
  /\ corpus.terminal \in Terminals
CorpusInv == request # Idle \/ reports # <<>> => CorpusOk

\* The clamped sizes of a request are sizes one could have asked for.
LEMMA ClampedSizes ==
  ASSUME NEW sizes \in Sizes
  PROVE  /\ sizes.instruments \in Nat /\ sizes.unique \in Nat /\ sizes.unique >= 1
         /\ sizes.structureCache \in BOOLEAN /\ sizes.cube \in Terminals
         /\ Clamps(sizes).instruments \in Nat
         /\ Clamps(sizes).unique = sizes.unique
         /\ Clamps(sizes).structureCache = sizes.structureCache
         /\ Clamps(sizes).cube \in Terminals
<1>1. /\ sizes.instruments \in Nat /\ sizes.unique \in Nat /\ sizes.unique >= 1
      /\ sizes.structureCache \in BOOLEAN /\ sizes.cube \in Terminals
  BY SizeAssumption DEF Sizes
<1> DEFINE most == Max({1, sizes.instruments})
           clamped == ClampedCube[sizes.cube]
<1>2. most \in Nat
  <2> DEFINE one == 1
             m == sizes.instruments
  <2>1. one \in Int /\ m \in Int /\ one \in Nat /\ m \in Nat
    BY <1>1
  <2> HIDE DEF one, m
  <2>2. Max({one, m}) = IF one >= m THEN one ELSE m
    BY <2>1, PairBounds
  <2>3. QED
    BY <2>1, <2>2 DEF one, m
<1>3. clamped \in Terminals
  BY <1>1, SizeAssumption
<1>4. Clamps(sizes) = [sizes EXCEPT !.instruments = most, !.cube = clamped]
  BY DEF Clamps
<1> HIDE DEF most, clamped
<1>5. DOMAIN sizes = {"instruments", "unique", "structureCache", "cube"}
  BY DEF Sizes
<1>6. /\ Clamps(sizes).instruments = most /\ Clamps(sizes).cube = clamped
      /\ Clamps(sizes).unique = sizes.unique
      /\ Clamps(sizes).structureCache = sizes.structureCache
  BY <1>4, <1>5
<1>7. QED
  BY <1>1, <1>2, <1>3, <1>6

LEMMA BuiltOf ==
  ASSUME NEW sizes, sizes.instruments \in Nat, sizes.unique \in Nat,
         sizes.unique >= 1, sizes.structureCache \in BOOLEAN,
         sizes.cube \in Terminals, corpus' = BuildCorpus(sizes)
  PROVE  CorpusOk'
<1> DEFINE instruments == sizes.instruments
           unique == sizes.unique
           n == UniqueBaskets(instruments, unique, sizes.structureCache)
<1>1. instruments \in Nat /\ unique \in Nat /\ 1 <= unique
  OBVIOUS
<1>2. n \in Nat /\ (instruments > 0 => n > 0)
  <2>1. CASE sizes.structureCache
    <3> DEFINE least == Min({unique, instruments})
    <3>1. least \in Int
      BY <1>1, PairBounds
    <3>2. n = Max({1, least})
      BY <2>1 DEF UniqueBaskets, Clip
    <3> HIDE DEF n, least
    <3>3. Max({1, least}) = IF 1 >= least THEN 1 ELSE least
      BY <3>1, PairBounds
    <3>4. QED
      BY <3>1, <3>2, <3>3
  <2>2. CASE ~sizes.structureCache
    BY <1>1, <2>2 DEF UniqueBaskets
  <2>3. QED
    BY <2>1, <2>2
<1> HIDE DEF n
<1>3. \A i \in 0 .. n - 1 : Basket(i) \in [1 .. 3 -> 0 .. Underlyings - 1]
  <2>1. ASSUME NEW i \in 0 .. n - 1, NEW k \in 1 .. 3
        PROVE  (3 * i + (k - 1) * 137) % Underlyings \in 0 .. Underlyings - 1
    BY <1>2, SizeAssumption
  <2>2. QED
    BY <2>1 DEF Basket
<1>4. \A i \in 0 .. n - 1 : Strike(i) \in Int
  <2>1. ASSUME NEW i \in 0 .. n - 1 PROVE Strike(i) \in Int
    <3>1. i \in Nat /\ Unit \in Nat
      BY <1>2, UnitAssumption
    <3>2. (i * 17) % 101 \in Int /\ (7 * Unit) \div 10 \in Int
      BY <3>1
    <3>3. 2 * Unit * ((i * 17) % 101) \in Int
      BY <3>1, <3>2
    <3>4. (2 * Unit * ((i * 17) % 101)) \div 1000 \in Int
      BY <3>3
    <3>5. QED
      BY <3>2, <3>4 DEF Strike
  <2>2. QED
    BY <2>1
<1>5. corpus' = [instruments |-> instruments, unique |-> n,
                 terminal |-> sizes.cube,
                 basket |-> [i \in 0 .. n - 1 |-> Basket(i)],
                 strike |-> [i \in 0 .. n - 1 |-> Strike(i)]]
  BY DEF BuildCorpus, n
<1>6. /\ corpus'.instruments = instruments /\ corpus'.unique = n
      /\ corpus'.terminal \in Terminals
      /\ corpus'.basket \in [0 .. n - 1 -> [1 .. 3 -> 0 .. Underlyings - 1]]
      /\ corpus'.strike \in [0 .. n - 1 -> Int]
  BY <1>3, <1>4, <1>5
<1> HIDE DEF instruments
<1>7. QED
  BY <1>1, <1>2, <1>6 DEF CorpusOk, Baskets

LEMMA Built ==
  ASSUME NEW sizes \in Sizes, NEW lane, corpus' = CorpusOf(lane, sizes)
  PROVE  CorpusOk'
<1> DEFINE asked == IF lane = "python" THEN Clamps(sizes) ELSE sizes
<1>1. /\ asked.instruments \in Nat /\ asked.unique \in Nat /\ asked.unique >= 1
      /\ asked.structureCache \in BOOLEAN /\ asked.cube \in Terminals
  BY ClampedSizes
<1>2. corpus' = BuildCorpus(asked)
  BY DEF CorpusOf
<1> HIDE DEF asked
<1>3. QED
  BY <1>1, <1>2, BuiltOf

\* What a request starts from.
Moves == ParityBumps \cup {Bump}
LEMMA Started ==
  ASSUME BenchStart
  PROVE  \E asked :
           /\ Begin(asked)
           /\ asked.lane \in {"python", "cpp"}
           /\ asked.sizes \in Sizes /\ asked.bump \in Moves
           /\ asked.lane = "python" => asked.bump = Bump
           /\ asked.lane = "cpp" => ~asked.emitRows
<1>1. PICK sizes \in Sizes :
        \/ \E bump \in ParityBumps : RunCppParity(sizes, bump)
        \/ \E hybrid, smoothing, sensitivities, pnl, emitRows \in BOOLEAN :
             RunBenchmark(sizes, hybrid, smoothing, sensitivities, pnl, emitRows)
  BY DEF BenchStart
<1>2. ASSUME NEW bump \in ParityBumps, RunCppParity(sizes, bump)
      PROVE  \E asked :
               /\ Begin(asked)
               /\ asked.lane \in {"python", "cpp"}
               /\ asked.sizes \in Sizes /\ asked.bump \in Moves
               /\ asked.lane = "python" => asked.bump = Bump
               /\ asked.lane = "cpp" => ~asked.emitRows
  <2> DEFINE asked == [lane |-> "cpp", sizes |-> sizes, hybrid |-> FALSE,
                       smoothing |-> FALSE, sensitivities |-> TRUE, pnl |-> TRUE,
                       bump |-> bump, emitRows |-> FALSE]
  <2>1. Begin(asked)
    BY <1>2 DEF RunCppParity
  <2>2. /\ asked.lane = "cpp" /\ asked.sizes = sizes /\ asked.bump = bump
        /\ ~asked.emitRows
    OBVIOUS
  <2> HIDE DEF asked
  <2>3. QED
    BY <2>1, <2>2 DEF Moves
<1>3. ASSUME NEW hybrid, NEW smoothing, NEW sensitivities, NEW pnl, NEW emitRows,
             RunBenchmark(sizes, hybrid, smoothing, sensitivities, pnl, emitRows)
      PROVE  \E asked :
               /\ Begin(asked)
               /\ asked.lane \in {"python", "cpp"}
               /\ asked.sizes \in Sizes /\ asked.bump \in Moves
               /\ asked.lane = "python" => asked.bump = Bump
               /\ asked.lane = "cpp" => ~asked.emitRows
  <2> DEFINE asked == [lane |-> "python", sizes |-> sizes, hybrid |-> hybrid,
                       smoothing |-> smoothing, sensitivities |-> sensitivities,
                       pnl |-> pnl, bump |-> Bump, emitRows |-> emitRows]
  <2>1. Begin(asked)
    BY <1>3 DEF RunBenchmark
  <2>2. asked.lane = "python" /\ asked.sizes = sizes /\ asked.bump = Bump
    OBVIOUS
  <2> HIDE DEF asked
  <2>3. QED
    BY <2>1, <2>2 DEF Moves
<1>4. QED
  BY <1>1, <1>2, <1>3

LEMMA CorpusStep == CorpusInv /\ [Next]_vars => CorpusInv'
<1> SUFFICES ASSUME CorpusInv, [Next]_vars PROVE CorpusInv'
  OBVIOUS
<1>1. corpus' = corpus => CorpusOk' = CorpusOk
  BY DEF CorpusOk, Baskets
<1>2. CASE UNCHANGED benchVars
  BY <1>1, <1>2 DEF benchVars, CorpusInv
<1>3. CASE BenchStart
  <2>1. PICK asked : Begin(asked) /\ asked.sizes \in Sizes
    BY <1>3, Started
  <2>2. corpus' = CorpusOf(asked.lane, asked.sizes)
    BY <2>1 DEF Begin
  <2>3. CorpusOk'
    BY <2>1, <2>2, Built
  <2>4. QED
    BY <2>3 DEF CorpusInv
<1>4. CASE PriceInstrument
  BY <1>1, <1>4 DEF PriceInstrument, CorpusInv
<1>5. CASE Finish
  BY <1>1, <1>5 DEF Finish, CorpusInv
<1>6. CASE Forget
  BY <1>6 DEF Forget, CorpusInv
<1>7. QED
  BY <1>2, <1>3, <1>4, <1>5, <1>6, BenchSteps

LEMMA CorpusInductive == Spec => []CorpusInv
<1>1. Init => CorpusInv
  BY DEF Init, BenchInit, CorpusInv
<1>2. QED
  BY <1>1, CorpusStep, PTL DEF Spec

(***************************************************************************)
(* The cache.                                                              *)
(***************************************************************************)
Fresh(s) == HybridDelta(BasketTerminal(s), BasketSpots(s), corpus.strike[s],
                        request.smoothing)
CacheInv ==
  request # Idle =>
    \A key \in DOMAIN cached : \A s : key = CacheKey(s) => cached[key] = Fresh(s)

LEMMA SameFresh ==
  ASSUME corpus' = corpus, request' = request
  PROVE  \A s : CacheKey(s)' = CacheKey(s) /\ Fresh(s)' = Fresh(s)
BY DEF CacheKey, Fresh, BasketTerminal, BasketSpots

LEMMA OneKey ==
  ASSUME NEW s, NEW t, CacheKey(s) = CacheKey(t) PROVE s = t
BY DEF CacheKey

LEMMA CacheStep == CacheInv /\ [Next]_vars => CacheInv'
<1> SUFFICES ASSUME CacheInv, [Next]_vars PROVE CacheInv'
  OBVIOUS
<1>1. CASE UNCHANGED benchVars
  BY <1>1, SameFresh DEF benchVars, CacheInv
<1>2. CASE BenchStart
  <2>1. cached' = <<>>
    <3>1. PICK asked : Begin(asked)
      BY <1>2, Started
    <3>2. QED
      BY <3>1 DEF Begin
  <2>2. DOMAIN cached' = {}
    BY <2>1
  <2>3. QED
    BY <2>2 DEF CacheInv
<1>3. CASE PriceInstrument
  <2>1. /\ request # Idle /\ request' = request /\ corpus' = corpus
        /\ PythonInstrument \/ ParityInstrument
    BY <1>3 DEF PriceInstrument
  <2>2. CASE cached' = cached
    BY <2>1, <2>2, SameFresh DEF CacheInv
  <2>3. CASE cached' # cached
    <3> DEFINE t == Structure(processed)
               hybrid == Hybrid(t)
    <3>1. cached' = With(cached, CacheKey(t), hybrid)
      BY <2>1, <2>3 DEF PythonInstrument, ParityInstrument
    <3>2. hybrid = Fresh(t)
      BY <2>1 DEF Hybrid, CacheInv, Fresh
    <3> HIDE DEF t, hybrid
    <3>3. ASSUME NEW key \in DOMAIN cached', NEW s, key = CacheKey(s)
          PROVE  cached'[key] = Fresh(s)
      <4>1. CASE key = CacheKey(t)
        BY <3>1, <3>2, <3>3, <4>1, OneKey DEF With
      <4>2. CASE key # CacheKey(t)
        BY <2>1, <3>1, <3>3, <4>2 DEF With, CacheInv
      <4>3. QED
        BY <4>1, <4>2
    <3>4. QED
      BY <2>1, <3>3, SameFresh DEF CacheInv
  <2>4. QED
    BY <2>2, <2>3
<1>4. CASE Finish
  BY <1>4 DEF Finish, CacheInv
<1>5. CASE Forget
  BY <1>5 DEF Forget, CacheInv
<1>6. QED
  BY <1>1, <1>2, <1>3, <1>4, <1>5, BenchSteps

\* A structure's cached result is the one a fresh evaluation gives, for every
\* corpus: run_benchmark's cache changes its speed, never its numbers.
THEOREM CacheFresh == Spec => []CacheIsFresh
<1>1. Init => CacheInv
  BY DEF Init, BenchInit, CacheInv
<1>2. CacheInv => CacheIsFresh
  BY DEF CacheInv, CacheIsFresh, Fresh
<1>3. QED
  BY <1>1, <1>2, CacheStep, PTL DEF Spec

(***************************************************************************)
(* The numbers of one instrument are whole.                                *)
(***************************************************************************)
Spots3 == [1 .. 3 -> Nat \ {0}]
Cubes3 == UNION {[D -> [1 .. 3 -> Int]] : D \in {DOMAIN c : c \in Terminals}}

LEMMA Three == 1 .. 3 = {1, 2, 3}
OBVIOUS

LEMMA LeastOfThree ==
  ASSUME NEW a \in Int, NEW b \in Int, NEW c \in Int
  PROVE  /\ Min({a, b, c}) \in {a, b, c}
         /\ Min({a, b, c}) <= a /\ Min({a, b, c}) <= b /\ Min({a, b, c}) <= c
<1>1. \E x \in {a, b, c} : \A y \in {a, b, c} : x <= y
  <2>1. CASE a <= b /\ a <= c
    BY <2>1
  <2>2. CASE b <= a /\ b <= c
    BY <2>2
  <2>3. CASE c <= a /\ c <= b
    BY <2>3
  <2>4. QED
    BY <2>1, <2>2, <2>3
<1>2. /\ Min({a, b, c}) \in {a, b, c}
      /\ \A y \in {a, b, c} : Min({a, b, c}) <= y
  BY <1>1 DEF Min
<1>3. QED
  BY <1>2

LEMMA PerformanceInt ==
  ASSUME NEW spot \in Int, NEW reference \in Nat \ {0}
  PROVE  Performance(spot, reference) \in Int
<1>1. spot * Unit \in Int
  BY UnitAssumption
<1>2. QED
  BY <1>1 DEF Performance

LEMMA WorstFacts ==
  ASSUME NEW spots \in [1 .. 3 -> Int], NEW references \in Spots3
  PROVE  /\ Worst(spots, references) \in Int
         /\ \A k \in 1 .. 3 :
              /\ Performance(spots[k], references[k]) \in Int
              /\ Worst(spots, references) <= Performance(spots[k], references[k])
         /\ \E k \in 1 .. 3 :
              Worst(spots, references) = Performance(spots[k], references[k])
<1> DEFINE P(k) == Performance(spots[k], references[k])
<1>1. \A k \in 1 .. 3 : P(k) \in Int
  BY PerformanceInt DEF Spots3
<1>2. DOMAIN references = 1 .. 3
  BY DEF Spots3
<1>3. {P(k) : k \in DOMAIN references} = {P(1), P(2), P(3)}
  BY <1>2, Three
<1>4. Worst(spots, references) = Min({P(1), P(2), P(3)})
  BY <1>3 DEF Worst
<1>5. P(1) \in Int /\ P(2) \in Int /\ P(3) \in Int
  BY <1>1
<1> HIDE DEF P
<1>6. /\ Worst(spots, references) \in {P(1), P(2), P(3)}
      /\ Worst(spots, references) <= P(1) /\ Worst(spots, references) <= P(2)
      /\ Worst(spots, references) <= P(3)
  <2> DEFINE a == P(1)
             b == P(2)
             c == P(3)
  <2>1. a \in Int /\ b \in Int /\ c \in Int
    BY <1>5
  <2> HIDE DEF a, b, c
  <2>2. /\ Min({a, b, c}) \in {a, b, c}
        /\ Min({a, b, c}) <= a /\ Min({a, b, c}) <= b /\ Min({a, b, c}) <= c
    BY <2>1, LeastOfThree
  <2>3. QED
    BY <1>4, <2>2 DEF a, b, c
<1>7. /\ Worst(spots, references) \in Int
      /\ \A k \in 1 .. 3 : Worst(spots, references) <= P(k)
      /\ \E k \in 1 .. 3 : Worst(spots, references) = P(k)
  BY <1>5, <1>6
<1>8. QED
  BY <1>1, <1>7 DEF P

LEMMA IntrinsicIs ==
  ASSUME NEW worst \in Int, NEW strike \in Int
  PROVE  /\ Intrinsic(worst, strike)
              = IF strike >= worst THEN strike - worst ELSE 0
         /\ Intrinsic(worst, strike) \in Nat
<1> DEFINE gap == strike - worst
<1>1. gap \in Int /\ (gap >= 0 <=> strike >= worst)
  OBVIOUS
<1>2. Intrinsic(worst, strike) = Max({gap, 0})
  BY DEF Intrinsic
<1> HIDE DEF gap
<1>3. Max({gap, 0}) = IF gap >= 0 THEN gap ELSE 0
  BY <1>1, PairBounds
<1>4. QED
  BY <1>1, <1>2, <1>3 DEF gap

LEMMA FiniteCube ==
  ASSUME NEW T \in Cubes3
  PROVE  /\ IsFiniteSet(DOMAIN T)
         /\ \A p \in DOMAIN T : T[p] \in [1 .. 3 -> Int]
BY SizeAssumption DEF Cubes3

\* What a worst-of put pays on the paths of a cube, and that its price is the
\* sum.
Pays(T, references, strike) ==
  [p \in DOMAIN T |-> Intrinsic(Worst(T[p], references), strike)]
LEMMA PutIsSum ==
  ASSUME NEW T \in Cubes3, NEW references \in Spots3, NEW strike \in Int
  PROVE  /\ \A p \in DOMAIN T : Pays(T, references, strike)[p] \in Nat
         /\ PutOf(T, references, strike)
              = SumFunctionOnSet(Pays(T, references, strike), DOMAIN T)
         /\ PutOf(T, references, strike) \in Int
<1> DEFINE D == DOMAIN T
           pays == Pays(T, references, strike)
           sum == SumFunctionOnSet(pays, D)
           worst == [p \in D |-> Worst(T[p], references)]
<1>1. \A p \in D : pays[p] \in Nat
  BY FiniteCube, WorstFacts, IntrinsicIs DEF Pays
<1>2. sum \in Nat
  <2>1. IsFiniteSet(D)
    BY FiniteCube
  <2> HIDE DEF D, pays
  <2>2. QED
    BY <1>1, <2>1, SumNat
<1>3. SumOver(LAMBDA p : Intrinsic(worst[p], strike),
              {p \in D : Always(worst[p])}) = sum
  <2>1. {p \in D : Always(worst[p])} = D
    BY DEF Always
  <2>2. [p \in D |-> Intrinsic(worst[p], strike)] = pays
    BY DEF Pays
  <2>3. SumOver(LAMBDA p : Intrinsic(worst[p], strike), D)
          = SumFunction([p \in D |-> Intrinsic(worst[p], strike)])
    BY DEF SumOver
  <2>4. DOMAIN pays = D
    BY DEF Pays
  <2>5. QED
    BY <2>1, <2>2, <2>3, <2>4 DEF SumFunction
<1>4. PutOf(T, references, strike) = 0 - (0 - 1 * sum)
  BY <1>3 DEF PutOf, TerminalLegs
<1> HIDE DEF sum, pays, D, worst
<1>5. PutOf(T, references, strike) = sum
  BY <1>2, <1>4
<1>6. QED
  BY <1>1, <1>2, <1>5 DEF sum, pays, D

\* The structure of an instrument, its spots and its cubes.
LEMMA StructureFacts ==
  ASSUME CorpusOk, NEW s \in Baskets
  PROVE  /\ BasketSpots(s) \in Spots3
         /\ BasketTerminal(s) \in Cubes3
         /\ DOMAIN BasketTerminal(s) = DOMAIN corpus.terminal
         /\ \A p \in DOMAIN corpus.terminal : \A k \in 1 .. 3 :
              /\ BasketTerminal(s)[p][k] \in Nat
              /\ \E n \in 0 .. Underlyings - 1 :
                   /\ BasketTerminal(s)[p][k] = corpus.terminal[p][n]
                   /\ BasketSpots(s)[k] = Spot(n)
         /\ corpus.strike[s] \in Int
<1>1. \A k \in 1 .. 3 : corpus.basket[s][k] \in 0 .. Underlyings - 1
  BY DEF CorpusOk
<1>2. \A k \in 1 .. 3 : corpus.basket[s][k] \in Nat
  BY <1>1, SizeAssumption
<1>3. BasketSpots(s) \in Spots3
  BY <1>2 DEF BasketSpots, Spot, Spots3
<1>4. \A p \in DOMAIN corpus.terminal :
        corpus.terminal[p] \in [0 .. Underlyings - 1 -> Nat]
  <2> DEFINE cube == corpus.terminal
  <2>1. cube \in Terminals
    BY DEF CorpusOk
  <2> HIDE DEF cube
  <2>2. \A p \in DOMAIN cube : cube[p] \in [0 .. Underlyings - 1 -> Nat]
    BY <2>1, SizeAssumption, Zenon
  <2>3. QED
    BY <2>2 DEF cube
<1>5. \A p \in DOMAIN corpus.terminal : \A k \in 1 .. 3 :
        /\ BasketTerminal(s)[p][k] = corpus.terminal[p][corpus.basket[s][k]]
        /\ BasketTerminal(s)[p][k] \in Nat
  BY <1>1, <1>4 DEF BasketTerminal
<1>6. BasketTerminal(s) \in [DOMAIN corpus.terminal -> [1 .. 3 -> Int]]
  <2>1. ASSUME NEW p \in DOMAIN corpus.terminal
        PROVE  BasketTerminal(s)[p] \in [1 .. 3 -> Int]
    <3>1. BasketTerminal(s)[p]
            = [k \in 1 .. 3 |-> corpus.terminal[p][corpus.basket[s][k]]]
      BY DEF BasketTerminal
    <3>2. \A k \in 1 .. 3 : corpus.terminal[p][corpus.basket[s][k]] \in Int
      BY <1>5
    <3>3. QED
      BY <3>1, <3>2
  <2>2. QED
    BY <2>1 DEF BasketTerminal
<1>7. BasketTerminal(s) \in Cubes3
  BY <1>6 DEF Cubes3, CorpusOk
<1>8. DOMAIN BasketTerminal(s) = DOMAIN corpus.terminal
  BY DEF BasketTerminal
<1>9. \A k \in 1 .. 3 : BasketSpots(s)[k] = Spot(corpus.basket[s][k])
  BY DEF BasketSpots
<1>10. corpus.strike[s] \in Int
  BY DEF CorpusOk
<1>11. QED
  BY <1>1, <1>3, <1>5, <1>7, <1>8, <1>9, <1>10

LEMMA Stretched ==
  ASSUME NEW T \in Cubes3, NEW k \in 1 .. 3, NEW tenths \in Int
  PROVE  /\ Stretch(T, k, tenths) \in Cubes3
         /\ DOMAIN Stretch(T, k, tenths) = DOMAIN T
         /\ \A p \in DOMAIN T : \A j \in 1 .. 3 :
              Stretch(T, k, tenths)[p][j]
                = IF j = k THEN (T[p][k] * (10 + tenths)) \div 10
                  ELSE T[p][j]
<1> DEFINE M(p) == (T[p][k] * (10 + tenths)) \div 10
<1>1. \A p \in DOMAIN T : T[p] \in [1 .. 3 -> Int]
  BY FiniteCube
<1>2. ASSUME NEW p \in DOMAIN T PROVE M(p) \in Int
  <2> DEFINE x == T[p][k]
             y == 10 + tenths
  <2>1. x \in Int /\ y \in Int
    BY <1>1
  <2> HIDE DEF x, y
  <2>2. x * y \in Int
    BY <2>1
  <2>3. (x * y) \div 10 \in Int
    BY <2>2
  <2>4. QED
    BY <2>3 DEF x, y
<1>3. Stretch(T, k, tenths) = [p \in DOMAIN T |-> [T[p] EXCEPT ![k] = M(p)]]
  BY DEF Stretch
<1> HIDE DEF M
<1>4. /\ DOMAIN Stretch(T, k, tenths) = DOMAIN T
      /\ \A p \in DOMAIN T :
           /\ Stretch(T, k, tenths)[p] \in [1 .. 3 -> Int]
           /\ \A j \in 1 .. 3 : Stretch(T, k, tenths)[p][j]
                                  = IF j = k THEN M(p) ELSE T[p][j]
  BY <1>1, <1>2, <1>3
<1>5. Stretch(T, k, tenths) \in Cubes3
  BY <1>3, <1>4 DEF Cubes3
<1>6. QED
  BY <1>4, <1>5 DEF M

(***************************************************************************)
(* What an instrument adds to the checksums.                               *)
(***************************************************************************)
Put0(s) == PutOf(BasketTerminal(s), BasketSpots(s), corpus.strike[s])
PutAt(s, k, tenths) ==
  PutOf(Stretch(BasketTerminal(s), k, tenths), BasketSpots(s), corpus.strike[s])
BendOf(s, b) == (PutAt(s, 1, b) - 2 * Put0(s) + PutAt(s, 1, -b))
                  + (PutAt(s, 2, b) - 2 * Put0(s) + PutAt(s, 2, -b))
                  + (PutAt(s, 3, b) - 2 * Put0(s) + PutAt(s, 3, -b))

LEMMA BumpsAreInt == \A b \in Moves : b \in Int /\ -b \in Int
BY SizeAssumption DEF Moves, Bump

LEMMA PutsAreInt ==
  ASSUME CorpusOk, NEW s \in Baskets, NEW b \in Moves
  PROVE  /\ Put0(s) \in Int
         /\ \A k \in 1 .. 3 : PutAt(s, k, b) \in Int /\ PutAt(s, k, -b) \in Int
         /\ BendOf(s, b) \in Int
<1>1. /\ BasketSpots(s) \in Spots3 /\ BasketTerminal(s) \in Cubes3
      /\ corpus.strike[s] \in Int
  BY StructureFacts
<1>2. Put0(s) \in Int
  BY <1>1, PutIsSum DEF Put0
<1>3. ASSUME NEW k \in 1 .. 3, NEW tenths \in Int
      PROVE  PutAt(s, k, tenths) \in Int
  <2>1. Stretch(BasketTerminal(s), k, tenths) \in Cubes3
    BY <1>1, Stretched
  <2>2. QED
    BY <1>1, <2>1, PutIsSum DEF PutAt
<1>4. \A k \in 1 .. 3 : PutAt(s, k, b) \in Int /\ PutAt(s, k, -b) \in Int
  BY <1>3, BumpsAreInt
<1>5. BendOf(s, b) \in Int
  BY <1>2, <1>4 DEF BendOf
<1>6. QED
  BY <1>2, <1>4, <1>5

LEMMA PnlIsInt ==
  ASSUME CorpusOk, NEW s \in Baskets, NEW b \in Moves PROVE PnlOf(s, b) \in Int
<1> DEFINE T == BasketTerminal(s)
           Raise(p, k) == (T[p][k] * (10 + b)) \div 10
           U == [p \in DOMAIN T |-> [k \in 1 .. 3 |-> Raise(p, k)]]
<1>1. /\ BasketSpots(s) \in Spots3 /\ T \in Cubes3
      /\ corpus.strike[s] \in Int
  BY StructureFacts
<1>2. \A p \in DOMAIN T : T[p] \in [1 .. 3 -> Int]
  BY <1>1, FiniteCube
<1>3. ASSUME NEW p \in DOMAIN T, NEW k \in 1 .. 3 PROVE Raise(p, k) \in Int
  <2> DEFINE x == T[p][k]
             y == 10 + b
  <2>1. x \in Int /\ y \in Int
    BY <1>2, BumpsAreInt
  <2> HIDE DEF x, y, T
  <2>2. x * y \in Int
    BY <2>1
  <2>3. (x * y) \div 10 \in Int
    BY <2>2
  <2>4. QED
    BY <2>3 DEF x, y
<1>4. PnlOf(s, b) = PutOf(U, BasketSpots(s), corpus.strike[s])
                      - PutOf(T, BasketSpots(s), corpus.strike[s])
  BY DEF PnlOf
<1>5. DOMAIN T \in {DOMAIN c : c \in Terminals}
  BY <1>1 DEF Cubes3
<1> HIDE DEF T, Raise
<1>6. U \in [DOMAIN T -> [1 .. 3 -> Int]]
  BY <1>3
<1>7. U \in Cubes3
  BY <1>5, <1>6 DEF Cubes3
<1> HIDE DEF U
<1>8. /\ PutOf(U, BasketSpots(s), corpus.strike[s]) \in Int
      /\ PutOf(T, BasketSpots(s), corpus.strike[s]) \in Int
  BY <1>1, <1>7, PutIsSum
<1>9. QED
  BY <1>4, <1>8

\* On every path the stretched puts pay, together, at least twice the put.
LEMMA BendsUp ==
  ASSUME CorpusOk, NEW s \in Baskets, NEW k \in 1 .. 3, NEW bump \in Moves
  PROVE  PutAt(s, k, bump) + PutAt(s, k, -bump) >= 2 * Put0(s)
<1> DEFINE T == BasketTerminal(s)
           R == BasketSpots(s)
           K == corpus.strike[s]
           Up == Stretch(T, k, bump)
           Down == Stretch(T, k, -bump)
           D == DOMAIN T
           u == Pays(Up, R, K)
           d == Pays(Down, R, K)
           b == Pays(T, R, K)
<1>1. /\ R \in Spots3 /\ T \in Cubes3 /\ K \in Int
      /\ D = DOMAIN corpus.terminal /\ corpus.terminal \in Terminals
  BY StructureFacts DEF CorpusOk
<1>2. /\ Up \in Cubes3 /\ Down \in Cubes3 /\ DOMAIN Up = D /\ DOMAIN Down = D
      /\ \A p \in D : \A j \in 1 .. 3 :
           /\ Up[p][j] = IF j = k THEN (T[p][k] * (10 + bump)) \div 10
                         ELSE T[p][j]
           /\ Down[p][j] = IF j = k THEN (T[p][k] * (10 + (-bump))) \div 10
                           ELSE T[p][j]
  <2> HIDE DEF T
  <2>1. bump \in Int /\ -bump \in Int
    BY BumpsAreInt
  <2>2. ASSUME NEW tenths \in Int
        PROVE  LET U == Stretch(T, k, tenths)
               IN /\ U \in Cubes3 /\ DOMAIN U = D
                  /\ \A p \in D : \A j \in 1 .. 3 :
                       U[p][j] = IF j = k THEN (T[p][k] * (10 + tenths)) \div 10
                                 ELSE T[p][j]
    BY <1>1, Stretched, ZenonT(30)
  <2>3. QED
    BY <2>1, <2>2
<1>3. /\ \A p \in D : u[p] \in Nat /\ d[p] \in Nat /\ b[p] \in Nat
      /\ PutAt(s, k, bump) = SumFunctionOnSet(u, D)
      /\ PutAt(s, k, -bump) = SumFunctionOnSet(d, D)
      /\ Put0(s) = SumFunctionOnSet(b, D)
  <2>1. PutAt(s, k, bump) = PutOf(Up, R, K) /\ PutAt(s, k, -bump) = PutOf(Down, R, K)
        /\ Put0(s) = PutOf(T, R, K)
    BY DEF PutAt, Put0
  <2> HIDE DEF T, R, K, Up, Down
  <2>2. /\ \A p \in DOMAIN Up : Pays(Up, R, K)[p] \in Nat
        /\ PutOf(Up, R, K) = SumFunctionOnSet(Pays(Up, R, K), DOMAIN Up)
    BY <1>1, <1>2, PutIsSum
  <2>3. /\ \A p \in DOMAIN Down : Pays(Down, R, K)[p] \in Nat
        /\ PutOf(Down, R, K) = SumFunctionOnSet(Pays(Down, R, K), DOMAIN Down)
    BY <1>1, <1>2, PutIsSum
  <2>4. /\ \A p \in DOMAIN T : Pays(T, R, K)[p] \in Nat
        /\ PutOf(T, R, K) = SumFunctionOnSet(Pays(T, R, K), DOMAIN T)
    BY <1>1, PutIsSum
  <2> HIDE DEF D
  <2>5. DOMAIN Up = D /\ DOMAIN Down = D /\ DOMAIN T = D
    BY <1>2 DEF D
  <2>6. QED
    BY <2>1, <2>2, <2>3, <2>4, <2>5
<1>4. ASSUME NEW p \in D PROVE u[p] + d[p] >= 2 * b[p]
  <2> DEFINE wu == Worst(Up[p], R)
             wd == Worst(Down[p], R)
             w == Worst(T[p], R)
             P(j) == Performance(T[p][j], R[j])
             PU == Performance(Up[p][k], R[k])
             PD == Performance(Down[p][k], R[k])
  <2>1. /\ Up[p] \in [1 .. 3 -> Int] /\ Down[p] \in [1 .. 3 -> Int]
        /\ T[p] \in [1 .. 3 -> Int]
    <3> HIDE DEF T, Up, Down
    <3>1. QED
      BY <1>1, <1>2, <1>4, FiniteCube
  <2>2. /\ wu \in Int /\ wd \in Int /\ w \in Int
        /\ PU \in Int /\ PD \in Int
        /\ wu <= PU /\ wd <= PD
        /\ \A j \in 1 .. 3 : P(j) \in Int /\ (j # k => wu <= P(j) /\ wd <= P(j))
        /\ \E j \in 1 .. 3 : w = P(j)
    <3> HIDE DEF T, Up, Down, R
    <3>1. /\ wu \in Int
          /\ \A j \in 1 .. 3 : /\ Performance(Up[p][j], R[j]) \in Int
                               /\ wu <= Performance(Up[p][j], R[j])
      BY <1>1, <2>1, WorstFacts
    <3>2. /\ wd \in Int
          /\ \A j \in 1 .. 3 : /\ Performance(Down[p][j], R[j]) \in Int
                               /\ wd <= Performance(Down[p][j], R[j])
      BY <1>1, <2>1, WorstFacts
    <3>3. /\ w \in Int
          /\ \A j \in 1 .. 3 : P(j) \in Int
          /\ \E j \in 1 .. 3 : w = P(j)
      BY <1>1, <2>1, WorstFacts
    <3>4. \A j \in 1 .. 3 : j # k => Up[p][j] = T[p][j] /\ Down[p][j] = T[p][j]
      BY <1>2, <1>4
    <3> HIDE DEF wu, wd, w
    <3>5. QED
      BY <3>1, <3>2, <3>3, <3>4
  <2>3. PU + PD = 2 * P(k)
    <3>1. PICK n \in 0 .. Underlyings - 1 : /\ T[p][k] = corpus.terminal[p][n]
                                            /\ R[k] = Spot(n)
      BY <1>1, <1>4, StructureFacts
    <3>2. 10 + (-bump) = 10 - bump
      BY BumpsAreInt
    <3>3. Performance((corpus.terminal[p][n] * (10 + bump)) \div 10, Spot(n))
            + Performance((corpus.terminal[p][n] * (10 - bump)) \div 10, Spot(n))
            = 2 * Performance(corpus.terminal[p][n], Spot(n))
      BY <1>1, <1>4, BumpAssumption DEF Moves
    <3> HIDE DEF T, Up, Down, R
    <3>4. /\ Up[p][k] = (T[p][k] * (10 + bump)) \div 10
          /\ Down[p][k] = (T[p][k] * (10 - bump)) \div 10
      BY <1>2, <1>4, <3>2
    <3>5. QED
      BY <3>1, <3>3, <3>4
  <2>4. u[p] = Intrinsic(wu, K) /\ d[p] = Intrinsic(wd, K) /\ b[p] = Intrinsic(w, K)
    <3> HIDE DEF T, Up, Down, R, K
    <3>1. QED
      BY <1>2, <1>4 DEF Pays
  <2> HIDE DEF wu, wd, w, P, PU, PD, u, d, b, K
  <2>5. /\ u[p] = IF K >= wu THEN K - wu ELSE 0
        /\ d[p] = IF K >= wd THEN K - wd ELSE 0
        /\ b[p] = IF K >= w THEN K - w ELSE 0
    BY <1>1, <2>2, <2>4, IntrinsicIs
  <2>6. PICK j \in 1 .. 3 : w = P(j)
    BY <2>2
  <2>7. CASE j = k
    BY <1>1, <2>2, <2>3, <2>5, <2>6, <2>7
  <2>8. CASE j # k
    BY <1>1, <2>2, <2>5, <2>6, <2>8
  <2>9. QED
    BY <2>7, <2>8
<1>5. IsFiniteSet(D)
  BY <1>1, FiniteCube
<1> HIDE DEF T, R, K, Up, Down, D, u, d, b
<1>6. SumFunctionOnSet(u, D) + SumFunctionOnSet(d, D)
        >= 2 * SumFunctionOnSet(b, D)
  BY <1>3, <1>4, <1>5, SumMiddle
<1>7. QED
  BY <1>3, <1>6

LEMMA BendIsNat ==
  ASSUME CorpusOk, NEW s \in Baskets, NEW b \in Moves PROVE BendOf(s, b) >= 0
<1>1. /\ PutAt(s, 1, b) + PutAt(s, 1, -b) >= 2 * Put0(s)
      /\ PutAt(s, 2, b) + PutAt(s, 2, -b) >= 2 * Put0(s)
      /\ PutAt(s, 3, b) + PutAt(s, 3, -b) >= 2 * Put0(s)
  BY BendsUp, Three
<1>2. /\ Put0(s) \in Int
      /\ PutAt(s, 1, b) \in Int /\ PutAt(s, 1, -b) \in Int
      /\ PutAt(s, 2, b) \in Int /\ PutAt(s, 2, -b) \in Int
      /\ PutAt(s, 3, b) \in Int /\ PutAt(s, 3, -b) \in Int
  BY PutsAreInt, Three
<1>3. QED
  BY <1>1, <1>2 DEF BendOf

(***************************************************************************)
(* The checksums of a lane, after its first instruments.                   *)
(***************************************************************************)
Puts == [i \in Nat |-> IF corpus.unique = 0 THEN 0 ELSE Put0(Structure(i))]
Pnls(b) == [i \in Nat |-> IF corpus.unique = 0 THEN 0 ELSE PnlOf(Structure(i), b)]
Bends(b) == [i \in Nat |-> IF corpus.unique = 0 THEN 0 ELSE BendOf(Structure(i), b)]
SumTo(g, n) == SumFunctionOnSet(g, 0 .. n - 1)

LEMMA SumToFacts ==
  ASSUME NEW g, \A i \in Nat : g[i] \in Int, NEW n \in Nat
  PROVE  /\ SumTo(g, 0) = 0
         /\ SumTo(g, n) \in Int
         /\ SumTo(g, n + 1) = SumTo(g, n) + g[n]
<1>1. 0 .. 0 - 1 = {} /\ IsFiniteSet(0 .. n - 1)
  BY FS_Interval
<1>2. SumTo(g, 0) = 0
  BY <1>1, SumEmpty DEF SumTo
<1>3. SumTo(g, n) \in Int
  <2>1. \A y \in 0 .. n - 1 : g[y] \in Int
    OBVIOUS
  <2>2. QED
    BY <1>1, <2>1, SumTake DEF SumTo
<1>4. SumTo(g, n + 1) = SumTo(g, n) + g[n]
  <2> DEFINE b == n - 1
  <2>1. b \in Int /\ 0 <= b + 1 /\ b + 1 = n /\ n + 1 - 1 = n
    OBVIOUS
  <2>2. \A y \in 0 .. b + 1 : g[y] \in Int
    BY <2>1
  <2> HIDE DEF b
  <2>3. SumFunctionOnSet(g, 0 .. b + 1) = SumFunctionOnSet(g, 0 .. b) + g[b + 1]
    BY <2>1, <2>2, SumNext
  <2>4. QED
    BY <2>1, <2>3 DEF SumTo, b
<1>5. QED
  BY <1>2, <1>3, <1>4

LEMMA StructureIs ==
  ASSUME CorpusOk, corpus.unique # 0, NEW i \in Nat PROVE Structure(i) \in Baskets
<1>1. corpus.unique \in Nat \ {0}
  BY DEF CorpusOk
<1>2. QED
  BY <1>1 DEF Structure, Baskets

LEMMA SeriesFacts ==
  ASSUME CorpusOk, NEW i \in Nat, NEW b \in Moves
  PROVE  /\ Puts[i] \in Int /\ Pnls(b)[i] \in Int /\ Bends(b)[i] \in Nat
         /\ corpus.unique # 0 =>
              /\ Puts[i] = Put0(Structure(i))
              /\ Pnls(b)[i] = PnlOf(Structure(i), b)
              /\ Bends(b)[i] = BendOf(Structure(i), b)
<1>1. CASE corpus.unique = 0
  BY <1>1 DEF Puts, Pnls, Bends
<1>2. CASE corpus.unique # 0
  <2>1. Structure(i) \in Baskets
    BY <1>2, StructureIs
  <2>2. /\ Put0(Structure(i)) \in Int /\ PnlOf(Structure(i), b) \in Int
        /\ BendOf(Structure(i), b) \in Int /\ BendOf(Structure(i), b) >= 0
    BY <2>1, PutsAreInt, PnlIsInt, BendIsNat
  <2>3. QED
    BY <1>2, <2>2 DEF Puts, Pnls, Bends
<1>3. QED
  BY <1>1, <1>2

\* The sums of a series: whole, and of the bends never below zero.
LEMMA SeriesSums ==
  ASSUME CorpusOk, NEW n \in Nat, NEW b \in Moves
  PROVE  /\ SumTo(Puts, n) \in Int /\ SumTo(Puts, n + 1) = SumTo(Puts, n) + Puts[n]
         /\ SumTo(Pnls(b), n) \in Int
         /\ SumTo(Pnls(b), n + 1) = SumTo(Pnls(b), n) + Pnls(b)[n]
         /\ SumTo(Bends(b), n) \in Nat
         /\ SumTo(Bends(b), n + 1) = SumTo(Bends(b), n) + Bends(b)[n]
<1> DEFINE f == Puts
           g == Pnls(b)
           h == Bends(b)
<1>1. \A i \in Nat : f[i] \in Int /\ g[i] \in Int /\ h[i] \in Nat
  BY SeriesFacts
<1> HIDE DEF f, g, h
<1>2. \A i \in Nat : h[i] \in Int
  BY <1>1
<1>3. /\ SumTo(f, n) \in Int /\ SumTo(f, n + 1) = SumTo(f, n) + f[n]
      /\ SumTo(g, n) \in Int /\ SumTo(g, n + 1) = SumTo(g, n) + g[n]
      /\ SumTo(h, n + 1) = SumTo(h, n) + h[n]
  BY <1>1, <1>2, SumToFacts
<1>4. SumTo(h, n) \in Nat
  <2>1. \A i \in 0 .. n - 1 : h[i] \in Nat
    BY <1>1
  <2>2. IsFiniteSet(0 .. n - 1)
    BY FS_Interval
  <2>3. QED
    BY <2>1, <2>2, SumNat DEF SumTo
<1>5. QED
  BY <1>3, <1>4 DEF f, g, h

\* What the Python lane adds for an instrument of a structure.
LEMMA PythonAdds ==
  ASSUME CorpusOk, NEW s \in Baskets
  PROVE  /\ BasePv(s) = 0 - Put0(s)
         /\ \A k \in 1 .. 3 : FdDollar(s, k) \in Int
         /\ SumOver(LAMBDA k : FdGamma(s, k), 1 .. 3) = 0 - BendOf(s, Bump)
<1>1. /\ Put0(s) \in Int
      /\ \A k \in 1 .. 3 : PutAt(s, k, Bump) \in Int /\ PutAt(s, k, -Bump) \in Int
  BY PutsAreInt DEF Moves
<1>2. BasePv(s) = 0 - Put0(s)
  BY DEF BasePv, Put0
<1>3. ASSUME NEW k \in 1 .. 3
      PROVE  /\ FdDollar(s, k) \in Int
             /\ FdGamma(s, k)
                  = 0 - (PutAt(s, k, Bump) - 2 * Put0(s) + PutAt(s, k, -Bump))
             /\ FdGamma(s, k) \in Int
  <2> DEFINE up == PutAt(s, k, Bump)
             down == PutAt(s, k, -Bump)
             put == Put0(s)
  <2>1. /\ BumpedPv(s, k, Bump) = 0 - up /\ BumpedPv(s, k, -Bump) = 0 - down
    BY DEF BumpedPv, PutAt
  <2>2. /\ FdDollar(s, k) = (0 - up) - (0 - down)
        /\ FdGamma(s, k) = (0 - up) - 2 * (0 - put) + (0 - down)
    BY <1>2, <2>1 DEF FdDollar, FdGamma
  <2>3. up \in Int /\ down \in Int /\ put \in Int
    BY <1>1
  <2> HIDE DEF up, down, put
  <2>4. /\ FdDollar(s, k) \in Int
        /\ FdGamma(s, k) = 0 - (up - 2 * put + down)
        /\ FdGamma(s, k) \in Int
    BY <2>2, <2>3
  <2>5. QED
    BY <2>4 DEF up, down, put
<1> DEFINE g == [k \in 1 .. 3 |-> FdGamma(s, k)]
<1>4. SumOver(LAMBDA k : FdGamma(s, k), 1 .. 3) = g[1] + g[2] + g[3]
  <2>1. SumOver(LAMBDA k : FdGamma(s, k), 1 .. 3) = SumFunctionOnSet(g, 1 .. 3)
    BY DEF SumOver, SumFunction
  <2>2. g[1] \in Int /\ g[2] \in Int /\ g[3] \in Int
    BY <1>3
  <2> HIDE DEF g
  <2>3. QED
    BY <2>1, <2>2, SumThree
<1>5. g[1] + g[2] + g[3] = 0 - BendOf(s, Bump)
  <2> DEFINE a == PutAt(s, 1, Bump) - 2 * Put0(s) + PutAt(s, 1, -Bump)
             b == PutAt(s, 2, Bump) - 2 * Put0(s) + PutAt(s, 2, -Bump)
             c == PutAt(s, 3, Bump) - 2 * Put0(s) + PutAt(s, 3, -Bump)
  <2>1. g[1] = 0 - a /\ g[2] = 0 - b /\ g[3] = 0 - c
    BY <1>3
  <2>2. a \in Int /\ b \in Int /\ c \in Int
    BY <1>1
  <2>3. BendOf(s, Bump) = a + b + c
    BY DEF BendOf
  <2> HIDE DEF g, a, b, c
  <2>4. QED
    BY <2>1, <2>2, <2>3
<1>6. QED
  BY <1>2, <1>3, <1>4, <1>5

\* The checksums t of a lane after n instruments of the corpus.
LaneSums(lane, asked, priced, t, n) ==
  /\ t.pv = 0 - SumTo(Puts, n)
  /\ lane = "cpp" \/ asked.pnl => t.pnl = SumTo(Pnls(asked.bump), n)
  /\ t.gamma = IF lane = "cpp" THEN SumTo(Bends(asked.bump), n)
               ELSE IF priced THEN 0 - SumTo(Bends(asked.bump), n) ELSE 0
Lanes == {"python", "cpp"}
SumNames == {"pv", "delta", "gamma", "pnl"}
Asked(lane, asked) ==
  /\ lane \in Lanes /\ asked.sizes \in Sizes /\ asked.bump \in Moves
  /\ lane = "python" => asked.bump = Bump
Signed(lane, gamma) == IF lane = "python" THEN gamma <= 0 ELSE gamma >= 0
\* A lane has reported on the corpus, if the clamps leave its sizes alone.
Reported(lane, report) ==
  Clamps(report.sizes) = report.sizes =>
    /\ corpus = BuildCorpus(report.sizes)
    /\ LaneSums(lane, report, report.priced, report.sums, corpus.instruments)
RequestInv ==
  request # Idle =>
    /\ Asked(request.lane, request)
    /\ corpus = CorpusOf(request.lane, request.sizes)
    /\ processed \in Nat
    /\ DOMAIN sums = SumNames
    /\ LaneSums(request.lane, request, request.sensitivities, sums, processed)
    /\ \A lane \in DOMAIN reports : reports[lane].sizes = request.sizes
ReportsInv ==
  /\ DOMAIN reports \subseteq Lanes
  /\ \A lane \in DOMAIN reports :
       /\ Asked(lane, reports[lane])
       /\ Signed(lane, reports[lane].sums.gamma)
       /\ Reported(lane, reports[lane])
LaneInv == RequestInv /\ ReportsInv

LEMMA SameSeries ==
  ASSUME corpus' = corpus
  PROVE  Puts' = Puts /\ \A b : Pnls(b)' = Pnls(b) /\ Bends(b)' = Bends(b)
<1>1. \A s : /\ Put0(s)' = Put0(s)
             /\ \A b : PnlOf(s, b)' = PnlOf(s, b)
             /\ \A k, tenths : PutAt(s, k, tenths)' = PutAt(s, k, tenths)
  BY DEF Put0, PutAt, PnlOf, BasketTerminal, BasketSpots
<1>2. \A s, b : BendOf(s, b)' = BendOf(s, b)
  BY <1>1 DEF BendOf
<1>3. \A i : Structure(i)' = Structure(i)
  BY DEF Structure
<1>4. QED
  BY <1>1, <1>2, <1>3 DEF Puts, Pnls, Bends

LEMMA SameSums ==
  ASSUME corpus' = corpus
  PROVE  /\ \A lane, asked, priced, t, n :
              LaneSums(lane, asked, priced, t, n)'
                = LaneSums(lane, asked, priced, t, n)
         /\ \A lane, report : Reported(lane, report)' = Reported(lane, report)
<1>1. \A lane, asked, priced, t, n :
        LaneSums(lane, asked, priced, t, n)' = LaneSums(lane, asked, priced, t, n)
  BY SameSeries DEF LaneSums, SumTo
<1>2. QED
  BY <1>1 DEF Reported

LEMMA NothingYet ==
  ASSUME NEW g PROVE SumTo(g, 0) = 0
<1>1. 0 .. 0 - 1 = {}
  OBVIOUS
<1>2. QED
  BY <1>1, SumEmpty DEF SumTo

\* Outside the clamps nothing is claimed; inside, either lane builds the same.
LEMMA OneCorpus ==
  ASSUME NEW lane, NEW sizes, Clamps(sizes) = sizes
  PROVE  CorpusOf(lane, sizes) = BuildCorpus(sizes)
BY DEF CorpusOf

\* One instrument more, in either lane.
LEMMA InstrumentStep ==
  ASSUME CorpusOk, RequestInv, PriceInstrument
  PROVE  /\ DOMAIN sums' = SumNames
         /\ LaneSums(request.lane, request, request.sensitivities, sums',
                     processed + 1)
<1> DEFINE i == processed
           s == Structure(i)
           b == request.bump
<1>1. /\ i \in Nat /\ request.lane \in Lanes /\ b \in Moves
      /\ request.lane = "python" => b = Bump
      /\ DOMAIN sums = SumNames /\ i < corpus.instruments
      /\ LaneSums(request.lane, request, request.sensitivities, sums, i)
      /\ IF request.lane = "python" THEN PythonInstrument ELSE ParityInstrument
  BY DEF PriceInstrument, RequestInv, Asked
<1>2. corpus.unique # 0
  BY <1>1 DEF CorpusOk
<1>3. s \in Baskets
  BY <1>1, <1>2, StructureIs
<1>4. /\ Puts[i] = Put0(s) /\ Puts[i] \in Int
      /\ Pnls(b)[i] = PnlOf(s, b) /\ Pnls(b)[i] \in Int
      /\ Bends(b)[i] = BendOf(s, b) /\ Bends(b)[i] \in Int
  BY <1>1, <1>2, SeriesFacts
<1>5. /\ SumTo(Puts, i) \in Int /\ SumTo(Puts, i + 1) = SumTo(Puts, i) + Puts[i]
      /\ SumTo(Pnls(b), i) \in Int
      /\ SumTo(Pnls(b), i + 1) = SumTo(Pnls(b), i) + Pnls(b)[i]
      /\ SumTo(Bends(b), i) \in Int
      /\ SumTo(Bends(b), i + 1) = SumTo(Bends(b), i) + Bends(b)[i]
  <2>1. SumTo(Bends(b), i) \in Nat => SumTo(Bends(b), i) \in Int
    OBVIOUS
  <2>2. QED
    BY <1>1, <2>1, SeriesSums
<1> HIDE DEF i
<1>6. CASE request.lane = "python"
  <2> DEFINE priced == request.sensitivities
  <2>1. /\ DOMAIN sums' = SumNames
        /\ sums'.pv = sums.pv + BasePv(s)
        /\ sums'.pnl = IF request.pnl THEN sums.pnl + PnlOf(s, Bump) ELSE sums.pnl
        /\ sums'.gamma = IF priced THEN sums.gamma
                           + SumOver(LAMBDA k : FdGamma(s, k), 1 .. 3)
                         ELSE sums.gamma
    BY <1>1, <1>6 DEF PythonInstrument, i, SumNames
  <2>2. /\ BasePv(s) = 0 - Put0(s)
        /\ SumOver(LAMBDA k : FdGamma(s, k), 1 .. 3) = 0 - BendOf(s, b)
        /\ PnlOf(s, Bump) = PnlOf(s, b)
    BY <1>1, <1>3, <1>6, PythonAdds
  <2> HIDE DEF s, b
  <2>3. sums'.pv = 0 - SumTo(Puts, i + 1)
    BY <1>1, <1>4, <1>5, <2>1, <2>2 DEF LaneSums
  <2>4. request.pnl => sums'.pnl = SumTo(Pnls(b), i + 1)
    BY <1>1, <1>4, <1>5, <2>1, <2>2 DEF LaneSums, b
  <2>5. sums'.gamma = IF priced THEN 0 - SumTo(Bends(b), i + 1) ELSE 0
    <3>1. sums.gamma = IF priced THEN 0 - SumTo(Bends(b), i) ELSE 0
      BY <1>1, <1>6 DEF LaneSums, b
    <3>2. sums'.gamma = IF priced THEN sums.gamma + (0 - BendOf(s, b))
                        ELSE sums.gamma
      BY <2>1, <2>2
    <3> DEFINE total == SumTo(Bends(b), i)
               bend == BendOf(s, b)
               next == SumTo(Bends(b), i + 1)
    <3>3. total \in Int /\ bend \in Int /\ next = total + bend
      BY <1>4, <1>5
    <3> HIDE DEF total, bend, next
    <3>4. priced => (0 - total) + (0 - bend) = 0 - next
      BY <3>3
    <3>5. QED
      BY <3>1, <3>2, <3>4 DEF total, bend, next
  <2>6. QED
    BY <1>6, <2>1, <2>3, <2>4, <2>5 DEF LaneSums, i, b
<1>7. CASE request.lane = "cpp"
  <2> DEFINE bend == [k \in 1 .. 3 |-> PutAt(s, k, b) - 2 * Put0(s)
                                         + PutAt(s, k, -b)]
  <2>1. /\ DOMAIN sums' = SumNames
        /\ sums'.pv = sums.pv - Put0(s)
        /\ sums'.pnl = sums.pnl + PnlOf(s, b)
        /\ sums'.gamma = sums.gamma + SumOver(LAMBDA k : bend[k], 1 .. 3)
    <3>1. PICK delta :
            sums' = [sums EXCEPT !.pv = @ - Put0(s),
                     !.delta = delta,
                     !.gamma = @ + SumOver(LAMBDA k : bend[k], 1 .. 3),
                     !.pnl = @ + PnlOf(s, b)]
      BY <1>1, <1>7 DEF ParityInstrument, Put0, PutAt, i
    <3> HIDE DEF s, bend, b
    <3>2. QED
      BY <1>1, <3>1 DEF SumNames
  <2>2. /\ Put0(s) \in Int
        /\ \A k \in 1 .. 3 : PutAt(s, k, b) \in Int /\ PutAt(s, k, -b) \in Int
    BY <1>1, <1>3, PutsAreInt
  <2> HIDE DEF s, b
  <2>3. SumOver(LAMBDA k : bend[k], 1 .. 3) = BendOf(s, b)
    <3>1. SumOver(LAMBDA k : bend[k], 1 .. 3) = SumFunctionOnSet(bend, 1 .. 3)
      BY DEF SumOver, SumFunction
    <3>2. /\ bend[1] = PutAt(s, 1, b) - 2 * Put0(s) + PutAt(s, 1, -b)
          /\ bend[2] = PutAt(s, 2, b) - 2 * Put0(s) + PutAt(s, 2, -b)
          /\ bend[3] = PutAt(s, 3, b) - 2 * Put0(s) + PutAt(s, 3, -b)
      OBVIOUS
    <3>3. bend[1] \in Int /\ bend[2] \in Int /\ bend[3] \in Int
      BY <2>2
    <3> HIDE DEF bend
    <3>4. SumFunctionOnSet(bend, 1 .. 3) = bend[1] + bend[2] + bend[3]
      BY <3>3, SumThree
    <3>5. QED
      BY <3>1, <3>2, <3>4 DEF BendOf
  <2> HIDE DEF bend
  <2>4. /\ sums.pv = 0 - SumTo(Puts, i) /\ sums.pnl = SumTo(Pnls(b), i)
        /\ sums.gamma = SumTo(Bends(b), i)
    BY <1>1, <1>7 DEF LaneSums, b
  <2>5. sums'.pv = 0 - SumTo(Puts, i + 1)
    BY <1>4, <1>5, <2>1, <2>2, <2>4
  <2>6. /\ sums'.pnl = SumTo(Pnls(b), i + 1)
        /\ sums'.gamma = SumTo(Bends(b), i + 1)
    BY <1>4, <1>5, <2>1, <2>3, <2>4
  <2>7. QED
    BY <1>7, <2>1, <2>5, <2>6 DEF LaneSums, i, b
<1>8. QED
  BY <1>1, <1>6, <1>7 DEF Lanes

\* A request that starts, beside reports of the same sizes.
LEMMA StartStep ==
  ASSUME ReportsInv, BenchStart
  PROVE  RequestInv' /\ ReportsInv'
<1>1. PICK asked : /\ Begin(asked)
                   /\ asked.lane \in {"python", "cpp"}
                   /\ asked.sizes \in Sizes /\ asked.bump \in Moves
                   /\ asked.lane = "python" => asked.bump = Bump
  BY Started
<1>2. /\ request' = asked /\ corpus' = CorpusOf(asked.lane, asked.sizes)
      /\ processed' = 0 /\ sums' = NoSums /\ reports' = reports
      /\ \A lane \in DOMAIN reports : reports[lane].sizes = asked.sizes
  BY <1>1 DEF Begin
<1>3. Asked(request.lane, request)'
  BY <1>1, <1>2 DEF Asked, Lanes, Moves, Sizes
<1>4. LaneSums(request.lane, request, request.sensitivities, sums, processed)'
  <2>1. /\ SumTo(Puts', 0) = 0 /\ SumTo(Pnls(asked.bump)', 0) = 0
        /\ SumTo(Bends(asked.bump)', 0) = 0
    BY NothingYet
  <2>2. sums'.pv = 0 /\ sums'.pnl = 0 /\ sums'.gamma = 0
    BY <1>2 DEF NoSums
  <2>3. SumTo(Puts, 0)' = 0 /\ SumTo(Pnls(asked.bump), 0)' = 0
        /\ SumTo(Bends(asked.bump), 0)' = 0
    BY <2>1 DEF SumTo
  <2>4. QED
    BY <1>2, <2>2, <2>3 DEF LaneSums, Pnls, Bends, SumTo
<1>5. DOMAIN sums' = SumNames
  BY <1>2 DEF NoSums, SumNames
<1>6. RequestInv'
  BY <1>2, <1>3, <1>4, <1>5 DEF RequestInv
<1>7. ASSUME NEW lane \in DOMAIN reports
      PROVE  Reported(lane, reports[lane])'
  <2>1. CASE Clamps(asked.sizes) = asked.sizes
    <3>1. corpus' = BuildCorpus(asked.sizes)
      BY <1>2, <2>1, OneCorpus
    <3>2. corpus = BuildCorpus(asked.sizes) /\ Reported(lane, reports[lane])
      BY <1>2, <2>1 DEF ReportsInv, Reported
    <3>3. corpus' = corpus
      BY <3>1, <3>2
    <3>4. QED
      BY <1>2, <3>2, <3>3, SameSums
  <2>2. CASE Clamps(asked.sizes) # asked.sizes
    BY <1>2, <2>2 DEF Reported
  <2>3. QED
    BY <2>1, <2>2
<1>8. ReportsInv'
  BY <1>2, <1>7 DEF ReportsInv, Asked, Signed, Moves, Sizes
<1>9. QED
  BY <1>6, <1>8

\* A lane reports: its gamma has its sign, and it reports on this corpus.
LEMMA FinishStep ==
  ASSUME CorpusOk, RequestInv, ReportsInv, Finish
  PROVE  RequestInv' /\ ReportsInv'
<1>1. PICK method : reports' = With(reports, request.lane,
                      [sums |-> sums, method |-> method,
                       sizes |-> request.sizes, hybrid |-> request.hybrid,
                       priced |-> request.sensitivities,
                       pnl |-> request.pnl, bump |-> request.bump])
  BY DEF Finish
<1>2. /\ request # Idle /\ request' = Idle /\ corpus' = corpus
      /\ processed = corpus.instruments
  BY DEF Finish
<1>3. DOMAIN reports' = DOMAIN reports \cup {request.lane}
  BY <1>1 DEF With
<1>4. /\ Asked(request.lane, request)
      /\ corpus = CorpusOf(request.lane, request.sizes)
      /\ LaneSums(request.lane, request, request.sensitivities, sums,
                  corpus.instruments)
  BY <1>2 DEF RequestInv
<1>5. Signed(request.lane, sums.gamma)
  <2> DEFINE total == SumTo(Bends(request.bump), corpus.instruments)
  <2>1. total \in Nat
    BY <1>4, SeriesSums DEF CorpusOk, Asked
  <2>2. sums.gamma = IF request.lane = "cpp" THEN total
                     ELSE IF request.sensitivities THEN 0 - total ELSE 0
    BY <1>4 DEF LaneSums
  <2> HIDE DEF total
  <2>3. QED
    BY <1>4, <2>1, <2>2 DEF Signed, Asked, Lanes
<1>6. ASSUME NEW lane \in DOMAIN reports'
      PROVE  /\ lane \in Lanes
             /\ Asked(lane, reports'[lane])
             /\ Signed(lane, reports'[lane].sums.gamma)
             /\ Reported(lane, reports'[lane])
  <2>1. CASE lane = request.lane
    <3> DEFINE report == reports'[lane]
    <3>1. /\ report.pnl = request.pnl /\ report.bump = request.bump
          /\ report.sizes = request.sizes
          /\ report.priced = request.sensitivities /\ report.sums = sums
      BY <1>1, <1>3, <2>1 DEF With
    <3> HIDE DEF report
    <3>2. Asked(lane, report) /\ Signed(lane, report.sums.gamma) /\ lane \in Lanes
      BY <1>4, <1>5, <2>1, <3>1 DEF Asked
    <3>3. LaneSums(lane, report, report.priced, report.sums, corpus.instruments)
      BY <1>4, <2>1, <3>1 DEF LaneSums
    <3>4. Reported(lane, report)
      BY <1>4, <3>1, <3>3, OneCorpus DEF Reported
    <3>5. QED
      BY <3>2, <3>4 DEF report
  <2>2. CASE lane # request.lane
    <3>1. lane \in DOMAIN reports /\ reports'[lane] = reports[lane]
      BY <1>1, <1>3, <1>6, <2>2 DEF With
    <3>2. QED
      BY <3>1 DEF ReportsInv
  <2>3. QED
    BY <2>1, <2>2
<1>7. \A lane \in DOMAIN reports' : Reported(lane, reports[lane])'
  <2>1. ASSUME NEW lane \in DOMAIN reports'
        PROVE  Reported(lane, reports[lane])'
    <3>1. Reported(lane, reports'[lane])
      BY <1>6
    <3>2. QED
      BY <1>2, <3>1, SameSeries DEF Reported, LaneSums, SumTo
  <2>2. QED
    BY <2>1
<1>8. ReportsInv'
  BY <1>3, <1>6, <1>7 DEF ReportsInv, Asked, Signed, Moves, Sizes
<1>9. RequestInv'
  BY <1>2 DEF RequestInv
<1>10. QED
  BY <1>8, <1>9

LEMMA LaneStep ==
  ASSUME CorpusInv, LaneInv, [Next]_vars
  PROVE  LaneInv'
<1>1. CASE UNCHANGED benchVars
  BY <1>1, SameSums
     DEF benchVars, LaneInv, RequestInv, ReportsInv, Asked, Signed, Moves, Sizes
<1>2. CASE BenchStart
  BY <1>2, StartStep DEF LaneInv
<1>3. CASE PriceInstrument
  <2>1. /\ request # Idle /\ request' = request /\ corpus' = corpus
        /\ reports' = reports /\ processed' = processed + 1
    BY <1>3 DEF PriceInstrument
  <2>2. /\ DOMAIN sums' = SumNames
        /\ LaneSums(request.lane, request, request.sensitivities, sums',
                    processed + 1)
    BY <1>3, <2>1, InstrumentStep DEF CorpusInv, LaneInv
  <2>3. LaneSums(request.lane, request, request.sensitivities, sums, processed)'
    BY <2>1, <2>2, SameSeries DEF LaneSums, SumTo
  <2>4. RequestInv'
    BY <2>1, <2>2, <2>3 DEF LaneInv, RequestInv, Asked, Moves, Sizes
  <2>5. ReportsInv'
    BY <2>1, SameSums DEF LaneInv, ReportsInv, Asked, Signed, Moves, Sizes
  <2>6. QED
    BY <2>4, <2>5 DEF LaneInv
<1>4. CASE Finish
  <2>1. CorpusOk
    BY <1>4 DEF Finish, CorpusInv
  <2>2. QED
    BY <1>4, <2>1, FinishStep DEF LaneInv
<1>5. CASE Forget
  <2>1. DOMAIN reports' = {} /\ request' = Idle
    BY <1>5 DEF Forget
  <2>2. QED
    BY <2>1 DEF LaneInv, RequestInv, ReportsInv
<1>6. QED
  BY <1>1, <1>2, <1>3, <1>4, <1>5, BenchSteps

LEMMA LanesInductive == Spec => [](CorpusInv /\ LaneInv)
<1>1. Init => LaneInv
  <2>1. Init => DOMAIN reports = {} /\ request = Idle
    BY DEF Init, BenchInit
  <2>2. QED
    BY <2>1 DEF LaneInv, RequestInv, ReportsInv
<1>2. CorpusInv /\ LaneInv /\ [Next]_vars => LaneInv'
  BY LaneStep
<1>3. QED
  BY <1>1, <1>2, CorpusInductive, PTL DEF Spec

\* Asked for the same sizes, which the clamps of run_benchmark leave alone,
\* both lanes report one value and, of moves of one size, one P&L: however
\* many instruments there are and whatever the Python lane caches between
\* them.  (Of the deltas the code promises as much, and does not keep it:
\* LanesGiveSameDelta.)
THEOREM LanesAgree == Spec => []LanesPriceAlike
<1>1. LaneInv => LanesPriceAlike
  <2> DEFINE python == reports["python"]
             cpp == reports["cpp"]
             n == corpus.instruments
  <2>1. SUFFICES ASSUME LaneInv, {"python", "cpp"} \subseteq DOMAIN reports,
                        python.sizes = cpp.sizes,
                        Clamps(python.sizes) = python.sizes
                 PROVE  /\ python.sums.pv = cpp.sums.pv
                        /\ python.pnl /\ python.bump = cpp.bump =>
                             python.sums.pnl = cpp.sums.pnl
    BY DEF LanesPriceAlike, Both
  <2>2. Reported("python", python) /\ Reported("cpp", cpp)
    BY <2>1 DEF LaneInv, ReportsInv
  <2> HIDE DEF python, cpp
  <2>3. /\ LaneSums("python", python, python.priced, python.sums, n)
        /\ LaneSums("cpp", cpp, cpp.priced, cpp.sums, n)
    BY <2>1, <2>2 DEF Reported
  <2>4. QED
    BY <2>3 DEF LaneSums
<1>2. QED
  BY <1>1, LanesInductive, PTL

\* A gamma summed over the instruments never has the wrong sign: a bump up and
\* a bump down of a worst-of put are worth at least twice the put, on every
\* path and for every name.
THEOREM Convex == Spec => []BumpsAreConvex
<1>1. LaneInv => BumpsAreConvex
  BY DEF LaneInv, ReportsInv, Signed, BumpsAreConvex
<1>2. QED
  BY <1>1, LanesInductive, PTL

(***************************************************************************)
(* A hybrid delta is a whole number.                                       *)
(***************************************************************************)
LEMMA ClipInt ==
  ASSUME NEW x \in Int, NEW low \in Int, NEW high \in Int
  PROVE  Clip(x, low, high) \in Int
<1>1. Min({x, high}) \in Int
  BY PairBounds
<1>2. Max({low, Min({x, high})}) \in Int
  BY <1>1, PairBounds
<1>3. QED
  BY <1>2 DEF Clip

LEMMA WeightInt ==
  ASSUME NEW distance \in Int PROVE SmoothWeight(distance) \in Int
<1>1. Unit \in Int /\ Width \in Int /\ Width > 0
  BY UnitAssumption, WidthAssumption DEF Width
<1>2. 8 * Width \in Int /\ 8 * Width > 0 /\ distance * Unit \in Int
  BY <1>1
<1>3. (distance * Unit) \div (8 * Width) \in Int /\ Unit \div 2 \in Int
  BY <1>1, <1>2
<1>4. (Unit \div 2) + (distance * Unit) \div (8 * Width) \in Int
  BY <1>3
<1>5. QED
  BY <1>1, <1>4, ClipInt DEF SmoothWeight

LEMMA PartInt ==
  ASSUME NEW g, NEW S, NEW P \in SUBSET S, IsFiniteSet(S),
         \A y \in P : g[y] \in Int
  PROVE  SumFunctionOnSet(g, P) \in Int
<1>1. IsFiniteSet(P)
  BY FS_Subset
<1>2. QED
  BY <1>1, SumTake

LEMMA HybridInt ==
  ASSUME NEW T \in Cubes3, NEW R \in Spots3, NEW strike \in Int, NEW smoothing,
         NEW k \in 1 .. 3
  PROVE  HybridDelta(T, R, strike, smoothing).value[k] \in Int
<1> DEFINE D == DOMAIN T
           kinks == Transition(T, R, strike, IF smoothing THEN Width ELSE 0)
           stable == D \ kinks
           adjoint == XadAvailable /\ stable # {}
           V == [p \in stable |-> T[p]]
           Stable == IF ~adjoint THEN 0
                     ELSE AdjointDollar(V, R, strike, 1, k, Always)
           Slopes == {p \in kinks : /\ Worst(T[p], R) < strike
                                    /\ WorstName(T[p], R) = k}
           Smooth == 0 - SumOver(LAMBDA p : SmoothWeight(strike - Worst(T[p], R)),
                                 {p \in D : WorstName(T[p], R) = k})
<1>1. IsFiniteSet(D) /\ \A p \in D : T[p] \in [1 .. 3 -> Int]
  BY FiniteCube
<1>2. HybridDelta(T, R, strike, smoothing).value[k]
        = IF smoothing THEN Smooth ELSE Stable + (0 - Unit * Cardinality(Slopes))
  BY DEF HybridDelta
<1>3. kinks \subseteq D
  BY DEF Transition
<1>4. Cardinality(Slopes) \in Nat
  <2>1. Slopes \subseteq D
    BY <1>3
  <2> HIDE DEF Slopes, D
  <2>2. QED
    BY <1>1, <2>1, FS_Subset, FS_CardinalityType
<1>5. AdjointDollar(V, R, strike, 1, k, Always) \in Int
  <2> DEFINE P == {p \in DOMAIN V : LET worst == Worst(V[p], R)
                                    IN /\ worst < strike
                                       /\ Always(worst)
                                       /\ WorstName(V[p], R) = k}
             g == [p \in P |-> Performance(V[p][k], R[k])]
  <2>1. AdjointDollar(V, R, strike, 1, k, Always) = 0 - 1 * SumFunctionOnSet(g, P)
    BY DEF AdjointDollar, SumOver, SumFunction
  <2>2. P \subseteq D
    OBVIOUS
  <2>3. \A p \in P : g[p] \in Int
    <3>1. ASSUME NEW p \in P PROVE Performance(V[p][k], R[k]) \in Int
      <4>1. V[p] = T[p] /\ p \in D
        OBVIOUS
      <4>2. V[p][k] \in Int /\ R[k] \in Nat \ {0}
        BY <1>1, <4>1 DEF Spots3
      <4>3. QED
        BY <4>2, PerformanceInt
    <3>2. QED
      BY <3>1
  <2> HIDE DEF P, g, D
  <2>4. SumFunctionOnSet(g, P) \in Int
    BY <1>1, <2>2, <2>3, PartInt
  <2>5. QED
    BY <2>1, <2>4
<1>6. Smooth \in Int
  <2> DEFINE P == {p \in D : WorstName(T[p], R) = k}
             g == [p \in P |-> SmoothWeight(strike - Worst(T[p], R))]
  <2>1. Smooth = 0 - SumFunctionOnSet(g, P)
    BY DEF SumOver, SumFunction
  <2>2. \A p \in P : g[p] \in Int
    <3>1. ASSUME NEW p \in P PROVE SmoothWeight(strike - Worst(T[p], R)) \in Int
      <4>1. Worst(T[p], R) \in Int
        BY <1>1, WorstFacts
      <4>2. strike - Worst(T[p], R) \in Int
        BY <4>1
      <4>3. QED
        BY <4>2, WeightInt
    <3>2. QED
      BY <3>1
  <2>3. P \subseteq D
    OBVIOUS
  <2> HIDE DEF P, g, D, Smooth
  <2>4. SumFunctionOnSet(g, P) \in Int
    BY <1>1, <2>2, <2>3, PartInt
  <2>5. QED
    BY <2>1, <2>4
<1>7. Stable \in Int
  BY <1>5
<1> HIDE DEF Smooth, Stable, Slopes
<1>8. Unit * Cardinality(Slopes) \in Int
  BY <1>4, UnitAssumption
<1>9. QED
  BY <1>2, <1>6, <1>7, <1>8

(***************************************************************************)
(* The risk rows.                                                          *)
(***************************************************************************)
Row == [instrument : Nat, name : Int, base : Int, delta : Int]
Dels(r) == [n \in DOMAIN r |-> r[n].delta]
Bases(r) == [n \in DOMAIN r |-> r[n].base]
AddUp(r, t) ==
  /\ SumFunctionOnSet(Dels(r), DOMAIN r) = t.delta
  /\ SumFunctionOnSet(Bases(r), DOMAIN r) = 3 * t.pv
RowsInv ==
  /\ rows \in Seq(Row)
  /\ request # Idle =>
       /\ request.lane = "cpp" => ~request.emitRows
       /\ request.lane = "python" => sums.delta \in Int /\ sums.pv \in Int
       /\ IF request.emitRows THEN AddUp(rows, sums) ELSE rows = <<>>
  /\ rows # <<>> => AddUp(rows, sums)

\* Three rows more.
LEMMA SumThreeMore ==
  ASSUME NEW g, NEW m \in Nat, \A y \in 1 .. m + 3 : g[y] \in Int
  PROVE  SumFunctionOnSet(g, 1 .. m + 3)
           = SumFunctionOnSet(g, 1 .. m) + g[m + 1] + g[m + 2] + g[m + 3]
<1>1. ASSUME NEW b \in m .. m + 2
      PROVE  /\ SumFunctionOnSet(g, 1 .. b + 1)
                  = SumFunctionOnSet(g, 1 .. b) + g[b + 1]
  <2>1. b \in Int /\ 1 <= b + 1 /\ \A y \in 1 .. b + 1 : g[y] \in Int
    OBVIOUS
  <2>2. QED
    BY <2>1, SumNext
<1>2. /\ SumFunctionOnSet(g, 1 .. m + 1) = SumFunctionOnSet(g, 1 .. m) + g[m + 1]
      /\ SumFunctionOnSet(g, 1 .. (m + 1) + 1)
           = SumFunctionOnSet(g, 1 .. m + 1) + g[(m + 1) + 1]
      /\ SumFunctionOnSet(g, 1 .. (m + 2) + 1)
           = SumFunctionOnSet(g, 1 .. m + 2) + g[(m + 2) + 1]
  BY <1>1
<1>3. (m + 1) + 1 = m + 2 /\ (m + 2) + 1 = m + 3
  OBVIOUS
<1>4. QED
  BY <1>2, <1>3

LEMMA ThreeAppended ==
  ASSUME NEW S, NEW r \in Seq(S), NEW add \in [1 .. 3 -> S]
  PROVE  LET m == Len(r)
             s == r \o add
         IN /\ m \in Nat /\ DOMAIN r = 1 .. m
            /\ s \in Seq(S) /\ DOMAIN s = 1 .. m + 3
            /\ \A n \in 1 .. m : s[n] = r[n] /\ r[n] \in S
            /\ s[m + 1] = add[1] /\ s[m + 2] = add[2] /\ s[m + 3] = add[3]
<1> DEFINE m == Len(r)
           s == r \o add
<1>1. add \in Seq(S)
  <2>1. add \in UNION {[1 .. n -> S] : n \in Nat}
    OBVIOUS
  <2>2. Seq(S) = UNION {[1 .. n -> S] : n \in Nat}
    BY SeqDef
  <2>3. QED
    BY <2>1, <2>2
<1>2. DOMAIN add = 1 .. 3 /\ DOMAIN add = 1 .. Len(add) /\ Len(add) \in Nat
  BY <1>1, LenProperties
<1>3. Len(add) = 3
  BY <1>2
<1>4. m \in Nat /\ DOMAIN r = 1 .. m /\ r \in [1 .. m -> S]
  BY LenProperties
<1>5. /\ s \in Seq(S) /\ Len(s) = m + 3
      /\ \A i \in 1 .. m + 3 : s[i] = IF i <= m THEN r[i] ELSE add[i - m]
  <2>1. /\ r \o add \in Seq(S) /\ Len(r \o add) = Len(r) + Len(add)
        /\ \A i \in 1 .. Len(r) + Len(add) :
             (r \o add)[i] = IF i <= Len(r) THEN r[i] ELSE add[i - Len(r)]
    BY <1>1, ConcatProperties
  <2>2. QED
    BY <1>3, <2>1
<1>6. DOMAIN s = 1 .. m + 3
  BY <1>5, LenProperties
<1> HIDE DEF m, s
<1>7. \A n \in 1 .. m : s[n] = r[n] /\ r[n] \in S
  BY <1>4, <1>5
<1>8. s[m + 1] = add[1] /\ s[m + 2] = add[2] /\ s[m + 3] = add[3]
  <2>1. ASSUME NEW k \in 1 .. 3 PROVE s[m + k] = add[k]
    <3> DEFINE i == m + k
    <3>1. i \in 1 .. m + 3 /\ ~(i <= m) /\ i - m = k
      BY <1>4
    <3> HIDE DEF i
    <3>2. s[i] = add[k]
      BY <1>5, <3>1
    <3>3. QED
      BY <3>2 DEF i
  <2>2. QED
    BY <2>1
<1>9. QED
  BY <1>4, <1>5, <1>6, <1>7, <1>8 DEF m, s

\* Appending an instrument's three rows adds its delta, and its value thrice.
LEMMA RowsGrow ==
  ASSUME NEW r \in Seq(Row), NEW add \in [1 .. 3 -> Row],
         NEW s, s = r \o add
  PROVE  /\ SumFunctionOnSet(Dels(s), DOMAIN s)
              = SumFunctionOnSet(Dels(r), DOMAIN r)
                  + add[1].delta + add[2].delta + add[3].delta
         /\ SumFunctionOnSet(Bases(s), DOMAIN s)
              = SumFunctionOnSet(Bases(r), DOMAIN r)
                  + add[1].base + add[2].base + add[3].base
<1> DEFINE m == Len(r)
<1>1. add[1] \in Row /\ add[2] \in Row /\ add[3] \in Row
  OBVIOUS
<1>2. m \in Nat /\ DOMAIN r = 1 .. m
  BY ThreeAppended
<1>3. /\ DOMAIN s = 1 .. m + 3
      /\ \A n \in 1 .. m : s[n] = r[n] /\ r[n] \in Row
      /\ s[m + 1] = add[1] /\ s[m + 2] = add[2] /\ s[m + 3] = add[3]
  BY ThreeAppended
<1> HIDE DEF m
<1>4. \A n \in 1 .. m + 3 : s[n] \in Row
  <2>1. ASSUME NEW n \in 1 .. m + 3
        PROVE  n \in 1 .. m \/ n = m + 1 \/ n = m + 2 \/ n = m + 3
    BY <1>2
  <2>2. QED
    BY <1>1, <1>3, <2>1
<1>5. \A x \in Row : x.delta \in Int /\ x.base \in Int
  BY DEF Row
<1>6. \A n \in 1 .. m + 3 : /\ Dels(s)[n] = s[n].delta /\ Dels(s)[n] \in Int
                            /\ Bases(s)[n] = s[n].base /\ Bases(s)[n] \in Int
  BY <1>3, <1>4, <1>5 DEF Dels, Bases
<1>7. \A n \in 1 .. m : /\ Dels(r)[n] = Dels(s)[n] /\ Dels(r)[n] \in Int
                        /\ Bases(r)[n] = Bases(s)[n] /\ Bases(r)[n] \in Int
  <2>1. ASSUME NEW n \in 1 .. m
        PROVE  /\ Dels(r)[n] = s[n].delta /\ Bases(r)[n] = s[n].base
               /\ n \in 1 .. m + 3
    BY <1>2, <1>3 DEF Dels, Bases
  <2>2. QED
    BY <1>6, <2>1
<1>8. /\ Dels(s)[m + 1] = add[1].delta /\ Dels(s)[m + 2] = add[2].delta
      /\ Dels(s)[m + 3] = add[3].delta
      /\ Bases(s)[m + 1] = add[1].base /\ Bases(s)[m + 2] = add[2].base
      /\ Bases(s)[m + 3] = add[3].base
  <2> DEFINE i == m + 1
             j == m + 2
             l == m + 3
  <2>1. /\ i \in 1 .. m + 3 /\ j \in 1 .. m + 3 /\ l \in 1 .. m + 3
        /\ s[i] = add[1] /\ s[j] = add[2] /\ s[l] = add[3]
    BY <1>2, <1>3
  <2> HIDE DEF i, j, l
  <2>2. /\ Dels(s)[i] = s[i].delta /\ Dels(s)[j] = s[j].delta
        /\ Dels(s)[l] = s[l].delta
        /\ Bases(s)[i] = s[i].base /\ Bases(s)[j] = s[j].base
        /\ Bases(s)[l] = s[l].base
    BY <1>6, <2>1
  <2>3. QED
    BY <2>1, <2>2 DEF i, j, l
<1>9. IsFiniteSet(1 .. m)
  BY <1>2, FS_Interval
<1>10. /\ SumFunctionOnSet(Dels(r), 1 .. m) = SumFunctionOnSet(Dels(s), 1 .. m)
      /\ SumFunctionOnSet(Bases(r), 1 .. m) = SumFunctionOnSet(Bases(s), 1 .. m)
  <2> DEFINE f == Dels(r)
             g == Dels(s)
             b == Bases(r)
             c == Bases(s)
             J == 1 .. m
  <2>1. \A y \in J : f[y] \in Int /\ g[y] = f[y]
    BY <1>7
  <2>2. \A y \in J : b[y] \in Int /\ c[y] = b[y]
    BY <1>7
  <2>3. IsFiniteSet(J)
    BY <1>9
  <2> HIDE DEF f, g, b, c, J
  <2>4. SumFunctionOnSet(f, J) = SumFunctionOnSet(g, J)
    BY <2>1, <2>3, SumSame
  <2>5. SumFunctionOnSet(b, J) = SumFunctionOnSet(c, J)
    BY <2>2, <2>3, SumSame
  <2>6. QED
    BY <2>4, <2>5 DEF f, g, b, c, J
<1>11. /\ SumFunctionOnSet(Dels(s), 1 .. m + 3)
            = SumFunctionOnSet(Dels(s), 1 .. m) + Dels(s)[m + 1]
                + Dels(s)[m + 2] + Dels(s)[m + 3]
       /\ SumFunctionOnSet(Bases(s), 1 .. m + 3)
            = SumFunctionOnSet(Bases(s), 1 .. m) + Bases(s)[m + 1]
                + Bases(s)[m + 2] + Bases(s)[m + 3]
  BY <1>2, <1>6, SumThreeMore
<1>12. QED
  BY <1>2, <1>3, <1>8, <1>10, <1>11

\* One instrument of the Python lane keeps its rows and its checksums together.
LEMMA RowsOfInstrument ==
  ASSUME CorpusOk, CacheInv, RowsInv, processed \in Nat, request # Idle,
         processed < corpus.instruments, request.lane = "python", PythonInstrument
  PROVE  /\ rows' \in Seq(Row)
         /\ sums'.delta \in Int /\ sums'.pv \in Int
         /\ IF request.emitRows THEN AddUp(rows', sums') ELSE rows' = <<>>
<1> DEFINE s == Structure(processed)
           hybrid == Hybrid(s)
           delta == [k \in 1 .. 3 |-> IF request.hybrid THEN hybrid.value[k]
                                      ELSE FdDollar(s, k)]
           priced == request.sensitivities
           kept == [k \in 1 .. 3 |-> IF priced THEN delta[k] ELSE 0]
           add == RowsOf(s, kept)
<1>1. s \in Baskets
  <2>1. corpus.unique # 0
    BY DEF CorpusOk
  <2>2. QED
    BY <2>1, StructureIs
<1>2. \A k \in 1 .. 3 : delta[k] \in Int
  <2>1. hybrid = Fresh(s)
    BY DEF Hybrid, CacheInv, Fresh
  <2>2. /\ BasketTerminal(s) \in Cubes3 /\ BasketSpots(s) \in Spots3
        /\ corpus.strike[s] \in Int
    BY <1>1, StructureFacts
  <2>3. \A k \in 1 .. 3 : Fresh(s).value[k] \in Int
    BY <2>2, HybridInt DEF Fresh
  <2>4. \A k \in 1 .. 3 : FdDollar(s, k) \in Int
    BY <1>1, PythonAdds
  <2> HIDE DEF hybrid, s
  <2>5. QED
    BY <2>1, <2>3, <2>4
<1>3. BasePv(s) \in Int
  <2>1. Put0(s) \in Int /\ BasePv(s) = 0 - Put0(s)
    <3> HIDE DEF s
    <3>1. QED
      BY <1>1, PutsAreInt, PythonAdds DEF Moves
  <2>2. QED
    BY <2>1
<1>4. SumOver(LAMBDA k : delta[k], 1 .. 3) = delta[1] + delta[2] + delta[3]
  <2> HIDE DEF delta
  <2> DEFINE g == [k \in 1 .. 3 |-> delta[k]]
  <2>1. SumOver(LAMBDA k : delta[k], 1 .. 3) = SumFunctionOnSet(g, 1 .. 3)
    BY DEF SumOver, SumFunction
  <2>2. g[1] = delta[1] /\ g[2] = delta[2] /\ g[3] = delta[3]
    OBVIOUS
  <2>3. g[1] \in Int /\ g[2] \in Int /\ g[3] \in Int
    BY <1>2
  <2> HIDE DEF g
  <2>4. QED
    BY <2>1, <2>2, <2>3, SumThree
<1>5. /\ sums'.pv = sums.pv + BasePv(s)
      /\ sums'.delta = IF priced THEN sums.delta
                         + SumOver(LAMBDA k : delta[k], 1 .. 3)
                       ELSE sums.delta
      /\ rows' = IF request.emitRows THEN rows \o add ELSE rows
  BY DEF PythonInstrument
<1>6. sums.delta \in Int /\ sums.pv \in Int
  BY DEF RowsInv
<1>7. \A k \in 1 .. 3 : kept[k] = (IF priced THEN delta[k] ELSE 0)
                        /\ kept[k] \in Int
  BY <1>2
<1>8. \A k \in 1 .. 3 : corpus.basket[s][k] \in Int
  BY <1>1, SizeAssumption DEF CorpusOk
<1> HIDE DEF kept, delta, s, priced
<1>9. /\ add = [k \in 1 .. 3 |-> [instrument |-> processed,
                                  name |-> corpus.basket[s][k],
                                  base |-> BasePv(s), delta |-> kept[k]]]
  BY DEF RowsOf
<1> HIDE DEF add
<1>10. /\ add \in [1 .. 3 -> Row]
       /\ \A k \in 1 .. 3 : add[k].base = BasePv(s) /\ add[k].delta = kept[k]
  BY <1>3, <1>7, <1>8, <1>9 DEF Row
<1>11. /\ delta[1] \in Int /\ delta[2] \in Int /\ delta[3] \in Int
       /\ sums'.delta = IF priced THEN sums.delta + (delta[1] + delta[2] + delta[3])
                        ELSE sums.delta
       /\ sums'.delta \in Int /\ sums'.pv \in Int
  <2>1. delta[1] \in Int /\ delta[2] \in Int /\ delta[3] \in Int
    BY <1>2
  <2>2. sums'.delta = IF priced THEN sums.delta + (delta[1] + delta[2] + delta[3])
                      ELSE sums.delta
    BY <1>4, <1>5
  <2>3. sums'.pv \in Int
    BY <1>3, <1>5, <1>6
  <2>4. QED
    BY <1>6, <2>1, <2>2, <2>3
<1>12. CASE request.emitRows
  <2>1. rows' = rows \o add /\ rows \in Seq(Row) /\ AddUp(rows, sums)
    BY <1>5, <1>12 DEF RowsInv
  <2>2. rows' \in Seq(Row)
    BY <1>10, <2>1, ThreeAppended
  <2>3. /\ SumFunctionOnSet(Dels(rows'), DOMAIN rows')
             = SumFunctionOnSet(Dels(rows), DOMAIN rows)
                 + add[1].delta + add[2].delta + add[3].delta
        /\ SumFunctionOnSet(Bases(rows'), DOMAIN rows')
             = SumFunctionOnSet(Bases(rows), DOMAIN rows)
                 + add[1].base + add[2].base + add[3].base
    BY <1>10, <2>1, RowsGrow
  <2>4. /\ add[1].delta + add[2].delta + add[3].delta
             = IF priced THEN delta[1] + delta[2] + delta[3] ELSE 0
        /\ add[1].base = BasePv(s) /\ add[2].base = BasePv(s)
        /\ add[3].base = BasePv(s)
        /\ add[1].delta \in Int /\ add[2].delta \in Int /\ add[3].delta \in Int
    BY <1>2, <1>7, <1>10
  <2>5. SumFunctionOnSet(Dels(rows'), DOMAIN rows') = sums'.delta
    <3> DEFINE a == add[1].delta
               b == add[2].delta
               c == add[3].delta
    <3>1. SumFunctionOnSet(Dels(rows'), DOMAIN rows') = sums.delta + a + b + c
      BY <2>1, <2>3 DEF AddUp
    <3>2. /\ a \in Int /\ b \in Int /\ c \in Int
          /\ a + b + c = IF priced THEN delta[1] + delta[2] + delta[3] ELSE 0
      BY <2>4
    <3> HIDE DEF a, b, c
    <3>3. sums.delta + a + b + c = sums'.delta
      <4>1. sums.delta + a + b + c = sums.delta + (a + b + c)
        BY <1>6, <3>2
      <4>2. CASE priced
        <5>1. /\ a + b + c = delta[1] + delta[2] + delta[3]
              /\ sums'.delta = sums.delta + (delta[1] + delta[2] + delta[3])
          BY <1>11, <3>2, <4>2
        <5>2. QED
          BY <4>1, <5>1
      <4>3. CASE ~priced
        <5>1. a + b + c = 0 /\ sums'.delta = sums.delta
          BY <1>11, <3>2, <4>3
        <5>2. QED
          BY <1>6, <4>1, <5>1
      <4>4. QED
        BY <4>2, <4>3
    <3>4. QED
      BY <3>1, <3>3
  <2>6. SumFunctionOnSet(Bases(rows'), DOMAIN rows') = 3 * sums'.pv
    <3>1. SumFunctionOnSet(Bases(rows), DOMAIN rows) = 3 * sums.pv
      BY <2>1 DEF AddUp
    <3>2. /\ SumFunctionOnSet(Bases(rows'), DOMAIN rows')
                = 3 * sums.pv + BasePv(s) + BasePv(s) + BasePv(s)
          /\ sums'.pv = sums.pv + BasePv(s)
      BY <1>5, <2>3, <2>4, <3>1
    <3> DEFINE pv == sums.pv
               base == BasePv(s)
               total == SumFunctionOnSet(Bases(rows'), DOMAIN rows')
               next == sums'.pv
    <3>3. /\ pv \in Int /\ base \in Int
          /\ total = 3 * pv + base + base + base /\ next = pv + base
      BY <1>3, <1>6, <3>2
    <3> HIDE DEF pv, base, total, next
    <3>4. total = 3 * next
      BY <3>3
    <3>5. QED
      BY <3>4 DEF total, next
  <2>7. QED
    BY <1>11, <1>12, <2>2, <2>5, <2>6 DEF AddUp
<1>13. CASE ~request.emitRows
  BY <1>5, <1>11, <1>13 DEF RowsInv
<1>14. QED
  BY <1>12, <1>13

LEMMA RowsStep ==
  ASSUME CorpusInv, CacheInv, LaneInv, RowsInv, [Next]_vars
  PROVE  RowsInv'
<1>1. CASE UNCHANGED benchVars
  BY <1>1 DEF benchVars, RowsInv, AddUp
<1>2. CASE BenchStart
  <2>1. PICK asked : Begin(asked) /\ (asked.lane = "cpp" => ~asked.emitRows)
    BY <1>2, Started
  <2>2. /\ request'.lane = "cpp" => ~request'.emitRows
        /\ rows' = <<>> /\ sums' = NoSums
    BY <2>1 DEF Begin
  <2>3. rows' \in Seq(Row)
    BY <2>2, EmptySeq
  <2>4. AddUp(rows', sums')
    <3>1. DOMAIN rows' = {} /\ sums'.delta = 0 /\ sums'.pv = 0
      BY <2>2 DEF NoSums
    <3>2. QED
      BY <3>1, SumEmpty DEF AddUp
  <2>5. sums'.delta \in Int /\ sums'.pv \in Int
    BY <2>2 DEF NoSums
  <2>6. QED
    BY <2>2, <2>3, <2>4, <2>5 DEF RowsInv, AddUp
<1>3. CASE PriceInstrument
  <2>1. /\ request # Idle /\ request' = request
        /\ IF request.lane = "python" THEN PythonInstrument ELSE ParityInstrument
        /\ processed < corpus.instruments
    BY <1>3 DEF PriceInstrument
  <2>2. /\ CorpusOk /\ processed \in Nat /\ request.lane \in {"python", "cpp"}
    BY <2>1 DEF CorpusInv, LaneInv, RequestInv, Asked, Lanes
  <2>3. CASE request.lane = "python"
    <3>1. /\ rows' \in Seq(Row)
          /\ sums'.delta \in Int /\ sums'.pv \in Int
          /\ IF request.emitRows THEN AddUp(rows', sums') ELSE rows' = <<>>
      BY <2>1, <2>2, <2>3, RowsOfInstrument
    <3>2. QED
      BY <2>1, <2>3, <3>1 DEF RowsInv, AddUp
  <2>4. CASE request.lane = "cpp"
    <3>1. rows' = rows
      BY <2>1, <2>4 DEF ParityInstrument
    <3>2. rows = <<>> /\ rows \in Seq(Row) /\ ~request.emitRows
      BY <2>1, <2>4 DEF RowsInv
    <3>3. QED
      BY <2>1, <2>4, <3>1, <3>2 DEF RowsInv
  <2>5. QED
    BY <2>2, <2>3, <2>4
<1>4. CASE Finish
  <2>1. request' = Idle /\ UNCHANGED <<sums, rows>>
    BY <1>4 DEF Finish
  <2>2. QED
    BY <2>1 DEF RowsInv, AddUp
<1>5. CASE Forget
  <2>1. request' = Idle /\ rows' = <<>>
    BY <1>5 DEF Forget
  <2>2. rows' \in Seq(Row)
    BY <2>1, EmptySeq
  <2>3. QED
    BY <2>1, <2>2 DEF RowsInv
<1>6. QED
  BY <1>1, <1>2, <1>3, <1>4, <1>5, BenchSteps

\* The rows a Python batch emits add up to the checksums it reports, hybrid or
\* bumped, cached or fresh, for every corpus.
THEOREM RowsReconcile == Spec => []RowsMatchChecksum
<1>1. Init => CacheInv /\ RowsInv
  <2>1. Init => rows = <<>> /\ request = Idle
    BY DEF Init, BenchInit
  <2>2. QED
    BY <2>1, EmptySeq DEF CacheInv, RowsInv
<1>2. RowsInv => RowsMatchChecksum
  <2>1. SUFFICES ASSUME RowsInv, rows # <<>>
                 PROVE  /\ SumOver(LAMBDA n : rows[n].delta, DOMAIN rows)
                             = sums.delta
                        /\ SumOver(LAMBDA n : rows[n].base, DOMAIN rows)
                             = 3 * sums.pv
    BY DEF RowsMatchChecksum
  <2>2. AddUp(rows, sums)
    BY <2>1 DEF RowsInv
  <2>3. /\ SumOver(LAMBDA n : rows[n].delta, DOMAIN rows)
             = SumFunctionOnSet(Dels(rows), DOMAIN rows)
        /\ SumOver(LAMBDA n : rows[n].base, DOMAIN rows)
             = SumFunctionOnSet(Bases(rows), DOMAIN rows)
    BY DEF SumOver, SumFunction, Dels, Bases
  <2>4. QED
    BY <2>2, <2>3 DEF AddUp
<1>3. CorpusInv /\ CacheInv /\ LaneInv /\ RowsInv /\ [Next]_vars => RowsInv'
  BY RowsStep
<1>4. QED
  BY <1>1, <1>2, <1>3, CacheStep, LanesInductive, PTL DEF Spec
=============================================================================
