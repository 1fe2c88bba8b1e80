# A TLA+ development of fina-risk

fina-risk prices FCN/RakiPlus notes with a native C++ engine, serves the
prices and their risk over MCP, and keeps risk rows and report metadata in
Parquet files and a small database. This directory holds specifications of
the parts of it that are hard to test, their model-checking configurations and
machine-checked proofs. Paths below are relative to the repository root.

Check a model with `tlc -config MCRiskCube.cfg MCRiskCube.tla`, a proof with
`tlapm RiskCubeProofs.tla`.

## 1. The system

| Component | Code | State | Operations | Hard behaviour |
|---|---|---|---|---|
| RiskCube metadata | `src/fina_risk/riskcube.py`, `schema/postgres.sql` | table `riskcube_metadata` (SQLite or PostgreSQL), retired JSON files | create slice, scenario, report; list; get; query | concurrent version ids, lock waits, deadlocks and timeouts, migration, clocks of several hosts, crash between files and row |
| Report materialisation | `src/fina_risk/riskcube_reports.py` | `slice=…/version=…` Parquet partitions, `index.json` | `trigger_report`, called inside the transaction of `create_report` | torn files, shared partitions, index rewritten in place |
| Native FCN engine | `cpp/src/fina_risk/engine.cpp` and the headers it uses | `PathState`, sums and counts of one call | compile a request, price a cube | state reused over paths, order of knock-in, knock-out, coupons and put, refusals in mid-cube |
| FCN oracle | `src/fina_risk/fcn_reference.py` | none | price a cube, for comparison | must follow the same lifecycle order |
| FCN request lane | `src/fina_risk/fcn_native.py` | none | validate, build a path cube, bump and re-price | bumps on a cube drawn before the bump |
| Legacy daily lane | `cpp/src/fina_risk_cpp.cpp`, `src/fina_risk/daily_termsheet.py` | per-call | price a term sheet's daily accrual, batches | two implementations, knock-out scan limits |
| Fixture lane | `cpp/src/fina_risk_cpp.cpp`, `src/fina_risk/pricing.py` | per-call | price one `commonData` deal, bump it | two implementations, put on called paths |
| Lane dispatcher | `cpp/include/fina_risk/lane_dispatch.hpp` | none | choose a lane or refuse | request shape against cube shape |
| NYSE calendar | `cpp/include/fina_risk/nyse_calendar.hpp`, `daily_termsheet.py` | none | holidays, observation dates | observed holidays, two implementations |
| Storage configuration | `src/fina_risk/storage.py` | memoised environment, process-wide overrides | get, reload, override, clear | stale cache, a refused change that is half applied |
| OLAP risk store | `src/fina_risk/olap.py` | `risk_wide`, `risk_long`, `manifest.json` | write, query, status | tables of two batches, files rewritten under a reader |
| Ingestion | `src/fina_risk/pipeline.py` | append-only partitions, `ingestion-manifest.json` | ingest instruments, market data | unlocked read-modify-write, torn manifest |
| MCP server, scheduler | `src/fina_risk/server.py`, `scheduler_adapter.py` | that of the stores | tools; pipeline stages | concurrent tool calls |
| ETL, views, numerics, harness | `etl.py`, `risk_view.py`, `hybrid.py`, `aad.py`, `locvol.py`, `scripts/` | none | pure functions | see `PROJECT.json` |

Interactions: the server calls every Python component directly, in one or
several processes. `create_report` calls `trigger_report` while it holds the
write lock of the metadata store, which is thereby also the only lock of the
report directory. `query_report` checks the report's status and queries the
OLAP risk store. `price_fcn_request` calls the engine once for the price and
four times per underlying for the sensitivities, through pybind. The pricing
tools run the fixture lane in Python; the benchmark prices a corpus in the
Python lane or in the C++ parity lane and its mirror. The ETL compiles requests
for the canonical lane. The scheduler and the server write the risk store
through `write_risk_store`; where it is, `storage.py` says. What makes each
component correct is stated in section 3.

## 2. Modules

| Module | What it is |
|---|---|
| `ReportLedger` | abstract: an append-only ledger of reports with consecutive version ids |
| `RiskCube` | the metadata lifecycle and the files it writes |
| `FcnPayoff`, `FcnDue` | the engine's arithmetic and refusals; what a note owes on one path |
| `FcnNote` | abstract: a cube is priced path by path, each adding what is due |
| `FcnEngine`, `FcnOracle` | the engine's loops; the Python oracle |
| `FcnQuote` | `quote.price`: validation, cube, price and bumps |
| `AppendLog` | abstract: partitions are appended, acknowledged ones stay |
| `Ingest` | `pipeline.py`: partitions and the unlocked manifest |
| `StoreConfig`, `RiskStore` | where data is read and written; how a batch of risk is persisted |
| `Stores` | processes that configure, ingest and persist, die and restart |
| `TerminalKernel`, `FixtureLane` | `price_terminal_legs` and the put's adjoint; the lane of `pricing.py` |
| `DailyLane` | the daily term sheet, in Python and in C++ |
| `NyseCalendar` | trading days, in Python and in C++ |
| `Benchmark` | `run_benchmark`, its hybrid deltas and its parity mirror |
| `RiskView`, `TermsheetEtl`, `SsrmQuery` | risk rows; term sheets and requests; the row model's SQL |
| `Ascending` | a set of numbers as an ascending sequence, for calendars, schedules and sorted rows |
| `RiskDesk` | the tools that keep nothing between calls, and the benchmark |
| `RiskCubeProofs`, `StoresProofs` | the metadata store; ingestion, the risk store and the configuration: inductive invariants and theorems |
| `FcnEngineProofs`, `FcnNoteProofs` | the engine: types, counts and what its flows add up to; that it implements the note and pays what the oracle pays |
| `FcnQuoteProofs` | the request lane: what its sensitivities measure |
| `DeskProofs` | the benchmark's lanes, caches, rows and bumps |
| `ToolProofs` | the desk's other tools: calendars, schedules, lanes, coupons, sensitivities, rows, pages and drill-down |
| `SumProofs` | sums over finite sets, for the modules whose proofs add |
| `MCRiskCube`, `MCFcnEngine`, `MCFcnQuote`, `MCStores`, `MCDesk` | instances for TLC |

`FcnNote` and `FcnQuote` extend `FcnDue`, which with `FcnEngine` extends
`FcnPayoff`. `RiskStore` extends `StoreConfig`; `Stores` composes it with
`Ingest`. `RiskDesk` composes the pure components, of which `NyseCalendar`,
`TermsheetEtl` and `SsrmQuery` extend `Ascending`. `FcnEngine` instantiates
`FcnNote`, `RiskCube` `ReportLedger` and `Ingest` `AppendLog`, each with a
refinement mapping. An operator whose comment begins with "Mutant:" is a
plausible bug in the definition that follows it; nothing uses it, and
substituting it breaks the property `PROJECT.json` pairs it with.

### RiskCube

`Clients` are callers: server workers, scheduler processes, scripts. The state
is the committed table (`rows`), the holder of the write transaction (`lock`),
each caller's program point and locals (`pc`, `job`), the second the next
caller's host shows (`clock`), the Parquet partitions (`parquet`) and
`index.json` (`index`). One action is the code between two points at which
another process can see or be seen: a statement that takes or releases a
database lock, or a file operation. `BEGIN IMMEDIATE` and
`pg_advisory_xact_lock` are both `Begin`; only SQLite has `BusyTimeout` (the 30
seconds of `sqlite3.connect`) and the JSON migration (`MigrateCheck`,
`Migrate`).

On PostgreSQL every call, also one that lists, first runs `schema/postgres.sql`
in its transaction (`EnsureSchema`). `CREATE INDEX IF NOT EXISTS` takes the
table's SHARE lock even when the index is there, and the transaction keeps it
(`Sharing`). Sharers do not exclude each other, but an INSERT needs ROW
EXCLUSIVE and waits for all other holders; `pg_advisory_xact_lock` waits for
its holder (`WaitsFor`). The two make deadlocks: a holder that is about to
insert and a waiter for its advisory lock, or two callers about to insert. In
every deadlock some two calls wait for each other, since whoever is waited for
by an INSERT and waits itself also shares the lock. `CancelDeadlocked` is the
detector, which makes one of the calls raise; which one is left open. The SHARE
lock itself can be taken at any time (PostgreSQL would queue it behind a
waiting INSERT, which only allows less), because ROW EXCLUSIVE is held only
from the INSERT to the commit that follows it, which is one action. Two
assumptions are made about PostgreSQL and not read from this repository: this
table of lock conflicts, and that a deadlock is noticed.

`Tick` moves the second anywhere: time passes, a clock is set back, or the next
caller runs on another host. `skewed` records that a second before one already
shown was seen.

Opening a file for writing truncates it (`OpenParquet`,
`OpenIndex`); its content is there when the write ends (`FinishParquet`,
`WriteIndex`). `Abort` is an exception or the death of the process at any
point: the transaction is rolled back, files stay as they are. Rows of
a report are abstracted to the request that wrote them, names to a slice key
and the directory `_safe` makes of it. `opened`, `indexLost` and `skewed` are
history.

### FcnPayoff, FcnDue, FcnNote, FcnEngine, FcnOracle

Performances, barriers and rates are naturals, and a range rate is a multiple of
its period's number of fixings, so that all arithmetic is exact. A discounted
amount is kept as the amount and its settlement date: `totals.paid` is a bag of
flows `<<leg, index, date>>`. `FcnEngine` has one action per iteration of
the loops of `price`: `StartPath` (the hand-written reset of `PathState`),
`Observe` and `FinishObserving` (the observation loop and the counts after it),
`SkipPeriod`, `PayCoupon` and `EndCoupons` (the coupon loop, its `continue` and
its two `break`s), `Settle` (principal and put). `Compile` is
`compile_canonical_terms` with its refusals in order; `InvalidFixing` is the
early return out of either loop, which discards everything priced. `FcnNote`
states the same without loops or state: the call is the first
observation that touches a barrier, a period counts the fixings after its start
up to its end and the call, and so on; it was written from the code, since no
document states the payoff in full, and serves as an independent second reading
of it. The inputs satisfy `SheetAssumption`: ordered, disjoint periods, and no
period that ends, nor a final fixing, before the cube's first day. `etl.py`
compiles ordered and disjoint periods that end after evaluation (`etl.py:375`),
which is a little less: the first trading day may be later still. The engine
checks none of it.

`FcnOracle` quotes each leg per unit of notional (of at least one); the module
multiplies back, so the flows compare as amounts, dated and undiscounted. The
put is the exception in the code, which quotes it without a notional
(`fcn_reference.py:113`). How a flow is discounted differs: the oracle takes
the rate of the first pillar for every date (`fcn_reference.py:36`), the engine
the curve's at each, so equal flows have equal present values on a flat curve
only.

### FcnQuote

One action per stage of `price_fcn_request`: `ValidateFcnRequest`,
`BuildDailyPathCube`, `PriceRequest`, and `BumpName` for each name in turn. The
engine is taken at its word: `NativePrice` is the sum over paths of what
`FcnDue` says, discounted with the request's curve, or a refusal. Every bump is
priced on the cube of the request, as in the code. What a seed draws is an
input (`Draws`); how levels follow from it keeps the curve, the surfaces and
the spots apart, on integers.

The two lanes test a pillar each in its own way. Python draws with the pillars
whose date and rate are not null, and raises if there is none or one that `int`
and `float` cannot read (`Given`, `CubeRefused`; `fcn_native.py:138`, `:86`).
The engine discounts with those that have a whole date above zero and a number
(`Compiled`; `engine.cpp:110`), and answers "unresolved" if none is left: a
date in quotes passes here and not there. `RequestTypes` says what JSON can
make of a pillar. A surface may lack volatilities from some date on: the level
is then not a number from there, which is 0 here (`Reads`); or have null
points, which price and cannot be bumped, so that the call raises with a price
in hand (`Unbumpable`).

`MarketAssumption` says what integers lose: where the code has a number for a
level, it is the exponential of a float and positive, so no draw may round to a
performance of zero here, nor a bumped reference spot. It also assumes a
`bump_size` below one: a bump of one takes the reference spot to zero, which
the engine refuses. Literals like NaN do not reach the engine's answer: its
JSON parser refuses them with an exception.

### StoreConfig, RiskStore, Ingest, Stores

`environment` and `overrides` are those of each process; the memoised
configuration is `BuildConfig` of an environment that only a restart (`Start`)
changes. `EnvironmentAssumption` excludes environments that
`_build_storage_config` refuses: a process in one raises on every storage call.
Directories and globs are places and layouts, since only their equality
matters. `RiskStore` has one action per file operation of `write_risk_store`:
a local file is truncated (`OpenTable`, `OpenListing`) and then written
(`FinishTable`, `FinishListing`), an object is put whole. `Ingest` has the same
of a partition and the manifest, with `ReadManifest` between. Two writers of
one file may leave a mixture. `mixed` and `raced` are history: the locations
where writers overlapped or died, for which the code promises nothing.

### RiskDesk and what it composes

Pure components are operators; the action of a tool computes the whole answer
from a request taken from a small set, and properties relate it to what another
call, lane or implementation answers. Prices are integers: a discount factor is
a whole number of hundredths, a mean over paths is their sum, a difference is
kept before its division. The benchmark has state of its own (its corpus,
caches, checksums and rows), one action per instrument (`PriceInstrument`), and
no other tool runs while it does, since nothing is shared. Each lane builds its
corpus from the sizes it is asked for: the Python lane after its clamps
(`Clamps`; `benchmarking.py:67`), the parity lane as they come. Paths and
factors stand for the cube they and the seed build, so a clamp on them is
another cube (`ClampedCube`). The number of names is one constant, so its clamp
is not varied. The Python lane bumps by a constant and sums a P&L when one is
asked for; the parity lane bumps by what the caller says and always sums it.
Wide rows have a place, the job's and the name's, and aggregation adds the
measures of the places that share a key. `SsrmQuery` models a statement by its
placeholders in textual order and its arguments in the order they are appended,
limit and offset last in both; DuckDB's binding is an external definition. The
cell 0 stands for NULL, which no comparison selects and every order puts last.

The constants' assumptions in `RiskDesk` say what a request is. A job is a
legacy JSON document with a surface, a lock and a reference for each name
(`Sound`); it has two names or more, since a market has `names[0]` and
`names[1]`; a payment's discount is not negative, as `exp` is not; a draw moves
two names over two or more steps, the same on every path. A job of a daily
sheet has a trading day to be priced on. A term sheet's coupon periods follow
each other. The cells of grouped and measured columns are naturals, of which 0
is NULL. Rows are sorted by a column that tells them apart: ties of the sort
key, whose order DuckDB does not fix from one query to the next, are not
modelled. A job with more than two names may be asked for: it is refused, in
the code as here.

## 3. Runs

`riskcube` - two callers, three calls, two slice keys that share a directory
name, two seconds in any order, a retired JSON file with a report and a slice,
both stores; 434 467 distinct states up to symmetry of callers and requests.

- `VersionsIncremental`: version ids are unique and without gaps, although
  callers race for them, wait, fail after taking one, or die.
- `CreationFollowsVersion`: as long as no clock was set back and no two hosts
  disagree, listing by `created_at` never contradicts the ids, however long a
  call waited for the lock. With such clocks it may: `int(time.time())` is each
  host's own (`riskcube.py:254`, `:286`).
- `ReadySealed`: a ready report's partition holds its rows, complete, unless
  another call opened that same partition.
- `IndexComplete`: every ready report is in `index.json` whenever no call is in
  its transaction, unless a call died with the file truncated.
- `LegacyDefinitionsWin`, `RowsAreFinal`: imported keys keep their records, and
  no committed row is replaced or withdrawn.
- `RewrittenWithinSecond`: whatever the clocks do, the file of a ready report
  is rewritten only by a report that shares its directory name and its very
  second. A clock that shows a second twice gives that report as much time
  again.
- `LedgerRefined`: the published reports implement `ReportLedger`.

`riskcube_live` - three callers on one slice within one second: `Answered`,
every call returns, is refused or raises, with failures at any step and the
deadlocks of PostgreSQL's schema script; 151 394 distinct states. Three callers
are needed for one to be overtaken repeatedly. Fairness: each caller's own next
step is weakly fair (a running thread continues, a busy writer times out on
SQLite), the advisory lock is strongly fair on PostgreSQL, which queues its
waiters, and a deadlock is cancelled (`deadlock_timeout`; without that the
calls wait for ever). An INSERT, too, is only weakly fair: once no other call
holds the SHARE lock. SQLite's busy handler is not fair, so nothing more is
assumed there. Calls, failures and the passing of time are not fair: nothing
makes them happen.

`riskcube_immutable` - refutes `ReadyReportsImmutable`, the immutability the
server's tool description promises: two reports of one slice within one second
share the partition `version=<second>`, and the later overwrites the earlier.

`fcn_engine` - two underlyings, four observations, two paths, thirteen kinds of
term sheet that differ in one feature each (memory KO declared in either place,
both KO sides with precedence, holiday gap, coupon barrier with paid fixings,
final fixing before the cube's end, unfunded and without coupon memory, four
that are refused) on each pair of 131 paths, three of which have an invalid
fixing; 77 233 distinct states. Two paths are what a leak from one path to the
next needs, four observations let a knock-out fall before, in and after a
period, and memory locks complete on different days.

- `PrincipalOnce`: principal is returned once a path; what is returned before
  maturity is that of the paths counted as knocked out.
- `PutExplained`: no put without a knock-in or when all paths were called.
- `CouponWithinPromise`: no carrying makes a path pay more than its rates.
- `NothingAfterCall`: a called path pays nothing that settles after the call
  but the coupons of periods already over.
- `NoteRefined`: the engine implements `FcnNote`; every path adds exactly what
  the note owes, and refusals are the note's.
- `OracleAgrees`: it also pays what the oracle pays, the same amounts on the
  same dates, where the two have the same rules. Of present values it says
  nothing.

`fcn_oracle`, `fcn_memory_release` - two disagreements between the code and what
the repository says of it:

- a failed coupon barrier leaves all fixings to carry in `engine.cpp:320`, none
  in `fcn_reference.py:107`;
- carried fixings are paid in a period in which no fixing qualifies, whereas
  `benchmark/fcn-native-parity.md:20` speaks of a qualifying period.

`OracleAgrees` excludes, besides the first of these, four differences of the
two lanes that the reading showed (`Plainly`): the oracle ignores
`fcn_terms.memory_ko` as a default and `notional_return`, ends the schedule at
a period without an observation where the engine skips it, and quotes a note
without a notional.

`fcn_quote` - two names, three trading days, two paths, fifteen kinds of
request (without curve rates, spots, strike, fields or a memory mode, expired,
with each kind of knock-out, with pillars that one lane or both can use or that
cannot be read, with a surface that ends early or has null points), every one
of 27 draws; 839 distinct states.

- `RefusedTogether`: on a cube of numbers the engine answers every bump as it
  answers the request. The lane reads the present value of a bump without its
  status (`fcn_native.py:238`), and a refusal's is zero. A cube with a gap is
  excepted, for there the code does go wrong: a bump can keep a path uncalled past
  a gap that the request was called before; it is refused, and its zero enters
  the delta.
- `IdleNameHasNoRisk`: bumps share the draw and move one name: a name that is
  worst nowhere, with either bump, has neither delta nor gamma.

`fcn_quote_delta` - refutes `DeltaIsDirectional`. A spot bump scales
`reference_spot` with `quoted_spot` (`fcn_native.py:196`) while the cube stays
as drawn, so every performance falls when the spot is bumped up, and
`relative_delta` has the sign opposite to the note's gain. `riskcube_reports.py`
publishes it as `delta`. The C++ daily lane scales the cube.

`stores` - two symmetric processes, two roots and a bucket, three environments,
four changes (two of them refused), three batches, two data sets, up to three
calls and one death (`MaxCalls`, `MaxDeaths`); 1.77 million states. Three calls
allow one process to overtake another twice, or two writers and a
reconfiguration. The calls run out, so the run does not check deadlock.

- `ListedAreWhole`: a manifest lists only complete partitions, of its own root.
- `RowsMatchFiles`: the rows it counts are those of the partitions it lists,
  also after an overlapping call lost another's entry, with its rows.
- `NothingLostAlone`: where calls did not overlap and none died in the rewrite,
  every acknowledged partition is listed and the manifest is readable. Where
  they did, an entry may be lost: the code has no lock.
- `ManifestDescribesStore`: where writers did not overlap or die, the tables
  the store's manifest counts rows of are on disk and of its batch. During a
  write they may be of two batches.
- `ReadersFindTheBatch`: a process reads what was written where it is
  configured to look, by whichever process, when the batch has the layout of
  its glob.
- `RefusalIsAtomic`: a refused `store_configure` leaves no part of its change
  in force; what it may do is clear the overrides it was asked to clear, which
  the code does before it validates.
- `LogRefined`: the partitions on disk implement `AppendLog`.

`desk` - books of up to three jobs on two names over three steps, daily sheets
over five trading days around a holiday, 121 years of calendar, term sheets
with every shift of the calendar across evaluation, two tables under every
level, filter, page and order, NULLs among their cells, benchmarks of up to
three instruments in both lanes, within the clamps and beyond them; 38 728
distinct states.

- `LaterCallsPayMore`: a higher call barrier never lowers the coupon leg.
- `AdjointMatchesBumps`: with flat volatility the put's adjoint is its central
  difference, wherever bumps leave every path on its branch.
- `TaylorRowsAddUp`: aggregated rows add up to the results' own forecasts.
- `DailyLanesAgree`: the Python lane on the days of a job and the C++ lane on
  the whole sheet's give every leg the same value, unless a coupon period
  outlives the job.
- `CalendarsAgree`: the two calendars have the same trading days.
- `CompiledScheduleFits`: compiled coupon periods are ordered, disjoint, of
  positive length and not over at evaluation.
- `PagesTile`, `DrillDownReconciles`: two pages are the page of both; a group's
  cells are the sums of the rows it opens to. The group of NULL is excepted,
  whose key becomes `field = NULL` and which opens to nothing (`olap.py:253`).
- `CacheIsFresh`, `RowsMatchChecksum`: cached hybrid results equal fresh ones;
  rows add up to the checksums.
- `BumpsAreConvex`: the gammas of a lane have the sign convexity gives to what
  it differences.
- `LanesPriceAlike`: on one corpus - the same sizes, within the clamps - the
  two lanes report one value, and one P&L when the Python lane is asked for it
  and both bump by the same.

`desk_lanes` - refutes `LanesGiveSameDelta`, the same promise for the deltas
("Both parities must produce the same pricing results", `cpp_parity.py:5`;
"identical pricing results", `benchmarking.py:27`): the Python lane differences
the value, the parity lane the put, so their deltas have opposite signs.

`desk_pivot` - refutes `PivotedCellsReconcile`: with a filter, `_build_query`
appends the filter's arguments before those of the pivot's `CASE` expressions,
which come first in the statement; with two measures there are fewer arguments
than placeholders.

The fixed order of a path through the engine needs no fairness for the safety
properties; `fcn_memory_release` uses `FairSpec`, under which a call of `price`
runs on, because its property is about steps. `Stores`, `RiskDesk` and
`FcnQuote` state safety only, and assume no fairness: no code there waits for
another's step.

## 4. Proofs

`RiskCubeProofs` proves, for every set of callers, requests, slice keys and
directories, every mapping of keys to directories, any retired file that
satisfies `LegacyAssumption` and any number of seconds, all the safety
properties of `riskcube`: `TypeCorrect`, `VersionsAreIncremental`,
`CreationIsOrdered`, `ReadyIsSealed`, `IndexIsComplete`, `LegacyIsPreserved`,
`CommittedRowsAreFinal`, `RewritesShareTheSecond` and the refinement
`RefinesLedger`.

`VersionsIncremental` is not inductive: an `Insert` keeps it only because the
version a caller took is still one more than every id in the table, which holds
because it has had the lock since. `IInv` makes that precise:

- `LockInv`: whoever is inside the transaction holds the lock;
- `CallInv`, `IdentityInv`: a call in progress is neither in the inbox nor in
  the table, and calls are not made twice;
- `MigratedInv`: legacy records enter the table before any other of their kind;
- `TopInv`, `AllocatedInv`: some report has the greatest version, and an
  allocated version is one more;
- `PrimaryKey`, `EpochInv`: keys are unique, and, until a clock was set back,
  seconds grow with versions;
- `SealInv`: what the current holder may have done to each partition;
- `IndexInv`: what the current holder has read from and made of the index.

Each conjunct has a step lemma with one case per action; `Inductive` joins
them. TLC checked `IInv` as an invariant of `MCRiskCube` first. The constants'
assumption (`ConstantAssumption`) asks nothing of the deployment but that a
retired file has distinct keys and versions and, if it has reports, a highest
version; TLC evaluates it on every run.

`StoresProofs` first proves of `Ingest` alone, for every set of processes,
roots, data sets and names, `TypeCorrect`, `OnlyWholeListed`, `NothingLost`,
`RowsMatch` and the refinement `IngestRefinesLog`. Neither `ListedAreWhole` nor
`NothingLostAlone` is inductive: a call holds the next text of the manifest in
memory, and what is true of the file depends on it. `IngestInv` adds that a
call past its partition refers to a whole one (`WrittenIsWhole`), that its text
lists whole partitions of its root, its own among them (`TextIsWhole`), and
that where no overlap was recorded one call at most has the manifest and its
text contains all that is listed (`AloneOnManifest`). `NothingLost` rests on
the last: a rewrite then only adds. `RowsMatch` needs more, in `RowsInv`: a
call adds its rows to a count and its partition to a set, and the two agree
only if the partition was not in the set yet. It was not, because names are
fresh and nobody but the call itself lists its partition (`Unlisted`). A call
that read the manifest and is overtaken writes an older count over an older
set, which also agree.

It then shows that every step of the composed processes is a step of `Ingest`
or a stutter (`StoresIngest`), so those theorems hold of processes that also
configure, persist, die and restart (`StoresListWhole`, `StoresLoseNothing`,
`StoresCountRows`, `StoresRefineLog`), and that a refused configuration leaves
no part of its change (`Refusals`). `StoreInvariant` is the inductive invariant
of the rest, for every number of processes, every environment and change that
satisfy `EnvironmentAssumption` and every batch:

- `ConfigInv`: overrides only ever hold values that were accepted, so the glob
  and the place a process computes exist (`StoresTypes`);
- `StoreInv`: a location nobody raced for and nobody died over is whole but for
  the one call at work there, and what that call has behind it is on disk
  (`Wrote`, `Progress`): its tables before its listing, its listing last.

`ManifestsDescribe` and `ReadersFind` follow: the first when no call is at work
on a location, the second because the reader's glob selects the files that the
last batch's layout produced and none of another.

`FcnEngineProofs` proves five properties of the engine for every set of
underlyings, every cube with increasing dates, every number of paths and every
request that satisfies `SheetAssumption` and `SheetTypes` (numbers are naturals,
operators those of `types.hpp`):

- `TypeCorrect`. `TypeOK` bounds each count by `PathCount`, which no step
  preserves by itself: `CountInv` bounds it by the paths completed plus the one
  whose observations are over, and keeps the completed paths below `PathCount`
  until the result is returned. That the indices stay in the cube rests on
  `Lookups`: the observations up to a date are an initial segment of the cube
  (`PastIsSegment`), the fact the binary searches of `schedule.cpp` rely on.
- `PutsExplained`. A put is paid two steps after the observation that knocked
  the path in was counted, so `PutInv` carries the fact across the coupons: a
  put in the bag means a counted knock-in and fewer calls than paths.
- `CallEndsTheNote`. A coupon of a called path is dated by the call when the
  call is within its period; otherwise the call is a later observation than the
  last of the period, hence after the period's end (`Lookups` again).

`FcnNoteProofs` proves under the same assumptions that the engine implements
`FcnNote` (`EngineRefinesNote`). `FcnNote` speaks of a path as a whole (the
first observation that touches, all fixings of a period) where the engine has
walked half of it, so `RefInv` says at each place of the loops what the walk
has found:

- `WalkInv`: a path is called in the state exactly when it touched in the
  observations so far, at the first that did; the same for the knock-in, and
  for each name locked under memory knock-out;
- `PaidInv`: what the path has added to the sums is what is due for the periods
  passed, `carried` is what the note carries into the next, and a period the
  engine has not reached after a call owes nothing (`RestCountsNone`).

At `Settle` this is all that is due, and the step is the note's. Its flows are
kept apart by leg, index and date, so adding leg by leg gives the bag that
`FcnDue` writes down at once (`SettledIsDue`).

`FcnEngineProofs` also adds up: `PrincipalReturnedOnce` with the invariant that
the principal in the sums is that of the paths settled (`PrincipalInv`,
`ClosedInv`), early when called; the part about early payments is stated where
no observation falls on the maturity date, on which the two cannot be told
apart. `CouponsWithinPromise` with `BudgetInv`: what the coupons have paid,
plus the knock-out coupon set aside when the path's call was counted, is within
the rates of the periods already passed. The set-aside is what makes it
inductive: the call is counted several steps before its coupon is paid.

`EngineMatchesOracle` compares the engine with the oracle's own code at
`Settle`. The oracle computes the call, the knock-in and the locks of a path
with scans of whole lists (`OracleCalls`, `OracleSettles`) and folds its
coupons over the periods, a carried memory going from one to the next.
Induction over the length of a sequence is not available, but a fold of a fixed
length is the end of a walk, a function of the period that is a number
(`OracleWalk`), and what the walk has paid after a period is by induction on
naturals what the note owes so far (`OracleStep`, `OracleCouponsOwed`). The
engine has paid the same (`PaidInv`). The theorem has the restrictions that
`OracleAgrees` has, and is about dated amounts as that is: it does not say that
the lanes' present values agree.

`FcnQuoteProofs` proves `QuoteTypes`, `BumpsRefusedTogether` and `IdleNames`
for every set of names, requests and draws that satisfy `RequestTypes` and
`MarketAssumption`. The invariant (`QuoteInvariant`) is that from the draw on
there is one cube, drawn for this request, and the price and each sensitivity
so far are the engine's on it. `BumpsRefusedTogether` then follows because
every number drawn, over every bumped reference, is a valid fixing
(`CubeFixings`), so a path of numbers is complete under every bump
(`WholeCubeCompletes`), and what the engine refuses otherwise are terms that a
bump does not touch (`NativeStatus`). `IdleNames` follows because a note
without memory knock-out looks at worst performances only: paths with the same
worst performance everywhere owe the same (`SameDue`), and while another name
is below it the bumped one is not the worst (`SameWorst`).

`DeskProofs` proves, for every corpus with natural terminal levels, any number
of instruments, any bump of the parity lane and any tools called in between
(`ToolsKeep`), four properties of the benchmark:

- `CacheFresh`. Structures repeat, so `CorpusInv` ties basket and strike of
  each structure to the corpus as built, and `CacheInv` says of every cached
  result what `CacheIsFresh` says of it.
- `LanesAgree`. Sizes within the clamps give both lanes one corpus
  (`OneCorpus`). `LaneInv` says the checksums of the lane in progress are sums
  over the instruments priced so far (`LaneSums`), of values the lanes compute
  each in its own way; one step adds one term. What a finished lane reported is
  then the sum over all instruments of the same corpus, for both.
- `Convex`. On each path a worst-of put is a maximum of strike minus a
  performance that moves, a performance that does not, and nothing, so a bump
  up and a bump down of one size are worth at least twice the put (`BendsUp`);
  sums over paths and instruments keep the sign.
- `RowsReconcile`. `RowsInv`: rows and checksums are written apart, by name and
  by instrument. An instrument adds three rows, whose shares sum to what it
  adds to the checksums (`HybridInt` bounds the case of a cached method).

`SizeAssumption` says the corpus has three to 1200 names (the clamp of
`run_benchmark`), a finite cube of natural levels and bumps above zero.
`BumpAssumption` says what integers lose: the code bumps floats, and here
neither bump may be rounded to another size than its opposite.
`WidthAssumption` says the scale resolves the smoothing width.

`ToolProofs` proves the properties of the desk's other tools, whose state is one
call and its answer: each theorem is about what a tool computes, for every
request that satisfies the assumptions of `RiskDesk`, and the step from there to
the answer is one case per tool (`ToolIs`).

- `CalendarsCoincide`, for every year from 1 on (`YearsAssumption`,
  `datetime`'s range but for its end). The C++ calendar asks of one day and
  finds its year by the days-from-civil formula; Python lists the holidays of a
  year. `SerialIsDate` and `YearOfDay` show that the formula inverts the serial
  number for all years of an era and all eras, `SameHolidays` compares the
  rules one by one, with their observed days, which leave the year only for
  January 1.
- `ScheduleFits`. A compiled schedule keeps some of a sheet's periods and cuts
  those that evaluation falls into. The kept ones are enumerated by rank
  (`AscendingIs`), so their order in the result is that in the sheet, and
  consecutive periods of a sheet stay disjoint when all dates move by the same
  days (`ShiftIs`, `StepsGoUp`).
- `DailyLanesCoincide`. Both lanes carry a memory from period to period; as for
  the oracle, each is the end of a walk over periods (`DailyWalk`). One lane
  prices all the sheet's days and the other those up to the job's expiry, a
  prefix (`UpToPrefix`), so a period that ends by then meets the same days in
  both, and a call after the last of them is a call in neither (`SkipsAgree`,
  `CallsTogether`).
- `HarderCallPaysMore`. With a higher barrier the set of steps at which a path
  is called shrinks, so its least element grows (`CallsLater`); each period's
  pay grows with the call, through a clip and a quotient (`ClipMono`,
  `PaysMore`), and sums of flows that are worth something keep the order
  (`CouponPvMono`).
- `AdjointIsDifference`. The adjoint is formed on the paths of the base price;
  the difference re-reads the market, simulates anew and prices again. With
  flat volatility a bump multiplies every spot of its name on every path by the
  same factor and leaves the others (`SpotsScale`, `SpotsStay`, by induction on
  the step). If both bumps leave a path on one branch so does the base, which
  lies between them (`BetweenBumps`, `PathMoves`), and the put moves by the
  adjoint's term. In floats this is exact up to rounding; in integers it needs
  `WholeNumbers`: the bumped quotes, the simulated spots and the last
  performances have no remainder. The theorem is stated under that hypothesis.
  It holds of 116 of the 144 answers with flat volatility that TLC reaches,
  some of them with a put that pays; on the others the property is only
  model-checked.
- `RowsAddUp`. A sum over the keys of the wide rows, each the sum over the
  places with that key, is the sum over all places (`TotalsAddUp`), and a job's
  places are its names when none is listed twice (`RowsOfJob`, `BookAddsUp`).
- `PagesFollow`. The rows before paging do not depend on the rows asked for
  (`AlikeAnswer`); a page is a window of one list of them (`WindowIs`), and
  adjacent windows join (`WindowsTile`), also beyond the end of the list.
- `GroupsReconcile`. The flattened arguments of the WHERE clause reach the
  placeholders they were made for (`FlattenPlaces`, `BoundIs`), so what opening
  a group that is not NULL selects is the group's members (`BelowIs`),
  whichever keys and filters there are; a group's cell is then the sum over the
  rows of the level below it (`CellsAddUp`, `OpenedAddsUp`).

`SumProofs` has what these proofs need of `SumFunction`, which the community
modules define by taking elements in an arbitrary order: a sum of nothing, of
one more element, of two functions, over a part. Induction on finite sets is
done there with a set of sets in place of a predicate (`FiniteInduction`), from
the least element that well-founded naturals have.

Only model-checked: `Answered`, since liveness is beyond the prover, and
`AdjointMatchesBumps` where integer division does lose something, since there
the equality is a matter of which remainders meet. The bounds of section 5 are
those of the runs; no theorem depends on them.

Operators of `TLC` and of the folds that are evaluated by overrides are avoided
in the modules proved about: `Over` and `With` stand where one would write `@@`
and `:>`, `SumFunction` where one would write `MapThenSumSet`.

## 5. Bounds and what is left out

Second counts, requests and paths are bounded by constants only (`MaxEpoch`,
`Requests`, `PathCount`). `MaxEpoch = 1` gives every property two seconds to
relate. A `Requests` element of `RiskCube` is used once, so three allow a
failed, a racing and a final call. `MaxCalls`, `MaxDeaths` and `MaxInstruments`
are the bounds in guards. Sizes of rows are one number in `stores`: two batches
of the same size are enough for a count that replaces instead of adding.

Left out of `RiskCube`: calls refused before they reach the store, the content
of records, `report.json` (written, never read), the ordering of listings
within one second. Left out of the FCN engine modules: discounting, transition
exemplars (at most 64, informational), floating-point rounding,
physical-settlement flags, the quote scale. Left out of `FcnQuote`: a cube the
caller supplies, correlated draws. Left out of `Benchmark`: vega, rate, fx and
skew figures with their cache of market adjoints, and timings. Left out of
`SsrmQuery`: text and date filters, other aggregates, several sort columns,
ties.

Not modelled:

- the lane dispatcher: four conditions on root keys in a fixed order, without
  state, which `block/lane_dispatch` pins row by row;
- the C++ batch lane and `price_fixture` in C++, which draws its own paths;
- local volatility, the repair of correlation matrices: splines, a PDE,
  eigenvalues over reals;
- `scripts/` and `data.py`: they measure or generate and keep nothing another
  component reads; registration and health of the server;
- `query_report` against the risk store: a report's row does not say which
  batch the store holds, so any later batch answers for it.

## 6. Observations without a run

Seen while translating: each is plain from the lines quoted, or contradicts no
statement specific enough to refute.

- `barriers.memory_ko` alone switches memory KO on (`engine.cpp:172`) without
  the mode that `engine.cpp:144` asks of `fcn_terms.memory_ko` and
  `benchmark/fcn-native-parity.md:22` of every request; two lines show it.
- On a cube with a gap (a surface without a volatility from some date on) a
  refused bump's zero enters a delta (`fcn_native.py:238`); see
  `RefusedTogether`.
- A volatility bump is priced on the cube drawn before it, so the native lane's
  `relative_vega` is zero for every note (`fcn_native.py:244`).
- A coupon period that ended before evaluation is looked up in a grid that
  starts there, so a later call cuts it (`pricing.py:361`), although the
  comment at `pricing.py:351` says such a period pays in full.
- The third job's coupon replaces the base coupon after the sensitivities were
  formed (`server.py:196`).
- `trigger_pnl_forecast` names its own default root, so it writes beside a
  store configured elsewhere (`pipeline.py:207`).
- References are paired with underlyings by position (`etl.py:347`).
- `store_configure` with a flag that is not a boolean clears the overrides, if
  asked to, before it is refused (`server.py:507`).
