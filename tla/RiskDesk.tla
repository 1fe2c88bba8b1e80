------------------------------ MODULE RiskDesk ------------------------------
(***************************************************************************)
(* The tools of the MCP server that keep nothing between calls             *)
(* (server.py, scheduler_adapter.py): pricing, aggregation, the daily lane *)
(* and its calendar, the ETL stage and the row model query; and the        *)
(* benchmark, which goes instrument by instrument.  A call is answered     *)
(* before the next: what calls share are the stores, which RiskStore       *)
(* models.  The properties relate an answer to what another call, another  *)
(* lane or another implementation would have answered.                     *)
(***************************************************************************)
EXTENDS RiskView, DailyLane, Benchmark, NyseCalendar, TermsheetEtl, SsrmQuery

CONSTANTS
  Books,       \* requests: sequences of one or more legacy jobs
  Draws,       \* what a seed may draw for the fixture lane
  Ratios,      \* the volatility ratios asked for; 0 is none
  DailySheets, \* jobs of the daily lane, with a draw for their trading days
  Years,       \* the years whose trading days are asked for
  Termsheets,  \* legacy term sheets of the ETL stage
  Variants,    \* the economics the ETL stage may draw for a variant
  Tables,      \* contents of risk_wide
  Queries      \* row model requests

\* The trading days a sheet of jobs is priced on.
SheetDates(jobs) == NyseSerials(jobs[1].evaluation, LastExpiry(jobs))

ASSUME YearsAssumption == Years \subseteq Nat \ {0}  \* datetime.MINYEAR is 1
\* Every book has a job, and every job two names or more, as a market has
\* names[0] and names[1]; a payment is worth something, as exp is positive; a
\* draw moves two names on the same two or more steps of every path; a ratio
\* is none or positive.
ASSUME BooksAssumption ==
  /\ \A book \in Books :
       /\ book # <<>> /\ book \in Seq(Jobs)
       /\ \A j \in DOMAIN book :
            /\ Sound(book[j]) /\ Len(book[j].equity) >= 2
            /\ \A i \in DOMAIN book[j].periods :
                 Discount(book[j].evaluation, book[j].periods[i].payment) >= 0
  /\ \A draw \in Draws :
       /\ draw # <<>> /\ draw \in Seq(Seq([1 .. 2 -> Int]))
       /\ \A p \in DOMAIN draw : Len(draw[p]) >= 2 /\ Len(draw[p]) = Len(draw[1])
  /\ Ratios \subseteq Nat
\* Every job of a sheet has a trading day to be priced on.
ASSUME DailySheetsAssumption ==
  \A sheet \in DailySheets :
    /\ sheet.jobs # <<>> /\ sheet.jobs \in Seq(Jobs)
    /\ \A j \in DOMAIN sheet.jobs :
         /\ sheet.jobs[j].evaluation <= sheet.jobs[j].expiry
         /\ \E day \in Range(SheetDates(sheet.jobs)) :
              day <= sheet.jobs[j].expiry
\* A sheet's coupon periods follow each other; a variant moves them by days.
ASSUME TermsheetsAssumption ==
  /\ \A sheet \in Termsheets : sheet \in Termsheet /\ Consecutive(sheet)
  /\ \A draw \in Variants : draw.days \in Int

\* The cells of the columns a request groups by and of its measures are
\* numbers, or NULL.
ASSUME QueriesAssumption ==
  /\ Queries \subseteq Query
  /\ \A table \in Tables :
       /\ table \in Seq(Range(table))
       /\ \A q \in Queries, r \in DOMAIN table :
            \A column \in Range(q.groups) \cup Range(q.values) :
              table[r][column] \in Nat

VARIABLES call, reply
deskVars == <<call, reply>>
vars == <<call, reply, benchVars>>

None == [tool |-> "none"]
Raised == [tool |-> "none", raised |-> TRUE]

Init == BenchInit /\ call = None /\ reply = None

\* One tool call and its answer.  The benchmark is explored apart: no other
\* tool is called while its corpus is remembered.
Free == call = None /\ corpus = NoCorpus
Reply(request0, answer) ==
  /\ call' = request0
  /\ reply' = answer
  /\ UNCHANGED benchVars
Answered ==
  /\ call # None
  /\ call' = None
  /\ reply' = None
  /\ UNCHANGED benchVars

-----------------------------------------------------------------------------
(* Pricing.  The risk cube tools wrap the same result: a cell for each      *)
(* selected sensitivity.  The first job is priced and, of three or more,    *)
(* the third: one of those with a wide basket raises.                       *)
Cells(result) ==
  [u \in result.names |-> [factor |-> u, value |-> result.selected[u]]]
PricedJobs(book) == IF Len(book) >= 3 THEN {1, 3} ELSE {1}
PricingTool(book, locvol, ratio, draw) ==
  LET result == PricingAndSensitivity(book, locvol, ratio, draw)
  IN Reply([tool |-> "pricing_and_sensitivity", book |-> book,
            locvol |-> locvol, ratio |-> ratio, draw |-> draw],
           IF \E j \in PricedJobs(book) : TooWide(book[j]) THEN Raised
           ELSE [cells |-> Cells(result.bumped), bumped |-> result.bumped,
                 views |-> result.views])

\* The scheduler's single mode bumps the first job only, with the defaults.
RunRiskSingle(book, draw) ==
  Reply([tool |-> "single", book |-> <<book[1]>>, locvol |-> TRUE,
         ratio |-> 0, draw |-> draw],
        IF TooWide(book[1]) THEN Raised
        ELSE PricingAndSensitivity(<<book[1]>>, TRUE, 0, draw))

AggregateTool(book, locvol, draw) ==
  Reply([tool |-> "aggregate_portfolio", book |-> book],
        IF \E j \in DOMAIN book : TooWide(book[j]) THEN Raised
        ELSE AggregatePortfolio(book, locvol, draw))

\* The native quote of a daily sheet, and what the Python mirror gives each
\* of its jobs on the days of that job.
DailyTool(sheet) ==
  LET cube == BuildDailyPathCube(sheet.jobs, sheet.draw, FALSE,
                                 [u \in DOMAIN sheet.jobs[1].equity |-> 0])
      dates == SheetDates(sheet.jobs)
      Days(job) == UpTo(dates, job.expiry)
      Until(job) == [p \in DOMAIN cube |-> [u \in DOMAIN cube[p] |->
                       [t \in 0 .. Days(job) - 1 |-> cube[p][u][t]]]]
      jobs == sheet.jobs
  IN Reply([tool |-> "daily", sheet |-> sheet],
           [quote |-> CaptureNativeQuote(jobs, dates, sheet.draw),
            native |-> [j \in DOMAIN jobs |->
                          PriceDailyJob(jobs[j], dates, cube)],
            python |-> [j \in DOMAIN jobs |->
                          PriceDailyTermsheet(jobs[j],
                            SubSeq(dates, 1, Days(jobs[j])),
                            Until(jobs[j]))]])

YearDays(y) == Date(y, 1, 1) .. Date(y, 12, 31)
ScheduleTool(y) ==
  Reply([tool |-> "schedule", year |-> y],
        [python |-> TradingDays(YearDays(y), y, y),
         native |-> NyseSchedule(YearDays(y))])

-----------------------------------------------------------------------------
(* The ETL tools: the variants of a sheet, the compiled requests of them    *)
(* and the canonical requests of the native lane.                           *)
EtlTool(sheet, draws) ==
  LET variants == AugmentTermsheet(sheet, draws)
  IN Reply([tool |-> "etl", sheet |-> sheet, draws |-> draws],
           IF AugmentRefused(sheet, draws) \/ CompileRefused(sheet)
             THEN Raised
           ELSE [variants |-> variants,
                 requests |-> [i \in DOMAIN variants |->
                                 CompilePricingRequest(variants[i])],
                 native |-> [i \in DOMAIN variants |->
                               CompileFcnNativeRequest(variants[i])]])

OlapQuery(q, table) ==
  \E answer \in QuerySsrm(q, table) :
    Reply([tool |-> "olap_query", query |-> q, table |-> table], answer)

\* The benchmark tools and the scheduler's batch mode; a process that is
\* done with a corpus forgets it.
BenchTool == call = None /\ BenchNext /\ UNCHANGED deskVars
Forget ==
  /\ request = Idle /\ reports # <<>>
  /\ corpus' = NoCorpus /\ reports' = <<>> /\ processed' = 0
  /\ sums' = NoSums /\ cached' = <<>> /\ methods' = EmptyBag /\ rows' = <<>>
  /\ UNCHANGED <<request, deskVars>>

Tool ==
  \/ \E book \in Books, draw \in Draws :
       \/ \E locvol \in BOOLEAN, ratio \in Ratios :
            PricingTool(book, locvol, ratio, draw)
       \/ \E locvol \in BOOLEAN : AggregateTool(book, locvol, draw)
       \/ RunRiskSingle(book, draw)
  \/ \E sheet \in DailySheets : DailyTool(sheet)
  \/ \E y \in Years : ScheduleTool(y)
  \/ \E sheet \in Termsheets, draws \in BoundedSeq(Variants, 2) :
       /\ \A i \in DOMAIN draws : draws[i].chosen \in ChosenNames(sheet.equity)
       /\ EtlTool(sheet, draws)
  \/ \E q \in Queries, table \in Tables : OlapQuery(q, table)
Next ==
  \/ Free /\ Tool
  \/ Answered
  \/ BenchTool
  \/ Forget

Spec == Init /\ [][Next]_vars
-----------------------------------------------------------------------------
Priced ==
  call.tool \in {"pricing_and_sensitivity", "single"} /\ reply # Raised

\* A higher call barrier never lowers the coupon: a note that is called later
\* (or never) pays at least as many of its periods, whatever was locked
\* before and whatever the other paths of the cube do.
LaterCallsPayMore ==
  Priced =>
    LET job == call.book[IF Len(call.book) >= 3 THEN 3 ELSE 1]
        harder == [job EXCEPT !.callBarrier = @ + (Unit \div 4)]
    IN reply.bumped.base.legs.COUPON
         <= PriceFixture(harder, BaseOption(harder, call.locvol, call.ratio),
                         call.draw).legs.COUPON

\* With a flat volatility the adjoint of the put is its central difference,
\* for every name whose bumps leave each path on its branch: the same worst
\* name, exercised or not, knocked in or not.  The difference re-reads the
\* market, re-simulates and re-prices; the adjoint does none of these.
AdjointMatchesBumps ==
  Priced /\ ~call.locvol =>
    LET job == call.book[1]
        Moved(u, sign, p) ==
          [reply.bumped.base.last[p] EXCEPT ![u] = (@ * (10 + sign * Bump)) \div 10]
        Branch(spots) ==
          LET worst == Worst(spots, References(job))
          IN <<WorstName(spots, References(job)), worst < job.strike,
               worst <= job.kiBarrier>>
        OnBranch(u) ==
          \A p \in DOMAIN reply.bumped.base.last :
            Branch(Moved(u, 1, p)) = Branch(Moved(u, -1, p))
    IN \A u \in reply.bumped.names :
         OnBranch(u) => reply.bumped.fd[u] = reply.bumped.base.adjoint[u]

\* The Taylor P&L of the aggregated rows is the sum of the results' own
\* forecasts: nothing is lost or counted twice where jobs share a factor.
\* A job that lists a name twice is the exception: its second row is dropped.
TaylorRowsAddUp ==
  (/\ call.tool = "aggregate_portfolio" /\ reply # Raised
   /\ \A j \in DOMAIN call.book : \A u \in DOMAIN call.book[j].equity :
        FirstOfName(call.book[j], u))
    => SumOver(LAMBDA key : (CHOOSE row \in reply.views.wide :
                               row.key = key).total,
               {row.key : row \in reply.views.wide})
         = SumOver(LAMBDA j : reply.results[j].forecast,
                   DOMAIN reply.results)

\* The two daily lanes give every leg of every job the same value, although
\* one prices the days up to the job's expiry and the other the whole sheet,
\* when no coupon period outlives the job.
DailyLanesAgree ==
  call.tool = "daily" =>
    \A j \in DOMAIN reply.native :
      LET job == call.sheet.jobs[j]
      IN (\A i \in DOMAIN job.periods : job.periods[i].end <= job.expiry)
           => reply.native[j] = reply.python[j]

\* The two calendars have the same trading days in every year: the holidays
\* one lists for a range of years, the other recognises day by day.
CalendarsAgree ==
  call.tool = "schedule" => reply.python = reply.native

\* The compiled coupon periods are what the native engine's loop counts on:
\* in order, disjoint, each of positive length and none over at evaluation,
\* however the calendar of the deal was moved against the evaluation date.
CompiledScheduleFits ==
  call.tool = "etl" /\ reply # Raised =>
    \A n \in DOMAIN reply.native :
      LET periods == reply.native[n].periods
      IN /\ \A i \in DOMAIN periods :
              /\ periods[i].start >= reply.native[n].evaluation
              /\ periods[i].start < periods[i].end
         /\ \A i, j \in DOMAIN periods :
              i < j => periods[i].end <= periods[j].start

\* Pages tile: with an order on the rows, this page and the next are the page
\* of both together, and the last row is announced exactly when the next page
\* is empty.
PagesTile ==
  (/\ call.tool = "olap_query" /\ reply # Failure
   /\ call.query.sort # "none" /\ call.query.start < call.query.end) =>
    LET size == call.query.end - call.query.start
        next == [call.query EXCEPT !.start = call.query.end,
                                   !.end = call.query.end + size]
        both == [call.query EXCEPT !.end = call.query.end + size]
        Rows(q) == (CHOOSE page \in QuerySsrm(q, call.table) : TRUE).rows
    IN /\ reply.rows \o Rows(next) = Rows(both)
       /\ (reply.lastRow = -1) <=> (Rows(next) # <<>>)

\* What a measure comes to over all the rows a group of a request opens to.
OpenedTotal(q, table, group, v) ==
  LET below == [q EXCEPT !.keys = Append(@, group),
                         !.start = 0, !.end = Len(table)]
      opened == (CHOOSE page \in QuerySsrm(below, table) : TRUE).rows
  IN SumOver(LAMBDA r : opened[r].cells[v], DOMAIN opened)

\* The cells of a group are the sums of the rows it opens to, on every level
\* and under the same filters.  The group of NULL is the exception: its key
\* becomes a comparison with NULL, and it opens to nothing.
DrillDownReconciles ==
  LET q == call.query IN
  call.tool = "olap_query" =>
    (reply # Failure /\ IsGrouping(q) /\ ~IsPivot(q) =>
      \A n \in DOMAIN reply.rows, v \in DOMAIN q.values :
        reply.rows[n].id # Null =>
          reply.rows[n].cells[v]
            = OpenedTotal(q, call.table, reply.rows[n].id, v))

\* What the row model query promises ("Execute an AG Grid SSRM request"): a
\* pivoted request is answered, and a group's pivoted cells of a measure add
\* up to its cell without the pivot, unless a row has no pivot value.
PivotedCellsReconcile ==
  LET q == call.query
      table == call.table
      flat == [q EXCEPT !.pivot = "none", !.start = 0, !.end = Len(table)]
      rows0 == (CHOOSE page \in QuerySsrm(flat, table) : TRUE).rows
      cells == PivotCells(q, table)
      ColumnsOf(v) == {c \in DOMAIN cells : cells[c].measure = q.values[v]}
  IN (/\ call.tool = "olap_query" /\ IsPivot(q) /\ ~Refused(q)
      /\ \A r \in DOMAIN table : table[r][q.pivot] # Null) =>
       /\ reply # Failure
       /\ \A n \in DOMAIN reply.rows, v \in DOMAIN q.values :
            \E m \in DOMAIN rows0 :
              /\ rows0[m].id = reply.rows[n].id
              /\ rows0[m].cells[v]
                   = SumOver(LAMBDA c : reply.rows[n].cells[c], ColumnsOf(v))
=============================================================================
