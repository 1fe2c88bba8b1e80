------------------------------ MODULE RiskView ------------------------------
(***************************************************************************)
(* The risk views of a bumped result (risk_view.py): long rows, one per    *)
(* observation of a method, and wide rows, one per risk factor with its    *)
(* Taylor P&L; and their aggregation over results.  The server's pricing   *)
(* tools build on them.                                                    *)
(***************************************************************************)
EXTENDS FixtureLane

\* The key joins portfolio, instrument, leg and factor.
RiskFactorKey(job, u) == <<job.instrument, job.equity[u].id>>

\* The P&L of a factor moved by the bump.
Contribution(result, u) == (result.selected[u] * Bump) \div 10

\* Each factor is observed by the selected method and by the cross-check.
LongRows(job, result) ==
  UNION {
    {[key |-> RiskFactorKey(job, u), value |-> result.selected[u],
      method |-> "AAD_WITH_PATHWISE_TRANSITION_FALLBACK"],
     [key |-> RiskFactorKey(job, u), value |-> result.fd[u],
      method |-> "CRN_FD"]} : u \in result.names}

\* One row per factor, at the place of the name: a factor listed again is
\* dropped.
FirstOfName(job, u) ==
  \A v \in DOMAIN job.equity : v < u => job.equity[v].id # job.equity[u].id
WideRows(job, result) ==
  [u \in {u \in DOMAIN job.equity : FirstOfName(job, u)} |->
     [key |-> RiskFactorKey(job, u), basePv |-> Value(result.base.legs),
      spot |-> result.base.quoted[u], delta |-> result.selected[u],
      pnl |-> Contribution(result, u), total |-> Contribution(result, u)]]

BuildRiskViews(job, result) ==
  [wide |-> WideRows(job, result), long |-> LongRows(job, result)]

\* Wide rows of one key are added up into the first, measure by measure.
\* Long rows are kept apart.
\* Mutant: the Taylor total stays that of the first row.
AddedNoTotal(first, rows) ==
  LET Total(F(_)) == SumOver(LAMBDA at : F(rows[at]), DOMAIN rows)
  IN [first EXCEPT !.basePv = Total(LAMBDA row : row.basePv),
                   !.delta = Total(LAMBDA row : row.delta),
                   !.pnl = Total(LAMBDA row : row.pnl)]
\* The first of some rows with the measures of all of them.
Added(first, rows) ==
  LET Total(F(_)) == SumOver(LAMBDA at : F(rows[at]), DOMAIN rows)
  IN [first EXCEPT !.basePv = Total(LAMBDA row : row.basePv),
                   !.delta = Total(LAMBDA row : row.delta),
                   !.pnl = Total(LAMBDA row : row.pnl),
                   !.total = Total(LAMBDA row : row.total)]
\* Rows have their place: the view and the name.
AggregateRiskViews(views) ==
  LET Places == UNION {{v} \X DOMAIN views[v].wide : v \in DOMAIN views}
      Row(at) == views[at[1]].wide[at[2]]
      Of(key) == {at \in Places : Row(at).key = key}
      First(key) == CHOOSE at \in Of(key) :
                      \A other \in Of(key) : at[1] <= other[1]
  IN [wide |-> {Added(Row(First(key)), [at \in Of(key) |-> Row(at)]) :
                  key \in {Row(at).key : at \in Places}},
      long |-> UNION {views[v].long : v \in DOMAIN views}]

-----------------------------------------------------------------------------
(* The pricing tools of the server.  A request has one job or three legs.  *)

BaseOption(job, locvol, ratio) ==
  [spots |-> Quotes(job), locvol |-> locvol, ratio |-> ratio]

\* pricing_and_sensitivity: the first job bumped; with three legs its coupon
\* is that of the third, after the risk rows were built.
PricingAndSensitivity(jobs, locvol, ratio, draw) ==
  LET result == BumpResult(jobs[1], BaseOption(jobs[1], locvol, ratio), draw)
      coupon == IF Len(jobs) >= 3
                THEN PriceFixture(jobs[3], BaseOption(jobs[3], locvol, ratio),
                                  draw).legs.COUPON
                ELSE result.base.legs.COUPON
  IN [bumped |-> [result EXCEPT !.base.legs.COUPON = coupon],
      views |-> BuildRiskViews(jobs[1], result)]

\* aggregate_portfolio: every job bumped as a note of its own.
AggregatePortfolio(jobs, locvol, draw) ==
  LET results == [j \in DOMAIN jobs |->
                    BumpResult(jobs[j], BaseOption(jobs[j], locvol, 0), draw)]
  IN [results |-> results,
      pv |-> SumOver(LAMBDA j : Value(results[j].base.legs), DOMAIN jobs),
      views |-> AggregateRiskViews(
                  [j \in DOMAIN jobs |->
                     BuildRiskViews(jobs[j], results[j])])]
=============================================================================
