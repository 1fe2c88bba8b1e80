------------------------------- MODULE MCDesk -------------------------------
(***************************************************************************)
(* The desk's inputs: notes on two names over three steps or five trading  *)
(* days, sheets around an evaluation date, a small risk table, 121 years,  *)
(* and benchmarks of up to three instruments on two paths.                 *)
(***************************************************************************)
EXTENDS RiskDesk

\* Two pillars, two strikes; the volatility is lower for higher spots.
Skew == [strikes |-> <<8000, 9000>>, pillars |-> <<101, 104>>,
         vol |-> <<<<3, 1>>, <<2, 1>>>>]
Flat == [strikes |-> <<10000>>, pillars |-> <<>>, vol |-> <<>>]

Period(end, rate, paid) ==
  [end |-> end, payment |-> end + 1, rate |-> rate, paid |-> paid,
   total |-> 2, low |-> 7000, up |-> 13000]

Note ==
  [instrument |-> "note", underlyings |-> <<10000, 10000>>,
   equity |-> <<[id |-> "A", spot |-> 10000, reference |-> 9000],
                [id |-> "B", spot |-> 8000, reference |-> 8000]>>,
   surfaces |-> <<Flat, Skew>>, evaluation |-> 100, expiry |-> 104,
   callBarrier |-> 9000, kiBarrier |-> 7000, strike |-> 8000,
   locked |-> <<FALSE, FALSE>>, notional |-> 3, quoteScale |-> 10,
   periods |-> <<Period(102, 6, 0), Period(104, 6, 1)>>]
\* The put leg's job carries no coupon; the third job does.
PutLeg == [Note EXCEPT !.periods = <<>>]
Ended == [Note EXCEPT !.kiBarrier = 4000, !.callBarrier = 8000,
            !.locked = <<TRUE, FALSE>>,
            !.periods = <<Period(98, 6, 0), Period(99, 6, 0),
                          Period(102, 6, 2), Period(104, 6, 0)>>]
Locked == [Note EXCEPT !.locked = <<TRUE, TRUE>>, !.underlyings = <<>>,
             !.instrument = "locked"]
Twice == [Note EXCEPT !.equity[2].id = "A"]
Wide == [Note EXCEPT !.underlyings = <<10000, 10000, 10000>>]
MCBooks == {<<PutLeg, Note, Ended>>, <<Ended>>, <<Locked, Note>>, <<Twice>>,
            <<Wide>>, <<PutLeg, Wide, Ended>>}
MCYears == 1990 .. 2110

\* The moves of the two names on a step; nothing moves on the first.
Moves == {<<-1, -1>>, <<1, -1>>, <<1, 2>>}
MCPathsOf == {<<<<0, 0>>, a, b>> : a, b \in Moves}
MCDraws == {<<p, <<<<0, 0>>, <<1, 2>>, <<1, 2>>>>>> : p \in MCPathsOf}

\* 100 is a Monday, 104 a Good Friday: the trading days to 107 are five.
Daily(expiry, barrier, periods) ==
  [Note EXCEPT !.expiry = expiry, !.callBarrier = barrier,
     !.surfaces = <<Flat, Flat>>, !.periods = periods]
Early == <<Period(99, 6, 0), Period(101, 6, 1), Period(102, 6, 0),
           Period(103, 6, 0)>>
Late == <<Period(101, 6, 2), Period(103, 0, 0), Period(107, 6, 0)>>
MCDailySheets ==
  {[jobs |-> jobs,
    draw |-> <<[t \in 1 .. 5 |-> <<moves[t], other>>],
               [t \in 1 .. 5 |-> <<other, moves[t]>>]>>] :
     jobs \in {<<Daily(107, 9000, Late)>>,
               <<Daily(107, 12000, <<>>), Daily(103, 9000, Early),
                 Daily(107, 9000, Late)>>},
     moves \in {m \in [1 .. 5 -> {-1, 0, 1}] : m[1] = 0},
     other \in {0, 1}}

Sheet ==
  [equity |-> <<[id |-> "A", spot |-> 3], [id |-> "B", spot |-> 5],
                [id |-> "C", spot |-> 7]>>,
   underlying |-> <<"A", "B">>, reference |-> <<3, 4>>, legs |-> LegNames,
   strike |-> 8, barrier |-> 7, evaluation |-> 100, expiry |-> 106,
   maturity |-> 108, starts |-> <<95, 98, 103>>, ends |-> <<98, 103, 106>>,
   payments |-> <<99, 104, 107>>, rates |-> <<0, 5, 5>>, n1 |-> <<2>>,
   n2 |-> <<2, 2, 2>>]
MCTermsheets ==
  {Sheet, [Sheet EXCEPT !.starts = <<95>>, !.payments = <<99, 104>>],
   [Sheet EXCEPT !.legs = {"PUT", "FUNDING"}],
   [Sheet EXCEPT !.legs = {"COUPON"}],
   [Sheet EXCEPT !.equity = <<[id |-> "A", spot |-> 3]>>]}
MCVariants ==
  {[chosen |-> chosen, strike |-> 8, barrier |-> 6, days |-> days,
    coupon |-> 4] :
     chosen \in {<<1>>, <<1, 2>>, <<3, 1>>, <<2, 3, 1>>},
     days \in {-6, -3, 0, 2, 5}}

Rows(cells) ==
  [r \in DOMAIN cells |-> [desk |-> cells[r][1], name |-> cells[r][2],
                           pnl |-> cells[r][3], delta |-> cells[r][4]]]
MCTables == {Rows(<<<<1, 1, 5, 2>>, <<1, 2, 3, 1>>, <<2, 1, 2, 4>>,
                    <<1, 2, 1, 1>>>>),
             Rows(<<<<1, 1, 4, 3>>, <<2, 2, 2, 2>>, <<3, 1, 1, 5>>>>),
             Rows(<<<<Null, 1, 4, 3>>, <<2, Null, 2, 2>>, <<Null, 2, 1, 5>>>>)}
Filters == {<<>>, <<[column |-> "name", kind |-> "equals", args |-> <<1>>]>>,
            <<[column |-> "pnl", kind |-> "inRange", args |-> <<2, 4>>],
              [column |-> "name", kind |-> "set", args |-> <<1, 2>>]>>,
            <<[column |-> "pnl", kind |-> "notEqual", args |-> <<2>>]>>,
            <<[column |-> "name", kind |-> "set", args |-> <<>>]>>}
QueriesWith(pivots, values) ==
  {[groups |-> level.groups, keys |-> level.keys, filters |-> filters,
    pivot |-> pivot, values |-> values, start |-> page[1], end |-> page[2],
    sort |-> sort] :
     level \in {[groups |-> <<>>, keys |-> <<>>],
                [groups |-> <<"desk">>, keys |-> <<>>],
                [groups |-> <<"desk">>, keys |-> <<1>>],
                [groups |-> <<"desk">>, keys |-> <<Null>>],
                [groups |-> <<"desk", "name">>, keys |-> <<>>],
                [groups |-> <<"desk", "name">>, keys |-> <<1>>],
                [groups |-> <<"desk", "name">>, keys |-> <<1, 2>>],
                [groups |-> <<"desk">>, keys |-> <<1, 2>>]},
     filters \in Filters, pivot \in pivots,
     page \in {<<0, 0>>, <<0, 1>>, <<1, 2>>, <<0, 2>>, <<2, 3>>, <<0, 9>>},
     sort \in {"none", "asc", "desc"}}
MCQueries == QueriesWith({"none"}, <<"pnl", "delta">>)
               \cup QueriesWith({"name"}, <<"pnl">>)
PivotQueries == QueriesWith({"name"}, <<"pnl">>)

\* Terminal cubes: every name's performance on two paths.
Level(n, tenths) == (Spot(n) * tenths) \div 10
MCTerminals ==
  {<<[n \in 0 .. 3 |-> Level(n, a[n + 1])],
     [n \in 0 .. 3 |-> Level(n, b[n + 1])]>> :
     a \in {<<6, 7, 10, 9>>, <<7, 7, 7, 7>>},
     b \in {<<12, 6, 8, 11>>, <<5, 12, 6, 7>>}}
\* Too few paths were asked for the cubes whose first path is level: more
\* paths are another cube.
MCClampedCube ==
  [cube \in Terminals |->
     IF cube[1] = [n \in 0 .. 3 |-> Level(n, 7)]
     THEN <<[n \in 0 .. 3 |-> Level(n, <<6, 7, 10, 9>>[n + 1])], cube[2]>>
     ELSE cube]
=============================================================================
