----------------------------- MODULE MCFcnQuote -----------------------------
(***************************************************************************)
(* Two names, three trading days, two paths.  Performances are in          *)
(* hundredths; a move is one or two volatilities up or down.               *)
(***************************************************************************)
EXTENDS FcnQuote

MCDates == [k \in 0 .. 2 |-> 10 * (k + 1)]

MCPeriod(start, end) ==
  [start |-> start, end |-> end, payment |-> end + 5, rate |-> 6, fixed |-> 1,
   lower |-> 80, upper |-> 130, paid |-> 0, total |-> 2, barrier |-> 0,
   localCoupon |-> 2, globalCoupon |-> 3]
MCSide(enabled, barrier) ==
  [enabled |-> enabled, barrier |-> barrier, operator |-> ">="]
Pillar(date, rate) ==
  [dateGiven |-> TRUE, rateGiven |-> TRUE, readable |-> TRUE,
   dated |-> TRUE, rated |-> TRUE, date |-> date, rate |-> rate]
\* A date in quotes: given and readable, but not what the engine takes.
Quoted(date, rate) == [Pillar(date, rate) EXCEPT !.dated = FALSE]

Plain ==
  [hasFields |-> TRUE, evaluation |-> 5, references |-> 2, worstOf |-> TRUE,
   continuous |-> FALSE, pillars |-> {Pillar(10, 1), Pillar(30, 3)},
   memoryKo |-> FALSE, memoryMode |-> FALSE, barrierMemoryKo |-> "off",
   strike |-> 80, kiBarrier |-> 70, kiOperator |-> "<=",
   finalFixing |-> 30, maturity |-> 35, notional |-> 1,
   fundingEnabled |-> TRUE, returnRatio |-> 70, couponMemory |-> TRUE,
   lowerInclusive |-> TRUE, upperInclusive |-> TRUE,
   local |-> MCSide(FALSE, 110), global |-> MCSide(FALSE, 110),
   precedence |-> "global", periods |-> <<MCPeriod(5, 10), MCPeriod(10, 30)>>,
   quoted |-> <<100, 300>>, reference |-> <<100, 200>>,
   surfaces |-> [u \in {1} |-> [strike |-> 3, knockIn |-> 4, until |-> 99,
                               nulls |-> FALSE]]]

MCRequests ==
  {Plain,
   [Plain EXCEPT !.global.enabled = TRUE],
   [Plain EXCEPT !.quoted = <<100, 220>>, !.local = MCSide(TRUE, 105)],
   [Plain EXCEPT !.quoted = <<110, 220>>, !.global.enabled = TRUE,
      !.memoryKo = TRUE, !.memoryMode = TRUE, !.barrierMemoryKo = "absent"],
   [Plain EXCEPT !.hasFields = FALSE], [Plain EXCEPT !.memoryKo = TRUE],
   [Plain EXCEPT !.quoted[2] = 0], [Plain EXCEPT !.strike = 0],
   [Plain EXCEPT !.evaluation = 40],
   [Plain EXCEPT !.pillars =
      {[Pillar(10, 0) EXCEPT !.rateGiven = FALSE, !.rated = FALSE],
       [Quoted(10, 3) EXCEPT !.dateGiven = FALSE]}],
   [Plain EXCEPT !.pillars = {Quoted(10, 1), Quoted(30, 3)}],
   [Plain EXCEPT !.pillars = {Pillar(10, 1), Quoted(30, 3)}],
   [Plain EXCEPT !.pillars = {Pillar(10, 1),
                              [Quoted(30, 3) EXCEPT !.readable = FALSE]}],
   \* A surface without a volatility from the last day, and null points.
   [Plain EXCEPT !.global = MCSide(TRUE, 105), !.surfaces[1].until = 20],
   [Plain EXCEPT !.surfaces[1].nulls = TRUE]}

Moves == {<<-1, 1>>, <<1, 1>>, <<-2, -1>>}
MCDraws ==
  {<<[k \in 0 .. 2 |-> <<a, b, c>>[k + 1]],
     [k \in 0 .. 2 |-> <<c, a, b>>[k + 1]]>> : a, b, c \in Moves}
=============================================================================
