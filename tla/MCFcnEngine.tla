---------------------------- MODULE MCFcnEngine ----------------------------
(***************************************************************************)
(* Two underlyings, four observations, two paths; term sheets that differ  *)
(* in one feature each.  Performances are in tenths.                       *)
(***************************************************************************)
EXTENDS FcnOracle

MCDates == [k \in 0 .. 3 |-> 10 * (k + 1)]

\* A path: the underlyings' performances, observation by observation.
Path(a, b, c, d) ==
  LET both == <<a, b, c, d>>
  IN [k \in 0 .. 3 |-> [u \in Underlyings |->
        both[k + 1][IF u = CHOOSE v \in Underlyings : TRUE THEN 1 ELSE 2]]]

\* One above and one in range, the converse, both above, one knocked in.
Days == {<<12, 8>>, <<8, 12>>, <<12, 12>>, <<12, 6>>}
MCPaths ==
  {Path(a, b, c, d) : a \in {<<10, 10>>, <<12, 12>>}, b \in Days, c \in Days,
                      d \in Days}
    \cup {Path(<<10, 10>>, <<0, 9>>, <<9, 9>>, <<9, 9>>),
          Path(<<10, 10>>, <<9, 9>>, <<9, 9>>, <<9, 0>>),
          Path(<<10, 10>>, <<9, 9>>, <<12, 12>>, <<9, 0>>)}

MCPeriod(start, end, payment) ==
  [start |-> start, end |-> end, payment |-> payment, rate |-> 6, fixed |-> 1,
   lower |-> 8, upper |-> 11, paid |-> 0, total |-> 2, barrier |-> 0,
   localCoupon |-> 2, globalCoupon |-> 3]

Off == [enabled |-> FALSE, barrier |-> 11, operator |-> ">="]
On == [enabled |-> TRUE, barrier |-> 11, operator |-> ">="]

Plain ==
  [evaluation |-> 5, references |-> 2, worstOf |-> TRUE, continuous |-> FALSE,
   pillars |-> {[dated |-> TRUE, rated |-> TRUE]},
   memoryKo |-> FALSE, memoryMode |-> FALSE, barrierMemoryKo |-> "off",
   strike |-> 8, kiBarrier |-> 7, kiOperator |-> "<=",
   finalFixing |-> 40, maturity |-> 50, notional |-> 1,
   fundingEnabled |-> TRUE, returnRatio |-> 7,
   couponMemory |-> TRUE, lowerInclusive |-> TRUE, upperInclusive |-> TRUE,
   local |-> Off, global |-> Off, precedence |-> "global",
   periods |-> <<MCPeriod(5, 20, 25), MCPeriod(20, 40, 45)>>]

Callable == [Plain EXCEPT !.global = On]
Memory == [Callable EXCEPT !.memoryKo = TRUE, !.memoryMode = TRUE,
                           !.barrierMemoryKo = "absent"]
\* Holidays between 20 and 25: no observation in the second period.
Gap == [Callable EXCEPT
          !.periods = <<MCPeriod(10, 20, 25), MCPeriod(20, 25, 30),
                        MCPeriod(25, 40, 45)>>]
BothSides == [Callable EXCEPT
  !.local = [On EXCEPT !.barrier = 8, !.operator = ">"], !.precedence = "local"]
Conditional == [Plain EXCEPT !.periods[1].barrier = 8, !.periods[1].paid = 1,
                             !.periods[2].barrier = 8, !.periods[2].total = 1]
EarlyFinal == [Callable EXCEPT !.finalFixing = 35, !.lowerInclusive = FALSE,
                               !.notional = 2]
Unfunded == [Callable EXCEPT !.fundingEnabled = FALSE, !.couponMemory = FALSE]
BarrierMemory == [Memory EXCEPT !.memoryKo = FALSE, !.memoryMode = FALSE,
                                !.barrierMemoryKo = "on"]
Refused == {[Plain EXCEPT !.pillars = {[dated |-> TRUE, rated |-> FALSE],
                                       [dated |-> FALSE, rated |-> TRUE]}],
            [Memory EXCEPT !.memoryMode = FALSE],
            [Plain EXCEPT !.references = 1],
            [Plain EXCEPT !.periods[1].end = 4 + 10, !.periods[1].start = 15]}

MCSheets == {Plain, Callable, Memory, Gap, BothSides, Conditional, EarlyFinal,
             Unfunded, BarrierMemory} \cup Refused
=============================================================================
