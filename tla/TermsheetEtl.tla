---------------------------- MODULE TermsheetEtl ----------------------------
(***************************************************************************)
(* The ETL stage (etl.py): permuted variants of a legacy term sheet, and   *)
(* their compilation into the canonical request the native FCN lane        *)
(* prices.  A sheet keeps what the compilation reads: market equities in   *)
(* their order, the deal's underlyings with their reference prices, and    *)
(* the parallel lists of the coupon leg, which may be of unequal length.   *)
(***************************************************************************)
EXTENDS Ascending, Sequences, SequencesExt, FiniteSetsExt

LegNames == {"PUT", "FUNDING", "COUPON"}

\* What a sheet keeps: names and numbers, dates as day serials.
Termsheet ==
  [equity : Seq([id : STRING, spot : Nat]), underlying : Seq(STRING),
   reference : Seq(Nat), legs : SUBSET LegNames, strike : Nat, barrier : Nat,
   evaluation : Int, expiry : Int, maturity : Int, starts : Seq(Int),
   ends : Seq(Int), payments : Seq(Int), rates : Seq(Nat), n1 : Seq(Nat),
   n2 : Seq(Nat)]
\* The coupon periods a deal is written with follow each other: each has a
\* positive length and starts, where a start is given, at the end of the one
\* before or later.
Consecutive(sheet) ==
  \A i \in DOMAIN sheet.ends :
    /\ i \in DOMAIN sheet.starts => sheet.starts[i] < sheet.ends[i]
    /\ i > 1 => /\ sheet.ends[i - 1] < sheet.ends[i]
                /\ i \in DOMAIN sheet.starts =>
                     sheet.ends[i - 1] <= sheet.starts[i]

Shift(values, days) == [i \in DOMAIN values |-> values[i] + days]

\* The names dealt in: two or three of the market's, in any order; a market
\* of one name has only that.
ChosenNames(equity) ==
  LET n == Len(equity)
      sizes == IF n < 2 THEN {1} ELSE {Min({k, n}) : k \in {2, 3}}
  IN {s \in UNION {[1 .. k -> DOMAIN equity] : k \in sizes} : IsInjective(s)}

\* _permute_variant: the economics drawn, and the calendar of the deal moved.
\* The evaluation date and the fixing counts stay.
Permuted(sheet, draw) ==
  [sheet EXCEPT
     !.underlying = [i \in DOMAIN draw.chosen |->
                       sheet.equity[draw.chosen[i]].id],
     !.reference = [i \in DOMAIN draw.chosen |->
                      sheet.equity[draw.chosen[i]].spot],
     !.strike = draw.strike, !.barrier = draw.barrier,
     !.expiry = @ + draw.days, !.maturity = @ + draw.days,
     !.starts = Shift(@, draw.days), !.ends = Shift(@, draw.days),
     !.payments = Shift(@, draw.days),
     !.rates = [i \in 1 .. Max({Len(@), 1}) |->
                  IF i = 1 THEN 0 ELSE draw.coupon]]

\* augment_termsheet: refused without a put leg or a count.
AugmentRefused(sheet, draws) == draws = <<>> \/ "PUT" \notin sheet.legs
AugmentTermsheet(sheet, draws) ==
  [i \in DOMAIN draws |-> Permuted(sheet, draws[i])]

\* The i-th element of a list, or a default beyond its end.
Nth(list, i, default) == IF i <= Len(list) THEN list[i] ELSE default
FirstNonzero(values) ==
  IF \E i \in DOMAIN values : values[i] # 0
    THEN values[Min({i \in DOMAIN values : values[i] # 0})] ELSE 0

\* compile_pricing_request: the market in the order of its equities, each
\* quoted and referenced at its spot, and the three legs.
CompileRefused(sheet) == sheet.legs # LegNames
CompilePricingRequest(sheet) ==
  [underlyings |-> [i \in DOMAIN sheet.equity |->
                      [id |-> sheet.equity[i].id,
                       quoted |-> sheet.equity[i].spot,
                       reference |-> sheet.equity[i].spot]],
   evaluation |-> sheet.evaluation, dealt |-> sheet.underlying,
   strike |-> sheet.strike, barrier |-> sheet.barrier,
   couponRate |-> FirstNonzero(sheet.rates)]

\* Mutant: a period that ends on the evaluation is kept.
OpenOnEnd(sheet, i) == sheet.ends[i] >= sheet.evaluation
\* A coupon period of the canonical request: from its start, not before the
\* evaluation, to its end.  A period that has ended is left out.
Open(sheet, i) == sheet.ends[i] > sheet.evaluation
PeriodStart(sheet, i) ==
  LET previous == IF i = 1 THEN sheet.evaluation ELSE sheet.ends[i - 1]
  IN Max({Nth(sheet.starts, i, previous), sheet.evaluation})
CouponPeriod(sheet, i) ==
  [start |-> PeriodStart(sheet, i), end |-> sheet.ends[i],
   payment |-> Nth(sheet.payments, i, sheet.ends[i]),
   rate |-> Nth(sheet.rates, i, 0), paid |-> Nth(sheet.n1, i, 0),
   total |-> Nth(sheet.n2, i, 0)]

\* compile_fcn_native_request: the compiled request, its references paired
\* with the deal's by position, and the terms of the note.
CompileFcnNativeRequest(sheet) ==
  LET request == CompilePricingRequest(sheet)
      Reference(i) == IF Nth(sheet.reference, i, 0) > 0
                      THEN sheet.reference[i]
                      ELSE request.underlyings[i].reference
      open == Ascending({i \in DOMAIN sheet.ends : Open(sheet, i)})
  IN [underlyings |-> [i \in DOMAIN request.underlyings |->
        [request.underlyings[i] EXCEPT !.reference = Reference(i)]],
      evaluation |-> request.evaluation, dealt |-> request.dealt,
      strike |-> request.strike, barrier |-> request.barrier,
      couponRate |-> request.couponRate,
      finalFixing |-> sheet.expiry, maturity |-> sheet.maturity,
      periods |-> [n \in DOMAIN open |-> CouponPeriod(sheet, open[n])]]
=============================================================================
