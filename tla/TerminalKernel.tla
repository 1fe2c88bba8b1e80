--------------------------- MODULE TerminalKernel ---------------------------
(***************************************************************************)
(* The arithmetic every Python lane shares: path cubes, performances and   *)
(* the PUT/FUNDING/COUPON legs of price_terminal_legs.  Ratios are in      *)
(* Units.  A mean over the paths is kept as the sum over them, so that it  *)
(* stays an integer; exp(-r t) is a discount that falls with the date.     *)
(***************************************************************************)
EXTENDS Integers, Sequences, FiniteSets, SequencesExt, FiniteSetsExt

CONSTANT Unit  \* one whole in a ratio or a price

ASSUME UnitAssumption == Unit \in Nat \ {0}

Clip(x, low, high) == Max({low, Min({x, high})})

\* A date before the evaluation is not discounted (nor compounded).
YearFraction(start, end) == Max({end - start, 0})
Whole == 20  \* a discount factor of one
Discount(evaluation, date) == Whole - YearFraction(evaluation, date)

\* numpy.argmin of abs(values - target): the first of the nearest.
Nearest(values, target) ==
  LET Gap(k) == Max({values[k] - target, target - values[k]})
  IN Min({k \in DOMAIN values :
            \A j \in DOMAIN values : Gap(k) <= Gap(j)})

\* The sum of F over the numbers or names of S.
SumOver(F(_), S) == SumFunction([x \in S |-> F(x)])

Performance(spot, reference) == (spot * Unit) \div reference
Performances(spots, references) ==
  [u \in DOMAIN references |-> Performance(spots[u], references[u])]
Worst(spots, references) ==
  Min({Performance(spots[u], references[u]) : u \in DOMAIN references})
\* numpy.argmin of the performances: the first of the worst names.
WorstName(spots, references) ==
  Min({u \in DOMAIN references :
         Performance(spots[u], references[u]) = Worst(spots, references)})
Intrinsic(worst, strike) == Max({strike - worst, 0})

\* price_terminal_legs on a cube's last spots.  Pays is the knock-in mask;
\* without one every path pays.
TerminalLegs(terminal, references, strike, df, coupon, Pays(_)) ==
  LET worst == [p \in DOMAIN terminal |-> Worst(terminal[p], references)]
      put == df * SumOver(LAMBDA p : Intrinsic(worst[p], strike),
                          {p \in DOMAIN terminal : Pays(worst[p])})
  IN [PUT |-> 0 - put,
      FUNDING |-> df * Unit * Cardinality(DOMAIN terminal),
      COUPON |-> coupon]
Value(legs) == legs.PUT + legs.FUNDING + legs.COUPON

\* The frozen-branch adjoint of the put with respect to a name's spot, times
\* that spot: a path that pays moves with the performance of the name that is
\* its worst (aad_put_sensitivity; only with the XAD package).
AdjointDollar(terminal, references, strike, df, u, Pays(_)) ==
  0 - df * SumOver(LAMBDA p : Performance(terminal[p][u], references[u]),
                   {p \in DOMAIN terminal :
                      LET worst == Worst(terminal[p], references)
                      IN /\ worst < strike
                         /\ Pays(worst)
                         /\ WorstName(terminal[p], references) = u})
=============================================================================
