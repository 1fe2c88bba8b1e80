------------------------------- MODULE FcnNote -------------------------------
(***************************************************************************)
(* The price of an FCN/RakiPlus note on a cube of paths: the sum of what   *)
(* each path owes (FcnDue), where nothing of one path depends on another.  *)
(* A request or a path that lacks what the note needs is refused, and      *)
(* leaves nothing.                                                         *)
(* FcnEngine.tla, which steps through the observations, implements this.   *)
(***************************************************************************)
EXTENDS FcnDue

CONSTANTS
  Sheets,     \* canonical requests considered
  Paths,      \* paths of fixings considered
  PathCount,  \* paths in the cube
  NoPath

VARIABLES
  sheet,    \* the request
  verdict,  \* its evidence status
  fixings,  \* the path being priced
  totals    \* what its priced paths add up to

Refusals == {"unsupported", "ambiguous", "unresolved"}

None == [paid |-> EmptyBag, ki |-> 0, ko |-> 0, local |-> 0, global |-> 0,
         paths |-> 0]

Count(condition) == IF condition THEN 1 ELSE 0

Init ==
  /\ sheet \in Sheets
  /\ verdict = "pending"
  /\ fixings = NoPath
  /\ totals = None

Accept ==
  /\ verdict = "pending"
  /\ Priceable(sheet)
  /\ verdict' = "verified"
  /\ UNCHANGED <<sheet, fixings, totals>>

\* The cube has another path.
Draw ==
  /\ verdict = "verified"
  /\ fixings = NoPath
  /\ totals.paths < PathCount
  /\ fixings' \in Paths
  /\ UNCHANGED <<sheet, verdict, totals>>

Price ==
  /\ verdict = "verified"
  /\ fixings # NoPath
  /\ fixings' = NoPath
  /\ Complete(sheet, fixings)
  /\ totals' =
       LET called     == Called(sheet, fixings)
           kind(side) == called /\ CallKind(sheet, fixings) = side
       IN [paid   |-> totals.paid (+) Due(sheet, fixings),
           ki     |-> totals.ki + Count(KnockedIn(sheet, fixings)),
           ko     |-> totals.ko + Count(called),
           local  |-> totals.local + Count(kind("local")),
           global |-> totals.global + Count(kind("global")),
           paths  |-> totals.paths + 1]
  /\ UNCHANGED <<sheet, verdict>>

Refuse ==
  /\ \/ verdict = "pending" /\ ~Priceable(sheet) /\ verdict' \in Refusals
     \/ /\ verdict = "verified" /\ verdict' = "unresolved"
        /\ fixings # NoPath
        /\ ~Complete(sheet, fixings)
  /\ totals' = None
  /\ UNCHANGED <<sheet, fixings>>

Next == Accept \/ Draw \/ Price \/ Refuse

Spec == Init /\ [][Next]_<<sheet, verdict, fixings, totals>>
=============================================================================
