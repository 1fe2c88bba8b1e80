---------------------------- MODULE ReportLedger ----------------------------
(***************************************************************************)
(* What the RiskCube report lifecycle promises its clients: an append-only *)
(* ledger of reports.  A published report is never changed or withdrawn,   *)
(* and its version id is one more than the highest version id already in   *)
(* the ledger.  An empty ledger may once take over the reports of the      *)
(* retired JSON implementation.  Nothing is said of locks, files, clocks   *)
(* or failures; RiskCube.tla is checked and proved to implement this.      *)
(***************************************************************************)
EXTENDS Naturals

CONSTANTS
  Requests,  \* the requests a report can answer
  Imported   \* entries [req, version] of the retired implementation

VARIABLE ledger  \* the set of published reports, as entries [req, version]

\* The version ids that may follow those in S: 1, or one past a member's.
Successors(S) == {1} \cup {e.version + 1 : e \in S}

Init == ledger = {}

Import ==
  /\ ledger = {}
  /\ ledger' = Imported

Publish ==
  \E q \in Requests, v \in Successors(ledger) :
    /\ \A e \in ledger : e.req # q /\ e.version < v
    /\ ledger' = ledger \cup {[req |-> q, version |-> v]}

Next == Import \/ Publish

Spec == Init /\ [][Next]_ledger
=============================================================================
