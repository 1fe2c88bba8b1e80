----------------------------- MODULE MCRiskCube -----------------------------
(***************************************************************************)
(* Small instances of RiskCube: two clients, three calls, two slice keys   *)
(* whose directory names collide ("a b" and "a-b" both become "a-b"), two  *)
(* clock seconds, and a retired JSON file with one report and one slice.   *)
(***************************************************************************)
EXTENDS RiskCube, TLC

CONSTANTS s1, s2, dir

MCSafeName == [s \in Slices |-> dir]

MCLegacyRows ==
  {[kind |-> "reports", slice |-> s1, req |-> Legacy, version |-> 2,
    epoch |-> 0, ready |-> FALSE],
   [kind |-> "slices", slice |-> s1, req |-> Legacy, version |-> 1,
    epoch |-> 0, ready |-> FALSE]}

Symmetry == Permutations(Clients) \cup Permutations(Requests)
=============================================================================
