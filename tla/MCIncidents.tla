------------------------------ MODULE MCIncidents ----------------------------
(***************************************************************************)
(* Incidents with alerts of one asset, the first of them without tactics.  *)
(***************************************************************************)
EXTENDS Incidents

OneAsset == [a \in Alerts |-> "host"]
SomeTactics == [a \in Alerts |-> IF a = 1 THEN {} ELSE {"execution"}]

\* A sweep with a fault and an edit; merges with edits; a merge with a fault.
EitherBudget ==
    {[now |-> 3, faults |-> 1, edits |-> 1, merges |-> 0],
     [now |-> 0, faults |-> 0, edits |-> 2, merges |-> 2],
     [now |-> 0, faults |-> 1, edits |-> 1, merges |-> 1]}
==============================================================================
