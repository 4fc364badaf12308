---------------------------- MODULE MCBudgetGate ----------------------------
(* Values for model checking BudgetGate: the calls of two agents and of a   *)
(* tie-breaker, and the replays of two resumptions, through one gate or     *)
(* through two.                                                             *)
EXTENDS BudgetGate, TLC

CONSTANTS g1, g2, a, b, t, r1, r2

OneGate  == [x \in Calls |-> g1]
TwoGates == (a :> g1) @@ (b :> g1) @@ (t :> g2) @@ (r1 :> g1) @@ (r2 :> g2)
=============================================================================
