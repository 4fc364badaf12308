--------------------------- MODULE MCBudgetManager ---------------------------
(* Values for model checking BudgetManager: analysts nothing distinguishes, *)
(* and calls that nearly keep their share.                                 *)
EXTENDS BudgetManager, TLC

Near == -3..2

Symmetry == Permutations(Agents)
=============================================================================
