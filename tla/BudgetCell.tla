------------------------------ MODULE BudgetCell ------------------------------
(***************************************************************************)
(* What BudgetGate and BudgetStore promise the callers of one run, as if   *)
(* the budget were a single atomic cell: a call is admitted only against   *)
(* what is left, holds its amount until it is settled for what it really   *)
(* used, and forfeits it if its execution ends first.                      *)
(***************************************************************************)
EXTENDS Integers

CONSTANTS Calls, Total, Usages

VARIABLES
  left,  \* tokens not reserved and not spent; below zero after an overrun
  held   \* per call: the amount it has reserved

vars == <<left, held>>

Init ==
  /\ left = Total
  /\ held = [c \in Calls |-> 0]

Admit(c, m) ==
  /\ held[c] = 0
  /\ left' = left - m
  /\ held' = [held EXCEPT ![c] = m]

\* The call reported u tokens: the rest comes back, an overrun is taken.
Settle(c, u) ==
  /\ held[c] > 0
  /\ left' = left + held[c] - u
  /\ held' = [held EXCEPT ![c] = 0]

\* Nobody will settle these calls: their amounts stay charged.
Forfeit(S) ==
  /\ held' = [c \in Calls |-> IF c \in S THEN 0 ELSE held[c]]
  /\ UNCHANGED left

Next ==
  \/ \E c \in Calls : \/ \E m \in 1..left : Admit(c, m)
                      \/ \E u \in Usages : Settle(c, u)
  \/ \E S \in SUBSET Calls : Forfeit(S)

Spec == Init /\ [][Next]_vars
=============================================================================
