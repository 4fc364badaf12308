----------------------------- MODULE MCRunLock -----------------------------
(* Values for model checking RunLock: two pods, the first of which serves   *)
(* the calls a and b for the same run.                                      *)
EXTENDS RunLock

CONSTANTS p1, p2, a, b, c, d

MCPodOf == [t \in Tasks |-> IF t \in {a, b} THEN p1 ELSE p2]
=============================================================================
