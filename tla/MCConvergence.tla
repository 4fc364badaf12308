----------------------------- MODULE MCConvergence -----------------------------
\* Three agents, and two figures of a round: all factors shared at one
\* confidence, or none shared and confidences as far apart as three can be.
\* Nothing distinguishes one stance or one item of evidence from another.
EXTENDS Convergence, TLC

CONSTANTS Buy, Sell, e1, e2

MCStances == {Buy, Sell}
MCEvidences == {{e1}, {e2}}
MCFigures == {<<100, 0>>, <<0, 94>>}
Symmetry == Permutations(MCStances) \cup Permutations({e1, e2})
=============================================================================
