--------------------------- MODULE MCSessionRuntime ---------------------------
EXTENDS SessionRuntime, TLC
CONSTANTS e1, e2, r1, r2

Symmetry == Permutations(Requests) \cup Permutations(Executions)
===============================================================================
