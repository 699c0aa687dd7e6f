----------------------- MODULE MCAgentExecutionQueue -----------------------
(* The instance of AgentExecutionQueue that TLC checks.                    *)
EXTENDS AgentExecutionQueue, TLC

CONSTANTS e1, e2, e3, c1, c2

Symmetry == Permutations(Callers)
=============================================================================
