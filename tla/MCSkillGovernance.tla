------------------------- MODULE MCSkillGovernance --------------------------
EXTENDS SkillGovernance, TLC

CONSTANTS s1, a1, a2, f1, f2, p1, p2

OneSource == [k \in Skills |-> s1]
Symmetry == Permutations(Apps) \cup Permutations(Publishers) \cup Permutations(Fingerprints)
=============================================================================
