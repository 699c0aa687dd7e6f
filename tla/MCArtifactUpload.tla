-------------------------- MODULE MCArtifactUpload --------------------------
EXTENDS ArtifactUpload, TLC
CONSTANTS o1, r1, r2, r3

Symmetry == Permutations(Requests)
=============================================================================
