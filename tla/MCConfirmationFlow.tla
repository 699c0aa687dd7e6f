------------------------- MODULE MCConfirmationFlow -------------------------
(* The instance of ConfirmationFlow that TLC checks.                       *)
EXTENDS ConfirmationFlow, TLC

CONSTANTS r1, r2, r3

Symmetry == Permutations(Requests)
=============================================================================
