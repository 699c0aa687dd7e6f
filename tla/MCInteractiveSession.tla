------------------------ MODULE MCInteractiveSession ------------------------
(* The instance of InteractiveSession that TLC checks.                     *)
EXTENDS InteractiveSession, TLC

CONSTANTS i1, i2, r1, r2, c1

Symmetry == Permutations(Responders)

\* The state without the history of answers and denials, which no action reads and
\* which the properties of session_cancel do not speak of.
WithoutHistory ==
  <<rows, late, memory, task, buffer, events, adapter, run, unasked, asking, server>>
=============================================================================
