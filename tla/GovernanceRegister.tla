------------------------- MODULE GovernanceRegister -------------------------
(***************************************************************************)
(* What publication promises: the Builder drafts numbered revisions, and   *)
(* the execution subsystem holds one of them.  Its revision never goes     *)
(* back, never runs ahead of the draft, and the Builder never claims a     *)
(* revision the execution subsystem does not yet hold.                     *)
(***************************************************************************)
EXTENDS Naturals

VARIABLES draft, active, acknowledged

vars == <<draft, active, acknowledged>>

Init == draft = 0 /\ active = 0 /\ acknowledged = 0

\* An administrator edits the governance records.
Edit == draft' > draft /\ draft' \in Nat /\ UNCHANGED <<active, acknowledged>>

\* The execution subsystem activates a later revision.
Activate ==
  /\ active' \in (active + 1) .. draft
  /\ UNCHANGED <<draft, acknowledged>>

\* The Builder learns that a revision was activated.
Acknowledge ==
  /\ acknowledged' \in (acknowledged + 1) .. active
  /\ UNCHANGED <<draft, active>>

Next == Edit \/ Activate \/ Acknowledge

Spec == Init /\ [][Next]_vars
=============================================================================
