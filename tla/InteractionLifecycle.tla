------------------------ MODULE InteractionLifecycle ------------------------
(***************************************************************************)
(* What an interaction record promises, whichever store keeps it: the      *)
(* graph its state column walks.  An answer takes a pending interaction    *)
(* (resolving) and ends it (resolved) or gives it back; a record that is   *)
(* resolved, expired or cancelled never changes again.                     *)
(***************************************************************************)
CONSTANT Interactions   \* the interaction ids of one execution

VARIABLE state          \* state[i]: the state column, "none" when there is no row

Open  == {"pending", "resolving"}
Final == {"resolved", "expired", "cancelled"}

\* The edges of the graph: where a record in state s may go next.
Successors(s) ==
  CASE s = "none"      -> {"pending"}
    [] s = "pending"   -> {"resolving", "expired", "cancelled"}
    [] s = "resolving" -> {"resolved", "pending", "cancelled"}
    [] s \in Final     -> {}

Init == state = [i \in Interactions |-> "none"]

Change(i) == \E s \in Successors(state[i]) : state' = [state EXCEPT ![i] = s]

\* cancelPending() closes everything that is open in one statement.
CancelOpen ==
  state' = [i \in Interactions |-> IF state[i] \in Open THEN "cancelled" ELSE state[i]]

Next == CancelOpen \/ \E i \in Interactions : Change(i)

Spec == Init /\ [][Next]_state
=============================================================================
