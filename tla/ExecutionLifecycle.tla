------------------------- MODULE ExecutionLifecycle -------------------------
(***************************************************************************)
(* What an execution record promises, whoever writes it: the graph its     *)
(* status column walks.  Terminal statuses are absorbing, a record is      *)
(* created once, a queued record is claimed (running) or given up          *)
(* (failed), and nothing ever comes back to queued or pending.             *)
(* The queue, the session manager and the restart procedures are shown to  *)
(* walk this graph by refinement.                                          *)
(***************************************************************************)
CONSTANT Executions     \* the execution ids (row keys of the execution table)

VARIABLE status         \* status[e]: the status column, "none" when there is no row

Terminal == {"completed", "partial", "failed", "cancelled"}
Session  == {"running", "waiting_for_interaction", "ready_for_follow_up"}
Waiting  == {"pending_confirmation", "queued"}
Status   == {"none"} \cup Waiting \cup Session \cup Terminal

\* The edges of the life cycle: where a record in status s may go next.
Successors(s) ==
  CASE s = "none"                 -> Status \ {"none"}
    [] s = "pending_confirmation" -> Status \ {"none", "pending_confirmation"}
    [] s = "queued"               -> {"running", "failed"}
    [] s \in Session              -> (Session \cup Terminal) \ {s}
    [] s \in Terminal             -> {}

TypeOK == status \in [Executions -> Status]

Init == status \in [Executions -> {"none", "pending_confirmation"}]

Move(e) == \E s \in Successors(status[e]) : status' = [status EXCEPT ![e] = s]

Next == \E e \in Executions : Move(e)

Spec == Init /\ [][Next]_status
=============================================================================
