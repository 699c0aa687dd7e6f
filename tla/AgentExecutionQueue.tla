------------------------ MODULE AgentExecutionQueue ------------------------
(***************************************************************************)
(* AgentExecutionQueue: the bounded, single-instance queue that runs       *)
(* asynchronous Agent executions.  One action per stretch of code between  *)
(* two awaits; the execution table survives a crash, the rest is the       *)
(* memory of the service process.                                          *)
(*                                                                         *)
(* run is indexed by the execution: NoDoubleSchedule shows that one        *)
(* execution never has two live activations of run().                      *)
(***************************************************************************)
EXTENDS Integers, Sequences, FiniteSets

CONSTANTS
  Executions,    \* execution ids
  Callers,       \* HTTP requests that may be inside enqueue() at a time
  Interactive,   \* the executions whose executor opens a provider session
  Concurrency,   \* agentAsync.concurrency
  DbFaults,      \* TRUE: a store call may reject
  NoExec         \* "no execution"

ASSUME ConcurrencyAssumption == Concurrency \in Nat \ {0}
ASSUME InteractiveAssumption == Interactive \subseteq Executions
ASSUME NoExecAssumption == NoExec \notin Executions
ASSUME ExecutionsAssumption == IsFiniteSet(Executions)
ASSUME DbFaultsAssumption == DbFaults \in BOOLEAN

VARIABLES
  store,             \* the status column of the execution table (durable)
  op,                \* op[c]: where caller c's persistAndSchedule stands
  enqueueOperations, \* executions with a persistAndSchedule in flight
  pending,           \* the FIFO of items not yet taken
  scheduled,         \* executions in pending or in run()
  active,            \* number of activations of run()
  run,               \* run[e]: where run() stands for e
  started,           \* the started flag
  sessions,          \* interactive executions with a live provider session
  server,            \* "down", "reconciling", "up" or "closing"
  todo,              \* records reconcileInterrupted has listed and not visited
  executorCalls      \* history: how often the executor was invoked for e

memory == <<op, enqueueOperations, pending, scheduled, active, run, started>>
boot   == <<server, todo>>
vars   == <<store, memory, sessions, boot, executorCalls>>

Lifecycle == INSTANCE ExecutionLifecycle WITH status <- store

Status   == Lifecycle!Status
Terminal == Lifecycle!Terminal

OpPc  == {"idle", "get", "save", "promote", "reread"}
RunPc == {"idle", "claim", "execute", "attached", "catch", "fail", "settle"}
IdleOp == [pc |-> "idle", exec |-> NoExec, seen |-> "none"]

Items(q) == {q[i] : i \in DOMAIN q}
Least(a, b) == IF a <= b THEN a ELSE b

----------------------------------------------------------------------------
(* The execution store, as the queue uses it.                              *)

\* save(): an upsert that looks at nothing.
Save(e, s) == store' = [store EXCEPT ![e] = s]

\* Mutant: the conditional update forgets its condition.
UnconditionalTransition(e, from, s) == store' = [store EXCEPT ![e] = s]

\* transition(): a conditional update; a no-op unless the status is in from.
Transition(e, from, s) ==
  store' = IF store[e] \in from THEN [store EXCEPT ![e] = s] ELSE store

----------------------------------------------------------------------------
Init ==
  /\ store \in [Executions -> {"none", "pending_confirmation"}]
  /\ op = [c \in Callers |-> IdleOp]
  /\ enqueueOperations = {}
  /\ pending = << >>
  /\ scheduled = {}
  /\ active = 0
  /\ run = [e \in Executions |-> "idle"]
  /\ started = FALSE
  /\ sessions = {}
  /\ server = "down"
  /\ todo = {}
  /\ executorCalls = [e \in Executions |-> 0]

----------------------------------------------------------------------------
\* Mutant: the bound is off by one.
OffByOneDrain(on, q, a, r) ==
  LET n == IF on /\ a <= Concurrency THEN Least(Len(q), 1 + Concurrency - a) ELSE 0
      taken == {q[i] : i \in 1..n}
  IN  /\ pending' = SubSeq(q, n + 1, Len(q))
      /\ active' = a + n
      /\ run' = [e \in Executions |-> IF e \in taken THEN "claim" ELSE r[e]]

(* drain(): start as many of the items of q as there are free places, a    *)
(* being the value of active and r the activations when it is called.      *)
Drain(on, q, a, r) ==
  LET n == IF on /\ a < Concurrency THEN Least(Len(q), Concurrency - a) ELSE 0
      taken == {q[i] : i \in 1..n}
  IN  /\ pending' = SubSeq(q, n + 1, Len(q))
      /\ active' = a + n
      /\ run' = [e \in Executions |-> IF e \in taken THEN "claim" ELSE r[e]]

----------------------------------------------------------------------------
(* enqueue() and persistAndSchedule().                                     *)

\* Mutant: enqueue() does not look for an operation in flight.
UndedupedEnqueue(c, e) ==
  /\ server \in {"up", "closing"}
  /\ op[c].pc = "idle"
  /\ enqueueOperations' = enqueueOperations \cup {e}
  /\ op' = [op EXCEPT ![c] = [pc |-> "get", exec |-> e, seen |-> "none"]]
  /\ UNCHANGED <<store, pending, scheduled, active, run, started,
                 sessions, boot, executorCalls>>

\* A caller that finds an operation in flight joins it and changes nothing.
Enqueue(c, e) ==
  /\ server \in {"up", "closing"}
  /\ op[c].pc = "idle"
  /\ e \notin enqueueOperations
  /\ enqueueOperations' = enqueueOperations \cup {e}
  /\ op' = [op EXCEPT ![c] = [pc |-> "get", exec |-> e, seen |-> "none"]]
  /\ UNCHANGED <<store, pending, scheduled, active, run, started,
                 sessions, boot, executorCalls>>

OpEnds(c) ==
  /\ op' = [op EXCEPT ![c] = IdleOp]
  /\ enqueueOperations' = enqueueOperations \ {op[c].exec}

\* The first get(); a record past "running" is returned as it is.
ReadExisting(c) ==
  LET seen == store[op[c].exec]
      GoTo(pc) == /\ op' = [op EXCEPT ![c].pc = pc, ![c].seen = seen]
                  /\ UNCHANGED enqueueOperations
  IN  /\ op[c].pc = "get"
      /\ \/ seen = "none" /\ GoTo("save")
         \/ seen = "pending_confirmation" /\ GoTo("promote")
         \/ seen \in {"queued", "running"} /\ GoTo("reread")
         \/ /\ seen \notin {"none", "pending_confirmation", "queued", "running"}
            /\ OpEnds(c)
      /\ UNCHANGED <<store, pending, scheduled, active, run, started,
                     sessions, boot, executorCalls>>

SaveQueued(c) ==
  /\ op[c].pc = "save"
  /\ Save(op[c].exec, "queued")
  /\ op' = [op EXCEPT ![c].pc = "reread"]
  /\ UNCHANGED <<enqueueOperations, pending, scheduled, active, run, started,
                 sessions, boot, executorCalls>>

PromoteConfirmed(c) ==
  /\ op[c].pc = "promote"
  /\ Transition(op[c].exec, {"pending_confirmation"}, "queued")
  /\ op' = [op EXCEPT ![c].pc = "reread"]
  /\ UNCHANGED <<enqueueOperations, pending, scheduled, active, run, started,
                 sessions, boot, executorCalls>>

\* Mutant: only a new record is scheduled.
ScheduleOnlyNew(c) ==
  LET e == op[c].exec
  IN  /\ op[c].pc = "reread"
      /\ OpEnds(c)
      /\ IF e \notin scheduled /\ op[c].seen = "none"
           THEN /\ scheduled' = scheduled \cup {e}
                /\ Drain(started, Append(pending, e), active, run)
           ELSE UNCHANGED <<pending, scheduled, active, run>>
      /\ UNCHANGED <<store, started, sessions, boot, executorCalls>>

\* After the second get(): schedule unless already scheduled or seen running.
Schedule(c) ==
  LET e == op[c].exec
  IN  /\ op[c].pc = "reread"
      /\ OpEnds(c)
      /\ IF e \notin scheduled /\ op[c].seen # "running"
           THEN /\ scheduled' = scheduled \cup {e}
                /\ Drain(started, Append(pending, e), active, run)
           ELSE UNCHANGED <<pending, scheduled, active, run>>
      /\ UNCHANGED <<store, started, sessions, boot, executorCalls>>

\* A store call rejects, before or after its write took effect: the
\* operation ends and the HTTP request fails.
EnqueueFault(c) ==
  /\ DbFaults
  /\ op[c].pc # "idle"
  /\ \/ op[c].pc = "save" /\ Save(op[c].exec, "queued")
     \/ /\ op[c].pc = "promote"
        /\ Transition(op[c].exec, {"pending_confirmation"}, "queued")
     \/ UNCHANGED store
  /\ OpEnds(c)
  /\ UNCHANGED <<pending, scheduled, active, run, started,
                 sessions, boot, executorCalls>>

----------------------------------------------------------------------------
(* run().                                                                  *)

\* Mutant: the result of the claim is ignored.
ClaimIgnored(e) ==
  /\ run[e] = "claim"
  /\ Transition(e, {"queued"}, "running")
  /\ run' = [run EXCEPT ![e] = "execute"]
  /\ executorCalls' = [executorCalls EXCEPT ![e] = @ + 1]
  /\ UNCHANGED <<op, enqueueOperations, pending, scheduled, active, started,
                 sessions, boot>>

Claim(e) ==
  /\ run[e] = "claim"
  /\ Transition(e, {"queued"}, "running")
  /\ IF store[e] = "queued"
       THEN /\ run' = [run EXCEPT ![e] = "execute"]
            /\ executorCalls' = [executorCalls EXCEPT ![e] = @ + 1]
       ELSE /\ run' = [run EXCEPT ![e] = "settle"]
            /\ UNCHANGED executorCalls
  /\ UNCHANGED <<op, enqueueOperations, pending, scheduled, active, started,
                 sessions, boot>>

\* The executor ran the provider to its end and saved the result, or failed on
\* the way and its catch saved "failed".
ExecutorSettles(e) ==
  /\ run[e] = "execute"
  /\ \E s \in Terminal \ {"cancelled"} : Save(e, s)
  /\ run' = [run EXCEPT ![e] = "settle"]
  /\ UNCHANGED <<op, enqueueOperations, pending, scheduled, active, started,
                 sessions, boot, executorCalls>>

\* An interactive executor opens a provider session that consumes events while
\* the executor is still on its way back ...
ExecutorOpensSession(e) ==
  /\ run[e] = "execute"
  /\ e \in Interactive
  /\ store[e] = "running"
  /\ run' = [run EXCEPT ![e] = "attached"]
  /\ sessions' = sessions \cup {e}
  /\ UNCHANGED <<store, op, enqueueOperations, pending, scheduled, active,
                 started, boot, executorCalls>>

\* ... and returns while the session goes on: the place in the queue is free.
ExecutorDetaches(e) ==
  /\ run[e] = "attached"
  /\ run' = [run EXCEPT ![e] = "settle"]
  /\ UNCHANGED <<store, op, enqueueOperations, pending, scheduled, active,
                 started, sessions, boot, executorCalls>>

\* The executor rejects: the engine could not save, or it returned and the
\* confirmation could not be finished.
ExecutorThrows(e) ==
  /\ DbFaults
  /\ run[e] \in {"execute", "attached"}
  /\ run' = [run EXCEPT ![e] = "fail"]
  /\ \/ UNCHANGED store
     \/ /\ run[e] = "execute"
        /\ \E s \in Terminal \ {"cancelled"} : Save(e, s)
  /\ UNCHANGED <<op, enqueueOperations, pending, scheduled, active,
                 started, sessions, boot, executorCalls>>

\* save() upserts the row and then writes its log line: when the second fails
\* the row is written and the engine is in its catch, as it is when starting
\* a session fails after the session is open.
ExecutorFaults(e) ==
  /\ DbFaults
  /\ \/ /\ run[e] = "execute"
        /\ \E s \in Terminal \ {"cancelled"} : Save(e, s)
     \/ run[e] = "attached" /\ UNCHANGED store
  /\ run' = [run EXCEPT ![e] = "catch"]
  /\ UNCHANGED <<op, enqueueOperations, pending, scheduled, active,
                 started, sessions, boot, executorCalls>>

\* The catch of the engine saves "failed" over whatever the row says.
ExecutorCatches(e) ==
  /\ run[e] = "catch"
  /\ Save(e, "failed")
  /\ run' = [run EXCEPT ![e] = "settle"]
  /\ UNCHANGED <<op, enqueueOperations, pending, scheduled, active,
                 started, sessions, boot, executorCalls>>

RecordFailure(e) ==
  /\ run[e] = "fail"
  /\ Transition(e, {"running"}, "failed")
  /\ run' = [run EXCEPT ![e] = "settle"]
  /\ UNCHANGED <<op, enqueueOperations, pending, scheduled, active, started,
                 sessions, boot, executorCalls>>

\* Mutant: the finally does not drain.
SettleWithoutDrain(e) ==
  /\ run[e] = "settle"
  /\ scheduled' = scheduled \ {e}
  /\ active' = active - 1
  /\ run' = [run EXCEPT ![e] = "idle"]
  /\ UNCHANGED <<store, op, enqueueOperations, pending, started, sessions,
                 boot, executorCalls>>

\* The finally of drain().
Settle(e) ==
  /\ run[e] = "settle"
  /\ scheduled' = scheduled \ {e}
  /\ Drain(started, pending, active - 1, [run EXCEPT ![e] = "idle"])
  /\ UNCHANGED <<store, op, enqueueOperations, started, sessions, boot,
                 executorCalls>>

----------------------------------------------------------------------------
(* What the session manager does to the record of a live session: every    *)
(* write is a transition() from one of the session statuses.               *)
SessionMoves(e) ==
  /\ e \in sessions
  /\ \E s \in Lifecycle!Session \cup Terminal :
       /\ Transition(e, Lifecycle!Session, s)
       /\ sessions' = IF s \in Terminal THEN sessions \ {e} ELSE sessions
  /\ UNCHANGED <<memory, boot, executorCalls>>

----------------------------------------------------------------------------
(* The service process.                                                    *)

\* onReady: reconcileInterrupted() lists the interrupted records ...
Boot ==
  /\ server = "down"
  /\ server' = "reconciling"
  /\ todo' = {e \in Executions :
                store[e] \in {"queued", "running", "waiting_for_interaction"}}
  /\ UNCHANGED <<store, memory, sessions, executorCalls>>

\* ... and fails them one by one ...
ReconcileOne(e) ==
  /\ server = "reconciling"
  /\ e \in todo
  /\ Transition(e, {"queued", "running", "waiting_for_interaction"}, "failed")
  /\ todo' = todo \ {e}
  /\ UNCHANGED <<memory, sessions, server, executorCalls>>

\* ... before start() and before the service accepts requests.
Start ==
  /\ server = "reconciling"
  /\ todo = {}
  /\ server' = "up"
  /\ started' = TRUE
  /\ Drain(TRUE, pending, active, run)
  /\ UNCHANGED <<store, op, enqueueOperations, scheduled, sessions, todo,
                 executorCalls>>

\* onClose: stop() lets the running items finish and takes no new one.
Stop ==
  /\ server = "up"
  /\ server' = "closing"
  /\ started' = FALSE
  /\ UNCHANGED <<store, op, enqueueOperations, pending, scheduled, active, run,
                 sessions, todo, executorCalls>>

\* The process ends (a crash, an unhandled rejection in run(), or the end of
\* a shutdown): its memory is gone.
Crash ==
  /\ server # "down"
  /\ server' = "down"
  /\ todo' = {}
  /\ op' = [c \in Callers |-> IdleOp]
  /\ enqueueOperations' = {}
  /\ pending' = << >>
  /\ scheduled' = {}
  /\ active' = 0
  /\ run' = [e \in Executions |-> "idle"]
  /\ started' = FALSE
  /\ sessions' = {}
  /\ UNCHANGED <<store, executorCalls>>

----------------------------------------------------------------------------
OpStep(c) == ReadExisting(c) \/ SaveQueued(c) \/ PromoteConfirmed(c) \/ Schedule(c)

ExecutorStep(e) ==
  \/ ExecutorSettles(e) \/ ExecutorOpensSession(e) \/ ExecutorDetaches(e)
  \/ ExecutorThrows(e) \/ ExecutorFaults(e) \/ ExecutorCatches(e)

RunStep(e) == Claim(e) \/ ExecutorStep(e) \/ RecordFailure(e) \/ Settle(e)

Next ==
  \/ \E c \in Callers, e \in Executions : Enqueue(c, e)
  \/ \E c \in Callers : OpStep(c) \/ EnqueueFault(c)
  \/ \E e \in Executions : RunStep(e) \/ SessionMoves(e) \/ ReconcileOne(e)
  \/ Boot \/ Start \/ Stop \/ Crash

Spec == Init /\ [][Next]_vars

\* The event loop runs what is ready, the database answers, and a provider
\* call is bounded by its timeout.  Nothing restarts the process, closes it
\* or calls enqueue() on its own.
FairSpec ==
  /\ Spec
  /\ \A c \in Callers : WF_vars(OpStep(c))
  /\ \A e \in Executions : WF_vars(RunStep(e))

----------------------------------------------------------------------------
OpRecord == [pc : OpPc, exec : Executions \cup {NoExec}, seen : Status]

TypeOK ==
  /\ store \in [Executions -> Status]
  /\ op \in [Callers -> OpRecord]
  /\ enqueueOperations \subseteq Executions
  /\ pending \in Seq(Executions)
  /\ scheduled \subseteq Executions
  /\ active \in Nat
  /\ run \in [Executions -> RunPc]
  /\ started \in BOOLEAN
  /\ sessions \subseteq Executions
  /\ server \in {"down", "reconciling", "up", "closing"}
  /\ todo \subseteq Executions
  /\ executorCalls \in [Executions -> Nat]

Activations == {e \in Executions : run[e] # "idle"}

\* A duplicate enqueue, a retry after a rejected call, a restart: whatever
\* happens, the executor (the Agent with its side effects) is invoked at most
\* once for an execution id.
ExecutedAtMostOnce == \A e \in Executions : executorCalls[e] <= 1

\* drain() never has more activations of run() alive than the configured
\* concurrency, and active counts them exactly.
ConcurrencyRespected ==
  /\ active = Cardinality(Activations)
  /\ active <= Concurrency

\* scheduled is exactly what is in pending or in run(), and an execution is
\* in one place only: no item is lost between enqueue() and run(), none is
\* taken twice.
NoDoubleSchedule ==
  /\ scheduled = Items(pending) \cup Activations
  /\ Items(pending) \cap Activations = {}
  /\ \A i, j \in DOMAIN pending : pending[i] = pending[j] => i = j

\* Places are never left empty while items wait: the queue is work conserving.
WorkConserving == started /\ pending # << >> => active >= Concurrency

\* The save() in persistAndSchedule() is an unconditional upsert, and still it
\* never overwrites a record somebody else has written since the get().
SaveNeverOverwrites ==
  \A c \in Callers : op[c].pc = "save" => store[op[c].exec] = "none"

\* Once the service is up, a queued record is on its way: in the queue, or
\* still inside the enqueue() that persisted it.
NoStrandedQueued ==
  server \in {"up", "closing"} =>
    \A e \in Executions :
      store[e] = "queued" => e \in scheduled \cup enqueueOperations

\* The record only walks the edges of the life cycle: terminal statuses are
\* absorbing and nothing returns to queued.
LifecycleSpec == Lifecycle!Spec

\* While the service stays up, a queued execution is eventually claimed or
\* given up: no item is forgotten and the queue does not lock up.
QueuedIsServed ==
  \A e \in Executions :
    (server = "up" /\ store[e] = "queued") ~> (server # "up" \/ store[e] # "queued")
=============================================================================
