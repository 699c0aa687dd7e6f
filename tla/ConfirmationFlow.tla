-------------------------- MODULE ConfirmationFlow --------------------------
(***************************************************************************)
(* One execution whose policy requires confirmation: it is paused, its     *)
(* confirmation expires or is claimed by POST .../confirm requests that    *)
(* may be repeated and concurrent, and the approved execution runs inside  *)
(* the request (sync) or in the queue (async), as a plain provider call or *)
(* as an interactive session.  One action per stretch between two awaits.  *)
(* Executions share nothing here but the places of AgentExecutionQueue, so *)
(* one execution is enough.                                                *)
(***************************************************************************)
EXTENDS Integers, FiniteSets

CONSTANTS
  Requests,   \* POST /executions/:id/confirm requests
  Worker,     \* the run() of the execution queue
  Execution,  \* the execution
  DbFaults    \* TRUE: a store call may reject

ASSUME WorkerAssumption == Worker \notin Requests
ASSUME DbFaultsAssumption == DbFaults \in BOOLEAN

VARIABLES
  conf,          \* status column of the confirmation row, "none" without a row
  exec,          \* status column of the execution row
  late,          \* the clock has passed expiresAt
  submission,    \* where the submission stands: "issue", "persist", "known", "over"
  kind,          \* [async, interactive]: the submitted request
  req,           \* req[r]: where confirm request r stands, and its clock reading
  reply,         \* reply[r]: the status told to the client of r
  run,           \* run[x]: where the engine stands in request or worker x
  session,       \* an interactive session of the execution is live
  server,        \* "up" or "down"
  asyncOn,       \* agentAsync.enabled, read when the process starts
  providerCalls  \* history: how often the provider was asked to act

rows    == <<conf, exec>>
issued  == <<late, submission, kind>>
process == <<session, server, asyncOn, providerCalls>>
vars    == <<rows, issued, req, reply, run, process>>

Lifecycle == INSTANCE ExecutionLifecycle
               WITH Executions <- {Execution}, status <- [e \in {Execution} |-> exec]

Terminal == Lifecycle!Terminal
ConfStatus == {"none", "pending", "running", "completed", "failed", "expired"}
Runners == Requests \cup {Worker}
IdleReq == [pc |-> "idle", late |-> FALSE]
IdleRun == [pc |-> "idle", outcome |-> "none"]

ExecWrite(s) == exec' = s
\* transition(): a conditional update of the execution row.
Transition(from, s) == exec' = IF exec \in from THEN s ELSE exec

\* Mutant: every result that did not fail completes the confirmation.
LenientFinish(outcome) ==
  conf' = IF conf # "running" THEN conf
          ELSE IF outcome = "failed" THEN "failed" ELSE "completed"

\* Mutant: only a completed result reaches finish().
CompletedOnlyFinish(outcome) ==
  conf' = IF conf = "running" /\ outcome = "completed" THEN "completed" ELSE conf

\* ConfirmationService.finish() as its callers use it: "completed" for a
\* completed result, "failed" for every other; a no-op unless claimed.
FinishWith(outcome) ==
  conf' = IF conf # "running" THEN conf
          ELSE IF outcome = "completed" THEN "completed" ELSE "failed"

Init ==
  /\ conf = "none" /\ exec = "none" /\ late = FALSE /\ submission = "issue"
  /\ kind \in [async : BOOLEAN, interactive : BOOLEAN]
  /\ req = [r \in Requests |-> IdleReq]
  /\ reply = [r \in Requests |-> "none"]
  /\ run = [x \in Runners |-> IdleRun]
  /\ session = FALSE /\ server = "up" /\ providerCalls = 0
  /\ asyncOn \in BOOLEAN /\ (kind.async => asyncOn)

----------------------------------------------------------------------------
(* pauseForConfirmation(): the confirmation first, then the execution.     *)
Issue ==
  /\ server = "up" /\ submission = "issue"
  /\ conf' = "pending"
  /\ submission' = "persist"
  /\ UNCHANGED <<exec, late, kind, req, reply, run, process>>

PersistPending ==
  /\ server = "up" /\ submission = "persist"
  /\ ExecWrite("pending_confirmation")
  /\ submission' = "known"
  /\ UNCHANGED <<conf, late, kind, req, reply, run, process>>

\* A call rejects: the engine saves "failed", or cannot; the client is never
\* told the confirmation id.
SubmissionFault ==
  /\ DbFaults
  /\ server = "up" /\ submission \in {"issue", "persist"}
  /\ conf' \in IF submission = "issue" THEN {"none", "pending"} ELSE {conf}
  /\ exec' \in {"none", "failed"} \cup
               (IF submission = "persist" THEN {"pending_confirmation"} ELSE {})
  /\ submission' = "over"
  /\ UNCHANGED <<late, kind, req, reply, run, process>>

\* The clock passes expiresAt; nothing in the program notices.
Expire ==
  /\ conf # "none" /\ ~late
  /\ late' = TRUE
  /\ UNCHANGED <<rows, submission, kind, req, reply, run, process>>

----------------------------------------------------------------------------
(* PrismaConfirmationStore.claim(), called by the confirm route.           *)
Goto(r, pc) == req' = [req EXCEPT ![r].pc = pc]
Answer(r, said) ==
  /\ req' = [req EXCEPT ![r] = IdleReq]
  /\ reply' = [reply EXCEPT ![r] = said]

\* A request, a duplicate of it or its retry arrives and reads the clock.
Confirm(r) ==
  /\ server = "up" /\ submission = "known"
  /\ req[r].pc = "idle"
  /\ req' = [req EXCEPT ![r] = [pc |-> "claim", late |-> late]]
  /\ reply' = [reply EXCEPT ![r] = "none"]
  /\ UNCHANGED <<rows, issued, run, process>>

\* Mutant: the conditional update does not ask for status "pending".
ClaimAnyStatus(r) ==
  /\ req[r].pc = "claim"
  /\ IF ~req[r].late
       THEN conf' = "running" /\ Goto(r, "begin")
       ELSE UNCHANGED conf /\ Goto(r, "lookup")
  /\ UNCHANGED <<exec, issued, reply, run, process>>

\* The conditional update pending -> running, with the clock as it was read.
ClaimRow(r) ==
  /\ req[r].pc = "claim"
  /\ IF conf = "pending" /\ ~req[r].late
       THEN conf' = "running" /\ Goto(r, "begin")
       ELSE UNCHANGED conf /\ Goto(r, "lookup")
  /\ UNCHANGED <<exec, issued, reply, run, process>>

\* The update found nothing: the row is read to tell why.
LookUp(r) ==
  /\ req[r].pc = "lookup"
  /\ \/ conf = "expired" /\ Answer(r, "expired")
     \/ /\ conf # "expired" /\ UNCHANGED reply
        /\ Goto(r, IF conf = "pending" /\ req[r].late THEN "expire"
                   ELSE IF conf = "running" THEN "report" ELSE "status")
  /\ UNCHANGED <<rows, issued, run, process>>

\* Mutant: the second conditional update has lost its condition.
ExpireAnyStatus(r) ==
  /\ req[r].pc = "expire"
  /\ conf' = "expired"
  /\ Answer(r, "expired")
  /\ UNCHANGED <<exec, issued, run, process>>

\* The conditional update pending -> expired; the answer is "expired" whether
\* it took effect or not.
ExpireRow(r) ==
  /\ req[r].pc = "expire"
  /\ conf' = IF conf = "pending" THEN "expired" ELSE conf
  /\ Answer(r, "expired")
  /\ UNCHANGED <<exec, issued, run, process>>

\* Outcome "running": the row is read, and only "queued" is passed on.
ReportRunning(r) ==
  /\ req[r].pc = "report"
  /\ Answer(r, IF exec = "queued" THEN "queued" ELSE "running")
  /\ UNCHANGED <<rows, issued, run, process>>

\* Outcome "terminal": the row is the answer.
ReportStatus(r) ==
  /\ req[r].pc = "status"
  /\ Answer(r, exec)
  /\ UNCHANGED <<rows, issued, run, process>>

----------------------------------------------------------------------------
(* The claimed request.                                                    *)

\* getRequest(), and the choice between the queue and the engine.
Begin(r) ==
  /\ req[r].pc = "begin"
  /\ \/ kind.async /\ asyncOn  /\ Goto(r, "enqueue") /\ UNCHANGED run
     \/ kind.async /\ ~asyncOn /\ Goto(r, "refuse") /\ UNCHANGED run
     \/ /\ ~kind.async
        /\ Goto(r, "engine")
        /\ run' = [run EXCEPT ![r].pc = "policy"]
  /\ UNCHANGED <<rows, issued, reply, process>>

Refuse(r) ==
  /\ req[r].pc = "refuse"
  /\ FinishWith("failed")
  /\ Answer(r, "refused")
  /\ UNCHANGED <<exec, issued, run, process>>

\* enqueue(): AgentExecutionQueue has its dedup and its places, and the rows
\* other than a pending one that it may meet there.
EnqueueReads(r) ==
  /\ req[r].pc = "enqueue"
  /\ Goto(r, IF exec = "pending_confirmation" THEN "promote"
             ELSE IF exec = "queued" THEN "schedule" ELSE "status")
  /\ UNCHANGED <<rows, issued, reply, run, process>>

Promote(r) ==
  /\ req[r].pc = "promote"
  /\ Transition({"pending_confirmation"}, "queued")
  /\ Goto(r, "schedule")
  /\ UNCHANGED <<conf, issued, reply, run, process>>

Schedule(r) ==
  /\ req[r].pc = "schedule"
  /\ run' = IF run[Worker].pc = "idle" THEN [run EXCEPT ![Worker].pc = "claim"] ELSE run
  /\ Answer(r, exec)
  /\ UNCHANGED <<rows, issued, process>>

\* A store call of the request rejects, before or after its write took effect.
RequestFault(r) ==
  /\ DbFaults
  /\ req[r].pc \in {"claim", "lookup", "expire", "report", "status", "begin",
                    "refuse", "enqueue", "promote", "schedule"}
  /\ \/ UNCHANGED rows
     \/ /\ req[r].pc = "claim" /\ conf = "pending" /\ ~req[r].late
        /\ conf' = "running" /\ UNCHANGED exec
     \/ /\ req[r].pc = "expire" /\ conf = "pending"
        /\ conf' = "expired" /\ UNCHANGED exec
     \/ req[r].pc = "refuse" /\ FinishWith("failed") /\ UNCHANGED exec
     \/ /\ req[r].pc = "promote"
        /\ Transition({"pending_confirmation"}, "queued") /\ UNCHANGED conf
  /\ Answer(r, "error")
  /\ UNCHANGED <<issued, run, process>>

WorkerClaims ==
  /\ run[Worker].pc = "claim"
  /\ Transition({"queued"}, "running")
  /\ run' = [run EXCEPT ![Worker].pc = IF exec = "queued" THEN "policy" ELSE "idle"]
  /\ UNCHANGED <<conf, issued, req, reply, process>>

----------------------------------------------------------------------------
(* ExecutionEngine.execute() with an approved confirmation, in runner x.   *)
Step(x, pc) == run' = [run EXCEPT ![x].pc = pc]
StepWith(x, pc, outcome) == run' = [run EXCEPT ![x] = [pc |-> pc, outcome |-> outcome]]
Acts == providerCalls' = providerCalls + 1

\* The policy is classified again and compared with the approved snapshot.
CheckPolicy(x) ==
  /\ run[x].pc = "policy"
  /\ \/ Step(x, "save_failed") /\ UNCHANGED providerCalls
     \/ kind.interactive /\ Step(x, "attach") /\ UNCHANGED providerCalls
     \/ ~kind.interactive /\ Step(x, "provider") /\ Acts
  /\ UNCHANGED <<rows, issued, req, reply, session, server, asyncOn>>

\* provider.execute() returns a result, or throws.
ProviderEnds(x) ==
  /\ run[x].pc = "provider"
  /\ \/ \E s \in {"completed", "partial", "failed"} : StepWith(x, "save", s)
     \/ Step(x, "save_failed")
  /\ UNCHANGED <<rows, issued, req, reply, process>>

Attach(x) ==
  /\ run[x].pc = "attach"
  /\ Transition({"pending_confirmation"}, "running")
  /\ Step(x, "open")
  /\ UNCHANGED <<conf, issued, req, reply, process>>

\* interactiveSessionManager.start() opens a session, or throws.
OpenSession(x) ==
  /\ run[x].pc = "open"
  /\ \/ session' = TRUE /\ Acts /\ Step(x, "read_state")
     \/ Step(x, "save_failed") /\ UNCHANGED <<session, providerCalls>>
  /\ UNCHANGED <<rows, issued, req, reply, server, asyncOn>>

ReadState(x) ==
  /\ run[x].pc = "read_state"
  /\ StepWith(x, "finish", exec)
  /\ UNCHANGED <<rows, issued, req, reply, process>>

SaveResult(x) ==
  /\ run[x].pc = "save"
  /\ ExecWrite(run[x].outcome)
  /\ Step(x, "finish")
  /\ UNCHANGED <<conf, issued, req, reply, process>>

\* The catch of the engine.
SaveFailed(x) ==
  /\ run[x].pc = "save_failed"
  /\ ExecWrite("failed")
  /\ StepWith(x, "finish", "failed")
  /\ UNCHANGED <<conf, issued, req, reply, process>>

Leave(x, said) ==
  /\ run' = [run EXCEPT ![x] = IdleRun]
  /\ IF x \in Requests THEN Answer(x, said) ELSE UNCHANGED <<req, reply>>

\* The caller of the engine finishes the confirmation with its result.
Finish(x) ==
  /\ run[x].pc = "finish"
  /\ FinishWith(run[x].outcome)
  /\ Leave(x, run[x].outcome)
  /\ UNCHANGED <<exec, issued, process>>

\* A store call of the engine or of its caller rejects.  execute() has thrown
\* when its catch could not save: the route then finishes the confirmation as
\* failed, the queue fails a running row ("abandon").
EngineFault(x) ==
  /\ DbFaults
  /\ \/ /\ run[x].pc \in {"attach", "open", "read_state", "save"}
        /\ \/ UNCHANGED exec
           \/ run[x].pc = "attach" /\ Transition({"pending_confirmation"}, "running")
           \/ run[x].pc = "save" /\ ExecWrite(run[x].outcome)
        /\ Step(x, "save_failed")
        /\ UNCHANGED <<conf, req, reply>>
     \/ /\ run[x].pc = "save_failed"
        /\ UNCHANGED exec \/ ExecWrite("failed")
        /\ StepWith(x, IF x = Worker THEN "abandon" ELSE "finish", "failed")
        /\ UNCHANGED <<conf, req, reply>>
     \/ /\ run[x].pc = "finish"
        /\ UNCHANGED conf \/ FinishWith(run[x].outcome)
        /\ IF x = Worker THEN Step(x, "abandon") /\ UNCHANGED <<req, reply>>
                         ELSE Leave(x, "error")
        /\ UNCHANGED exec
  /\ UNCHANGED <<issued, process>>

WorkerAbandons ==
  /\ run[Worker].pc = "abandon"
  /\ Transition({"running"}, "failed")
  /\ Leave(Worker, "error")
  /\ UNCHANGED <<conf, issued, process>>

\* What the session manager does to the row of a live session.
SessionMoves ==
  /\ session
  /\ \E s \in Lifecycle!Session \cup Terminal :
       /\ Transition(Lifecycle!Session, s)
       /\ session' = (s \notin Terminal)
  /\ UNCHANGED <<conf, issued, req, reply, run, server, asyncOn, providerCalls>>

----------------------------------------------------------------------------
Crash ==
  /\ server = "up"
  /\ server' = "down"
  /\ submission' = IF submission = "known" THEN "known" ELSE "over"
  /\ req' = [r \in Requests |-> IdleReq]
  /\ reply' = [r \in Requests |-> "none"]
  /\ run' = [x \in Runners |-> IdleRun]
  /\ session' = FALSE
  /\ UNCHANGED <<rows, late, kind, asyncOn, providerCalls>>

\* Mutants: interrupted records are queued again; only queued ones count.
RestartRequeues ==
  /\ server = "down"
  /\ server' = "up"
  /\ Transition({"queued", "running", "waiting_for_interaction"}, "queued")
  /\ asyncOn' \in BOOLEAN
  /\ UNCHANGED <<conf, issued, req, reply, run, session, providerCalls>>

RestartQueuedOnly ==
  /\ server = "down"
  /\ server' = "up"
  /\ Transition({"queued"}, "failed")
  /\ asyncOn' \in BOOLEAN
  /\ UNCHANGED <<conf, issued, req, reply, run, session, providerCalls>>

\* onReady: reconcileInterrupted() of the queue, before requests are served.
Restart ==
  /\ server = "down"
  /\ server' = "up"
  /\ Transition({"queued", "running", "waiting_for_interaction"}, "failed")
  /\ asyncOn' \in BOOLEAN
  /\ UNCHANGED <<conf, issued, req, reply, run, session, providerCalls>>

----------------------------------------------------------------------------
RequestStep(r) ==
  \/ ClaimRow(r) \/ LookUp(r) \/ ExpireRow(r) \/ ReportRunning(r)
  \/ ReportStatus(r) \/ Begin(r) \/ Refuse(r) \/ EnqueueReads(r) \/ Promote(r) \/ Schedule(r)

EngineStep(x) ==
  \/ CheckPolicy(x) \/ ProviderEnds(x) \/ Attach(x) \/ OpenSession(x)
  \/ ReadState(x) \/ SaveResult(x) \/ SaveFailed(x) \/ Finish(x)

WorkerStep == WorkerClaims \/ WorkerAbandons

Next ==
  \/ Issue \/ PersistPending \/ SubmissionFault \/ Expire
  \/ \E r \in Requests : Confirm(r) \/ RequestStep(r) \/ RequestFault(r)
  \/ \E x \in Runners : EngineStep(x) \/ EngineFault(x)
  \/ WorkerStep \/ SessionMoves \/ Crash \/ Restart

Spec == Init /\ [][Next]_vars

\* The event loop runs what is ready, the database answers and the provider is
\* bounded by its timeout; time passes.  No request comes and nothing restarts
\* on its own.
FairSpec ==
  /\ Spec
  /\ \A r \in Requests : WF_vars(RequestStep(r))
  /\ \A x \in Runners : WF_vars(EngineStep(x))
  /\ WF_vars(WorkerStep)
  /\ WF_vars(Issue \/ PersistPending)
  /\ WF_vars(Expire)

----------------------------------------------------------------------------
ReqPc == {"idle", "claim", "lookup", "expire", "report", "status", "begin",
          "refuse", "enqueue", "promote", "schedule", "engine"}
RunPc == {"idle", "claim", "policy", "provider", "attach", "open", "read_state",
          "save", "save_failed", "finish", "abandon"}
Said  == Lifecycle!Status \cup {"expired", "refused", "error"}

TypeOK ==
  /\ conf \in ConfStatus
  /\ exec \in Lifecycle!Status
  /\ late \in BOOLEAN
  /\ submission \in {"issue", "persist", "known", "over"}
  /\ kind \in [async : BOOLEAN, interactive : BOOLEAN]
  /\ req \in [Requests -> [pc : ReqPc, late : BOOLEAN]]
  /\ reply \in [Requests -> Said]
  /\ run \in [Runners -> [pc : RunPc, outcome : Lifecycle!Status]]
  /\ session \in BOOLEAN
  /\ server \in {"up", "down"}
  /\ asyncOn \in BOOLEAN
  /\ providerCalls \in Nat

\* Some request or the worker is carrying the approved execution on.
Working ==
  \/ \E r \in Requests : req[r].pc \in {"begin", "refuse", "enqueue", "promote", "schedule"}
  \/ \E x \in Runners : run[x].pc # "idle"

\* One approval, one run: repeated, concurrent and retried confirm requests,
\* crashes and rejected store calls never make the provider act twice.
ProviderAtMostOnce == providerCalls <= 1

\* The provider never acts on an execution nobody claimed, nor on one whose
\* confirmation row says expired: expiry and claim exclude each other.
NeverWithoutApproval ==
  conf \in {"none", "pending", "expired"} => providerCalls = 0 /\ ~Working

\* A confirmation is recorded as completed only for a completed execution.
CompletedMeansCompleted == conf = "completed" => exec = "completed"

\* While the service is up, a queued or running record has somebody at work on
\* it: after every crash and restart, none is left that looks alive and is not.
LiveRecordHasOwner ==
  server = "up" /\ exec \in {"queued", "running"} => Working \/ session

\* The execution record only walks the edges of the life cycle.
LifecycleSpec == Lifecycle!Spec

\* An approval somebody works on is eventually settled while the service lives.
ApprovalIsSettled ==
  (conf = "running" /\ Working) ~> (conf # "running" \/ server = "down")
=============================================================================
