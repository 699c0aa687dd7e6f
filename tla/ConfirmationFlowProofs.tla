----------------------- MODULE ConfirmationFlowProofs -----------------------
(***************************************************************************)
(* Theorems about ConfirmationFlow, for every set of confirm requests and  *)
(* with store calls that may reject.                                       *)
(***************************************************************************)
EXTENDS ConfirmationFlow, TLAPS

USE DEF Terminal, Lifecycle!Status, Lifecycle!Terminal, Lifecycle!Session,
        Lifecycle!Waiting

(* What the requests and the engine stand at, and the two status columns.  *)
Typed ==
  /\ conf \in ConfStatus
  /\ exec \in Lifecycle!Status
  /\ submission \in {"issue", "persist", "known", "over"}
  /\ kind \in [async : BOOLEAN, interactive : BOOLEAN]
  /\ req \in [Requests -> [pc : ReqPc, late : BOOLEAN]]
  /\ reply \in [Requests -> Said]
  /\ run \in [Runners -> [pc : RunPc, outcome : Lifecycle!Status]]
  /\ server \in {"up", "down"}
  /\ providerCalls \in Nat

(* The three flags.                                                        *)
Flags == late \in BOOLEAN /\ session \in BOOLEAN /\ asyncOn \in BOOLEAN

LEMMA FlagsStep == Flags /\ [Next]_vars => Flags'
<1> SUFFICES ASSUME Flags, [Next]_vars PROVE Flags'
  OBVIOUS
<1> USE DEF Flags, rows, issued, process
<1>1. ASSUME Issue \/ PersistPending \/ SubmissionFault \/ Expire PROVE Flags'
  BY <1>1 DEF Issue, PersistPending, SubmissionFault, Expire
<1>2. ASSUME NEW r \in Requests, Confirm(r) \/ RequestStep(r) \/ RequestFault(r)
      PROVE  Flags'
  BY <1>2 DEF Confirm, RequestStep, RequestFault, ClaimRow, LookUp, ExpireRow,
     ReportRunning, ReportStatus, Begin, Refuse, EnqueueReads, Promote, Schedule
<1>3. ASSUME NEW x \in Runners, EngineStep(x) \/ EngineFault(x) PROVE Flags'
  BY <1>3 DEF EngineStep, EngineFault, CheckPolicy, ProviderEnds, Attach, OpenSession,
     ReadState, SaveResult, SaveFailed, Finish
<1>4. ASSUME WorkerStep \/ SessionMoves \/ Crash \/ Restart \/ UNCHANGED vars PROVE Flags'
  BY <1>4 DEF WorkerStep, WorkerClaims, WorkerAbandons, SessionMoves, Crash, Restart, vars
<1> QED
  BY <1>1, <1>2, <1>3, <1>4 DEF Next

LEMMA TypedInit == Init => Typed /\ Flags
<1> SUFFICES ASSUME Init PROVE Typed /\ Flags
  OBVIOUS
<1>1. IdleReq \in [pc : ReqPc, late : BOOLEAN]
  BY DEF IdleReq, ReqPc
<1>2. IdleRun \in [pc : RunPc, outcome : Lifecycle!Status]
  BY DEF IdleRun, RunPc
<1>3. reply \in [Requests -> Said]
  BY DEF Init, Said
<1>4. conf \in ConfStatus /\ exec \in Lifecycle!Status
  BY DEF Init, ConfStatus
<1>5. Flags
  BY DEF Init, Flags
<1> QED
  BY <1>1, <1>2, <1>3, <1>4, <1>5 DEF Init, Typed

ReqTyped == req \in [Requests -> [pc : ReqPc, late : BOOLEAN]]
RunTyped == run \in [Runners -> [pc : RunPc, outcome : Lifecycle!Status]]
ReplyTyped == reply \in [Requests -> Said]

LEMMA GotoTyped ==
  ASSUME ReqTyped, NEW r \in Requests, NEW pc \in ReqPc, Goto(r, pc)
  PROVE  ReqTyped'
  BY DEF ReqTyped, Goto

LEMMA AnswerTyped ==
  ASSUME ReqTyped, ReplyTyped, NEW r \in Requests, NEW said \in Said, Answer(r, said)
  PROVE  ReqTyped' /\ ReplyTyped'
<1>1. IdleReq \in [pc : ReqPc, late : BOOLEAN]
  BY DEF IdleReq, ReqPc
<1> QED
  BY <1>1 DEF ReqTyped, ReplyTyped, Answer

LEMMA StepTyped ==
  ASSUME RunTyped, NEW x \in Runners, NEW pc \in RunPc, NEW s \in Lifecycle!Status,
         Step(x, pc) \/ StepWith(x, pc, s)
  PROVE  RunTyped'
<1>1. CASE Step(x, pc)
  BY <1>1 DEF RunTyped, Step
<1>2. CASE StepWith(x, pc, s)
  BY <1>2 DEF RunTyped, StepWith
<1> QED
  BY <1>1, <1>2

LEMMA LeaveTyped ==
  ASSUME ReqTyped, ReplyTyped, RunTyped, NEW x \in Runners, NEW said \in Said,
         Leave(x, said)
  PROVE  ReqTyped' /\ ReplyTyped' /\ RunTyped'
<1>1. IdleRun \in [pc : RunPc, outcome : Lifecycle!Status]
  BY DEF IdleRun, RunPc
<1>2. RunTyped'
  BY <1>1 DEF RunTyped, Leave
<1>3. CASE x \in Requests
  BY <1>2, <1>3, AnswerTyped DEF Leave
<1>4. CASE x \notin Requests
  BY <1>2, <1>4 DEF Leave, ReqTyped, ReplyTyped
<1> QED
  BY <1>3, <1>4

LEMMA FinishTyped ==
  ASSUME conf \in ConfStatus, NEW outcome, FinishWith(outcome)
  PROVE  conf' \in ConfStatus
  BY DEF FinishWith, ConfStatus

LEMMA TypedStep == Typed /\ Flags /\ [Next]_vars => Typed'
<1> SUFFICES ASSUME Typed, Flags, [Next]_vars PROVE Typed'
  OBVIOUS
<1> USE DEF rows, issued, process
<1>a. ReqTyped /\ RunTyped /\ ReplyTyped
  BY DEF Typed, ReqTyped, RunTyped, ReplyTyped
<1>b. ASSUME ReqTyped', RunTyped', ReplyTyped', conf' \in ConfStatus,
             exec' \in Lifecycle!Status, providerCalls' \in Nat,
             UNCHANGED <<submission, kind, server>>
      PROVE  Typed'
  BY <1>b DEF Typed, ReqTyped, RunTyped, ReplyTyped
<1>c. /\ {"pending", "running", "expired", "completed", "failed"} \subseteq ConfStatus
      /\ Lifecycle!Status \subseteq Said
      /\ {"expired", "refused", "error"} \subseteq Said
  BY DEF ConfStatus, Said
<1>d. ASSUME UNCHANGED req PROVE ReqTyped'
  BY <1>a, <1>d DEF ReqTyped
<1>e. ASSUME UNCHANGED run PROVE RunTyped'
  BY <1>a, <1>e DEF RunTyped
<1>f. ASSUME UNCHANGED reply PROVE ReplyTyped'
  BY <1>a, <1>f DEF ReplyTyped
<1>g. /\ conf \in ConfStatus /\ exec \in Lifecycle!Status
      /\ providerCalls \in Nat
      /\ \A x \in Runners : run[x].outcome \in Lifecycle!Status
      /\ Requests \subseteq Runners /\ Worker \in Runners
  BY DEF Typed, Runners
<1>1. ASSUME Issue \/ PersistPending \/ SubmissionFault \/ Expire PROVE Typed'
  BY <1>1, <1>c
     DEF Typed, Issue, PersistPending, SubmissionFault, Expire, ConfStatus, ExecWrite
<1>2. ASSUME NEW r \in Requests, Confirm(r) PROVE Typed'
  <2>1. [pc |-> "claim", late |-> late] \in [pc : ReqPc, late : BOOLEAN]
    BY DEF Flags, ReqPc
  <2>2. ReqTyped' /\ ReplyTyped'
    BY <1>2, <2>1, <1>a, <1>c DEF Confirm, ReqTyped, ReplyTyped
  <2> QED
    BY <1>2, <2>2, <1>b, <1>e, <1>g DEF Confirm
<1>3. ASSUME NEW r \in Requests, ClaimRow(r) PROVE Typed'
  <2>1. ReqTyped'
    BY <1>3, <1>a, GotoTyped DEF ClaimRow, ReqPc
  <2> QED
    BY <1>3, <2>1, <1>b, <1>c, <1>e, <1>f, <1>g DEF ClaimRow
<1>4. ASSUME NEW r \in Requests, LookUp(r) PROVE Typed'
  <2>1. CASE conf = "expired"
    BY <1>4, <2>1, <1>a, <1>b, <1>c, <1>e, <1>g, AnswerTyped DEF LookUp
  <2>2. CASE conf # "expired"
    <3>1. \E pc \in ReqPc : Goto(r, pc)
      BY <1>4, <2>2 DEF LookUp, ReqPc
    <3>2. ReqTyped'
      BY <1>a, <3>1, GotoTyped
    <3> QED
      BY <1>4, <2>2, <3>2, <1>b, <1>e, <1>f, <1>g DEF LookUp
  <2> QED
    BY <2>1, <2>2
<1>5. ASSUME NEW r \in Requests, ExpireRow(r) PROVE Typed'
  <2>1. ReqTyped' /\ ReplyTyped'
    BY <1>5, <1>a, <1>c, AnswerTyped DEF ExpireRow
  <2> QED
    BY <1>5, <2>1, <1>b, <1>c, <1>e, <1>g DEF ExpireRow
<1>6. ASSUME NEW r \in Requests, ReportRunning(r) \/ ReportStatus(r) PROVE Typed'
  <2>1. \E said \in Said : Answer(r, said)
    BY <1>6, <1>c, <1>g DEF ReportRunning, ReportStatus
  <2>2. ReqTyped' /\ ReplyTyped'
    BY <1>a, <2>1, AnswerTyped
  <2> QED
    BY <1>6, <2>2, <1>b, <1>e, <1>g DEF ReportRunning, ReportStatus
<1>7. ASSUME NEW r \in Requests, Begin(r) PROVE Typed'
  <2>1. ReqTyped'
    BY <1>7, <1>a, GotoTyped DEF Begin, ReqPc
  <2>2. RunTyped'
    BY <1>7, <1>a, <1>g DEF Begin, RunTyped, RunPc
  <2> QED
    BY <1>7, <2>1, <2>2, <1>b, <1>f, <1>g DEF Begin
<1>8. ASSUME NEW r \in Requests, Refuse(r) PROVE Typed'
  <2>1. ReqTyped' /\ ReplyTyped' /\ conf' \in ConfStatus
    BY <1>8, <1>a, <1>c, <1>g, AnswerTyped, FinishTyped DEF Refuse
  <2> QED
    BY <1>8, <2>1, <1>b, <1>e, <1>g DEF Refuse
<1>9. ASSUME NEW r \in Requests, EnqueueReads(r) \/ Promote(r) PROVE Typed'
  <2>1. \E pc \in ReqPc : Goto(r, pc)
    BY <1>9 DEF EnqueueReads, Promote, ReqPc
  <2>2. ReqTyped'
    BY <1>a, <2>1, GotoTyped
  <2> QED
    BY <1>9, <2>2, <1>b, <1>e, <1>f, <1>g DEF EnqueueReads, Promote, Transition
<1>10. ASSUME NEW r \in Requests, Schedule(r) PROVE Typed'
  <2>1. ReqTyped' /\ ReplyTyped'
    BY <1>10, <1>a, <1>c, <1>g, AnswerTyped DEF Schedule
  <2>2. RunTyped'
    BY <1>10, <1>a, <1>g DEF Schedule, RunTyped, RunPc
  <2> QED
    BY <1>10, <2>1, <2>2, <1>b, <1>g DEF Schedule
<1>11. ASSUME NEW r \in Requests, RequestFault(r) PROVE Typed'
  <2>1. ReqTyped' /\ ReplyTyped'
    BY <1>11, <1>a, <1>c, AnswerTyped DEF RequestFault
  <2>2. conf' \in ConfStatus
    BY <1>11, <1>c, <1>g, FinishTyped DEF RequestFault
  <2>3. exec' \in Lifecycle!Status
    BY <1>11, <1>g DEF RequestFault, Transition
  <2> QED
    BY <1>11, <2>1, <2>2, <2>3, <1>b, <1>e, <1>g DEF RequestFault
<1>12. ASSUME NEW x \in Runners, NEW pc \in RunPc, NEW s \in Lifecycle!Status,
              Step(x, pc) \/ StepWith(x, pc, s),
              exec' \in Lifecycle!Status, providerCalls' \in Nat,
              UNCHANGED <<conf, req, reply, submission, kind, server>>
       PROVE  Typed'
  BY <1>12, <1>a, <1>b, <1>d, <1>f, <1>g, StepTyped
<1>13. ASSUME NEW x \in Runners, CheckPolicy(x) \/ OpenSession(x) PROVE Typed'
  <2>1. providerCalls' \in Nat
    BY <1>13, <1>g DEF CheckPolicy, OpenSession, Acts
  <2>2. \E pc \in RunPc : Step(x, pc)
    BY <1>13 DEF CheckPolicy, OpenSession, RunPc
  <2> QED
    BY <1>12, <1>13, <1>g, <2>1, <2>2 DEF CheckPolicy, OpenSession
<1>14. ASSUME NEW x \in Runners,
              \/ ProviderEnds(x) \/ Attach(x) \/ ReadState(x)
              \/ SaveResult(x) \/ SaveFailed(x)
       PROVE  Typed'
  <2>1. \E pc \in RunPc, s \in Lifecycle!Status : Step(x, pc) \/ StepWith(x, pc, s)
    BY <1>14, <1>g DEF ProviderEnds, Attach, ReadState, SaveResult, SaveFailed, RunPc
  <2>2. exec' \in Lifecycle!Status
    BY <1>14, <1>g DEF ProviderEnds, Attach, ReadState, SaveResult, SaveFailed,
       Transition, ExecWrite
  <2> QED
    BY <1>12, <1>14, <1>g, <2>1, <2>2
       DEF ProviderEnds, Attach, ReadState, SaveResult, SaveFailed
<1>15. ASSUME NEW x \in Runners, Finish(x) PROVE Typed'
  <2>1. ReqTyped' /\ ReplyTyped' /\ RunTyped'
    BY <1>15, <1>a, <1>c, <1>g, LeaveTyped DEF Finish
  <2>2. conf' \in ConfStatus
    BY <1>15, <1>g, FinishTyped DEF Finish
  <2> QED
    BY <1>15, <2>1, <2>2, <1>b, <1>g DEF Finish
<1>16. ASSUME NEW x \in Runners, EngineFault(x) PROVE Typed'
  <2>1. CASE run[x].pc = "finish"
    <3>1. conf' \in ConfStatus
      BY <1>16, <2>1, <1>g, FinishTyped DEF EngineFault
    <3>2. CASE x = Worker
      <4>1. RunTyped'
        BY <1>16, <2>1, <3>2, <1>a, <1>g, StepTyped DEF EngineFault, RunPc
      <4> QED
        BY <1>16, <2>1, <3>1, <3>2, <4>1, <1>b, <1>d, <1>f, <1>g DEF EngineFault
    <3>3. CASE x # Worker
      <4>1. ReqTyped' /\ ReplyTyped' /\ RunTyped'
        BY <1>16, <2>1, <3>3, <1>a, <1>c, LeaveTyped DEF EngineFault
      <4> QED
        BY <1>16, <2>1, <3>1, <4>1, <1>b, <1>g DEF EngineFault
    <3> QED
      BY <3>2, <3>3
  <2>2. CASE run[x].pc # "finish"
    <3>1. \E pc \in RunPc : Step(x, pc) \/ StepWith(x, pc, "failed")
      BY <1>16, <2>2 DEF EngineFault, RunPc
    <3>2. exec' \in Lifecycle!Status
      BY <1>16, <2>2, <1>g DEF EngineFault, Transition, ExecWrite
    <3>3. UNCHANGED <<conf, req, reply, submission, kind, server, providerCalls>>
      BY <1>16, <2>2 DEF EngineFault
    <3> QED
      BY <1>12, <1>g, <3>1, <3>2, <3>3
  <2> QED
    BY <2>1, <2>2
<1>17. ASSUME WorkerClaims PROVE Typed'
  <2>1. RunTyped'
    BY <1>17, <1>a, <1>g DEF WorkerClaims, RunTyped, RunPc
  <2> QED
    BY <1>17, <2>1, <1>b, <1>d, <1>f, <1>g DEF WorkerClaims, Transition
<1>18. ASSUME WorkerAbandons PROVE Typed'
  <2>1. ReqTyped' /\ ReplyTyped' /\ RunTyped'
    BY <1>18, <1>a, <1>c, <1>g, LeaveTyped DEF WorkerAbandons
  <2> QED
    BY <1>18, <2>1, <1>b, <1>g DEF WorkerAbandons, Transition
<1>19. ASSUME SessionMoves \/ Restart PROVE Typed'
  BY <1>19 DEF Typed, SessionMoves, Restart, Transition
<1>20. ASSUME Crash PROVE Typed'
  <2>1. IdleReq \in [pc : ReqPc, late : BOOLEAN]
    BY DEF IdleReq, ReqPc
  <2>2. IdleRun \in [pc : RunPc, outcome : Lifecycle!Status]
    BY DEF IdleRun, RunPc
  <2> QED
    BY <1>20, <2>1, <2>2, <1>c DEF Typed, Crash
<1>21. ASSUME UNCHANGED vars PROVE Typed'
  BY <1>21 DEF Typed, vars
<1> QED
  BY <1>1, <1>2, <1>3, <1>4, <1>5, <1>6, <1>7, <1>8, <1>9, <1>10, <1>11,
     <1>13, <1>14, <1>15, <1>16, <1>17, <1>18, <1>19, <1>20, <1>21
     DEF Next, RequestStep, EngineStep, WorkerStep

----------------------------------------------------------------------------
(* Who carries the approved execution on: one request, or the worker.      *)
Unconsumed == {"none", "pending", "expired"}
Before  == {"begin", "refuse", "enqueue", "promote", "schedule"}
Ahead   == {"claim", "policy", "attach", "open"}
Carries(r) == req[r].pc \in Before \cup {"engine"}

Carried ==
  /\ \A r \in Requests : run[r].pc # "idle" => req[r].pc = "engine"
  /\ \A r \in Requests : Carries(r) => conf = "running" /\ run[Worker].pc = "idle"
  /\ \A r, s \in Requests : Carries(r) /\ Carries(s) => r = s
  /\ run[Worker].pc # "idle" => conf \notin Unconsumed

ActsOnce ==
  /\ submission = "issue" => conf = "none"
  /\ providerCalls <= 1
  /\ conf \in Unconsumed => providerCalls = 0
  /\ \A r \in Requests : req[r].pc \in Before => providerCalls = 0
  /\ \A x \in Runners : run[x].pc \in Ahead => providerCalls = 0

Owned == Carried /\ ActsOnce

LEMMA OwnedInit == Init => Owned
  BY WorkerAssumption
     DEF Init, Owned, Carried, ActsOnce, Carries, Before, Ahead, Unconsumed,
         IdleReq, IdleRun, Runners

\* A step that lets no request carry that did not, and nobody run.
LEMMA FewerCarry ==
  ASSUME Carried, UNCHANGED <<run, conf>>,
         \A s \in Requests : Carries(s)' => Carries(s),
         \A s \in Requests : req[s].pc = "engine" => req'[s].pc = "engine"
  PROVE  Carried'
<1>1. ASSUME NEW s \in Requests PROVE run'[s].pc # "idle" => req'[s].pc = "engine"
  BY DEF Carried
<1>2. ASSUME NEW s \in Requests
      PROVE  Carries(s)' => conf' = "running" /\ run'[Worker].pc = "idle"
  BY DEF Carried
<1>3. ASSUME NEW s \in Requests, NEW t \in Requests
      PROVE  Carries(s)' /\ Carries(t)' => s = t
  BY DEF Carried
<1>4. run'[Worker].pc # "idle" => conf' \notin Unconsumed
  BY DEF Carried
<1> QED
  BY <1>1, <1>2, <1>3, <1>4 DEF Carried

\* A request that moves among the points where it does not run the engine.
LEMMA RequestMoves ==
  ASSUME Typed, Carried, NEW r \in Requests, NEW pc, UNCHANGED <<run, conf>>,
         \A s \in Requests \ {r} : req'[s] = req[s],
         req'[r].pc = pc, req[r].pc # "engine",
         pc \in Before \cup {"engine"} => Carries(r)
  PROVE  Carried'
<1>1. ASSUME NEW s \in Requests PROVE Carries(s)' => Carries(s)
  BY DEF Carries
<1>2. ASSUME NEW s \in Requests PROVE req[s].pc = "engine" => req'[s].pc = "engine"
  OBVIOUS
<1> QED
  BY <1>1, <1>2, FewerCarry

\* Whoever runs the engine is the only one that carries the execution.
LEMMA SoleCarrier ==
  ASSUME Typed, Carried, NEW x \in Runners, run[x].pc # "idle"
  PROVE  /\ conf \notin Unconsumed
         /\ \A r \in Requests : Carries(r) => r = x /\ req[r].pc = "engine"
         /\ \A y \in Runners : run[y].pc # "idle" => y = x
<1>1. CASE x = Worker
  <2>1. \A r \in Requests : ~Carries(r)
    BY <1>1 DEF Carried
  <2>2. \A r \in Requests : run[r].pc = "idle"
    BY <2>1 DEF Carried, Carries
  <2> QED
    BY <1>1, <2>1, <2>2 DEF Carried, Runners
<1>2. CASE x \in Requests
  <2>1. Carries(x) /\ req[x].pc = "engine"
    BY <1>2 DEF Carried, Carries
  <2>2. \A r \in Requests : Carries(r) => r = x
    BY <1>2, <2>1 DEF Carried
  <2>3. \A r \in Requests : run[r].pc # "idle" => r = x
    BY <2>2 DEF Carried, Carries
  <2>4. run[Worker].pc = "idle" /\ conf = "running"
    BY <1>2, <2>1 DEF Carried
  <2> QED
    BY <2>1, <2>2, <2>3, <2>4 DEF Runners, Unconsumed
<1> QED
  BY <1>1, <1>2 DEF Runners

\* A runner that leaves the engine, whatever it leaves in the confirmation.
LEMMA RunnerLeaves ==
  ASSUME Typed, Carried, NEW x \in Runners, run[x].pc # "idle", NEW said, Leave(x, said)
  PROVE  Carried'
<1>1. /\ \A r \in Requests : Carries(r) => r = x /\ req[r].pc = "engine"
      /\ \A y \in Runners : run[y].pc # "idle" => y = x
  BY SoleCarrier
<1>2. \A y \in Runners : run'[y].pc = "idle"
  BY <1>1 DEF Leave, IdleRun, Typed
<1>3. ASSUME NEW r \in Requests PROVE ~Carries(r)'
  <2>1. CASE x \in Requests
    <3>1. req' = [req EXCEPT ![x] = IdleReq]
      BY <2>1 DEF Leave, Answer
    <3> QED
      BY <1>1, <2>1, <3>1 DEF Carries, Before, IdleReq, Typed
  <2>2. CASE x \notin Requests
    BY <1>1, <2>2 DEF Leave, Carries
  <2> QED
    BY <2>1, <2>2
<1> QED
  BY <1>2, <1>3 DEF Carried, Runners

\* A runner that goes on to pc.
LEMMA RunnerMoves ==
  ASSUME Typed, Carried, NEW x \in Runners, run[x].pc # "idle",
         NEW pc, NEW s, Step(x, pc) \/ StepWith(x, pc, s),
         UNCHANGED req, conf' = conf \/ (x = Worker /\ conf' \notin Unconsumed)
  PROVE  Carried'
<1>1. /\ conf \notin Unconsumed
      /\ \A r \in Requests : Carries(r) => r = x /\ req[r].pc = "engine"
      /\ \A y \in Runners : run[y].pc # "idle" => y = x
  BY SoleCarrier
<1>2. \A y \in Runners \ {x} : run'[y] = run[y]
  BY DEF Step, StepWith, Typed
<1>3. \A r \in Requests : Carries(r)' = Carries(r)
  BY DEF Carries
<1>4. \A r \in Requests : run'[r].pc # "idle" => req'[r].pc = "engine"
  BY <1>1, <1>2 DEF Carried, Runners
<1>5. ASSUME NEW r \in Requests, Carries(r)'
      PROVE  conf' = "running" /\ run'[Worker].pc = "idle"
  <2>1. Carries(r) /\ r = x /\ x # Worker
    BY <1>1, <1>3, <1>5, WorkerAssumption
  <2> QED
    BY <1>2, <2>1 DEF Carried, Runners
<1>6. \A r, t \in Requests : Carries(r)' /\ Carries(t)' => r = t
  BY <1>1, <1>3
<1>7. conf' \notin Unconsumed
  BY <1>1
<1> QED
  BY <1>4, <1>5, <1>6, <1>7 DEF Carried

\* The provider acts: nobody else can let it act, now or later.
LEMMA ActsNow ==
  ASSUME Typed, Carried, ActsOnce, NEW x \in Runners, run[x].pc \in Ahead,
         NEW pc, pc \notin Ahead, Step(x, pc), Acts,
         UNCHANGED <<conf, req, submission>>
  PROVE  ActsOnce'
<1>1. run[x].pc # "idle" /\ providerCalls = 0
  BY DEF ActsOnce, Ahead
<1>2. /\ conf \notin Unconsumed
      /\ \A r \in Requests : Carries(r) => r = x /\ req[r].pc = "engine"
      /\ \A y \in Runners : run[y].pc # "idle" => y = x
  BY <1>1, SoleCarrier
<1>3. providerCalls' = 1
  BY <1>1 DEF Acts
<1>4. \A r \in Requests : req'[r].pc \notin Before
  BY <1>2 DEF Carries, Before
<1>5. ASSUME NEW y \in Runners PROVE run'[y].pc \notin Ahead
  <2>1. CASE y = x
    BY <2>1 DEF Step, Typed
  <2>2. CASE y # x
    BY <1>2, <2>2 DEF Step, Typed, Ahead
  <2> QED
    BY <2>1, <2>2
<1> QED
  BY <1>2, <1>3, <1>4, <1>5 DEF ActsOnce

\* Every other step of a runner.
LEMMA ActsNot ==
  ASSUME Typed, Carried, ActsOnce, NEW x \in Runners, run[x].pc # "idle",
         \A y \in Runners \ {x} : run'[y] = run[y],
         run'[x].pc \in Ahead => run[x].pc \in Ahead,
         \A r \in Requests : req'[r].pc \in Before => req[r].pc \in Before,
         UNCHANGED <<submission, providerCalls>>,
         conf' = conf \/ conf' \notin Unconsumed
  PROVE  ActsOnce'
<1>1. conf \notin Unconsumed
  BY SoleCarrier
<1>2. submission # "issue" /\ conf' \notin Unconsumed
  BY <1>1 DEF ActsOnce, Unconsumed
<1>3. ASSUME NEW r \in Requests, req'[r].pc \in Before PROVE providerCalls' = 0
  BY <1>3 DEF ActsOnce
<1>4. ASSUME NEW y \in Runners, run'[y].pc \in Ahead PROVE providerCalls' = 0
  BY <1>4 DEF ActsOnce
<1> QED
  BY <1>2, <1>3, <1>4 DEF ActsOnce

\* A step of a request: it does not act, and whoever comes closer to the
\* provider was on the way to it.
LEMMA NoNewActor ==
  ASSUME Carried, ActsOnce, UNCHANGED <<submission, providerCalls>>,
         conf = "none" => conf' = "none",
         conf' \in Unconsumed => conf \in Unconsumed,
         \A s \in Requests : req'[s].pc \in Before => req[s].pc \in Before \/ conf \in Unconsumed,
         \A x \in Runners : \/ run'[x].pc \notin Ahead
                            \/ run[x].pc \in Ahead
                            \/ \E s \in Requests : req[s].pc \in Before
  PROVE  ActsOnce'
<1>1. submission' = "issue" => conf' = "none"
  BY DEF ActsOnce
<1>2. ASSUME NEW s \in Requests, req'[s].pc \in Before PROVE providerCalls' = 0
  BY <1>2 DEF ActsOnce
<1>3. ASSUME NEW x \in Runners, run'[x].pc \in Ahead PROVE providerCalls' = 0
  BY <1>3 DEF ActsOnce
<1>4. conf' \in Unconsumed => providerCalls' = 0
  BY DEF ActsOnce
<1>5. providerCalls' <= 1
  BY DEF ActsOnce
<1> QED
  BY <1>1, <1>2, <1>3, <1>4, <1>5 DEF ActsOnce

LEMMA OwnedStep == Typed /\ Flags /\ Owned /\ [Next]_vars => Owned'
<1> SUFFICES ASSUME Typed, Flags, Owned, [Next]_vars PROVE Owned'
  OBVIOUS
<1> USE WorkerAssumption DEF rows, issued, process, Owned, Typed
<1>a. Requests \subseteq Runners /\ Worker \in Runners /\ Worker \notin Requests
  BY DEF Runners
<1>1. ASSUME Issue \/ PersistPending \/ SubmissionFault \/ Expire PROVE Owned'
  BY <1>1, <1>a
     DEF Issue, PersistPending, SubmissionFault, Expire, Carried, ActsOnce, Carries,
         Unconsumed
<1>2. ASSUME NEW r \in Requests, Confirm(r) PROVE Owned'
  <2>1. Carried'
    BY <1>2, <1>a DEF Confirm, Carried, Carries, Before, Unconsumed
  <2>2. ActsOnce'
    BY <1>2, <1>a DEF Confirm, Carried, Carries, ActsOnce, Before, Ahead, Unconsumed
  <2> QED
    BY <2>1, <2>2
<1>3. ASSUME NEW r \in Requests, ClaimRow(r) PROVE Owned'
  <2>1. Carried'
    <3>1. CASE conf = "pending" /\ ~req[r].late
      <4>1. conf' = "running" /\ req' = [req EXCEPT ![r].pc = "begin"] /\ run' = run
        BY <1>3, <3>1 DEF ClaimRow, Goto
      <4>2. (\A s \in Requests : ~Carries(s)) /\ run[Worker].pc = "idle"
        BY <3>1 DEF Carried, Unconsumed
      <4>3. \A s \in Requests : Carries(s)' => s = r
        BY <4>1, <4>2 DEF Carries
      <4>4. \A s \in Requests : run'[s].pc # "idle" => req'[s].pc = "engine"
        BY <4>1, <4>2 DEF Carried, Carries
      <4> QED
        BY <4>1, <4>2, <4>3, <4>4 DEF Carried
    <3>2. CASE ~(conf = "pending" /\ ~req[r].late)
      BY <1>3, <3>2, RequestMoves DEF ClaimRow, Goto, Before
    <3> QED
      BY <3>1, <3>2
  <2>2. ActsOnce'
    <3>1. /\ UNCHANGED <<submission, providerCalls>> /\ UNCHANGED run
          /\ \A s \in Requests \ {r} : req'[s] = req[s]
      BY <1>3 DEF ClaimRow, Goto
    <3>2. req'[r].pc \in Before => req[r].pc \in Before \/ conf \in Unconsumed
      BY <1>3 DEF ClaimRow, Goto, Before, Unconsumed
    <3>3. /\ conf = "none" => conf' = "none"
          /\ conf' \in Unconsumed => conf \in Unconsumed
      BY <1>3 DEF ClaimRow, Goto, Unconsumed
    <3> QED
      BY <3>1, <3>2, <3>3, NoNewActor
  <2> QED
    BY <2>1, <2>2
<1>4. ASSUME NEW r \in Requests, LookUp(r) PROVE Owned'
  <2>1. Carried'
    <3>1. \E pc : req'[r].pc = pc /\ pc \notin Before \cup {"engine"}
      BY <1>4 DEF LookUp, Goto, Answer, IdleReq, Before
    <3> QED
      BY <1>4, <3>1, RequestMoves DEF LookUp, Goto, Answer
  <2>2. ActsOnce'
    <3>1. /\ UNCHANGED <<submission, providerCalls>> /\ UNCHANGED run
          /\ \A s \in Requests \ {r} : req'[s] = req[s]
      BY <1>4 DEF LookUp, Goto, Answer, IdleReq
    <3>2. req'[r].pc \in Before => req[r].pc \in Before \/ conf \in Unconsumed
      BY <1>4 DEF LookUp, Goto, Answer, IdleReq, Before, Unconsumed
    <3>3. /\ conf = "none" => conf' = "none"
          /\ conf' \in Unconsumed => conf \in Unconsumed
      BY <1>4 DEF LookUp, Goto, Answer, IdleReq, Unconsumed
    <3> QED
      BY <3>1, <3>2, <3>3, NoNewActor
  <2> QED
    BY <2>1, <2>2
<1>5. ASSUME NEW r \in Requests, ExpireRow(r) PROVE Owned'
  <2>1. Carried'
    BY <1>5, <1>a DEF ExpireRow, Answer, IdleReq, Carried, Carries, Before, Unconsumed
  <2>2. ActsOnce'
    <3>1. /\ UNCHANGED <<submission, providerCalls>> /\ UNCHANGED run
          /\ \A s \in Requests \ {r} : req'[s] = req[s]
      BY <1>5 DEF ExpireRow, Answer, IdleReq
    <3>2. req'[r].pc \in Before => req[r].pc \in Before \/ conf \in Unconsumed
      BY <1>5 DEF ExpireRow, Answer, IdleReq, Before, Unconsumed
    <3>3. /\ conf = "none" => conf' = "none"
          /\ conf' \in Unconsumed => conf \in Unconsumed
      BY <1>5 DEF ExpireRow, Answer, IdleReq, Unconsumed
    <3> QED
      BY <3>1, <3>2, <3>3, NoNewActor
  <2> QED
    BY <2>1, <2>2
<1>6. ASSUME NEW r \in Requests, ReportRunning(r) \/ ReportStatus(r) PROVE Owned'
  <2>1. Carried'
    BY <1>6, RequestMoves DEF ReportRunning, ReportStatus, Answer, IdleReq, Before
  <2>2. ActsOnce'
    <3>1. /\ UNCHANGED <<submission, providerCalls>> /\ UNCHANGED run
          /\ \A s \in Requests \ {r} : req'[s] = req[s]
      BY <1>6 DEF ReportRunning, ReportStatus, Answer, IdleReq
    <3>2. req'[r].pc \in Before => req[r].pc \in Before \/ conf \in Unconsumed
      BY <1>6 DEF ReportRunning, ReportStatus, Answer, IdleReq, Before, Unconsumed
    <3>3. /\ conf = "none" => conf' = "none"
          /\ conf' \in Unconsumed => conf \in Unconsumed
      BY <1>6 DEF ReportRunning, ReportStatus, Answer, IdleReq, Unconsumed
    <3> QED
      BY <3>1, <3>2, <3>3, NoNewActor
  <2> QED
    BY <2>1, <2>2
<1>7. ASSUME NEW r \in Requests, Begin(r) PROVE Owned'
  <2>1. Carried'
    <3>1. /\ Carries(r) /\ req[r].pc # "engine" /\ UNCHANGED conf
          /\ \A t \in Requests \ {r} : req'[t] = req[t] /\ run'[t] = run[t]
          /\ run'[Worker] = run[Worker]
      BY <1>7, <1>a DEF Begin, Goto, Carries, Before
    <3>2. CASE UNCHANGED run
      BY <1>7, <3>1, <3>2, RequestMoves DEF Begin, Goto
    <3>3. CASE req'[r].pc = "engine"
      <4>1. \A t \in Requests : Carries(t)' => t = r
        BY <3>1 DEF Carried, Carries
      <4>2. \A t \in Requests : run'[t].pc # "idle" => req'[t].pc = "engine"
        BY <3>1, <3>3 DEF Carried
      <4>3. conf' = "running" /\ run'[Worker].pc = "idle"
        BY <3>1 DEF Carried
      <4> QED
        BY <4>1, <4>2, <4>3 DEF Carried
    <3> QED
      BY <1>7, <3>2, <3>3 DEF Begin, Goto
  <2>2. ActsOnce'
    <3>1. /\ UNCHANGED <<conf, submission, providerCalls>> /\ req[r].pc \in Before
          /\ \A s \in Requests \ {r} : req'[s] = req[s]
      BY <1>7 DEF Begin, Goto, Before
    <3> QED
      BY <3>1, NoNewActor
  <2> QED
    BY <2>1, <2>2
<1>8. ASSUME NEW r \in Requests, Refuse(r) PROVE Owned'
  <2>1. Carried'
    BY <1>8, <1>a DEF Refuse, FinishWith, Answer, IdleReq, Carried, Carries, Before, Unconsumed
  <2>2. ActsOnce'
    <3>1. /\ UNCHANGED <<submission, providerCalls>> /\ UNCHANGED run
          /\ \A s \in Requests \ {r} : req'[s] = req[s]
      BY <1>8 DEF Refuse, FinishWith, Answer, IdleReq
    <3>2. req'[r].pc \in Before => req[r].pc \in Before \/ conf \in Unconsumed
      BY <1>8 DEF Refuse, FinishWith, Answer, IdleReq, Before, Unconsumed
    <3>3. /\ conf = "none" => conf' = "none"
          /\ conf' \in Unconsumed => conf \in Unconsumed
      BY <1>8 DEF Refuse, FinishWith, Answer, IdleReq, Unconsumed
    <3> QED
      BY <3>1, <3>2, <3>3, NoNewActor
  <2> QED
    BY <2>1, <2>2
<1>9. ASSUME NEW r \in Requests, EnqueueReads(r) \/ Promote(r) PROVE Owned'
  <2>1. Carried'
    <3>1. \E pc : req'[r].pc = pc
      OBVIOUS
    <3>2. Carries(r) /\ req[r].pc # "engine"
      BY <1>9 DEF EnqueueReads, Promote, Carries, Before
    <3> QED
      BY <1>9, <3>1, <3>2, RequestMoves DEF EnqueueReads, Promote, Goto
  <2>2. ActsOnce'
    <3>1. /\ UNCHANGED <<submission, providerCalls>> /\ UNCHANGED run
          /\ \A s \in Requests \ {r} : req'[s] = req[s]
      BY <1>9 DEF EnqueueReads, Promote, Goto
    <3>2. req'[r].pc \in Before => req[r].pc \in Before \/ conf \in Unconsumed
      BY <1>9 DEF EnqueueReads, Promote, Goto, Before, Unconsumed
    <3>3. /\ conf = "none" => conf' = "none"
          /\ conf' \in Unconsumed => conf \in Unconsumed
      BY <1>9 DEF EnqueueReads, Promote, Goto, Unconsumed
    <3> QED
      BY <3>1, <3>2, <3>3, NoNewActor
  <2> QED
    BY <2>1, <2>2
<1>10. ASSUME NEW r \in Requests, Schedule(r) PROVE Owned'
  <2>1. Carried'
    BY <1>10, <1>a DEF Schedule, Answer, IdleReq, Carried, Carries, Before, Unconsumed
  <2>2. ActsOnce'
    <3>1. /\ UNCHANGED <<conf, submission, providerCalls>> /\ req[r].pc \in Before
          /\ \A s \in Requests \ {r} : req'[s] = req[s]
      BY <1>10 DEF Schedule, Answer, IdleReq, Before
    <3> QED
      BY <3>1, NoNewActor
  <2> QED
    BY <2>1, <2>2
<1>11. ASSUME NEW r \in Requests, RequestFault(r) PROVE Owned'
  <2>1. Carried'
    BY <1>11, <1>a DEF RequestFault, FinishWith, Answer, IdleReq, Carried, Carries, Before, Unconsumed
  <2>2. ActsOnce'
    <3>1. /\ UNCHANGED <<submission, providerCalls>> /\ UNCHANGED run
          /\ \A s \in Requests \ {r} : req'[s] = req[s]
      BY <1>11 DEF RequestFault, FinishWith, Answer, IdleReq
    <3>2. req'[r].pc \in Before => req[r].pc \in Before \/ conf \in Unconsumed
      BY <1>11 DEF RequestFault, FinishWith, Answer, IdleReq, Before, Unconsumed
    <3>3. /\ conf = "none" => conf' = "none"
          /\ conf' \in Unconsumed => conf \in Unconsumed
      BY <1>11 DEF RequestFault, FinishWith, Answer, IdleReq, Unconsumed
    <3> QED
      BY <3>1, <3>2, <3>3, NoNewActor
  <2> QED
    BY <2>1, <2>2
<1>12. ASSUME NEW x \in Runners, CheckPolicy(x) PROVE Owned'
  <2>1. Carried'
    BY <1>12, <1>a DEF CheckPolicy, Step, Acts, Carried, Carries, Before, Unconsumed
  <2>2. ActsOnce'
    <3>1. run[x].pc \in Ahead /\ run[x].pc # "idle" /\ "provider" \notin Ahead
      BY <1>12 DEF CheckPolicy, Ahead
    <3>2. CASE Acts
      BY <1>12, <3>1, <3>2, ActsNow DEF CheckPolicy, Acts
    <3>3. CASE UNCHANGED providerCalls
      BY <1>12, <3>1, <3>3, ActsNot DEF CheckPolicy, Step
    <3> QED
      BY <1>12, <3>2, <3>3 DEF CheckPolicy
  <2> QED
    BY <2>1, <2>2
<1>13. ASSUME NEW x \in Runners, ProviderEnds(x) PROVE Owned'
  <2>1. Carried'
    BY <1>13, <1>a DEF ProviderEnds, Step, StepWith, Carried, Carries, Before, Unconsumed
  <2>2. ActsOnce'
    BY <1>13, <1>a DEF ProviderEnds, Step, StepWith, Carried, Carries, ActsOnce, Before, Ahead, Unconsumed
  <2> QED
    BY <2>1, <2>2
<1>14. ASSUME NEW x \in Runners, Attach(x) \/ OpenSession(x) PROVE Owned'
  <2>1. Carried'
    BY <1>14, <1>a DEF Attach, OpenSession, Step, Acts, Carried, Carries, Before, Unconsumed
  <2>2. ActsOnce'
    <3>1. CASE OpenSession(x) /\ Acts
      <4>1. run[x].pc \in Ahead /\ "read_state" \notin Ahead /\ Step(x, "read_state")
        BY <3>1 DEF OpenSession, Ahead, Acts
      <4> QED
        BY <3>1, <4>1, ActsNow DEF OpenSession
    <3>2. CASE ~(OpenSession(x) /\ Acts)
      <4>1. /\ run[x].pc \in Ahead /\ run[x].pc # "idle"
            /\ UNCHANGED <<conf, req, submission, providerCalls>>
        BY <1>14, <3>2 DEF Attach, OpenSession, Ahead
      <4>2. \A y \in Runners \ {x} : run'[y] = run[y]
        BY <1>14 DEF Attach, OpenSession, Step
      <4> QED
        BY <4>1, <4>2, ActsNot
    <3> QED
      BY <3>1, <3>2
  <2> QED
    BY <2>1, <2>2
<1>15. ASSUME NEW x \in Runners, ReadState(x) \/ SaveResult(x) \/ SaveFailed(x) PROVE Owned'
  <2>1. Carried'
    BY <1>15, <1>a DEF ReadState, SaveResult, SaveFailed, Step, StepWith, Carried, Carries, Before, Unconsumed
  <2>2. ActsOnce'
    BY <1>15, <1>a DEF ReadState, SaveResult, SaveFailed, Step, StepWith, Carried, Carries, ActsOnce, Before, Ahead, Unconsumed
  <2> QED
    BY <2>1, <2>2
<1>16. ASSUME NEW x \in Runners, Finish(x) PROVE Owned'
  <2>1. Carried'
    BY <1>16, RunnerLeaves DEF Finish
  <2>2. ActsOnce'
    BY <1>16, <1>a DEF Finish, FinishWith, Leave, Answer, IdleReq, IdleRun, Carried, Carries, ActsOnce, Before, Ahead, Unconsumed
  <2> QED
    BY <2>1, <2>2
<1>17. ASSUME NEW x \in Runners, EngineFault(x) PROVE Owned'
  <2>1. Carried'
    <3>1. run[x].pc # "idle"
      BY <1>17 DEF EngineFault
    <3>2. CASE \E said : Leave(x, said)
      BY <3>1, <3>2, RunnerLeaves
    <3>3. CASE ~\E said : Leave(x, said)
      <4>1. UNCHANGED req /\ \E pc, t : Step(x, pc) \/ StepWith(x, pc, t)
        BY <1>17, <3>3 DEF EngineFault
      <4>2. conf \notin Unconsumed
        BY <3>1, SoleCarrier
      <4>3. conf' = conf \/ (x = Worker /\ conf' \notin Unconsumed)
        BY <1>17, <3>3, <4>2 DEF EngineFault, FinishWith, Unconsumed
      <4> QED
        BY <3>1, <4>1, <4>3, RunnerMoves
    <3> QED
      BY <3>2, <3>3
  <2>2. ActsOnce'
    <3>1. run[x].pc # "idle" /\ UNCHANGED <<submission, providerCalls>>
      BY <1>17 DEF EngineFault
    <3>2. conf \notin Unconsumed
      BY <3>1, SoleCarrier
    <3>3. conf' = conf \/ conf' \notin Unconsumed
      BY <1>17, <3>2 DEF EngineFault, FinishWith, Unconsumed
    <3>4. \A y \in Runners \ {x} : run'[y] = run[y]
      BY <1>17 DEF EngineFault, Step, StepWith, Leave
    <3>5. run'[x].pc \notin Ahead \/ run[x].pc \in Ahead
      BY <1>17 DEF EngineFault, Step, StepWith, Leave, IdleRun, Ahead
    <3>6. \A r \in Requests : req'[r].pc \in Before => req[r].pc \in Before
      BY <1>17 DEF EngineFault, Leave, Answer, IdleReq, Before
    <3> QED
      BY <3>1, <3>3, <3>4, <3>5, <3>6, ActsNot
  <2> QED
    BY <2>1, <2>2
<1>18. ASSUME WorkerClaims PROVE Owned'
  <2>1. Carried'
    BY <1>18, <1>a DEF WorkerClaims, Carried, Carries, Before, Unconsumed
  <2>2. ActsOnce'
    BY <1>18, <1>a DEF WorkerClaims, Carried, Carries, ActsOnce, Before, Ahead, Unconsumed
  <2> QED
    BY <2>1, <2>2
<1>19. ASSUME WorkerAbandons PROVE Owned'
  <2>1. Carried'
    BY <1>19, <1>a DEF WorkerAbandons, Leave, IdleRun, Carried, Carries, Before, Unconsumed
  <2>2. ActsOnce'
    BY <1>19, <1>a DEF WorkerAbandons, Leave, IdleRun, Carried, Carries, ActsOnce, Before, Ahead, Unconsumed
  <2> QED
    BY <2>1, <2>2
<1>20. ASSUME SessionMoves \/ Restart \/ UNCHANGED vars PROVE Owned'
  <2>1. Carried'
    BY <1>20, <1>a DEF SessionMoves, Restart, vars, Carried, Carries, Before, Unconsumed
  <2>2. ActsOnce'
    BY <1>20, <1>a DEF SessionMoves, Restart, vars, Carried, Carries, ActsOnce, Before, Ahead, Unconsumed
  <2> QED
    BY <2>1, <2>2
<1>21. ASSUME Crash PROVE Owned'
  <2>1. Carried'
    BY <1>21, <1>a DEF Crash, IdleReq, IdleRun, Carried, Carries, Before, Unconsumed
  <2>2. ActsOnce'
    BY <1>21, <1>a DEF Crash, IdleReq, IdleRun, Carried, Carries, ActsOnce, Before, Ahead, Unconsumed
  <2> QED
    BY <2>1, <2>2
<1> QED
  BY <1>1, <1>2, <1>3, <1>4, <1>5, <1>6, <1>7, <1>8, <1>9, <1>10, <1>11, <1>12, <1>13, <1>14, <1>15, <1>16, <1>17, <1>18, <1>19, <1>20, <1>21
     DEF Next, RequestStep, EngineStep, WorkerStep

LEMMA OwnedAlways == Spec => [](Typed /\ Flags /\ Owned)
<1>1. Init => Typed /\ Flags /\ Owned
  BY TypedInit, OwnedInit
<1>2. Typed /\ Flags /\ Owned /\ [Next]_vars => (Typed /\ Flags /\ Owned)'
  BY TypedStep, FlagsStep, OwnedStep
<1> QED
  BY <1>1, <1>2, PTL DEF Spec

\* The type invariant of the confirmation flow.
THEOREM TypeCorrect == Spec => []TypeOK
<1>1. Typed /\ Flags => TypeOK
  BY DEF Typed, Flags, TypeOK
<1> QED
  BY <1>1, OwnedAlways, PTL

\* One approval lets the provider act at most once, however many confirm
\* requests, crashes, restarts and rejected store calls there are.
THEOREM ApprovedOnce == Spec => []ProviderAtMostOnce
<1>1. Owned => ProviderAtMostOnce
  BY DEF Owned, ActsOnce, ProviderAtMostOnce
<1> QED
  BY <1>1, OwnedAlways, PTL

\* The provider never acts, and nobody is on the way to it, while the
\* confirmation is absent, pending or expired.
THEOREM ApprovedFirst == Spec => []NeverWithoutApproval
<1>1. Typed /\ Owned => NeverWithoutApproval
  <2> SUFFICES ASSUME Typed, Owned, conf \in Unconsumed
               PROVE  providerCalls = 0 /\ ~Working
    BY DEF NeverWithoutApproval, Unconsumed
  <2>1. providerCalls = 0
    BY DEF Owned, ActsOnce
  <2>2. \A r \in Requests : ~Carries(r)
    BY DEF Owned, Carried, Unconsumed
  <2>3. \A x \in Runners : run[x].pc = "idle"
    BY <2>2, SoleCarrier DEF Owned
  <2> QED
    BY <2>1, <2>2, <2>3 DEF Working, Carries, Before
<1> QED
  BY <1>1, OwnedAlways, PTL
----------------------------------------------------------------------------
(* What the confirmation row says of the execution row, with rejected      *)
(* store calls or without: a runner that is not done works on a claimed    *)
(* confirmation, and one that finishes it as completed has saved that.     *)
Settled ==
  /\ \A r \in Requests : req[r].pc # "idle" => submission = "known"
  /\ submission \in {"issue", "persist"} => conf \in {"none", "pending"}
  /\ \A x \in Runners : run[x].pc \notin {"idle", "abandon"} => conf = "running"
  /\ \A x \in Runners :
       run[x].pc = "finish" /\ run[x].outcome = "completed" => exec = "completed"
  /\ CompletedMeansCompleted

LEMMA SettledInit == Init => Settled
  BY DEF Init, Settled, IdleReq, IdleRun, CompletedMeansCompleted

\* A step of runner x, which is the only one at work.
LEMMA RunnerSettles ==
  ASSUME Typed, Owned, Settled, NEW x \in Runners, run[x].pc # "idle",
         \A y \in Runners \ {x} : run'[y] = run[y],
         UNCHANGED submission,
         \A r \in Requests : req'[r].pc # "idle" => req[r].pc # "idle",
         run'[x].pc \notin {"idle", "abandon"} => conf' = "running",
         run'[x].pc = "finish" /\ run'[x].outcome = "completed" => exec' = "completed",
         conf' = "completed" => exec' = "completed"
  PROVE  Settled'
<1>1. conf \notin Unconsumed /\ \A y \in Runners : run[y].pc # "idle" => y = x
  BY SoleCarrier DEF Owned
<1>2. submission \notin {"issue", "persist"}
  BY <1>1 DEF Settled, Unconsumed
<1>3. \A y \in Runners \ {x} : run'[y].pc = "idle"
  BY <1>1
<1> QED
  BY <1>2, <1>3 DEF Settled, CompletedMeansCompleted

\* A step that moves no runner and completes no confirmation.
LEMMA OthersSettle ==
  ASSUME Settled, UNCHANGED run,
         exec = "completed" => exec' = "completed",
         conf' = "completed" => conf = "completed",
         \A x \in Runners : run[x].pc \notin {"idle", "abandon"} => conf' = "running",
         \A r \in Requests : req'[r].pc # "idle" => submission' = "known",
         submission' \in {"issue", "persist"} => conf' \in {"none", "pending"}
  PROVE  Settled'
  BY DEF Settled, CompletedMeansCompleted

\* The step of a request r that is under way, outside the engine.
LEMMA RequestSettles ==
  ASSUME Typed, Owned, Settled, NEW r \in Requests, req[r].pc # "idle",
         \A s \in Requests \ {r} : req'[s] = req[s],
         UNCHANGED <<run, submission>>,
         exec = "completed" => exec' = "completed",
         \/ conf' = conf
         \/ conf \in Unconsumed /\ conf' # "completed"
         \/ req[r].pc \in Before /\ conf' # "completed"
  PROVE  Settled'
<1>1. submission = "known"
  BY DEF Settled
<1>2. conf' # conf => \A x \in Runners : run[x].pc = "idle"
  <2>1. CASE conf \in Unconsumed
    BY <2>1, SoleCarrier DEF Owned
  <2>2. CASE req[r].pc \in Before
    <3>1. Carries(r) /\ req[r].pc # "engine"
      BY <2>2 DEF Carries, Before
    <3> QED
      BY <3>1, SoleCarrier DEF Owned
  <2> QED
    BY <2>1, <2>2
<1>3. \A x \in Runners : run[x].pc \notin {"idle", "abandon"} => conf' = "running"
  BY <1>2 DEF Settled
<1>4. conf' = "completed" => conf = "completed"
  OBVIOUS
<1> QED
  BY <1>1, <1>3, <1>4, OthersSettle

LEMMA SettledStep == Typed /\ Flags /\ Owned /\ Settled /\ [Next]_vars => Settled'
<1> SUFFICES ASSUME Typed, Flags, Owned, Settled, [Next]_vars PROVE Settled'
  OBVIOUS
<1> USE DEF rows, issued, process
<1>a. Requests \subseteq Runners /\ Worker \in Runners /\ Worker \notin Requests
  BY WorkerAssumption DEF Runners
<1>b. ASSUME conf \in {"none", "pending", "expired"} PROVE \A x \in Runners : run[x].pc = "idle"
  BY <1>b, SoleCarrier DEF Owned, Unconsumed
<1>1. ASSUME Issue \/ PersistPending \/ SubmissionFault \/ Expire PROVE Settled'
  <2>1. CASE Expire
    BY <2>1, OthersSettle DEF Expire, Settled
  <2>2. CASE Issue \/ PersistPending \/ SubmissionFault
    <3>1. /\ submission \in {"issue", "persist"} /\ UNCHANGED <<req, run>>
          /\ conf' \in {"none", "pending"}
      BY <2>2 DEF Issue, PersistPending, SubmissionFault, Settled
    <3>2. conf \in {"none", "pending"} /\ \A r \in Requests : req'[r].pc = "idle"
      BY <3>1 DEF Settled
    <3> QED
      BY <1>b, <3>1, <3>2 DEF Settled, CompletedMeansCompleted
  <2> QED
    BY <1>1, <2>1, <2>2
<1>2. ASSUME NEW r \in Requests, Confirm(r) PROVE Settled'
  BY <1>2, OthersSettle DEF Confirm, Settled, Typed
<1>3. ASSUME NEW r \in Requests,
             ClaimRow(r) \/ LookUp(r) \/ ExpireRow(r) \/ ReportRunning(r) \/ ReportStatus(r)
      PROVE  Settled'
  <2>1. /\ req[r].pc # "idle" /\ \A s \in Requests \ {r} : req'[s] = req[s]
        /\ UNCHANGED <<run, submission, exec>>
        /\ conf' = conf \/ (conf \in Unconsumed /\ conf' # "completed")
    BY <1>3 DEF ClaimRow, LookUp, ExpireRow, ReportRunning, ReportStatus, Goto, Answer,
       Unconsumed, Typed
  <2> QED
    BY <2>1, RequestSettles
<1>4. ASSUME NEW r \in Requests, Refuse(r) \/ EnqueueReads(r) \/ Promote(r) PROVE Settled'
  <2>1. /\ req[r].pc \in Before /\ \A s \in Requests \ {r} : req'[s] = req[s]
        /\ UNCHANGED <<run, submission>>
        /\ exec = "completed" => exec' = "completed"
        /\ conf' = conf \/ conf' # "completed"
    BY <1>4 DEF Refuse, EnqueueReads, Promote, Goto, Answer, Before, FinishWith, Transition,
       Typed
  <2>2. req[r].pc # "idle"
    BY <2>1 DEF Before
  <2> QED
    BY <2>1, <2>2, RequestSettles
<1>5. ASSUME NEW r \in Requests, RequestFault(r) PROVE Settled'
  <2>1. /\ req[r].pc # "idle" /\ \A s \in Requests \ {r} : req'[s] = req[s]
        /\ UNCHANGED <<run, submission>>
        /\ exec = "completed" => exec' = "completed"
        /\ \/ conf' = conf
           \/ conf \in Unconsumed /\ conf' # "completed"
           \/ req[r].pc \in Before /\ conf' # "completed"
    BY <1>5 DEF RequestFault, Answer, Before, FinishWith, Transition, Unconsumed
  <2> QED
    BY <2>1, RequestSettles
<1>6. ASSUME NEW r \in Requests, Begin(r) \/ Schedule(r) PROVE Settled'
  <2>1. req[r].pc \in Before /\ UNCHANGED <<conf, exec, submission>>
    BY <1>6 DEF Begin, Schedule, Before
  <2>2. conf = "running" /\ submission = "known"
    BY <2>1 DEF Owned, Carried, Carries, Settled, Before
  <2>3. \A x \in Runners : run[x].pc = "idle"
    <3>1. Carries(r) /\ req[r].pc # "engine"
      BY <2>1 DEF Carries, Before
    <3> QED
      BY <3>1, SoleCarrier DEF Owned
  <2>4. \A x \in Runners : run'[x].pc # "finish"
    BY <1>6, <1>a, <2>3 DEF Begin, Schedule, Typed
  <2> QED
    BY <2>1, <2>2, <2>4 DEF Settled, CompletedMeansCompleted
<1>7. ASSUME NEW x \in Runners, EngineStep(x) PROVE Settled'
  <2>1. /\ run[x].pc \notin {"idle", "abandon"}
        /\ \A y \in Runners \ {x} : run'[y] = run[y]
        /\ UNCHANGED submission
        /\ \A r \in Requests : req'[r].pc # "idle" => req[r].pc # "idle"
    BY <1>7 DEF EngineStep, CheckPolicy, ProviderEnds, Attach, OpenSession, ReadState,
       SaveResult, SaveFailed, Finish, Step, StepWith, Leave, Answer, IdleReq, Typed
  <2>2. conf = "running"
    BY <2>1 DEF Settled
  <2>3. CASE CheckPolicy(x) \/ ProviderEnds(x) \/ Attach(x) \/ OpenSession(x)
    <3>1. run'[x].pc # "finish" /\ conf' = conf
      BY <2>3 DEF CheckPolicy, ProviderEnds, Attach, OpenSession, Step, StepWith, Typed
    <3> QED
      BY <2>1, <2>2, <3>1, RunnerSettles
  <2>4. CASE ReadState(x) \/ SaveResult(x) \/ SaveFailed(x)
    <3>1. /\ conf' = conf
          /\ run'[x].pc = "finish" /\ run'[x].outcome = "completed" => exec' = "completed"
      BY <2>4 DEF ReadState, SaveResult, SaveFailed, Step, StepWith, ExecWrite, Typed
    <3> QED
      BY <2>1, <2>2, <3>1, RunnerSettles
  <2>5. CASE Finish(x)
    <3>1. /\ run[x].pc = "finish" /\ run'[x].pc = "idle" /\ exec' = exec
          /\ conf' = "completed" => run[x].outcome = "completed"
      BY <2>2, <2>5 DEF Finish, FinishWith, Leave, IdleRun, Typed
    <3>2. conf' = "completed" => exec' = "completed"
      BY <3>1 DEF Settled
    <3> QED
      BY <2>1, <3>1, <3>2, RunnerSettles
  <2> QED
    BY <1>7, <2>3, <2>4, <2>5 DEF EngineStep
<1>8. ASSUME NEW x \in Runners, EngineFault(x) PROVE Settled'
  <2>1. /\ run[x].pc \notin {"idle", "abandon"}
        /\ \A y \in Runners \ {x} : run'[y] = run[y]
        /\ UNCHANGED submission
        /\ \A r \in Requests : req'[r].pc # "idle" => req[r].pc # "idle"
    BY <1>8 DEF EngineFault, Step, StepWith, Leave, Answer, IdleReq, Typed
  <2>2. conf = "running"
    BY <2>1 DEF Settled
  <2>3. /\ run'[x].pc \notin {"idle", "abandon"} => conf' = "running"
        /\ ~(run'[x].pc = "finish" /\ run'[x].outcome = "completed")
    BY <1>8, <2>2 DEF EngineFault, Step, StepWith, Leave, IdleRun, FinishWith, Typed
  <2>4. conf' = "completed" => run[x].pc = "finish" /\ run[x].outcome = "completed" /\ exec' = exec
    BY <1>8, <2>2 DEF EngineFault, FinishWith
  <2>5. conf' = "completed" => exec' = "completed"
    BY <2>4 DEF Settled
  <2> QED
    BY <2>1, <2>3, <2>5, RunnerSettles
<1>9. ASSUME WorkerStep PROVE Settled'
  <2>1. CASE WorkerClaims
    <3>1. run[Worker].pc = "claim" /\ UNCHANGED <<conf, req, submission>>
      BY <2>1 DEF WorkerClaims
    <3>2. conf = "running" /\ run'[Worker].pc # "finish" /\ \A y \in Runners \ {Worker} : run'[y] = run[y]
      BY <1>a, <2>1, <3>1 DEF WorkerClaims, Settled, Typed
    <3> QED
      BY <1>a, <3>1, <3>2, RunnerSettles
  <2>2. CASE WorkerAbandons
    <3>1. /\ run[Worker].pc = "abandon" /\ UNCHANGED <<conf, req, submission>>
          /\ run'[Worker].pc = "idle" /\ \A y \in Runners \ {Worker} : run'[y] = run[y]
          /\ exec = "completed" => exec' = "completed"
      BY <1>a, <2>2 DEF WorkerAbandons, Leave, IdleRun, Typed, Transition
    <3>2. conf' = "completed" => exec' = "completed"
      BY <3>1 DEF Settled, CompletedMeansCompleted
    <3> QED
      BY <1>a, <3>1, <3>2, RunnerSettles
  <2> QED
    BY <1>9, <2>1, <2>2 DEF WorkerStep
<1>10. ASSUME SessionMoves \/ Restart \/ UNCHANGED vars PROVE Settled'
  <2>1. /\ UNCHANGED <<conf, run, req, submission>>
        /\ exec = "completed" => exec' = "completed"
    BY <1>10 DEF SessionMoves, Restart, vars, Transition
  <2> QED
    BY <2>1, OthersSettle DEF Settled
<1>11. ASSUME Crash PROVE Settled'
  BY <1>11 DEF Crash, IdleReq, IdleRun, Settled, CompletedMeansCompleted
<1> QED
  BY <1>1, <1>2, <1>3, <1>4, <1>5, <1>6, <1>7, <1>8, <1>9, <1>10, <1>11
     DEF Next, RequestStep

\* A confirmation is recorded as completed only for a completed execution, with
\* every crash and every store call that rejects before or after its write.
THEOREM CompletedIsEarned == Spec => []CompletedMeansCompleted
<1>1. Init => Settled
  BY SettledInit
<1>2. Typed /\ Flags /\ Owned /\ Settled /\ [Next]_vars => Settled'
  BY SettledStep
<1>3. Settled => CompletedMeansCompleted
  BY DEF Settled
<1> QED
  BY <1>1, <1>2, <1>3, OwnedAlways, PTL DEF Spec
----------------------------------------------------------------------------
(* Where the execution row stands while nothing rejects: at every await    *)
(* of a request, of the engine and of the worker.                          *)
LiveStates == {"queued", "running"}
AheadOfSave == {"policy", "provider", "attach", "open", "save", "save_failed"}
AfterSession == {"read_state", "finish"}

RequestsKnow ==
  \A r \in Requests :
    /\ req[r].pc \in {"begin", "refuse", "enqueue", "promote"} => exec = "pending_confirmation"
    /\ req[r].pc = "schedule" => exec = "queued"

RunnerKnows(x) ==
  /\ run[x].pc # "abandon"
  /\ run[x].pc = "claim" => exec = "queued"
  /\ run[x].pc \in AheadOfSave => ~session /\ exec \in {"pending_confirmation", "running"}
  /\ run[x].pc = "save" => run[x].outcome \in {"completed", "partial", "failed"}
  /\ run[x].pc \in AfterSession => exec # "queued" /\ (exec = "running" => session)

Live ==
  /\ submission \in {"issue", "persist"} => exec = "none"
  /\ conf = "pending" /\ submission = "known" => exec = "pending_confirmation"
  /\ RequestsKnow
  /\ \A x \in Runners : RunnerKnows(x)
  /\ session => exec # "queued" /\ providerCalls # 0
  /\ LiveRecordHasOwner

LEMMA LiveInit == Init => Live
  BY DEF Init, Live, IdleReq, IdleRun, RequestsKnow, RunnerKnows, LiveRecordHasOwner,
     AheadOfSave, AfterSession

(* A dead process keeps nothing in memory.                                 *)
DownIsEmpty ==
  server = "down" => /\ \A r \in Requests : req[r].pc = "idle"
                     /\ \A x \in Runners : run[x].pc = "idle"
                     /\ ~session

LEMMA DownStep == DownIsEmpty /\ [Next]_vars => DownIsEmpty'
<1> SUFFICES ASSUME DownIsEmpty, [Next]_vars PROVE DownIsEmpty'
  OBVIOUS
<1> USE DEF rows, issued, process
<1>a. Requests \subseteq Runners /\ Worker \in Runners
  BY DEF Runners
<1>1. ASSUME Crash \/ Restart PROVE DownIsEmpty'
  BY <1>1 DEF Crash, Restart, DownIsEmpty, IdleReq, IdleRun
<1>2. ASSUME Expire \/ UNCHANGED vars PROVE DownIsEmpty'
  BY <1>2 DEF Expire, vars, DownIsEmpty
<1>3. ASSUME NEW r \in Requests, Confirm(r) \/ RequestStep(r) \/ RequestFault(r)
      PROVE  server # "down" /\ server' = server
  <2>1. server # "down" \/ req[r].pc = "idle"
    BY DEF DownIsEmpty
  <2> QED
    BY <1>3, <2>1
       DEF Confirm, RequestStep, RequestFault, ClaimRow, LookUp, ExpireRow, ReportRunning,
           ReportStatus, Begin, Refuse, EnqueueReads, Promote, Schedule
<1>4. ASSUME NEW x \in Runners, EngineStep(x) \/ EngineFault(x)
      PROVE  server # "down" /\ server' = server
  <2>1. server # "down" \/ run[x].pc = "idle"
    BY DEF DownIsEmpty
  <2> QED
    BY <1>4, <2>1
       DEF EngineStep, EngineFault, CheckPolicy, ProviderEnds, Attach, OpenSession, ReadState,
           SaveResult, SaveFailed, Finish
<1>5. ASSUME Issue \/ PersistPending \/ SubmissionFault \/ WorkerStep \/ SessionMoves
      PROVE  server # "down" /\ server' = server
  BY <1>a, <1>5 DEF Issue, PersistPending, SubmissionFault, WorkerStep, WorkerClaims,
     WorkerAbandons, SessionMoves, DownIsEmpty
<1> QED
  BY <1>1, <1>2, <1>3, <1>4, <1>5 DEF Next, DownIsEmpty

\* A step of a request that leaves the execution and the runners alone.
LEMMA RequestLives ==
  ASSUME Typed, Live, NEW r \in Requests,
         \A s \in Requests \ {r} : req'[s] = req[s],
         UNCHANGED <<run, submission, session, server, providerCalls, exec>>,
         conf' = "pending" => conf = "pending",
         req'[r].pc \in {"begin", "refuse", "enqueue", "promote"} => exec = "pending_confirmation",
         req'[r].pc # "schedule",
         req[r].pc \in Before => req'[r].pc \in Before \/ exec \notin LiveStates
  PROVE  Live'
<1>1. RequestsKnow'
  BY DEF Live, RequestsKnow
<1>2. \A x \in Runners : RunnerKnows(x)'
  BY DEF Live, RunnerKnows
<1>3. ASSUME server = "up", exec \in LiveStates, ~session PROVE Working'
  <2>1. Working
    BY <1>3 DEF Live, LiveRecordHasOwner, LiveStates
  <2>2. CASE \E x \in Runners : run[x].pc # "idle"
    BY <2>2 DEF Working
  <2>3. CASE \E s \in Requests : req[s].pc \in Before
    <3>1. PICK s \in Requests : req[s].pc \in Before
      BY <2>3
    <3>2. req'[s].pc \in Before
      BY <1>3, <3>1
    <3> QED
      BY <3>2 DEF Working, Before
  <2> QED
    BY <2>1, <2>2, <2>3 DEF Working, Before
<1>4. LiveRecordHasOwner'
  BY <1>3 DEF LiveRecordHasOwner, LiveStates
<1> QED
  BY <1>1, <1>2, <1>4 DEF Live

\* A step of runner x, the only one at work.
LEMMA RunnerLives ==
  ASSUME Typed, Owned, Settled, Live, NEW x \in Runners, run[x].pc # "idle",
         \A y \in Runners \ {x} : run'[y] = run[y],
         \A r \in Requests : req'[r] = req[r] \/ req'[r].pc = "idle",
         UNCHANGED <<submission, server>>,
         conf' # "pending",
         RunnerKnows(x)',
         session' => exec' # "queued" /\ providerCalls' # 0,
         exec' \in LiveStates => run'[x].pc # "idle" \/ session'
  PROVE  Live'
<1>1. /\ conf \notin Unconsumed
      /\ \A r \in Requests : Carries(r) => r = x /\ req[r].pc = "engine"
      /\ \A y \in Runners : run[y].pc # "idle" => y = x
  BY SoleCarrier DEF Owned
<1>2. submission \notin {"issue", "persist"}
  BY <1>1 DEF Settled, Unconsumed
<1>3. \A r \in Requests : req'[r].pc \notin Before
  BY <1>1 DEF Carries, Before
<1>4. RequestsKnow'
  BY <1>3 DEF RequestsKnow, Before
<1>5. ASSUME NEW y \in Runners PROVE RunnerKnows(y)'
  <2>1. CASE y = x
    BY <2>1
  <2>2. CASE y # x
    <3>1. run'[y].pc = "idle"
      BY <1>1, <2>2
    <3> QED
      BY <3>1 DEF RunnerKnows, AheadOfSave, AfterSession
  <2> QED
    BY <2>1, <2>2
<1>6. LiveRecordHasOwner'
  BY DEF LiveRecordHasOwner, Working, LiveStates
<1> QED
  BY <1>2, <1>4, <1>5, <1>6 DEF Live

\* While a request stands before the engine, nobody runs and no session lives.
LEMMA BeforeEngine ==
  ASSUME Typed, Owned, Settled, Live, NEW r \in Requests, req[r].pc \in Before
  PROVE  /\ conf = "running" /\ submission = "known" /\ ~session
         /\ \A x \in Runners : run[x].pc = "idle"
         /\ \A s \in Requests \ {r} : req[s].pc \notin Before
<1>1. Carries(r) /\ req[r].pc # "engine" /\ req[r].pc # "idle"
  BY DEF Carries, Before
<1>2. \A x \in Runners : run[x].pc = "idle"
  BY <1>1, SoleCarrier DEF Owned
<1>3. conf = "running" /\ \A s \in Requests \ {r} : req[s].pc \notin Before
  BY <1>1 DEF Owned, Carried, Carries
<1>4. ~session
  BY DEF Live, Owned, ActsOnce
<1> QED
  BY <1>1, <1>2, <1>3, <1>4 DEF Settled
LEMMA LiveStep ==
  ASSUME ~DbFaults, Typed, Flags, Owned, Settled, DownIsEmpty, Live, [Next]_vars
  PROVE  Live'
<1> USE DEF rows, issued, process
<1>a. Requests \subseteq Runners /\ Worker \in Runners /\ Worker \notin Requests
  BY WorkerAssumption DEF Runners
<1>b. ASSUME conf \in Unconsumed PROVE \A x \in Runners : run[x].pc = "idle"
  BY <1>b, SoleCarrier DEF Owned
<1>1. ASSUME Issue \/ PersistPending PROVE Live'
  <2>1. /\ submission \in {"issue", "persist"} /\ UNCHANGED <<req, run, session, server, providerCalls>>
        /\ submission' \in {"persist", "known"}
        /\ submission' = "persist" => exec' = exec
        /\ submission' = "known" => exec' = "pending_confirmation"
    BY <1>1 DEF Issue, PersistPending, ExecWrite
  <2>2. /\ conf \in Unconsumed /\ exec = "none"
        /\ \A r \in Requests : req'[r].pc = "idle"
    BY <2>1 DEF Live, Settled, Unconsumed
  <2>3. /\ \A x \in Runners : run'[x].pc = "idle"
        /\ ~session'
    BY <1>b, <2>1, <2>2 DEF Owned, ActsOnce, Live
  <2>4. \A x \in Runners : RunnerKnows(x)'
    BY <2>3 DEF RunnerKnows, AheadOfSave, AfterSession
  <2> QED
    BY <2>1, <2>2, <2>3, <2>4 DEF Live, RequestsKnow, LiveRecordHasOwner
<1>2. ASSUME Expire \/ UNCHANGED vars PROVE Live'
  <2>1. UNCHANGED <<conf, exec, submission, req, run, session, server, providerCalls>>
    BY <1>2 DEF Expire, vars
  <2>2. \A x \in Runners : RunnerKnows(x)'
    BY <2>1 DEF Live, RunnerKnows
  <2> QED
    BY <2>1, <2>2 DEF Live, RequestsKnow, LiveRecordHasOwner, Working
<1>3. ASSUME NEW r \in Requests,
             \/ Confirm(r) \/ ClaimRow(r) \/ LookUp(r) \/ ExpireRow(r)
             \/ ReportRunning(r) \/ ReportStatus(r)
      PROVE  Live'
  <2>1. /\ \A s \in Requests \ {r} : req'[s] = req[s]
        /\ UNCHANGED <<run, submission, session, server, providerCalls, exec>>
        /\ conf' = "pending" => conf = "pending"
        /\ req[r].pc \notin Before
        /\ req'[r].pc \in {"begin", "refuse", "enqueue", "promote", "schedule"}
             => req'[r].pc = "begin" /\ conf = "pending" /\ req[r].pc # "idle"
    BY <1>3 DEF Confirm, ClaimRow, LookUp, ExpireRow, ReportRunning, ReportStatus, Goto,
       Answer, IdleReq, Before, Typed
  <2>2. req'[r].pc \in {"begin", "refuse", "enqueue", "promote"} => exec = "pending_confirmation"
    BY <2>1 DEF Live, Settled
  <2> QED
    BY <2>1, <2>2, RequestLives
<1>4. ASSUME NEW r \in Requests, Refuse(r) \/ EnqueueReads(r) PROVE Live'
  <2>1. req[r].pc \in {"refuse", "enqueue"} /\ exec = "pending_confirmation"
    BY <1>4 DEF Refuse, EnqueueReads, Live, RequestsKnow
  <2>2. /\ \A s \in Requests \ {r} : req'[s] = req[s]
        /\ UNCHANGED <<run, submission, session, server, providerCalls, exec>>
        /\ conf' = "pending" => conf = "pending"
        /\ req'[r].pc # "schedule"
    BY <1>4, <2>1 DEF Refuse, EnqueueReads, Goto, Answer, IdleReq, FinishWith, Typed
  <2> QED
    BY <2>1, <2>2, RequestLives DEF LiveStates
<1>5. ASSUME NEW r \in Requests, Promote(r) PROVE Live'
  <2>1. req[r].pc \in Before /\ exec = "pending_confirmation"
    BY <1>5 DEF Promote, Before, Live, RequestsKnow
  <2>2. /\ conf = "running" /\ submission = "known" /\ ~session
        /\ \A x \in Runners : run[x].pc = "idle"
        /\ \A s \in Requests \ {r} : req[s].pc \notin Before
    BY <2>1, BeforeEngine
  <2>3. /\ exec' = "queued" /\ req'[r].pc = "schedule"
        /\ \A s \in Requests \ {r} : req'[s] = req[s]
        /\ UNCHANGED <<conf, run, submission, session, server, providerCalls>>
    BY <1>5, <2>1 DEF Promote, Transition, Goto, Typed
  <2>4. \A x \in Runners : RunnerKnows(x)'
    BY <2>2, <2>3 DEF RunnerKnows, AheadOfSave, AfterSession
  <2>5. RequestsKnow'
    BY <2>2, <2>3 DEF RequestsKnow, Before
  <2>6. Working'
    BY <2>3 DEF Working
  <2> QED
    BY <2>2, <2>3, <2>4, <2>5, <2>6 DEF Live, LiveRecordHasOwner
<1>6. ASSUME NEW r \in Requests, Schedule(r) PROVE Live'
  <2>1. req[r].pc \in Before /\ exec = "queued"
    BY <1>6 DEF Schedule, Before, Live, RequestsKnow
  <2>2. /\ conf = "running" /\ submission = "known" /\ ~session
        /\ \A x \in Runners : run[x].pc = "idle"
        /\ \A s \in Requests \ {r} : req[s].pc \notin Before
    BY <2>1, BeforeEngine
  <2>3. /\ run'[Worker].pc = "claim" /\ req'[r].pc = "idle"
        /\ \A x \in Runners \ {Worker} : run'[x] = run[x]
        /\ \A s \in Requests \ {r} : req'[s] = req[s]
        /\ UNCHANGED <<conf, exec, submission, session, server, providerCalls>>
    BY <1>a, <1>6, <2>2 DEF Schedule, Answer, IdleReq, Typed
  <2>4. \A x \in Runners : RunnerKnows(x)'
    BY <2>1, <2>2, <2>3 DEF RunnerKnows, AheadOfSave, AfterSession
  <2>5. RequestsKnow'
    BY <2>2, <2>3 DEF RequestsKnow, Before
  <2>6. Working'
    BY <1>a, <2>3 DEF Working
  <2> QED
    BY <2>2, <2>3, <2>4, <2>5, <2>6 DEF Live, LiveRecordHasOwner
<1>7. ASSUME NEW r \in Requests, Begin(r) PROVE Live'
  <2>1. req[r].pc = "begin" /\ exec = "pending_confirmation" /\ req[r].pc \in Before
    BY <1>7 DEF Begin, Before, Live, RequestsKnow
  <2>2. CASE kind.async
    <3>1. /\ \A s \in Requests \ {r} : req'[s] = req[s]
          /\ UNCHANGED <<run, submission, session, server, providerCalls, exec, conf>>
          /\ req'[r].pc \in {"enqueue", "refuse"}
      BY <1>7, <2>2 DEF Begin, Goto, Typed
    <3> QED
      BY <2>1, <3>1, RequestLives DEF LiveStates
  <2>3. CASE ~kind.async
    <3>1. /\ conf = "running" /\ submission = "known" /\ ~session
          /\ \A x \in Runners : run[x].pc = "idle"
          /\ \A s \in Requests \ {r} : req[s].pc \notin Before
      BY <2>1, BeforeEngine
    <3>2. /\ run'[r].pc = "policy" /\ req'[r].pc = "engine"
          /\ \A x \in Runners \ {r} : run'[x] = run[x]
          /\ \A s \in Requests \ {r} : req'[s] = req[s]
          /\ UNCHANGED <<conf, exec, submission, session, server, providerCalls>>
      BY <1>a, <1>7, <2>3 DEF Begin, Goto, Typed
    <3>3. \A x \in Runners : RunnerKnows(x)'
      BY <2>1, <3>1, <3>2 DEF RunnerKnows, AheadOfSave, AfterSession
    <3>4. RequestsKnow'
      BY <3>1, <3>2 DEF RequestsKnow, Before
    <3> QED
      BY <2>1, <3>1, <3>2, <3>3, <3>4 DEF Live, LiveRecordHasOwner
  <2> QED
    BY <2>2, <2>3
<1>8. ASSUME NEW x \in Runners, EngineStep(x) PROVE Live'
  <2>1. /\ run[x].pc \notin {"idle", "abandon"}
        /\ \A y \in Runners \ {x} : run'[y] = run[y]
        /\ UNCHANGED <<submission, server>>
        /\ \A r \in Requests : req'[r] = req[r] \/ req'[r].pc = "idle"
    BY <1>8 DEF EngineStep, CheckPolicy, ProviderEnds, Attach, OpenSession, ReadState,
       SaveResult, SaveFailed, Finish, Step, StepWith, Leave, Answer, IdleReq, Typed
  <2>2. conf = "running" /\ RunnerKnows(x)
    BY <2>1 DEF Settled, Live
  <2>3. CASE CheckPolicy(x) \/ ProviderEnds(x) \/ Attach(x)
    <3>1. /\ run[x].pc \in AheadOfSave /\ run'[x].pc \in AheadOfSave /\ conf' = conf
          /\ run'[x].pc = "save" => run'[x].outcome \in {"completed", "partial", "failed"}
          /\ exec' \in {exec, "running"} /\ session' = session
      BY <2>3 DEF CheckPolicy, ProviderEnds, Attach, Step, StepWith, Typed, AheadOfSave,
         Transition
    <3>2. RunnerKnows(x)' /\ ~session' /\ run'[x].pc # "idle"
      BY <2>2, <3>1 DEF RunnerKnows, AheadOfSave, AfterSession
    <3> QED
      BY <2>1, <2>2, <3>1, <3>2, RunnerLives
  <2>4. CASE OpenSession(x)
    <3>1. /\ run[x].pc = "open" /\ UNCHANGED <<conf, exec>>
          /\ \/ session' = TRUE /\ providerCalls' = providerCalls + 1 /\ run'[x].pc = "read_state"
             \/ UNCHANGED <<session, providerCalls>> /\ run'[x].pc = "save_failed"
      BY <2>4 DEF OpenSession, Acts, Step, Typed
    <3>2. ~session /\ exec \in {"pending_confirmation", "running"}
      BY <2>2, <3>1 DEF RunnerKnows, AheadOfSave
    <3>3. /\ RunnerKnows(x)' /\ run'[x].pc # "idle"
          /\ session' => exec' # "queued" /\ providerCalls' # 0
      BY <3>1, <3>2 DEF RunnerKnows, AheadOfSave, AfterSession, Typed
    <3> QED
      BY <2>1, <2>2, <3>1, <3>3, RunnerLives
  <2>5. CASE ReadState(x)
    <3>1. /\ run[x].pc = "read_state" /\ run'[x].pc = "finish"
          /\ UNCHANGED <<conf, exec, session, providerCalls>>
      BY <2>5 DEF ReadState, StepWith, Typed
    <3>2. /\ RunnerKnows(x)' /\ run'[x].pc # "idle"
          /\ session' => exec' # "queued" /\ providerCalls' # 0
      BY <2>2, <3>1 DEF RunnerKnows, AheadOfSave, AfterSession, Live
    <3> QED
      BY <2>1, <2>2, <3>1, <3>2, RunnerLives
  <2>6. CASE SaveResult(x) \/ SaveFailed(x)
    <3>1. /\ run[x].pc \in {"save", "save_failed"} /\ run'[x].pc = "finish"
          /\ exec' = IF run[x].pc = "save" THEN run[x].outcome ELSE "failed"
          /\ UNCHANGED <<conf, session, providerCalls>>
      BY <2>6 DEF SaveResult, SaveFailed, Step, StepWith, ExecWrite, Typed
    <3>2. exec' \in {"completed", "partial", "failed"} /\ ~session'
      BY <2>2, <3>1 DEF RunnerKnows, AheadOfSave
    <3>3. RunnerKnows(x)'
      BY <3>1, <3>2 DEF RunnerKnows, AheadOfSave, AfterSession
    <3> QED
      BY <2>1, <2>2, <3>1, <3>2, <3>3, RunnerLives DEF LiveStates
  <2>7. CASE Finish(x)
    <3>1. /\ run[x].pc = "finish" /\ run'[x].pc = "idle"
          /\ UNCHANGED <<exec, session, providerCalls>> /\ conf' # "pending"
      BY <2>2, <2>7 DEF Finish, FinishWith, Leave, IdleRun, Typed
    <3>2. exec \in LiveStates => session
      BY <2>2, <3>1 DEF RunnerKnows, AfterSession, LiveStates
    <3>3. /\ RunnerKnows(x)'
          /\ session' => exec' # "queued" /\ providerCalls' # 0
      BY <3>1 DEF RunnerKnows, AheadOfSave, AfterSession, Live
    <3> QED
      BY <2>1, <3>1, <3>2, <3>3, RunnerLives
  <2> QED
    BY <1>8, <2>3, <2>4, <2>5, <2>6, <2>7 DEF EngineStep
<1>9. ASSUME WorkerStep PROVE Live'
  <2>1. WorkerClaims
    BY <1>9, <1>a DEF WorkerStep, WorkerAbandons, Live, RunnerKnows
  <2>2. run[Worker].pc = "claim" /\ exec = "queued" /\ conf = "running" /\ ~session
    BY <1>a, <2>1 DEF WorkerClaims, Live, RunnerKnows, Settled
  <2>3. /\ run'[Worker].pc = "policy" /\ exec' = "running"
        /\ \A y \in Runners \ {Worker} : run'[y] = run[y]
        /\ UNCHANGED <<conf, req, submission, server, session, providerCalls>>
    BY <1>a, <2>1, <2>2 DEF WorkerClaims, Transition, Typed
  <2>4. RunnerKnows(Worker)'
    BY <2>2, <2>3 DEF RunnerKnows, AheadOfSave, AfterSession
  <2> QED
    BY <1>a, <2>2, <2>3, <2>4, RunnerLives
<1>10. ASSUME SessionMoves PROVE Live'
  <2>1. /\ session /\ exec # "queued" /\ providerCalls # 0
        /\ UNCHANGED <<conf, submission, req, run, server, providerCalls>>
    BY <1>10 DEF SessionMoves, Live
  <2>2. PICK s \in Lifecycle!Session \cup Terminal :
               /\ Transition(Lifecycle!Session, s)
               /\ session' = (s \notin Terminal)
    BY <1>10 DEF SessionMoves
  <2>3. /\ exec' # "queued" /\ (exec' = "running" => session')
        /\ exec \in {"none", "pending_confirmation"} => exec' = exec
    BY <2>1, <2>2 DEF Transition
  <2>4. \A r \in Requests : req[r].pc \notin Before
    BY <2>1, BeforeEngine
  <2>5. RequestsKnow'
    BY <2>1, <2>4 DEF RequestsKnow, Before
  <2>6. ASSUME NEW x \in Runners PROVE RunnerKnows(x)'
    <3>1. RunnerKnows(x)
      BY DEF Live
    <3>2. run[x].pc \notin AheadOfSave \cup {"claim"}
      BY <2>1, <3>1 DEF RunnerKnows
    <3> QED
      BY <2>1, <2>3, <3>1, <3>2 DEF RunnerKnows, AheadOfSave
  <2> QED
    BY <2>1, <2>3, <2>5, <2>6 DEF Live, LiveRecordHasOwner
<1>11. ASSUME Crash PROVE Live'
  <2>1. /\ \A r \in Requests : req'[r].pc = "idle"
        /\ \A x \in Runners : run'[x].pc = "idle"
        /\ ~session' /\ server' = "down" /\ UNCHANGED <<conf, exec>>
        /\ submission' = "known" => submission = "known"
        /\ submission' \in {"known", "over"}
    BY <1>11 DEF Crash, IdleReq, IdleRun
  <2>2. \A x \in Runners : RunnerKnows(x)'
    BY <2>1 DEF RunnerKnows, AheadOfSave, AfterSession
  <2> QED
    BY <2>1, <2>2 DEF Live, RequestsKnow, LiveRecordHasOwner
<1>12. ASSUME Restart PROVE Live'
  <2>1. /\ UNCHANGED <<conf, submission, req, run, session, providerCalls>>
        /\ exec' \notin LiveStates
        /\ exec \in {"none", "pending_confirmation"} => exec' = exec
    BY <1>12 DEF Restart, Transition, LiveStates
  <2>2. /\ \A r \in Requests : req'[r].pc = "idle"
        /\ \A x \in Runners : run'[x].pc = "idle"
        /\ ~session'
    BY <1>12, <2>1 DEF Restart, DownIsEmpty
  <2>3. \A x \in Runners : RunnerKnows(x)'
    BY <2>2 DEF RunnerKnows, AheadOfSave, AfterSession
  <2> QED
    BY <2>1, <2>2, <2>3 DEF Live, RequestsKnow, LiveRecordHasOwner, LiveStates
<1>13. ASSUME SubmissionFault \/ \E r \in Requests : RequestFault(r) PROVE Live'
  BY <1>13 DEF SubmissionFault, RequestFault
<1>14. ASSUME NEW x \in Runners, EngineFault(x) PROVE Live'
  BY <1>14 DEF EngineFault
<1> QED
  BY <1>1, <1>2, <1>3, <1>4, <1>5, <1>6, <1>7, <1>8, <1>9, <1>10, <1>11, <1>12, <1>13, <1>14
     DEF Next, RequestStep

Known == Typed /\ Flags /\ Owned /\ Settled /\ DownIsEmpty

LEMMA KnownAlways == Spec => []Known
<1>1. Init => Settled /\ DownIsEmpty
  BY SettledInit DEF Init, DownIsEmpty
<1>2. Typed /\ Flags /\ Owned /\ Settled /\ [Next]_vars => Settled'
  BY SettledStep
<1>3. DownIsEmpty /\ [Next]_vars => DownIsEmpty'
  BY DownStep
<1> QED
  BY <1>1, <1>2, <1>3, OwnedAlways, PTL DEF Spec, Known

\* While no store call rejects, a queued or running record of a service that is up has
\* somebody at work on it, through every crash and restart.
THEOREM LiveIsOwned == ASSUME ~DbFaults PROVE Spec => []LiveRecordHasOwner
<1>1. Init => Live
  BY LiveInit
<1>2. Known /\ Live /\ [Next]_vars => Live'
  BY LiveStep DEF Known
<1>3. Live => LiveRecordHasOwner
  BY DEF Live
<1> QED
  BY <1>1, <1>2, <1>3, KnownAlways, PTL DEF Spec

----------------------------------------------------------------------------
(* The refinement of the life cycle.                                       *)
Edge == exec' = exec \/ exec' \in Lifecycle!Successors(exec)

LEMMA EdgeStep ==
  ASSUME ~DbFaults, Known, Live, [Next]_vars
  PROVE  Edge
<1> USE DEF rows, issued, process, Known
<1>1. ASSUME NEW x \in Runners, EngineStep(x) PROVE Edge
  <2>1. RunnerKnows(x)
    BY DEF Live
  <2>2. CASE SaveResult(x) \/ SaveFailed(x) \/ Attach(x)
    <3>1. exec \in {"pending_confirmation", "running"} \/ Attach(x)
      BY <2>1, <2>2 DEF SaveResult, SaveFailed, RunnerKnows, AheadOfSave
    <3>2. exec' \in {"completed", "partial", "failed"} \/ Attach(x)
      BY <2>1, <2>2 DEF SaveResult, SaveFailed, RunnerKnows, ExecWrite
    <3> QED
      BY <3>1, <3>2 DEF Edge, Attach, Transition, Lifecycle!Successors
  <2> QED
    BY <1>1, <2>2 DEF EngineStep, CheckPolicy, ProviderEnds, OpenSession, ReadState, Finish, Edge
<1>2. ASSUME PersistPending PROVE Edge
  BY <1>2 DEF PersistPending, Live, ExecWrite, Edge, Lifecycle!Successors
<1>3. ASSUME SessionMoves PROVE Edge
  BY <1>3 DEF SessionMoves, Transition, Edge, Lifecycle!Successors
<1>4. ASSUME WorkerStep \/ Restart \/ \E r \in Requests : Promote(r) PROVE Edge
  BY <1>4 DEF WorkerStep, WorkerClaims, WorkerAbandons, Restart, Promote, Transition, Edge,
     Lifecycle!Successors
<1>5. ASSUME Issue \/ Expire \/ Crash \/ UNCHANGED vars PROVE Edge
  BY <1>5 DEF Issue, Expire, Crash, vars, Edge
<1>6. ASSUME NEW r \in Requests, Confirm(r) \/ (RequestStep(r) /\ ~Promote(r)) PROVE Edge
  BY <1>6 DEF Confirm, RequestStep, ClaimRow, LookUp, ExpireRow, ReportRunning, ReportStatus,
     Begin, Refuse, EnqueueReads, Schedule, Edge
<1>7. ASSUME SubmissionFault \/ (\E r \in Requests : RequestFault(r))
             \/ (\E x \in Runners : EngineFault(x))
      PROVE  Edge
  BY <1>7 DEF SubmissionFault, RequestFault, EngineFault
<1> QED
  BY <1>1, <1>2, <1>3, <1>4, <1>5, <1>6, <1>7 DEF Next

\* While no store call rejects, the execution record only walks the edges of the life cycle:
\* every step of the flow is an edge or leaves the record alone.
THEOREM FlowWalksLifecycle == ASSUME ~DbFaults PROVE Spec => LifecycleSpec
<1> DEFINE row == [e \in {Execution} |-> exec]
<1>1. Init => Lifecycle!Init
  BY DEF Init, Lifecycle!Init
<1>2. Known /\ Live /\ [Next]_vars => [Lifecycle!Next]_row
  <2> SUFFICES ASSUME Known, Live, [Next]_vars PROVE [Lifecycle!Next]_row
    OBVIOUS
  <2>1. Edge
    BY EdgeStep
  <2>2. CASE exec' = exec
    BY <2>2
  <2>3. CASE exec' \in Lifecycle!Successors(exec)
    <3>1. row' = [row EXCEPT ![Execution] = exec'] /\ row[Execution] = exec
      OBVIOUS
    <3> QED
      BY <2>3, <3>1 DEF Lifecycle!Next, Lifecycle!Move
  <2> QED
    BY <2>1, <2>2, <2>3 DEF Edge
<1>3. Init => Live
  BY LiveInit
<1>4. Known /\ Live /\ [Next]_vars => Live'
  BY LiveStep DEF Known
<1> QED
  BY <1>1, <1>2, <1>3, <1>4, KnownAlways, PTL DEF Spec, LifecycleSpec, Lifecycle!Spec
=============================================================================
