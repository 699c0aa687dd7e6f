# RAGenius: a TLA+ verification project

RAGenius lets applications answer questions over their own documents and act
through tools and agents. An administrator describes an application in prose; a
compiler turns the prose into a runtime model; a chat session is planned by that
model turn by turn; what a turn wants done is carried out by an execution
service. This directory specifies, model-checks and proves properties of the
parts of that chain in which things happen at once, go wrong halfway, or are
rewritten so often that a test can only sample them.

- `*.tla` are the specifications, `MC*.tla` their instances for TLC, `*.cfg` the
  runs, `*Proofs.tla` the theorems TLAPS checks.
- `PROJECT.json` lists components, runs, mutants, the source lines behind every
  definition, hazards and theorems.

Paths are relative to the repository: `execution/` stands for
`src/ragenius_execution_subsystem/src/`, `skeleton/` for
`src/ragenius_app_skeleton/`, `builder/` for
`src/ragenius_builder/flask_scaffold/`.

## 1. Inventory of the system

### 1.1 Execution subsystem (TypeScript)

A Fastify service with one process and one event loop. Handlers, timers and
message consumers interleave at every `await`; the database (Prisma) survives
the process, everything else is memory. The production wiring (`app.ts`) uses
the Prisma stores; there is no handler for unhandled rejections, so one of those
ends the process.

| Component | State | Operations | Module |
|---|---|---|---|
| **Agent execution queue** `core/execution/agent-execution-queue.ts` | `pending` FIFO, `scheduled`, `active`, `enqueueOperations`, `started` | `enqueue`, `start`, `stop`, `reconcileInterrupted`, `persistAndSchedule`, `drain`, `run` | AgentExecutionQueue |
| **Execution store** `core/execution/*execution-store.ts` | one row per execution | `save` (unconditional upsert), `transition` (conditional update), `get` | ExecutionLifecycle and its users |
| **Confirmation** `core/execution/confirmation-service.ts`, `*confirmation-store.ts`, `api/routes/executions.routes.ts` | one row per confirmation: status, expiry | `issue`, `claim`, `finish`; the confirm route | ConfirmationFlow |
| **Execution engine** `core/execution/execution-engine.ts` | none between requests | `execute`: policy, pause, session or provider call, save, catch | ConfirmationFlow, AgentExecutionQueue |
| **Interactive session manager** `core/interactive/interactive-agent-session-manager.ts` | `active` sessions, expiry timers, buffers; rows of sessions and interactions | `start`, the event handler, `respond`, `cancel`, `shutdown`, `reconcileInterrupted` | InteractiveSession |
| **Skill governance**, receiving side `core/agent-skills/*projection*` | the active revision | `publish` in a serializable transaction | SkillGovernance |
| OpenClaw and Codex adapters (but for what 2.4 has of their `respond`, `cancel` and events), artifact leases, capability resolution, permissions, workflows, CLI providers, discovery | sockets, child processes, leases, none | one call each, seen from here | not modelled (5) |

### 1.2 Application skeleton (Python, FastAPI)

| Component | State | Operations | Module |
|---|---|---|---|
| **Instruction understanding** `backend/app/instruction_understanding_service.py`, `chat_repos.py` | records, reviews, approvals and revisions in memory, snapshots in two roots | compile, review, approve, revise, hydrate | InstructionUnderstanding |
| **Deterministic parser** `workflows/nodes/load_template_registry.py` | none | headings to modules, workflows, blocks, procedures, steps, bundles, orchestration | InstructionDocument, DeterministicContract |
| **Semantic compile** `instruction_understanding_service.py` | none | canonical form, grounding, validation, runtime model | ProviderModel, SemanticGrounding, SemanticCompile |
| **Planner workflow** `workflows/nodes/*.py`, `workflows/runtime_models.py` | the session state of a session, its progress, its messages | load, plan, retrieve, execute, persist; advance and republication in between | InstructionModel, TurnPlanning, TurnResources, TurnExecution |
| **Session runtime document** `backend/app/main.py`, `chat_repos.py` | one JSON document per session, approved snapshots | chat turns, `@exec` turns on threads, look-ups, confirmations, approvals, deletion | SessionRuntime |
| **Uploads** `backend/app/artifact_upload_service.py`, `chat_repos.py` | one row and one staged file per operation | begin, claim, import, analyse, finish, retry, clean-up | ArtifactUpload |
| Chat service, language-model calls, ingestion, RAG pipeline, web client | | | not modelled (5) |

### 1.3 Builder (Python, Flask)

The administrator's pages over one SQLite file. Its governance of Agent skills
(sources, discovered skills, approvals, bindings, local revisions) and their
publication to the execution subsystem (`storage.py`, `agent_skill_*.py`) are
modelled in SkillGovernance; the other pages are forms over a locked file.

### 1.4 How the parts interact

The backend submits executions to the execution subsystem over HTTP and looks
them up later, by the ids it keeps in the session's runtime document
(SessionRuntime models the subsystem as a server that may lose an answer or give
it late). The Builder publishes governance records to the subsystem over HTTP.
The understanding that InstructionUnderstanding publishes is the `model` that
TurnPlanning starts each turn with. The parser's runtime model grounds the
compiler's candidate, and is published itself when there is no compiler. A
turn's state is stored by `persist_run` in the document of SessionRuntime.

### 1.5 What is hard, and what makes it correct

- *interleaving*: duplicate submissions, repeated confirmations, two answers to
  one interaction, two publications, two uploads of one operation, a thread
  beside the event loop. Conditional updates must leave one winner.
- *stale state*: a row, a document or a review is read, something else happens,
  and it is acted upon. What is approved must be what was reviewed, what is
  written back must not undo what others wrote.
- *partial failure and lost answers*: rows are written one after another, HTTP
  answers get lost, a snapshot root cannot be written. Records must agree in the
  end or err to the safe side.
- *crash and restart*: at any await; what is claimed is settled or marked.
- *liveness*: only `drain()` starts items, only timers end waiting, only a sweep
  removes overdue bytes.
- *rewriting by rules*: the compile and the planner rewrite a dozen related
  fields by one rule after another. No target may be left dangling, no step
  lost, no session stored that cannot be loaded.

## 2. The modules

```
abstract      ExecutionLifecycle   InteractionLifecycle   GovernanceRegister
                 ^        ^   ^          ^                      ^
detailed  AgentExecutionQueue |  InteractiveSession       SkillGovernance
                     ConfirmationFlow
          ArtifactUpload   SessionRuntime

          InstructionDocument <- DeterministicContract --+
          ProviderModel <- SemanticGrounding <- SemanticCompile -+- InstructionUnderstanding
          InstructionModel <- TurnPlanning <- TurnResources <- TurnExecution

instances MCAgentExecutionQueue  MCConfirmationFlow  MCInteractiveSession
          MCSkillGovernance  MCArtifactUpload  MCSessionRuntime
          MCInstructionUnderstanding  MCTurnPlanning
proofs    AgentExecutionQueueProofs  ConfirmationFlowProofs  InteractiveSessionProofs
          SkillGovernanceProofs  ArtifactUploadProofs  SessionRuntimeProofs
          InstructionUnderstandingProofs  TurnPlanningProofs
```

One convention holds in all concurrent modules: **an action is a stretch of code
between two points where others may run** (awaits, SQL statements of a thread,
messages), and a program counter per task says where it stands. History variables
(`executorCalls`, `providerCalls`, `answered`, `denied`, `finals`, `last`) count what a
property must bound and are never read by an action. Definitions marked
`Mutant:` are the plausible bugs of section 3; no specification uses them.

### 2.1 ExecutionLifecycle, InteractionLifecycle, GovernanceRegister

Two graphs and a register. An execution row is created once; `queued` goes to
`running` or `failed`; `completed`, `partial`, `failed` and `cancelled` are final.
An interaction goes from `pending` to `resolving` to `resolved`, or back, or ends
`expired` or `cancelled`. The register holds a revision that never goes back,
never runs ahead of the draft, and is never claimed before it is held. The
detailed modules instantiate them over their own variables and are checked and
proved to implement them (`LifecycleSpec`, `InteractionSpec`,
`RegisterSpec`).

### 2.2 AgentExecutionQueue

| Specification | Code |
|---|---|
| `store` | status column of the execution table |
| `op`, `enqueueOperations` | calls of `persistAndSchedule` in flight |
| `pending`, `scheduled`, `active`, `started` | the fields of the class |
| `run[e]` | where `run()` stands; `execute`, `attached`, `catch` are inside the executor |
| `Enqueue`, `ReadExisting`, `SaveQueued`, `PromoteConfirmed`, `Schedule` | `enqueue` and `persistAndSchedule` |
| `Claim`, `RecordFailure`, `Settle` | `run` and the `finally` of `drain` |
| `Drain` | `drain()`: a helper, because the code calls it inside three other steps |
| `Boot`, `ReconcileOne`, `Start`, `Stop`, `Crash` | start-up and shutdown in `app.ts` |
| `Executor...`, `SessionMoves` | what the engine and a live session do to the row of a running item |
| `EnqueueFault`, `ExecutorFaults` | a store call that rejects, before or after its write (`DbFaults`) |

### 2.3 ConfirmationFlow

One execution, from the pause for confirmation to the settled approval. Requests
and the queue's worker are `Runners` of the same engine steps (`CheckPolicy`,
`ProviderEnds`, `OpenSession`, `SaveResult`, ...), because `execute()` is the
same code in both. `late` is the clock against `expiresAt`; each request keeps
its own reading of it, as `claim(now)` does. `kind` and `asyncOn` choose between
sync and async, plain and interactive. Executions share only the places of the
queue, which 2.2 is about, so one is enough.

### 2.4 InteractiveSession

One execution from `start()` to its end. The tasks are `Starter` (`start()` with
its buffer of early events), `Handler` (the consumer of the provider's message
queue, one event at a time), `Responders` (answers), one task per interaction
(its expiry timer) and `Cancellers` (cancel requests and the shutdown).

| Specification | Code |
|---|---|
| `exec`, `session`, `inter` | the three rows |
| `adapter`, `asking` | which adapter drives the session; its map of what it can answer (`pendingApprovals` of OpenClaw) |
| `denied` | history: what the record said when `cancel()` last denied the approval |
| `active`, `armed`, `required`, `buffer` | `active` and its `expiryTimers`, `requiredOccurrenceTypes`, `bufferedEvents` |
| `Claimed` ... `Replay` | `start()` |
| `Begin`, `Create`, `MarkWaiting`, `MarkRow`, `ListPending`, `Settle`, ... | `consumeEvent()` |
| `Claim`, `Look`, `ExpireRow`, `Deliver`, `Contact`, `Answered`, `AnswerCancels`, `Resolve`, `Release`, `Tally`, `ResumeSession`, `ResumeRow` | `respond()` of manager and adapter, and the interaction store |
| `TimePasses`, `Fire`, `Check` | `scheduleInteractionExpiry`, `expireInteraction` |
| `Cancel`, `CancelClose`, `CancelRun`, `Reconcile`, `CancelRead`, `Shutdown` | `cancel()`, `shutdown()` |
| `Close`, `FailSession`, `FailRow`, `FailEnd`, `Abort` | `failAndTerminate`, `failExecution`, in whatever task calls them |
| `Deny`, `AbortRun` | the two halves of the adapter's `cancel()`: a denial for every approval in the map, then the run |
| `ApprovalResolved` | `consumeApprovalResolved()`: the gateway says that an approval was decided |
| `Crash`, `RestartQueue`, `RestartClose`, `RestartFail` | process death, both `reconcileInterrupted()` |
| `ProviderAsks`, `ProviderEnds` | the provider, free to ask, end or be silent |

The store does not reject here (2.2 and 2.3 are about that); the event log is
appended to and never read, so appending is no step of its own; the content of
questions, answers and results is left out except for the answer that cancels.
A cancellation at the provider may be confirmed, refused or fail (`AbortRun`), and any
of its calls may be rejected, which ends it (`Abort`, `CancelRun`); the denials sent by
then stay sent. An entry leaves the map only after the call that answers it has returned
(`Answered`), so `Deny` may meet one that is being answered, or whose answer was taken
by the provider and the call rejected all the same (3.1, 5).

### 2.5 SkillGovernance

| Specification | Code |
|---|---|
| `apps`, `source`, `catalog`, `approval`, `binding` | the tables of `storage.py`; a method under the governance lock is one action |
| `state` | the projection state row: local revision, published revision and digest, status, snapshot |
| `pub[p]` | a publish request: reviewed, checked, waiting, acknowledged, failing |
| `wire`, `head` | what is on its way; the active projection of the execution subsystem |
| `EditSource`, `EditSkill`, `EditBinding`, `EditApplication` | the administrator's edits; each that a projection shows makes a new local revision |
| `Publication` | review, recheck, send, deliver or lose, acknowledge or lose, mark published or failed (`agent_skill_publication.py`) |
| `PreviewState` | what the review page says |

### 2.6 ArtifactUpload

`row` and `staged` are the operation's row and its file; `req` a thread in one of
the three requests (begin, retry, import of an older upload); `sweep` the
clean-up task between its listing and its deletions; `imported`, `flight`,
`analysed` what the execution subsystem and the analyser have. Every SQL
statement, file operation and remote call is a step. `Crash` loses threads.

### 2.7 SessionRuntime

`doc` is the session's runtime document, which every handler reads whole and
writes back whole: `req[r].doc` is its copy and `missed` says that another write
came in between. `loop` is the event loop's current handler, which holds it
except where it awaits; `@exec` turns run on pool threads and do not. `server` is
the execution subsystem per execution, `finals` the final outputs appended to the
messages. The turns that analyse an upload (`main.py:3626` on a pool thread, `:3848` in
its handler) write the document the way a chat turn does and are not modelled.

### 2.8 From instructions to the model of a turn

`InstructionDocument` and `DeterministicContract` translate the deterministic
parser from the tree of headings on. A heading or line carries *marks* for what
the parser's word lists find in it; titles are sets of words; containment of
titles is containment of sets. From there everything is the code's: which
headings are workflows, modules or steps, which files belong to whom, bundles
guessed from runs of lines that "make" something, orchestration targets by best
likeness, defaults. The translation was compared with the Python code on some
3,500 random documents without a difference.

`ProviderModel` is the answer of the compiling language model and its canonical
form, `SemanticGrounding` the rules that complete and rename it by the parser's
contract, `SemanticCompile` the validation and the runtime model that is built.
Which entry of the contract a provider's name stands for is decided by word
families and scores; the models take that decision as a table (`match`). These
modules too were compared with the Python code on random candidates.

`InstructionUnderstanding` is the life of the results: `compiled`, `active`,
`review`, `approval`, `revision` are the repository in memory, `disk` the
snapshots in two roots, `source` the Builder's documents and the deployed parser.
Handlers run on the event loop from end to end, so each is one action. A snapshot is
rewritten in place, so a write that fails leaves the old one, the new one or none that
can be read (`Broken`).

Three differences from the code remain. `compiled_at` is a count here, a clock there,
which may stand still or go back between two records. A file that was cut inside a
character of several bytes is no snapshot here; in the code `read_text` then raises
`UnicodeDecodeError`, which `_load_snapshot_payload` (`:249`) does not catch, and the
request fails. And a procedure of a block `module:...` without steps is an error here
(`RoutesExecute`) and exempt in the code (`:4175`, `:4182`); the grounding (`:2827`) gives
every such procedure its steps.

### 2.9 Turns

`TurnPlanning` plans one session turn by turn: `Plan` is loading, planning and
the write of the user's message, `PersistAnswer` and `PersistState` the later
writes of `persist_run`, `TurnLost` a failure between them, `Advance` the UI's
button, `Republish` a new model. The state (`ses`) has the fields that the
validator of `runtime_models.py` relates. `InstructionModel` holds the look-ups
in the compiled model, among them the stable sort of steps by their order
(`ByOrder`: an order of 0 or none comes last). `TurnResources` is what the planned turn reads: bindings,
artifact gates, resource requests and their two deduplications, and retrieval. Its lists are
told by positions (`Sub`, `Select`, `KeepFirst`, `Sorted`), so that proofs can
reason about them: `KeepFirst` keeps the positions whose key no earlier one has, and `Dedup` keeps the first position of
each resource and role, with what any of the others says (`Merged`).
`TurnExecution` is the plan of actions and `execute_turn_plan`. Texts are sets of
the words the code looks for; a keyword's length is its weight; the planner
model's answer (`shadow`) is free. A turn carries two fields the code has not, for
the properties: `led`, whether the user or the planner model names a step or a module,
and `advances`, whether the user asks to go on.

`ModelsAreCompiled` says what the published models are: a step's identifier tells the
steps of a model apart (`SemanticCompile` refuses anything else), only a bundled step lists
other steps (`runtime_models.py:449`), and an identifier has one order, in every model:
the code builds it as `step:{workflow}:{order}` (`load_template_registry.py:2077`,
`instruction_understanding_service.py:2984`). A compiling model that names its steps
itself is held to this only by its prompt and the grounding. Nothing is assumed of the
numbers themselves: nothing refuses a document whose workflow or module begins with step
3, and the second support module of the instance does. The planner enters a workflow or
procedure at its first step, whatever its number (`FirstSteps`), which `NoStepSkipped` and
`BundleIsEarned`, counting steps by their orders, must and do allow. `Resumable` speaks of
a session that has the title and the order of the step it is stored in (`Chosen`); where
the two are of another place, 3.1, 13 says how.

Two more assumptions are about what a turn reads. `LibraryIsCompiled`: a resource's id is its key in
the dictionary the compiler makes, the stem of its file, so no two share one
(`load_template_registry.py:3570`); a binding's id is `phase:`, `artifact_gate:` or the
like and a slug (`:1014`), and its kind stands for one of four roles
(`planner.py:3499`). `HoldingsAreLists`: the session's uploads, active ids and gates are
lists.

## 3. The runs

All runs exhaust their state space. `CHECK_DEADLOCK` is off except in `runtime`: a
service with nothing to do stops in these models, as requests and revisions are
bounded, and a session whose state cannot be loaded really stops.

| Run | Instance | Properties |
|---|---|---|
| `queue` | 2 executions (1 interactive), 2 callers, 1 place, crashes, fairness | `NoStrandedQueued`, `LifecycleSpec`, `QueuedIsServed`, without rejecting store calls |
| `queue_faults` | 3 executions, 2 callers, 2 places, rejecting store calls, crashes | `ExecutedAtMostOnce`, `ConcurrencyRespected`, `SaveNeverOverwrites` |
| `confirmation` | 3 confirm requests, expiry, crashes, fairness | `LiveRecordHasOwner`, `LifecycleSpec`, `ApprovalIsSettled` |
| `confirmation_faults` | 2 confirm requests, rejecting store calls, crashes | `ProviderAtMostOnce`, `NeverWithoutApproval`, `CompletedMeansCompleted` |
| `session` | 1 interaction, either adapter, 2 answers, given back at most once | `AnsweredOnce`, `CompletedAsked` |
| `session_cancel` | 1 interaction, either adapter, 1 answer task, 1 canceller or shutdown | `CancelledIsConfirmed`, `LifecycleSpec`, `InteractionSpec` |
| `session_restart` | 1 interaction, events before `start()` returns, crashes, fairness, no failed verification | `RestartSettles`, `ExpiryEndsWaiting` |
| `governance` | 1 skill of 1 source, 1 application, 2 contents, 2 publishers, 5 local revisions | `SynchronizedIsInForce`, `RevokedIsNotSelectable`, `SentWasReviewed`, `RegisterSpec` |
| `uploads` | 1 operation, also as an older upload, 2 requests, crashes, fairness | `OneClaimant`, `RetryableHasFile`, `ClaimIsSettled`, `OverdueIsCleaned` |
| `runtime` | 1 execution, 2 requests of every kind, deletion | `LoopHandlersSerial`, `FinalOnce`, `DeletedStaysDeleted` |
| `understanding` | 2 texts, 2 parser versions, 3 records; 288 documents, 1,368 pairs of a candidate and a document | `WhatRunsIsSound`, `ApprovalIsOfReviewed`, `RestartKeepsPublished` |
| `turns` | 2 models, 4 messages, 7 planner answers, 7 files, 3 bindings | `Resumable`, `SlotsKept`, `NoStepSkipped`, `BundleIsEarned`, `FollowupReadsItsOwn`, `RequiredHoldsTheTurn`, `GateStaysShut` |

Each concurrent module has a type invariant, `TypeOK`, which is a theorem (section 4)
and no property of a run. `MCTurnPlanning` also checks three named assumptions over
bounded inputs: `DedupIsSound` (the deduplication of requests keeps a
representative of each) and `ExecutionIsSound` (plans of up to two actions: no
output is lost, no gate opens without an executor, validation needs an earlier
draft), and `RequiredIsLostAmongAlternatives`, an instance of 3.1, 18.

**Bounds.** Two requests race for every conditional update; a third adds only a
second loser, which `confirmation` includes. One place makes the queue full with two
executions; two places with three let one be freed while the other is busy.
Confirmations concern one execution, interactions one session and uploads one row
each, so single ones lose nothing. An answering task may be used again after it
has ended, so one also gives late and repeated answers. `session_cancel` leaves the
history variables, which no action reads, out of what tells two states apart
(`WithoutHistory`). `MaxRounds` bounds how often an interaction is given back after a
failed verification; one round suffices to lose its timer. Five local revisions are what it takes to make a source, discover
a skill, approve it, bind it and revoke it; a publication may start at each. Three
records let an older snapshot in one root meet a newer one in the other, beside an
attempt that failed. The documents of `understanding` tell one workflow in six ways
and one module in four, beside a title like the first, a follow-up module with an
orchestration, and a mode; the candidates combine the modes with what a compiler gets
wrong in steps, bundles, routes, roles, gates, modules and sequences. The two models of
`turns` have an interactive step before a bundle, in a workflow owned by a block and
in one of the hybrid planner's, with two support modules, a follow-up module, a
logic-only rule and one that leads to a support module; the resources are asked in every state that planning reaches.

**Fairness** (`FairSpec`). Weak fairness of every started task: the event loop runs
what is ready, the database answers, and every provider call returns or times out
(`rpcTimeoutMs`, `initializationTimeoutMs`, the HTTP client's and the CLI's
timeouts). Time passes, timers fire, and the clean-up task repeats. No fairness is
given to clients, users, the provider, crashes or restarts, so every liveness
property exempts a process that dies. SkillGovernance, SessionRuntime,
InstructionUnderstanding and the turns have no fairness: nothing there runs unless
a user asks.

**Mutants.** Each property has a mutant next to the definition it changes (comment
`Mutant:`), a plausible bug under which TLC finds the property violated: a dropped
condition of an update, an off-by-one, a forgotten `drain()` or timer, a restart that
looks at one status only, a snapshot read from the first root, a route that is not
validated, a bundle that ends with its first step, a request that loses its requirement
when it is merged, a gate that any upload opens.

### 3.1 Where the code and its documents or its own intent part

These were met while modelling. The properties above are stated for what does
hold, and name the exception where there is one.

*Executions and sessions.*
1. A process that dies after an approval was claimed and before the row says queued or
   running leaves the execution `pending_confirmation` with a consumed confirmation;
   the restart does not look at it (`LiveRecordHasOwner` is about queued and running rows).
2. Around the expiry, a request can be told `expired` although its own update found
   the row claimed by another one, whose execution runs.
3. An answer may overtake the handler between the creation of an interaction and its
   marking as waiting; the execution then waits with nothing open.
4. A timer that fires while an answer is being verified finds the record `resolving`,
   and is gone when the failed verification gives it back; `session_restart` leaves
   this out by `MaxRounds = 0`.
5. The engine's catch upserts `failed` over a completed row when the log line after
   it rejects; a queued row whose scheduling rejected waits for the next restart;
   nothing fails an expired confirmation; a failed run leaves its interaction pending.
   OpenClaw's `cancel()` denies every approval still in its map
   (`openclaw-gateway-adapter.ts:370`): the provider hears an answer and a denial when
   the answer's call is in flight, or was rejected after the provider had taken it (a
   timeout). `AnsweredOnce` says what holds: never after the record says `resolved`.
   And its client consumes one frame after another (`openclaw-gateway-client.ts:224`): a
   handler that fails the execution waits for the response to its own call, which is
   queued behind it, until the call times out; with an approval pending that call is the
   denial, and `chat.abort` is never sent.
6. An `@exec` turn on a thread writes back the document it read before the
   execution, and undoes what others wrote, against rule 3 of
   `docs/2026-06-03-ragenius-content-execution-split-contract-v3.md`; and `main.py:4105`
   confirms with the session's latest confirmation id, not the one that was shown.

*Publication.*
7. The review page compares the records with the last *acknowledged* snapshot only. When a
   publication is activated and its acknowledgment is lost, and the edit is then taken
   back, the page says "published" while the execution subsystem has the other
   records in force (six local revisions; `SynchronizedIsInForce` is about the stored
   status, which is right).
8. `delete_application()` makes no local revision: published bindings stay in force.

*Understanding.*
9. Without a compiler a record is published unvalidated, although
   `docs/compiled-instruction-understanding-query-planner-runtime-contract.md:100` says
   that only a validated snapshot may become active.
10. Parser: titles of which one contains the other match one workflow, which gives two
    blocks and procedures one id, or one workflow no procedure; a number used twice in
    a list gives two steps one id, and since bundle data is kept by id, a bundled step
    may be in nobody's bundle. `Plain` excludes these documents. A file named on the numbered
    line itself is not that step's resource.
11. Validation counts only bundles' own entries; an interactive step that lists a
    bundled one is what the planner picks (`Claimed`). Routing rules nested in
    interaction-logic blocks are never validated. Steps of a procedure nobody knows are
    dropped without an error in intent modes.
12. A provider workflow whose steps carry no order is numbered from 0, and the planner
    sorts `order or 9999`: its first step comes last.

*Turns.*
13. In the hybrid planner, a follow-up or logic-only turn after a bundle ran
    (`planner.py:6286`, `6456`) drops the mode and keeps `bundled_execution_completed`;
    the next load is refused by the validator, and every later one. So does a follow-up turn
    while a support module's step is active, and a turn that switches the support
    module. So may a turn that chooses no step, one routed out of scope for instance,
    while the rules lead to a support module: its first step is opened with the order
    and the title of the place before it (`planner.py:6447`, whose activation brings
    neither). `Resumable` names these cases; the last one was met in an attempt to
    prove it, and the instance has the rule that reaches it.
14. The UI's advance changes `workflow_progress` only; a compiled procedure that owns
    the block returns to the session's own step.
15. With exactly one support module every follow-up id is taken for it, so follow-ups
    never activate. One answered word opens a bundle although the threshold is three.
    An interactive step with bundled steps makes the turn raise.
16. An unsatisfied gate without resources asks for nothing and blocks nothing; a gate
    with resources stays blocked unless an upload has that resource's id, name or role; a
    gate satisfied earlier whose upload is gone blocks
    (`docs/superpowers/plans/2026-05-05-generic-phase-resource-binding-contract.md:346`).
    "One of" selects a single file only in the requests, the load plan takes all. An
    upload whose name is a library file's is merged with it and not read as evidence.
    Bindings of the block that the session leaves still match.
    An instruction gate asks for nothing in a turn of a follow-up module (`Held`).
17. Assembly and validation are planned before the answer, which is never stored as an
    output, so they never find their source; a gate opened by a tool's artifact is
    forgotten by the next turn (same document, `:413`).
18. A required artifact can be lost among alternatives. Merged requests keep the binding
    of the first (`planner.py:5280`), and of a binding without a group retrieval keeps only the
    best request (`retrieve.py:202`). When a starter or phase binding offers the gate's
    resource beside another one that has a document, the gate's requirement goes to that
    binding, the other resource is chosen, and the turn reads on, although the same document
    (`:364`) asks to short-circuit retrieval. It was met in an attempt to prove
    `RequiredHoldsTheTurn` without its hypothesis `Alone`, and TLC evaluates an instance of it
    (`RequiredIsLostAmongAlternatives`); the state that the turn stores still requires
    the artifact (`GateStaysShut`).

## 4. The proofs

TLAPS checks these theorems for every value of the constants: every number of
executions, callers, places, confirm requests, interactions, answers, publishers,
revisions, uploads and request threads, every set of models and messages. They assume
what the modules' named ASSUMEs say: `Concurrency` positive (`config/env.ts` demands
it), a finite set of executions, tasks that are told apart by their names, and the
special values (`None`, `Nothing`, `NoExec`) distinct from the others, as `None` and
`null` are in the code. Executions are finite only because the proof counts
activations. Bounds such as `MaxRevision` and `MaxRounds` are any natural number.

Every proof has the same shape. None of the properties is inductive as it stands; an
invariant is stated as a conjunction of named parts (TLC checked it on the runs'
instances first), one lemma per helper says what the helper does to a task or a row,
and the step has one case per action.

**AgentExecutionQueueProofs**

| Theorem | Statement |
|---|---|
| `TypeCorrect` | `Spec => []TypeOK` |
| `AtMostOnce` | `Spec => []ExecutedAtMostOnce` |
| `SaveIsFirst` | `Spec => []SaveNeverOverwrites` |
| `PlacesBounded`, `OnePlaceEach`, `NoIdlePlace` | `Spec => []ConcurrencyRespected`, `[]NoDoubleSchedule`, `[]WorkConserving` |
| `Refinement` | `~DbFaults` implies `Spec => LifecycleSpec` |
| `NothingStranded` | `~DbFaults` implies `Spec => []NoStrandedQueued` |

The argument has two inductive invariants. `StoreInv` relates the rows to the
tasks: an item that is executing has a row that is no longer queued and was
claimed once, an operation in flight is the only one for its execution and its
id is in `enqueueOperations`, and a caller about to save has seen no row and
nobody else can create one. None of the properties is inductive alone:
at-most-once needs that a claimed row never says `queued` again, which needs that
the upsert is first, which needs the table of operations. `Accounting` relates
`pending`, `scheduled`, `active` and the activations; `DrainAccounts` proves once
that draining preserves it, and every action that drains cites that lemma. For the
refinement, `FaultFree` adds that without rejecting store calls the engine never
reaches its catch after a save; each action then is an edge of the graph or a
stutter. For `NothingStranded`, `StrandInv` says which operation will still schedule a
queued row (`OpsOnTheWay`), that the restart's list has every row the dead process left
queued, and that a row stops saying queued before its item leaves `run()`. The
hypothesis is what the code needs: when the look-up after a save is rejected, nobody
schedules the row before the next restart (3.1, 5).

**ConfirmationFlowProofs**

| Theorem | Statement |
|---|---|
| `TypeCorrect` | `Spec => []TypeOK` |
| `ApprovedOnce` | `Spec => []ProviderAtMostOnce` |
| `ApprovedFirst` | `Spec => []NeverWithoutApproval` |
| `CompletedIsEarned` | `Spec => []CompletedMeansCompleted` |
| `LiveIsOwned` | `~DbFaults` implies `Spec => []LiveRecordHasOwner` |
| `FlowWalksLifecycle` | `~DbFaults` implies `Spec => LifecycleSpec` |

The strengthening is `Owned`. `Carried`: the approved execution is carried by at most
one actor, a request between its claim and its answer or the worker, and only when
the confirmation row has been consumed. `ActsOnce`: whoever is still ahead of the
provider call finds `providerCalls = 0`. The claim is the only step that creates a
carrier, and it needs a pending row; the hand-over to the queue moves the carrier.
`Settled` adds that a runner about to record the outcome "completed" has a completed
row before it, which no one else can change. `Live` says, for each place a request or
a runner can stand at, what the row says; with it every write of the row is an edge.
Both need `~DbFaults`: a rejected call in the engine's catch leaves `running` without
an owner, and the catch after a save turns `completed` into `failed`.

**InteractiveSessionProofs**

| Theorem | Statement |
|---|---|
| `SessionInvariant`, `TypeCorrect` | `Spec => []SessionInv`, `[]TypeOK` |
| `AnswersAreSingle` | `Spec => []AnsweredOnce`, with any number of answers, cancellations and rejected calls |
| `CompletionIsEarned`, `CancellationIsConfirmed` | `Spec => []CompletedAsked`, `[]CancelledIsConfirmed` |
| `RestartIsClean` | `Spec => []RestartSettles` |
| `SessionWalksLifecycle`, `SessionWalksInteractions` | `Spec => LifecycleSpec`, `Spec => InteractionSpec` |

`SessionInv` has a part for every kind of task (`TaskInv`) and one for every row.
`AnswerInv` is what makes answers single: a row that says `resolving` names one task,
that task is the only one between its claim and the row's release, the provider has
been given an answer only after its call, and an approval leaves the adapter's map before
its record says `resolved`, so no cancellation finds it there. In the run `session` the
denials come of failures after rejected calls; the theorem has cancel requests and
shutdowns beside any number of answers. `StopInv` and `OpenInv` relate the rows to the
provider's run: `cancelled` is written only by a task that saw the run stop. The two
refinements hold with crashes and early events: each conditional update finds what its
condition says or does nothing, and the unconditional ones are covered by the invariant.

**SkillGovernanceProofs**

| Theorem | Statement |
|---|---|
| `GovInvariant`, `TypeCorrect` | `Spec => []GovInv`, `[]TypeOK` |
| `ReviewedIsSent` | `Spec => []SentWasReviewed` |
| `SynchronizedHolds`, `RevocationHolds` | `Spec => []SynchronizedIsInForce`, `[]RevokedIsNotSelectable` |
| `Refinement` | `Spec => RegisterSpec` |

A projection that any publisher holds, has sent or has had activated is at or below the
local revision (`ProjectionsInv`), and one of the current revision still shows the
records of this moment, since every edit that a projection shows makes a new revision;
only the bindings of a deleted application may go without (3.1, 8), which is the
exception `SynchronizedIsInForce` makes. An acknowledgment is stored only for the
current revision, and the active revision never goes back, so what is stored as
synchronized is in force.

**ArtifactUploadProofs**

| Theorem | Statement |
|---|---|
| `UploadInvariant`, `TypeCorrect` | `Spec => []UploadInv`, `[]TypeOK` |
| `ClaimIsExclusive` | `Spec => []OneClaimant` |
| `BytesAreKept` | `Spec => []RetryableHasFile` |

The claim is the only step into `preparing` and needs a row that does not say so, and
whoever is about to remove a file has closed the row before (`RemovesWhatIsClosed`), so
no request can claim it again.

**SessionRuntimeProofs**

| Theorem | Statement |
|---|---|
| `RuntimeInvariant`, `TypeCorrect` | `Spec => []RuntimeInv`, `[]TypeOK` |
| `HandlersAreSerial` | `Spec => []LoopHandlersSerial` |
| `FinalIsKeptOnce` | `Spec => []FinalOnce` |
| `NoLateResurrection` | `Spec => DeletedStaysDeleted` |

`LoopInv` says which stretches of which handlers no await divides: who stands in one
holds the loop, and a copy read in it has missed nothing. The end of an agent chat looks
for its final output among the messages and appends it in one step, whoever else does.

**InstructionUnderstandingProofs**

| Theorem | Statement |
|---|---|
| `TypeCorrect` | `Spec => []TypeOK` |
| `NewestIsBroughtBack` | `Spec => []RestartKeepsPublished` |
| `FindingsAreOfApproved` | `Spec => []ApprovalIsOfReviewed` |
| `OnlyPublishedRuns` | `Spec => [](HasActive => ...)`: the active record carries an outcome that is published, and is valid where a compiler was attached |

The control of the records is proved: records are numbered in order, the newest valid
snapshot is in the root it was saved to (`LastIsKept`), a review is of the active record
as long as the hashes it saw are the present ones. `OnlyPublishedRuns` adds that no
sequence of recompiles, revisions, approvals, failed writes and restarts puts anything in
force that a compile did not come to and `_should_publish_compiled_record` would not let pass.
That such an outcome is sound, `WhatRunsIsSound`, is a statement about folds and
recursive functions over documents; it is only model-checked, by the run `understanding` on
its documents and candidates.

**TurnPlanningProofs**

| Theorem | Statement |
|---|---|
| `NoSlotIsLost` | `Spec => []SlotsKept` |
| `StoredStepResumes` | `Spec => []Resumable` |
| `UnledTurnsKeepOrder` | `Spec => []NoStepSkipped` |
| `BundlesAreEarned` | `Spec => []BundleIsEarned` |
| `FollowupsReadTheirOwn` | `Spec => []FollowupReadsItsOwn` |
| `RequiredArtifactsHold` | `Spec => []RequiredHoldsTheTurn` |
| `GatesStayShut` | `Spec => []GateStaysShut` |

The first needs no invariant of the session: the planner's choices never touch what the
user has said, a turn's state gets the slots of all of it (`ContextSlots`), and the
modules laid over it keep them (`ModulesKeepSlots`).

The next three rest on `ModelsAreCompiled` (section 2.9) and on one
inductive invariant, `PlanInv`. `Resumable` is not inductive: whether the next turn's
state is valid depends on where the progress, a published model and a module's
activation say the session is, and each of the three may be older than the others. So
`InPlace` says that the order the published models give the stored step is the stored
order, or the activation's where that is of the same step, and that outside every step no
activation is left that the next turn could follow into one; and `Settled`, that inside a
step whose title and order are the session's, and whose module was not switched, mode,
bundle, activation and place relate as the validator asks (`Sound`). Both hold of the
stored state and of the one about to be stored, so a republication or a lost write changes nothing. TLC checked the invariant on the instance of `turns` before it was
proved. The proof follows a turn: what is loaded (`SoundLoads`), the workflow
(`ChooseWorkflowGood`), the step (`ChooseStepInGood`), the fields laid out for it
(`ContextFields`), the three kinds of modules (`SupportLaid`, `FollowupLaid`,
`LogicLaid`), and the stored state (`PlanLands`).

`NoStepSkipped` and `BundleIsEarned` are about one turn from an `InPlace` state
(`UnledTurnSkipsNothing`, `UnledTurnEarnsItsBundle`): every way to a step that nobody named
is a first step, the stored place, the successor of one of them, or a module that keeps the
order. None of the three asks anything of the numbers of a document's steps. A gate that is satisfied stays so as slots only grow
(`GateStaysSatisfied`, `MoreSlots`).

The last three are about what a turn asks for and does, from `LibraryIsCompiled` and
`HoldingsAreLists`. They need no invariant of the session: they hold of every turn, wherever the
session is. The first two follow the requests from the bindings
(`AskedBy`, `ActivationAsks`, `ScopeAsks`), the place (`PlaceAsks`), the uploads
(`UploadsAsk`) and the module (`ModuleAsks`) through both deduplications to what is loaded
(`LoadedWasAsked`) and what is chosen among alternatives (`AlternativesKeepBindings`).
For `FollowupsReadTheirOwn`: every guidance request left when the turn ends in a
follow-up module is one of its own, since the step's are dropped, and merging only joins
requests that name one resource in one role (`MergedSays`). For
`RequiredArtifactsHold`: a request for the gate's resource survives (`DedupIs`), is required, and
has the gate's binding, as nobody else's binding asks for it; that binding is
active and has no group, so one of its requests is chosen, all of them are required, and no
upload is any of them (`MissingHolds`).

For `GatesStayShut`: the turn begins with the gates of a binding that waits required and not
satisfied (`ActivationCloses`); each request then replaces or adds one gate and
keeps what is known of its artifact (`SyncCloses`, `RequestsClose`); and the actions of a
plan name no artifact role and have no executor but the built-in assembler and validator
(`ActionsAre`), so that neither what the plan claims of them nor what
they return touches a gate (`ClaimsKeep`, `ApplyKeeps`, `PerformKeeps`). The executor's
loops are folds, whose recursion is over sets of positions: `FoldExists` proves that it
defines a function, `FoldSteps` gives its value at each next position, and `Upwards` carries a
property along, again by the least position at which it would fail. The theorem is about the
plans that `planner.run` makes; what an executor registered by the embedding application
could say of a role is external and not covered.

All three rest on lemmas about lists: keeping positions (`SubIsList`, `FirstsAreKept`),
concatenation, and flattening (`FlatIsList`, whose recursion is proved to define a
function by the least position at which it would fail, `ChainExists`).

The lookups are proved from their definitions: sorting by rank is a permutation that keeps
equal orders in place, and its first element is a least one (`SortedList`,
`SortedFirst`); a step is found by its identifier (`StepDefinitions`,
`ProcedureStepsFound`).

**Only model-checked**

- Liveness (`QueuedIsServed`, `ApprovalIsSettled`, `ExpiryEndsWaiting`, `ClaimIsSettled`,
  `OverdueIsCleaned`): temporal reasoning with fairness and ENABLED is beyond this prover.
- What the parser and the compiler's rules compute for every input, `WhatRunsIsSound` with
  it, and the values
  the executor's outputs take: induction over data, which the installed provers cannot do.

## 5. Not modelled

| Part | Why |
|---|---|
| The chat level of the session manager (follow-ups, idle timer, restored chat sessions, launches) and the chat-turn store | the largest thing left; would compose with InteractiveSession through the session row |
| OpenClaw's socket, reconnection and sequence gaps; the inside of the Codex adapter | stand behind an interface that InteractiveSession leaves free to answer, reject, end and cancel |
| Artifact leases against `deleteIfUnused` | a small reference count; the engine's acquire and release are left out with it |
| Permissions, workflows and capability resolution of the execution subsystem | pure decision functions |
| CLI providers, artifact files, discovery, schemas, authentication | files and child processes behind one call |
| Phase bindings, the older list of instruction blocks and the compatibility projection of the parser | derived lists for older readers; the bindings are an input of TurnResources |
| Word lists, likeness scores, prompts, query wording and its retry, the source of an answer, message summaries | language, not control; the models take their outcome as input |
| Chat service, language-model calls, ingestion, RAG pipeline | calls and sequential pipelines |
| Web client, other pages of the Builder, packaging, demo data | user interface, forms and prose |

What is worth proving next: abstract specifications of an upload's row and of the
execution lane of the runtime document, and the refinements of them; the executor's side of
2.2 as an abstraction of the engine of 2.3, so that the theorems of both speak of one
execution from its submission to its end.
