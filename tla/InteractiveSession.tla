------------------------- MODULE InteractiveSession -------------------------
(***************************************************************************)
(* One execution driven by InteractiveAgentSessionManager: its start, the  *)
(* events of the provider, the answers of users to its interactions, the   *)
(* expiry timers, cancellation, shutdown, a crash and the restart.  Every  *)
(* stretch between two awaits is an action; what runs between them, a      *)
(* task: the start, the handler of the provider's queue of messages, an    *)
(* answer, the expiry of an interaction, a cancellation.  Sessions of      *)
(* different executions share nothing.  A chat-level session, which        *)
(* outlives its first run, is not in this module.                          *)
(***************************************************************************)
EXTENDS Integers, Sequences

CONSTANTS
  Interactions,  \* what the provider may ask, each at most once
  Required,      \* the interactions whose type must occur before completion
  Responders,    \* POST .../responses requests, by idempotency key
  Cancellers,    \* POST .../cancel requests, and the shutdown
  Handler,       \* the consumer of the provider's message queue
  Starter,       \* the start() called by the engine
  Execution,     \* the execution
  MaxRounds,     \* bound: how often an interaction is given back
  Early,         \* TRUE: events may come before start() has returned
  Crashes        \* TRUE: the process may die

ASSUME TasksAssumption ==
  /\ Required \subseteq Interactions
  /\ Handler # Starter
  /\ {Handler, Starter} \cap (Interactions \cup Responders \cup Cancellers) = {}
  /\ Interactions \cap (Responders \cup Cancellers) = {}
  /\ Responders \cap Cancellers = {}
ASSUME BoundsAssumption == MaxRounds \in Nat /\ Early \in BOOLEAN /\ Crashes \in BOOLEAN

VARIABLES
  exec,      \* status column of the execution row
  session,   \* state column of the agent session row, "none" without a row
  inter,     \* inter[i]: the interaction row [state, by, round]: its state, the
             \* idempotency key that claimed it, how often it was given back
  late,      \* the interactions whose expiresAt the clock has passed
  active,    \* this.active has the execution
  armed,     \* the interactions with an expiry timer
  required,  \* requiredOccurrenceTypes of the active session
  task,      \* task[t]: where task t stands
  buffer,    \* bufferedEvents of start()
  events,    \* the provider's events on their way to the handler
  adapter,   \* which adapter drives the session: "codex" or "openclaw"
  run,       \* the provider's run: "none", "running", "ended", "aborted", "lost"
  unasked,   \* what the provider has not asked yet
  asking,    \* the adapter's map of requests it can answer
  answered,  \* history: how often the provider was given an answer to i
  denied,    \* history: the state of i's record when cancel() last denied i to the
             \* provider, "never" before
  server     \* "up", "down", "booting", "closing", "restarted"

rows     == <<exec, session, inter>>
memory   == <<active, armed, required>>
provider == <<adapter, run, unasked, asking, answered, denied>>
vars == <<rows, late, memory, task, buffer, events, provider, server>>

\* An interaction's expiry is a task of its own, named after it.
Tasks == Interactions \cup Responders \cup Cancellers \cup {Handler, Starter}
Idle  == [pc |-> "idle", on |-> "none", said |-> "none", late |-> FALSE,
          round |-> 0, live |-> FALSE, told |-> {}]
NewRow == [state |-> "none", by |-> "none", round |-> 0]

Steps ==
  {"idle", "launch", "open", "consume", "replay", "create", "mark", "mark_row", "list", "settle",
   "settle_row", "stop", "stop_row", "settle_end", "close", "fail", "fail_row", "fail_end", "abort",
   "claim", "look", "expire", "deliver", "contact", "answered", "resolve", "release", "tally",
   "resume", "resume_row", "check", "cancel_close", "cancel_run", "reconcile", "cancel_read"}
TaskRecord ==
  [pc : Steps, on : Interactions \cup {"none"},
   said : {"none", "answer", "cancel", "completed", "partial", "failed"},
   late : BOOLEAN, round : 0..MaxRounds, live : BOOLEAN,
   told : SUBSET Interactions]
Events == [kind : {"asked"}, on : Interactions]
          \cup [kind : {"ended"}, status : {"completed", "partial", "failed"}]
          \cup [kind : {"cancelled", "invalid"}]

Lifecycle   == INSTANCE ExecutionLifecycle
                 WITH Executions <- {Execution}, status <- [e \in {Execution} |-> exec]
Interaction == INSTANCE InteractionLifecycle
                 WITH state <- [i \in Interactions |-> inter[i].state]
Terminal == Lifecycle!Terminal
Working  == {"running", "waiting_for_interaction"}
States   == {"none"} \cup Interaction!Open \cup Interaction!Final
Row      == [state : States, by : Responders \cup {"none"}, round : 0..MaxRounds]
Opening  == {"launch", "open", "consume"}

----------------------------------------------------------------------------
(* Tasks and rows.                                                         *)
Goto(t, pc) == task' = [task EXCEPT ![t].pc = pc]
Stop(t)     == task' = [task EXCEPT ![t] = Idle]

\* What follows a consumed event, and a failed execution, in task t.
Back(t)  == IF t = Starter THEN "replay" ELSE "idle"
After(t) == IF t \in Responders THEN "resolve" ELSE Back(t)
Return(t, pc) ==
  task' = [task EXCEPT ![t] =
             IF pc = "resolve" THEN [@ EXCEPT !.pc = pc] ELSE [Idle EXCEPT !.pc = pc]]

\* ExecutionStore.transition(): conditional on the current status.
Transition(from, to) == exec' = IF exec \in from THEN to ELSE exec

\* updateSessionState(): unconditional.
SetSession(state) == session' = state

\* AgentInteractionStore.cancelPending().
CancelPending ==
  inter' = [i \in Interactions |->
              IF inter[i].state \in Interaction!Open
                THEN [inter[i] EXCEPT !.state = "cancelled"] ELSE inter[i]]

SetState(i, state) == inter' = [inter EXCEPT ![i].state = state]

ClearActive == active' = FALSE /\ armed' = {} /\ required' = {}

\* failAndTerminate(): it remembers the active session before its first await.
Terminate(t) == task' = [task EXCEPT ![t] = [Idle EXCEPT !.pc = "close", !.live = active]]

\* failExecution() alone leaves the interactions and the provider as they are.
FailOnly(t) == task' = [task EXCEPT ![t] = [Idle EXCEPT !.pc = "fail"]]

Init ==
  /\ exec = "none" /\ session = "none"
  /\ inter = [i \in Interactions |-> NewRow]
  /\ late = {} /\ active = FALSE /\ armed = {} /\ required = {}
  /\ task = [t \in Tasks |-> Idle]
  /\ buffer = <<>> /\ events = <<>>
  /\ adapter \in {"codex", "openclaw"}
  /\ run = "none" /\ unasked = Interactions /\ asking = {}
  /\ answered = [i \in Interactions |-> 0] /\ denied = [i \in Interactions |-> "never"]
  /\ server = "up"

----------------------------------------------------------------------------
(* The steps of failAndTerminate() and failExecution(), in any task.       *)
Close(t) ==
  /\ task[t].pc = "close"
  /\ CancelPending
  /\ Goto(t, "fail")
  /\ UNCHANGED <<exec, session, late, memory, buffer, events, provider, server>>

FailSession(t) ==
  /\ task[t].pc = "fail"
  /\ IF session = "none" THEN UNCHANGED session ELSE SetSession("failed")
  /\ Goto(t, "fail_row")
  /\ UNCHANGED <<exec, inter, late, memory, buffer, events, provider, server>>

\* Mutant: the row is written whatever its status is.
FailRowAlways(t) ==
  /\ task[t].pc = "fail_row"
  /\ exec' = "failed"
  /\ Goto(t, "fail_end")
  /\ UNCHANGED <<session, inter, late, memory, buffer, events, provider, server>>

FailRow(t) ==
  /\ task[t].pc = "fail_row"
  /\ Transition(Working, "failed")
  /\ Goto(t, "fail_end")
  /\ UNCHANGED <<session, inter, late, memory, buffer, events, provider, server>>

FailEnd(t) ==
  /\ task[t].pc = "fail_end"
  /\ ClearActive
  /\ Return(t, IF task[t].live THEN "abort" ELSE Back(t))
  /\ UNCHANGED <<rows, late, buffer, events, provider, server>>

\* adapter.cancel() of OpenClaw first denies every approval that its map holds,
\* those that come while it does so included.
ToDeny(t) == IF adapter = "openclaw" THEN asking \ task[t].told ELSE {}

Deny(t) ==
  /\ task[t].pc \in {"abort", "cancel_run"}
  /\ \E i \in ToDeny(t) :
       /\ denied' = [denied EXCEPT ![i] = inter[i].state]
       /\ task' = [task EXCEPT ![t].told = @ \cup {i}]
  /\ UNCHANGED <<rows, late, memory, buffer, events, adapter, run, unasked, asking, answered, server>>

\* Then the provider stops, or not; Codex reports it as an event.
AbortRun(t) ==
  /\ ToDeny(t) = {}
  /\ asking' = IF adapter = "openclaw" THEN {} ELSE asking
  /\ \/ UNCHANGED <<run, events>>
     \/ /\ run = "running" /\ run' = "aborted"
        /\ \/ UNCHANGED events
           \/ adapter = "codex" /\ events' = Append(events, [kind |-> "cancelled"])
  /\ UNCHANGED <<adapter, unasked, answered, denied>>

\* A call of cancel() that is rejected ends it; failAndTerminate() does not mind.
Abort(t) ==
  /\ task[t].pc = "abort"
  /\ AbortRun(t) \/ UNCHANGED <<events, provider>>
  /\ Return(t, Back(t))
  /\ UNCHANGED <<rows, late, memory, buffer, server>>

FailStep(t) == Close(t) \/ FailSession(t) \/ FailRow(t) \/ FailEnd(t) \/ Deny(t) \/ Abort(t)

----------------------------------------------------------------------------
(* start(), called when the engine has claimed the execution.              *)
Claimed ==
  /\ server = "up" /\ exec = "none"
  /\ exec' = "running"
  /\ Goto(Starter, "launch")
  /\ UNCHANGED <<session, inter, late, memory, buffer, events, provider, server>>

\* The preflight may refuse; adapter.start() may throw, and then the engine
\* writes the failure.
Launch ==
  /\ task[Starter].pc = "launch"
  /\ \/ FailOnly(Starter) /\ UNCHANGED run
     \/ run' = "running" /\ Goto(Starter, "open")
     \/ UNCHANGED run /\ Goto(Starter, "fail_row")
  /\ UNCHANGED <<rows, late, memory, buffer, events, adapter, unasked, asking, answered, denied, server>>

OpenSession ==
  /\ task[Starter].pc = "open"
  /\ SetSession("running")
  /\ active' = TRUE /\ required' = Required
  /\ Goto(Starter, "consume")
  /\ UNCHANGED <<exec, inter, late, armed, buffer, events, provider, server>>

Consume ==
  /\ task[Starter].pc = "consume"
  /\ Goto(Starter, "replay")
  /\ UNCHANGED <<rows, late, memory, buffer, events, provider, server>>

StartStep == Launch \/ OpenSession \/ Consume

----------------------------------------------------------------------------
(* The provider, and consumeEvent() in the handler of its queue and in the *)
(* loop of start() that replays what arrived before the session was open.  *)
Emit(e) == events' = Append(events, e)
Acting  == server = "up" /\ run = "running" /\ (Early \/ task[Starter].pc = "idle")

ProviderAsks(i) ==
  /\ Acting /\ i \in unasked
  /\ unasked' = unasked \ {i}
  /\ Emit([kind |-> "asked", on |-> i]) \/ Emit([kind |-> "invalid"])
  /\ UNCHANGED <<rows, late, memory, task, buffer, adapter, run, asking, answered, denied, server>>

ProviderEnds ==
  /\ Acting
  /\ run' = "ended"
  /\ \E s \in {"completed", "partial", "failed"} : Emit([kind |-> "ended", status |-> s])
  /\ UNCHANGED <<rows, late, memory, task, buffer, adapter, unasked, asking, answered, denied, server>>

\* Task t starts to consume e.
Begin(t, e) ==
  CASE e.kind = "asked"     -> task' = [task EXCEPT ![t].pc = "create", ![t].on = e.on]
    [] e.kind = "ended"     -> task' = [task EXCEPT ![t].pc = "list", ![t].said = e.status]
    [] e.kind = "cancelled" -> Goto(t, "stop")
    [] e.kind = "invalid"   -> Terminate(t)

\* The adapter notes what it can answer; emit() buffers, drops or consumes.
Receive ==
  /\ task[Handler].pc = "idle" /\ events # <<>>
  /\ LET e == Head(events) IN
       /\ asking' = IF e.kind = "asked" THEN asking \cup {e.on} ELSE asking
       /\ \/ /\ task[Starter].pc \in Opening
             /\ buffer' = Append(buffer, e) /\ UNCHANGED task
          \/ /\ task[Starter].pc \notin Opening /\ UNCHANGED buffer
             /\ IF active THEN Begin(Handler, e) ELSE UNCHANGED task
  /\ events' = Tail(events)
  /\ UNCHANGED <<rows, late, memory, adapter, run, unasked, answered, denied, server>>

\* consumeApprovalResolved(): OpenClaw tells that an approval was decided, by whomever.
ApprovalResolved(i) ==
  /\ server = "up" /\ adapter = "openclaw" /\ i \in asking /\ task[Handler].pc = "idle"
  /\ asking' = asking \ {i}
  /\ UNCHANGED <<rows, late, memory, task, buffer, events, adapter, run, unasked, answered, denied, server>>

Replay ==
  /\ task[Starter].pc = "replay"
  /\ IF buffer = <<>>
       THEN Stop(Starter) /\ UNCHANGED buffer
       ELSE Begin(Starter, Head(buffer)) /\ buffer' = Tail(buffer)
  /\ UNCHANGED <<rows, late, memory, events, provider, server>>

\* Mutant: no timer is scheduled.
CreateUnarmed(t) ==
  /\ task[t].pc = "create"
  /\ SetState(task[t].on, "pending")
  /\ required' = required \ {task[t].on}
  /\ Goto(t, "mark")
  /\ UNCHANGED <<exec, session, late, active, armed, buffer, events, provider, server>>

\* interaction_requested: the record, its timer, then the two status columns.
Create(t) ==
  /\ task[t].pc = "create"
  /\ SetState(task[t].on, "pending")
  /\ required' = required \ {task[t].on}
  /\ armed' = IF active THEN armed \cup {task[t].on} ELSE armed
  /\ Goto(t, "mark")
  /\ UNCHANGED <<exec, session, late, active, buffer, events, provider, server>>

MarkWaiting(t) ==
  /\ task[t].pc = "mark"
  /\ SetSession("waiting_for_interaction")
  /\ Goto(t, "mark_row")
  /\ UNCHANGED <<exec, inter, late, memory, buffer, events, provider, server>>

MarkRow(t) ==
  /\ task[t].pc = "mark_row"
  /\ Transition({"running"}, "waiting_for_interaction")
  /\ Return(t, Back(t))
  /\ UNCHANGED <<session, inter, late, memory, buffer, events, provider, server>>

\* Mutant: the required interactions are not looked at.
ListPendingOnly(t) ==
  /\ task[t].pc = "list"
  /\ IF task[t].said = "completed" /\ \E i \in Interactions : inter[i].state = "pending"
       THEN Terminate(t)
       ELSE Goto(t, "settle") \/ (task[t].said = "completed" /\ FailOnly(t))
  /\ UNCHANGED <<rows, late, memory, buffer, events, provider, server>>

\* run_completed: refused while something is pending or has not occurred; the
\* final response, when it has to be kept, may not be kept.
ListPending(t) ==
  /\ task[t].pc = "list"
  /\ IF /\ task[t].said = "completed"
        /\ (\E i \in Interactions : inter[i].state = "pending") \/ required # {}
       THEN Terminate(t)
       ELSE Goto(t, "settle") \/ (task[t].said = "completed" /\ FailOnly(t))
  /\ UNCHANGED <<rows, late, memory, buffer, events, provider, server>>

Settle(t) ==
  /\ task[t].pc = "settle"
  /\ SetSession(IF task[t].said = "failed" THEN "failed" ELSE "completed")
  /\ Goto(t, "settle_row")
  /\ UNCHANGED <<exec, inter, late, memory, buffer, events, provider, server>>

SettleRow(t) ==
  /\ task[t].pc = "settle_row"
  /\ Transition(Working, task[t].said)
  /\ Goto(t, "settle_end")
  /\ UNCHANGED <<session, inter, late, memory, buffer, events, provider, server>>

\* run_cancelled, and the same steps in cancel().
StopSession(t) ==
  /\ task[t].pc = "stop"
  /\ SetSession("cancelled")
  /\ Goto(t, "stop_row")
  /\ UNCHANGED <<exec, inter, late, memory, buffer, events, provider, server>>

StopRow(t) ==
  /\ task[t].pc = "stop_row"
  /\ Transition(Working, "cancelled")
  /\ Goto(t, "settle_end")
  /\ UNCHANGED <<session, inter, late, memory, buffer, events, provider, server>>

SettleEnd(t) ==
  /\ task[t].pc = "settle_end"
  /\ ClearActive
  /\ Return(t, After(t))
  /\ UNCHANGED <<rows, late, buffer, events, provider, server>>

EventStep(t) ==
  \/ Create(t) \/ MarkWaiting(t) \/ MarkRow(t) \/ ListPending(t) \/ Settle(t)
  \/ SettleRow(t) \/ StopSession(t) \/ StopRow(t) \/ SettleEnd(t)

----------------------------------------------------------------------------
(* respond().                                                              *)

\* An answer arrives, for the version of the record that its client has seen.
Respond(r, i) ==
  /\ server = "up" /\ task[r].pc = "idle" /\ inter[i].state # "none"
  /\ \E v \in 0..inter[i].round, said \in {"answer", "cancel"} :
       task' = [task EXCEPT ![r] =
         [pc |-> "claim", on |-> i, said |-> said, late |-> i \in late, round |-> v,
          live |-> FALSE, told |-> {}]]
  /\ UNCHANGED <<rows, late, memory, buffer, events, provider, server>>

\* Mutant: the conditional update does not ask for state "pending".
ClaimOpen(r) ==
  /\ task[r].pc = "claim"
  /\ LET i == task[r].on IN
       IF inter[i].state \in {"pending", "resolving"} /\ inter[i].round = task[r].round /\ ~task[r].late
         THEN /\ inter' = [inter EXCEPT ![i].state = "resolving", ![i].by = r]
              /\ task' = [task EXCEPT ![r].pc = "deliver", ![r].round = 0]
         ELSE UNCHANGED inter /\ Goto(r, "look")
  /\ UNCHANGED <<exec, session, late, memory, buffer, events, provider, server>>

\* claim(): the conditional update pending -> resolving.
Claim(r) ==
  /\ task[r].pc = "claim"
  /\ LET i == task[r].on IN
       IF inter[i].state = "pending" /\ inter[i].round = task[r].round /\ ~task[r].late
         THEN /\ inter' = [inter EXCEPT ![i].state = "resolving", ![i].by = r]
              /\ task' = [task EXCEPT ![r].pc = "deliver", ![r].round = 0]
         ELSE UNCHANGED inter /\ Goto(r, "look")
  /\ UNCHANGED <<exec, session, late, memory, buffer, events, provider, server>>

\* The update found nothing: the record tells a replay, an expiry, a conflict.
Look(r) ==
  /\ task[r].pc = "look"
  /\ LET i == task[r].on IN
       IF inter[i].by # r /\ inter[i].state = "pending" /\ task[r].late
         THEN task' = [task EXCEPT ![r].pc = "expire", ![r].round = inter[i].round]
         ELSE Stop(r)
  /\ UNCHANGED <<rows, late, memory, buffer, events, provider, server>>

ExpireRow(r) ==
  /\ task[r].pc = "expire"
  /\ LET i == task[r].on IN
       IF inter[i].state = "pending" /\ inter[i].round = task[r].round
         THEN SetState(i, "expired") ELSE UNCHANGED inter
  /\ Terminate(r)
  /\ UNCHANGED <<exec, session, late, memory, buffer, events, provider, server>>

\* adapter.respond() begins: is there a session, and does its adapter know i?
Deliver(r) ==
  /\ task[r].pc = "deliver"
  /\ IF ~active THEN FailOnly(r)
     ELSE IF task[r].on \in asking THEN Goto(r, "contact") ELSE Terminate(r)
  /\ UNCHANGED <<rows, late, memory, buffer, events, provider, server>>

\* The provider takes the answer, or the call is rejected before or after that,
\* or, with Codex, the authentication that the answer claims cannot be verified.
Contact(r) ==
  /\ task[r].pc = "contact"
  /\ LET i == task[r].on IN
       \/ /\ answered' = [answered EXCEPT ![i] = @ + 1]
          /\ Goto(r, "answered") \/ Terminate(r)
       \/ UNCHANGED answered /\ Terminate(r)
       \/ /\ adapter = "codex" /\ inter[i].round < MaxRounds
          /\ UNCHANGED answered /\ Goto(r, "release")
  /\ UNCHANGED <<rows, late, memory, buffer, events, adapter, run, unasked, asking, denied, server>>

\* What an answer that cancels the execution does: Codex stops the run and
\* reports it as an event, or not; the OpenClaw adapter aborts the run, waits,
\* and emits the event itself or rejects.
AnswerCancels(r) ==
  \/ /\ adapter = "codex" /\ Goto(r, "resolve")
     /\ \/ run = "running" /\ run' = "aborted" /\ Emit([kind |-> "cancelled"])
        \/ UNCHANGED <<run, events>>
  \/ /\ adapter = "openclaw" /\ UNCHANGED events
     /\ \/ /\ run \in {"running", "aborted"} /\ run' = "aborted"
           /\ Goto(r, IF active THEN "stop" ELSE "resolve")
        \/ UNCHANGED run /\ Terminate(r)

\* Mutant: the answered request stays in the adapter's map.
AnsweredKept(r) ==
  /\ task[r].pc = "answered"
  /\ UNCHANGED asking
  /\ \/ task[r].said = "answer" /\ Goto(r, "resolve") /\ UNCHANGED <<run, events>>
     \/ task[r].said = "cancel" /\ AnswerCancels(r)
  /\ UNCHANGED <<rows, late, memory, buffer, adapter, unasked, answered, denied, server>>

\* The rest of adapter.respond(): the request leaves the map, and then the run
\* stops if the answer says so.
Answered(r) ==
  /\ task[r].pc = "answered"
  /\ asking' = asking \ {task[r].on}
  /\ \/ task[r].said = "answer" /\ Goto(r, "resolve") /\ UNCHANGED <<run, events>>
     \/ task[r].said = "cancel" /\ AnswerCancels(r)
  /\ UNCHANGED <<rows, late, memory, buffer, adapter, unasked, answered, denied, server>>

\* Mutant: resolve() does not ask for state "resolving".
ResolveAny(r) ==
  /\ task[r].pc = "resolve"
  /\ SetState(task[r].on, "resolved")
  /\ armed' = armed \ {task[r].on}
  /\ IF task[r].said = "answer" THEN Goto(r, "tally") ELSE Stop(r)
  /\ UNCHANGED <<exec, session, late, active, required, buffer, events, provider, server>>

\* resolve(), whose result is ignored, and the end of the timer.
Resolve(r) ==
  /\ task[r].pc = "resolve"
  /\ LET i == task[r].on IN
       /\ IF inter[i].state = "resolving" /\ inter[i].by = r
            THEN SetState(i, "resolved") ELSE UNCHANGED inter
       /\ armed' = armed \ {i}
  /\ IF task[r].said = "answer" THEN Goto(r, "tally") ELSE Stop(r)
  /\ UNCHANGED <<exec, session, late, active, required, buffer, events, provider, server>>

\* The authentication could not be verified: the record is given back.
Release(r) ==
  /\ task[r].pc = "release"
  /\ LET i == task[r].on IN
       IF inter[i].state = "resolving" /\ inter[i].by = r
         THEN /\ inter' = [inter EXCEPT ![i] =
                   [state |-> "pending", by |-> "none", round |-> @.round + 1]]
              /\ Stop(r)
         ELSE UNCHANGED inter /\ Terminate(r)
  /\ UNCHANGED <<exec, session, late, memory, buffer, events, provider, server>>

Tally(r) ==
  /\ task[r].pc = "tally"
  /\ IF \E i \in Interactions : inter[i].state \in Interaction!Open
       THEN Stop(r) ELSE Goto(r, "resume")
  /\ UNCHANGED <<rows, late, memory, buffer, events, provider, server>>

ResumeSession(r) ==
  /\ task[r].pc = "resume"
  /\ SetSession("running")
  /\ Goto(r, "resume_row")
  /\ UNCHANGED <<exec, inter, late, memory, buffer, events, provider, server>>

ResumeRow(r) ==
  /\ task[r].pc = "resume_row"
  /\ Transition({"waiting_for_interaction"}, "running")
  /\ Stop(r)
  /\ UNCHANGED <<session, inter, late, memory, buffer, events, provider, server>>

RespondStep(r) ==
  \/ Claim(r) \/ Look(r) \/ ExpireRow(r) \/ Deliver(r) \/ Contact(r) \/ Answered(r) \/ Resolve(r)
  \/ Release(r) \/ Tally(r) \/ ResumeSession(r) \/ ResumeRow(r)

----------------------------------------------------------------------------
(* The clock, and expireInteraction().                                     *)
TimePasses(i) ==
  /\ inter[i].state \in Interaction!Open /\ i \notin late
  /\ late' = late \cup {i}
  /\ UNCHANGED <<rows, memory, task, buffer, events, provider, server>>

Fire(i) ==
  /\ i \in armed /\ i \in late /\ task[i].pc = "idle"
  /\ armed' = armed \ {i}
  /\ task' = [task EXCEPT ![i].pc = "check", ![i].on = i]
  /\ UNCHANGED <<rows, late, active, required, buffer, events, provider, server>>

Check(i) ==
  /\ task[i].pc = "check"
  /\ IF inter[i].state = "pending" THEN Terminate(i) ELSE Stop(i)
  /\ UNCHANGED <<rows, late, memory, buffer, events, provider, server>>

----------------------------------------------------------------------------
(* cancel(), and shutdown().                                               *)
Cancel(c) ==
  /\ server = "up" /\ task[c].pc = "idle" /\ active
  /\ Goto(c, "cancel_close")
  /\ UNCHANGED <<rows, late, memory, buffer, events, provider, server>>

Shutdown(c) ==
  /\ server = "up" /\ task[c].pc = "idle" /\ active
  /\ Terminate(c)
  /\ UNCHANGED <<rows, late, memory, buffer, events, provider, server>>

CancelClose(c) ==
  /\ task[c].pc = "cancel_close"
  /\ CancelPending
  /\ Goto(c, "cancel_run")
  /\ UNCHANGED <<exec, session, late, memory, buffer, events, provider, server>>

\* The provider confirms, does not, or a call rejects: the request then ends
\* with an error.
CancelRun(c) ==
  /\ task[c].pc = "cancel_run"
  /\ \/ /\ AbortRun(c)
        /\ \/ run' = "aborted" /\ Return(c, "cancel_read")
           \/ Return(c, "reconcile")
           \/ Stop(c)
     \/ Stop(c) /\ UNCHANGED <<events, provider>>
  /\ UNCHANGED <<rows, late, memory, buffer, server>>

\* Mutant: an unconfirmed cancellation counts as one.
ReconcileAny(c) ==
  /\ task[c].pc = "reconcile"
  /\ Goto(c, "cancel_read") \/ FailOnly(c) \/ Stop(c)
  /\ UNCHANGED <<rows, late, memory, buffer, events, provider, server>>

\* adapter.reconcile() tells, or rejects.
Reconcile(c) ==
  /\ task[c].pc = "reconcile"
  /\ \/ run = "aborted" /\ Goto(c, "cancel_read")
     \/ FailOnly(c)
     \/ Stop(c)
  /\ UNCHANGED <<rows, late, memory, buffer, events, provider, server>>

CancelRead(c) ==
  /\ task[c].pc = "cancel_read"
  /\ IF exec = "cancelled" THEN Goto(c, "settle_end") ELSE Goto(c, "stop")
  /\ UNCHANGED <<rows, late, memory, buffer, events, provider, server>>

CancelStep(c) == CancelClose(c) \/ Deny(c) \/ CancelRun(c) \/ Reconcile(c) \/ CancelRead(c)

----------------------------------------------------------------------------
(* The process dies; onReady() of the next one.                            *)
Crash ==
  /\ Crashes /\ server # "down"
  /\ server' = "down"
  /\ task' = [t \in Tasks |-> Idle]
  /\ active' = FALSE /\ armed' = {} /\ required' = {}
  /\ buffer' = <<>> /\ events' = <<>>
  /\ run' = IF run = "running" THEN "lost" ELSE run
  /\ asking' = {}
  /\ UNCHANGED <<rows, late, adapter, unasked, answered, denied>>

\* AgentExecutionQueue.reconcileInterrupted() comes first.
RestartQueue ==
  /\ server = "down"
  /\ Transition(Working, "failed")
  /\ server' = "booting"
  /\ UNCHANGED <<session, inter, late, memory, task, buffer, events, provider>>

\* Mutant: only sessions that are running count as interrupted.
RestartRunningOnly ==
  /\ server = "booting"
  /\ IF session = "running"
       THEN CancelPending /\ server' = "closing"
       ELSE UNCHANGED inter /\ server' = "restarted"
  /\ UNCHANGED <<exec, session, late, memory, task, buffer, events, provider>>

\* reconcileInterrupted() of the manager, for a session that is not terminal.
RestartClose ==
  /\ server = "booting"
  /\ IF session \in Working
       THEN CancelPending /\ server' = "closing"
       ELSE UNCHANGED inter /\ server' = "restarted"
  /\ UNCHANGED <<exec, session, late, memory, task, buffer, events, provider>>

RestartFail ==
  /\ server = "closing"
  /\ SetSession("failed")
  /\ Transition(Working, "failed")
  /\ server' = "restarted"
  /\ UNCHANGED <<inter, late, memory, task, buffer, events, provider>>

----------------------------------------------------------------------------
TaskStep(t) ==
  \/ FailStep(t)
  \/ t = Starter /\ (StartStep \/ Replay)
  \/ t = Handler /\ Receive
  \/ EventStep(t)
  \/ t \in Responders /\ RespondStep(t)
  \/ t \in Interactions /\ (Fire(t) \/ Check(t))
  \/ t \in Cancellers /\ CancelStep(t)

Next ==
  \/ Claimed \/ ProviderEnds
  \/ \E t \in Tasks : TaskStep(t)
  \/ \E i \in Interactions : ProviderAsks(i) \/ ApprovalResolved(i) \/ TimePasses(i)
  \/ \E r \in Responders, i \in Interactions : Respond(r, i)
  \/ \E c \in Cancellers : Cancel(c) \/ Shutdown(c)
  \/ Crash \/ RestartQueue \/ RestartClose \/ RestartFail

Spec == Init /\ [][Next]_vars

\* Every started task goes on: the database answers, and each provider call
\* returns or rejects within its timeout; timers fire, time passes.  Nobody has
\* to answer, and the provider has to do nothing.
FairSpec ==
  /\ Spec
  /\ \A t \in Tasks : WF_vars(TaskStep(t))
  /\ \A i \in Interactions : WF_vars(TimePasses(i))

----------------------------------------------------------------------------
\* No task is on its way and nothing waits to be consumed.
Quiet == events = <<>> /\ \A t \in Tasks : task[t].pc = "idle"

\* Every variable has its type; what the process remembers dies with it, and timers
\* are armed for an active session only.
TypeOK ==
  /\ exec \in Lifecycle!Status /\ session \in Lifecycle!Status
  /\ inter \in [Interactions -> Row]
  /\ late \cup armed \cup unasked \cup asking \subseteq Interactions /\ required \subseteq Required
  /\ task \in [Tasks -> TaskRecord] /\ buffer \in Seq(Events) /\ events \in Seq(Events)
  /\ run \in {"none", "running", "ended", "aborted", "lost"}
  /\ adapter \in {"codex", "openclaw"}
  /\ answered \in [Interactions -> Nat] /\ denied \in [Interactions -> States \cup {"never"}]
  /\ server \in {"up", "down", "booting", "closing", "restarted"}
  /\ active \in BOOLEAN /\ (server = "down" => ~active) /\ (~active => armed = {})

\* The execution row only walks the edges of the life cycle: whatever the
\* handler, answers, timers, cancellations and restarts do to each other, no
\* terminal status is overwritten.
LifecycleSpec == Lifecycle!Spec

\* An interaction record only walks the edges of its graph: late, repeated
\* and concurrent answers never reopen or rewrite a closed one.
InteractionSpec == Interaction!Spec

\* A user's answer reaches the provider at most once per interaction, however
\* often and by whomever it is answered, given back and answered again; a record
\* says resolved only if the provider was given the answer; and an answer whose
\* record says so is never taken back: no cancellation, failure or shutdown
\* denies the interaction any more.
AnsweredOnce ==
  \A i \in Interactions :
    /\ answered[i] <= 1
    /\ inter[i].state = "resolved" => answered[i] = 1
    /\ denied[i] # "resolved"

\* An execution completes only after every required interaction was asked.
CompletedAsked ==
  exec = "completed" => \A i \in Required : inter[i].state # "none"

\* An execution is reported as cancelled only when the provider did stop.
CancelledIsConfirmed == exec = "cancelled" => run = "aborted"

\* After a restart, at whatever point the process died, neither the execution
\* nor its session looks alive.
RestartSettles ==
  server = "restarted" => exec \notin Working /\ session \notin Working

\* An interaction that nobody answers does not hold its execution beyond its
\* expiry, unless the process dies.
ExpiryEndsWaiting ==
  (exec = "waiting_for_interaction" /\ \E i \in late : inter[i].state = "pending")
    ~> \/ exec # "waiting_for_interaction"
       \/ \A i \in late : inter[i].state # "pending"
       \/ server = "down"
=============================================================================
