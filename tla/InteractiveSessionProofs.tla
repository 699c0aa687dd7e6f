------------------------ MODULE InteractiveSessionProofs ------------------------
(***************************************************************************)
(* Theorems about InteractiveSession, for every set of interactions,       *)
(* answers and cancellations, with or without early events and crashes.    *)
(***************************************************************************)
EXTENDS InteractiveSession, TLAPS

(*--------------------------- the inductive invariant ---------------------*)
Failing == {"close", "fail", "fail_row", "fail_end", "abort"}
Consuming == {"create", "mark", "mark_row", "list", "settle", "settle_row", "stop", "stop_row", "settle_end"}

(* Where a task can stand.                                                 *)
Places(t) ==
  {"idle"} \cup Failing \cup
    CASE t = Handler        -> Consuming
      [] t = Starter        -> Consuming \cup {"launch", "open", "consume", "replay"}
      [] t \in Interactions -> {"check"}
      [] t \in Responders   -> {"claim", "look", "expire", "deliver", "contact", "answered", "resolve", "release",
                                "tally", "resume", "resume_row", "stop", "stop_row", "settle_end"}
      [] t \in Cancellers   -> {"cancel_close", "cancel_run", "reconcile", "cancel_read",
                                "stop", "stop_row", "settle_end"}

Occurs(e, s) == \E j \in 1..Len(s) : s[j] = e
Ask(i)    == [kind |-> "asked", on |-> i]
Cancelled == [kind |-> "cancelled"]
Single(s) == \A i \in Interactions, j, k \in 1..Len(s) : s[j] = Ask(i) /\ s[k] = Ask(i) => j = k

AllAsked == \A i \in Required : inter[i].state # "none"

(* Nothing has become of interaction i but a task that creates its record. *)
Fresh(i) ==
  /\ inter[i].state = "none" /\ i \notin unasked
  /\ ~Occurs(Ask(i), events) /\ ~Occurs(Ask(i), buffer)

(* The claim of answer r on its interaction, which only r can end.         *)
Holds(r) ==
  LET i == task[r].on
  IN i \in Interactions /\ inter[i].by = r /\ inter[i].state \in {"resolving", "cancelled"}

(* What a task may rely on where it stands.                                *)
TaskInv(t) ==
  LET pc == task[t].pc
      i  == task[t].on
  IN /\ pc \in Places(t)
     /\ pc \in {"list", "settle", "settle_row"} => task[t].said \in {"completed", "partial", "failed"}
     /\ pc \in {"settle", "settle_row"} /\ task[t].said = "completed" => exec \in Terminal \/ AllAsked
     /\ pc \in {"fail_end", "abort", "settle_end"} => exec \in Terminal
     /\ pc \in {"stop", "stop_row", "cancel_read"} => run = "aborted"
     /\ pc \in {"claim", "look", "expire"} => i \in Interactions
     /\ t \in Responders /\ pc \in {"deliver", "contact", "release"} => Holds(t) /\ answered[i] = 0
     /\ t \in Responders /\ pc \in {"answered", "resolve", "stop", "stop_row", "settle_end"} =>
          Holds(t) /\ answered[i] = 1
     /\ t \in Responders /\ pc \in {"resolve", "stop", "stop_row", "settle_end"} => i \notin asking
     /\ pc = "release" => inter[i].round < MaxRounds
     /\ pc = "create" => i \in Interactions /\ Fresh(i)
     /\ pc = "idle" => ~task[t].live
     /\ session = "none" =>
          \/ pc = "idle"
          \/ /\ t = Starter /\ ~task[t].live
             /\ pc \in {"launch", "open", "fail", "fail_row", "fail_end", "replay"}
     /\ pc \in {"launch", "open"} => session = "none"
     /\ exec = "none" \/ server # "up" => pc = "idle"

(* An interaction is asked at most once: it waits in one queue at most.    *)
AskInv ==
  /\ Single(events) /\ Single(buffer)
  /\ \A i \in Interactions : ~(Occurs(Ask(i), events) /\ Occurs(Ask(i), buffer))
  /\ \A i \in Interactions : Occurs(Ask(i), events) \/ Occurs(Ask(i), buffer) => i \notin unasked
  /\ \A i \in Interactions :
       i \in unasked \/ Occurs(Ask(i), events) \/ Occurs(Ask(i), buffer) => inter[i].state = "none"
  /\ task[Handler].pc = "create" /\ task[Starter].pc = "create" => task[Handler].on # task[Starter].on

(* Only a provider that stopped makes a cancelled execution.               *)
StopInv ==
  run # "aborted" => exec # "cancelled" /\ ~Occurs(Cancelled, events) /\ ~Occurs(Cancelled, buffer)

(* The session is what the manager works on between its start and the end  *)
(* of the execution.                                                       *)
OpenInv ==
  /\ exec \in {"none"} \cup Working \cup Terminal
  /\ exec = "none" => session = "none" /\ run = "none"
  /\ session = "none" =>
       /\ ~active /\ \A i \in Interactions : inter[i].state = "none"
       /\ task[Starter].pc = "open" \/ (run # "running" /\ events = <<>> /\ buffer = <<>>)
  /\ task[Starter].pc = "launch" => run = "none"
  /\ session # "none" /\ server = "up" /\ exec \in Working => active
  /\ active => \A i \in Required \ required : inter[i].state # "none"

AnswerInv ==
  \A i \in Interactions :
    /\ inter[i].state \in {"none", "pending", "expired"} => answered[i] = 0
    /\ inter[i].state = "resolved" => answered[i] = 1 /\ i \notin asking
    /\ answered[i] <= 1
    /\ denied[i] # "resolved"

ServerInv ==
  /\ server # "up" => ~active /\ events = <<>> /\ buffer = <<>> /\ run # "running"
  /\ server \in {"booting", "closing", "restarted"} => exec \notin Working
  /\ server = "restarted" => session \notin Working
  /\ server = "closing" => session # "none"

SessionInv ==
  /\ TypeOK /\ AskInv /\ StopInv /\ OpenInv /\ AnswerInv /\ ServerInv /\ CompletedAsked
  /\ \A t \in Tasks : TaskInv(t)

----------------------------------------------------------------------------
(* What the helpers of the module do to a task.                            *)

USE DEF Terminal, Lifecycle!Terminal, Working, Interaction!Open, Interaction!Final, States

Moves(t, pc) ==
  /\ task' \in [Tasks -> TaskRecord] /\ task'[t].pc = pc /\ (pc = "idle" => ~task'[t].live)
  /\ \A q \in Tasks \ {t} : task'[q] = task[q]

Keeps(t) ==
  /\ task'[t].on = task[t].on /\ task'[t].said = task[t].said
  /\ task'[t].round = task[t].round /\ task'[t].live = task[t].live

LEMMA IdleTyped == Idle \in TaskRecord /\ Idle.pc = "idle" /\ ~Idle.live
BY BoundsAssumption DEF Idle, TaskRecord, Steps

LEMMA GotoEffect ==
  ASSUME task \in [Tasks -> TaskRecord], NEW t \in Tasks, NEW pc \in Steps \ {"idle"}, Goto(t, pc)
  PROVE  Moves(t, pc) /\ Keeps(t)
<1> DEFINE new == [task[t] EXCEPT !.pc = pc]
<1>1. task' = [task EXCEPT ![t] = new]
  BY DEF Goto
<1>2. new \in TaskRecord /\ new.pc = pc /\ new.on = task[t].on /\ new.said = task[t].said
      /\ new.round = task[t].round /\ new.live = task[t].live
  BY DEF TaskRecord
<1> HIDE DEF new
<1> QED
  BY <1>1, <1>2 DEF Moves, Keeps

LEMMA SetEffect ==
  ASSUME task \in [Tasks -> TaskRecord], NEW t \in Tasks, NEW new \in TaskRecord,
         new.pc = "idle" => ~new.live, task' = [task EXCEPT ![t] = new]
  PROVE  Moves(t, new.pc) /\ task'[t] = new
BY DEF Moves

LEMMA StopEffect ==
  ASSUME task \in [Tasks -> TaskRecord], NEW t \in Tasks, Stop(t)
  PROVE  Moves(t, "idle") /\ task'[t] = Idle
BY SetEffect, IdleTyped DEF Stop

LEMMA FailOnlyEffect ==
  ASSUME task \in [Tasks -> TaskRecord], NEW t \in Tasks, FailOnly(t)
  PROVE  Moves(t, "fail") /\ ~task'[t].live
<1> DEFINE new == [Idle EXCEPT !.pc = "fail"]
<1>1. new \in TaskRecord /\ new.pc = "fail" /\ ~new.live
  BY IdleTyped DEF Idle, TaskRecord, Steps
<1> HIDE DEF new
<1> QED
  BY <1>1, SetEffect DEF FailOnly, new

LEMMA TerminateEffect ==
  ASSUME task \in [Tasks -> TaskRecord], active \in BOOLEAN, NEW t \in Tasks, Terminate(t)
  PROVE  Moves(t, "close")
<1> DEFINE new == [Idle EXCEPT !.pc = "close", !.live = active]
<1>1. new \in TaskRecord /\ new.pc = "close"
  BY IdleTyped DEF Idle, TaskRecord, Steps
<1> HIDE DEF new
<1> QED
  BY <1>1, SetEffect DEF Terminate, new

LEMMA ReturnEffect ==
  ASSUME task \in [Tasks -> TaskRecord], NEW t \in Tasks, NEW pc \in {"replay", "idle", "resolve", "abort", "cancel_read", "reconcile"},
         Return(t, pc)
  PROVE  Moves(t, pc) /\ (pc = "resolve" => Keeps(t)) /\ (pc # "resolve" => ~task'[t].live)
<1> DEFINE new == IF pc = "resolve" THEN [task[t] EXCEPT !.pc = pc] ELSE [Idle EXCEPT !.pc = pc]
<1>1. task' = [task EXCEPT ![t] = new]
  BY DEF Return
<1>2. CASE pc = "resolve"
  <2>1. /\ new \in TaskRecord /\ new.pc = pc /\ new.on = task[t].on /\ new.said = task[t].said
        /\ new.round = task[t].round /\ new.live = task[t].live
    BY <1>2 DEF TaskRecord, Steps
  <2> HIDE DEF new
  <2> QED
    BY <1>1, <1>2, <2>1 DEF Moves, Keeps
<1>3. CASE pc # "resolve"
  <2>1. new \in TaskRecord /\ new.pc = pc /\ ~new.live
    BY <1>3, IdleTyped DEF Idle, TaskRecord, Steps
  <2> HIDE DEF new
  <2> QED
    BY <1>1, <1>3, <2>1 DEF Moves
<1> QED
  BY <1>2, <1>3

(* An interaction that has a record and left the adapter's map stays out.  *)
NoneBack == \A i \in Interactions : i \in asking' => i \in asking \/ inter[i].state = "none"

(* What the step of task t leaves to the others to rely on.                *)
Mono(t) ==
  /\ NoneBack
  /\ exec \in Terminal => exec' \in Terminal
  /\ exec' = "none" => exec = "none"
  /\ server' = server
  /\ run = "aborted" => run' = "aborted"
  /\ session' = session \/ session # "none" \/ t = Starter
  /\ session' = "none" => session = "none"
  /\ \A i \in Interactions :
       /\ inter[i].state # "none" => inter'[i].state # "none"
       /\ inter[i].state \in {"resolving", "cancelled"} /\ inter[i].by # t =>
            /\ inter'[i].state \in {"resolving", "cancelled"}
            /\ inter'[i].by = inter[i].by /\ inter'[i].round = inter[i].round
            /\ answered'[i] = answered[i]
       /\ Fresh(i) => Fresh(i)' \/ (task[t].pc = "create" /\ task[t].on = i)

\* Only the handler and the start create records; only the start launches.
LEMMA WhoIsWhere ==
  ASSUME NEW t \in Tasks, TaskInv(t)
  PROVE  /\ task[t].pc = "create" => t \in {Handler, Starter}
         /\ task[t].pc \in {"launch", "open", "consume", "replay"} => t = Starter
         /\ task[t].pc \in {"deliver", "contact", "release", "answered", "resolve", "claim", "look"} => t \in Responders
BY TasksAssumption DEF TaskInv, Places, Consuming, Failing, Tasks

\* What an answer that is on its way relies on.
LEMMA HeldAnswer ==
  ASSUME NEW q \in Tasks, TaskInv(q)
  PROVE  /\ q \in Responders /\ task[q].pc \in {"deliver", "contact", "release"} =>
              Holds(q) /\ answered[task[q].on] = 0
         /\ q \in Responders /\ task[q].pc \in {"answered", "resolve", "stop", "stop_row", "settle_end"} =>
              Holds(q) /\ answered[task[q].on] = 1
         /\ q \in Responders /\ task[q].pc \in {"resolve", "stop", "stop_row", "settle_end"} =>
              task[q].on \notin asking
         /\ task[q].pc = "release" => inter[task[q].on].round < MaxRounds
BY DEF TaskInv

LEMMA OthersStay ==
  ASSUME SessionInv, NEW t \in Tasks, Mono(t), NEW q \in Tasks \ {t}, task'[q] = task[q],
         Required \subseteq Interactions
  PROVE  TaskInv(q)'
<1>1. TaskInv(q) /\ TaskInv(t) /\ task[q] \in TaskRecord
  BY DEF SessionInv, TypeOK
<1>2. q \in Responders /\ Holds(q) =>
        /\ Holds(q)' /\ answered'[task[q].on] = answered[task[q].on]
        /\ inter'[task[q].on].round = inter[task[q].on].round
        /\ task[q].on \notin asking => task[q].on \notin asking'
  BY DEF Holds, Mono, NoneBack
<1>3. task[q].pc = "create" => Fresh(task[q].on)'
  <2>1. SUFFICES ASSUME task[q].pc = "create" PROVE Fresh(task[q].on)'
    OBVIOUS
  <2>2. PICK i \in Interactions : i = task[q].on /\ Fresh(i)
    BY <1>1, <2>1 DEF TaskInv
  <2>3. ~(task[t].pc = "create" /\ task[t].on = i)
    BY <1>1, <2>1, <2>2, WhoIsWhere DEF SessionInv, AskInv
  <2>4. Fresh(i)'
    BY <2>2, <2>3 DEF Mono
  <2> QED
    BY <2>2, <2>4 DEF Fresh
<1>4. AllAsked => AllAsked'
  BY DEF AllAsked, Mono
<1>5. task[q].pc \in {"launch", "open"} => session' = "none"
  BY <1>1, WhoIsWhere DEF TaskInv, Mono
<1>6. task[q].pc = "release" => q \in Responders
  BY <1>1, WhoIsWhere
<1>7. /\ q \in Responders /\ task[q].pc \in {"deliver", "contact", "release"} =>
           Holds(q)' /\ answered'[task[q].on] = 0
      /\ q \in Responders /\ task[q].pc \in {"answered", "resolve", "stop", "stop_row", "settle_end"} =>
           Holds(q)' /\ answered'[task[q].on] = 1
      /\ q \in Responders /\ task[q].pc \in {"resolve", "stop", "stop_row", "settle_end"} =>
           task[q].on \notin asking'
      /\ task[q].pc = "release" => inter'[task[q].on].round < MaxRounds
  <2>1. /\ q \in Responders /\ task[q].pc \in {"deliver", "contact", "release"} =>
             Holds(q) /\ answered[task[q].on] = 0
        /\ q \in Responders /\ task[q].pc \in {"answered", "resolve", "stop", "stop_row", "settle_end"} =>
             Holds(q) /\ answered[task[q].on] = 1
        /\ q \in Responders /\ task[q].pc \in {"resolve", "stop", "stop_row", "settle_end"} =>
             task[q].on \notin asking
        /\ task[q].pc = "release" => inter[task[q].on].round < MaxRounds
    BY <1>1, HeldAnswer

  <2> QED
    BY <2>1, <1>2, <1>6
<1>8. /\ task[q].pc \in {"fail_end", "abort", "settle_end"} => exec' \in Terminal
      /\ task[q].pc \in {"settle", "settle_row"} /\ task[q].said = "completed" => exec' \in Terminal \/ AllAsked'
      /\ task[q].pc \in {"stop", "stop_row", "cancel_read"} => run' = "aborted"
  BY <1>1, <1>4 DEF TaskInv, Mono
<1>9. /\ session' = "none" => session = "none"
      /\ exec' = "none" \/ server' # "up" => exec = "none" \/ server # "up"
  BY DEF Mono
<1> QED
  BY <1>1, <1>3, <1>5, <1>7, <1>8, <1>9 DEF TaskInv

\* A step of one task keeps the invariant, if it keeps what concerns that task and what
\* is common to all.
LEMMA TaskAct ==
  ASSUME SessionInv, NEW t \in Tasks, NEW pc, Moves(t, pc), Mono(t), TaskInv(t)',
         TypeOK', AskInv', StopInv', OpenInv', AnswerInv', ServerInv', CompletedAsked'
  PROVE  SessionInv'
<1>1. \A q \in Tasks : TaskInv(q)'
  <2> TAKE q \in Tasks
  <2>1. CASE q # t
    BY <2>1, OthersStay, TasksAssumption DEF Moves
  <2> QED
    BY <2>1
<1> QED
  BY <1>1 DEF SessionInv

\* A step that leaves the interactions, the queues and the provider alone.
LEMMA RowAct ==
  ASSUME SessionInv, server = "up", NEW t \in Tasks, NEW pc, Moves(t, pc), TaskInv(t)',
         pc \notin {"create", "launch"}, task[t].pc # "open",
         UNCHANGED <<inter, events, buffer, adapter, run, unasked, answered, denied, server>>,
         late' \cup armed' \subseteq Interactions, asking' \subseteq asking,
         session' = session \/ (session # "none" /\ session' \in Lifecycle!Status \ {"none"}),
         exec' = exec \/ (exec \in Working /\ exec' \in Working \cup Terminal),
         exec' = "cancelled" => exec = "cancelled" \/ run = "aborted",
         exec' = "completed" => exec = "completed" \/ AllAsked,
         \/ UNCHANGED <<active, required>> /\ armed' \subseteq armed
         \/ ClearActive /\ exec \in Terminal
  PROVE  SessionInv'
<1>1. Mono(t)
  BY DEF Mono, NoneBack, Fresh
<1>2. TypeOK'
  BY DEF SessionInv, TypeOK, Moves, ClearActive, OpenInv, Lifecycle!Status, Lifecycle!Session
<1>3. AskInv'
  <2>1. task'[Handler].pc = "create" => task[Handler].pc = "create" /\ task'[Handler] = task[Handler]
    BY DEF Moves, Tasks
  <2>2. task'[Starter].pc = "create" => task[Starter].pc = "create" /\ task'[Starter] = task[Starter]
    BY DEF Moves, Tasks
  <2> QED
    BY <2>1, <2>2 DEF SessionInv, AskInv, Occurs
<1>4. StopInv'
  BY DEF SessionInv, StopInv, Occurs
<1>5. OpenInv'
  <2>1. task'[Starter].pc = "launch" => task[Starter].pc = "launch"
    BY DEF Moves, Tasks
  <2>2. task[Starter].pc = "open" => task'[Starter].pc = "open"
    BY DEF Moves, Tasks
  <2> QED
    BY <2>1, <2>2 DEF SessionInv, OpenInv, ClearActive
<1>6. AnswerInv' /\ ServerInv'
  BY DEF SessionInv, AnswerInv, ServerInv
<1>7. CompletedAsked'
  BY DEF SessionInv, CompletedAsked, AllAsked
<1> QED
  BY <1>1, <1>2, <1>3, <1>4, <1>5, <1>6, <1>7, TaskAct

\* A step that changes the state of interactions that have a record.
LEMMA InterAct ==
  ASSUME SessionInv, server = "up", NEW t \in Tasks, NEW pc, Moves(t, pc), TaskInv(t)',
         pc \notin {"create", "launch"}, task[t].pc # "open",
         UNCHANGED <<exec, session, late, active, required, events, buffer, provider, server>>,
         armed' \subseteq armed, inter' \in [Interactions -> Row],
         \A i \in Interactions :
           /\ inter[i].state = "none" <=> inter'[i].state = "none"
           /\ inter[i].state \in {"resolving", "cancelled"} /\ inter[i].by # t =>
                /\ inter'[i].state \in {"resolving", "cancelled"}
                /\ inter'[i].by = inter[i].by /\ inter'[i].round = inter[i].round
           /\ inter'[i].state \in {"pending", "expired"} => answered[i] = 0
           /\ inter'[i].state = "resolved" => answered[i] = 1 /\ i \notin asking
  PROVE  SessionInv'
<1>1. Mono(t)
  BY DEF Mono, NoneBack, Fresh, provider, Occurs
<1>2. TypeOK'
  BY DEF SessionInv, TypeOK, Moves, provider
<1>3. AskInv'
  <2>1. task'[Handler].pc = "create" => task[Handler].pc = "create" /\ task'[Handler] = task[Handler]
    BY DEF Moves, Tasks
  <2>2. task'[Starter].pc = "create" => task[Starter].pc = "create" /\ task'[Starter] = task[Starter]
    BY DEF Moves, Tasks
  <2> QED
    BY <2>1, <2>2 DEF SessionInv, AskInv, Occurs, provider
<1>4. StopInv'
  BY DEF SessionInv, StopInv, Occurs, provider
<1>5. OpenInv'
  <2>1. task'[Starter].pc = "launch" => task[Starter].pc = "launch"
    BY DEF Moves, Tasks
  <2>2. task[Starter].pc = "open" => task'[Starter].pc = "open"
    BY DEF Moves, Tasks
  <2>3. Required \subseteq Interactions
    BY TasksAssumption
  <2> QED
    BY <2>1, <2>2, <2>3 DEF SessionInv, OpenInv, provider
<1>6. AnswerInv' /\ ServerInv'
  BY DEF SessionInv, AnswerInv, ServerInv, provider
<1>7. CompletedAsked'
  BY TasksAssumption DEF SessionInv, CompletedAsked
<1> QED
  BY <1>1, <1>2, <1>3, <1>4, <1>5, <1>6, <1>7, TaskAct

\* The places where a task relies on nothing but that its session exists.
Plain == {"consume", "mark", "mark_row", "close", "tally", "resume", "resume_row", "check",
          "cancel_close", "cancel_run", "reconcile"}

LEMMA PlainPlace ==
  ASSUME NEW t \in Tasks, NEW pc, Moves(t, pc), pc \in Places(t),
         \/ pc = "idle"
         \/ pc \in Plain \cup {"fail", "fail_row", "replay"} /\ exec' # "none" /\ server' = "up" /\ session' # "none"
         \/ pc \in {"fail", "fail_row", "replay"} /\ exec' # "none" /\ server' = "up"
            /\ t = Starter /\ ~task'[t].live
  PROVE  TaskInv(t)'
BY DEF TaskInv, Moves, Plain

\* A task under way has an execution, a process and, unless it starts, a session.
LEMMA Alive ==
  ASSUME SessionInv, NEW t \in Tasks, task[t].pc # "idle"
  PROVE  /\ exec # "none" /\ server = "up" /\ TaskInv(t)
         /\ session = "none" =>
              /\ t = Starter /\ ~task[t].live
              /\ task[t].pc \in {"launch", "open", "fail", "fail_row", "fail_end", "replay"}
         /\ task \in [Tasks -> TaskRecord] /\ task[t] \in TaskRecord /\ active \in BOOLEAN
BY DEF SessionInv, TaskInv, TypeOK

----------------------------------------------------------------------------
(* The queues of events.                                                   *)

LEMMA AppendFacts ==
  ASSUME NEW s \in Seq(Events), NEW e \in Events
  PROVE  /\ Append(s, e) \in Seq(Events)
         /\ \A x : Occurs(x, Append(s, e)) <=> Occurs(x, s) \/ x = e
         /\ Single(s) /\ (\A i \in Interactions : e = Ask(i) => ~Occurs(Ask(i), s)) => Single(Append(s, e))
<1>1. /\ Append(s, e) \in Seq(Events) /\ Len(Append(s, e)) = Len(s) + 1 /\ Len(s) \in Nat
      /\ \A j \in 1..Len(s) : Append(s, e)[j] = s[j]
      /\ Append(s, e)[Len(s) + 1] = e
  OBVIOUS
<1>2. \A x : Occurs(x, Append(s, e)) <=> Occurs(x, s) \/ x = e
  <2> TAKE x
  <2>1. ASSUME Occurs(x, Append(s, e)) PROVE Occurs(x, s) \/ x = e
    BY <1>1, <2>1 DEF Occurs
  <2>2. ASSUME Occurs(x, s) PROVE Occurs(x, Append(s, e))
    <3>1. PICK j \in 1..Len(s) : s[j] = x
      BY <2>2 DEF Occurs
    <3>2. j \in 1..Len(Append(s, e)) /\ Append(s, e)[j] = x
      BY <1>1, <3>1
    <3> QED
      BY <3>2 DEF Occurs
  <2>3. ASSUME x = e PROVE Occurs(x, Append(s, e))
    <3>1. Len(s) + 1 \in 1..Len(Append(s, e)) /\ Append(s, e)[Len(s) + 1] = x
      BY <1>1, <2>3
    <3> QED
      BY <3>1 DEF Occurs
  <2> QED
    BY <2>1, <2>2, <2>3
<1>3. ASSUME Single(s), \A i \in Interactions : e = Ask(i) => ~Occurs(Ask(i), s) PROVE Single(Append(s, e))
  <2> SUFFICES ASSUME NEW i \in Interactions, NEW j \in 1..Len(Append(s, e)), NEW k \in 1..Len(Append(s, e)),
                      Append(s, e)[j] = Ask(i), Append(s, e)[k] = Ask(i)
               PROVE  j = k
    BY DEF Single
  <2>1. (j \in 1..Len(s) \/ j = Len(s) + 1) /\ (k \in 1..Len(s) \/ k = Len(s) + 1)
    BY <1>1
  <2> QED
    BY <1>1, <1>3, <2>1 DEF Single, Occurs
<1> QED
  BY <1>1, <1>2, <1>3

LEMMA TailFacts ==
  ASSUME NEW s \in Seq(Events), s # <<>>
  PROVE  /\ Tail(s) \in Seq(Events) /\ Head(s) \in Events /\ Occurs(Head(s), s)
         /\ \A x : Occurs(x, Tail(s)) => Occurs(x, s)
         /\ Single(s) => Single(Tail(s))
         /\ Single(s) => \A i \in Interactions : Head(s) = Ask(i) => ~Occurs(Ask(i), Tail(s))
<1>1. /\ Tail(s) \in Seq(Events) /\ Len(s) \in Nat \ {0} /\ Len(Tail(s)) = Len(s) - 1
      /\ Head(s) = s[1] /\ Head(s) \in Events
      /\ \A j \in 1..Len(Tail(s)) : j + 1 \in 1..Len(s) /\ Tail(s)[j] = s[j + 1]
  OBVIOUS
<1>2. 1 \in 1..Len(s)
  BY <1>1
<1>3. \A x : Occurs(x, Tail(s)) => Occurs(x, s)
  BY <1>1 DEF Occurs
<1>4. Single(s) => Single(Tail(s))
  <2> SUFFICES ASSUME Single(s), NEW i \in Interactions, NEW j \in 1..Len(Tail(s)), NEW k \in 1..Len(Tail(s)),
                      Tail(s)[j] = Ask(i), Tail(s)[k] = Ask(i)
               PROVE  j = k
    BY DEF Single
  <2>1. j + 1 = k + 1
    BY <1>1 DEF Single
  <2> QED
    BY <2>1
<1>5. ASSUME Single(s), NEW i \in Interactions, Head(s) = Ask(i), Occurs(Ask(i), Tail(s)) PROVE FALSE
  <2>1. PICK j \in 1..Len(Tail(s)) : Tail(s)[j] = Ask(i)
    BY <1>5 DEF Occurs
  <2>2. j + 1 = 1
    BY <1>1, <1>2, <1>5, <2>1 DEF Single
  <2> QED
    BY <2>2
<1> QED
  BY <1>1, <1>2, <1>3, <1>4, <1>5 DEF Occurs

LEMMA EventsDiffer ==
  /\ Cancelled \in Events /\ Cancelled.kind = "cancelled"
  /\ \A i \in Interactions : Ask(i) \in Events /\ Ask(i).kind = "asked" /\ Ask(i).on = i /\ Ask(i) # Cancelled
BY DEF Cancelled, Ask, Events

----------------------------------------------------------------------------
(* The steps, one by one.                                                  *)

\* A step that may stop the provider.
LEMMA RunAct ==
  ASSUME SessionInv, server = "up", session # "none", NEW t \in Tasks, NEW pc, Moves(t, pc), TaskInv(t)',
         pc \notin {"create", "launch"}, task[t].pc # "open",
         UNCHANGED <<rows, late, memory, buffer, adapter, unasked, answered, denied, server>>,
         asking' \subseteq asking,
         run' = run \/ run' = "aborted",
         events' = events \/ (events' = Append(events, Cancelled) /\ run' = "aborted")
  PROVE  SessionInv'
<1>0. /\ events' \in Seq(Events) /\ Single(events')
      /\ \A i \in Interactions : Occurs(Ask(i), events') <=> Occurs(Ask(i), events)
      /\ run' # "aborted" => events' = events
  <2>1. events \in Seq(Events) /\ Single(events)
    BY DEF SessionInv, TypeOK, AskInv
  <2>2. CASE events' = events
    BY <2>1, <2>2
  <2>3. CASE events' = Append(events, Cancelled) /\ run' = "aborted"
    <3>1. Cancelled \in Events /\ \A i \in Interactions : Ask(i) # Cancelled
      BY EventsDiffer
    <3>2. /\ Append(events, Cancelled) \in Seq(Events) /\ Single(Append(events, Cancelled))
          /\ \A x : Occurs(x, Append(events, Cancelled)) <=> Occurs(x, events) \/ x = Cancelled
      BY <2>1, <3>1, AppendFacts
    <3> QED
      BY <2>3, <3>1, <3>2
  <2> QED
    BY <2>2, <2>3
<1>1. Mono(t)
  BY <1>0 DEF Mono, NoneBack, Fresh, rows
<1>2. TypeOK'
  BY <1>0 DEF SessionInv, TypeOK, Moves, rows, memory
<1>3. AskInv'
  <2>1. task'[Handler].pc = "create" => task[Handler].pc = "create" /\ task'[Handler] = task[Handler]
    BY DEF Moves, Tasks
  <2>2. task'[Starter].pc = "create" => task[Starter].pc = "create" /\ task'[Starter] = task[Starter]
    BY DEF Moves, Tasks
  <2> QED
    BY <1>0, <2>1, <2>2 DEF SessionInv, AskInv, rows
<1>4. StopInv'
  BY <1>0 DEF SessionInv, StopInv, rows
<1>5. OpenInv'
  <2>1. Starter \in Tasks /\ TaskInv(Starter)
    BY DEF Tasks, SessionInv
  <2>2. task'[Starter].pc # "launch"
    BY <2>1 DEF Moves, TaskInv
  <2> QED
    BY <2>2 DEF SessionInv, OpenInv, rows, memory
<1>6. AnswerInv' /\ ServerInv' /\ CompletedAsked'
  BY DEF SessionInv, AnswerInv, ServerInv, CompletedAsked, rows
<1> QED
  BY <1>1, <1>2, <1>3, <1>4, <1>5, <1>6, TaskAct

LEMMA AbortEffect ==
  ASSUME NEW t \in Tasks, AbortRun(t) \/ UNCHANGED <<events, provider>>
  PROVE  /\ asking' \subseteq asking /\ UNCHANGED <<adapter, unasked, answered, denied>>
         /\ run' = run \/ (run = "running" /\ run' = "aborted")
         /\ events' = events \/ (events' = Append(events, Cancelled) /\ run' = "aborted")
BY DEF AbortRun, Cancelled, provider

LEMMA CancelPendingEffect ==
  ASSUME TypeOK, CancelPending
  PROVE  /\ inter' \in [Interactions -> Row]
         /\ \A i \in Interactions :
              /\ inter'[i].by = inter[i].by /\ inter'[i].round = inter[i].round
              /\ inter'[i].state = IF inter[i].state \in {"pending", "resolving"}
                                   THEN "cancelled" ELSE inter[i].state
<1>1. \A i \in Interactions :
        inter'[i] = IF inter[i].state \in {"pending", "resolving"}
                    THEN [inter[i] EXCEPT !.state = "cancelled"] ELSE inter[i]
  BY DEF CancelPending
<1>2. ASSUME NEW i \in Interactions
      PROVE  LET c == [inter[i] EXCEPT !.state = "cancelled"]
             IN  inter[i] \in Row /\ c \in Row /\ c.state = "cancelled" /\ c.by = inter[i].by /\ c.round = inter[i].round
  BY DEF TypeOK, Row
<1>3. inter' = [i \in Interactions |-> inter'[i]]
  BY DEF CancelPending
<1>4. ASSUME NEW i \in Interactions
      PROVE  /\ inter'[i] \in Row
             /\ inter'[i].by = inter[i].by /\ inter'[i].round = inter[i].round
             /\ inter'[i].state = IF inter[i].state \in {"pending", "resolving"}
                                  THEN "cancelled" ELSE inter[i].state
  BY <1>1, <1>2
<1> QED
  BY <1>3, <1>4

LEMMA PlacesOf ==
  ASSUME NEW t \in Tasks
  PROVE  /\ {"idle", "close", "fail", "fail_row", "fail_end", "abort"} \subseteq Places(t) /\ Places(t) \subseteq Steps
         /\ t = Starter => {"replay", "open", "consume"} \cup Consuming \subseteq Places(t)
         /\ t = Handler => Consuming \subseteq Places(t)
         /\ t \in {Handler, Starter} => t \notin Responders \cup Interactions \cup Cancellers
         /\ t \in Responders =>
              {"look", "expire", "deliver", "contact", "answered", "resolve", "release",
               "tally", "resume", "resume_row", "stop", "stop_row", "settle_end"} \subseteq Places(t)
         /\ t \in Interactions => "check" \in Places(t)
         /\ t \in Cancellers =>
              {"cancel_close", "cancel_run", "reconcile", "cancel_read", "stop", "stop_row", "settle_end"} \subseteq Places(t)
BY TasksAssumption DEF Places, Failing, Consuming, Tasks, Steps

LEMMA SessionTyped ==
  ASSUME SessionInv
  PROVE  /\ inter \in [Interactions -> Row] /\ task \in [Tasks -> TaskRecord] /\ active \in BOOLEAN
         /\ late \cup armed \cup unasked \cup asking \subseteq Interactions
         /\ exec \in {"none"} \cup Working \cup Terminal
         /\ {"running", "failed", "cancelled", "completed", "waiting_for_interaction"} \subseteq Lifecycle!Status \ {"none"}
         /\ run \in {"none", "running", "ended", "aborted", "lost"}
BY DEF SessionInv, TypeOK, OpenInv, Lifecycle!Status, Lifecycle!Session

\* A denial, in whatever task: what it denies is in the adapter's map, so no record
\* says that it was resolved.
LEMMA DenyKeeps ==
  ASSUME SessionInv, NEW t \in Tasks, Deny(t)
  PROVE  SessionInv'
<1>1. /\ task[t].pc \in {"abort", "cancel_run"}
      /\ UNCHANGED <<rows, late, memory, buffer, events, adapter, run, unasked, asking, answered, server>>
  BY DEF Deny
<1>2. PICK i \in ToDeny(t) :
        /\ denied' = [denied EXCEPT ![i] = inter[i].state]
        /\ task' = [task EXCEPT ![t].told = @ \cup {i}]
  BY DEF Deny
<1>3. i \in asking /\ i \in Interactions /\ inter[i] \in Row
  BY SessionTyped DEF ToDeny
<1>4. denied' \in [Interactions -> States \cup {"never"}] /\ \A k \in Interactions : denied'[k] # "resolved"
  BY <1>2, <1>3 DEF SessionInv, TypeOK, AnswerInv, Row
<1>5. TaskInv(t) /\ task[t] \in TaskRecord
  BY SessionTyped DEF SessionInv
<1> DEFINE new == [task[t] EXCEPT !.told = @ \cup {i}]
<1>6. /\ new \in TaskRecord /\ new.pc = task[t].pc /\ new.on = task[t].on /\ new.said = task[t].said
      /\ new.round = task[t].round /\ new.live = task[t].live
  BY <1>3, <1>5 DEF TaskRecord
<1>7. task' = [task EXCEPT ![t] = new]
  BY <1>2
<1> HIDE DEF new
<1>8. Moves(t, task[t].pc) /\ Keeps(t)
  <2>1. new.pc # "idle"
    BY <1>1, <1>6
  <2>2. Moves(t, new.pc) /\ task'[t] = new
    BY <1>6, <1>7, <2>1, SetEffect, SessionTyped
  <2> QED
    BY <1>6, <2>2 DEF Keeps
<1>9. TaskInv(t)'
  BY <1>1, <1>5, <1>8 DEF TaskInv, Moves, rows
<1>10. Mono(t)
  BY <1>1 DEF Mono, NoneBack, Fresh, rows
<1>11. TypeOK'
  BY <1>1, <1>4, <1>8 DEF SessionInv, TypeOK, Moves, rows, memory
<1>12. AskInv' /\ StopInv' /\ OpenInv'
  <2>1. \A q \in {Handler, Starter} : task'[q].pc = task[q].pc /\ task'[q].on = task[q].on
    BY <1>8 DEF Moves, Keeps, Tasks
  <2> QED
    BY <1>1, <2>1 DEF SessionInv, AskInv, StopInv, OpenInv, rows, memory
<1>13. AnswerInv' /\ ServerInv' /\ CompletedAsked'
  BY <1>1, <1>4 DEF SessionInv, AnswerInv, ServerInv, CompletedAsked, rows, memory
<1> QED
  BY <1>8, <1>9, <1>10, <1>11, <1>12, <1>13, TaskAct

\* failAndTerminate() and failExecution(), whoever runs them.
LEMMA FailKeeps ==
  ASSUME SessionInv, NEW t \in Tasks, FailStep(t), ~Deny(t)
  PROVE  SessionInv'
<1> USE SessionTyped, PlacesOf
<1>0. task[t].pc \in Failing
  BY DEF FailStep, Close, FailSession, FailRow, FailEnd, Abort, Failing
<1>1. /\ exec # "none" /\ server = "up" /\ TaskInv(t)
      /\ session = "none" => t = Starter /\ ~task[t].live /\ task[t].pc \in {"fail", "fail_row", "fail_end"}
  BY <1>0, Alive DEF Failing
<1>2. CASE Close(t)
  <2>1. /\ task[t].pc = "close" /\ Moves(t, "fail") /\ CancelPending
        /\ UNCHANGED <<exec, session, late, memory, buffer, events, provider, server>>
    BY <1>2, GotoEffect DEF Close, Steps
  <2>2. TaskInv(t)'
    BY <1>1, <2>1, PlainPlace
  <2>3. /\ inter' \in [Interactions -> Row]
        /\ \A i \in Interactions :
             /\ inter'[i].by = inter[i].by /\ inter'[i].round = inter[i].round
             /\ inter'[i].state = IF inter[i].state \in {"pending", "resolving"}
                                  THEN "cancelled" ELSE inter[i].state
    BY <2>1, CancelPendingEffect DEF SessionInv
  <2> QED
    BY <1>1, <2>1, <2>2, <2>3, InterAct DEF memory, SessionInv, AnswerInv
<1>3. CASE FailSession(t)
  <2>1. /\ task[t].pc = "fail" /\ Moves(t, "fail_row") /\ Keeps(t)
        /\ session' = IF session = "none" THEN session ELSE "failed"
        /\ UNCHANGED <<exec, inter, late, memory, buffer, events, provider, server>>
    BY <1>3, GotoEffect DEF FailSession, SetSession, Steps
  <2>2. TaskInv(t)'
    BY <1>1, <2>1, PlainPlace DEF Keeps
  <2> QED
    BY <1>1, <2>1, <2>2, RowAct DEF memory, provider
<1>4. CASE FailRow(t)
  <2>1. /\ task[t].pc = "fail_row" /\ Moves(t, "fail_end") /\ Keeps(t)
        /\ exec' = IF exec \in Working THEN "failed" ELSE exec
        /\ UNCHANGED <<session, inter, late, memory, buffer, events, provider, server>>
    BY <1>4, GotoEffect DEF FailRow, Transition, Steps
  <2>2. exec' \in Terminal
    BY <1>1, <2>1
  <2>3. TaskInv(t)'
    BY <1>1, <2>1, <2>2 DEF TaskInv, Moves, Keeps
  <2> QED
    BY <1>1, <2>1, <2>3, RowAct DEF memory, provider
<1>5. CASE FailEnd(t)
  <2>1. /\ task[t].pc = "fail_end" /\ ClearActive
        /\ Return(t, IF task[t].live THEN "abort" ELSE Back(t))
        /\ UNCHANGED <<rows, late, buffer, events, provider, server>>
    BY <1>5 DEF FailEnd
  <2>2. exec \in Terminal
    BY <1>1, <2>1 DEF TaskInv
  <2>3. PICK pc \in {"abort", "replay", "idle"} :
          /\ Moves(t, pc) /\ ~task'[t].live /\ (pc = "abort" => task[t].live) /\ (pc = "replay" => t = Starter)
    BY <2>1, ReturnEffect DEF Back
  <2>4. TaskInv(t)'
    <3>1. CASE pc = "abort"
      BY <1>1, <2>1, <2>2, <2>3, <3>1 DEF TaskInv, Moves, rows
    <3>2. CASE pc # "abort"
      <4>1. /\ exec' # "none" /\ server' = "up"
            /\ pc \in Places(t) /\ pc \in {"idle", "replay"}
        BY <1>1, <2>1, <2>3, <3>2 DEF rows
      <4> QED
        BY <2>3, <4>1, PlainPlace
    <3> QED
      BY <3>1, <3>2
  <2> QED
    BY <1>1, <2>1, <2>2, <2>3, <2>4, RowAct DEF rows, provider, ClearActive
<1>6. CASE Abort(t)
  <2>1. /\ task[t].pc = "abort" /\ (AbortRun(t) \/ UNCHANGED <<events, provider>>) /\ Return(t, Back(t))
        /\ UNCHANGED <<rows, late, memory, buffer, server>>
    BY <1>6 DEF Abort
  <2>2. PICK pc \in {"replay", "idle"} : Moves(t, pc) /\ ~task'[t].live /\ (pc = "replay" => t = Starter)
    BY <2>1, ReturnEffect DEF Back
  <2>3. TaskInv(t)'
    <3>1. pc \in Places(t) /\ exec' # "none" /\ server' = "up"
      BY <1>1, <2>1, <2>2 DEF rows
    <3> QED
      BY <2>2, <3>1, PlainPlace
  <2>4. session # "none"
    BY <1>1, <2>1
  <2> QED
    BY <1>1, <2>1, <2>2, <2>3, <2>4, AbortEffect, RunAct
<1> QED
  BY <1>2, <1>3, <1>4, <1>5, <1>6, Alive DEF FailStep

\* failAndTerminate() and failExecution() can begin wherever there is a session.
LEMMA GivesUp ==
  ASSUME SessionInv, server = "up", exec # "none", session # "none", NEW t \in Tasks,
         Terminate(t) \/ FailOnly(t) \/ Stop(t),
         UNCHANGED <<rows, late, memory, buffer, events, provider, server>>,
         task[t].pc # "open"
  PROVE  SessionInv'
<1> USE SessionTyped, PlacesOf
<1>1. PICK pc \in {"close", "fail", "idle"} : Moves(t, pc)
  BY TerminateEffect, FailOnlyEffect, StopEffect
<1>2. TaskInv(t)'
  <2>1. CASE pc = "close"
    BY <1>1, <2>1 DEF TaskInv, Moves, rows
  <2>2. CASE pc # "close"
    <3>1. pc \in Places(t) /\ exec' # "none" /\ server' = "up" /\ session' # "none"
      BY <1>1 DEF rows
    <3> QED
      BY <1>1, <2>2, <3>1, PlainPlace
  <2> QED
    BY <2>1, <2>2
<1> QED
  BY <1>1, <1>2, RowAct DEF rows, memory, provider

\* consumeEvent() but for the creation of a record.
LEMMA EventKeeps ==
  ASSUME SessionInv, NEW t \in Tasks, EventStep(t), ~Create(t)
  PROVE  SessionInv'
<1> USE SessionTyped, PlacesOf
<1>0. task[t].pc \in Consuming
  BY DEF EventStep, Create, MarkWaiting, MarkRow, ListPending, Settle, SettleRow, StopSession, StopRow, SettleEnd, Consuming
<1>1. exec # "none" /\ server = "up" /\ TaskInv(t) /\ session # "none"
  BY <1>0, Alive DEF Consuming
<1>2. CASE MarkWaiting(t)
  <2>1. /\ task[t].pc = "mark" /\ Moves(t, "mark_row") /\ session' = "waiting_for_interaction"
        /\ UNCHANGED <<exec, inter, late, memory, buffer, events, provider, server>>
    BY <1>2, GotoEffect DEF MarkWaiting, SetSession, Steps
  <2>2. t \in {Handler, Starter}
    BY <1>1, <2>1, TasksAssumption DEF TaskInv, Places, Failing, Tasks
  <2>3. TaskInv(t)'
    <3>1. "mark_row" \in Places(t) /\ "mark_row" \in Plain
      BY <2>2 DEF Consuming, Plain
    <3> QED
      BY <1>1, <2>1, <3>1, PlainPlace
  <2> QED
    BY <1>1, <2>1, <2>3, RowAct DEF memory, provider
<1>3. CASE MarkRow(t)
  <2>1. /\ task[t].pc = "mark_row" /\ Return(t, Back(t))
        /\ exec' = IF exec = "running" THEN "waiting_for_interaction" ELSE exec
        /\ UNCHANGED <<session, inter, late, memory, buffer, events, provider, server>>
    BY <1>3 DEF MarkRow, Transition
  <2>2. PICK pc \in {"replay", "idle"} : Moves(t, pc) /\ (pc = "replay" => t = Starter)
    BY <2>1, ReturnEffect DEF Back
  <2>3. TaskInv(t)'
    <3>1. pc \in Places(t) /\ exec' # "none" /\ server' = "up" /\ session' # "none"
      BY <1>1, <2>1, <2>2
    <3> QED
      BY <2>2, <3>1, PlainPlace
  <2> QED
    BY <1>1, <2>1, <2>2, <2>3, RowAct DEF memory, provider
<1>4. CASE ListPending(t)
  <2>1. /\ task[t].pc = "list" /\ UNCHANGED <<rows, late, memory, buffer, events, provider, server>>
        /\ \/ Terminate(t) \/ FailOnly(t)
           \/ Goto(t, "settle") /\ (task[t].said = "completed" => required = {})
    BY <1>4 DEF ListPending
  <2>2. CASE Terminate(t) \/ FailOnly(t)
    BY <1>1, <2>1, <2>2, GivesUp
  <2>3. CASE Goto(t, "settle") /\ (task[t].said = "completed" => required = {})
    <3>1. Moves(t, "settle") /\ Keeps(t)
      BY <2>3, GotoEffect DEF Steps
    <3>2. task[t].said = "completed" => exec \in Terminal \/ AllAsked
      BY <1>1, <2>3 DEF SessionInv, OpenInv, AllAsked
    <3>3. t \in {Handler, Starter}
      BY <1>1, <2>1, TasksAssumption DEF TaskInv, Places, Failing, Tasks
    <3>4. TaskInv(t)'
      <4>1. "settle" \in Places(t)
        BY <3>3 DEF Consuming
      <4> QED
        BY <1>1, <2>1, <3>1, <3>2, <4>1 DEF TaskInv, Moves, Keeps, rows, AllAsked
    <3> QED
      BY <1>1, <2>1, <3>1, <3>4, RowAct DEF rows, memory, provider
  <2> QED
    BY <2>1, <2>2, <2>3
<1>5. CASE Settle(t)
  <2>1. /\ task[t].pc = "settle" /\ Moves(t, "settle_row") /\ Keeps(t)
        /\ session' \in {"failed", "completed"}
        /\ UNCHANGED <<exec, inter, late, memory, buffer, events, provider, server>>
    BY <1>5, GotoEffect DEF Settle, SetSession, Steps
  <2>2. t \in {Handler, Starter}
    BY <1>1, <2>1, TasksAssumption DEF TaskInv, Places, Failing, Tasks
  <2>3. TaskInv(t)'
    <3>1. "settle_row" \in Places(t)
      BY <2>2 DEF Consuming
    <3> QED
      BY <1>1, <2>1, <3>1 DEF TaskInv, Moves, Keeps, AllAsked
  <2> QED
    BY <1>1, <2>1, <2>3, RowAct DEF memory, provider
<1>6. CASE SettleRow(t)
  <2>1. /\ task[t].pc = "settle_row" /\ Moves(t, "settle_end") /\ Keeps(t)
        /\ exec' = IF exec \in Working THEN task[t].said ELSE exec
        /\ UNCHANGED <<session, inter, late, memory, buffer, events, provider, server>>
    BY <1>6, GotoEffect DEF SettleRow, Transition, Steps
  <2>2. t \in {Handler, Starter} /\ task[t].said \in {"completed", "partial", "failed"}
    BY <1>1, <2>1, TasksAssumption DEF TaskInv, Places, Failing, Tasks
  <2>3. exec' \in Terminal /\ (exec' = "completed" => exec = "completed" \/ AllAsked)
    BY <1>1, <2>1, <2>2 DEF TaskInv
  <2>4. TaskInv(t)'
    <3>1. "settle_end" \in Places(t) /\ t \notin Responders
      BY <2>2 DEF Consuming
    <3> QED
      BY <1>1, <2>1, <2>3, <3>1 DEF TaskInv, Moves
  <2> QED
    BY <1>1, <2>1, <2>2, <2>3, <2>4, RowAct DEF memory, provider
<1>7. CASE StopSession(t)
  <2>1. /\ task[t].pc = "stop" /\ Moves(t, "stop_row") /\ Keeps(t) /\ session' = "cancelled"
        /\ UNCHANGED <<exec, inter, late, memory, buffer, events, provider, server>>
    BY <1>7, GotoEffect DEF StopSession, SetSession, Steps
  <2>2. TaskInv(t)'
    <3>1. t \in {Handler, Starter} \cup Responders \cup Cancellers
      BY <1>1, <2>1, TasksAssumption DEF TaskInv, Places, Failing, Tasks
    <3>2. "stop_row" \in Places(t)
      BY <3>1 DEF Consuming
    <3> QED
      BY <1>1, <2>1, <3>2 DEF TaskInv, Moves, Keeps, Holds, provider
  <2> QED
    BY <1>1, <2>1, <2>2, RowAct DEF memory, provider
<1>8. CASE StopRow(t)
  <2>1. /\ task[t].pc = "stop_row" /\ Moves(t, "settle_end") /\ Keeps(t) /\ run = "aborted"
        /\ exec' = IF exec \in Working THEN "cancelled" ELSE exec
        /\ UNCHANGED <<session, inter, late, memory, buffer, events, provider, server>>
    BY <1>1, <1>8, GotoEffect DEF StopRow, Transition, Steps, TaskInv
  <2>2. TaskInv(t)'
    <3>1. t \in {Handler, Starter} \cup Responders \cup Cancellers
      BY <1>1, <2>1, TasksAssumption DEF TaskInv, Places, Failing, Tasks
    <3>2. "settle_end" \in Places(t)
      BY <3>1 DEF Consuming
    <3> QED
      BY <1>1, <2>1, <3>2 DEF TaskInv, Moves, Keeps, Holds, provider
  <2> QED
    BY <1>1, <2>1, <2>2, RowAct DEF memory, provider
<1>9. CASE SettleEnd(t)
  <2>1. /\ task[t].pc = "settle_end" /\ ClearActive /\ Return(t, After(t)) /\ exec \in Terminal
        /\ UNCHANGED <<rows, late, buffer, events, provider, server>>
    BY <1>1, <1>9 DEF SettleEnd, TaskInv
  <2>2. PICK pc \in {"resolve", "replay", "idle"} :
          /\ Moves(t, pc) /\ (pc = "replay" => t = Starter)
          /\ pc = "resolve" => t \in Responders /\ Keeps(t)
    BY <2>1, ReturnEffect DEF After, Back
  <2>3. TaskInv(t)'
    <3>1. CASE pc = "resolve"
      <4>1. "resolve" \in Places(t)
        BY <2>2, <3>1
      <4> QED
        BY <1>1, <2>1, <2>2, <3>1, <4>1 DEF TaskInv, Moves, Keeps, Holds, provider, rows
    <3>2. CASE pc # "resolve"
      <4>1. pc \in Places(t) /\ exec' # "none" /\ server' = "up" /\ session' # "none"
        BY <1>1, <2>1, <2>2, <3>2 DEF rows
      <4> QED
        BY <2>2, <3>2, <4>1, PlainPlace
    <3> QED
      BY <3>1, <3>2
  <2> QED
    BY <1>1, <2>1, <2>2, <2>3, RowAct DEF rows, provider, ClearActive
<1> QED
  BY <1>2, <1>3, <1>4, <1>5, <1>6, <1>7, <1>8, <1>9 DEF EventStep

\* A step that only moves its task, to a place where it relies on nothing.
LEMMA PlainStep ==
  ASSUME SessionInv, server = "up", exec # "none", session # "none", NEW t \in Tasks,
         NEW pc \in Places(t) \cap (Plain \cup {"idle"}), Moves(t, pc),
         UNCHANGED <<rows, late, memory, buffer, events, provider, server>>,
         task[t].pc # "open"
  PROVE  SessionInv'
<1>1. exec' # "none" /\ server' = "up" /\ session' # "none"
  BY DEF rows
<1>2. TaskInv(t)' /\ pc \notin {"create", "launch"}
  BY <1>1, PlainPlace DEF Plain
<1> QED
  BY <1>2, RowAct, SessionTyped DEF rows, memory, provider

\* A step that rewrites one record that is pending, or that answer t has claimed.
LEMMA EditAct ==
  ASSUME SessionInv, server = "up", NEW t \in Tasks, NEW pc, Moves(t, pc), TaskInv(t)',
         pc \notin {"create", "launch"}, task[t].pc # "open",
         UNCHANGED <<exec, session, late, active, required, events, buffer, provider, server>>,
         armed' \subseteq armed,
         NEW i \in Interactions, NEW row \in Row, inter' = [inter EXCEPT ![i] = row],
         inter[i].state \in {"pending", "resolving"}, row.state # "none",
         inter[i].state = "resolving" => inter[i].by = t,
         row.state \in {"pending", "expired"} => answered[i] = 0,
         row.state = "resolved" => answered[i] = 1 /\ i \notin asking
  PROVE  SessionInv'
<1>1. /\ inter' \in [Interactions -> Row] /\ inter'[i] = row
      /\ \A k \in Interactions \ {i} : inter'[k] = inter[k]
  BY SessionTyped
<1>2. \A k \in Interactions :
           /\ inter[k].state = "none" <=> inter'[k].state = "none"
           /\ inter[k].state \in {"resolving", "cancelled"} /\ inter[k].by # t =>
                /\ inter'[k].state \in {"resolving", "cancelled"}
                /\ inter'[k].by = inter[k].by /\ inter'[k].round = inter[k].round
           /\ inter'[k].state \in {"pending", "expired"} => answered[k] = 0
           /\ inter'[k].state = "resolved" => answered[k] = 1 /\ k \notin asking
  BY <1>1 DEF SessionInv, AnswerInv
<1> QED
  BY <1>1, <1>2, InterAct

LEMMA RowEdits ==
  ASSUME NEW old \in Row
  PROVE  /\ \A state \in {"resolved", "expired"} :
              LET row == [old EXCEPT !.state = state] IN row \in Row /\ row.state = state
         /\ old.round \in 0..MaxRounds
BY DEF Row

\* Where an answer stands.
LEMMA Answering ==
  ASSUME SessionInv, NEW r \in Responders, task[r].pc # "idle"
  PROVE  /\ r \in Tasks /\ r \notin {Handler, Starter} /\ task[r] \in TaskRecord
         /\ exec # "none" /\ server = "up" /\ session # "none" /\ TaskInv(r)
<1>1. r \in Tasks
  BY DEF Tasks
<1> QED
  BY <1>1, Alive, PlacesOf

LEMMA ClaimKeeps ==
  ASSUME SessionInv, NEW r \in Responders, Claim(r)
  PROVE  SessionInv'
<1> DEFINE i == task[r].on
<1>0. /\ task[r].pc = "claim"
      /\ UNCHANGED <<exec, session, late, memory, buffer, events, provider, server>>
  BY DEF Claim
<1>1. /\ r \in Tasks /\ r \notin {Handler, Starter} /\ task[r] \in TaskRecord
      /\ exec # "none" /\ server = "up" /\ session # "none" /\ TaskInv(r)
  BY <1>0, Answering
<1>2. i \in Interactions
  BY <1>0, <1>1, SessionTyped DEF TaskInv
<1>3. CASE /\ inter[i].state = "pending"
           /\ inter' = [inter EXCEPT ![i].state = "resolving", ![i].by = r]
           /\ task' = [task EXCEPT ![r].pc = "deliver", ![r].round = 0]
  <2>1. inter[i] \in Row /\ 0 \in 0..MaxRounds /\ "deliver" \in Steps
    BY <1>2, BoundsAssumption, SessionTyped DEF Steps
  <2> DEFINE row == [inter[i] EXCEPT !.state = "resolving", !.by = r]
             new == [task[r] EXCEPT !.pc = "deliver", !.round = 0]
  <2>2. row \in Row /\ row.state = "resolving" /\ row.by = r /\ row.round = inter[i].round
    BY <2>1 DEF Row
  <2>3. new \in TaskRecord /\ new.pc = "deliver" /\ new.on = i
    BY <1>1, <2>1 DEF TaskRecord
  <2>4. inter' = [inter EXCEPT ![i] = row] /\ task' = [task EXCEPT ![r] = new]
    BY <1>3
  <2> HIDE DEF row, new
  <2>5. Moves(r, "deliver") /\ task'[r].on = i
    BY <1>1, <2>3, <2>4, SetEffect, SessionTyped
  <2>6. answered[i] = 0
    BY <1>2, <1>3 DEF SessionInv, AnswerInv
  <2>7. inter'[i] = row
    BY <1>2, <2>4, SessionTyped
  <2>8. TaskInv(r)'
    <3>1. Holds(r)' /\ answered'[task'[r].on] = 0
      BY <1>0, <1>2, <2>2, <2>7, <2>5, <2>6 DEF Holds, provider
    <3> QED
      BY <1>0, <1>1, <2>5, <3>1, PlacesOf DEF TaskInv, Moves
  <2> HIDE DEF i
  <2>9. inter' = [inter EXCEPT ![i] = row] /\ armed' = armed /\ row.state = "resolving"
        /\ inter[i].state = "pending" /\ task[r].pc = "claim"
        /\ UNCHANGED <<exec, session, late, active, required, events, buffer, provider, server>>
    BY <1>0, <1>3, <2>2, <2>4 DEF memory
  <2> QED
    BY <1>1, <1>2, <2>2, <2>5, <2>8, <2>9, EditAct
<1>4. CASE UNCHANGED inter /\ Goto(r, "look")
  <2>1. Moves(r, "look") /\ Keeps(r)
    BY <1>1, <1>4, GotoEffect, SessionTyped DEF Steps
  <2>2. TaskInv(r)'
    BY <1>0, <1>1, <1>2, <1>4, <2>1, PlacesOf DEF TaskInv, Moves, Keeps
  <2> QED
    BY <1>0, <1>1, <1>4, <2>1, <2>2, RowAct, SessionTyped DEF memory, provider
<1> QED
  BY <1>3, <1>4 DEF Claim

LEMMA LookKeeps ==
  ASSUME SessionInv, NEW r \in Responders, Look(r)
  PROVE  SessionInv'
<1> DEFINE i == task[r].on
<1>0. task[r].pc = "look" /\ UNCHANGED <<rows, late, memory, buffer, events, provider, server>>
  BY DEF Look
<1>1. /\ r \in Tasks /\ r \notin {Handler, Starter} /\ task[r] \in TaskRecord
      /\ exec # "none" /\ server = "up" /\ session # "none" /\ TaskInv(r)
  BY <1>0, Answering
<1>2. i \in Interactions /\ inter[i] \in Row
  BY <1>0, <1>1, SessionTyped DEF TaskInv
<1>3. CASE Stop(r)
  BY <1>0, <1>1, <1>3, GivesUp, SessionTyped
<1>4. CASE task' = [task EXCEPT ![r].pc = "expire", ![r].round = inter[i].round]
  <2> DEFINE new == [task[r] EXCEPT !.pc = "expire", !.round = inter[i].round]
  <2>1. inter[i].round \in 0..MaxRounds /\ "expire" \in Steps
    BY <1>2, RowEdits DEF Steps
  <2>2. new \in TaskRecord /\ new.pc = "expire" /\ new.on = i
    BY <1>1, <2>1 DEF TaskRecord
  <2>3. task' = [task EXCEPT ![r] = new]
    BY <1>4
  <2> HIDE DEF new
  <2>4. Moves(r, "expire") /\ task'[r].on = i
    BY <1>1, <2>2, <2>3, SetEffect, SessionTyped
  <2>5. TaskInv(r)'
    BY <1>0, <1>1, <1>2, <2>4, PlacesOf DEF TaskInv, Moves, rows
  <2> QED
    BY <1>0, <1>1, <2>4, <2>5, RowAct, SessionTyped DEF rows, memory, provider
<1> QED
  BY <1>3, <1>4 DEF Look

LEMMA ExpireRowKeeps ==
  ASSUME SessionInv, NEW r \in Responders, ExpireRow(r)
  PROVE  SessionInv'
<1> USE SessionTyped, PlacesOf
<1> DEFINE i == task[r].on
<1>0. /\ task[r].pc = "expire" /\ Terminate(r)
      /\ UNCHANGED <<exec, session, late, memory, buffer, events, provider, server>>
  BY DEF ExpireRow
<1>1. /\ r \in Tasks /\ r \notin {Handler, Starter} /\ task[r] \in TaskRecord
      /\ exec # "none" /\ server = "up" /\ session # "none" /\ TaskInv(r)
  BY <1>0, Answering
<1>2. i \in Interactions /\ inter[i] \in Row
  BY <1>0, <1>1 DEF TaskInv
<1>3. Moves(r, "close")
  BY <1>0, <1>1, TerminateEffect
<1>4. TaskInv(r)'
  BY <1>0, <1>1, <1>3 DEF TaskInv, Moves
<1>5. CASE UNCHANGED inter
  BY <1>0, <1>1, <1>3, <1>4, <1>5, RowAct DEF memory, provider
<1>6. CASE inter[i].state = "pending" /\ SetState(i, "expired")
  <2> DEFINE row == [inter[i] EXCEPT !.state = "expired"]
  <2>1. row \in Row /\ row.state = "expired"
    BY <1>2, RowEdits
  <2>2. inter' = [inter EXCEPT ![i] = row]
    BY <1>6 DEF SetState
  <2>3. answered[i] = 0
    BY <1>2, <1>6 DEF SessionInv, AnswerInv
  <2> HIDE DEF row, i
  <2> QED
    BY <1>0, <1>1, <1>2, <1>3, <1>4, <1>6, <2>1, <2>2, <2>3, EditAct DEF memory
<1> QED
  BY <1>5, <1>6 DEF ExpireRow

LEMMA DeliverKeeps ==
  ASSUME SessionInv, NEW r \in Responders, Deliver(r)
  PROVE  SessionInv'
<1> USE SessionTyped, PlacesOf
<1>0. task[r].pc = "deliver" /\ UNCHANGED <<rows, late, memory, buffer, events, provider, server>>
  BY DEF Deliver
<1>1. /\ r \in Tasks /\ r \notin {Handler, Starter} /\ task[r] \in TaskRecord
      /\ exec # "none" /\ server = "up" /\ session # "none" /\ TaskInv(r)
  BY <1>0, Answering
<1>2. CASE Terminate(r) \/ FailOnly(r)
  BY <1>0, <1>1, <1>2, GivesUp
<1>3. CASE Goto(r, "contact")
  <2>1. Moves(r, "contact") /\ Keeps(r)
    BY <1>1, <1>3, GotoEffect DEF Steps
  <2>2. TaskInv(r)'
    BY <1>0, <1>1, <2>1 DEF TaskInv, Moves, Keeps, Holds, rows, provider
  <2> QED
    BY <1>0, <1>1, <2>1, <2>2, RowAct DEF rows, memory, provider
<1> QED
  BY <1>2, <1>3 DEF Deliver

\* The provider is given the answer of whoever claimed the interaction.
LEMMA ContactKeeps ==
  ASSUME SessionInv, NEW r \in Responders, Contact(r)
  PROVE  SessionInv'
<1> USE SessionTyped, PlacesOf
<1> DEFINE i == task[r].on
<1>0. /\ task[r].pc = "contact"
      /\ UNCHANGED <<rows, late, memory, buffer, events, adapter, run, unasked, asking, denied, server>>
  BY DEF Contact
<1>1. /\ r \in Tasks /\ r \notin {Handler, Starter} /\ task[r] \in TaskRecord
      /\ exec # "none" /\ server = "up" /\ session # "none" /\ TaskInv(r)
  BY <1>0, Answering
<1>2. Holds(r) /\ answered[i] = 0 /\ i \in Interactions
  BY <1>0, <1>1 DEF TaskInv, Holds
<1>3. CASE answered' = [answered EXCEPT ![i] = @ + 1] /\ (Goto(r, "answered") \/ Terminate(r))
  <2>1. /\ answered' \in [Interactions -> Nat] /\ answered'[i] = 1
        /\ \A k \in Interactions \ {i} : answered'[k] = answered[k]
    BY <1>2, <1>3 DEF SessionInv, TypeOK
  <2>2. PICK pc \in {"answered", "close"} : Moves(r, pc) /\ (pc = "answered" => Keeps(r))
    <3>1. Goto(r, "answered") => Moves(r, "answered") /\ Keeps(r)
      BY <1>1, GotoEffect DEF Steps
    <3>2. Terminate(r) => Moves(r, "close")
      BY <1>1, TerminateEffect
    <3> QED
      BY <1>3, <3>1, <3>2
  <2>3. TaskInv(r)'
    <3>1. pc = "answered" => Holds(r)' /\ answered'[task'[r].on] = 1
      BY <1>0, <1>2, <2>1, <2>2 DEF Holds, Keeps, rows
    <3> QED
      BY <1>0, <1>1, <2>2, <3>1 DEF TaskInv, Moves, rows
  <2>4. Mono(r)
    BY <1>0, <1>2, <2>1 DEF Mono, NoneBack, Fresh, Holds, rows
  <2>5. AnswerInv'
    BY <1>0, <1>2, <2>1 DEF SessionInv, AnswerInv, Holds, rows
  <2> HIDE DEF i
  <2>6. TypeOK'
    BY <1>0, <2>1, <2>2 DEF SessionInv, TypeOK, Moves, rows, memory
  <2>7. AskInv' /\ OpenInv'
    <3>1. /\ task'[Handler].pc = task[Handler].pc /\ task'[Handler].on = task[Handler].on
          /\ task'[Starter].pc = task[Starter].pc /\ task'[Starter].on = task[Starter].on
      BY <1>1, <2>2 DEF Moves, Tasks
    <3> QED
      BY <1>0, <3>1 DEF SessionInv, AskInv, OpenInv, rows, memory
  <2>8. StopInv' /\ ServerInv' /\ CompletedAsked'
    BY <1>0 DEF SessionInv, StopInv, ServerInv, CompletedAsked, rows, memory
  <2> QED
    BY <1>1, <2>2, <2>3, <2>4, <2>5, <2>6, <2>7, <2>8, TaskAct
<1>4. CASE UNCHANGED answered /\ Terminate(r)
  BY <1>0, <1>1, <1>4, GivesUp DEF provider
<1>5. CASE inter[i].round < MaxRounds /\ UNCHANGED answered /\ Goto(r, "release")
  <2>1. Moves(r, "release") /\ Keeps(r)
    BY <1>1, <1>5, GotoEffect DEF Steps
  <2>2. TaskInv(r)'
    BY <1>0, <1>1, <1>2, <1>5, <2>1 DEF TaskInv, Moves, Keeps, Holds, rows
  <2> QED
    BY <1>0, <1>1, <1>5, <2>1, <2>2, RowAct DEF rows, memory, provider
<1> QED
  BY <1>3, <1>4, <1>5 DEF Contact

LEMMA AnsweredKeeps ==
  ASSUME SessionInv, NEW r \in Responders, Answered(r)
  PROVE  SessionInv'
<1> USE SessionTyped, PlacesOf
<1>0. /\ task[r].pc = "answered" /\ asking' = asking \ {task[r].on}
      /\ UNCHANGED <<rows, late, memory, buffer, adapter, unasked, answered, denied, server>>
  BY DEF Answered
<1>1. /\ r \in Tasks /\ r \notin {Handler, Starter} /\ task[r] \in TaskRecord
      /\ exec # "none" /\ server = "up" /\ session # "none" /\ TaskInv(r)
  BY <1>0, Answering
<1>2. PICK pc \in {"resolve", "stop", "close"} :
        /\ Moves(r, pc) /\ (pc # "close" => Keeps(r))
        /\ run' = run \/ run' = "aborted"
        /\ events' = events \/ (events' = Append(events, Cancelled) /\ run' = "aborted")
        /\ pc = "stop" => run' = "aborted"
  <2>1. Goto(r, "resolve") => Moves(r, "resolve") /\ Keeps(r)
    BY <1>1, GotoEffect DEF Steps
  <2>2. Goto(r, "stop") => Moves(r, "stop") /\ Keeps(r)
    BY <1>1, GotoEffect DEF Steps
  <2>3. Terminate(r) => Moves(r, "close")
    BY <1>1, TerminateEffect
  <2> QED
    BY <2>1, <2>2, <2>3 DEF Answered, AnswerCancels, Emit, Cancelled
<1>3. TaskInv(r)'
  <2>1. pc # "close" => Holds(r)' /\ answered'[task'[r].on] = 1 /\ task'[r].on \notin asking'
    BY <1>0, <1>1, <1>2 DEF TaskInv, Holds, Keeps, rows
  <2> QED
    BY <1>0, <1>1, <1>2, <2>1 DEF TaskInv, Moves, rows
<1> QED
  BY <1>0, <1>1, <1>2, <1>3, RunAct

LEMMA ResolveKeeps ==
  ASSUME SessionInv, NEW r \in Responders, Resolve(r)
  PROVE  SessionInv'
<1> USE SessionTyped, PlacesOf
<1> DEFINE i == task[r].on
<1>0. /\ task[r].pc = "resolve" /\ armed' = armed \ {i} /\ (Goto(r, "tally") \/ Stop(r))
      /\ UNCHANGED <<exec, session, late, active, required, buffer, events, provider, server>>
  BY DEF Resolve
<1>1. /\ r \in Tasks /\ r \notin {Handler, Starter} /\ task[r] \in TaskRecord
      /\ exec # "none" /\ server = "up" /\ session # "none" /\ TaskInv(r)
  BY <1>0, Answering
<1>2. i \in Interactions /\ inter[i] \in Row /\ answered[i] = 1 /\ i \notin asking
  BY <1>0, <1>1 DEF TaskInv, Holds
<1>3. PICK pc \in {"tally", "idle"} : Moves(r, pc)
  <2>1. Goto(r, "tally") => Moves(r, "tally")
    BY <1>1, GotoEffect DEF Steps
  <2> QED
    BY <1>0, <1>1, <2>1, StopEffect
<1>4. TaskInv(r)'
  <2>1. pc \in Places(r) /\ exec' # "none" /\ server' = "up" /\ session' # "none" /\ pc \in Plain \cup {"idle"}
    BY <1>0, <1>1 DEF Plain
  <2> QED
    BY <1>1, <1>3, <2>1, PlainPlace
<1>5. CASE UNCHANGED inter
  BY <1>0, <1>1, <1>3, <1>4, <1>5, RowAct DEF provider
<1>6. CASE inter[i].state = "resolving" /\ inter[i].by = r /\ SetState(i, "resolved")
  <2> DEFINE row == [inter[i] EXCEPT !.state = "resolved"]
  <2>1. row \in Row /\ row.state = "resolved"
    BY <1>2, RowEdits
  <2>2. inter' = [inter EXCEPT ![i] = row]
    BY <1>6 DEF SetState
  <2> HIDE DEF row, i
  <2> QED
    BY <1>0, <1>1, <1>2, <1>3, <1>4, <1>6, <2>1, <2>2, EditAct
<1> QED
  BY <1>5, <1>6 DEF Resolve

LEMMA ReleaseKeeps ==
  ASSUME SessionInv, NEW r \in Responders, Release(r)
  PROVE  SessionInv'
<1> USE SessionTyped, PlacesOf
<1> DEFINE i == task[r].on
<1>0. task[r].pc = "release" /\ UNCHANGED <<exec, session, late, memory, buffer, events, provider, server>>
  BY DEF Release
<1>1. /\ r \in Tasks /\ r \notin {Handler, Starter} /\ task[r] \in TaskRecord
      /\ exec # "none" /\ server = "up" /\ session # "none" /\ TaskInv(r)
  BY <1>0, Answering
<1>2. i \in Interactions /\ inter[i] \in Row /\ answered[i] = 0 /\ inter[i].round < MaxRounds
  BY <1>0, <1>1 DEF TaskInv, Holds
<1>3. CASE UNCHANGED inter /\ Terminate(r)
  BY <1>0, <1>1, <1>3, GivesUp DEF rows
<1>4. CASE /\ inter[i].state = "resolving" /\ inter[i].by = r /\ Stop(r)
           /\ inter' = [inter EXCEPT ![i] = [state |-> "pending", by |-> "none", round |-> @.round + 1]]
  <2> DEFINE row == [state |-> "pending", by |-> "none", round |-> inter[i].round + 1]
  <2>1. row \in Row /\ row.state = "pending"
    <3>1. inter[i].round + 1 \in 0..MaxRounds
      BY <1>2, BoundsAssumption DEF Row
    <3> QED
      BY <3>1 DEF Row
  <2>2. inter' = [inter EXCEPT ![i] = row]
    BY <1>4
  <2> HIDE DEF row
  <2>3. Moves(r, "idle")
    BY <1>1, <1>4, StopEffect
  <2>4. TaskInv(r)'
    BY <1>1, <2>3, PlainPlace
  <2> HIDE DEF i
  <2>5. inter' = [inter EXCEPT ![i] = row] /\ armed' = armed /\ row.state = "pending" /\ answered[i] = 0
        /\ inter[i].state = "resolving" /\ inter[i].by = r /\ task[r].pc = "release"
        /\ UNCHANGED <<exec, session, late, active, required, events, buffer, provider, server>>
    BY <1>0, <1>2, <1>4, <2>1, <2>2 DEF memory
  <2> QED
    BY <1>1, <1>2, <2>1, <2>3, <2>4, <2>5, EditAct
<1> QED
  BY <1>3, <1>4 DEF Release

\* respond().
LEMMA RespondKeeps ==
  ASSUME SessionInv, NEW r \in Responders, RespondStep(r)
  PROVE  SessionInv'
<1> USE SessionTyped, PlacesOf
<1>1. CASE Tally(r)
  <2>1. task[r].pc = "tally" /\ UNCHANGED <<rows, late, memory, buffer, events, provider, server>>
    BY <1>1 DEF Tally
  <2>2. /\ r \in Tasks /\ exec # "none" /\ server = "up" /\ session # "none"
    BY <2>1, Answering
  <2>3. CASE Stop(r)
    BY <2>1, <2>2, <2>3, GivesUp
  <2>4. CASE Goto(r, "resume")
    <3>1. Moves(r, "resume")
      BY <2>2, <2>4, GotoEffect DEF Steps
    <3>2. "resume" \in Places(r) \cap (Plain \cup {"idle"})
      BY <2>2 DEF Plain
    <3> QED
      BY <2>1, <2>2, <3>1, <3>2, PlainStep
  <2> QED
    BY <1>1, <2>3, <2>4 DEF Tally
<1>2. CASE ResumeSession(r)
  <2>1. /\ task[r].pc = "resume" /\ session' = "running" /\ Goto(r, "resume_row")
        /\ UNCHANGED <<exec, inter, late, memory, buffer, events, provider, server>>
    BY <1>2 DEF ResumeSession, SetSession
  <2>2. /\ r \in Tasks /\ exec # "none" /\ server = "up" /\ session # "none"
    BY <2>1, Answering
  <2>3. Moves(r, "resume_row")
    BY <2>1, <2>2, GotoEffect DEF Steps
  <2>4. TaskInv(r)'
    <3>1. "resume_row" \in Places(r) /\ "resume_row" \in Plain
      BY <2>2 DEF Plain
    <3> QED
      BY <2>1, <2>2, <2>3, <3>1, PlainPlace
  <2> QED
    BY <2>1, <2>2, <2>3, <2>4, RowAct DEF memory, provider
<1>3. CASE ResumeRow(r)
  <2>1. /\ task[r].pc = "resume_row" /\ Stop(r)
        /\ exec' = IF exec = "waiting_for_interaction" THEN "running" ELSE exec
        /\ UNCHANGED <<session, inter, late, memory, buffer, events, provider, server>>
    BY <1>3 DEF ResumeRow, Transition
  <2>2. /\ r \in Tasks /\ exec # "none" /\ server = "up" /\ session # "none"
    BY <2>1, Answering
  <2>3. Moves(r, "idle")
    BY <2>1, <2>2, StopEffect
  <2>4. TaskInv(r)'
    BY <2>2, <2>3, PlainPlace
  <2> QED
    BY <2>1, <2>2, <2>3, <2>4, RowAct DEF memory, provider
<1> QED
  BY <1>1, <1>2, <1>3, ClaimKeeps, LookKeeps, ExpireRowKeeps, DeliverKeeps, ContactKeeps, AnsweredKeeps,
     ResolveKeeps, ReleaseKeeps DEF RespondStep

\* A request is accepted only while its session exists.
LEMMA AskedKeeps ==
  ASSUME SessionInv, NEW r \in Responders, NEW i \in Interactions, Respond(r, i)
  PROVE  SessionInv'
<1>1. /\ server = "up" /\ task[r].pc = "idle" /\ inter[i].state # "none"
      /\ UNCHANGED <<rows, late, memory, buffer, events, provider, server>>
  BY DEF Respond
<1>2. r \in Tasks /\ exec # "none" /\ session # "none" /\ inter[i] \in Row
  BY <1>1, SessionTyped DEF SessionInv, OpenInv, Tasks
<1>3. PICK v \in 0..inter[i].round, said \in {"answer", "cancel"} :
        task' = [task EXCEPT ![r] =
          [pc |-> "claim", on |-> i, said |-> said, late |-> i \in late, round |-> v, live |-> FALSE,
           told |-> {}]]
  BY DEF Respond
<1> DEFINE new == [pc |-> "claim", on |-> i, said |-> said, late |-> i \in late, round |-> v, live |-> FALSE,
               told |-> {}]
<1>4. new \in TaskRecord /\ new.pc = "claim" /\ new.on = i
  <2>1. v \in 0..MaxRounds /\ (i \in late) \in BOOLEAN /\ "claim" \in Steps
    BY <1>2, BoundsAssumption DEF Row, Steps
  <2> QED
    BY <2>1 DEF TaskRecord
<1>5. task' = [task EXCEPT ![r] = new]
  BY <1>3
<1> HIDE DEF new
<1>6. Moves(r, "claim") /\ task'[r].on = i
  BY <1>2, <1>4, <1>5, SetEffect, SessionTyped
<1>7. TaskInv(r)'
  <2>1. "claim" \in Places(r)
    BY TasksAssumption DEF Places
  <2> QED
    BY <1>1, <1>2, <1>6, <2>1 DEF TaskInv, Moves, rows
<1> QED
  BY <1>1, <1>2, <1>6, <1>7, RowAct, SessionTyped DEF rows, memory, provider

\* The timers and what they start.
LEMMA ExpiryKeeps ==
  ASSUME SessionInv, NEW i \in Interactions, Fire(i) \/ Check(i)
  PROVE  SessionInv'
<1> USE SessionTyped, PlacesOf
<1>0. i \in Tasks
  BY DEF Tasks
<1>1. CASE Fire(i)
  <2>1. /\ i \in armed /\ task[i].pc = "idle" /\ armed' = armed \ {i}
        /\ UNCHANGED <<rows, late, active, required, buffer, events, provider, server>>
        /\ task' = [task EXCEPT ![i].pc = "check", ![i].on = i]
    BY <1>1 DEF Fire
  <2>2. server = "up" /\ session # "none" /\ exec # "none"
    BY <2>1 DEF SessionInv, TypeOK, ServerInv, OpenInv
  <2> DEFINE new == [task[i] EXCEPT !.pc = "check", !.on = i]
  <2>3. new \in TaskRecord /\ new.pc = "check"
    <3>1. task[i] \in TaskRecord
      BY <1>0
    <3> QED
      BY <3>1 DEF TaskRecord, Steps
  <2>4. task' = [task EXCEPT ![i] = new]
    BY <2>1
  <2> HIDE DEF new
  <2>5. Moves(i, "check")
    <3>1. Moves(i, new.pc)
      BY <1>0, <2>3, <2>4, SetEffect
    <3> QED
      BY <2>3, <3>1
  <2>6. TaskInv(i)'
    <3>1. "check" \in Places(i) /\ "check" \in Plain /\ exec' # "none" /\ server' = "up" /\ session' # "none"
      BY <1>0, <2>1, <2>2 DEF Plain, rows
    <3> QED
      BY <1>0, <2>5, <3>1, PlainPlace
  <2> QED
    BY <1>0, <2>1, <2>2, <2>5, <2>6, RowAct DEF rows, provider
<1>2. CASE Check(i)
  <2>1. /\ task[i].pc = "check" /\ UNCHANGED <<rows, late, memory, buffer, events, provider, server>>
        /\ Terminate(i) \/ Stop(i)
    BY <1>2 DEF Check
  <2>2. exec # "none" /\ server = "up" /\ session # "none"
    BY <1>0, <2>1, Alive
  <2> QED
    BY <1>0, <2>1, <2>2, GivesUp
<1> QED
  BY <1>1, <1>2

\* cancel() and shutdown().
LEMMA CancelKeeps ==
  ASSUME SessionInv, NEW c \in Cancellers, (CancelStep(c) /\ ~Deny(c)) \/ Cancel(c) \/ Shutdown(c)
  PROVE  SessionInv'
<1> USE SessionTyped, PlacesOf
<1>0. c \in Tasks /\ c \notin Responders \cup {Starter, Handler}
  BY TasksAssumption DEF Tasks
<1>1. server = "up" /\ session # "none" /\ exec # "none" /\ TaskInv(c) /\ task[c].pc # "open"
  <2>1. CASE Cancel(c) \/ Shutdown(c)
    BY <1>0, <2>1 DEF Cancel, Shutdown, SessionInv, OpenInv
  <2>2. CASE CancelStep(c) /\ ~Deny(c)
    <3>1. task[c].pc \in {"cancel_close", "cancel_run", "reconcile", "cancel_read"}
      BY <2>2 DEF CancelStep, CancelClose, Deny, CancelRun, Reconcile, CancelRead
    <3> QED
      BY <1>0, <3>1, Alive
  <2> QED
    BY <2>1, <2>2
<1>2. CASE Cancel(c)
  <2>1. Goto(c, "cancel_close") /\ UNCHANGED <<rows, late, memory, buffer, events, provider, server>>
    BY <1>2 DEF Cancel
  <2>2. Moves(c, "cancel_close") /\ "cancel_close" \in Places(c) \cap (Plain \cup {"idle"})
    BY <1>0, <2>1, GotoEffect DEF Steps, Plain
  <2> QED
    BY <1>0, <1>1, <2>1, <2>2, PlainStep
<1>3. CASE Shutdown(c)
  BY <1>0, <1>1, <1>3, GivesUp DEF Shutdown
<1>4. CASE CancelClose(c)
  <2>1. /\ CancelPending /\ Goto(c, "cancel_run")
        /\ UNCHANGED <<exec, session, late, memory, buffer, events, provider, server>>
    BY <1>4 DEF CancelClose
  <2>2. Moves(c, "cancel_run") /\ "cancel_run" \in Places(c) /\ "cancel_run" \in Plain
    BY <1>0, <2>1, GotoEffect DEF Steps, Plain
  <2>3. TaskInv(c)'
    BY <1>0, <1>1, <2>1, <2>2, PlainPlace
  <2>4. /\ inter' \in [Interactions -> Row]
        /\ \A i \in Interactions :
             /\ inter'[i].by = inter[i].by /\ inter'[i].round = inter[i].round
             /\ inter'[i].state = IF inter[i].state \in {"pending", "resolving"}
                                  THEN "cancelled" ELSE inter[i].state
    BY <2>1, CancelPendingEffect DEF SessionInv
  <2> QED
    BY <1>0, <1>1, <2>1, <2>2, <2>3, <2>4, InterAct DEF memory, SessionInv, AnswerInv
<1>5. CASE CancelRun(c)
  <2>1. (AbortRun(c) \/ UNCHANGED <<events, provider>>) /\ UNCHANGED <<rows, late, memory, buffer, server>>
    BY <1>5 DEF CancelRun
  <2>2. PICK pc \in {"cancel_read", "reconcile", "idle"} : Moves(c, pc) /\ (pc = "cancel_read" => run' = "aborted")
    <3>1. Return(c, "cancel_read") => Moves(c, "cancel_read")
      BY <1>0, ReturnEffect
    <3>2. Return(c, "reconcile") => Moves(c, "reconcile")
      BY <1>0, ReturnEffect
    <3> QED
      BY <1>0, <1>5, <3>1, <3>2, StopEffect DEF CancelRun
  <2>3. TaskInv(c)'
    <3>1. pc \in Places(c) /\ exec' # "none" /\ server' = "up" /\ session' # "none"
      BY <1>0, <1>1, <2>1 DEF rows
    <3>2. CASE pc = "cancel_read"
      BY <1>0, <2>2, <3>1, <3>2 DEF TaskInv, Moves
    <3>3. CASE pc # "cancel_read"
      BY <1>0, <2>2, <3>1, <3>3, PlainPlace DEF Plain
    <3> QED
      BY <3>2, <3>3
  <2> QED
    BY <1>0, <1>1, <2>1, <2>2, <2>3, AbortEffect, RunAct
<1>6. CASE Reconcile(c)
  <2>1. UNCHANGED <<rows, late, memory, buffer, events, provider, server>>
    BY <1>6 DEF Reconcile
  <2>2. CASE FailOnly(c) \/ Stop(c)
    BY <1>0, <1>1, <2>1, <2>2, GivesUp
  <2>3. CASE run = "aborted" /\ Goto(c, "cancel_read")
    <3>1. Moves(c, "cancel_read")
      BY <1>0, <2>3, GotoEffect DEF Steps
    <3>2. TaskInv(c)'
      BY <1>0, <1>1, <2>1, <2>3, <3>1 DEF TaskInv, Moves, rows, provider
    <3> QED
      BY <1>0, <1>1, <2>1, <3>1, <3>2, RowAct DEF rows, memory, provider
  <2> QED
    BY <1>6, <2>2, <2>3 DEF Reconcile
<1>7. CASE CancelRead(c)
  <2>1. task[c].pc = "cancel_read" /\ UNCHANGED <<rows, late, memory, buffer, events, provider, server>>
    BY <1>7 DEF CancelRead
  <2>2. PICK pc \in {"settle_end", "stop"} : Moves(c, pc) /\ (pc = "settle_end" => exec = "cancelled")
    <3>1. Goto(c, "settle_end") => Moves(c, "settle_end")
      BY <1>0, GotoEffect DEF Steps
    <3>2. Goto(c, "stop") => Moves(c, "stop")
      BY <1>0, GotoEffect DEF Steps
    <3> QED
      BY <1>7, <3>1, <3>2 DEF CancelRead
  <2>3. TaskInv(c)'
    BY <1>0, <1>1, <2>1, <2>2 DEF TaskInv, Moves, rows, provider
  <2> QED
    BY <1>0, <1>1, <2>1, <2>2, <2>3, RowAct DEF rows, memory, provider
<1> QED
  BY <1>2, <1>3, <1>4, <1>5, <1>6, <1>7 DEF CancelStep

\* start(), until the session is open.
LEMMA StartKeeps ==
  ASSUME SessionInv, Claimed \/ StartStep
  PROVE  SessionInv'
<1> USE SessionTyped, PlacesOf
<1>0. /\ Starter \in Tasks /\ Handler \in Tasks /\ Starter # Handler
      /\ Starter \notin Responders \cup Interactions \cup Cancellers
      /\ {"launch", "open", "consume", "replay"} \subseteq Places(Starter)
  BY TasksAssumption DEF Tasks, Places
<1>1. CASE Claimed
  <2>1. /\ server = "up" /\ exec = "none" /\ exec' = "running" /\ Goto(Starter, "launch")
        /\ UNCHANGED <<session, inter, late, memory, buffer, events, provider, server>>
    BY <1>1 DEF Claimed
  <2>2. Moves(Starter, "launch") /\ Keeps(Starter)
    BY <1>0, <2>1, GotoEffect DEF Steps
  <2>3. TaskInv(Starter) /\ task[Starter].pc = "idle" /\ session = "none" /\ run = "none"
    BY <1>0, <2>1 DEF SessionInv, TaskInv, OpenInv
  <2>4. TaskInv(Starter)'
    BY <1>0, <2>1, <2>2, <2>3 DEF TaskInv, Moves, Keeps
  <2>5. Mono(Starter)
    BY <2>1 DEF Mono, NoneBack, Fresh, provider
  <2>6. TypeOK'
    BY <2>1, <2>2 DEF SessionInv, TypeOK, Moves, memory, provider
  <2>7. AskInv' /\ StopInv'
    <3>1. task'[Starter].pc # "create"
      BY <2>2 DEF Moves
    <3> QED
      BY <2>1, <3>1 DEF SessionInv, AskInv, StopInv, provider
  <2>8. OpenInv' /\ AnswerInv' /\ ServerInv' /\ CompletedAsked'
    BY <2>1, <2>3 DEF SessionInv, OpenInv, AnswerInv, ServerInv, CompletedAsked, memory, provider
  <2> QED
    BY <1>0, <2>2, <2>4, <2>5, <2>6, <2>7, <2>8, TaskAct
<1>2. ASSUME StartStep
      PROVE  /\ exec # "none" /\ server = "up" /\ TaskInv(Starter)
             /\ session = "none" => ~task[Starter].live
  <2>1. task[Starter].pc \in {"launch", "open", "consume"}
    BY <1>2 DEF StartStep, Launch, OpenSession, Consume
  <2> QED
    BY <1>0, <2>1, Alive
<1>3. CASE Launch
  <2>1. /\ task[Starter].pc = "launch"
        /\ UNCHANGED <<rows, late, memory, buffer, events, adapter, unasked, asking, answered, denied, server>>
    BY <1>3 DEF Launch
  <2>2. session = "none" /\ run = "none" /\ ~task[Starter].live /\ exec # "none" /\ server = "up"
    BY <1>2, <1>3, <2>1 DEF StartStep, TaskInv, SessionInv, OpenInv
  <2>3. CASE UNCHANGED run /\ (FailOnly(Starter) \/ Goto(Starter, "fail_row"))
    <3>1. PICK pc \in {"fail", "fail_row"} : Moves(Starter, pc) /\ ~task'[Starter].live
      <4>1. Goto(Starter, "fail_row") => Moves(Starter, "fail_row") /\ Keeps(Starter)
        BY <1>0, GotoEffect DEF Steps
      <4> QED
        BY <1>0, <2>2, <2>3, <4>1, FailOnlyEffect DEF Keeps
    <3>2. TaskInv(Starter)'
      <4>1. pc \in Places(Starter) /\ exec' # "none" /\ server' = "up"
        BY <1>0, <2>1, <2>2 DEF rows
      <4> QED
        BY <1>0, <3>1, <4>1, PlainPlace
    <3> QED
      BY <1>0, <2>1, <2>2, <2>3, <3>1, <3>2, RowAct DEF rows, memory
  <2>4. CASE run' = "running" /\ Goto(Starter, "open")
    <3>1. Moves(Starter, "open") /\ Keeps(Starter)
      BY <1>0, <2>4, GotoEffect DEF Steps
    <3>2. TaskInv(Starter)'
      BY <1>0, <2>1, <2>2, <3>1 DEF TaskInv, Moves, Keeps, rows
    <3>3. Mono(Starter)
      BY <2>1, <2>2 DEF Mono, NoneBack, Fresh, rows
    <3>4. TypeOK'
      BY <2>1, <2>4, <3>1 DEF SessionInv, TypeOK, Moves, rows, memory
    <3>5. AskInv' /\ StopInv' /\ OpenInv'
      <4>1. task'[Starter].pc = "open"
        BY <3>1 DEF Moves
      <4> QED
        BY <2>1, <2>2, <2>4, <4>1 DEF SessionInv, AskInv, StopInv, OpenInv, rows, memory
    <3>6. AnswerInv' /\ ServerInv' /\ CompletedAsked'
      BY <2>1, <2>2 DEF SessionInv, AnswerInv, ServerInv, CompletedAsked, rows, memory
    <3> QED
      BY <1>0, <3>1, <3>2, <3>3, <3>4, <3>5, <3>6, TaskAct
  <2> QED
    BY <1>3, <2>3, <2>4 DEF Launch
<1>4. CASE OpenSession
  <2>1. /\ task[Starter].pc = "open" /\ session' = "running" /\ active' = TRUE /\ required' = Required
        /\ Goto(Starter, "consume")
        /\ UNCHANGED <<exec, inter, late, armed, buffer, events, provider, server>>
    BY <1>4 DEF OpenSession, SetSession
  <2>2. exec # "none" /\ server = "up"
    BY <1>2, <1>4 DEF StartStep
  <2>3. Moves(Starter, "consume")
    BY <1>0, <2>1, GotoEffect DEF Steps
  <2>4. TaskInv(Starter)'
    <3>1. session' # "none" /\ exec' # "none" /\ server' = "up" /\ "consume" \in Plain
      BY <2>1, <2>2 DEF Plain
    <3> QED
      BY <1>0, <2>3, <3>1, PlainPlace
  <2>5. Mono(Starter)
    BY <2>1 DEF Mono, NoneBack, Fresh, provider
  <2>6. TypeOK'
    BY <2>1, <2>2, <2>3, TasksAssumption DEF SessionInv, TypeOK, Moves, provider
  <2>7. AskInv' /\ StopInv' /\ OpenInv'
    <3>1. task'[Starter].pc = "consume"
      BY <2>3 DEF Moves
    <3> QED
      BY <2>1, <2>2, <3>1 DEF SessionInv, AskInv, StopInv, OpenInv, provider
  <2>8. AnswerInv' /\ ServerInv' /\ CompletedAsked'
    BY <2>1, <2>2 DEF SessionInv, AnswerInv, ServerInv, CompletedAsked, provider
  <2> QED
    BY <1>0, <2>3, <2>4, <2>5, <2>6, <2>7, <2>8, TaskAct
<1>5. CASE Consume
  <2>1. /\ task[Starter].pc = "consume" /\ Goto(Starter, "replay")
        /\ UNCHANGED <<rows, late, memory, buffer, events, provider, server>>
    BY <1>5 DEF Consume
  <2>2. exec # "none" /\ server = "up" /\ session # "none"
    BY <1>0, <2>1, Alive
  <2>3. Moves(Starter, "replay")
    BY <1>0, <2>1, GotoEffect DEF Steps
  <2>4. TaskInv(Starter)'
    <3>1. session' # "none" /\ exec' # "none" /\ server' = "up"
      BY <2>1, <2>2 DEF rows
    <3> QED
      BY <1>0, <2>3, <3>1, PlainPlace
  <2> QED
    BY <1>0, <2>1, <2>2, <2>3, <2>4, RowAct DEF rows, memory, provider
<1> QED
  BY <1>1, <1>3, <1>4, <1>5 DEF StartStep

\* A step that moves no task leaves to all of them what they rely on.
LEMMA StillKeeps ==
  ASSUME SessionInv, UNCHANGED <<rows, task, answered, server>>, run = "aborted" => run' = "aborted", NoneBack,
         \A i \in Interactions : Fresh(i) => Fresh(i)'
  PROVE  \A t \in Tasks : TaskInv(t)'
<1> SUFFICES ASSUME NEW t \in Tasks PROVE TaskInv(t)'
  OBVIOUS
<1>1. TaskInv(t)
  BY DEF SessionInv
<1>2. task[t].pc = "create" => task[t].on \in Interactions /\ Fresh(task[t].on)'
  <2>1. SUFFICES ASSUME task[t].pc = "create" PROVE task[t].on \in Interactions /\ Fresh(task[t].on)'
    OBVIOUS
  <2>2. PICK i \in Interactions : i = task[t].on /\ Fresh(i)
    BY <1>1, <2>1 DEF TaskInv
  <2>3. Fresh(i)'
    BY <2>2
  <2> QED
    BY <2>2, <2>3 DEF Fresh
<1>3. Holds(t) => Holds(t)' /\ (task[t].on \notin asking => task[t].on \notin asking')
  BY DEF Holds, rows, NoneBack
<1> QED
  BY <1>1, <1>2, <1>3 DEF TaskInv, rows, AllAsked

\* A step that only takes events from the queues, or moves them from one to the other.
QueueStep ==
  /\ UNCHANGED <<rows, late, memory, adapter, run, unasked, answered, denied, server>>
  /\ asking' \subseteq Interactions /\ NoneBack
  /\ events' \in Seq(Events) /\ buffer' \in Seq(Events) /\ Single(events') /\ Single(buffer')
  /\ \A i \in Interactions : ~(Occurs(Ask(i), events') /\ Occurs(Ask(i), buffer'))
  /\ \A i \in Interactions : Occurs(Ask(i), events') \/ Occurs(Ask(i), buffer') =>
                                Occurs(Ask(i), events) \/ Occurs(Ask(i), buffer)
  /\ Occurs(Cancelled, events') \/ Occurs(Cancelled, buffer') =>
       Occurs(Cancelled, events) \/ Occurs(Cancelled, buffer)

LEMMA QueueKeeps ==
  ASSUME SessionInv, server = "up", QueueStep
  PROVE  /\ StopInv' /\ AnswerInv' /\ ServerInv' /\ CompletedAsked'
         /\ \A i \in Interactions : Fresh(i) => Fresh(i)'
         /\ \A t \in Tasks : Mono(t)
         /\ task' \in [Tasks -> TaskRecord] => TypeOK'
<1>1. StopInv'
  BY DEF QueueStep, SessionInv, StopInv, rows
<1>2. AnswerInv' /\ ServerInv' /\ CompletedAsked'
  BY DEF QueueStep, NoneBack, SessionInv, AnswerInv, ServerInv, CompletedAsked, rows, memory
<1>3. ASSUME NEW i \in Interactions, Fresh(i) PROVE Fresh(i)'
  BY <1>3 DEF QueueStep, Fresh, rows
<1>4. \A t \in Tasks : Mono(t)
  BY <1>3 DEF QueueStep, Mono, rows
<1>5. task' \in [Tasks -> TaskRecord] => TypeOK'
  BY DEF QueueStep, SessionInv, TypeOK, rows, memory
<1> QED
  BY <1>1, <1>2, <1>3, <1>4, <1>5

\* What a task makes of an event.
LEMMA BeginEffect ==
  ASSUME SessionInv, NEW t \in {Handler, Starter}, NEW e \in Events, Begin(t, e)
  PROVE  \E pc \in {"create", "list", "stop", "close"} :
           /\ Moves(t, pc)
           /\ pc = "create" => task'[t].on \in Interactions /\ e = Ask(task'[t].on)
           /\ pc = "list" => task'[t].said \in {"completed", "partial", "failed"}
           /\ pc = "stop" => e = Cancelled
<1>0. t \in Tasks /\ task[t] \in TaskRecord
  BY SessionTyped DEF Tasks
<1>1. CASE e.kind = "asked"
  <2>1. e.on \in Interactions /\ e = Ask(e.on) /\ "create" \in Steps
    BY <1>1 DEF Events, Ask, Steps
  <2>2. task' = [task EXCEPT ![t].pc = "create", ![t].on = e.on]
    BY <1>1 DEF Begin
  <2> DEFINE new == [task[t] EXCEPT !.pc = "create", !.on = e.on]
  <2>3. new \in TaskRecord /\ new.pc = "create" /\ new.on = e.on
    BY <1>0, <2>1 DEF TaskRecord
  <2>4. task' = [task EXCEPT ![t] = new]
    BY <2>2
  <2> HIDE DEF new
  <2>5. Moves(t, new.pc) /\ task'[t] = new
    BY <1>0, <2>3, <2>4, SetEffect, SessionTyped
  <2> QED
    BY <2>1, <2>3, <2>5
<1>2. CASE e.kind = "ended"
  <2>1. e.status \in {"completed", "partial", "failed"} /\ "list" \in Steps
    BY <1>2 DEF Events, Steps
  <2>2. task' = [task EXCEPT ![t].pc = "list", ![t].said = e.status]
    BY <1>2 DEF Begin
  <2> DEFINE new == [task[t] EXCEPT !.pc = "list", !.said = e.status]
  <2>3. new \in TaskRecord /\ new.pc = "list" /\ new.said = e.status
    BY <1>0, <2>1 DEF TaskRecord
  <2>4. task' = [task EXCEPT ![t] = new]
    BY <2>2
  <2> HIDE DEF new
  <2>5. Moves(t, new.pc) /\ task'[t] = new
    BY <1>0, <2>3, <2>4, SetEffect, SessionTyped
  <2> QED
    BY <2>1, <2>3, <2>5
<1>3. CASE e.kind = "cancelled"
  <2>1. e = Cancelled
    BY <1>3 DEF Events, Cancelled
  <2>2. Goto(t, "stop")
    BY <1>3 DEF Begin
  <2> QED
    BY <1>0, <2>1, <2>2, GotoEffect, SessionTyped DEF Steps
<1>4. CASE e.kind = "invalid"
  BY <1>0, <1>4, TerminateEffect, SessionTyped DEF Begin
<1> QED
  BY <1>1, <1>2, <1>3, <1>4 DEF Events

LEMMA BeginKeeps ==
  ASSUME SessionInv, server = "up", session # "none", QueueStep, NEW t \in {Handler, Starter}, NEW e \in Events,
         task[t].pc \in {"idle", "replay"}, Begin(t, e), Occurs(e, events) \/ Occurs(e, buffer),
         \A i \in Interactions : e = Ask(i) => ~Occurs(Ask(i), events') /\ ~Occurs(Ask(i), buffer')
  PROVE  SessionInv'
<1>0. t \in Tasks /\ exec # "none" /\ TaskInv(t)
  BY DEF Tasks, SessionInv, OpenInv
<1>1. PICK pc \in {"create", "list", "stop", "close"} :
           /\ Moves(t, pc)
           /\ pc = "create" => task'[t].on \in Interactions /\ e = Ask(task'[t].on)
           /\ pc = "list" => task'[t].said \in {"completed", "partial", "failed"}
           /\ pc = "stop" => e = Cancelled
  BY BeginEffect
<1>2. /\ StopInv' /\ AnswerInv' /\ ServerInv' /\ CompletedAsked' /\ Mono(t) /\ TypeOK'
  BY <1>0, <1>1, QueueKeeps DEF Moves
<1>3. pc = "create" => Fresh(task[t].on)'
  <2>1. SUFFICES ASSUME pc = "create" PROVE Fresh(task[t].on)'
    OBVIOUS
  <2>2. PICK i \in Interactions : i = task'[t].on /\ e = Ask(i)
    BY <1>1, <2>1
  <2>3. i \notin unasked /\ inter[i].state = "none"
    BY <2>2 DEF SessionInv, AskInv
  <2> QED
    BY <2>2, <2>3 DEF Fresh, QueueStep, rows
<1>4. pc = "stop" => run = "aborted"
  BY <1>1 DEF SessionInv, StopInv
<1>5. TaskInv(t)'
  <2>1. pc \in Places(t) /\ t \notin Responders
    BY <1>0, PlacesOf DEF Consuming
  <2>2. exec' # "none" /\ server' = "up" /\ session' # "none" /\ run' = run
    BY <1>0 DEF QueueStep, rows
  <2> QED
    BY <1>1, <1>3, <1>4, <2>1, <2>2 DEF TaskInv, Moves
<1>6. AskInv'
  <2>1. ASSUME task'[Handler].pc = "create", task'[Starter].pc = "create", task'[Handler].on = task'[Starter].on
        PROVE  FALSE
    <3>1. PICK q \in {Handler, Starter} : q # t
      BY TasksAssumption
    <3>2. q \in Tasks /\ task'[q] = task[q]
      BY <1>1, <3>1 DEF Tasks, Moves
    <3>3. pc = "create" /\ task[q].pc = "create" /\ task[q].on = task'[t].on
      BY <1>1, <2>1, <3>1, <3>2 DEF Moves
    <3>4. TaskInv(q)
      BY <3>2 DEF SessionInv
    <3>5. Fresh(task[q].on)
      BY <3>3, <3>4 DEF TaskInv
    <3> QED
      BY <1>1, <3>3, <3>5 DEF Fresh
  <2> QED
    BY <2>1 DEF SessionInv, AskInv, QueueStep, rows
<1>7. OpenInv'
  <2>1. task'[Starter].pc = "launch" => task[Starter].pc = "launch"
    BY <1>1 DEF Moves, Tasks
  <2> QED
    BY <1>0, <2>1 DEF SessionInv, OpenInv, QueueStep, rows, memory
<1> QED
  BY <1>0, <1>1, <1>2, <1>5, <1>6, <1>7, TaskAct

\* The handler of the provider's queue.
LEMMA ReceiveKeeps ==
  ASSUME SessionInv, Receive
  PROVE  SessionInv'
<1> DEFINE e == Head(events)
<1>0. /\ task[Handler].pc = "idle" /\ events # <<>> /\ events' = Tail(events)
      /\ UNCHANGED <<rows, late, memory, adapter, run, unasked, answered, denied, server>>
      /\ asking' = IF e.kind = "asked" THEN asking \cup {e.on} ELSE asking
      /\ \/ task[Starter].pc \in Opening /\ buffer' = Append(buffer, e) /\ UNCHANGED task
         \/ UNCHANGED buffer /\ active /\ Begin(Handler, e)
         \/ UNCHANGED buffer /\ UNCHANGED task
  BY DEF Receive
<1>1. /\ server = "up" /\ Handler \in Tasks /\ Starter \in Tasks /\ TaskInv(Handler)
      /\ events \in Seq(Events) /\ buffer \in Seq(Events) /\ Single(events) /\ Single(buffer)
  BY <1>0 DEF SessionInv, ServerInv, Tasks, TypeOK, AskInv
<1>2. /\ Tail(events) \in Seq(Events) /\ e \in Events /\ Occurs(e, events)
      /\ \A x : Occurs(x, Tail(events)) => Occurs(x, events)
      /\ Single(Tail(events)) /\ \A i \in Interactions : e = Ask(i) => ~Occurs(Ask(i), Tail(events))
  BY <1>0, <1>1, TailFacts
<1>3. asking' \subseteq Interactions /\ NoneBack
  <2>1. e.kind = "asked" => e.on \in Interactions /\ e = Ask(e.on)
    BY <1>2 DEF Events, Ask
  <2>2. e.kind = "asked" => inter[e.on].state = "none"
    BY <1>2, <2>1 DEF SessionInv, AskInv
  <2> HIDE DEF e
  <2> QED
    BY <1>0, <2>1, <2>2, SessionTyped DEF NoneBack
<1>4. \A i \in Interactions : ~(Occurs(Ask(i), events) /\ Occurs(Ask(i), buffer))
  BY DEF SessionInv, AskInv
<1>5. /\ Append(buffer, e) \in Seq(Events)
      /\ \A x : Occurs(x, Append(buffer, e)) <=> Occurs(x, buffer) \/ x = e
      /\ Single(Append(buffer, e))
  BY <1>1, <1>2, <1>4, AppendFacts
<1> HIDE DEF e
<1>6. buffer' \in {buffer, Append(buffer, e)}
  BY <1>0
<1>7. QueueStep
  <2>1. CASE buffer' = buffer
    BY <1>0, <1>1, <1>2, <1>3, <1>4, <2>1 DEF QueueStep
  <2>2. CASE buffer' = Append(buffer, e)
    <3>1. \A i \in Interactions : Occurs(Ask(i), buffer') <=> Occurs(Ask(i), buffer) \/ Ask(i) = e
      BY <1>5, <2>2
    <3>2. Occurs(Cancelled, buffer') <=> Occurs(Cancelled, buffer) \/ Cancelled = e
      BY <1>5, <2>2
    <3> QED
      BY <1>0, <1>1, <1>2, <1>3, <1>4, <1>5, <2>2, <3>1, <3>2 DEF QueueStep
  <2> QED
    BY <1>6, <2>1, <2>2
<1>8. CASE UNCHANGED buffer /\ active /\ Begin(Handler, e)
  <2>1. session # "none"
    BY <1>8 DEF SessionInv, OpenInv
  <2>2. \A i \in Interactions : e = Ask(i) => ~Occurs(Ask(i), events') /\ ~Occurs(Ask(i), buffer')
    BY <1>0, <1>2, <1>4, <1>8
  <2> QED
    BY <1>0, <1>1, <1>2, <1>7, <1>8, <2>1, <2>2, BeginKeeps
<1>9. CASE UNCHANGED task
  <2>1. /\ StopInv' /\ AnswerInv' /\ ServerInv' /\ CompletedAsked' /\ TypeOK'
        /\ \A i \in Interactions : Fresh(i) => Fresh(i)'
    BY <1>1, <1>7, <1>9, QueueKeeps, SessionTyped
  <2>2. \A t \in Tasks : TaskInv(t)'
    BY <1>0, <1>3, <1>9, <2>1, StillKeeps
  <2>3. AskInv'
    BY <1>7, <1>9 DEF SessionInv, AskInv, QueueStep, rows
  <2>4. OpenInv'
    BY <1>0, <1>7, <1>9 DEF SessionInv, OpenInv, QueueStep, rows, memory
  <2> QED
    BY <2>1, <2>2, <2>3, <2>4 DEF SessionInv
<1> QED
  BY <1>0, <1>8, <1>9

\* The replay of what arrived before the session was open.
LEMMA ReplayKeeps ==
  ASSUME SessionInv, Replay
  PROVE  SessionInv'
<1> DEFINE e == Head(buffer)
<1>0. /\ task[Starter].pc = "replay" /\ UNCHANGED <<rows, late, memory, events, provider, server>>
      /\ \/ Stop(Starter) /\ UNCHANGED buffer
         \/ buffer # <<>> /\ Begin(Starter, e) /\ buffer' = Tail(buffer)
  BY DEF Replay
<1>1. /\ server = "up" /\ exec # "none" /\ Starter \in Tasks /\ TaskInv(Starter)
  BY <1>0, Alive DEF Tasks
<1>2. CASE Stop(Starter) /\ UNCHANGED buffer
  <2>1. Moves(Starter, "idle")
    BY <1>1, <1>2, StopEffect, SessionTyped
  <2>2. TaskInv(Starter)'
    BY <1>1, <2>1, PlainPlace, PlacesOf
  <2> QED
    BY <1>0, <1>1, <1>2, <2>1, <2>2, RowAct, SessionTyped DEF rows, memory, provider
<1>3. CASE buffer # <<>> /\ Begin(Starter, e) /\ buffer' = Tail(buffer)
  <2>1. /\ events \in Seq(Events) /\ buffer \in Seq(Events) /\ Single(events) /\ Single(buffer)
        /\ \A i \in Interactions : ~(Occurs(Ask(i), events) /\ Occurs(Ask(i), buffer))
    BY DEF SessionInv, TypeOK, AskInv
  <2>2. /\ Tail(buffer) \in Seq(Events) /\ e \in Events /\ Occurs(e, buffer)
        /\ \A x : Occurs(x, Tail(buffer)) => Occurs(x, buffer)
        /\ Single(Tail(buffer)) /\ \A i \in Interactions : e = Ask(i) => ~Occurs(Ask(i), Tail(buffer))
    BY <1>3, <2>1, TailFacts
  <2> HIDE DEF e
  <2>3. QueueStep
    BY <1>0, <1>3, <2>1, <2>2, SessionTyped DEF QueueStep, NoneBack, provider
  <2>4. session # "none"
    BY <1>0, <1>3 DEF SessionInv, OpenInv
  <2>5. \A i \in Interactions : e = Ask(i) => ~Occurs(Ask(i), events') /\ ~Occurs(Ask(i), buffer')
    BY <1>0, <1>3, <2>1, <2>2
  <2> QED
    BY <1>0, <1>1, <1>3, <2>2, <2>3, <2>4, <2>5, BeginKeeps
<1> QED
  BY <1>0, <1>2, <1>3

\* The record of an interaction that the provider asked.
LEMMA CreateKeeps ==
  ASSUME SessionInv, NEW t \in Tasks, Create(t)
  PROVE  SessionInv'
<1> DEFINE i == task[t].on
<1>0. /\ task[t].pc = "create" /\ SetState(i, "pending") /\ required' = required \ {i}
      /\ armed' = IF active THEN armed \cup {i} ELSE armed
      /\ Goto(t, "mark")
      /\ UNCHANGED <<exec, session, late, active, buffer, events, provider, server>>
  BY DEF Create
<1>1. /\ exec # "none" /\ server = "up" /\ session # "none" /\ TaskInv(t)
  BY <1>0, Alive
<1>2. t \in {Handler, Starter}
  BY <1>0, <1>1, WhoIsWhere
<1>3. i \in Interactions /\ Fresh(i) /\ inter[i] \in Row
  BY <1>0, <1>1, SessionTyped DEF TaskInv
<1>4. Moves(t, "mark")
  BY <1>0, GotoEffect, SessionTyped DEF Steps
<1>5. TaskInv(t)'
  <2>1. "mark" \in Places(t) /\ "mark" \in Plain
    BY <1>2, PlacesOf DEF Consuming, Plain
  <2> QED
    BY <1>0, <1>1, <1>4, <2>1, PlainPlace
<1> DEFINE row == [inter[i] EXCEPT !.state = "pending"]
<1>6. row \in Row /\ row.state = "pending"
  BY <1>3 DEF Row
<1>7. inter' = [inter EXCEPT ![i] = row]
  BY <1>0 DEF SetState
<1> HIDE DEF row
<1>8. /\ inter' \in [Interactions -> Row] /\ inter'[i].state = "pending"
      /\ \A k \in Interactions \ {i} : inter'[k] = inter[k]
  BY <1>3, <1>6, <1>7, SessionTyped
<1>9. Mono(t)
  BY <1>0, <1>3, <1>8 DEF Mono, NoneBack, Fresh, provider
<1>10. TypeOK'
  BY <1>0, <1>3, <1>4, <1>8 DEF SessionInv, TypeOK, Moves, provider
<1>11. AskInv'
  <2>1. ~(task'[Handler].pc = "create" /\ task'[Starter].pc = "create")
    BY <1>2, <1>4 DEF Moves
  <2>2. \A k \in Interactions :
          k \in unasked \/ Occurs(Ask(k), events) \/ Occurs(Ask(k), buffer) => inter'[k].state = "none"
    BY <1>3, <1>8 DEF SessionInv, AskInv, Fresh
  <2> QED
    BY <1>0, <2>1, <2>2 DEF SessionInv, AskInv, provider
<1>12. StopInv' /\ ServerInv'
  BY <1>0, <1>1 DEF SessionInv, StopInv, ServerInv, provider
<1>13. OpenInv'
  <2>1. task'[Starter].pc # "launch"
    <3>1. Starter \in Tasks /\ TaskInv(Starter)
      BY DEF SessionInv, Tasks
    <3>2. task[Starter].pc # "launch"
      BY <1>1, <3>1 DEF TaskInv
    <3> QED
      BY <1>4, <3>1, <3>2 DEF Moves
  <2>2. active => \A k \in Required \ required' : inter'[k].state # "none"
    BY <1>0, <1>8, TasksAssumption DEF SessionInv, OpenInv
  <2> QED
    BY <1>0, <1>1, <2>1, <2>2 DEF SessionInv, OpenInv, provider
<1>14. AnswerInv' /\ CompletedAsked'
  <2>1. answered[i] = 0
    BY <1>3 DEF SessionInv, AnswerInv, Fresh
  <2>2. answered' = answered /\ denied' = denied /\ asking' = asking /\ exec' = exec /\ Required \subseteq Interactions
    BY <1>0, TasksAssumption DEF provider
  <2> HIDE DEF i
  <2> QED
    BY <1>8, <2>1, <2>2 DEF SessionInv, AnswerInv, CompletedAsked
<1> QED
  BY <1>1, <1>4, <1>5, <1>9, <1>10, <1>11, <1>12, <1>13, <1>14, TaskAct

\* What the provider does of itself.
LEMMA ProviderKeeps ==
  ASSUME SessionInv, ProviderEnds \/ \E i \in Interactions : ProviderAsks(i)
  PROVE  SessionInv'
<1>1. events \in Seq(Events) /\ Single(events)
  BY DEF SessionInv, TypeOK, AskInv
<1>2. CASE ProviderEnds
  <2>1. PICK s \in {"completed", "partial", "failed"} : events' = Append(events, [kind |-> "ended", status |-> s])
    BY <1>2 DEF ProviderEnds, Emit
  <2> DEFINE e == [kind |-> "ended", status |-> s]
  <2>2. e \in Events /\ e # Cancelled /\ \A i \in Interactions : e # Ask(i)
    BY DEF Events, Cancelled, Ask
  <2> HIDE DEF e
  <2>3. /\ server = "up" /\ run = "running" /\ run' = "ended" /\ events' = Append(events, e)
        /\ UNCHANGED <<rows, late, memory, task, buffer, adapter, unasked, asking, answered, denied, server>>
    BY <1>2, <2>1 DEF ProviderEnds, Acting, e
  <2>4. /\ events' \in Seq(Events) /\ Single(events')
        /\ \A i \in Interactions : Occurs(Ask(i), events') <=> Occurs(Ask(i), events)
        /\ Occurs(Cancelled, events') <=> Occurs(Cancelled, events)
    <3>1. /\ Append(events, e) \in Seq(Events) /\ Single(Append(events, e))
          /\ \A x : Occurs(x, Append(events, e)) <=> Occurs(x, events) \/ x = e
      BY <1>1, <2>2, AppendFacts
    <3> QED
      BY <2>2, <2>3, <3>1
  <2>5. \A i \in Interactions : Fresh(i) => Fresh(i)'
    BY <2>3, <2>4 DEF Fresh, rows
  <2>6. \A t \in Tasks : TaskInv(t)'
    BY <2>3, <2>5, StillKeeps DEF NoneBack
  <2>7. TypeOK' /\ AskInv' /\ StopInv'
    BY <2>3, <2>4 DEF SessionInv, TypeOK, AskInv, StopInv, rows, memory
  <2>8. OpenInv' /\ AnswerInv' /\ ServerInv' /\ CompletedAsked'
    BY <2>3 DEF SessionInv, OpenInv, AnswerInv, ServerInv, CompletedAsked, rows, memory
  <2> QED
    BY <2>6, <2>7, <2>8 DEF SessionInv
<1>3. CASE \E i \in Interactions : ProviderAsks(i)
  <2>1. PICK i \in Interactions : ProviderAsks(i)
    BY <1>3
  <2>2. PICK e \in {Ask(i), [kind |-> "invalid"]} : events' = Append(events, e)
    BY <2>1 DEF ProviderAsks, Emit, Ask
  <2>3. e \in Events /\ e # Cancelled /\ \A k \in Interactions : e = Ask(k) => k = i
    BY EventsDiffer DEF Events, Cancelled, Ask
  <2>4. /\ server = "up" /\ run = "running" /\ i \in unasked /\ unasked' = unasked \ {i}
        /\ UNCHANGED <<rows, late, memory, task, buffer, adapter, run, asking, answered, denied, server>>
    BY <2>1 DEF ProviderAsks, Acting
  <2>5. ~Occurs(Ask(i), events) /\ ~Occurs(Ask(i), buffer) /\ inter[i].state = "none"
    BY <2>4 DEF SessionInv, AskInv
  <2>6. /\ events' \in Seq(Events) /\ Single(events')
        /\ \A k \in Interactions : Occurs(Ask(k), events') => Occurs(Ask(k), events) \/ k = i
        /\ Occurs(Cancelled, events') <=> Occurs(Cancelled, events)
    <3>1. \A k \in Interactions : e = Ask(k) => ~Occurs(Ask(k), events)
      BY <2>3, <2>5
    <3>2. /\ Append(events, e) \in Seq(Events) /\ Single(Append(events, e))
          /\ \A x : Occurs(x, Append(events, e)) <=> Occurs(x, events) \/ x = e
      BY <1>1, <2>3, <3>1, AppendFacts
    <3> QED
      BY <2>2, <2>3, <3>2
  <2>7. \A k \in Interactions : Fresh(k) => Fresh(k)'
    BY <2>4, <2>6 DEF Fresh, rows
  <2>8. \A t \in Tasks : TaskInv(t)'
    BY <2>4, <2>7, StillKeeps DEF NoneBack
  <2>9. TypeOK' /\ AskInv' /\ StopInv'
    BY <2>4, <2>5, <2>6 DEF SessionInv, TypeOK, AskInv, StopInv, rows, memory
  <2>10. OpenInv' /\ AnswerInv' /\ ServerInv' /\ CompletedAsked'
    BY <2>4 DEF SessionInv, OpenInv, AnswerInv, ServerInv, CompletedAsked, rows, memory
  <2> QED
    BY <2>8, <2>9, <2>10 DEF SessionInv
<1> QED
  BY <1>2, <1>3

\* The process dies, and the next one starts.
LEMMA RestartKeeps ==
  ASSUME SessionInv, Crash \/ RestartQueue \/ RestartClose \/ RestartFail
  PROVE  SessionInv'
<1> USE SessionTyped
<1>0. ASSUME NEW t \in Tasks, task'[t].pc = "idle", ~task'[t].live PROVE TaskInv(t)'
  BY <1>0, PlacesOf DEF TaskInv
<1>1. CASE Crash
  <2>1. /\ server' = "down" /\ task' = [t \in Tasks |-> Idle]
        /\ active' = FALSE /\ armed' = {} /\ required' = {} /\ buffer' = <<>> /\ events' = <<>>
        /\ run' = IF run = "running" THEN "lost" ELSE run
        /\ asking' = {} /\ UNCHANGED <<rows, late, adapter, unasked, answered, denied>>
    BY <1>1 DEF Crash
  <2>2. /\ task' \in [Tasks -> TaskRecord]
        /\ \A t \in Tasks : task'[t].pc = "idle" /\ ~task'[t].live
    BY <2>1, IdleTyped
  <2>3. \A t \in Tasks : TaskInv(t)'
    BY <1>0, <2>2
  <2>4. TypeOK'
    <3>1. <<>> \in Seq(Events) /\ run' \in {"none", "running", "ended", "aborted", "lost"}
      BY <2>1
    <3> QED
      BY <2>1, <2>2, <3>1 DEF SessionInv, TypeOK, rows
  <2>5. \A x : ~Occurs(x, <<>>)
    BY DEF Occurs
  <2>6. AskInv'
    <3>1. Handler \in Tasks
      BY DEF Tasks
    <3> QED
      BY <2>1, <2>2, <2>5, <3>1 DEF SessionInv, AskInv, rows, Single
  <2>7. StopInv' /\ AnswerInv' /\ ServerInv' /\ CompletedAsked'
    BY <2>1, <2>5 DEF SessionInv, StopInv, AnswerInv, ServerInv, CompletedAsked, rows
  <2>8. OpenInv'
    <3>1. Starter \in Tasks
      BY DEF Tasks
    <3> QED
      BY <2>1, <2>2, <3>1 DEF SessionInv, OpenInv, rows
  <2> QED
    BY <2>3, <2>4, <2>6, <2>7, <2>8 DEF SessionInv
<1>2. ASSUME RestartQueue \/ RestartClose \/ RestartFail
      PROVE  /\ server # "up" /\ server' # "up" /\ ~active /\ UNCHANGED <<late, memory, task, buffer, events, provider>>
             /\ \A t \in Tasks : task[t].pc = "idle" /\ TaskInv(t)'
  <2>1. server # "up" /\ server' # "up" /\ UNCHANGED <<late, memory, task, buffer, events, provider>>
    BY <1>2 DEF RestartQueue, RestartClose, RestartFail
  <2>2. \A t \in Tasks : task[t].pc = "idle" /\ ~task[t].live
    BY <2>1 DEF SessionInv, TaskInv
  <2>3. \A t \in Tasks : TaskInv(t)'
    BY <1>0, <2>1, <2>2
  <2> QED
    BY <2>1, <2>2, <2>3 DEF SessionInv, ServerInv
<1>3. Handler \in Tasks /\ Starter \in Tasks
  BY DEF Tasks
<1>4. CASE RestartQueue
  <2>1. /\ server = "down" /\ server' = "booting" /\ exec' = (IF exec \in Working THEN "failed" ELSE exec)
        /\ UNCHANGED <<session, inter>>
    BY <1>4 DEF RestartQueue, Transition
  <2>2. TypeOK'
    BY <1>2, <1>4, <2>1 DEF SessionInv, TypeOK, memory, provider
  <2>3. AskInv' /\ StopInv'
    BY <1>2, <1>4, <2>1 DEF SessionInv, AskInv, StopInv, provider
  <2>4. OpenInv' /\ ServerInv'
    BY <1>2, <1>3, <1>4, <2>1 DEF SessionInv, OpenInv, ServerInv, memory, provider
  <2>5. AnswerInv' /\ CompletedAsked'
    BY <1>2, <1>4, <2>1 DEF SessionInv, AnswerInv, CompletedAsked, provider
  <2> QED
    BY <1>2, <1>4, <2>2, <2>3, <2>4, <2>5 DEF SessionInv
<1>5. CASE RestartClose
  <2>1. /\ server = "booting" /\ UNCHANGED <<exec, session>>
        /\ \/ session \in Working /\ CancelPending /\ server' = "closing"
           \/ session \notin Working /\ UNCHANGED inter /\ server' = "restarted"
    BY <1>5 DEF RestartClose
  <2>2. /\ inter' \in [Interactions -> Row]
        /\ \A i \in Interactions :
             /\ inter'[i].state = "none" <=> inter[i].state = "none"
             /\ inter'[i].state \in {"none", "pending", "expired"} => inter'[i] = inter[i]
             /\ inter'[i].state = "resolved" => inter'[i] = inter[i]
    <3>1. CASE CancelPending
      <4>1. inter' = [i \in Interactions |->
                        IF inter[i].state \in {"pending", "resolving"}
                          THEN [inter[i] EXCEPT !.state = "cancelled"] ELSE inter[i]]
        BY <3>1 DEF CancelPending
      <4>2. /\ inter' \in [Interactions -> Row]
            /\ \A i \in Interactions :
                 inter'[i].state = IF inter[i].state \in {"pending", "resolving"}
                                   THEN "cancelled" ELSE inter[i].state
        BY <3>1, CancelPendingEffect DEF SessionInv
      <4> QED
        BY <4>1, <4>2
    <3>2. CASE UNCHANGED inter
      BY <3>2
    <3> QED
      BY <2>1, <3>1, <3>2
  <2>3. TypeOK'
    BY <1>2, <1>5, <2>1, <2>2 DEF SessionInv, TypeOK, memory, provider
  <2>4. AskInv' /\ StopInv'
    BY <1>2, <1>5, <2>1, <2>2 DEF SessionInv, AskInv, StopInv, provider
  <2>5. OpenInv'
    BY <1>2, <1>3, <1>5, <2>1, <2>2 DEF SessionInv, OpenInv, memory, provider
  <2>6. ServerInv'
    BY <1>2, <1>5, <2>1 DEF SessionInv, ServerInv, memory, provider
  <2>7. AnswerInv' /\ CompletedAsked'
    BY <1>2, <1>5, <2>1, <2>2, TasksAssumption DEF SessionInv, AnswerInv, CompletedAsked, provider
  <2> QED
    BY <1>2, <1>5, <2>3, <2>4, <2>5, <2>6, <2>7 DEF SessionInv
<1>6. CASE RestartFail
  <2>1. /\ server = "closing" /\ server' = "restarted" /\ session' = "failed"
        /\ exec' = (IF exec \in Working THEN "failed" ELSE exec)
        /\ UNCHANGED inter
    BY <1>6 DEF RestartFail, Transition, SetSession
  <2>2. exec # "none" /\ session # "none"
    BY <2>1 DEF SessionInv, ServerInv, OpenInv
  <2>3. TypeOK'
    BY <1>2, <1>6, <2>1 DEF SessionInv, TypeOK, memory, provider
  <2>4. AskInv' /\ StopInv'
    BY <1>2, <1>6, <2>1 DEF SessionInv, AskInv, StopInv, provider
  <2>5. OpenInv' /\ ServerInv'
    BY <1>2, <1>3, <1>6, <2>1, <2>2 DEF SessionInv, OpenInv, ServerInv, memory, provider
  <2>6. AnswerInv' /\ CompletedAsked'
    BY <1>2, <1>6, <2>1 DEF SessionInv, AnswerInv, CompletedAsked, provider
  <2> QED
    BY <1>2, <1>6, <2>3, <2>4, <2>5, <2>6 DEF SessionInv
<1> QED
  BY <1>1, <1>4, <1>5, <1>6

\* The gateway tells that an approval was decided.
LEMMA ResolvedKeeps ==
  ASSUME SessionInv, NEW i \in Interactions, ApprovalResolved(i)
  PROVE  SessionInv'
<1>1. /\ asking' = asking \ {i}
      /\ UNCHANGED <<rows, late, memory, task, buffer, events, adapter, run, unasked, answered, denied, server>>
  BY DEF ApprovalResolved
<1>2. \A t \in Tasks : TaskInv(t)'
  BY <1>1, StillKeeps DEF Fresh, NoneBack, rows
<1>3. TypeOK' /\ AskInv' /\ StopInv'
  BY <1>1 DEF SessionInv, TypeOK, AskInv, StopInv, rows, memory
<1>4. OpenInv' /\ AnswerInv' /\ ServerInv' /\ CompletedAsked'
  BY <1>1 DEF SessionInv, OpenInv, AnswerInv, ServerInv, CompletedAsked, rows, memory
<1> QED
  BY <1>2, <1>3, <1>4 DEF SessionInv

\* Time passes, or nothing happens.
LEMMA ClockKeeps ==
  ASSUME SessionInv, UNCHANGED vars \/ \E i \in Interactions : TimePasses(i)
  PROVE  SessionInv'
<1>1. UNCHANGED <<rows, memory, task, buffer, events, provider, server>> /\ late' \subseteq Interactions
  BY SessionTyped DEF vars, TimePasses
<1>2. \A t \in Tasks : TaskInv(t)'
  BY <1>1, StillKeeps DEF Fresh, NoneBack, provider, rows
<1>3. TypeOK' /\ AskInv' /\ StopInv'
  BY <1>1 DEF SessionInv, TypeOK, AskInv, StopInv, rows, memory, provider
<1>4. OpenInv' /\ AnswerInv' /\ ServerInv' /\ CompletedAsked'
  BY <1>1 DEF SessionInv, OpenInv, AnswerInv, ServerInv, CompletedAsked, rows, memory, provider
<1> QED
  BY <1>2, <1>3, <1>4 DEF SessionInv

----------------------------------------------------------------------------
LEMMA SessionInvInit == Init => SessionInv
<1> SUFFICES ASSUME Init PROVE SessionInv
  OBVIOUS
<1>1. task = [t \in Tasks |-> Idle] /\ inter = [i \in Interactions |-> NewRow]
      /\ answered = [i \in Interactions |-> 0] /\ events = <<>> /\ buffer = <<>>
      /\ exec = "none" /\ session = "none" /\ late = {} /\ active = FALSE /\ armed = {} /\ required = {}
      /\ run = "none" /\ unasked = Interactions /\ asking = {} /\ server = "up"
      /\ adapter \in {"codex", "openclaw"} /\ denied = [i \in Interactions |-> "never"]
  BY DEF Init
<1>2. NewRow \in Row /\ NewRow.state = "none"
  BY BoundsAssumption DEF NewRow, Row
<1>3. /\ task \in [Tasks -> TaskRecord] /\ inter \in [Interactions -> Row]
      /\ \A t \in Tasks : task[t].pc = "idle" /\ ~task[t].live
      /\ \A i \in Interactions : inter[i].state = "none"
  BY <1>1, <1>2, IdleTyped
<1>4. \A x : ~Occurs(x, <<>>)
  BY DEF Occurs
<1>5. Handler \in Tasks /\ Starter \in Tasks
  BY DEF Tasks
<1>6. TypeOK
  <2>1. "none" \in Lifecycle!Status /\ <<>> \in Seq(Events)
    BY DEF Lifecycle!Status
  <2> QED
    BY <1>1, <1>3, <2>1 DEF TypeOK
<1>7. AskInv /\ StopInv /\ OpenInv
  BY <1>1, <1>3, <1>4, <1>5, TasksAssumption DEF AskInv, StopInv, OpenInv, Single
<1>8. AnswerInv /\ ServerInv /\ CompletedAsked
  BY <1>1, <1>3 DEF AnswerInv, ServerInv, CompletedAsked
<1>9. \A t \in Tasks : TaskInv(t)
  BY <1>3, PlacesOf DEF TaskInv
<1> QED
  BY <1>6, <1>7, <1>8, <1>9 DEF SessionInv

LEMMA SessionInvStep == SessionInv /\ [Next]_vars => SessionInv'
<1> SUFFICES ASSUME SessionInv, [Next]_vars PROVE SessionInv'
  OBVIOUS
<1>1. ASSUME NEW t \in Tasks, TaskStep(t) PROVE SessionInv'
  BY <1>1, DenyKeeps, FailKeeps, StartKeeps, ReplayKeeps, ReceiveKeeps, EventKeeps, CreateKeeps, RespondKeeps, ExpiryKeeps,
     CancelKeeps DEF TaskStep, FailStep
<1> QED
  BY <1>1, StartKeeps, ProviderKeeps, ResolvedKeeps, ClockKeeps, AskedKeeps, CancelKeeps, RestartKeeps DEF Next

\* In every reachable state, and for every set of interactions, answers and
\* cancellations, the tasks, the rows, the queues and the provider fit together.
THEOREM SessionInvariant == Spec => []SessionInv
<1>1. Init => SessionInv
  BY SessionInvInit
<1>2. SessionInv /\ [Next]_vars => SessionInv'
  BY SessionInvStep
<1> QED
  BY <1>1, <1>2, PTL DEF Spec

\* Every variable has its type.
THEOREM TypeCorrect == Spec => []TypeOK
<1>1. SessionInv => TypeOK
  BY DEF SessionInv
<1> QED
  BY <1>1, SessionInvariant, PTL

\* However many answers race, are repeated, given back and given again, the provider
\* is given at most one per interaction; a record that says resolved was answered; and
\* from then on no failure, cancellation or shutdown denies it.
THEOREM AnswersAreSingle == Spec => []AnsweredOnce
<1>1. SessionInv => AnsweredOnce
  BY DEF SessionInv, AnswerInv, AnsweredOnce
<1> QED
  BY <1>1, SessionInvariant, PTL

\* No execution completes before every required interaction was asked, also when
\* the list of what is still missing was forgotten or is being rewritten.
THEOREM CompletionIsEarned == Spec => []CompletedAsked
<1>1. SessionInv => CompletedAsked
  BY DEF SessionInv
<1> QED
  BY <1>1, SessionInvariant, PTL

\* No execution is reported as cancelled while its provider may still run.
THEOREM CancellationIsConfirmed == Spec => []CancelledIsConfirmed
<1>1. SessionInv => CancelledIsConfirmed
  BY DEF SessionInv, StopInv, CancelledIsConfirmed
<1> QED
  BY <1>1, SessionInvariant, PTL

\* Wherever the process died, its successor leaves neither the execution nor its
\* session in a state that looks alive.
THEOREM RestartIsClean == Spec => []RestartSettles
<1>1. SessionInv => RestartSettles
  BY DEF SessionInv, ServerInv, RestartSettles
<1> QED
  BY <1>1, SessionInvariant, PTL

----------------------------------------------------------------------------
(* The two abstract specifications.                                        *)

\* The edge that a step takes the execution over.
ExecEdge ==
  \/ exec' = exec
  \/ exec = "none" /\ exec' = "running"
  \/ exec \in Working /\ exec' \in (Working \cup Terminal) \ {exec}

LEMMA ExecMoves ==
  ASSUME SessionInv, [Next]_vars
  PROVE  ExecEdge
<1>1. ASSUME NEW t \in Tasks, TaskStep(t) PROVE ExecEdge
  <2>1. CASE FailStep(t)
    BY <2>1 DEF FailStep, Close, FailSession, FailRow, FailEnd, Deny, Abort, Transition, rows, ExecEdge
  <2>2. CASE EventStep(t)
    <3>1. CASE SettleRow(t)
      <4>1. task[t].said \in {"completed", "partial", "failed"}
        BY <3>1 DEF SettleRow, SessionInv, TaskInv
      <4> QED
        BY <3>1, <4>1 DEF SettleRow, Transition, ExecEdge
    <3>2. CASE ~SettleRow(t)
      BY <2>2, <3>2 DEF EventStep, Create, MarkWaiting, MarkRow, ListPending, Settle, StopSession, StopRow, SettleEnd,
         Transition, rows, ExecEdge
    <3> QED
      BY <3>1, <3>2
  <2>3. CASE StartStep \/ Replay \/ Receive
    BY <2>3 DEF StartStep, Launch, OpenSession, Consume, Replay, Receive, rows, ExecEdge
  <2>4. CASE RespondStep(t)
    BY <2>4 DEF RespondStep, Claim, Look, ExpireRow, Deliver, Contact, Answered, Resolve, Release, Tally,
       ResumeSession, ResumeRow, Transition, rows, ExecEdge
  <2>5. CASE Fire(t) \/ Check(t) \/ CancelStep(t)
    BY <2>5 DEF Fire, Check, CancelStep, CancelClose, Deny, CancelRun, Reconcile, CancelRead, rows, ExecEdge
  <2> QED
    BY <1>1, <2>1, <2>2, <2>3, <2>4, <2>5 DEF TaskStep
<1>2. CASE Claimed \/ RestartQueue \/ RestartClose \/ RestartFail \/ Crash
  BY <1>2 DEF Claimed, RestartQueue, RestartClose, RestartFail, Crash, Transition, rows, ExecEdge
<1>3. ASSUME \/ ProviderEnds
             \/ \E i \in Interactions : ProviderAsks(i) \/ ApprovalResolved(i) \/ TimePasses(i)
             \/ \E r \in Responders, i \in Interactions : Respond(r, i)
             \/ \E c \in Cancellers : Cancel(c) \/ Shutdown(c)
             \/ UNCHANGED vars
      PROVE  ExecEdge
  BY <1>3 DEF ProviderEnds, ProviderAsks, ApprovalResolved, TimePasses, Respond, Cancel, Shutdown, vars, rows, ExecEdge
<1> QED
  BY <1>1, <1>2, <1>3 DEF Next

\* The edge that a step takes the interactions over.
InterEdge ==
  \/ inter' = inter
  \/ CancelPending
  \/ \E i \in Interactions :
       /\ \A k \in Interactions \ {i} : inter'[k] = inter[k]
       /\ \/ inter[i].state = "none" /\ inter'[i].state = "pending"
          \/ inter[i].state = "pending" /\ inter'[i].state \in {"resolving", "expired"}
          \/ inter[i].state = "resolving" /\ inter'[i].state \in {"pending", "resolved"}

LEMMA InterMoves ==
  ASSUME SessionInv, [Next]_vars
  PROVE  InterEdge
<1>0. inter \in [Interactions -> Row]
  BY SessionTyped
<1>1. ASSUME NEW t \in Tasks, TaskStep(t) PROVE InterEdge
  <2>1. CASE FailStep(t)
    BY <2>1 DEF FailStep, Close, FailSession, FailRow, FailEnd, Deny, Abort, rows, InterEdge
  <2>2. CASE Create(t)
    <3>1. task[t].on \in Interactions /\ inter[task[t].on] \in Row /\ inter[task[t].on].state = "none"
      BY <1>0, <2>2 DEF Create, SessionInv, TaskInv, Fresh
    <3>2. inter' = [inter EXCEPT ![task[t].on].state = "pending"]
      BY <2>2 DEF Create, SetState
    <3>3. inter'[task[t].on].state = "pending" /\ \A k \in Interactions \ {task[t].on} : inter'[k] = inter[k]
      BY <1>0, <3>1, <3>2 DEF Row
    <3> QED
      BY <3>1, <3>3 DEF InterEdge
  <2>3. CASE EventStep(t) /\ ~Create(t)
    BY <2>3 DEF EventStep, MarkWaiting, MarkRow, ListPending, Settle, SettleRow, StopSession, StopRow, SettleEnd,
       rows, InterEdge
  <2>4. CASE StartStep \/ Replay \/ Receive
    BY <2>4 DEF StartStep, Launch, OpenSession, Consume, Replay, Receive, rows, InterEdge
  <2>5. CASE t \in Responders /\ RespondStep(t)
    <3> DEFINE i == task[t].on
    <3>1. ASSUME Claim(t) \/ ExpireRow(t) \/ Resolve(t) \/ Release(t)
          PROVE  i \in Interactions /\ inter[i] \in Row
      BY <1>0, <2>5, <3>1 DEF Claim, ExpireRow, Resolve, Release, SessionInv, TaskInv, Holds
    <3>2. CASE Claim(t)
      <4>1. CASE inter[i].state = "pending" /\ inter' = [inter EXCEPT ![i].state = "resolving", ![i].by = t]
        <5>1. inter'[i].state = "resolving" /\ \A k \in Interactions \ {i} : inter'[k] = inter[k]
          BY <1>0, <3>1, <3>2, <4>1 DEF Row
        <5> QED
          BY <3>1, <3>2, <4>1, <5>1 DEF InterEdge
      <4> QED
        BY <3>2, <4>1 DEF Claim, InterEdge
    <3>3. CASE ExpireRow(t)
      <4>1. CASE inter[i].state = "pending" /\ inter' = [inter EXCEPT ![i].state = "expired"]
        <5>1. inter'[i].state = "expired" /\ \A k \in Interactions \ {i} : inter'[k] = inter[k]
          BY <1>0, <3>1, <3>3, <4>1 DEF Row
        <5> QED
          BY <3>1, <3>3, <4>1, <5>1 DEF InterEdge
      <4> QED
        BY <3>3, <4>1 DEF ExpireRow, SetState, InterEdge
    <3>4. CASE Resolve(t)
      <4>1. CASE inter[i].state = "resolving" /\ inter' = [inter EXCEPT ![i].state = "resolved"]
        <5>1. inter'[i].state = "resolved" /\ \A k \in Interactions \ {i} : inter'[k] = inter[k]
          BY <1>0, <3>1, <3>4, <4>1 DEF Row
        <5> QED
          BY <3>1, <3>4, <4>1, <5>1 DEF InterEdge
      <4> QED
        BY <3>4, <4>1 DEF Resolve, SetState, InterEdge
    <3>5. CASE Release(t)
      <4>1. CASE /\ inter[i].state = "resolving"
                 /\ inter' = [inter EXCEPT ![i] = [state |-> "pending", by |-> "none", round |-> @.round + 1]]
        <5>1. inter'[i].state = "pending" /\ \A k \in Interactions \ {i} : inter'[k] = inter[k]
          BY <1>0, <3>1, <3>5, <4>1
        <5> QED
          BY <3>1, <3>5, <4>1, <5>1 DEF InterEdge
      <4> QED
        BY <3>5, <4>1 DEF Release, InterEdge
    <3> QED
      BY <2>5, <3>2, <3>3, <3>4, <3>5 DEF RespondStep, Look, Deliver, Contact, Answered, Tally,
         ResumeSession, ResumeRow, rows, InterEdge
  <2>6. CASE Fire(t) \/ Check(t) \/ CancelStep(t)
    BY <2>6 DEF Fire, Check, CancelStep, CancelClose, Deny, CancelRun, Reconcile, CancelRead, rows, InterEdge
  <2> QED
    BY <1>1, <2>1, <2>2, <2>3, <2>4, <2>5, <2>6 DEF TaskStep
<1>2. CASE Claimed \/ RestartQueue \/ RestartClose \/ RestartFail \/ Crash
  BY <1>2 DEF Claimed, RestartQueue, RestartClose, RestartFail, Crash, rows, InterEdge
<1>3. ASSUME \/ ProviderEnds
             \/ \E i \in Interactions : ProviderAsks(i) \/ ApprovalResolved(i) \/ TimePasses(i)
             \/ \E r \in Responders, i \in Interactions : Respond(r, i)
             \/ \E c \in Cancellers : Cancel(c) \/ Shutdown(c)
             \/ UNCHANGED vars
      PROVE  InterEdge
  BY <1>3 DEF ProviderEnds, ProviderAsks, ApprovalResolved, TimePasses, Respond, Cancel, Shutdown, vars, rows, InterEdge
<1> QED
  BY <1>1, <1>2, <1>3 DEF Next

\* The execution row of a session, whatever the handler, the answers, the timers, the
\* cancellations and the restarts do to each other, only walks the edges of the life cycle.
THEOREM SessionWalksLifecycle == Spec => LifecycleSpec
<1>1. Init => Lifecycle!Init
  BY DEF Init, Lifecycle!Init, Lifecycle!Status
<1>2. SessionInv /\ [Next]_vars => [Lifecycle!Next]_([e \in {Execution} |-> exec])
  <2> SUFFICES ASSUME SessionInv, [Next]_vars, exec' # exec
               PROVE  Lifecycle!Next
    OBVIOUS
  <2>1. ExecEdge
    BY ExecMoves
  <2>2. exec' \in Lifecycle!Successors(exec)
    BY <2>1 DEF ExecEdge, Lifecycle!Successors, Lifecycle!Status, Lifecycle!Session, Lifecycle!Waiting
  <2>3. Lifecycle!Move(Execution)
    BY <2>2 DEF Lifecycle!Move
  <2> QED
    BY <2>3 DEF Lifecycle!Next
<1> QED
  BY <1>1, <1>2, SessionInvariant, PTL DEF Spec, LifecycleSpec, Lifecycle!Spec

\* An interaction record is claimed, given back and closed along the edges of its
\* graph, and never changes once it is closed.
THEOREM SessionWalksInteractions == Spec => InteractionSpec
<1> DEFINE st == [i \in Interactions |-> inter[i].state]
<1>1. Init => Interaction!Init
  BY DEF Init, NewRow, Interaction!Init
<1>2. SessionInv /\ [Next]_vars => [Interaction!Next]_st
  <2> SUFFICES ASSUME SessionInv, [Next]_vars
               PROVE  Interaction!Next \/ UNCHANGED st
    OBVIOUS
  <2>1. InterEdge
    BY InterMoves
  <2>2. CASE inter' = inter
    BY <2>2
  <2>3. CASE CancelPending
    <3>1. \A i \in Interactions :
            inter'[i].state = IF inter[i].state \in {"pending", "resolving"} THEN "cancelled" ELSE inter[i].state
      BY <2>3, CancelPendingEffect DEF SessionInv
    <3>2. Interaction!CancelOpen
      BY <3>1 DEF Interaction!CancelOpen
    <3> QED
      BY <3>2 DEF Interaction!Next
  <2>4. ASSUME NEW i \in Interactions, \A k \in Interactions \ {i} : inter'[k] = inter[k],
               \/ inter[i].state = "none" /\ inter'[i].state = "pending"
               \/ inter[i].state = "pending" /\ inter'[i].state \in {"resolving", "expired"}
               \/ inter[i].state = "resolving" /\ inter'[i].state \in {"pending", "resolved"}
        PROVE  Interaction!Next
    <3>1. inter'[i].state \in Interaction!Successors(inter[i].state)
      BY <2>4 DEF Interaction!Successors
    <3>2. [k \in Interactions |-> inter'[k].state] = [[k \in Interactions |-> inter[k].state] EXCEPT ![i] = inter'[i].state]
      BY <2>4
    <3>3. Interaction!Change(i)
      BY <3>1, <3>2 DEF Interaction!Change
    <3> QED
      BY <3>3 DEF Interaction!Next
  <2> QED
    BY <2>1, <2>2, <2>3, <2>4 DEF InterEdge
<1> QED
  BY <1>1, <1>2, SessionInvariant, PTL DEF Spec, InteractionSpec, Interaction!Spec
=============================================================================
