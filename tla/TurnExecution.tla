---------------------------- MODULE TurnExecution ----------------------------
(***************************************************************************)
(* What a planned turn does.  planner.run turns the reading of a turn      *)
(* (TurnResources) into a plan of actions; execute_turn_plan runs them     *)
(* over the session's outputs, artifact gates and assembly; answer.run     *)
(* then answers.  A tool, skill, assembler or validator is a function      *)
(* registered by the embedding application: its result is external.        *)
(*   An execution `e` is the part of the graph's state these nodes change: *)
(* the outputs the session keeps, the outputs of the turn shown or hidden, *)
(* the artifacts and results logged, the artifact roles, output targets    *)
(* and gates of the session, and its assembly and validation.              *)
(***************************************************************************)
EXTENDS TurnResources

NoOutput == [id |-> None, visible |-> FALSE, content |-> FALSE, by |-> {}, status |-> None]
NoAssembly == [targets |-> <<>>, source |-> None, status |-> None]
NothingDone ==
    [outputs |-> <<>>, shown |-> <<>>, hidden |-> <<>>, artifacts |-> <<>>, results |-> <<>>,
     roles |-> <<>>, targets |-> <<>>, gates |-> <<>>, assembly |-> NoAssembly,
     validation |-> None, pending |-> <<>>]
Action == [id |-> None, type |-> None, target |-> None, key |-> None, inputs |-> {},
           visible |-> FALSE, content |-> FALSE, roles |-> <<>>, required |-> FALSE,
           targets |-> <<>>, source |-> None]
(* What an executor may return. *)
Result == [outputs |-> <<>>, shown |-> <<>>, hidden |-> <<>>, validation |-> None, pending |-> <<>>,
           assembly |-> NoAssembly, artifacts |-> <<>>]

Join(s, more) == KeepFirst(s \o more, LAMBDA x : x)

-----------------------------------------------------------------------------
(* The plan (planner.run). *)
OutputTargets(x) ==
    LET named == PlannedOf(x, "output_artifact")
    IN  KeepFirst(Map(IF named # <<>> THEN named ELSE ResourcesOf("output_artifact"), LAMBDA r : r.file),
                  LAMBDA f : f)
SearchesKnowledge(x) == "search" \in x.t.query \/ PlannedOf(x, "knowledge_source") # <<>>
ReadsAnything(x) ==
    \/ PlannedOf(x, "instruction_source") \o PlannedOf(x, "output_template") # <<>>
    \/ PrimaryFile(x.t) # None \/ StepFiles(x.t.pick.scope).block # <<>>
    \/ SearchesKnowledge(x) \/ SelectedUploads(x.t, x.u) # <<>>

When(condition, actions) == IF condition THEN actions ELSE <<>>
(* _build_actions: the answer is assembled and validated before it exists. *)
Actions(x) ==
    LET targets == OutputTargets(x)
        Final(id, type, target) ==
            [Action EXCEPT !.id = id, !.type = type, !.target = target, !.targets = targets,
                           !.source = "final_answer"]
    IN  When(ReadsAnything(x), <<[Action EXCEPT !.id = "prepare", !.type = "load_resource"]>>)
          \o When(SearchesKnowledge(x), <<[Action EXCEPT !.id = "retrieve", !.type = "retrieve_knowledge"]>>)
          \o When(targets # <<>>,
                  <<Final("assemble", "assemble_output", "output_artifact_assembler"),
                    Final("validate", "validate_output", "output_artifact_validator")>>)
          \o <<[Action EXCEPT !.id = "respond", !.type = "respond_to_user", !.key = "final_answer",
                              !.visible = TRUE],
               [Action EXCEPT !.id = "update", !.type = "update_session_state"]>>

-----------------------------------------------------------------------------
(* The session's artifact gates. *)
GateAt(gates, key) == FirstOr(gates, LAMBDA g : g.key = key, [NoGate EXCEPT !.key = key])
Put(gates, g) ==
    IF \E k \in ToSet(gates) : k.key = g.key
    THEN Map(gates, LAMBDA k : IF k.key = g.key THEN g ELSE k)
    ELSE Append(gates, g)

(* An artifact of a role: its own gate and, when the turn knows whether it *)
(* is there (verdict: "yes", "no" or None), every required gate for it.    *)
Verdict(g, verdict) == IF verdict = None THEN g.satisfied ELSE verdict = "yes"
ForRole(gates, role, verdict) ==
    LET old == GateAt(gates, role)
        now == Verdict(old, verdict)
        own == [old EXCEPT !.role = role, !.satisfied = now,
                           !.status = Or(@, IF now THEN "satisfied" ELSE "available")]
    IN  Map(Put(gates, own),
            LAMBDA g : IF verdict = None \/ g.role # role \/ ~g.required THEN g
                       ELSE [g EXCEPT !.satisfied = now,
                                      !.status = IF now THEN "satisfied" ELSE Or(@, "awaiting_artifact")])
ForRequired(gates, role, verdict) ==
    LET old == GateAt(gates, role)
        now == Verdict(old, verdict)
    IN  Put(gates, [old EXCEPT !.role = role, !.required = TRUE, !.satisfied = now,
                               !.status = Or(@, IF now THEN "satisfied" ELSE "awaiting_artifact")])

(* A claim is what an action, a payload or an artifact says of artifact    *)
(* roles and output targets, and whether the roles' artifacts are there.   *)
Claim(p, verdict) ==
    [roles |-> p.roles, required |-> p.required, targets |-> p.targets, source |-> p.source,
     verdict |-> IF p.roles = <<>> THEN None ELSE verdict]

(* _update_artifact_metadata *)
Note(e, c) ==
    LET optional == FoldLeft(LAMBDA gates, role : ForRole(gates, role, c.verdict), e.gates, c.roles)
        targets  == Join(e.targets, c.targets)
    IN  [e EXCEPT !.roles = Join(@, c.roles), !.targets = targets,
                  !.gates = IF c.required
                            THEN FoldLeft(LAMBDA gates, role : ForRequired(gates, role, c.verdict), optional, c.roles)
                            ELSE optional,
                  !.assembly = IF c.targets = <<>> /\ c.source = None THEN @
                               ELSE [@ EXCEPT !.targets = targets, !.source = c.source]]

-----------------------------------------------------------------------------
(* The outputs of the turn and of the session. *)
Find(e, id) ==
    id # None /\ \E o \in ToSet(e.shown \o e.hidden \o e.outputs) : o.id = id

(* _ensure_intermediate_output: one output of an id, its consumers kept. *)
Keep(e, o) ==
    LET old == FirstOr(e.outputs, LAMBDA k : k.id = o.id, NoOutput)
    IN  IF old = NoOutput THEN [e EXCEPT !.outputs = Append(@, o)]
        ELSE [e EXCEPT !.outputs = Map(@, LAMBDA k :
                 IF k.id # o.id THEN k
                 ELSE [k EXCEPT !.visible = o.visible, !.content = @ \/ o.content,
                                !.by = @ \cup o.by, !.status = Or(o.status, @)])]
Show(e, o) ==
    IF o.visible THEN [e EXCEPT !.shown = Append(@, [id |-> o.id, content |-> o.content])]
    ELSE [e EXCEPT !.hidden = Append(@, [id |-> o.id, content |-> o.content])]

(* _store_output_payload *)
Payload == [id |-> None, visible |-> FALSE, content |-> FALSE, status |-> "draft", roles |-> <<>>,
            required |-> FALSE, targets |-> <<>>, source |-> None]
Store(e, p) ==
    LET o == [NoOutput EXCEPT !.id = p.id, !.visible = p.visible, !.content = p.content,
                              !.status = p.status]
    IN  Show(Keep(e, o), o)

Log(e, kind, action) == [e EXCEPT !.artifacts = Append(@, [kind |-> kind, action |-> action])]

(* _apply_executor_result: the roles of an action are there once its       *)
(* executor has returned.                                                  *)
Claims(a, r) ==
    Map(r.outputs \o r.shown \o r.hidden, LAMBDA p : Claim([p EXCEPT !.targets = <<>>, !.source = None], "yes"))
      \o <<Claim([Payload EXCEPT !.targets = r.assembly.targets, !.source = r.assembly.source], None)>>
      \o Map(r.artifacts, LAMBDA p : Claim(p, "yes"))
      \o <<Claim(a, "yes")>>
Apply(e, a, r, kind) ==
    LET stored == FoldLeft(Store, e, r.outputs \o r.shown \o r.hidden)
        logged == FoldLeft(LAMBDA s, p : Log(s, p.id, a.id), stored, r.artifacts)
        merged == [Log(logged, kind, a.id) EXCEPT
                      !.assembly.status = Or(r.assembly.status, @),
                      !.validation = Or(r.validation, @),
                      !.pending = IF r.validation = None THEN @ ELSE r.pending]
    IN  FoldLeft(Note, merged, Claims(a, r))

(* The built-in assembler and validator wait for their source. *)
AssemblerResult(e, a) ==
    LET status == IF Find(e, a.source) THEN "ready_for_render" ELSE "pending_source_output"
    IN  [Result EXCEPT !.assembly = [targets |-> a.targets, source |-> a.source, status |-> status],
                       !.hidden = <<[Payload EXCEPT !.id = "assembly_plan", !.status = "complete"]>>,
                       !.artifacts = <<[Payload EXCEPT !.id = "assembly_plan", !.targets = a.targets]>>]
ValidatorResult(e, a) ==
    LET found == Find(e, a.source)
    IN  [Result EXCEPT !.validation = IF found THEN "passed" ELSE "pending_source_output",
                       !.pending = IF found THEN <<>> ELSE a.targets,
                       !.hidden = <<[Payload EXCEPT !.id = "validation_report", !.status = "complete"]>>,
                       !.artifacts = <<[Payload EXCEPT !.id = "validation_report", !.targets = a.targets]>>]

BuiltIn == {"output_artifact_assembler", "output_artifact_validator"}
Outcome(e, a, registry) ==
    CASE a.target = "output_artifact_assembler" -> AssemblerResult(e, a)
      [] a.target = "output_artifact_validator" -> ValidatorResult(e, a)
      [] OTHER -> registry[a.target]
KindOf == [invoke_tool |-> "tool_call", invoke_skill |-> "skill_call",
           assemble_output |-> "assembly", validate_output |-> "validation"]
(* An executor that is not registered is skipped, not failed. *)
Invoke(e, a, registry) ==
    IF a.target \in BuiltIn \cup DOMAIN registry
    THEN Apply(e, a, Outcome(e, a, registry), KindOf[a.type])
    ELSE Log(e, "skipped", a.id)
Record(e) == [e EXCEPT !.results = Append(@, e.artifacts[Len(e.artifacts)])]

(* _execute_generate_intermediate_output: the output keeps its status. *)
Generate(e, a) ==
    LET o == [NoOutput EXCEPT !.id = Or(a.key, a.id), !.visible = a.visible, !.content = a.content]
        kept == Map(Keep(e, o).outputs, LAMBDA k : [k EXCEPT !.status = Or(@, "draft")])
    IN  Note(Log(Show([e EXCEPT !.outputs = kept], o), "intermediate_output", a.id),
             Claim([a EXCEPT !.source = None], "yes"))

(* _mark_action_input_consumption *)
Consume(e, a) ==
    [e EXCEPT !.outputs = Map(@, LAMBDA o :
        IF o.id \in a.inputs THEN [o EXCEPT !.by = @ \cup {a.id}, !.status = "consumed"] ELSE o)]

Perform(e, a, registry) ==
    CASE a.type = "update_session_state" -> Log(e, "session_state_update", a.id)
      [] a.type = "generate_intermediate_output" -> Generate(e, a)
      [] a.type \in DOMAIN KindOf ->
            LET done == Invoke(e, a, registry)
            IN  IF a.type = "assemble_output" THEN done ELSE Record(done)
      [] a.type = "respond_to_user" ->
            Log(IF a.content THEN Show(e, [NoOutput EXCEPT !.id = Or(a.key, a.id), !.visible = TRUE, !.content = TRUE])
                ELSE e, "response_action", a.id)
      [] OTHER -> Log(e, "action_observed", a.id)

-----------------------------------------------------------------------------
(* _sync_artifact_gate_state_from_plan: every required request has a gate; *)
(* one known to be satisfied stays so.  A required role of an action is    *)
(* not there before the action.                                            *)
SyncRequest(e, q) ==
    LET role == Or(q.artifact, q.file)
        key  == Or(q.binding, role)
        old  == GateAt(e.gates, key)
        seen == [e EXCEPT !.roles = Join(@, Some(role))]
    IN  IF ~q.required \/ key = None THEN seen
        ELSE [seen EXCEPT !.gates =
                 Put(@, [old EXCEPT !.role = Or(role, @), !.required = TRUE,
                                    !.status = Or(@, IF old.satisfied THEN "satisfied" ELSE "awaiting_artifact")])]
PlanClaims(actions) ==
    LET assembling == FirstOr(actions, LAMBDA a : a.type = "assemble_output" /\ (a.targets # <<>> \/ a.source # None),
                              Action)
    IN  Map(actions, LAMBDA a : Claim(a, IF a.required THEN "no" ELSE None))
          \o <<Claim([Payload EXCEPT !.targets = assembling.targets, !.source = assembling.source], None)>>
(* _sync_assembly_state_from_plan *)
SyncAssembly(e, actions) ==
    LET assembling == \E a \in ToSet(actions) : a.type = "assemble_output" /\ (a.targets # <<>> \/ a.source # None)
    IN  [e EXCEPT !.assembly.status =
            IF ~assembling THEN @
            ELSE IF Find(e, e.assembly.source) THEN "ready_for_render" ELSE "pending_source_output"]

(* execute_turn_plan.run *)
Execute(before, requests, actions, registry) ==
    LET synced == FoldLeft(Note, FoldLeft(SyncRequest, before, requests), PlanClaims(actions))
    IN  FoldLeft(LAMBDA e, a : Perform(Consume(e, a), a, registry), SyncAssembly(synced, actions), actions)

(* The turn of a reading, on the outputs and the assembly the session kept.*)
Executed(x, kept) ==
    Execute([NothingDone EXCEPT !.outputs = kept.outputs, !.assembly = kept.assembly,
                                !.gates = x.bound.gates, !.targets = OutputTargets(x)],
            x.requests, Actions(x), <<>>)

-----------------------------------------------------------------------------
(* answer.run: where the answer comes from, when the LLM answers (reply:   *)
(* "full", "missing" information, or "error") and answers again (safe).    *)
HasContent(e, s) == s.content \/ \E o \in ToSet(e.outputs) : o.id = s.id /\ o.content
DirectVisible(e) == \E s \in ToSet(e.shown) : HasContent(e, s)

-----------------------------------------------------------------------------
(* Properties *)

(* A gate stays shut: no action of a turn opens a required gate of which   *)
(* the session has no artifact.  The state the turn stores still requires  *)
(* it, whatever the turn's requests and its assembly say of the role.      *)
Shut(gates, b) == LET g == GateAt(gates, b.id) IN g.required /\ ~g.satisfied
GateStaysShut ==
    AtTurn => \A a \in Asks : \A x \in Readings(NextTurn(a)) : \A b \in ToSet(x.matched) :
                 Waits(b, x.u) => Shut(Executed(x, NothingDone).gates, b)
=============================================================================
