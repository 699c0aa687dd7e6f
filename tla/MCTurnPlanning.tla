---------------------------- MODULE MCTurnPlanning ----------------------------
(* A study application: an interactive step and a bundle of two. *)
EXTENDS TurnExecution

WorkflowStep(scope, order, words) == [scope |-> scope, order |-> order, words |-> words, weight |-> 4]
Step(id, of, order, mode, bundled) ==
    [id |-> id, procedure |-> of, order |-> order, mode |-> mode, bundled |-> bundled]

Study == [id |-> "study", triggers |-> {"trigger"}, weight |-> 5, isDefault |-> TRUE, gate |-> 0,
          steps |-> <<WorkflowStep("ask", 1, {}), WorkflowStep("draft", 2, {}),
                      WorkflowStep("refineDraft", 3, {"named"})>>]
Gated == [Study EXCEPT !.gate = 2, !.steps = <<WorkflowStep("gate", 0, {})>> \o @]

StudySteps == <<Step("ask", "studyProc", 1, "interactive", <<>>),
                Step("draft", "studyProc", 2, "bundled", <<"draft", "refineDraft">>),
                Step("refineDraft", "studyProc", 3, "bundled", <<>>)>>
(* The coach's author numbers from 3. *)
CoachSteps == <<Step("warmUp", "coachProc", 3, "interactive", <<>>),
                Step("drill", "coachProc", 4, "bundled", <<"drill">>)>>

Plain ==
    [planner |-> "hybrid_shadow", default |-> "study", workflows |-> <<Study>>,
     procedures |-> <<>>, steps |-> StudySteps, blocks |-> <<>>,
     gateRules |-> <<[from |-> "ask", to |-> None, required |-> {}, minimum |-> 3]>>,
     rules |-> <<>>, logics |-> <<>>, roles |-> <<>>]
Owned ==
    [Plain EXCEPT !.procedures = <<[id |-> "studyProc", block |-> "studyBlock", workflow |-> "study"]>>,
                  !.blocks = <<[id |-> "studyBlock", type |-> "primary_workflow"]>>]
Active ==
    [Plain EXCEPT !.planner = "hybrid_active", !.workflows = <<Gated>>,
                  !.procedures = <<[id |-> "coachProc", block |-> "coach", workflow |-> None]>>,
                  !.steps = [StudySteps EXCEPT ![1].mode = None] \o CoachSteps,
                  !.blocks = <<[id |-> "coach", type |-> "support_module"],
                               [id |-> "tutor", type |-> "support_module"],
                               [id |-> "extra", type |-> "followup_module"]>>,
                  !.rules = <<[id |-> "chatRule", words |-> {"chat"}, weight |-> 4, logic |-> "chatLogic",
                               block |-> None],
                              [id |-> "coachRule", words |-> {"theme"}, weight |-> 3, logic |-> "coachLogic",
                               block |-> None]>>,
                  !.logics = <<[id |-> "chatLogic", modules |-> <<>>, onDemand |-> <<"tutor">>],
                               [id |-> "coachLogic", modules |-> <<"coach">>, onDemand |-> <<>>]>>]

AllModels == {Owned, Active}
AllMessages == {{}, {"advance"}, {"theme", "audience"}, {"refine", "chat", "goal", "generation"}}

Quiet == [outOfScope |-> FALSE, role |-> None, workflow |-> None, targetWorkflow |-> None,
          block |-> None, step |-> None, supports |-> <<>>, followups |-> <<>>, sequence |-> <<>>,
          queue |-> <<>>, rule |-> None, action |-> None]
AllShadows == {Quiet,
               [Quiet EXCEPT !.outOfScope = TRUE],
               [Quiet EXCEPT !.step = "draft"],
               [Quiet EXCEPT !.supports = <<"coach">>], [Quiet EXCEPT !.supports = <<"tutor">>],
               [Quiet EXCEPT !.followups = <<"extra">>, !.block = "extra", !.action = "select_followup_module"],
               [Quiet EXCEPT !.rule = "chatRule"]}

(* Its files: the first step and the gate share the rubric. *)
File(id, domain) == [id |-> id, file |-> id, domain |-> domain]
FilesOf(id, refs, bundled) == [id |-> id, refs |-> refs, bundled |-> bundled, block |-> <<>>]
Essay == [id |-> "essayGate", meta |-> FALSE, scope |-> "study", phase |-> FALSE, order |-> NoOrder,
          trigger |-> "artifact_gate", signals |-> {}, priority |-> 0, groups |-> <<>>,
          resources |-> <<"rubric">>, kind |-> "instruction_source", role |-> "essay",
          patterns |-> {"essay.txt"}, required |-> TRUE]
Tone == [Essay EXCEPT !.id = "tone", !.scope = "coach", !.trigger = "starter", !.groups = <<"tones">>,
                      !.resources = <<>>, !.role = None, !.patterns = {}, !.required = FALSE]
Phase == [Tone EXCEPT !.id = "phase:study", !.meta = TRUE, !.scope = "study", !.groups = <<>>,
                      !.resources = <<"notes">>]

AllFiles ==
    [resources |-> <<File("rubric", "instruction_source"), File("outline", "output_template"),
                     File("notes", "knowledge_source"), File("toneGuide", "instruction_source"),
                     File("coachGuide", "instruction_source"), File("extraGuide", "instruction_source"), File("report", "output_artifact")>>,
     bindings |-> <<Essay, Tone, Phase>>,
     groups |-> <<[id |-> "tones", resources |-> <<"toneGuide", "lost">>]>>,
     steps |-> <<FilesOf("ask", <<"rubric">>, <<>>), FilesOf("draft", <<"outline">>, <<"outline", "rubric">>)>>,
     modules |-> <<[id |-> "coach", triggers |-> {}, files |-> <<>>, resources |-> <<"coachGuide">>],
                   [id |-> "extra", triggers |-> {}, files |-> <<"extraGuide">>, resources |-> <<>>]>>,
     under |-> {}, documents |-> {"rubric", "outline", "toneGuide", "coachGuide", "extraGuide"},
     vector |-> {"notes"}]

AllAsks == {[words |-> {"theme", "audience"}, shadow |-> Quiet],
            [words |-> {"refine"}, shadow |-> [Quiet EXCEPT !.followups = <<"extra">>, !.step = "draft"]],
            [words |-> {"context"}, shadow |-> [Quiet EXCEPT !.supports = <<"coach">>]]}
Upload(file, role) == [id |-> "u1", file |-> file, role |-> role]
Nothing == [uploads |-> <<>>, events |-> {}, active |-> <<>>, bindings |-> <<>>, gates |-> <<>>]
AllHoldings == {[Nothing EXCEPT !.bindings = <<"tone">>, !.uploads = <<Upload("photo.png", None)>>],
                [Nothing EXCEPT !.uploads = <<Upload("other.txt", "essay")>>]}

(* Bounded checks of the request algebra: no resource is asked for twice   *)
(* in a role, and none that is asked for is lost.                          *)
SomeRequests ==
    {[Request EXCEPT !.role = role, !.id = id, !.file = file, !.required = required] :
        role \in {"instruction_source", "knowledge_source"}, id \in {None, "rubric"},
        file \in {None, "rubric", "notes"}, required \in BOOLEAN}
ASSUME DedupIsSound ==
    \A s \in UNION {[1 .. n -> SomeRequests] : n \in 0 .. 2} :
        /\ {Identity(q) : q \in ToSet(Dedup(s))} = {Identity(q) : q \in ToSet(s)}
        /\ Dedup(Dedup(s)) = Dedup(s)
        /\ \A i, j \in DOMAIN Dedup(s) :
              Identity(Dedup(s)[i]) = Identity(Dedup(s)[j]) /\ Identity(Dedup(s)[i])[2] # None => i = j

(* Why RequiredHoldsTheTurn asks that the gate is Alone: a binding that    *)
(* offers the gate's resource as one of two alternatives takes the merged  *)
(* request over, and retrieval prefers the other alternative.              *)
Offer == [Phase EXCEPT !.id = "offer", !.meta = FALSE, !.resources = <<"rubric", "coachGuide">>]
Guide == [Essay EXCEPT !.resources = <<"coachGuide">>]
ASSUME RequiredIsLostAmongAlternatives ==
    LET requests == OwnRequests(Offer) \o OwnRequests(Guide)
    IN  /\ \E q \in ToSet(requests) : q.required
        /\ \A q \in ToSet(Alternatives(Dedup(requests))) : ~q.required

(* Bounded checks of the executor, over plans of two actions and what is   *)
(* known of the essay's gate before them.  An output is never lost or kept *)
(* twice; a gate opens only for a role an action names, and a required one *)
(* closes only when a required action's executor is missing.               *)
Tool(id, target, required) ==
    [Action EXCEPT !.id = id, !.type = "invoke_tool", !.target = target, !.inputs = {"notes"},
                   !.roles = <<"essay">>, !.required = required]
Final(id, type, target) ==
    [Action EXCEPT !.id = id, !.type = type, !.target = target, !.targets = <<"report">>, !.source = "draft"]
SomeActions ==
    {Tool("ask", "lookup", FALSE), Tool("need", "lookup", TRUE), Tool("skip", "none", TRUE),
     [Action EXCEPT !.id = "write", !.type = "generate_intermediate_output", !.key = "draft", !.visible = TRUE],
     [Action EXCEPT !.id = "tell", !.type = "respond_to_user", !.content = TRUE, !.inputs = {"draft"}],
     Final("assemble", "assemble_output", "output_artifact_assembler"),
     Final("validate", "validate_output", "output_artifact_validator"),
     [Action EXCEPT !.id = "update", !.type = "update_session_state"]}
Lookup == [lookup |-> [Result EXCEPT !.outputs = <<[Payload EXCEPT !.id = "notes", !.content = TRUE]>>,
                                     !.artifacts = <<[Payload EXCEPT !.id = "log", !.roles = <<"log">>]>>]]
SomeGates == {<<>>} \cup {<<[NoGate EXCEPT !.key = key, !.role = "essay", !.required = required, !.satisfied = there]>> :
                             key \in {"essay", "essayGate"}, required \in BOOLEAN, there \in BOOLEAN}
Ids(outputs) == {o.id : o \in ToSet(outputs)}
Satisfied(gates) == {g.key : g \in {g \in ToSet(gates) : g.satisfied}}
SoundExecution(before, actions, after) ==
    /\ Cardinality(Ids(after.outputs)) = Len(after.outputs)
    /\ Ids(before.outputs) \subseteq Ids(after.outputs)
    /\ \A o \in ToSet(before.outputs), k \in ToSet(after.outputs) : o.id = k.id => o.by \subseteq k.by
    /\ Satisfied(after.gates) \ Satisfied(before.gates) # {} =>
          \E a \in ToSet(actions) : a.roles # <<>> /\ a.target \in DOMAIN Lookup
    /\ Satisfied(before.gates) \ Satisfied(after.gates) # {} =>
          \E a \in ToSet(actions) : a.required /\ a.target \notin DOMAIN Lookup
    /\ after.validation = "passed" <=>
          \E j \in DOMAIN actions : /\ actions[j].type = "validate_output"
                                    /\ \E i \in 1 .. j - 1 : actions[i].key = "draft"
    /\ DirectVisible(after) <=> \E a \in ToSet(actions) : a.type = "respond_to_user"
ASSUME ExecutionIsSound ==
    \A gates \in SomeGates, actions \in UNION {[1 .. n -> SomeActions] : n \in 0 .. 2},
      kept \in {<<>>, <<[NoOutput EXCEPT !.id = "notes", !.by = {"first"}, !.status = "consumed"]>>} :
        LET before == [NothingDone EXCEPT !.gates = gates, !.outputs = kept]
        IN  SoundExecution(before, actions, Execute(before, <<>>, actions, Lookup))
=============================================================================
