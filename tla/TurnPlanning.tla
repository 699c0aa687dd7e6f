---------------------------- MODULE TurnPlanning ----------------------------
(***************************************************************************)
(* One chat session planned turn by turn (workflows/nodes): load_session_  *)
(* context and load_template_registry restore the stored runtime state,    *)
(* planner.run chooses the workflow, the step and the module the turn      *)
(* belongs to, and persist_run stores the messages and the new state, one  *)
(* write after another.  Between turns the application's instructions may  *)
(* be republished and the user may press "advance".                        *)
(*   A turn `t` is the record every planner function reads: the compiled   *)
(* model, the loaded state, what the user has said, what the assistant     *)
(* asked last, the words of the message and of the planner's query, and    *)
(* the hybrid planner's answer (shadow).                                   *)
(***************************************************************************)
EXTENDS InstructionModel, Integers, Sequences, SequencesExt, FiniteSets

CONSTANTS
    Models,     \* the instruction models the application may publish
    Messages,   \* the sets of words a user message may have
    Shadows,    \* the answers the hybrid planner's LLM may give
    Prompts     \* what an assistant answer may ask: "content", "audience", None

(* The steps of all models that are published, with their orders: an        *)
(* identifier has the same one in every model.                              *)
AllNumbers == UNION {Numbers(m) : m \in Models}
ASSUME ModelsAreCompiled ==
    /\ \A m \in Models : Compiled(m)
    /\ \A a, b \in AllNumbers : a[1] = b[1] => a[2] = b[2]

VARIABLES
    model,      \* the published instruction model
    progress,   \* sessions.runtime_state.workflow_progress
    ses,        \* sessions.runtime_state.session_execution_state
    said,       \* the words of the persisted user messages
    asked,      \* what the last persisted assistant message asks
    spoke,      \* is there an assistant message
    turn,       \* the planned turn persist_run is storing, or NoTurn
    pc          \* "idle", or the next write of persist_run

vars == <<model, progress, ses, said, asked, spoke, turn, pc>>

NoProgress == [workflow |-> None, order |-> NoOrder, title |-> None]
NoActivation == [scope |-> None, order |-> NoOrder, title |-> None, support |-> None]
NoSupport == [module |-> None, scope |-> None]
EmptySes ==
    [workflow |-> None, order |-> NoOrder, title |-> None, mode |-> None, bundle |-> <<>>,
     completed |-> FALSE, entry |-> None, block |-> None, scope |-> None, support |-> None,
     rule |-> None, queue |-> <<>>, slots |-> {}, minimum |-> 0,
     act |-> NoActivation, supAct |-> NoSupport]
NoTurn == [progress |-> NoProgress, ses |-> EmptySes, led |-> FALSE, advances |-> FALSE]

-----------------------------------------------------------------------------
(* SessionExecutionState: the state a turn may be built from. *)
Agree(a, b, none) == a = none \/ b = none \/ a = b
Valid(s) ==
    /\ s.mode # "bundled" => s.bundle = <<>> /\ s.entry = None /\ ~s.completed
    /\ s.act # NoActivation =>
          /\ Agree(s.order, s.act.order, NoOrder)
          /\ Agree(s.title, s.act.title, None)
          /\ Agree(s.scope, s.act.scope, None)
          /\ Agree(s.support, s.act.support, None)
    /\ s.supAct # NoSupport =>
          /\ Agree(s.support, s.supAct.module, None)
          /\ Agree(s.scope, s.supAct.scope, None)

(* reconcile_session_step_activation *)
Reconcile(s) ==
    IF /\ s.act # NoActivation /\ s.scope # None /\ s.scope = s.act.scope
       /\ Agree(s.order, s.act.order, NoOrder)
       /\ s.title # None
    THEN [s EXCEPT !.act.title = s.title,
                   !.act.order = IF s.order = NoOrder THEN @ ELSE s.order]
    ELSE s

\* Mutant: nothing is cleaned before the state is loaded.
KeepActivations(s) == Reconcile(s)
(* The stored state without the activations of another step. *)
Sanitized(s) ==
    IF s.scope = None THEN s
    ELSE Reconcile([s EXCEPT !.act = IF @.scope \in {None, s.scope} THEN @ ELSE NoActivation,
                             !.supAct = IF @.scope \in {None, s.scope} THEN @ ELSE NoSupport])

(* What the validator fills in from the activations. *)
Filled(s) ==
    [s EXCEPT !.order = IF @ = NoOrder THEN s.act.order ELSE @,
              !.title = IF @ = None THEN s.act.title ELSE @,
              !.scope = IF @ # None THEN @
                        ELSE IF s.act.scope # None THEN s.act.scope ELSE s.supAct.scope,
              !.support = IF @ # None THEN @
                          ELSE IF s.act.support # None THEN s.act.support ELSE s.supAct.module]

(* load_template_registry: the state the turn starts from. *)
Loaded(s, p) ==
    LET c == Sanitized(s)
    IN  [c EXCEPT !.workflow = IF @ # None THEN @ ELSE p.workflow,
                  !.title = IF @ # None THEN @ ELSE p.title,
                  !.order = IF s = EmptySes THEN p.order ELSE @]

-----------------------------------------------------------------------------
(* What a message is about. *)
Hybrid(t) == t.m.planner = "hybrid_active"
RefinementFollowup(t) == "refine" \in t.words /\ t.spoke
\* Mutant: the history of the conversation is not asked.
SlotMapOfTurn(t) == t.ses.slots \cup SlotSignals(t.words)
SlotMap(t) == t.ses.slots \cup SlotSignals(t.said) \cup SlotSignals(t.words)

HasPlace(t) == \/ t.ses.workflow # None \/ t.ses.title # None
               \/ t.progress.workflow # None \/ t.progress.title # None
AppScoped(t) ==
    \/ HasPlace(t)
    \/ {"scoped", "passage"} \cap t.query # {}
    \/ IF "generation" \in t.query THEN "domain" \in t.query ELSE "foreign" \notin t.query

SelectsTarget(h) == \/ h.role # None \/ h.workflow # None \/ h.block # None \/ h.step # None
                    \/ h.supports # <<>> \/ h.followups # <<>> \/ h.sequence # <<>> \/ h.queue # <<>>

(* A confident out-of-scope verdict counts when the turn does not continue *)
(* the conversation and the answer selects nothing of the application.     *)
SemanticallyOut(t) ==
    /\ t.shadow.outOfScope
    /\ {"upload", "context", "advance"} \cap t.words = {}
    /\ ~RefinementFollowup(t)
    /\ ~SelectsTarget(t.shadow)

DefaultPrefersInteractive(t) ==
    LET wf == IF t.m.default # None /\ WorkflowByReference(t.m, t.m.default) # NoWorkflow
              THEN WorkflowByReference(t.m, t.m.default) ELSE DefaultWorkflow(t.m)
        steps == WorkflowSteps(wf)
        def == StepDefinition(t.m, steps[1].scope)
    IN  steps # <<>> /\ def.mode = "interactive" /\ def.order \in {0, 1, NoOrder}

(* "out": answered outside the application; "brief": a generation request  *)
(* answered without a workflow; "select": planned in a workflow.           *)
Routing(t) ==
    IF SemanticallyOut(t) \/ ~AppScoped(t) THEN "out"
    ELSE IF "generation" \in t.query /\ ~DefaultPrefersInteractive(t) THEN "brief"
    ELSE "select"

-----------------------------------------------------------------------------
(* Routing rules and interaction logic (hybrid_active).  What the later     *)
(* choices read of them is put into the turn, in this order.               *)
RuleScore(t, r) == IF r.words \cap (t.said \cup t.words) # {} THEN r.weight ELSE 0
FallbackRule(t) ==
    LET hit == BestMatch(t.m.rules, "words", t.said \cup t.words, NoRule)
    IN  IF hit # NoRule THEN hit ELSE FirstOr(t.m.rules, LAMBDA r : r.words = {}, NoRule)

SelectedRule(t) ==
    LET named == t.shadow.rule
        fallback == FallbackRule(t)
        better == RuleScore(t, fallback) > RuleScore(t, RoutingRule(t.m, named))
    IN  IF ~Hybrid(t) THEN None
        ELSE IF named # None THEN (IF better THEN fallback.id ELSE named)
        ELSE IF fallback # NoRule THEN fallback.id
        ELSE t.ses.rule

SelectedLogic(t) ==
    FirstOr(<<LogicBlock(t.m, RoutingRule(t.m, t.rule).logic), LogicBlock(t.m, t.shadow.block),
              LogicBlock(t.m, FallbackRule(t).logic)>>,
            LAMBDA l : Hybrid(t) /\ l # NoLogic, NoLogic)

(* The modules the answer names, when the logic the rules lead to allows   *)
(* them: a rule that overrules the named one drops them, and so does a     *)
(* logic that offers them on demand only.                                  *)
Admitted(t, named) ==
    LET overruled == t.shadow.rule # None /\ t.rule # t.shadow.rule
        kept == IF t.logic.modules = <<>>
                   /\ (overruled \/ (t.logic.onDemand # <<>>
                                        /\ ToSet(named) \subseteq ToSet(t.logic.onDemand)))
                THEN <<>> ELSE named
    IN  IF kept # <<>> THEN kept ELSE t.logic.modules

Once(s) == FoldLeft(LAMBDA acc, x : IF Contains(acc, x) THEN acc ELSE Append(acc, x), <<>>, s)

(* The follow-up modules a finished bundle leaves open: those in the       *)
(* session, or the model's only one when the user asks to refine.          *)
QueuedFollowups(t) ==
    LET own == SelectSeq((IF t.ses.support = None THEN <<>> ELSE <<t.ses.support>>) \o t.ses.queue,
                         LAMBDA b : ServiceBlock(t.m, b).type = "followup_module")
        all == FollowupBlocks(t.m)
    IN  IF ~t.ses.completed THEN <<>>
        ELSE IF own # <<>> THEN Once(own)
        ELSE IF "refine" \in t.words /\ Len(all) = 1 THEN <<all[1].id>>
        ELSE <<>>

Canonical(t, ids) == [i \in DOMAIN ids |-> CanonicalBlockId(t.m, ids[i])]

ShadowFollowups(t) ==
    {b \in ToSet(Canonical(t, <<t.shadow.block>> \o t.shadow.queue
                                \o t.shadow.followups \o t.shadow.sequence)) :
        Hybrid(t) /\ ServiceBlock(t.m, b).type = "followup_module"}

(* The follow-up modules this turn may enter, by their canonical names. *)
Activating(t) ==
    LET named == ShadowFollowups(t)
    IN  (IF t.shadow.action = "select_followup_module" THEN named ELSE {})
          \cup (IF "refine" \in t.words
                THEN {b \in named \cup ToSet(t.queued) : ServiceBlock(t.m, b).type = "followup_module"}
                ELSE {})
FollowupActivates(t, id) == CanonicalBlockId(t.m, id) \in t.activating

(* _hybrid_active_module_queue *)
ModuleQueue(t) ==
    LET h == t.shadow
        named == Admitted(t, FirstOr(<<h.sequence, h.supports, h.followups, h.queue>>,
                                     LAMBDA q : q # <<>>, <<>>))
        ofRole == IF named = <<>> THEN RoleProfile(t.m, h.role).modules ELSE named
    IN  IF ~Hybrid(t) THEN <<>>
        ELSE Canonical(t, t.queued \o SelectSeq(ofRole, LAMBDA x : ~Contains(t.queued, x)))

LogicOnly(t) == /\ Hybrid(t)
                /\ t.logic.modules = <<>> /\ t.logic.onDemand # <<>>
                /\ t.queue = <<>>

-----------------------------------------------------------------------------
(* The workflow of the turn. *)
HybridWorkflow(t) ==
    LET h == t.shadow
        ref == IF h.workflow # None THEN h.workflow
               ELSE IF h.targetWorkflow # None THEN h.targetWorkflow ELSE h.block
        named == WorkflowByReference(t.m, ref)
        permitted == RoleProfile(t.m, h.role).workflows
    IN  IF ~Hybrid(t) THEN NoWorkflow
        ELSE IF named # NoWorkflow THEN named
        ELSE IF LogicOnly(t) THEN NoWorkflow
        ELSE FirstOr([i \in DOMAIN permitted |-> WorkflowByReference(t.m, permitted[i])],
                     LAMBDA w : w # NoWorkflow, NoWorkflow)

ChooseWorkflow(t) ==
    LET ws == t.m.workflows
        ofDefault == IF t.m.default = None THEN NoWorkflow ELSE WorkflowByReference(t.m, t.m.default)
        triggered == BestMatch(ws, "triggers", t.query, NoWorkflow)
        current == FirstOr(ws, LAMBDA w : w.id = t.progress.workflow, NoWorkflow)
        study == FirstOr(ws, LAMBDA w : /\ "study" \in t.query
                                        /\ BlockOfWorkflow(t.m, w).type = "supplementary_workflow",
                         NoWorkflow)
        choices == <<HybridWorkflow(t)>> \o
                   (IF LogicOnly(t) \/ ws = <<>> THEN <<>>
                    ELSE <<ofDefault, triggered, current, study, DefaultWorkflow(t.m)>>)
    IN  FirstOr(choices, LAMBDA w : w # NoWorkflow, NoWorkflow)

-----------------------------------------------------------------------------
(* The step of the turn: a workflow's step, or one of a block's procedure. *)
NoPick == [scope |-> None, order |-> NoOrder, mode |-> None, bundled |-> <<>>,
           support |-> None, gate |-> 0]
OfWorkflow(step) == [NoPick EXCEPT !.scope = step.scope, !.order = step.order]
OfProcedure(def, block) ==
    [NoPick EXCEPT !.scope = def.id, !.order = def.order, !.mode = def.mode,
                   !.bundled = def.bundled,
                   !.support = IF block.type = "support_module" THEN block.id ELSE None]

(* An input gate of order 0 stands for the clarification step or, with     *)
(* enough slots, for the core step.                                        *)
Collapse(t, wf, pick) ==
    LET ready == Cardinality(EffectiveSlots(SlotMap(t))) >= wf.gate
        there == StepByOrder(wf, 1) # NoStep /\ StepByOrder(wf, 2) # NoStep
    IN  IF pick.order = 0 /\ wf.gate > 0 /\ there
        THEN [OfWorkflow(StepByOrder(wf, IF ready THEN 2 ELSE 1)) EXCEPT !.gate = wf.gate]
        ELSE pick

AnswersPrompt(t, words) == \/ t.asked = "content" /\ "theme" \in SlotSignals(words)
                           \/ t.asked = "audience" /\ "audience" \in words

\* Mutant: the interactive step opens the bundle without its slots.
BundledAtOnce(t, wf, step, words) ==
    LET next == StepByOrder(wf, step.order + 1)
    IN  IF /\ step # NoStep
           /\ StepDefinition(t.m, step.scope).mode = "interactive"
           /\ StepDefinition(t.m, next.scope).mode = "bundled"
        THEN next ELSE NoStep
(* The bundled step after an interactive one, once the slots are filled or *)
(* the message answers what the assistant asked.                           *)
BundledFollowup(t, wf, step, words) ==
    LET next == StepByOrder(wf, step.order + 1)
        rule == GateRule(t.m, step.scope, next.scope)
    IN  IF /\ step # NoStep
           /\ StepDefinition(t.m, step.scope).mode = "interactive"
           /\ StepDefinition(t.m, next.scope).mode = "bundled"
           /\ \/ GateSatisfied(rule, t.ses.slots, t.ses.minimum)
              \/ Cardinality(EffectiveSlots(SlotMap(t))) >= 3
              \/ AnswersPrompt(t, words)
        THEN next ELSE NoStep

(* _module_owned_active_step_selection: the session's block keeps the turn *)
(* in its own procedure, whatever the planner mode.                        *)
ModuleOwned(t) ==
    LET block == ServiceBlock(t.m, IF t.ses.block # None THEN t.ses.block ELSE t.ses.support)
        steps == ProcedureSteps(t.m, ProcedureOfBlock(t.m, block.id).id)
        here  == FirstOr(steps, LAMBDA s : s.id = t.ses.scope, NoStepDef)
        wf    == WorkflowOfScope(t.m, here.id)
        opened == BundledFollowup(t, wf,
                     FirstOr(wf.steps, LAMBDA s : s.scope = here.id, NoStep), t.words)
        next  == IF opened # NoStep
                 THEN FirstOr(steps, LAMBDA s : s.id = opened.scope, here)
                 ELSE IF "advance" \in t.words
                 THEN FirstOr(steps, LAMBDA s : s.order = here.order + 1, here)
                 ELSE here
    IN  IF block = NoBlock \/ ProcedureOfBlock(t.m, block.id) = NoProcedure \/ steps = <<>> THEN NoPick
        ELSE OfProcedure(IF here = NoStepDef THEN steps[1] ELSE next, block)

(* _shadow_target_step_selection: the step the hybrid planner names,       *)
(* unless the workflow's input gate holds the session before it.           *)
ShadowTarget(t) ==
    LET def == StepDefinition(t.m, t.shadow.step)
        owner == FirstOr(t.m.procedures, LAMBDA p : p.id = def.procedure, NoProcedure)
        target == OfProcedure(def, ServiceBlock(t.m, owner.block))
        wf == WorkflowOfScope(t.m, def.id)
        gate == Collapse(t, wf, OfWorkflow(StepByOrder(wf, 0)))
    IN  IF ~Hybrid(t) \/ def = NoStepDef THEN NoPick
        ELSE IF def.order <= 0 \/ wf = NoWorkflow \/ StepByOrder(wf, 0) = NoStep THEN target
        ELSE IF gate.order < def.order THEN gate
        ELSE [target EXCEPT !.gate = gate.gate]

\* Mutant: the next step is looked up one too far.
AdvanceTwice(t, wf) ==
    LET current == IF t.progress.workflow = wf.id THEN StepByOrder(wf, t.progress.order) ELSE NoStep
        next == IF "advance" \in t.query /\ current # NoStep
                THEN StepByOrder(wf, current.order + 2) ELSE NoStep
        step == FirstOr(<<next, current, WorkflowSteps(wf)[1]>>, LAMBDA s : s # NoStep, NoStep)
    IN  IF step = NoStep THEN NoPick ELSE OfWorkflow(step)
(* The step a workflow offers: the one the message names, the next, the    *)
(* bundled one its answers open, the current one, or the first.            *)
StepOfWorkflow(t, wf) ==
    LET steps == WorkflowSteps(wf)
        named == BestMatch(steps, "words", t.query, NoStep)
        current == IF t.progress.workflow = wf.id THEN StepByOrder(wf, t.progress.order) ELSE NoStep
        next == IF "advance" \in t.query /\ current # NoStep
                THEN StepByOrder(wf, current.order + 1) ELSE NoStep
        opened == BundledFollowup(t, wf, current, t.query)
        entered == "passage" \in t.query \/ t.m.default = wf.id \/ (Hybrid(t) /\ t.shadow.role # None)
        first == IF entered THEN steps[1] ELSE NoStep
        step == FirstOr(<<named, next, opened, current, first>>, LAMBDA s : s # NoStep, NoStep)
    IN  IF step = NoStep THEN NoPick ELSE OfWorkflow(step)

(* The target of the hybrid planner, the step of the session's own module, *)
(* or the step the workflow offers; a gate in its place is resolved.       *)
StepFor(t, wf) ==
    FirstOr(<<t.target, ModuleOwned(t), IF wf.steps # <<>> THEN StepOfWorkflow(t, wf) ELSE NoPick>>,
            LAMBDA p : p # NoPick, NoPick)
Resolved(t, pick) == IF pick.gate = 0 THEN [pick EXCEPT !.gate = t.target.gate] ELSE pick
ChooseStepIn(t, wf) == Resolved(t, Collapse(t, wf, StepFor(t, wf)))
ChooseStep(t) == ChooseStepIn(t, IF t.wf # NoWorkflow THEN t.wf ELSE ChooseWorkflow(t))

-----------------------------------------------------------------------------
(* The service block of the turn. *)
TargetBlocks(t) ==
    LET h == t.shadow
        named == SelectSeq(<<h.block>> \o h.followups \o h.supports
                             \o <<RoutingRule(t.m, t.rule).block>> \o h.sequence \o h.queue,
                           LAMBDA b : b # None)
        Kept(b) == ServiceBlock(t.m, b).type = "followup_module" => t.pick.gate = 0 /\ FollowupActivates(t, b)
    IN  IF ~Hybrid(t) THEN <<>>
        ELSE SelectSeq(Canonical(t, Admitted(t, named)), Kept)

ActiveBlock(t) ==
    LET candidates == TargetBlocks(t)
                        \o SelectSeq(t.queued, LAMBDA b : FollowupActivates(t, b))
        blocks == [i \in DOMAIN candidates |-> ServiceBlock(t.m, candidates[i])]
        chosen == FirstOr(blocks, LAMBDA b : b # NoBlock, NoBlock)
    IN  IF chosen # NoBlock THEN chosen ELSE BlockOfWorkflow(t.m, t.wf)

(* _layered_scope_context: what the chosen step brings. *)
Layered(m, pick) ==
    LET def     == BundleDefinition(m, StepDefinition(m, pick.scope))
        bundled == (IF def.mode # None THEN def.mode ELSE pick.mode) = "bundled"
        ids     == IF bundled /\ def.bundled = <<>> THEN pick.bundled ELSE def.bundled
    IN  [EmptySes EXCEPT
           !.mode = IF bundled THEN "bundled" ELSE None,
           !.bundle = ids,
           !.completed = bundled,
           !.entry = IF ~bundled THEN None ELSE IF ids # <<>> THEN ids[1] ELSE pick.scope,
           !.scope = pick.scope,
           !.support = pick.support,
           !.act = IF pick.scope = None THEN NoActivation
                   ELSE [scope |-> pick.scope, order |-> pick.order, title |-> pick.scope,
                         support |-> pick.support],
           !.supAct = IF pick.support = None THEN NoSupport
                      ELSE [module |-> pick.support, scope |-> pick.scope]]

(* _build_execution_context: the state of a turn in that workflow, step    *)
(* and block; the place no choice replaces is kept from the loaded state.  *)
Context(t) ==
    [Layered(t.m, t.pick) EXCEPT
       !.workflow = IF t.wf # NoWorkflow THEN t.wf.id ELSE t.ses.workflow,
       !.title = IF t.pick.scope # None THEN t.pick.scope ELSE t.ses.title,
       !.order = IF t.pick.order # NoOrder THEN t.pick.order ELSE t.ses.order,
       !.block = ActiveBlock(t).id,
       !.slots = SlotMap(t),
       !.minimum = IF t.pick.gate # 0 THEN t.pick.gate ELSE t.ses.minimum]

-----------------------------------------------------------------------------
(* The hybrid planner's modules, laid over that state. *)
PrimaryModule(t) ==
    LET target == t.target.support
        candidates == (IF target = None THEN <<>> ELSE <<target>>)
                        \o SelectSeq(t.queue, LAMBDA b : b # target)
        Leads(b) == \/ ServiceBlock(t.m, b).type = "support_module"
                    \/ FollowupActivates(t, b)
    IN  ServiceBlock(t.m, FirstOr(candidates, Leads, None))

LeaveStep(s) ==
    [s EXCEPT !.scope = None, !.act = NoActivation, !.mode = None, !.bundle = <<>>, !.entry = None]

(* A turn that stays with the interaction logic leaves step and block. *)
StayWithLogic(t, s) ==
    LET logic == t.logic.id
    IN  [LeaveStep(s) EXCEPT !.support = None, !.block = None, !.supAct = NoSupport,
                             !.workflow = logic, !.title = logic, !.order = NoOrder]

(* A follow-up module leaves the step. *)
EnterFollowup(t, s, block) ==
    LET steps == ProcedureSteps(t.m, ProcedureOfBlock(t.m, block.id).id)
    IN  [LeaveStep(s) EXCEPT
           !.block = block.id, !.support = block.id, !.order = NoOrder, !.title = block.id,
           !.completed = @ /\ (steps = <<>> \/ steps[1].bundled = <<>>)]

(* A support module opens its procedure's first step, unless the turn has  *)
(* chosen another step.                                                    *)
EnterSupport(t, s, block) ==
    LET steps == ProcedureSteps(t.m, ProcedureOfBlock(t.m, block.id).id)
        first == steps[1]
        inside == [s EXCEPT !.block = block.id, !.support = block.id]
        opened == [inside EXCEPT !.supAct = [module |-> block.id, scope |-> first.id]]
    IN  IF steps = <<>> THEN inside
        ELSE IF s.scope \notin {None, first.id} THEN opened
        ELSE [opened EXCEPT
                !.scope = first.id,
                !.act = [scope |-> first.id, order |-> first.order, title |-> first.id,
                         support |-> block.id],
                !.mode = IF first.mode # None THEN first.mode ELSE @,
                !.bundle = IF first.bundled # <<>> THEN first.bundled ELSE @,
                !.entry = IF first.bundled # <<>> THEN first.bundled[1] ELSE @,
                !.completed = @ /\ first.bundled = <<>>]

WithModules(t, s) ==
    LET primary == PrimaryModule(t)
        noted == [s EXCEPT !.rule = IF t.rule # None THEN t.rule ELSE @,
                           !.queue = t.queue]
    IN  Reconcile(IF primary.type = "followup_module" THEN EnterFollowup(t, noted, primary)
                  ELSE IF primary.type = "support_module" THEN EnterSupport(t, noted, primary)
                  ELSE IF LogicOnly(t) THEN StayWithLogic(t, noted)
                  ELSE noted)

-----------------------------------------------------------------------------
(* planner.run: the choices of a turn, one after another.  The turn starts *)
(* as the nodes before the planner leave it; the LLM planner may add the   *)
(* words of earlier messages to its query.                                 *)
TurnFor(words, recalled, shadow) ==
    [m |-> model, ses |-> Filled(Loaded(ses, progress)), progress |-> progress,
     said |-> said, asked |-> asked, spoke |-> spoke, words |-> words,
     query |-> words \cup recalled, shadow |-> shadow,
     rule |-> None, queued |-> <<>>, logic |-> NoLogic, activating |-> {}, queue |-> <<>>,
     target |-> NoPick, routing |-> None, wf |-> NoWorkflow, pick |-> NoPick]

Guided(t) == [t EXCEPT !.rule = SelectedRule(t), !.queued = QueuedFollowups(t)]
Ruled(t) == [t EXCEPT !.logic = SelectedLogic(t), !.activating = Activating(t)]
Queued(t) == [t EXCEPT !.queue = ModuleQueue(t), !.target = ShadowTarget(t), !.routing = Routing(t)]
InWorkflow(t) == [t EXCEPT !.wf = IF t.routing = "select" THEN ChooseWorkflow(t) ELSE NoWorkflow]
AtStep(t) == [t EXCEPT !.pick = IF t.routing = "out" THEN NoPick ELSE ChooseStep(t)]
PlannedTurn(t) == AtStep(InWorkflow(Queued(Ruled(Guided(t)))))

(* History, for the properties: the hybrid planner selects a target, or the *)
(* message (or one it recalls) names a step.                                *)
StepWords(m) == UNION {UNION {s.words : s \in ToSet(w.steps)} : w \in ToSet(m.workflows)}
Led(t) == SelectsTarget(t.shadow) \/ t.query \cap StepWords(t.m) # {}

NextProgress(t) ==
    IF t.wf = NoWorkflow THEN t.progress
    ELSE [workflow |-> t.wf.id, order |-> t.pick.order, title |-> t.pick.scope]

Init ==
    /\ model \in Models
    /\ progress = NoProgress /\ ses = EmptySes
    /\ said = {} /\ asked = None /\ spoke = FALSE
    /\ turn = NoTurn /\ pc = "idle"

(* planner.run, and the first write of persist_run: the user message, but  *)
(* not that of an upload.                                                  *)
Plan(words, recalled, shadow) ==
    /\ pc = "idle"
    /\ Valid(Loaded(ses, progress))
    /\ \E t \in {PlannedTurn(TurnFor(words, recalled, shadow))} :
          /\ Valid(Context(t))
          /\ turn' = [progress |-> NextProgress(t), ses |-> WithModules(t, Context(t)),
                      led |-> Led(t), advances |-> "advance" \in t.query]
    /\ said' = IF "upload" \in words THEN said ELSE said \cup words
    /\ pc' = "answer"
    /\ UNCHANGED <<model, progress, ses, asked, spoke>>

PersistAnswer ==
    /\ pc = "answer"
    /\ asked' \in Prompts /\ spoke' = TRUE
    /\ pc' = "state"
    /\ UNCHANGED <<model, progress, ses, said, turn>>

PersistState ==
    /\ pc = "state"
    /\ progress' = turn.progress /\ ses' = turn.ses
    /\ turn' = NoTurn /\ pc' = "idle"
    /\ UNCHANGED <<model, said, asked, spoke>>

(* The process ends, or a store fails, between two of those writes. *)
TurnLost ==
    /\ pc # "idle"
    /\ turn' = NoTurn /\ pc' = "idle"
    /\ UNCHANGED <<model, progress, ses, said, asked, spoke>>

(* advance_session_workflow: the progress alone moves on. *)
NextInProgress ==
    LET wf == FirstOr(model.workflows, LAMBDA w : w.id = progress.workflow /\ w.id # None, NoWorkflow)
        steps == WorkflowSteps(wf)
    IN  IF progress.order = NoOrder
        THEN IF steps = <<>> THEN NoStep ELSE steps[1]
        ELSE FirstOr(steps, LAMBDA s : s.order # 0 /\ s.order = progress.order + 1, NoStep)

Advance ==
    /\ pc = "idle"
    /\ NextInProgress # NoStep
    /\ progress' = [progress EXCEPT !.order = NextInProgress.order, !.title = NextInProgress.scope]
    /\ UNCHANGED <<model, ses, said, asked, spoke, turn, pc>>

(* The application's instructions are compiled and published anew. *)
Republish(m) ==
    /\ pc = "idle" /\ m # model
    /\ model' = m
    /\ UNCHANGED <<progress, ses, said, asked, spoke, turn, pc>>

Next ==
    \/ \E words \in Messages, recalled \in {{}, said}, shadow \in Shadows :
          Plan(words, recalled, shadow)
    \/ PersistAnswer \/ PersistState \/ TurnLost
    \/ Advance
    \/ \E m \in Models : Republish(m)

Spec == Init /\ [][Next]_vars

-----------------------------------------------------------------------------
(* Properties *)

(* Before a turn: the state it starts from. *)
Before == Filled(Loaded(ses, progress))
Reached == IF Before.order > progress.order THEN Before.order ELSE progress.order

(* A session stored inside a step can be loaded again: whatever workflow,  *)
(* step, module, advance, republication or lost write came before, the     *)
(* next turn's SessionExecutionState validator accepts what persist_run    *)
(* stored.  Not so after a follow-up or logic-only turn, which leaves the  *)
(* step but not all of its state (completed, supAct), and after a turn     *)
(* that switches the support module of a module's step, nor always after   *)
(* one that chooses no step while a support module opens its first: that   *)
(* one keeps the order and the title of the place before it, which are     *)
(* then not the step's.  There the session refuses every later turn.       *)
Switched == ses.act.support \notin {None, ses.support}
Chosen == /\ ses.scope # None /\ ses.title = ses.scope
          /\ ses.order = NoOrder \/ <<ses.scope, ses.order>> \in AllNumbers
Resumable == pc = "idle" /\ Chosen /\ ~Switched => Valid(Loaded(ses, progress))

(* No clarification is lost: the state a turn stores has the slots of every *)
(* user message ever persisted, those of turns whose state was lost before  *)
(* it was stored too.                                                       *)
SlotsKept == pc = "state" => SlotSignals(said) \subseteq turn.ses.slots

(* The first steps of a model's workflows and procedures, whatever their    *)
(* number is: where a session enters them.                                  *)
FirstSteps(m) ==
    {WorkflowSteps(w)[1].scope : w \in {w \in ToSet(m.workflows) : w.steps # <<>>}}
        \cup {ProcedureSteps(m, d.procedure)[1].id : d \in {d \in ToSet(m.steps) : d.procedure # None}}

(* No step is skipped: a turn for which neither the user nor the hybrid     *)
(* planner names a step or a module goes at most one step beyond where the  *)
(* session or its progress was, or enters a workflow or a procedure at its  *)
(* first step.  An input gate stands for step 1: once its slots are filled, *)
(* step 2 follows.                                                          *)
NoStepSkipped ==
    pc = "answer" /\ ~turn.led =>
        \/ turn.ses.order <= 1 + (IF Reached > 0 THEN Reached ELSE 0)
        \/ turn.ses.scope \in FirstSteps(model)
        \/ turn.ses.order = 2 /\ turn.ses.minimum # 0

(* A bundle is earned: a turn for which nobody names a step or asks to      *)
(* advance goes beyond step 1, the first step of its workflow or procedure, *)
(* and where the session and its progress were, only when a clarification   *)
(* gate into the step is satisfied, with as many slots filled as the        *)
(* session (or else three) asks for, or once the user has given what the    *)
(* assistant asked for.                                                     *)
Earned(s) ==
    LET filled == Cardinality(EffectiveSlots(s.slots))
    IN  \/ filled >= 3
        \/ s.minimum > 0 /\ filled >= s.minimum
        \/ \E g \in ToSet(model.gateRules) :
              g.to \in {None, s.scope} /\ GateSatisfied(g, s.slots, s.minimum)
        \/ asked = "content" /\ "theme" \in s.slots
        \/ asked = "audience" /\ "audience" \in s.slots
BundleIsEarned ==
    (/\ pc = "answer" /\ ~turn.led /\ ~turn.advances
     /\ turn.ses.order > 1 /\ turn.ses.order > Reached
     /\ turn.ses.scope \notin FirstSteps(model))
       => Earned(turn.ses)
=============================================================================
