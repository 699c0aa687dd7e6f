---------------------------- MODULE ProviderModel ----------------------------
(***************************************************************************)
(* The semantic model an LLM compiles an application's instructions into,  *)
(* and its canonical form: the steps that the provider nests under its     *)
(* workflows and modules become procedures and procedure steps, and what   *)
(* cannot be projected is an error (instruction_understanding_service.py). *)
(*   step      [id, procedure, titled, asks, order, mode, bundled, refs];  *)
(*             `asks`: its title says clarification                        *)
(*   owner     a workflow or a module: [id, type, isDefault, policy,       *)
(*             section, procedure, sequence, steps, refs]; `policy`: its   *)
(*             title is that of the module execution rules; `section`: of  *)
(*             the module orchestration                                    *)
(*   block     [id, type, isDefault, refs, also, talks, section]; `also`:  *)
(*             the other forms of its id; `talks`: a contract in prose     *)
(*   model     [mode, default, blocks, procedures, steps, gates, rules,    *)
(*             roles, logics, orchestration, support, followup, errors]    *)
(* Identifiers are names in the form their normalisation gives them.       *)
(***************************************************************************)
LOCAL INSTANCE Integers
LOCAL INSTANCE Sequences
LOCAL INSTANCE SequencesExt
LOCAL INSTANCE TLC

NoId == ""
Unordered == -1
ModuleTypes == {"support_module", "followup_module"}

Ids(s) == {s[i].id : i \in DOMAIN s}
Has(s, id) == id \in Ids(s)
Find(s, id) == s[CHOOSE i \in DOMAIN s : s[i].id = id /\ \A j \in 1..(i - 1) : s[j].id # id]
AppendNew(s, e) == IF Has(s, e.id) THEN s ELSE Append(s, e)
FirstOfEach(s) == FoldLeft(AppendNew, <<>>, s)
AppendAll(s, new) == FoldLeft(AppendNew, s, new)

StepId(owner, n) == "step:" \o owner \o ":" \o ToString(n)
ProcedureOf(block) == "procedure:" \o block
NewBlock(id, type) == [id |-> id, type |-> type, isDefault |-> FALSE, refs |-> <<>>,
                       also |-> {}, talks |-> FALSE, section |-> FALSE]

-----------------------------------------------------------------------------
(* A titled step without an id gets one from its place. *)
WithId(owner, step, i) ==
    LET namespace == IF owner.procedure # NoId THEN owner.procedure ELSE owner.id
    IN  IF step.id # NoId \/ ~step.titled THEN step
        ELSE [step EXCEPT !.id = StepId(namespace, IF step.order > 0 THEN step.order ELSE i)]

(* The sequence names steps that are nested here or listed flat; the ones  *)
(* nested here win.                                                        *)
Named(owner, flat, id) ==
    LET all == flat \o owner.steps
        at  == SelectLastInSeq(all, LAMBDA s : s.id = id /\ id # NoId)
    IN  IF at = 0 THEN [id |-> NoId] ELSE all[at]

(* The steps in their sequence, and whether one is missing, repeated, or   *)
(* declared and left out of it.                                            *)
StepObjects(owner, flat) ==
    LET nested == [i \in DOMAIN owner.steps |-> WithId(owner, owner.steps[i], i)]
        listed == IF owner.sequence = <<>> THEN nested
                  ELSE [i \in DOMAIN owner.sequence |-> Named(owner, flat, owner.sequence[i])]
        found  == SelectSeq(listed, LAMBDA s : s.id # NoId)
        steps  == FirstOfEach(found)
    IN  [steps |-> steps,
         bad |-> Len(steps) < Len(listed) \/ ~(Ids(nested) \subseteq Ids(steps))]

ProjectStep(step, procedure, index) ==
    [step EXCEPT !.procedure = procedure,
                 !.order = IF @ = Unordered THEN index ELSE @,
                 !.mode = IF @ = NoId THEN "interactive" ELSE @,
                 !.bundled = IF step.mode = "bundled"
                             THEN <<step.id>> \o SelectSeq(@, LAMBDA b : b # step.id) ELSE @]

(* A step that is there already must belong to the same procedure.  The    *)
(* first step of a workflow has index 0, that of a module index 1.         *)
AddSteps(m, steps, procedure, first) ==
    LET Add(acc, i) ==
          IF ~Has(acc.steps, steps[i].id)
          THEN [acc EXCEPT !.steps = Append(@, ProjectStep(steps[i], procedure, first + i - 1))]
          ELSE [acc EXCEPT !.errors = @ \/ Find(acc.steps, steps[i].id).procedure # procedure]
    IN  FoldLeftDomain(Add, m, steps)

(* The first new step that asks for clarification opens the next new one.  *)
ClarificationGate(fresh, procedure) ==
    LET asking == SelectInSeq(fresh, LAMBDA s : s.asks)
    IN  IF asking = 0 \/ asking = Len(fresh) THEN <<>>
        ELSE <<[procedure |-> procedure, asked |-> fresh[asking].id, opened |-> fresh[asking + 1].id]>>

AddWorkflowSteps(m, w, objects) ==
    LET fresh == SelectSeq(objects.steps, LAMBDA s : ~Has(m.steps, s.id))
        named == [m EXCEPT
          !.blocks = AppendNew(@, [NewBlock(w.id, "primary_workflow") EXCEPT !.isDefault = w.isDefault]),
          !.procedures = AppendNew(@, [id |-> w.id, block |-> w.id]),
          !.gates = @ \o ClarificationGate(fresh, w.id),
          !.errors = @ \/ objects.bad]
    IN  AddSteps(named, objects.steps, w.id, 0)

AddWorkflow(m, w) == IF w.id = NoId THEN m ELSE AddWorkflowSteps(m, w, StepObjects(w, m.steps))

(* A module's steps are executable: they go to its procedure, which is     *)
(* made where it has none.                                                 *)
AddModuleSteps(m, owner, objects) ==
    LET owned     == SelectSeq(m.procedures, LAMBDA p : p.block = owner.id)
        procedure == IF owned # <<>> THEN owned[1].id
                     ELSE IF owner.procedure # NoId THEN owner.procedure ELSE ProcedureOf(owner.id)
        stepRefs  == UNION {ToSet(s.refs) : s \in ToSet(objects.steps)}
        direct    == SelectSeq(owner.refs, LAMBDA r : r \notin stepRefs)
        Own(b)    == IF b.id # owner.id THEN b
                     ELSE [b EXCEPT !.refs = @ \o SelectSeq(direct, LAMBDA r : r \notin ToSet(b.refs))]
        named     == [m EXCEPT !.blocks = [i \in DOMAIN @ |-> Own(@[i])], !.errors = @ \/ objects.bad,
          !.procedures = IF owned # <<>> THEN @ ELSE Append(@, [id |-> procedure, block |-> owner.id])]
    IN  IF owner.id = NoId \/ objects.steps = <<>> THEN [m EXCEPT !.errors = @ \/ objects.bad]
        ELSE AddSteps(named, objects.steps, procedure, 1)

(* The execution rules are a policy, no module. *)
AddModule(m, owner) ==
    IF owner.policy
    THEN [m EXCEPT !.blocks = [i \in DOMAIN @ |->
                IF @[i].id = owner.id THEN [NewBlock(owner.id, "global_policy") EXCEPT !.refs = owner.refs]
                ELSE @[i]]]
    ELSE AddModuleSteps(m, owner, StepObjects(owner, m.steps))

OfType(owners, type) == SelectSeq(owners, LAMBDA o : o.type = type)
ModuleBlocks(owners, type) ==
    [i \in DOMAIN owners |-> [NewBlock(owners[i].id, type) EXCEPT !.section = owners[i].section]]
Known(blocks) == SelectSeq(blocks, LAMBDA b : b.id # NoId)
Executable(owners) == SelectSeq(owners, LAMBDA o : ~o.policy)

DefaultWorkflow(p) ==
    LET marked == SelectInSeq(p.workflows, LAMBDA w : w.isDefault)
    IN  IF p.default = NoId /\ p.mode = "single_default_workflow" /\ marked # 0
        THEN p.workflows[marked].id ELSE p.default

(* The provider's model with its workflows, then its modules, projected;   *)
(* a module may be listed under its type or among the generic ones.        *)
Canonical(p) ==
    LET support  == p.support \o OfType(p.modules, "support_module")
        followup == p.followup \o OfType(p.modules, "followup_module")
        base     == [mode |-> p.mode, default |-> DefaultWorkflow(p), blocks |-> p.blocks,
                     procedures |-> p.procedures, steps |-> p.steps, gates |-> p.gates,
                     rules |-> p.rules, roles |-> p.roles, logics |-> p.logics,
                     orchestration |-> p.orchestration, support |-> Executable(support),
                     followup |-> Executable(followup), errors |-> FALSE]
        workflows == FoldLeft(AddWorkflow, base, p.workflows)
        modules  == [workflows EXCEPT !.blocks = AppendAll(@,
                       Known(ModuleBlocks(support, "support_module")
                             \o ModuleBlocks(followup, "followup_module")))]
    IN  FoldLeft(AddModule, modules, support \o followup)

(* The steps whose ids the provider wrote under its workflows and modules. *)
Declared(p) ==
    LET owners == SelectSeq(p.workflows \o p.support \o p.followup \o p.modules, LAMBDA o : ~o.policy)
    IN  IF p.mode # "single_default_workflow" THEN {}
        ELSE UNION {Ids(owners[i].steps) : i \in DOMAIN owners} \ {NoId}
=============================================================================
