--------------------------- MODULE SemanticCompile ---------------------------
(***************************************************************************)
(* What a semantic compile admits and what the chat runtime is then given: *)
(* the validation of a grounded candidate, and the runtime model built of  *)
(* a valid one, with its routes resolved, its steps given the resources of *)
(* the contract, and procedures made for follow-up modules without one     *)
(* (instruction_understanding_service.py).                                 *)
(***************************************************************************)
EXTENDS SemanticGrounding
LOCAL INSTANCE Integers
LOCAL INSTANCE Sequences
LOCAL INSTANCE FiniteSets
LOCAL INSTANCE SequencesExt
LOCAL IM == INSTANCE InstructionModel

Single == "single_default_workflow"
Multi  == "intent_routed_multi_workflow"
ByLogic == "intent_routed_interaction_logic"

Rules(m) == ToSet(m.rules)
Steps(m) == ToSet(m.steps)
ProcedureIds(m) == Ids(m.procedures) \ {NoId}
Targets(r) == ({r.module} \cup ToSet(r.modules)) \ {NoId}
Mappings(m) == IF m.orchestration.declared THEN ToSet(m.orchestration.mappings) ELSE {}

ExecutableBlocks(m) ==
    {p.block : p \in {x \in ToSet(m.procedures) : \E s \in Steps(m) : s.procedure = x.id /\ x.id # NoId}}
        \ {NoId}

-----------------------------------------------------------------------------
(* The checks of a candidate, each under the errors it reports.            *)

ModeIsRight(m) ==
    LET defaults == {i \in DOMAIN m.blocks : m.blocks[i].type = "primary_workflow" /\ m.blocks[i].isDefault}
    IN  CASE m.mode = Single -> /\ Cardinality(defaults) = 1 /\ m.default # NoId
                                /\ \A r \in Rules(m) : r.workflow \in {NoId, m.default}
          [] m.mode = Multi -> m.default = NoId /\ PrimaryIds(m) # {} /\ m.rules # <<>>
          [] m.mode = ByLogic -> m.rules # <<>> \/ m.logics # <<>>
          [] OTHER -> FALSE

IdsAreSound(m, required) ==
    /\ Cardinality(ProcedureIds(m)) = Len(SelectSeq(m.procedures, LAMBDA p : p.id # NoId))
    /\ Cardinality(Ids(m.steps) \ {NoId}) = Len(SelectSeq(m.steps, LAMBDA s : s.id # NoId))
    /\ required \subseteq Ids(m.steps)

ProceduresAreKnown(m) ==
    /\ \A p \in ToSet(m.procedures) : p.block \in Ids(m.blocks) \cup {NoId}
    /\ \A s \in Steps(m) : s.procedure \in ProcedureIds(m) \cup {NoId}

(* A bundled step that lists its bundle is in it; one that does not is in  *)
(* the bundle of exactly one other.                                        *)
Entries(m, s) == {e.id : e \in {x \in Steps(m) :
    x.mode = "bundled" /\ x.procedure = s.procedure /\ {x.id, s.id} \subseteq ToSet(x.bundled)}}

BundlesAreOwned(m) ==
    \A s \in Steps(m) : s.mode = "bundled" /\ s.id # NoId =>
        IF s.bundled # <<>> THEN s.id \in ToSet(s.bundled) ELSE Cardinality(Entries(m, s)) = 1

(* Mutant: the modules a rule names are not looked up. *)
WorkflowsAreKnown(m) == \A r \in Rules(m) : r.workflow \in PrimaryIds(m) \cup {NoId}

TargetsAreKnown(m) ==
    /\ \A r \in ToSet(m.roles) : {r.default} \cup r.workflows \subseteq PrimaryIds(m) \cup {NoId}
    /\ \A r \in Rules(m) : /\ r.workflow \in PrimaryIds(m) \cup {NoId}
                           /\ r.role \in Ids(m.roles) \cup {NoId}
                           /\ Targets(r) \subseteq ModuleIds(m)
    /\ m.orchestration.declared =>
         /\ m.orchestration.ordered
         /\ \A mapping \in Mappings(m) : mapping # <<>> /\ ToSet(mapping) \subseteq ModuleIds(m)

(* What a rule leads to: something that can be executed, a module, or a    *)
(* conversation that some text of the instructions describes.              *)
RoleExecutes(m, id) ==
    \E r \in ToSet(m.roles) : r.id = id /\ id # NoId /\
       \/ ({r.default} \cup r.workflows) \cap ExecutableBlocks(m) # {}
       \/ r.modules \cap ModuleIds(m) # {}
LeadsToModule(m) ==
    \/ \E r \in Rules(m) : Targets(r) \cap ModuleIds(m) # {}
    \/ \E mapping \in Mappings(m) : ToSet(mapping) \cap ModuleIds(m) # {}
Converses(m) ==
    \E r \in Rules(m) : r.workflow # NoId /\ r.workflow \notin ExecutableBlocks(m) /\
       \E b \in ToSet(m.blocks) : b.id = r.workflow /\ b.talks /\ \A p \in ToSet(m.procedures) : p.block # b.id
LeadsSomewhere(m) ==
    \/ LeadsToModule(m) \/ Converses(m)
    \/ \E r \in Rules(m) : r.workflow \in ExecutableBlocks(m) \/ RoleExecutes(m, r.role)

RoutesExecute(m) ==
    LET contract == m.procedures # <<>> \/ \E r \in Rules(m) : r.workflow # NoId
        gaps == \E p \in ToSet(m.procedures) :
                   p.block \notin Ids(m.blocks) \cup {NoId} \/ \A s \in Steps(m) : s.procedure # p.id
        stuck == /\ ~Converses(m)
                 /\ gaps \/ ((contract \/ ~LeadsToModule(m)) /\ ExecutableBlocks(m) = {})
    IN  CASE m.mode = Multi -> LeadsSomewhere(m) /\ ~stuck
          [] m.mode = ByLogic -> \/ m.rules = <<>> \/ LeadsSomewhere(m)
                                 \/ \A r \in Rules(m) : r.workflow = NoId /\ Targets(r) = {}
          [] OTHER -> TRUE

GatesAreKnown(m) ==
    \A g \in ToSet(m.gates) : /\ g.procedure \in ProcedureIds(m) \cup {NoId}
                              /\ {g.asked, g.opened} \subseteq Ids(m.steps) \cup {NoId}

IsValid(m, required) ==
    /\ ModeIsRight(m) /\ IdsAreSound(m, required) /\ ProceduresAreKnown(m)
    /\ BundlesAreOwned(m) /\ TargetsAreKnown(m) /\ RoutesExecute(m) /\ GatesAreKnown(m)

ValidCanonical(m, declared, d) ==
    LET required == declared \cup (IF m.mode = Single THEN Ids(m.steps) \ {NoId} ELSE {})
    IN  ~m.errors /\ IsValid(Grounded(m, d), required)

Validates(p, d) == ValidCanonical(Canonical(p), Declared(p), d)
-----------------------------------------------------------------------------
(* The runtime model of a valid candidate.                                 *)

(* The block registered last under a name, its id or another form of it.   *)
BlockNamed(m, name) ==
    LET at == SelectLastInSeq(m.blocks, LAMBDA b : name \in {b.id} \cup b.also /\ b.id # NoId)
    IN  IF at = 0 \/ name = NoId THEN NewBlock(NoId, NoId) ELSE m.blocks[at]

FirstNamed(m, names) ==
    LET at == SelectInSeq(names, LAMBDA n : BlockNamed(m, n).type # NoId)
    IN  IF at = 0 THEN NewBlock(NoId, NoId) ELSE BlockNamed(m, names[at])

RoleTarget(m, id) ==
    LET at == SelectLastInSeq(m.roles, LAMBDA r : r.id = id /\ id # NoId)
    IN  IF at = 0 THEN NewBlock(NoId, NoId)
        ELSE FirstNamed(m, <<m.roles[at].default>> \o SetToSeq(m.roles[at].workflows)
                             \o SetToSeq(m.roles[at].modules))
LogicTarget(m, id) ==
    LET at == SelectLastInSeq(m.logics, LAMBDA l : l.id = id /\ id # NoId)
    IN  IF at = 0 THEN NewBlock(NoId, NoId)
        ELSE FirstNamed(m, <<m.logics[at].module, m.logics[at].workflow>>)

(* A rule's own target, else its role's, else its logic block's; a target  *)
(* of the one type takes the place of one of the other.                    *)
LeadTo(r, targets) ==
    LET at     == SelectInSeq(targets, LAMBDA b : b.type # NoId)
        target == IF at = 0 THEN NewBlock(NoId, NoId) ELSE targets[at]
    IN  CASE target.type = "primary_workflow" -> [r EXCEPT !.workflow = target.id, !.module = NoId]
          [] target.type \in ModuleTypes     -> [r EXCEPT !.module = target.id, !.workflow = NoId]
          [] OTHER -> r
RoutedRule(m, r) ==
    LeadTo(r, <<FirstNamed(m, <<r.module, r.workflow>>), RoleTarget(m, r.role), LogicTarget(m, r.logic)>>)

RoutedRules(m) ==
    LET rules == IF m.rules # <<>> THEN m.rules
                 ELSE FlattenSeq([i \in DOMAIN m.logics |-> m.logics[i].rules])
    IN  [i \in DOMAIN rules |-> RoutedRule(m, rules[i])]

(* The steps of a block in their order; the block of a procedure, or the   *)
(* one its name is.                                                        *)
BlockOf(m, procedure) ==
    LET at == SelectInSeq(m.procedures, LAMBDA p : p.id = procedure)
        name == IF at = 0 \/ m.procedures[at].block = NoId THEN procedure ELSE m.procedures[at].block
    IN  IF BlockNamed(m, name).id # NoId THEN BlockNamed(m, name).id ELSE name
InOrder(steps) ==
    SortSeq(steps, LAMBDA a, b : (IF a.order = Unordered THEN 10000 ELSE a.order)
                                   < (IF b.order = Unordered THEN 10000 ELSE b.order))
StepsOfBlock(m, procedures, steps, block) ==
    InOrder(SelectSeq(steps, LAMBDA s : BlockOf([m EXCEPT !.procedures = procedures], s.procedure) = block))

(* The resources of the contract's step of that id, else of its step in    *)
(* the same place of the same block.                                       *)
ContractRefs(m, d, s) ==
    LET same  == SelectLastInSeq(d.steps, LAMBDA x : x.id = s.id /\ x.refs # <<>>)
        block == BlockOf(m, s.procedure)
        place == SelectInSeq(StepsOfBlock(m, m.procedures, m.steps, block), LAMBDA x : x.id = s.id)
        there == StepsOfBlock(m, d.procedures, d.steps, block)
    IN  IF same # 0 THEN d.steps[same].refs
        ELSE IF place \in DOMAIN there THEN there[place].refs ELSE <<>>

(* What the contract gives a block beside what it gives the block's steps. *)
DirectRefs(m, d, block) ==
    LET at    == SelectLastInSeq(d.blocks, LAMBDA b : b.id = block)
        owned == UNION {ToSet(s.refs) : s \in ToSet(StepsOfBlock(m, d.procedures, d.steps, block))}
    IN  IF at = 0 THEN <<>> ELSE SelectSeq(d.blocks[at].refs, LAMBDA r : r \notin owned)

WithResources(m, d) ==
    [m EXCEPT !.steps = [i \in DOMAIN @ |->
                IF @[i].id = NoId \/ @[i].refs # <<>> THEN @[i]
                ELSE [@[i] EXCEPT !.refs = ContractRefs(m, d, m.steps[i])]],
              !.blocks = [i \in DOMAIN @ |->
                IF @[i].refs # <<>> THEN @[i]
                ELSE [@[i] EXCEPT !.refs = DirectRefs(m, d, m.blocks[i].id)]]]

(* A follow-up module without a procedure gets one, and a step where it    *)
(* has resources of its own.                                               *)
AddFollowup(m, b) ==
    LET step == [FirstStep(b.id, ProcedureOf(b.id), <<>>) EXCEPT !.refs = b.refs]
    IN  IF b.type # "followup_module" \/ b.id = NoId \/ \E p \in ToSet(m.procedures) : p.block = b.id
        THEN m
        ELSE [m EXCEPT !.procedures = AppendNew(@, [id |-> ProcedureOf(b.id), block |-> b.id]),
                       !.steps = IF b.refs = <<>> THEN @ ELSE AppendNew(@, step)]

(* The modules of a type: those listed, under the names of their blocks,   *)
(* or else the blocks of that type.                                        *)
ModuleList(m, owners, type) ==
    LET Name(o) == LET b == BlockNamed(m, o.id) IN IF b.type = type THEN b.id ELSE o.id
        listed  == [i \in DOMAIN owners |-> [id |-> Name(owners[i])]]
        blocks  == SelectSeq(m.blocks, LAMBDA b : b.type = type /\ b.id # NoId)
    IN  FirstOfEach(IF owners # <<>> THEN listed ELSE [i \in DOMAIN blocks |-> [id |-> blocks[i].id]])

WithModules(m) ==
    [FoldLeft(AddFollowup, m, m.blocks) EXCEPT
       !.rules = RoutedRules(m),
       !.support = ModuleList(m, @, "support_module"),
       !.followup = ModuleList(m, @, "followup_module")]

Runtime(p, d) == WithModules(WithResources(Grounded(Canonical(p), d), d))

-----------------------------------------------------------------------------
(* What the planner relies on: a bundled step is executed as the bundle    *)
(* the planner looks up for it, whole and of one procedure.                *)
BundleIsWhole(r, s) ==
    LET entry == IM!BundleDefinition(r, s)
    IN  /\ entry.mode = "bundled" /\ entry.procedure = s.procedure
        /\ {entry.id, s.id} \subseteq ToSet(entry.bundled)

(* The planner takes the first step that lists the bundled one, which may  *)
(* be an interactive step: the validation counts only bundled ones.        *)
Claimed(r, s) ==
    \E x \in Steps(r) : x.mode # "bundled" /\ x.procedure = s.procedure /\ s.id \in ToSet(x.bundled)

(* Everything the runtime model refers to is in it, and what the provider  *)
(* declared was not lost; rules nested in logic blocks are validated by    *)
(* nobody, and they are the routes where the model has no others.          *)
RuntimeIsSound(p, r) ==
    /\ \A s \in Steps(r) : /\ s.procedure \in ProcedureIds(r)
                           /\ s.mode = "bundled" => BundleIsWhole(r, s) \/ Claimed(r, s)
    /\ \A q \in ToSet(r.procedures) : q.block \in Ids(r.blocks)
    /\ p.rules # <<>> => \A x \in Rules(r) : /\ x.workflow \in PrimaryIds(r) \cup {NoId}
                                            /\ Targets(x) \subseteq ModuleIds(r)
    /\ \A g \in ToSet(r.gates) : {g.asked, g.opened} \subseteq Ids(r.steps)
    /\ Declared(p) \subseteq Ids(r.steps)
    /\ \A i, j \in DOMAIN r.steps : r.steps[i].id = r.steps[j].id => i = j
=============================================================================
