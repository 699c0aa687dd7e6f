-------------------------- MODULE InstructionModel --------------------------
(***************************************************************************)
(* The compiled instruction model a chat turn is planned with, and the     *)
(* lookups the planner node makes in it (planner.py).  A model `m` is a    *)
(* record of sequences, in the order the compiled lists have:              *)
(*   planner     "legacy", "hybrid_shadow" or "hybrid_active"              *)
(*   default     the hybrid model's default_workflow_id, "" for none       *)
(*   workflows   [id, triggers, weight, isDefault, gate, steps]; a step is *)
(*               [scope, order, words, weight]; gate is the threshold of   *)
(*               an order-0 input gate, 0 for a workflow without one       *)
(*   procedures  [id, block, workflow]                                     *)
(*   steps       [id, procedure, order, mode, bundled]                     *)
(*   blocks      [id, type]                                                *)
(*   gateRules   [from, to, required, minimum]                             *)
(*   rules       [id, words, weight, logic, block]                         *)
(*   logics      [id, modules, onDemand]                                   *)
(*   roles       [id, workflows, modules]                                  *)
(* A text is the set of the words (markers, keywords) found in it; a       *)
(* keyword's length is its `weight`; a title is the identifier it labels.  *)
(***************************************************************************)
EXTENDS Integers, Sequences, FiniteSets, SequencesExt

None == ""
NoOrder == -1

SlotWords == {"theme", "passage", "audience", "goal"}
WorkflowTypes == {"primary_workflow", "supplementary_workflow"}

(* The element of s at the first of the positions I, or `other`. *)
FirstAt(s, I, other) == IF I = {} THEN other ELSE s[CHOOSE i \in I : \A j \in I : i <= j]
(* The first element of s that satisfies P, or `other`. *)
FirstOr(s, P(_), other) == FirstAt(s, {i \in DOMAIN s : P(s[i])}, other)

(* The first entry with the longest keyword found among the words. *)
BestMatch(s, field, words, other) ==
    LET Hits == {i \in DOMAIN s : s[i][field] \cap words # {}}
    IN  FirstAt(s, {i \in Hits : \A j \in Hits : s[j].weight <= s[i].weight}, other)

(* sorted(..., key=...) of the elements at the positions I: those of one   *)
(* key stay as they are.                                                   *)
Precedes(key, i, j) == key[i] < key[j] \/ (key[i] = key[j] /\ i < j)
Rank(I, key, i) == Cardinality({j \in I : Precedes(key, j, i)})
Sorted(s, I, key) == [k \in 1 .. Cardinality(I) |-> s[CHOOSE i \in I : Rank(I, key, i) = k - 1]]

(* The elements at the positions I, as they stand. *)
Sub(s, I) == Sorted(s, I, [i \in I |-> i])

(* Steps are sorted by int(order or 9999): an order of 0 comes last. *)
SortKey(step) == IF step.order \in {0, NoOrder} THEN 9999 ELSE step.order
ByOrder(steps, I) == Sorted(steps, I, [i \in I |-> SortKey(steps[i])])

NoWorkflow == [id |-> None, triggers |-> {}, weight |-> 0, isDefault |-> FALSE,
               gate |-> 0, steps |-> <<>>]
NoStepDef == [id |-> None, procedure |-> None, order |-> NoOrder, mode |-> None,
              bundled |-> <<>>]
NoBlock == [id |-> None, type |-> None]
NoProcedure == [id |-> None, block |-> None, workflow |-> None]
NoRule == [id |-> None, words |-> {}, weight |-> 0, logic |-> None, block |-> None]
NoLogic == [id |-> None, modules |-> <<>>, onDemand |-> <<>>]
NoRole == [id |-> None, workflows |-> <<>>, modules |-> <<>>]

WorkflowSteps(wf) == ByOrder(wf.steps, DOMAIN wf.steps)
StepDefinition(m, id) == FirstOr(m.steps, LAMBDA s : s.id = id /\ id # None, NoStepDef)
ServiceBlock(m, id) == FirstOr(m.blocks, LAMBDA b : b.id = id /\ id # None, NoBlock)
ProcedureOfBlock(m, id) == FirstOr(m.procedures, LAMBDA p : p.block = id /\ id # None, NoProcedure)
StepsAt(m, p) == {i \in DOMAIN m.steps : m.steps[i].procedure = p /\ p # None}
ProcedureSteps(m, p) == ByOrder(m.steps, StepsAt(m, p))
RoleProfile(m, id) == FirstOr(m.roles, LAMBDA r : r.id = id /\ id # None, NoRole)
RoutingRule(m, id) == FirstOr(m.rules, LAMBDA r : r.id = id /\ id # None, NoRule)
LogicBlock(m, id) == FirstOr(m.logics, LAMBDA l : l.id = id /\ id # None, NoLogic)

(* The step of that order, or none: an order the workflow has not. *)
NoStep == [scope |-> None, order |-> NoOrder, words |-> {}, weight |-> 0]
StepByOrder(wf, order) ==
    FirstOr(WorkflowSteps(wf), LAMBDA s : s.order = order /\ order # NoOrder, NoStep)

(* A workflow reference is a workflow of the registry, or a workflow block *)
(* whose procedure's steps stand in for one.                               *)
WorkflowByReference(m, ref) ==
    LET named == FirstOr(m.workflows, LAMBDA w : w.id = ref /\ ref # None, NoWorkflow)
        block == ServiceBlock(m, ref)
        defs  == ProcedureSteps(m, ProcedureOfBlock(m, ref).id)
    IN  IF named.id # None THEN named
        ELSE IF block.type \in WorkflowTypes
        THEN [NoWorkflow EXCEPT !.id = ref,
              !.steps = [i \in DOMAIN defs |->
                 [scope |-> defs[i].id, order |-> defs[i].order, words |-> {}, weight |-> 0]]]
        ELSE NoWorkflow

WorkflowOfScope(m, scope) ==
    FirstOr(m.workflows, LAMBDA w : \E i \in DOMAIN w.steps : w.steps[i].scope = scope, NoWorkflow)

DefaultWorkflow(m) == FirstOr(m.workflows, LAMBDA w : w.isDefault, NoWorkflow)

(* The block of the procedure with the workflow's title, else the block    *)
(* with that title.                                                        *)
BlockOfWorkflow(m, wf) ==
    LET p == FirstOr(m.procedures, LAMBDA q : q.workflow = wf.id /\ wf.id # None, NoProcedure)
        b == ServiceBlock(m, p.block)
    IN  IF b # NoBlock THEN b ELSE ServiceBlock(m, wf.id)

SupportBlocks(m) == SelectSeq(m.blocks, LAMBDA b : b.type = "support_module")
FollowupBlocks(m) == SelectSeq(m.blocks, LAMBDA b : b.type = "followup_module")

(* Any module identifier but a support module's is taken for the sole      *)
(* support module of a model that has exactly one.                         *)
CanonicalBlockId(m, id) ==
    LET b == ServiceBlock(m, id)
    IN  IF b.type \in {"support_module"} \cup WorkflowTypes \/ id = None THEN id
        ELSE IF Len(SupportBlocks(m)) = 1 THEN SupportBlocks(m)[1].id
        ELSE id

(* The definition that says what a step bundles: its own, or the one of    *)
(* the same procedure that lists it, when it is bundled without a list.    *)
BundleDefinition(m, def) ==
    IF def.mode = "bundled" /\ def.bundled = <<>>
    THEN FirstOr(m.steps,
                 LAMBDA s : s.procedure = def.procedure /\ Contains(s.bundled, def.id), def)
    ELSE def

-----------------------------------------------------------------------------
(* What the compiler makes.  Its lists are lists; a step's identifier tells *)
(* the steps of a model apart; only a bundled step lists other steps.       *)
List(s) == s \in Seq(ToSet(s))
Compiled(m) ==
    /\ \A s \in {m.workflows, m.procedures, m.steps, m.blocks, m.gateRules, m.roles} : List(s)
    /\ \A w \in ToSet(m.workflows) :
          /\ List(w.steps) /\ w.gate \in Nat
          /\ \A s \in ToSet(w.steps) : s.scope # None /\ s.order \in Int
    /\ \A d \in ToSet(m.steps) :
          /\ d.id # None /\ d.order \in Int
          /\ d.bundled # <<>> => d.mode = "bundled"
    /\ \A i, j \in DOMAIN m.steps : m.steps[i].id = m.steps[j].id => i = j
    /\ \A g \in ToSet(m.gateRules) : g.minimum \in Nat
    /\ \A r \in ToSet(m.roles) : List(r.workflows)
(* A step's identifier is made of its workflow or procedure and its order:  *)
(* the <<identifier, order>> of a model's steps.                            *)
Numbers(m) == {<<d.id, d.order>> : d \in ToSet(m.steps)}
                \cup UNION {{<<s.scope, s.order>> : s \in ToSet(w.steps)} : w \in ToSet(m.workflows)}

-----------------------------------------------------------------------------
(* Clarification slots.  A passage is also a theme; theme and passage are  *)
(* one effective slot.                                                     *)
SlotSignals(words) == (words \cap SlotWords)
                         \cup (IF "passage" \in words THEN {"theme"} ELSE {})
EffectiveSlots(slots) == {IF s \in {"theme", "passage"} THEN "content" ELSE s : s \in slots}

(* The gate rule of an interactive step, for the step it opens. *)
NoGateRule == [from |-> None, to |-> None, required |-> {}, minimum |-> 0]
GateRule(m, from, to) ==
    FirstOr(m.gateRules, LAMBDA g : g.from = from /\ g.to \in {None, to}, NoGateRule)

(* The rule's slots are all filled, or as many as the rule, the session,   *)
(* or else 3 ask for.                                                      *)
GateSatisfied(rule, slots, minimum) ==
    LET asked == IF rule.minimum # 0 THEN rule.minimum ELSE minimum
        threshold == IF asked <= 0 /\ slots # {} THEN 3 ELSE asked
    IN  IF rule.required # {} THEN rule.required \subseteq slots
        ELSE threshold > 0 /\ Cardinality(EffectiveSlots(slots)) >= threshold
=============================================================================
