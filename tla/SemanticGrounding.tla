-------------------------- MODULE SemanticGrounding --------------------------
(***************************************************************************)
(* Grounding of a canonical provider model in the deterministic contract d *)
(* that the parser reads from the same instructions:                       *)
(*   d         [blocks, procedures, steps, orchestration, match]           *)
(* d.match says what each name the provider uses stands for: a target      *)
(* [kind, id, files] of the kind "workflow", "module" or "orchestration".  *)
(* Which one the names, titles and word families decide is not modelled.   *)
(*   rule      [workflow, module, modules, role, logic]                    *)
(*   role      [id, default, workflows, modules]                           *)
(*   logic     [id, rich, rules, workflow, module]                         *)
(***************************************************************************)
EXTENDS ProviderModel
LOCAL INSTANCE Integers
LOCAL INSTANCE Sequences
LOCAL INSTANCE SequencesExt

IntentModes == {"intent_routed_multi_workflow", "intent_routed_interaction_logic"}
NoMatch == [kind |-> "none", id |-> NoId, files |-> <<>>]
Match(d, name) == IF name \in DOMAIN d.match THEN d.match[name] ELSE NoMatch
Seen(alias, name) == IF name \in DOMAIN alias THEN alias[name] ELSE name
Renamed(alias, name, as) == [n \in DOMAIN alias \cup {name} |-> IF n = name THEN as ELSE alias[n]]
ModuleIds(m) == {b.id : b \in {x \in ToSet(m.blocks) : x.type \in ModuleTypes}}
PrimaryIds(m) == {b.id : b \in {x \in ToSet(m.blocks) : x.type = "primary_workflow"}}

-----------------------------------------------------------------------------
(* A missing mode is inferred; a multi-workflow model whose rules route to *)
(* interaction logic with a contract of its own is one of that mode.       *)
GroundedMode(m) ==
    LET rich     == \E l \in ToSet(m.logics) : l.rich
        nested   == \E l \in ToSet(m.logics) : l.rules # <<>>
        inferred ==
          IF m.mode # NoId THEN m.mode
          ELSE IF m.default # NoId \/ \E b \in ToSet(m.blocks) : b.type = "primary_workflow" /\ b.isDefault
          THEN "single_default_workflow"
          ELSE IF rich \/ nested THEN "intent_routed_interaction_logic"
          ELSE IF m.rules # <<>> /\ PrimaryIds(m) # {} THEN "intent_routed_multi_workflow"
          ELSE NoId
        toLogic == /\ inferred = "intent_routed_multi_workflow" /\ m.default = NoId /\ rich
                   /\ \E r \in ToSet(m.rules) : r.logic # NoId
    IN  IF toLogic THEN "intent_routed_interaction_logic" ELSE inferred

ContractProcedures(d, block) == SelectSeq(d.procedures, LAMBDA p : p.block = block)
ContractSteps(d, procedure) == SelectSeq(d.steps, LAMBDA s : s.procedure = procedure /\ s.id # NoId)

(* The contract's default workflow, where the provider names it only. *)
SeedDefault(m, d) ==
    LET wanted == m.mode = "single_default_workflow" /\ m.default # NoId /\ PrimaryIds(m) = {}
        found  == SelectSeq(d.blocks, LAMBDA b : b.id = m.default /\ b.type = "primary_workflow")
        owned  == ContractProcedures(d, m.default)
        seeded == [m EXCEPT !.blocks = Append(@, [found[1] EXCEPT !.isDefault = TRUE])]
    IN  IF ~wanted \/ found = <<>> THEN m
        ELSE IF owned = <<>> \/ Has(m.procedures, owned[1].id) THEN seeded
        ELSE [seeded EXCEPT !.procedures = Append(@, owned[1]),
                            !.steps = AppendAll(@, ContractSteps(d, owned[1].id))]

(* The contract's procedure of a support module that the provider kept     *)
(* without one.                                                            *)
RestoreModules(m, d) ==
    LET Restore(acc, b) ==
          LET owned == ContractProcedures(d, b.id)
          IN  IF b.type # "support_module" \/ ~Has(m.blocks, b.id) \/ owned = <<>>
                 \/ \E p \in ToSet(acc.procedures) : p.block = b.id
              THEN acc
              ELSE [acc EXCEPT !.procedures = Append(@, owned[1]),
                               !.steps = AppendAll(@, ContractSteps(d, owned[1].id))]
    IN  FoldLeft(Restore, m, d.blocks)

(* All that the contract can execute, for a model of interaction logic     *)
(* that lacks blocks, procedures or steps when grounding starts.           *)
SeedExecutables(m, d, bare) ==
    IF ~(bare /\ m.mode = "intent_routed_interaction_logic" /\ m.logics # <<>>) THEN m
    ELSE [m EXCEPT !.blocks = AppendAll(@, d.blocks),
                   !.procedures = AppendAll(@, d.procedures),
                   !.steps = AppendAll(@, SelectSeq(d.steps, LAMBDA s : Has(d.procedures, s.procedure)))]

-----------------------------------------------------------------------------
(* The targets of the routing rules.                                       *)
(*   a  [model, rules, works, mods, workflowOf, moduleOf]: the rules so    *)
(*      far, the aliases, and the targets each role has come to            *)

Bundle(files) == Len(files) > 1
FirstStep(block, procedure, files) ==
    [id |-> StepId(block, 1), procedure |-> procedure, titled |-> TRUE, asks |-> FALSE, order |-> 1,
     mode |-> IF Bundle(files) THEN "bundled" ELSE "interactive",
     bundled |-> IF Bundle(files) THEN <<StepId(block, 1)>> ELSE <<>>, refs |-> files]
Logic(name) == [id |-> name, rich |-> FALSE, rules |-> <<>>, workflow |-> NoId, module |-> NoId]

ToModule(a, rule, name, module) ==
    [a EXCEPT !.mods = Renamed(@, name, module), !.moduleOf = @ \cup {<<rule.role, module>>}]

(* A module that is no block takes what its name stands for, made or not.  *)
RouteModule(a, rule, d) ==
    LET t == Match(d, rule.module)
    IN  IF rule.module = NoId \/ Has(a.model.blocks, rule.module) \/ t.kind # "module"
        THEN [to |-> a, rule |-> rule]
        ELSE [to |-> ToModule(a, rule, rule.module, t.id), rule |-> [rule EXCEPT !.module = t.id]]

(* A workflow that is no block stands for a module, which takes its place  *)
(* in the rule, or for a workflow, which gets a procedure and a first      *)
(* step; where nothing matches it, the rule is left as it is.              *)
RouteWorkflow(a, rule, d) ==
    LET t     == Match(d, rule.workflow)
        block == NewBlock(t.id, IF t.kind = "module" THEN "support_module" ELSE "primary_workflow")
        made  == [a EXCEPT !.model.blocks = AppendNew(@, block)]
    IN  CASE t.kind = "module" ->
               LET next == [rule EXCEPT !.workflow = NoId, !.module = t.id]
               IN  [ToModule(made, rule, rule.workflow, t.id) EXCEPT !.rules = Append(@, next)]
          [] t.kind = "workflow" ->
               [made EXCEPT !.works = Renamed(@, rule.workflow, t.id),
                  !.model.procedures = AppendNew(@, [id |-> ProcedureOf(t.id), block |-> t.id]),
                  !.model.steps = AppendNew(@, FirstStep(t.id, ProcedureOf(t.id), t.files)),
                  !.workflowOf = @ \cup {<<rule.role, t.id>>},
                  !.rules = Append(@, [rule EXCEPT !.workflow = t.id])]
          [] OTHER -> [a EXCEPT !.rules = Append(@, rule)]

(* A rule to the orchestration becomes a logic block; only its role or its *)
(* modules keep it among the rules.                                        *)
RouteRule(a, rule, d) ==
    LET toOrchestration ==
          [a EXCEPT !.works = Renamed(@, rule.workflow, NoId),
                    !.model.logics = AppendNew(@, Logic(rule.workflow)),
                    !.rules = IF rule.role # NoId \/ rule.module # NoId \/ rule.modules # <<>>
                              THEN Append(@, [rule EXCEPT !.workflow = NoId]) ELSE @]
        routed == RouteModule(a, rule, d)
        kept   == [routed.to EXCEPT !.rules = Append(@, routed.rule),
                     !.workflowOf = IF rule.workflow = NoId THEN @ ELSE @ \cup {<<rule.role, rule.workflow>>}]
    IN  IF rule.workflow # NoId /\ Match(d, rule.workflow).kind = "orchestration" THEN toOrchestration
        ELSE IF rule.workflow # NoId /\ ~Has(a.model.blocks, rule.workflow)
        THEN RouteWorkflow(routed.to, routed.rule, d)
        ELSE kept

(* The roles the rules name, with the targets found for them.              *)
GroundRoles(a) ==
    LET named     == FirstOfEach([i \in DOMAIN a.rules |-> [id |-> a.rules[i].role]])
        Works(r)  == IF r = NoId THEN {} ELSE {t[2] : t \in {x \in a.workflowOf : x[1] = r}}
        Mods(r)   == {t[2] : t \in {x \in a.moduleOf : x[1] = r}}
        Give(roles, n) ==
          IF Has(roles, n.id)
          THEN [i \in DOMAIN roles |-> IF roles[i].id # n.id THEN roles[i]
                 ELSE [roles[i] EXCEPT !.modules = @ \cup Mods(n.id)]]
          ELSE IF Works(n.id) \cup Mods(n.id) = {} THEN roles
          ELSE Append(roles, [id |-> n.id, default |-> NoId, workflows |-> Works(n.id), modules |-> Mods(n.id)])
    IN  [a.model EXCEPT !.roles = FoldLeft(Give, @, named), !.rules = a.rules]
-----------------------------------------------------------------------------
(* A model that routes by intent is rewritten to canonical names.          *)
(*   g  [model, works, mods, procs, dropped]: the model so far, the names  *)
(*      that workflows, modules and procedures had, the procedures dropped *)

RewriteBlock(g, b, d) ==
    LET t      == Match(d, b.id)
        module == b.type \in ModuleTypes \/ t.kind = "module"
        named  == t.kind = "module" \/ (t.kind = "workflow" /\ ~module)
        next   == IF b.type = "primary_workflow" /\ module
                  THEN [b EXCEPT !.id = t.id, !.type = "support_module"]
                  ELSE [b EXCEPT !.id = IF named THEN t.id ELSE @]
    IN  IF b.id = NoId THEN g
        ELSE IF b.type \notin ModuleTypes \cup {"primary_workflow"}
        THEN [g EXCEPT !.model.blocks = AppendNew(@, b)]
        ELSE IF b.type = "primary_workflow" /\ t.kind = "orchestration"
        THEN [g EXCEPT !.model.logics = AppendNew(@, Logic(b.id))]
        ELSE [g EXCEPT !.model.blocks = AppendNew(@, next),
               !.works = IF b.type = "primary_workflow" THEN Renamed(@, b.id, next.id) ELSE @,
               !.mods = IF module THEN Renamed(@, b.id, next.id) ELSE @]

RewriteBlocks(m, works, mods, d) ==
    LET Step(g, b) == RewriteBlock(g, b, d)
    IN  FoldLeft(Step, [model |-> [m EXCEPT !.blocks = <<>>], works |-> works, mods |-> mods,
                        procs |-> [n \in {} |-> n], dropped |-> {}], m.blocks)

CanonicalModule(g, name, d) ==
    IF name = NoId THEN NoId
    ELSE IF Match(d, name).kind = "module" THEN Match(d, name).id ELSE Seen(g.mods, name)
CanonicalWorkflow(g, name, d) ==
    LET seen == Seen(g.works, name)
    IN  IF name = NoId \/ Has(g.model.blocks, seen) THEN seen
        ELSE IF Match(d, name).kind \in {"workflow", "module"} THEN Match(d, name).id ELSE seen

RewriteRole(g, r) ==
    [r EXCEPT !.default = Seen(g.works, @), !.workflows = {Seen(g.works, w) : w \in @},
              !.modules = {Seen(g.mods, x) : x \in @}]

(* A workflow that turned out to be a module becomes the rule's module.    *)
RewriteRule(g, r, d) ==
    LET seen   == Seen(g.works, r.workflow)
        moved  == seen \in ModuleIds(g.model)
        module == IF moved /\ r.workflow # NoId /\ r.module = NoId THEN seen ELSE r.module
    IN  [r EXCEPT !.workflow = IF @ = NoId \/ seen = NoId THEN @ ELSE IF moved THEN NoId ELSE seen,
                  !.module = CanonicalModule(g, module, d),
                  !.modules = [i \in DOMAIN @ |-> Seen(g.mods, @[i])]]

RewriteTargets(r, g, d) ==
    [r EXCEPT !.workflow = CanonicalWorkflow(g, @, d), !.module = CanonicalModule(g, @, d)]
RewriteLogic(g, l, d) ==
    [RewriteTargets(l, g, d) EXCEPT !.rules = [i \in DOMAIN @ |-> RewriteTargets(@[i], g, d)]]

(* A procedure takes the name of its block, which is made where there is   *)
(* none; two procedures of one block become one; those of an orchestration *)
(* go.                                                                     *)
RewriteProcedure(g, p, d) ==
    LET seen   == IF p.block \in DOMAIN g.works THEN g.works[p.block] ELSE Seen(g.mods, p.block)
        t      == Match(d, seen)
        block  == IF Has(g.model.blocks, seen) \/ t.kind \notin {"workflow", "module"} THEN seen ELSE t.id
        type   == IF t.kind = "module" THEN "support_module" ELSE "primary_workflow"
        gone   == "orchestration" \in {Match(d, p.block).kind, Match(d, block).kind}
    IN  IF gone THEN [g EXCEPT !.procs = Renamed(@, p.id, NoId), !.dropped = @ \cup {p.id}]
        ELSE IF block = NoId
        THEN [g EXCEPT !.procs = Renamed(@, p.id, p.id), !.model.procedures = AppendNew(@, p)]
        ELSE [g EXCEPT !.procs = Renamed(@, p.id, ProcedureOf(block)),
                !.model.blocks = AppendNew(@, NewBlock(block, type)),
                !.model.procedures = AppendNew(@, [id |-> ProcedureOf(block), block |-> block])]

AddMissing(g, d) ==
    LET bare == SelectSeq(g.model.blocks, LAMBDA b : Match(d, b.id).kind # "orchestration")
    IN  [g EXCEPT !.model.procedures = AppendAll(@,
           [i \in DOMAIN bare |-> [id |-> ProcedureOf(bare[i].id), block |-> bare[i].id]])]

RewriteProcedures(g, d) ==
    LET Step(h, p) == RewriteProcedure(h, p, d)
    IN  AddMissing(FoldLeft(Step, [g EXCEPT !.model.procedures = <<>>], g.model.procedures), d)

(* A step whose procedure nobody knows is dropped without a word.          *)
RewriteStep(g, steps, s, d) ==
    LET seen == IF s.procedure \in DOMAIN g.procs THEN g.procs[s.procedure] ELSE NoId
        t    == Match(d, s.procedure)
        home == IF seen # NoId THEN seen
                ELSE IF t.kind \in {"workflow", "module"} THEN ProcedureOf(t.id) ELSE NoId
    IN  IF s.procedure \in g.dropped \/ home = NoId THEN steps
        ELSE AppendNew(steps, [s EXCEPT !.procedure = home])

(* A procedure left without steps gets one. *)
FillProcedures(procedures, steps, d) ==
    LET empty == SelectSeq(procedures,
                   LAMBDA p : p.block # NoId /\ \A i \in DOMAIN steps : steps[i].procedure # p.id)
    IN  AppendAll(steps, [i \in DOMAIN empty |->
                            FirstStep(empty[i].block, empty[i].id, Match(d, empty[i].block).files)])
RewriteSteps(g, d) ==
    LET Step(steps, s) == RewriteStep(g, steps, s, d)
    IN  [g.model EXCEPT
          !.steps = FillProcedures(g.model.procedures, FoldLeft(Step, <<>>, @), d),
          !.gates = [i \in DOMAIN @ |-> [@[i] EXCEPT !.procedure = Seen(g.procs, @)]]]

RewriteReferences(g, d) ==
    [g EXCEPT
      !.model.roles  = [i \in DOMAIN @ |-> RewriteRole(g, @[i])],
      !.model.rules  = [i \in DOMAIN @ |-> RewriteRule(g, @[i], d)],
      !.model.logics = [i \in DOMAIN @ |-> RewriteLogic(g, @[i], d)],
      !.model.orchestration.mappings = [i \in DOMAIN @ |->
             [j \in DOMAIN @[i] |-> CanonicalModule(g, @[i][j], d)]]]

Rewritten(m, works, mods, d) ==
    RewriteSteps(RewriteProcedures(RewriteReferences(RewriteBlocks(m, works, mods, d), d), d), d)

(* A declared orchestration names modules by any form of their id that one *)
(* module alone has; its own section is a policy.                          *)
Orchestrated(m) ==
    LET modules == {b \in ToSet(m.blocks) : b.type \in ModuleTypes}
        Forms(id) == {b.id : b \in {x \in modules : id \in x.also}}
        Resolved(id) == IF id \notin {b.id : b \in modules} /\ \E b \in modules : Forms(id) = {b.id}
                     THEN CHOOSE x \in Forms(id) : TRUE ELSE id
    IN  IF ~m.orchestration.declared THEN m
        ELSE [m EXCEPT
          !.orchestration.mappings = [i \in DOMAIN @ |-> [j \in DOMAIN @[i] |-> Resolved(@[i][j])]],
          !.blocks = [i \in DOMAIN @ |-> IF @[i].section THEN [@[i] EXCEPT !.type = "global_policy"] ELSE @[i]],
          !.followup = SelectSeq(@, LAMBDA o : ~o.section)]

RouteRules(m, d) ==
    LET Route(a, rule) == RouteRule(a, rule, d)
    IN  FoldLeft(Route, [model |-> m, rules |-> <<>>, works |-> [n \in {} |-> n],
                         mods |-> [n \in {} |-> n], workflowOf |-> {}, moduleOf |-> {}], m.rules)

Renaming(a, d) ==
    IF a.model.mode \in IntentModes THEN Rewritten(GroundRoles(a), a.works, a.mods, d) ELSE GroundRoles(a)

Grounded(model, d) ==
    LET declared == [model EXCEPT !.orchestration = IF @.declared THEN @ ELSE d.orchestration,
                                  !.mode = GroundedMode(model)]
        bare     == <<>> \in {model.blocks, model.procedures, model.steps}
        seeded   == SeedExecutables(RestoreModules(SeedDefault(declared, d), d), d, bare)
    IN  Orchestrated(Renaming(RouteRules(seeded, d), d))
=============================================================================
