------------------------ MODULE DeterministicContract ------------------------
(***************************************************************************)
(* The runtime model that the deterministic parser builds of a document:   *)
(* service blocks, procedures and their steps, with the bundles it guesses *)
(* from the wording, and the module orchestration.  A semantic compile is  *)
(* grounded in it, and without a compiler the chat runtime is given it     *)
(* (load_template_registry.py).  A name is joined of a type and a slug.    *)
(***************************************************************************)
EXTENDS InstructionDocument
LOCAL INSTANCE Integers
LOCAL INSTANCE Sequences
LOCAL INSTANCE FiniteSets
LOCAL INSTANCE SequencesExt
LOCAL INSTANCE ProviderModel

BlockId(type, name) == type \o ":" \o name
WorkflowTypes == {"primary_workflow", "supplementary_workflow"}

(* What has that title, the last one where several do; else the first with *)
(* a title like it.                                                        *)
Titled(named, title) == SelectLastInSeq(named, LAMBDA x : x.title = title)
Matching(named, title) ==
    LET like == SelectInSeq(named, LAMBDA x : Alike(x.title, title))
    IN  IF Titled(named, title) # 0 THEN Titled(named, title)
        ELSE IF like = 0 THEN 0 ELSE Titled(named, named[like].title)

-----------------------------------------------------------------------------
(* Service blocks: one of each heading that is no step.                    *)
WorkflowType(h) == IF "supplementary" \in h.text THEN "supplementary_workflow" ELSE "primary_workflow"

ClassifiedType(h, workflows) ==
    IF "orchestration" \in h.marks THEN "global_policy"
    ELSE IF DeclaredType(h) = "module"
    THEN IF "followup" \in h.marks THEN "followup_module" ELSE "support_module"
    ELSE IF DeclaredType(h) = "workflow" THEN WorkflowType(h)
    ELSE IF "entry" \in h.text THEN "entry_mode"
    ELSE IF Titled(workflows, h.title) # 0 THEN WorkflowType(h)
    ELSE IF "followup" \in h.text THEN "followup_module"
    ELSE IF "modules" \in h.marks THEN "support_module"
    ELSE IF "output" \in h.text THEN "output_contract"
    ELSE IF "policy" \notin h.text /\ "catalog" \in h.marks THEN "resource_catalog" ELSE "global_policy"

(* The files a block has beside those of a module's own steps. *)
BlockFiles(h, type, workflow, sections) ==
    LET section == SelectInSeq(sections, LAMBDA x : x.title = h.title)
        Steps(steps) == UNION {ToSet(steps[k].refs) : k \in DOMAIN steps}
        own == FilesOf(h.body)
    IN  IF workflow.id # NoId
        THEN Distinct(own \o FlattenSeq([k \in DOMAIN workflow.steps |-> workflow.steps[k].refs]))
        ELSE IF type # "support_module" \/ section = 0 THEN own
        ELSE SelectSeq(own, LAMBDA f : f \notin Steps(sections[section].steps))

NoWorkflow == [id |-> NoId, title |-> {}, triggers |-> FALSE, steps |-> <<>>]
WorkflowOfBlock(h, workflows) ==
    LET at == Matching(workflows, h.title)
    IN  IF at = 0 \/ DeclaredType(h) \in {"module", "ambiguous"} THEN NoWorkflow ELSE workflows[at]

BlockAt(h, i, workflow, workflows, sections) ==
    LET type == IF workflow.id # NoId THEN WorkflowType(h) ELSE ClassifiedType(h, workflows)
    IN  [at |-> i, type |-> type, slug |-> h.slug, title |-> h.title, triggers |-> workflow.triggers,
         id |-> BlockId(type, IF workflow.id # NoId THEN workflow.id ELSE h.slug),
         refs |-> BlockFiles(h, type, workflow, sections)]

(* The sole primary workflow without triggers is the default. *)
WithDefault(blocks) ==
    LET Open(b) == b.type = "primary_workflow" /\ ~b.triggers
        sole == Len(SelectSeq(blocks, Open)) = 1
    IN  [k \in DOMAIN blocks |-> [blocks[k] EXCEPT !.isDefault = sole /\ Open(blocks[k])]]

Blocks(hs, workflows, sections) ==
    LET at == Where(hs, LAMBDA i : ~IsStep(hs[i]))
        Block(i) == BlockAt(hs[i], i, WorkflowOfBlock(hs[i], workflows), workflows, sections)
    IN  WithDefault([k \in DOMAIN at |-> Block(at[k]) @@ [isDefault |-> FALSE]])

(* The block a block is in: that of the nearest heading that is no step.   *)
ParentBlock(hs, blocks, b) ==
    LET over == {k \in DOMAIN blocks : b.at \in Under(hs, blocks[k].at)}
    IN  IF over = {} THEN NoId ELSE blocks[CHOOSE k \in over : \A j \in over : j <= k].id

-----------------------------------------------------------------------------
(* Bundles: a run of steps that make something is one bundle, that its     *)
(* first step lists.  Steps are looked up by their ids: the last that has  *)
(* one says in which run it is.                                            *)
RunStart(steps, i) ==
    CHOOSE a \in 1..i : /\ \A k \in a..i : steps[k].mode = "bundled"
                        /\ a = 1 \/ steps[a - 1].mode # "bundled"

(* Mutant: a run ends with its first step. *)
RunEndsEarly(steps, i) == i

RunEnd(steps, i) ==
    CHOOSE z \in i..Len(steps) : /\ \A k \in i..z : steps[k].mode = "bundled"
                                 /\ z = Len(steps) \/ steps[z + 1].mode # "bundled"

Decorated(steps, k) ==
    LET at    == SelectLastInSeq(steps, LAMBDA s : s.id = steps[k].id)
        first == RunStart(steps, at)
        run   == SubSeq(steps, first, RunEnd(steps, at))
    IN  IF steps[at].mode # "bundled" THEN [mode |-> "interactive", bundled |-> <<>>]
        ELSE [mode |-> "bundled",
              bundled |-> IF steps[first].id = steps[k].id THEN [j \in DOMAIN run |-> run[j].id] ELSE <<>>]

-----------------------------------------------------------------------------
(* Procedures: the steps of the workflow, or of the module, that a block's *)
(* title stands for; a module without a section has the steps of its text. *)
SectionOfBlock(hs, b, sections) ==
    IF Matching(sections, b.title) # 0 THEN sections[Matching(sections, b.title)]
    ELSE [slug |-> b.slug, title |-> b.title, steps |-> ModuleSteps(hs[b.at].body), refs |-> <<>>]

ModuleProcedure(b, section) ==
    LET owner == BlockId(b.type, b.slug)
        alone == << [section EXCEPT !.slug = b.slug] >>
    IN  [id |-> ProcedureOf(owner), block |-> b.id, steps |-> WorkflowSteps(owner, section.steps, alone)]

WorkflowProcedure(b, workflows) ==
    LET at == Matching(workflows, b.title)
        w  == IF at = 0 THEN NoWorkflow ELSE workflows[at]
    IN  [id |-> ProcedureOf(w.id), block |-> b.id, steps |-> w.steps]

Procedures(hs, blocks, workflows, sections) ==
    LET Of(b) == IF b.type \in WorkflowTypes THEN WorkflowProcedure(b, workflows)
                 ELSE ModuleProcedure(b, SectionOfBlock(hs, b, sections))
        owners == SelectSeq(blocks, LAMBDA b : b.type \in WorkflowTypes \cup ModuleTypes)
    IN  SelectSeq([k \in DOMAIN owners |-> Of(owners[k])], LAMBDA p : p.steps # <<>>)

StepsOf(p) ==
    [k \in DOMAIN p.steps |->
       [id |-> p.steps[k].id, procedure |-> p.id, titled |-> TRUE, asks |-> FALSE, order |-> p.steps[k].order,
        mode |-> Decorated(p.steps, k).mode, bundled |-> Decorated(p.steps, k).bundled,
        refs |-> p.steps[k].refs, module |-> p.steps[k].module]]

-----------------------------------------------------------------------------
(* The orchestration: the modules that the arrows of the first section of  *)
(* that name point at, the one with the title, else the one whose title is *)
(* most like it.                                                           *)
MappedModule(blocks, target) ==
    LET modules == SelectSeq(blocks, LAMBDA b : b.type \in ModuleTypes)
        exact   == SelectInSeq(modules, LAMBDA b : b.title = target)
        Size(b) == IF b.title \subseteq target THEN Cardinality(b.title) ELSE Cardinality(target)
        like    == SelectSeq(modules, LAMBDA b : Alike(b.title, target))
        best    == SelectInSeq(like, LAMBDA b : \A k \in DOMAIN like : Size(like[k]) <= Size(b))
    IN  IF exact # 0 THEN modules[exact].id ELSE IF best # 0 THEN like[best].id ELSE NoId

Orchestration(hs, blocks) ==
    LET at       == SelectInSeq(hs, LAMBDA h : "orchestration" \in h.marks)
        targets  == IF at = 0 THEN <<>> ELSE hs[at].targets
        resolved == SelectSeq([k \in DOMAIN targets |-> MappedModule(blocks, targets[k])], LAMBDA id : id # NoId)
    IN  [declared |-> resolved # <<>>, ordered |-> TRUE, mappings |-> [k \in DOMAIN resolved |-> << resolved[k] >>]]

-----------------------------------------------------------------------------
(* The runtime model; a document without support modules among its blocks  *)
(* has those of its sections named so.                                     *)
ModuleNames(hs, blocks, type) ==
    LET typed == SelectSeq(blocks, LAMBDA b : b.type = type)
        named == SelectSeq(hs, LAMBDA h : "modules" \in h.marks)
    IN  IF typed # <<>> \/ type # "support_module" THEN [k \in DOMAIN typed |-> typed[k].slug]
        ELSE [k \in DOMAIN named |-> named[k].slug]

Assembled(hs, blocks, procedures) ==
    [blocks |-> [k \in DOMAIN blocks |-> blocks[k] @@ [parent |-> ParentBlock(hs, blocks, blocks[k])]],
     procedures |-> [k \in DOMAIN procedures |-> [id |-> procedures[k].id, block |-> procedures[k].block]],
     steps |-> FlattenSeq([k \in DOMAIN procedures |-> StepsOf(procedures[k])]),
     orchestration |-> Orchestration(hs, blocks),
     support |-> ModuleNames(hs, blocks, "support_module"),
     followup |-> ModuleNames(hs, blocks, "followup_module")]

Model(hs, blocks, workflows, sections) ==
    Assembled(hs, blocks, Procedures(hs, blocks, workflows, sections))
ModelOf(hs, workflows, sections) == Model(hs, Blocks(hs, workflows, sections), workflows, sections)
RuntimeModel(doc) == ModelOf(doc.headings, Workflows(doc), Sections(doc.headings))

(* What a semantic compile is grounded in: the model, and what each name   *)
(* the provider uses stands for in it.                                     *)
Contract(r, match) ==
    [blocks |-> [k \in DOMAIN r.blocks |->
        [NewBlock(r.blocks[k].id, r.blocks[k].type) EXCEPT !.isDefault = r.blocks[k].isDefault, !.refs = r.blocks[k].refs]],
     procedures |-> r.procedures,
     steps |-> [k \in DOMAIN r.steps |->
        [id |-> r.steps[k].id, procedure |-> r.steps[k].procedure, titled |-> TRUE, asks |-> FALSE,
         order |-> r.steps[k].order, mode |-> r.steps[k].mode, bundled |-> r.steps[k].bundled, refs |-> r.steps[k].refs]],
     orchestration |-> r.orchestration, match |-> match]
=============================================================================
