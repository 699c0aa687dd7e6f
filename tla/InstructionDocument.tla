------------------------- MODULE InstructionDocument -------------------------
(***************************************************************************)
(* What the deterministic parser finds in an application's instructions: a *)
(* document of headings, the steps written under them, the modules and the *)
(* workflows (load_template_registry.py).                                  *)
(*   doc       [headings, modes]                                           *)
(*   heading   [level, title, slug, marks, text, line, body, targets]; a   *)
(*             title is its set of words; `marks`: the tokens found in it, *)
(*             `text`: those found in title or body; `line`: the title as  *)
(*             a line, numbered when it says "Step n"; `targets`: what the *)
(*             arrows in the body of a module orchestration point at       *)
(*   line      [n, label, files, signal, names]; `n`: the number it opens  *)
(*             a step with, or 0; `label`: it announces the steps;         *)
(*             `signal`: asks the user, makes something; `names`: the      *)
(*             sections it speaks of                                       *)
(*   mode      [id, name, triggers]: an entry of the mode detection        *)
(***************************************************************************)
LOCAL INSTANCE Integers
LOCAL INSTANCE Sequences
LOCAL INSTANCE SequencesExt
LOCAL INSTANCE FiniteSetsExt
LOCAL INSTANCE ProviderModel

Distinct(s) == FoldLeft(LAMBDA found, e : IF Contains(found, e) THEN found ELSE Append(found, e), <<>>, s)
FilesOf(lines) == Distinct(FlattenSeq([i \in DOMAIN lines |-> lines[i].files]))
Where(s, P(_)) == SelectSeq([i \in DOMAIN s |-> i], P)
FirstOf(steps, others) == IF steps # <<>> THEN steps ELSE others
Alike(title, name) == title \subseteq name \/ name \subseteq title

IsStep(h) == h.line.n # 0
IsModule(h) == h.marks \cap {"support", "followup"} # {}
DeclaredType(h) ==
    IF {"module", "workflow"} \subseteq h.marks THEN "ambiguous"
    ELSE IF "module" \in h.marks THEN "module"
    ELSE IF "workflow" \in h.marks THEN "workflow" ELSE NoId

(* A title that parts of two types claim, which the compiler warns of. *)
Ambiguous(doc) == \E h \in ToSet(doc.headings) : DeclaredType(h) = "ambiguous"

-----------------------------------------------------------------------------
(* The tree of the headings, by their levels. *)
Parent(hs, i) == LET above == {j \in 1..(i - 1) : hs[j].level < hs[i].level}
                 IN  IF above = {} THEN 0 ELSE Max(above)
Children(hs, i) == Where(hs, LAMBDA j : Parent(hs, j) = i)
Under(hs, i) == {j \in DOMAIN hs : j > i /\ \A k \in (i + 1)..j : hs[k].level > hs[i].level}

-----------------------------------------------------------------------------
(* Steps.  The files of a step are those of the lines below its first.     *)
Signal(lines) ==
    LET signals == {lines[i].signal : i \in DOMAIN lines}
    IN  IF "asks" \notin signals /\ "makes" \in signals THEN "bundled" ELSE "interactive"
ReadStep(line, body) ==
    [order |-> line.n, mode |-> Signal(<<line>> \o body), refs |-> FilesOf(body),
     names |-> line.names \cup UNION {body[i].names : i \in DOMAIN body}]

NumberedSteps(lines) ==
    LET at == Where(lines, LAMBDA i : lines[i].n # 0)
        End(k) == IF k = Len(at) THEN Len(lines) ELSE at[k + 1] - 1
    IN  [k \in DOMAIN at |-> ReadStep(lines[at[k]], SubSeq(lines, at[k] + 1, End(k)))]

(* A module's steps: those below a label that announces some, else all.    *)
ModuleSteps(lines) ==
    LET After(i) == NumberedSteps(SubSeq(lines, i + 1, Len(lines)))
        label == SelectInSeq([i \in DOMAIN lines |-> lines[i].label /\ After(i) # <<>>], LAMBDA x : x)
    IN  IF label = 0 THEN NumberedSteps(lines) ELSE After(label)

StepsAt(hs, indices) == [k \in DOMAIN indices |-> ReadStep(hs[indices[k]].line, hs[indices[k]].body)]
HeadingSteps(hs, i) == StepsAt(hs, SelectSeq(Children(hs, i), LAMBDA j : IsStep(hs[j])))

(* The step headings of a module, below those that announce a flow where   *)
(* there are any; the modules and the steps inside them are not entered.   *)
NestedSteps(hs, i) ==
    LET flows == Where(hs, LAMBDA j : j \in Under(hs, i) /\ "flow" \in hs[j].marks)
        roots == IF flows = <<>> THEN <<i>> ELSE flows
        Shut(j) == IsStep(hs[j]) \/ IsModule(hs[j])
        Reached(root, j) == /\ j \in Under(hs, root) /\ IsStep(hs[j]) /\ ~IsModule(hs[j])
                            /\ \A k \in Under(hs, root) : j \in Under(hs, k) => ~Shut(k)
    IN  FlattenSeq([k \in DOMAIN roots |-> StepsAt(hs, Where(hs, LAMBDA j : Reached(roots[k], j)))])

-----------------------------------------------------------------------------
(* Modules: a file that a step names is the step's. *)
Section(hs, i) ==
    LET steps  == FirstOf(ModuleSteps(hs[i].body), NestedSteps(hs, i))
        owned  == UNION {ToSet(steps[k].refs) : k \in DOMAIN steps}
    IN  [slug |-> hs[i].slug, title |-> hs[i].title, steps |-> steps,
         refs |-> SelectSeq(FilesOf(hs[i].body), LAMBDA f : f \notin owned)]
Sections(hs) ==
    LET at == Where(hs, LAMBDA i : IsModule(hs[i]))
    IN  [k \in DOMAIN at |-> Section(hs, at[k])]

(* The module that a step speaks of, or shares files with: its name counts *)
(* for more.                                                               *)
SupportOf(step, sections) ==
    LET Score(x) == (IF x.slug \in step.names THEN 2 ELSE 0)
                      + (IF ToSet(step.refs) \cap ToSet(x.refs) # {} THEN 1 ELSE 0)
        best == SelectInSeq(sections, LAMBDA x : Score(x) > 0 /\ \A k \in DOMAIN sections : Score(sections[k]) <= Score(x))
    IN  IF best = 0 THEN NoId ELSE sections[best].slug

-----------------------------------------------------------------------------
(* Workflows: those of the modes, by the first heading with a name like    *)
(* theirs, then the headings that read like procedures.                    *)
WorkflowSteps(id, steps, sections) ==
    [k \in DOMAIN steps |-> [id |-> StepId(id, steps[k].order), order |-> steps[k].order, mode |-> steps[k].mode,
                             refs |-> steps[k].refs, module |-> SupportOf(steps[k], sections)]]

WorkflowText(hs, i) == FirstOf(HeadingSteps(hs, i), NumberedSteps(hs[i].body))

AddWorkflowAt(found, heading, id, name, triggers, steps) ==
    IF steps = <<>> THEN found
    ELSE [found EXCEPT
           !.list = Append(@, [id |-> id, title |-> name, triggers |-> triggers,
                               steps |-> WorkflowSteps(id, steps, found.sections)]),
           !.seen = @ \cup {name, heading.title}]

AddMode(found, hs, mode) ==
    LET i == SelectInSeq(hs, LAMBDA h : Alike(h.title, mode.name))
    IN  IF \/ mode.name = {} \/ i = 0 \/ DeclaredType(hs[i]) \in {"module", "ambiguous"}
           \/ hs[i].body = <<>>
        THEN found
        ELSE AddWorkflowAt(found, hs[i], mode.id, mode.name, mode.triggers, WorkflowText(hs, i))

ReadsAsProcedure(h) == /\ "narrative" \in h.text /\ ~IsStep(h)
                       /\ h.marks \cap {"support", "deliverable", "starter", "binding", "rules"} = {}
HoldsNoProcedure(h) == \/ IsStep(h) \/ h.marks \cap {"modules", "index"} # {}
                       \/ h.text \cap {"followup", "output"} # {}
Promoted(hs, i) ==
    LET parent == Parent(hs, i)
    IN  /\ \/ DeclaredType(hs[i]) = "workflow"
           \/ DeclaredType(hs[i]) = NoId /\ ReadsAsProcedure(hs[i])
        /\ parent # 0 => ~HoldsNoProcedure(hs[parent])

AddNarrative(found, hs, i) ==
    IF ~Promoted(hs, i) \/ hs[i].title \in found.seen THEN found
    ELSE AddWorkflowAt(found, hs[i], hs[i].slug, hs[i].title, FALSE, WorkflowText(hs, i))

Workflows(doc) ==
    LET Mode(found, mode) == AddMode(found, doc.headings, mode)
        Heading(found, i) == AddNarrative(found, doc.headings, i)
        none  == [list |-> <<>>, seen |-> {}, sections |-> Sections(doc.headings)]
    IN  FoldLeftDomain(Heading, FoldLeft(Mode, none, doc.modes), doc.headings).list
=============================================================================
