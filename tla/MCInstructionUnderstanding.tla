---------------------- MODULE MCInstructionUnderstanding ----------------------
EXTENDS InstructionUnderstanding, Integers, Sequences, TLC

CONSTANTS t1, t2, c1

Coach == "support_module:coach"

(* Candidates for an application with a workflow "study" of two or three   *)
(* steps, a support module Coach and a follow-up module "extra", with    *)
(* what a compiler may get wrong in each part.                             *)
PlainStep(id, mode, bundled) ==
    [id |-> id, procedure |-> NoId, titled |-> TRUE, asks |-> FALSE, order |-> Unordered,
     mode |-> mode, bundled |-> bundled, refs |-> <<>>]
FlatStep(id, procedure, mode, bundled) ==
    [PlainStep(id, mode, bundled) EXCEPT !.procedure = procedure, !.order = 4]
Owner(id, type, steps) ==
    [id |-> id, type |-> type, isDefault |-> FALSE, policy |-> FALSE, section |-> FALSE,
     procedure |-> NoId, sequence |-> <<>>, steps |-> steps, refs |-> <<>>]
Route(workflow, module, role, logic) ==
    [workflow |-> workflow, module |-> module, modules |-> <<>>, role |-> role, logic |-> logic]

AskStep == [PlainStep("ask", NoId, <<>>) EXCEPT !.asks = TRUE]
Draft   == PlainStep("draft", "bundled", <<"refine">>)
Undeclared == [declared |-> FALSE, ordered |-> TRUE, mappings |-> <<>>]
Mapped(modules) == [declared |-> TRUE, ordered |-> TRUE, mappings |-> << modules >>]

Base(mode, nested, flat, rules, logics) ==
    [mode |-> mode, default |-> NoId,
     workflows |-> << [Owner("study", NoId, nested) EXCEPT !.isDefault = TRUE] >>,
     support |-> << Owner(Coach, "support_module", << PlainStep("warmUp", NoId, <<>>) >>) >>,
     followup |-> << Owner("extra", "followup_module", <<>>) >>,
     modules |-> <<>>, blocks |-> <<>>, procedures |-> <<>>, steps |-> flat, gates |-> <<>>,
     rules |-> rules, logics |-> logics, orchestration |-> Undeclared,
     roles |-> << [id |-> "tutor", default |-> NoId, workflows |-> {}, modules |-> {Coach}] >>]

Talk == [id |-> "talk", rich |-> TRUE, rules |-> << Route(NoId, "ghost", NoId, NoId) >>,
         workflow |-> NoId, module |-> NoId]

Candidates ==
    {Base(mode, nested, flat, rules, logics) :
       mode   \in {NoId, Single, Multi, ByLogic},
       nested \in {<< AskStep, Draft >>, << AskStep, AskStep >>, <<>>},
       flat   \in {<<>>, << FlatStep("refine", "study", "bundled", <<>>) >>,
                   << FlatStep("refine", "lost", "bundled", <<>>) >>},
       rules  \in {<<>>, << Route(NoId, "ghost", NoId, NoId) >>, << Route("study", NoId, "tutor", NoId) >>,
                   << Route("ghost", NoId, "tutor", NoId) >>, << Route(NoId, NoId, "tutor", "talk") >>},
       logics \in {<<>>, << Talk >>}}

Rearranged ==
    {[Base(mode, << AskStep, Draft >>, <<>>, IF mode = Single THEN <<>> ELSE << Route("study", NoId, NoId, NoId) >>, <<>>)
        EXCEPT !.workflows[1].sequence = sequence, !.orchestration = orchestration, !.gates = gates,
               !.support[1].policy = policy, !.followup = <<>>, !.blocks = blocks,
               !.modules = << Owner("extra", "followup_module", << PlainStep(NoId, "bundled", <<>>) >>) >>] :
       mode     \in {Single, Multi, ByLogic},
       sequence \in {<<>>, << "draft", "ask" >>, << "ask" >>, << "ask", "nowhere" >>},
       orchestration \in {Undeclared, Mapped(<< Coach >>), Mapped(<< "ghost" >>)},
       gates    \in {<<>>, << [procedure |-> "study", asked |-> "ask", opened |-> "lost"] >>},
       policy   \in BOOLEAN,
       blocks   \in {<<>>, << [NewBlock("study", "primary_workflow") EXCEPT !.isDefault = TRUE] >>}}

-----------------------------------------------------------------------------
(* Documents: a workflow "study" and a module "coach", told in every way   *)
(* the parser has, beside a second heading that is like the first, a       *)
(* follow-up module, an orchestration and a mode.                          *)
Line(n, signal, files, names) ==
    [n |-> n, label |-> FALSE, files |-> files, signal |-> signal, names |-> names]
Heading(level, title, slug, marks, body) ==
    [level |-> level, title |-> title, slug |-> slug, marks |-> marks, text |-> marks,
     line |-> Line(0, NoId, <<>>, {}), body |-> body, targets |-> <<>>]
StepHeading(level, n, signal) ==
    [Heading(level, {"step", signal}, signal, {}, << Line(0, NoId, << "notes" >>, {}) >>)
       EXCEPT !.line = Line(n, signal, <<>>, {"coach"})]

Asks  == Line(1, "asks", <<>>, {})
Makes(n) == Line(n, "makes", <<>>, {"coach"})
Needs(file) == Line(0, NoId, << file >>, {})
Steps3 == << Asks, Makes(2), Needs("guide"), Makes(3) >>
Flow  == [Line(0, NoId, <<>>, {}) EXCEPT !.label = TRUE]

Study(title, marks, body) == Heading(1, title, "study", marks, body)
Told ==
    {<< Study({"study"}, {"workflow"}, Steps3) >>,
     << Study({"study"}, {"workflow"}, << Makes(1), Makes(2), Asks, Makes(1) >>) >>,
     << Study({"study"}, {"workflow"}, << Needs("rubric") >>), StepHeading(2, 1, "makes"), StepHeading(2, 2, "makes"),
        StepHeading(2, 3, "asks") >>,
     << Study({"study"}, {}, << Makes(1), Needs("guide") >>) >>,
     << Heading(1, {"notes"}, "notes", {"output"}, <<>>), [Study({"study"}, {"workflow"}, Steps3) EXCEPT !.level = 2] >>,
     << Study({"study"}, {"workflow", "module"}, Steps3) >>}
Likewise ==
    {<<>>, << Heading(1, {"study", "plan"}, "study_plan", {"workflow"}, << Makes(1), Asks >>) >>,
     << Heading(1, {"essay"}, "essay", {"narrative"}, << Makes(1), Makes(2) >>) >>}
CoachHeading(body) == Heading(1, {"coach"}, "coach", {"module", "support", "modules"}, body)
Coached ==
    {<<>>, << CoachHeading(<< Needs("rubric"), Line(1, "asks", <<>>, {}), Needs("guide") >>) >>,
     << CoachHeading(<< Asks, Flow, Makes(1), Makes(2) >>) >>,
     << CoachHeading(<<>>), Heading(2, {"flow"}, "flow", {"flow"}, <<>>), StepHeading(3, 1, "makes"), StepHeading(3, 2, "makes") >>}
Followed ==
    {<<>>, << Heading(1, {"extra"}, "extra", {"module", "followup"}, << Asks, Makes(2) >>),
              [Heading(1, {"orchestration"}, "orchestration", {"module", "orchestration"}, <<>>)
                 EXCEPT !.targets = << {"coach"}, {"coach", "more"}, {"nobody"} >>] >>}
Modes == {<<>>, << [id |-> "m1", name |-> {"study"}, triggers |-> TRUE] >>}

ReadDocuments ==
    {[headings |-> told \o like \o coached \o followed, modes |-> modes] :
       told \in Told, like \in Likewise, coached \in Coached, followed \in Followed, modes \in Modes}

(* What the compiler may be grounded in, and what the name "ghost" stands  *)
(* for there: nothing, the module that the parser knows the steps of, or a *)
(* workflow it has files for.                                              *)
Empty == [headings |-> <<>>, modes |-> <<>>]
OfCoach == [headings |-> << CoachHeading(<< Needs("rubric"), Asks, Needs("guide") >>) >>, modes |-> <<>>]
OfStudy == [headings |-> << Study({"study"}, {"workflow", "module"}, Steps3) >>, modes |-> <<>>]
Nobody == [x \in {} |-> NoMatch]
Ghost(kind, id, files) == "ghost" :> [kind |-> kind, id |-> id, files |-> files]
Answers ==
    {[doc |-> Empty, match |-> Nobody], [doc |-> OfStudy, match |-> Nobody],
     [doc |-> OfCoach, match |-> Ghost("module", Coach, <<>>)],
     [doc |-> Empty, match |-> Ghost("workflow", "chat", << "guide", "rubric" >>)]}

ProvidedModels ==
    {a @@ [p |-> p] : p \in Candidates, a \in Answers}
        \cup {[p |-> p, doc |-> Empty, match |-> Nobody] : p \in Rearranged}
===============================================================================
