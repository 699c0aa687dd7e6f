----------------------- MODULE InstructionUnderstanding -----------------------
(***************************************************************************)
(* The compiled understanding of one application's instructions: records   *)
(* kept in the memory of the app backend, the active one among them, its   *)
(* review, approval and revision, and the snapshot files that survive a    *)
(* restart.  The handlers run on the event loop from end to end, so each   *)
(* is one step; the Builder edits instructions and documents in between.   *)
(***************************************************************************)
EXTENDS SemanticCompile, DeterministicContract, Naturals, FiniteSets, Sequences, SequencesExt

CONSTANTS
  Texts,      \* instruction texts, as their hashes tell them apart
  Catalogs,   \* document catalogs, likewise
  MaxRecords, \* bound: records ever compiled
  MaxCode,    \* bound: versions of the backend's parser
  Documents,  \* what instructions say, as the deterministic parser reads them
  Provided,   \* answers of the compiler: [p, doc, match], its candidate, the document,
              \* and what the names it uses stand for in that document
  Nothing

ASSUME BoundsAssumption == MaxRecords \in Nat /\ MaxCode \in Nat \ {0}

VARIABLES
  source,   \* the instructions and documents in the Builder, the deployed parser
  compiled, \* the records in memory
  active,   \* the id of the active one, or 0
  count,    \* ids given out so far: a later record has a larger one
  review,   \* the active review, or Nothing
  approval, \* the active approval, or Nothing
  revision, \* the active revision, or Nothing
  disk,     \* the snapshot at the requested root and at the fallback root
  last      \* the last record that was published, and whether it reached the disk

vars == <<source, compiled, active, count, review, approval, revision, disk, last>>

Inputs == [text : Texts, catalog : Catalogs, code : 1..MaxCode]
Record == [id : 1..MaxRecords, of : Inputs, attached : BOOLEAN, valid : BOOLEAN, sound : BOOLEAN]
Roots  == {"primary", "fallback"}

ASSUME NothingAssumption == Nothing \notin Record

TheActive == CHOOSE r \in compiled : r.id = active
HasActive == active # 0

(*------------------------- reading what is there --------------------------*)

\* evaluate_instruction_understanding_cache: the first difference that it meets.
CacheStatus ==
  CASE ~HasActive                                  -> "missing"
    [] HasActive /\ TheActive.of.text # source.text -> "stale_instructions"
    [] OTHER                                       ->
         IF TheActive.of.code # source.code THEN "stale_parser_contract"
         ELSE IF TheActive.of.catalog # source.catalog THEN "stale_resource_catalog" ELSE "hot"

\* _select_current_review: a review is shown beside the record whose inputs it saw.
ShownReview ==
  IF review # Nothing /\ HasActive /\ review.saw = TheActive.of THEN review ELSE Nothing

\* Mutant: the requested root first, however old its snapshot.
PrimaryFirst ==
  LET valid == {root \in Roots : disk[root] # Nothing /\ disk[root].valid}
  IN IF valid = {} THEN Nothing ELSE IF "primary" \in valid THEN disk["primary"] ELSE disk["fallback"]

\* _hydrate_compiled_from_snapshot: the newest readable and validated snapshot.
Snapshot ==
  LET valid == {disk[root] : root \in {x \in Roots : disk[x] # Nothing /\ disk[x].valid}}
  IN IF valid = {} THEN Nothing ELSE CHOOSE r \in valid : \A q \in valid : q.id <= r.id

\* restore_compiled: what is restored replaces its namesake and drops the review.
Restored(records) == {r \in records : r.id # Snapshot.id} \cup {Snapshot}

\* Every look at an application without an active record tries the snapshots:
\* the detail, the status, a chat turn.
Hydrate ==
  /\ ~HasActive /\ Snapshot # Nothing
  /\ compiled' = Restored(compiled)
  /\ active' = Snapshot.id
  /\ review' = Nothing
  /\ UNCHANGED <<source, count, approval, revision, disk, last>>

(*------------------------------- compiling --------------------------------*)


\* A document whose parser has one answer to everything: no title is part of another,
\* no mode names two sections, and no step of a list has the number of another.
Numbered(steps) == \A i, j \in DOMAIN steps : steps[i].order = steps[j].order => i = j
Plain(doc) ==
  LET hs     == doc.headings
      titles == SelectSeq(hs, LAMBDA h : ~IsStep(h))
      Means(mode) == {i \in DOMAIN titles : Alike(titles[i].title, mode.name)}
  IN /\ \A i, j \in DOMAIN titles : Alike(titles[i].title, titles[j].title) => i = j
     /\ \A i, j \in DOMAIN doc.modes : Alike(doc.modes[i].name, doc.modes[j].name) => i = j
     /\ \A mode \in ToSet(doc.modes) : Cardinality(Means(mode)) <= 1
     /\ \A w \in ToSet(Workflows(doc)) : Numbered(w.steps)
     /\ \A i \in DOMAIN hs : Numbered(Section(hs, i).steps)

\* What the planner relies on in the runtime model r that was parsed of a document.
Unique(s) == \A i, j \in DOMAIN s : s[i].id = s[j].id => i = j
KeepsWorkflow(r, w) ==
  LET steps == SelectSeq(r.steps, LAMBDA s : s.procedure = ProcedureOf(w.id))
  IN [i \in DOMAIN steps |-> steps[i].id] = [i \in DOMAIN w.steps |-> w.steps[i].id]
ParsedIsSound(doc, r) ==
  /\ \A s \in Steps(r) : /\ s.procedure \in ProcedureIds(r)
                         /\ s.module \in ToSet(r.support) \cup ToSet(r.followup) \cup {NoId}
  /\ \A q \in ToSet(r.procedures) : q.block \in Ids(r.blocks)
  /\ \A b \in ToSet(r.blocks) : b.parent \in Ids(r.blocks) \cup {NoId}
  /\ \A mapping \in Mappings(r) : ToSet(mapping) \subseteq ModuleIds(r)
  /\ Plain(doc) => /\ Unique(r.blocks) /\ Unique(r.procedures) /\ Unique(r.steps)
                   /\ \A w \in ToSet(Workflows(doc)) : KeepsWorkflow(r, w)
                   /\ \A s \in Steps(r) : s.mode = "bundled" => BundleIsWhole(r, s)

Unattached(doc) ==
  [attached |-> FALSE, valid |-> FALSE, sound |-> ParsedIsSound(doc, RuntimeModel(doc))]

\* What becomes of a candidate: it is grounded, validated and, where it is valid,
\* made the runtime model that the planner reads.  A title that the parser warns of
\* is an error of any candidate.
Attached(valid, sound) == [attached |-> TRUE, valid |-> valid, sound |-> valid /\ sound]
Judged(c, d) == Attached(~Ambiguous(c.doc) /\ Validates(c.p, d), RuntimeIsSound(c.p, Runtime(c.p, d)))
Outcome(c) == Judged(c, Contract(RuntimeModel(c.doc), c.match))

\* The compiler is absent, answers with a candidate, or raises.
WithoutCompiler == {Unattached(doc) : doc \in Documents}
Outcomes == WithoutCompiler \cup {Attached(FALSE, FALSE)} \cup {Outcome(c) : c \in Provided}

\* A record of what a compilation of the instructions as they are now came to.
NewRecord(outcome) ==
  [id |-> count + 1, of |-> source,
   attached |-> outcome.attached, valid |-> outcome.valid, sound |-> outcome.sound]

\* _should_publish_compiled_record.
Publishes(outcome) == ~outcome.attached \/ outcome.valid

\* What a failed write leaves of the file of a root, which it opens and rewrites in
\* place: the old snapshot, one that cannot be read, or, where only the summary beside
\* it could not be written, the new one.
Broken(root, record) == {disk[root], Nothing, record}

\* _write_snapshots: the requested root, the fallback where that cannot be
\* written, and an error where neither can.
WriteSnapshot(record) ==
  \E written \in Roots \cup {"none"},
     primary \in Broken("primary", record), fallback \in Broken("fallback", record) :
    /\ disk' = [root \in Roots |->
                  CASE root = written                            -> record
                    [] root = "primary" /\ written # root        -> primary
                    [] root = "fallback" /\ written = "primary"  -> disk[root]
                    [] root = "fallback" /\ written = "none"     -> fallback]
    /\ last' = [id |-> record.id, valid |-> record.valid, saved |-> written # "none"]

\* Mutant: a new record leaves the review of the old one active.
KeepReview(record) ==
  /\ compiled' = compiled \cup {record}
  /\ active' = record.id
  /\ UNCHANGED review

\* save_compiled of a record that is published: it alone is active.
Activate(record) ==
  /\ compiled' = compiled \cup {record}
  /\ active' = record.id
  /\ review' = Nothing

\* compile_instruction_understanding, of the instructions as they are now.
Compile(outcome) ==
  LET record == NewRecord(outcome)
  IN /\ count < MaxRecords
     /\ count' = count + 1
     /\ IF Publishes(outcome)
        THEN Activate(record) /\ WriteSnapshot(record)
        ELSE /\ compiled' = compiled \cup {record}
             /\ UNCHANGED <<active, review, disk, last>>

\* The recompile endpoint.  Its status looks at the snapshots where the attempt
\* left no record active.
Recompile ==
  /\ \E outcome \in Outcomes :
       IF Publishes(outcome) \/ HasActive \/ Snapshot = Nothing
       THEN Compile(outcome)
       ELSE /\ count < MaxRecords
            /\ count' = count + 1
            /\ compiled' = Restored(compiled \cup {NewRecord(outcome)})
            /\ active' = Snapshot.id
            /\ review' = Nothing
            /\ UNCHANGED <<disk, last>>
  /\ UNCHANGED <<source, approval, revision>>

(*-------------------- reviewing, approving and revising -------------------*)

\* The review endpoint: a malformed answer is a failed review.
Review ==
  /\ HasActive
  /\ \E ok \in BOOLEAN : review' = [of |-> active, saw |-> TheActive.of, ok |-> ok]
  /\ UNCHANGED <<source, compiled, active, count, approval, revision, disk, last>>

\* With nothing to review, and no snapshot, it compiles without a compiler first.
CompileAndReview ==
  /\ ~HasActive /\ Snapshot = Nothing /\ count < MaxRecords
  /\ count' = count + 1
  /\ active' = count'
  /\ \E outcome \in WithoutCompiler :
       /\ compiled' = compiled \cup {NewRecord(outcome)}
       /\ WriteSnapshot(NewRecord(outcome))
  /\ \E ok \in BOOLEAN : review' = [of |-> count', saw |-> source, ok |-> ok]
  /\ UNCHANGED <<source, approval, revision>>

\* approve_instruction_understanding_findings: the active review, whatever it saw.
Approve ==
  /\ HasActive /\ review # Nothing
  /\ approval' = [compiled |-> active, reviewed |-> review.of, ok |-> review.ok]
  /\ UNCHANGED <<source, compiled, active, count, review, revision, disk, last>>

\* revise_instruction_understanding: kept as a draft, never made active.
Revise ==
  /\ HasActive /\ approval # Nothing
  /\ \E valid \in BOOLEAN :
       revision' = [compiled |-> active, approved |-> approval.compiled, valid |-> valid]
  /\ UNCHANGED <<source, compiled, active, count, review, approval, disk, last>>

(*------------------------------ the surroundings --------------------------*)

EditSource ==
  /\ \E text \in Texts, catalog \in Catalogs :
       source' = [source EXCEPT !.text = text, !.catalog = catalog]
  /\ UNCHANGED <<compiled, active, count, review, approval, revision, disk, last>>

\* Everything but the snapshots is gone; the backend may come back as a newer one.
Restart ==
  /\ \E code \in {source.code, source.code + 1} \cap 1..MaxCode :
       source' = [source EXCEPT !.code = code]
  /\ compiled' = {} /\ active' = 0
  /\ review' = Nothing /\ approval' = Nothing /\ revision' = Nothing
  /\ UNCHANGED <<count, disk, last>>

Init ==
  /\ \E text \in Texts, catalog \in Catalogs :
       source = [text |-> text, catalog |-> catalog, code |-> 1]
  /\ compiled = {} /\ active = 0 /\ count = 0
  /\ review = Nothing /\ approval = Nothing /\ revision = Nothing
  /\ disk = [root \in Roots |-> Nothing]
  /\ last = [id |-> 0, valid |-> FALSE, saved |-> FALSE]

Next ==
  \/ Hydrate \/ Recompile \/ Review \/ CompileAndReview \/ Approve \/ Revise
  \/ EditSource \/ Restart

Spec == Init /\ [][Next]_vars

(*------------------------------- properties ------------------------------*)

\* Every variable has its type, and the active record is one that is kept.
TypeOK ==
  /\ source \in Inputs /\ compiled \subseteq Record /\ count \in 0..MaxRecords
  /\ active \in {0} \cup {r.id : r \in compiled}
  /\ review \in {Nothing} \cup [of : 1..MaxRecords, saw : Inputs, ok : BOOLEAN]
  /\ approval \in {Nothing} \cup [compiled : 1..MaxRecords, reviewed : 1..MaxRecords, ok : BOOLEAN]
  /\ revision \in {Nothing} \cup [compiled : 1..MaxRecords, approved : 1..MaxRecords, valid : BOOLEAN]
  /\ disk \in [Roots -> Record \cup {Nothing}]
  /\ last \in [id : 0..MaxRecords, valid : BOOLEAN, saved : BOOLEAN]

\* What the planner runs on came of a candidate that passed the validation or, without
\* a compiler, of the parser, and is a model the planner can follow: every route leads
\* to a block there is, every bundled step to its whole bundle, every gate to its steps,
\* and no step that was declared got lost on the way.  A restart brings back no other.
WhatRunsIsSound ==
  HasActive => TheActive.sound /\ (TheActive.attached => TheActive.valid)

\* Approved findings are findings about the very record they are approved for, and
\* the review that is shown beside a record, by the hashes it saw, is of that record.
ApprovalIsOfReviewed ==
  /\ approval # Nothing => approval.reviewed = approval.compiled
  /\ ShownReview # Nothing => ShownReview.of = active

\* A validated record that reached the disk is the one a restart brings back,
\* whichever of the two roots it went to, and however often it was restarted; and
\* what is brought back shows as hot only where compiling again would start from the
\* same instructions, documents and parser.
RestartKeepsPublished ==
  /\ (last.valid /\ last.saved /\ HasActive) => active = last.id
  /\ CacheStatus = "hot" => TheActive.of = source
=============================================================================
