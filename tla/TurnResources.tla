---------------------------- MODULE TurnResources ----------------------------
(***************************************************************************)
(* What a planned turn reads.  planner.run asks for resources on behalf of *)
(* the step, the module, the bindings that match the turn and the user's   *)
(* uploads; retrieve.py loads them, unless an artifact gate blocks it.     *)
(* The operators are those nodes' functions over a turn `t` of             *)
(* TurnPlanning and what the session keeps of files,                       *)
(*   u = [uploads, events, active, bindings, gates]                        *)
(* the uploads (sequence of [id, file, role]), the ids of those sent with  *)
(* the turn, active_session_upload_ids, active_binding_ids and             *)
(* artifact_gate_status (sequence of [key, binding, role, required,        *)
(* satisfied, status, uploads]).  An identifier stands for all its spellings (slug, stem,     *)
(* title, prefixed id), and a step's activation lists the step's own files.*)
(***************************************************************************)
EXTENDS TurnPlanning

CONSTANTS
    Library,    \* the compiled model's resources: [resources: Seq of [id, file,
                \* domain], bindings: Seq of Binding, groups: Seq of [id,
                \* resources], steps: Seq of [id, refs, bundled, block], modules:
                \* Seq of [id, triggers, files, resources], under: set of <<block,
                \* binding>>, documents, vector: sets of files]
    Asks,       \* what the next turn may be: [words, shadow]
    Holdings    \* what the session may hold of files and bindings then

Roles == {"instruction_source", "output_template", "knowledge_source", "output_artifact"}
(* What the compiler makes: a resource or binding has an id and a role, and *)
(* two resources have two ids.                                              *)
ASSUME LibraryIsCompiled ==
    /\ \A s \in {Library.resources, Library.bindings, Library.groups, Library.steps, Library.modules} : List(s)
    /\ \A r \in ToSet(Library.resources) : r.id # None /\ r.domain \in Roles
    /\ \A i, j \in DOMAIN Library.resources : Library.resources[i].id = Library.resources[j].id => i = j
    /\ \A b \in ToSet(Library.bindings) :
          List(b.groups) /\ List(b.resources) /\ b.id # None /\ b.kind \in Roles /\ b.priority \in Int
    /\ \A g \in ToSet(Library.groups) : List(g.resources)
    /\ \A s \in ToSet(Library.steps) : List(s.refs) /\ List(s.bundled) /\ List(s.block)
    /\ \A x \in ToSet(Library.modules) : List(x.files) /\ List(x.resources)
ASSUME HoldingsAreLists ==
    \A u \in Holdings :
        /\ List(u.uploads) /\ List(u.active) /\ List(u.bindings) /\ List(u.gates)
        /\ \A g \in ToSet(u.gates) : List(g.uploads)
Guidance == {"instruction_source", "output_template"}

NoResource == [id |-> None, file |-> None, domain |-> None]
NoStepFiles == [id |-> None, refs |-> <<>>, bundled |-> <<>>, block |-> <<>>]
NoModule == [id |-> None, triggers |-> {}, files |-> <<>>, resources |-> <<>>]
NoGate == [key |-> None, binding |-> None, role |-> None, required |-> FALSE, satisfied |-> FALSE,
           status |-> None, uploads |-> <<>>]
Request == [role |-> None, id |-> None, file |-> None, binding |-> None, group |-> None,
            artifact |-> None, required |-> FALSE, purpose |-> None]

Some(id) == IF id = None THEN <<>> ELSE <<id>>
(* SelectSeq by positions, which proofs can reason about. *)
Select(s, P(_)) == Sub(s, {i \in DOMAIN s : P(s[i])})
(* The elements of s with a key no earlier element has. *)
KeepFirst(s, K(_)) == Sub(s, {i \in DOMAIN s : \A j \in DOMAIN s : j < i => K(s[j]) # K(s[i])})
Map(s, F(_)) == [i \in DOMAIN s |-> F(s[i])]
FlatMap(s, F(_)) == FlattenSeq(Map(s, F))

ResourceById(id) == FirstOr(Library.resources, LAMBDA r : r.id = id /\ id # None, NoResource)
ResourceByFile(file) == FirstOr(Library.resources, LAMBDA r : r.file = file /\ file # None, NoResource)
ResourcesOf(domain) == Select(Library.resources, LAMBDA r : r.domain = domain)
StepFiles(id) == FirstOr(Library.steps, LAMBDA s : s.id = id /\ id # None, NoStepFiles)
ModuleFiles(id) == FirstOr(Library.modules, LAMBDA x : x.id = id /\ id # None, NoModule)
Group(id) == FirstOr(Library.groups, LAMBDA g : g.id = id, [id |-> id, resources |-> <<>>])

(* _service_block_has_step_resource_mapping *)
HasStepFiles(m, block) ==
    \E s \in ToSet(ProcedureSteps(m, ProcedureOfBlock(m, block).id)) :
        ProcedureOfBlock(m, block) # NoProcedure
            /\ StepFiles(s.id).refs \o StepFiles(s.id).bundled # <<>>

-----------------------------------------------------------------------------
(* Which bindings match a turn.  A binding is [id, meta, scope, phase,     *)
(* order, trigger, signals, priority, groups, resources, kind, role,       *)
(* patterns, required]: meta and phase when its id, its scope, start with  *)
(* "phase:"; kind is the role its resource kind stands for.                *)
Continues(t) == \/ t.words = {}
                \/ {"context", "advance", "option"} \cap t.words # {}
                \/ RefinementFollowup(t)

(* The places the session is in or has chosen; the modules planned for the *)
(* turn count unless a step of the session is active.                      *)
Places(t, planned) ==
    ({t.ses.workflow, t.ses.block, t.ses.support, t.progress.workflow, t.wf.id, t.pick.scope}
       \cup (IF planned THEN ToSet(TargetBlocks(t) \o t.queued \o t.ses.queue) ELSE {}))
      \ {None}
ActiveOrder(t) == IF t.pick # NoPick THEN t.pick.order ELSE t.ses.order

ScopeMatches(t, b, planned) ==
    LET places == Places(t, planned)
    IN  \/ b.scope = None
        \/ places = {} /\ b.trigger \in {"starter", "artifact_gate", "command_trigger"}
        \/ b.scope \in places /\ b.order \in {NoOrder, ActiveOrder(t)}

SignalMatches(t, b) == \/ b.trigger # "command_trigger" /\ b.signals = {}
                       \/ b.signals \cap t.query # {}
Signalled(t, u, b) == \/ SignalMatches(t, b)
                      \/ Continues(t) /\ Contains(u.bindings, b.id)

(* A step with files of its own takes the place of the bindings of its     *)
(* block that are not made for a step.                                     *)
StepSpeaks(t, b) ==
    b.order = NoOrder /\
    \/ /\ Hybrid(t) /\ t.ses.scope # None /\ t.ses.block # None
       /\ b.scope = t.ses.block /\ HasStepFiles(t.m, t.ses.block)
    \/ StepFiles(t.pick.scope).refs # <<>> /\ b.phase

Priority(b) == IF b.priority = 0 THEN 100 ELSE b.priority
ByPriority(s) == Sorted(s, DOMAIN s, [i \in DOMAIN s |-> Priority(s[i])])

PhaseMatches(t, u) ==
    ByPriority(Select(Library.bindings, LAMBDA b :
        /\ b.trigger \notin {"command_trigger", "artifact_gate"}
        /\ ScopeMatches(t, b, ~(Hybrid(t) /\ t.ses.scope # None))
        /\ ~StepSpeaks(t, b)
        /\ Signalled(t, u, b)))
CommandMatches(t) ==
    ByPriority(Select(Library.bindings, LAMBDA b : b.trigger = "command_trigger" /\ SignalMatches(t, b)))
GateMatches(t, u) ==
    ByPriority(Select(Library.bindings, LAMBDA b :
        b.trigger = "artifact_gate" /\ ScopeMatches(t, b, TRUE) /\ Signalled(t, u, b)))
Matched(t, u) == PhaseMatches(t, u) \o CommandMatches(t) \o GateMatches(t, u)

-----------------------------------------------------------------------------
(* What the matched bindings ask for. *)
RoleFor(b, resource) == IF resource.domain # None THEN resource.domain ELSE b.kind
Ask(b, resource, id) ==
    [Request EXCEPT !.role = RoleFor(b, resource), !.id = id, !.file = resource.file, !.binding = b.id,
                    !.artifact = b.role, !.required = b.required, !.purpose = "binding"]
(* A group's resource is asked for even when the model has none of that id.*)
GroupRequests(b) ==
    FlatMap(b.groups, LAMBDA g :
        Map(Group(g).resources, LAMBDA id : [Ask(b, ResourceById(id), id) EXCEPT !.group = g]))
OwnRequests(b) ==
    Map(Select(b.resources, LAMBDA id : ResourceById(id) # NoResource),
        LAMBDA id : Ask(b, ResourceById(id), id))
NameOf(q) == IF q.file # None THEN q.file ELSE q.id
BindingKey(q) == <<q.binding, q.group, NameOf(q)>>

(* _artifact_gate_status: the uploads that satisfy a gate, now or else in  *)
(* the turn that satisfied it.                                             *)
GateUploads(b, u) ==
    LET found == Select(u.uploads, LAMBDA x : x.file \in b.patterns)
        own   == FirstOr(u.gates, LAMBDA g : g.key = b.id /\ b.id # None, NoGate)
        prior == IF own # NoGate THEN own
                 ELSE FirstOr(u.gates, LAMBDA g : g.key = b.role /\ g.binding \in {None, b.id}, NoGate)
    IN  IF found = <<>> /\ b.role # None /\ prior.satisfied THEN prior.uploads ELSE found

GateRequests(b, u) ==
    IF b.trigger # "artifact_gate" THEN <<>>
    ELSE Map(GateUploads(b, u), LAMBDA x :
            [Ask(b, NoResource, x.id) EXCEPT !.file = x.file, !.role = "knowledge_source",
                                             !.purpose = "session_upload"])
\* Mutant: any upload satisfies the gate.
AnyUpload(b, u) ==
    [key |-> IF b.id # None THEN b.id ELSE b.role, binding |-> b.id, role |-> b.role,
     required |-> b.required, satisfied |-> u.uploads # <<>>, status |-> None, uploads |-> u.uploads]
GateState(b, u) ==
    [key |-> IF b.id # None THEN b.id ELSE b.role, binding |-> b.id, role |-> b.role,
     required |-> b.required, satisfied |-> GateUploads(b, u) # <<>>, status |-> None,
     uploads |-> GateUploads(b, u)]

(* _derive_binding_activation *)
Activation(matched, u) ==
    [requests |-> KeepFirst(FlatMap(matched, LAMBDA b :
                               GroupRequests(b) \o OwnRequests(b) \o GateRequests(b, u)), BindingKey),
     active |-> KeepFirst(FlatMap(matched, LAMBDA b : Some(b.id)), LAMBDA id : id),
     gates |-> Map(Select(matched, LAMBDA b : b.trigger = "artifact_gate" /\ (b.id # None \/ b.role # None)),
                   LAMBDA b : GateState(b, u))]

(* _derive_binding_activation_for_scope_id: the bindings of a scope and,   *)
(* of a service block, those declared under it.                            *)
BindingsOf(m, scope, descend) ==
    LET own == Select(Library.bindings, LAMBDA b : b.scope = scope /\ scope # None)
    IN  own \o Select(Library.bindings, LAMBDA b :
                   /\ descend /\ ServiceBlock(m, scope) # NoBlock
                   /\ b.id # None /\ ~Contains(own, b) /\ <<scope, b.id>> \in Library.under)
Offered(bindings) ==
    [requests |-> KeepFirst(FlatMap(bindings, LAMBDA b : GroupRequests(b) \o OwnRequests(b)), BindingKey),
     active |-> KeepFirst(FlatMap(bindings, LAMBDA b : Some(b.id)), LAMBDA id : id)]
ForScope(m, scope, descend) == Offered(BindingsOf(m, scope, descend))

(* _followup_module_resource_requests: the files the module names, else    *)
(* the guidance its bindings ask for.                                      *)
FollowupRequests(m, block) ==
    LET named == Map(Select(ModuleFiles(block).files, LAMBDA f : ResourceByFile(f) # NoResource),
                     LAMBDA f : [Request EXCEPT !.role = RoleFor([kind |-> "instruction_source"], ResourceByFile(f)),
                                                !.id = ResourceByFile(f).id, !.file = f, !.purpose = "module"])
        bound == Select(ForScope(m, block, TRUE).requests, LAMBDA q : q.file # None /\ q.role \in Guidance)
    IN  KeepFirst(IF named # <<>> THEN named ELSE bound, LAMBDA q : <<q.role, q.file>>)

-----------------------------------------------------------------------------
(* The uploads the user means. *)
Latest(s) == IF s = <<>> THEN <<>> ELSE <<s[Len(s)]>>
Earliest(s) == IF s = <<>> THEN <<>> ELSE <<s[1]>>
PreviousUpload(u) ==
    LET at == {i \in DOMAIN u.uploads : u.active # <<>> /\ u.uploads[i].id = u.active[Len(u.active)]}
        i  == CHOOSE i \in at : TRUE
    IN  IF at # {} THEN <<u.uploads[IF i > 1 THEN i - 1 ELSE 1]>>
        ELSE IF Len(u.uploads) >= 2 THEN <<u.uploads[Len(u.uploads) - 1]>>
        ELSE u.uploads

(* The ones sent with the turn, the last one the query names, or the ones  *)
(* its words point at: the first alternative that finds any.               *)
SelectedUploads(t, u) ==
    LET sent  == Select(u.uploads, LAMBDA x : x.id \in u.events)
        named == Latest(Select(u.uploads, LAMBDA x : x.file \in t.query))
        kept  == Select(u.uploads, LAMBDA x : Contains(u.active, x.id))
        Says(word, found) == IF word \in t.query THEN found ELSE <<>>
    IN  FirstOr(<<sent, named, Says("latest", Latest(u.uploads)), Says("first", Earliest(u.uploads)),
                  Says("previous", PreviousUpload(u)), Says("artifact", kept),
                  Says("artifact", Latest(u.uploads)), Says("context", Latest(u.uploads))>>,
                LAMBDA found : found # <<>>, <<>>)

-----------------------------------------------------------------------------
(* The requests of the turn's own place (_build_execution_context and      *)
(* _build_resource_requests).  A reading `x` is what those functions have  *)
(* of a turn: the turn itself, what the session keeps of files, the block  *)
(* of the turn, the hybrid planner's module, the block the turn ends in,   *)
(* the matched bindings, and then what they make of them.                  *)
ReadingFor(t, u) ==
    [t |-> t, u |-> u, block |-> ActiveBlock(t), primary |-> PrimaryModule(t),
     final |-> ServiceBlock(t.m, WithModules(t, Context(t)).block), matched |-> Matched(t, u),
     resources |-> <<>>, bound |-> Activation(<<>>, u), module |-> Offered(<<>>),
     requests |-> <<>>, active |-> <<>>]

BundledPick(t) == Layered(t.m, t.pick).mode = "bundled"
DirectFiles(t) ==
    LET files == StepFiles(BundleDefinition(t.m, StepDefinition(t.m, t.pick.scope)).id)
    IN  IF BundledPick(t) /\ files.bundled # <<>> THEN files.bundled
        ELSE IF files.refs # <<>> THEN files.refs
        ELSE StepFiles(t.pick.scope).refs
PrimaryFile(t) == FirstOr(StepFiles(t.pick.scope).refs, LAMBDA f : TRUE, None)

SupportResources(t) ==
    LET offered == IF t.pick.scope # None
                   THEN ModuleFiles(t.pick.support).resources
                   ELSE FlatMap(Select(Library.modules, LAMBDA x : /\ x.resources # <<>>
                                             /\ (x.triggers = {} \/ x.triggers \cap t.query # {})),
                                LAMBDA x : x.resources)
    IN  KeepFirst(Select(Map(offered, ResourceById), LAMBDA r : r # NoResource), LAMBDA r : r.id)
ModuleOwnsFiles(t) == /\ Hybrid(t) /\ t.pick.scope # None /\ t.pick.support # None
                      /\ HasStepFiles(t.m, t.pick.support)

Followup(x) == x.block.type = "followup_module" /\ FollowupActivates(x.t, x.block.id)
PlannedResources(x) ==
    LET primary == PrimaryFile(x.t)
    IN  IF Followup(x)
        THEN Map(FollowupRequests(x.t.m, x.block.id), LAMBDA q : ResourceByFile(q.file))
        ELSE Map(Some(primary) \o Select(DirectFiles(x.t), LAMBDA f : f # primary), ResourceByFile)
               \o (IF ModuleOwnsFiles(x.t) THEN <<>> ELSE SupportResources(x.t))

For(resource, role, purpose) ==
    [Request EXCEPT !.role = role, !.id = resource.id, !.file = resource.file, !.purpose = purpose]
PlannedOf(x, domain) == Select(x.resources, LAMBDA r : r.domain = domain)
PlaceRequests(x) ==
    LET guidance == Map(PlannedOf(x, "instruction_source") \o PlannedOf(x, "output_template"),
                        LAMBDA r : For(r, r.domain, "guidance"))
        named == PlannedOf(x, "output_artifact")
        targets == Map(IF named # <<>> THEN named ELSE ResourcesOf("output_artifact"),
                       LAMBDA r : For(r, r.domain, "output_target"))
        grounding == Map(PlannedOf(x, "knowledge_source"),
                         LAMBDA r : [For(r, r.domain, "knowledge") EXCEPT !.id = None])
        planned == guidance \o KeepFirst(targets, NameOf) \o KeepFirst(grounding, NameOf)
        fallback == IF StepFiles(x.t.pick.scope).block # <<>> THEN StepFiles(x.t.pick.scope).block
                    ELSE Some(PrimaryFile(x.t))
    IN  IF planned # <<>> THEN planned
        ELSE Map(fallback, LAMBDA f : [Request EXCEPT !.role = "instruction_source", !.file = f,
                                                      !.purpose = "fallback"])

UploadRequests(t, u) ==
    Map(SelectedUploads(t, u), LAMBDA x :
        [Request EXCEPT !.role = "knowledge_source", !.id = x.id, !.purpose = "session_upload"])
(* A phase binding is context for the turn, not a source of requests. *)
Supplied(requests) ==
    Select(requests, LAMBDA q : \A b \in ToSet(Library.bindings) : b.id = q.binding => ~b.meta)
TurnRequests(x) == PlaceRequests(x) \o UploadRequests(x.t, x.u) \o Supplied(x.bound.requests)

-----------------------------------------------------------------------------
(* What the hybrid planner's module adds in run, and a follow-up replaces. *)
ModuleScope(x) ==
    LET m == x.t.m
        steps == ProcedureSteps(m, ProcedureOfBlock(m, x.primary.id).id)
        first == IF ProcedureOfBlock(m, x.primary.id) = NoProcedure \/ steps = <<>> THEN None ELSE steps[1].id
    IN  ForScope(m, IF /\ x.primary.type # "followup_module" /\ first # None
                       /\ HasStepFiles(m, x.primary.id)
                    THEN first ELSE x.primary.id, first = None)

\* Mutant: the files of the step stay when a follow-up module takes over.
KeepGuidance(requests) == requests
DropGuidance(requests) == Select(requests, LAMBDA q : q.role \notin Guidance)

Unseen(requests, more) ==
    KeepFirst(Select(more, LAMBDA q : \A s \in ToSet(requests) : BindingKey(s) # BindingKey(q)), BindingKey)
ModuleRequests(x, requests) ==
    LET isFollowup == x.primary.type = "followup_module"
        added == Supplied(x.module.requests)
                   \o (IF isFollowup THEN FollowupRequests(x.t.m, x.primary.id) ELSE <<>>)
    IN  IF x.primary = NoBlock THEN requests
        ELSE (IF isFollowup THEN DropGuidance(requests) ELSE requests) \o Unseen(requests, added)

(* The turn ends in a follow-up module: its files are the only guidance. *)
FinalRequests(x, requests) ==
    LET own == FollowupRequests(x.t.m, x.final.id)
    IN  IF x.final.type = "followup_module" /\ own # <<>> THEN DropGuidance(requests) \o own ELSE requests

ActiveBindings(x) ==
    KeepFirst(x.bound.active \o (IF x.primary = NoBlock THEN <<>> ELSE x.module.active), LAMBDA id : id)

(* _deduplicate_turn_resource_requests: one request of a role for a        *)
(* resource, with what either of two asked for.                            *)
Or(a, b) == IF a # None THEN a ELSE b
Identity(q) ==
    LET known == IF ResourceById(q.id) # NoResource THEN ResourceById(q.id) ELSE ResourceByFile(q.file)
    IN  <<q.role, IF known # NoResource THEN known.id ELSE Or(q.id, q.file)>>
(* The positions of the requests for the same resource in the same role. *)
SameRequest(s, i) == {j \in DOMAIN s : Identity(s[j]) = Identity(s[i])}
FirstSome(s, I, field) == FirstAt([i \in DOMAIN s |-> s[i][field]], {i \in I : s[i][field] # None}, None)
\* Mutant: the later of two requests for a resource are dropped whole.
DropLater(s, i) == s[i]
Merged(s, i) ==
    LET same == SameRequest(s, i)
    IN  IF Identity(s[i])[2] = None THEN s[i]
        ELSE [s[i] EXCEPT !.id = FirstSome(s, same, "id"), !.file = FirstSome(s, same, "file"),
                          !.binding = FirstSome(s, same, "binding"), !.group = FirstSome(s, same, "group"),
                          !.artifact = FirstSome(s, same, "artifact"),
                          !.required = \E j \in same : s[j].required]
Dedup(s) ==
    Sub([i \in DOMAIN s |-> Merged(s, i)],
        {i \in DOMAIN s : Identity(s[i])[2] # None => \A j \in SameRequest(s, i) : i <= j})

Placed(x) == [x EXCEPT !.resources = PlannedResources(x), !.bound = Activation(x.matched, x.u),
                       !.module = ModuleScope(x)]
Requested(x) == [x EXCEPT !.requests = Dedup(FinalRequests(x, ModuleRequests(x, TurnRequests(x)))),
                          !.active = ActiveBindings(x)]
Planned(t, u) == Requested(Placed(ReadingFor(t, u)))

(* _sync_resource_load_plans_from_turn_requests *)
LoadPlan(requests, role) ==
    Map(KeepFirst(Select(requests, LAMBDA q : q.role = role /\ NameOf(q) # None), LAMBDA q : <<q.file, q.id>>),
        LAMBDA q : Or(q.file, ResourceById(q.id).file))

-----------------------------------------------------------------------------
(* retrieve.py: the requests of a role whose binding is active; of a       *)
(* binding that is not a group, the best alternative.                      *)
Score(q) == IF q.file \in Library.documents THEN 10 ELSE 0
Best(s) == FirstOr(s, LAMBDA q : \A o \in ToSet(s) : Score(o) <= Score(q), Request)
Choice(s) == IF Len(s) = 1 \/ \E q \in ToSet(s) : q.group # None THEN s ELSE <<Best(s)>>
OfBinding(s, id) == Select(s, LAMBDA q : q.binding = id)
Alternatives(s) ==
    LET bound == KeepFirst(Select(s, LAMBDA q : q.binding # None), LAMBDA q : q.binding)
    IN  IF Len(s) <= 1 THEN s
        ELSE OfBinding(s, None) \o FlatMap(bound, LAMBDA b : Choice(OfBinding(s, b.binding)))
RequestsFor(x, role) ==
    Alternatives(Select(x.requests, LAMBDA q :
        q.role = role /\ (x.active = <<>> \/ q.binding = None \/ Contains(x.active, q.binding))))

Present(q, u) ==
    \E x \in ToSet(u.uploads) : \/ q.id # None /\ q.id = x.id
                                \/ q.file # None /\ q.file = x.file
                                \/ Or(q.artifact, q.file) # None /\ Or(q.artifact, q.file) = x.role
(* _artifact_gate_status: a required artifact that is not among the        *)
(* uploads blocks everything the turn would read.                          *)
Blocked(x) == \E role \in Roles : \E q \in ToSet(RequestsFor(x, role)) : q.required /\ ~Present(q, x.u)

(* The files loaded whole or by section: the load plan's, whatever the     *)
(* alternatives among them.                                                *)
DirectLoads(x, role) ==
    Select(LoadPlan(x.requests, role), LAMBDA f : f \notin Library.vector /\ f \in Library.documents)

(* The searches: [role, files], no files for the whole index. *)
Search(role, files) == IF files = {} THEN <<>> ELSE <<[role |-> role, files |-> files]>>
Files(requests) == {q.file : q \in ToSet(requests)} \ {None}
VectorCall(x, role) ==
    Search(role, Files(Select(RequestsFor(x, role), LAMBDA q : q.purpose # "fallback"))
                    \cap Library.vector)
KnowledgeCall(x) ==
    LET live == RequestsFor(x, "knowledge_source")
    IN  IF "search" \in x.t.query \/ PlannedOf(x, "knowledge_source") # <<>>
        THEN <<[role |-> "knowledge_source", files |-> Files(live)]>>
        ELSE Search("knowledge_source", Files(Select(live, LAMBDA q : q.purpose # "session_upload")))
(* The plan of the turn's place, when the requests lead to no search; and  *)
(* when it leads to none either, the files the turn is filtered by.        *)
PlannedCall(x, role) ==
    LET files == {r.file : r \in ToSet(PlannedOf(x, role))}
    IN  IF files \cap Library.vector = {} THEN <<>> ELSE Search(role, files)
LegacyCall(x) ==
    LET own == Files(FollowupRequests(x.t.m, x.final.id))
    IN  [role |-> "knowledge_source",
         files |-> IF PrimaryFile(x.t) = None THEN {}
                   ELSE IF x.final.type = "followup_module" /\ own # {} THEN own
                   ELSE {r.file : r \in ToSet(PlannedOf(x, "instruction_source"))}]
DomainCalls(x) ==
    FirstOr(<<VectorCall(x, "instruction_source") \o KnowledgeCall(x) \o VectorCall(x, "output_template"),
              PlannedCall(x, "instruction_source") \o PlannedCall(x, "output_template")>>,
            LAMBDA calls : calls # <<>>, <<LegacyCall(x)>>)

UploadEvidence(x) ==
    LET wanted == {q.id : q \in {q \in ToSet(x.requests) : q.purpose = "session_upload"}}
    IN  Select(x.u.uploads, LAMBDA up : up.id \in wanted)

(* retrieve.run *)
NothingRead == [blocked |-> FALSE, guidance |-> {}, calls |-> <<>>, uploads |-> <<>>]
Read(x) ==
    IF x.t.routing = "out" THEN NothingRead
    ELSE IF Blocked(x) THEN [NothingRead EXCEPT !.blocked = TRUE]
    ELSE [blocked |-> FALSE,
          guidance |-> UNION {ToSet(DirectLoads(x, role)) : role \in Guidance},
          calls |-> DomainCalls(x),
          uploads |-> UploadEvidence(x)]

-----------------------------------------------------------------------------
(* Properties: of the next turn of the session, whatever turns before it   *)
(* brought the session to where it is.                                     *)
NextTurn(a) == PlannedTurn(TurnFor(a.words, {}, a.shadow))
Readings(t) == {Planned(t, u) : u \in IF t.routing # "out" /\ Valid(Context(t)) THEN Holdings ELSE {}}
AtTurn == pc = "idle" /\ Valid(Loaded(ses, progress))

(* A follow-up module reads its own files: a turn that ends in one that    *)
(* names its files loads no other guidance, neither that of the step the   *)
(* session was in nor that of the bindings of the turn.                    *)
OwnOnly(x) ==
    LET own == Files(FollowupRequests(x.t.m, x.final.id))
    IN  x.final.type = "followup_module" /\ own # {} => Read(x).guidance \subseteq own
FollowupReadsItsOwn == AtTurn => \A a \in Asks : \A x \in Readings(NextTurn(a)) : OwnOnly(x)

(* A required artifact holds the turn: while a matched gate asks for one   *)
(* of the library's resources, and the session has no upload of that name  *)
(* or role, nothing is read, also when the step asks for the same resource *)
(* without requiring it.  It is for the gate alone to ask: another binding *)
(* that asks for the resource takes the request over, and may then prefer  *)
(* an alternative.  A follow-up module drops the request with the rest of  *)
(* the guidance, and a gate that names no resource never asks.             *)
Missing(b, u) ==
    \A x \in ToSet(u.uploads), id \in ToSet(b.resources) :
        {x.id, x.file, x.role} \cap {id, ResourceById(id).file, b.role} \subseteq {None}
Waits(b, u) == /\ b.trigger = "artifact_gate" /\ b.required /\ ~b.meta
               /\ OwnRequests(b) # <<>> /\ b.groups = <<>>
               /\ GateUploads(b, u) = <<>> /\ Missing(b, u)
               /\ \A c \in ToSet(Library.bindings) : c.id = b.id => c = b
Alone(b, x) ==
    \A q \in ToSet(x.bound.requests \o x.module.requests), r \in ToSet(OwnRequests(b)) :
        q.binding # b.id => Identity(q) # Identity(r)
Held(x, b) == "followup_module" \notin {x.final.type, x.primary.type} => Read(x).blocked
RequiredHoldsTheTurn ==
    AtTurn => \A a \in Asks : \A x \in Readings(NextTurn(a)) : \A b \in ToSet(x.matched) :
                 Waits(b, x.u) /\ Alone(b, x) => Held(x, b)
=============================================================================
