-------------------------- MODULE SkillGovernance --------------------------
(***************************************************************************)
(* The governance of Agent skills: the Builder's records of sources,       *)
(* discovered skills, approvals and bindings, the revision counter over    *)
(* them, and the publication of the projection they amount to into the     *)
(* execution subsystem, over HTTP.  A store method that holds the          *)
(* governance lock is one action; a publication is not under the lock and  *)
(* is one action per store call or message.                                *)
(***************************************************************************)
EXTENDS Integers, FiniteSets, FiniteSetsExt

CONSTANTS
  Skills,       \* catalogue items; a natural number stands for an id, in the order of ids
  SourceOf,     \* the source that reports a skill
  Apps,         \* ids of applications
  Fingerprints, \* contents of a skill
  Policies,     \* interaction policies of an approval
  OneShot,      \* the default policy
  Publishers,   \* requests that publish
  None,         \* SQL NULL, or no row
  MaxRevision   \* bound: no edit is made at this revision

Sources == {SourceOf[k] : k \in Skills}

ASSUME SkillsAssumption == Skills \subseteq Nat /\ IsFiniteSet(Skills)
ASSUME SourceAssumption == DOMAIN SourceOf = Skills
ASSUME PolicyAssumption == OneShot \in Policies
ASSUME BoundAssumption == MaxRevision \in Nat

VARIABLES
  apps,      \* the applications there are
  source,    \* source[s]: "enabled", "disabled" or None
  catalog,   \* catalog[k]: its fingerprint and discovery status, or None
  approval,  \* approval[k]: the latest approval row of k, or None
  binding,   \* binding[<<a, k>>]: "enabled", "disabled" or None
  state,     \* the row of agent_skill_projection_state
  pub,       \* pub[p]: where publication p stands, and what it has read
  wire,      \* wire[p]: the PUT of p on its way, or None
  head       \* the active revision of the execution subsystem, or None

records == <<apps, source, catalog, approval, binding>>
vars    == <<apps, source, catalog, approval, binding, state, pub, wire, head>>

Statuses == {"available", "missing"}
Item     == [fingerprint : Fingerprints, status : Statuses]
Approval == [state : {"approved", "revoked"}, fingerprint : Fingerprints, policy : Policies]
Bindable == Apps \X Skills
Projections ==
  [revision : Nat,
   items : SUBSET [app : Apps, skill : Skills, current : Fingerprints, approved : Fingerprints,
                   approval : {"approved", "revoked"}, policy : Policies,
                   source_enabled : BOOLEAN, binding_enabled : BOOLEAN]]
Reviews ==
  [sources  : SUBSET [source : Sources, enabled : BOOLEAN],
   skills   : SUBSET [skill : Skills, current : Fingerprints, approved : Fingerprints,
                      approval : {"approved", "revoked"}, policy : Policies],
   bindings : SUBSET [app : Apps, skill : Skills, enabled : BOOLEAN]]
StateRow ==
  [local : Nat, published : Nat \cup {None}, digest : Projections \cup {None},
   snapshot : Reviews \cup {None}, sync : {"synchronized", "pending", "failed"}]
Publishing ==
  [pc : {"idle", "reviewed", "checked", "waiting", "acked", "failing"},
   expected : Nat, projection : Projections \cup {None}]
Idle     == [pc |-> "idle", expected |-> 0, projection |-> None]

ASSUME NoneAssumption ==
  None \notin Nat \cup Item \cup Approval \cup Projections \cup Reviews \cup {"enabled", "disabled"}

(*-------------------------------- records --------------------------------*)

\* governance_state of a catalogue item, as _agent_skill_catalog_from_row derives it.
GovernanceState(k) ==
  CASE source[SourceOf[k]] = "disabled"       -> "source_disabled"
    [] catalog[k].status # "available"        -> "unavailable"
    [] approval[k] = None                     -> "pending_review"
    [] approval[k].state = "revoked"          -> "revoked"
    [] approval[k].fingerprint = catalog[k].fingerprint -> "approved"
    [] OTHER                                  -> "changed_pending_review"

Approved(k) == catalog[k] # None /\ GovernanceState(k) = "approved"

\* One item per binding, with the latest approval of its skill (the JOINs of
\* list_agent_skill_projection_items).
ProjectedItem(a, k) ==
  [app |-> a, skill |-> k,
   current  |-> catalog[k].fingerprint,
   approved |-> approval[k].fingerprint,
   approval |-> approval[k].state,
   policy   |-> approval[k].policy,
   source_enabled  |-> source[SourceOf[k]] = "enabled" /\ catalog[k].status = "available",
   binding_enabled |-> binding[<<a, k>>] = "enabled"]
ProjectionItems ==
  {ProjectedItem(b[1], b[2]) :
     b \in {c \in Bindable : binding[c] # None /\ approval[c[2]] # None}}

\* A projection is identified by its revision and items: the digest covers both.
Projection == [revision |-> state.local, items |-> ProjectionItems]

\* _redact_projection: what is compared in a review.  A source is keyed by its
\* id, so the item of its last skill decides whether it shows as enabled.
Redact(items) ==
  LET last(s) == Max({i.skill : i \in {j \in items : SourceOf[j.skill] = s}})
  IN [sources  |-> {[source |-> SourceOf[i.skill], enabled |-> i.source_enabled] :
                      i \in {j \in items : j.skill = last(SourceOf[j.skill])}},
      skills   |-> {[skill |-> i.skill, current |-> i.current, approved |-> i.approved,
                     approval |-> i.approval, policy |-> i.policy] : i \in items},
      bindings |-> {[app |-> i.app, skill |-> i.skill, enabled |-> i.binding_enabled] : i \in items}]

NothingPublished == [sources |-> {}, skills |-> {}, bindings |-> {}]

\* The state that the review page shows.
PreviewState ==
  LET baseline == IF state.snapshot = None THEN NothingPublished ELSE state.snapshot
      changed  == Redact(ProjectionItems) # baseline
  IN CASE state.sync = "failed"                       -> "publish_failed"
       [] state.sync # "failed" /\ ~changed /\ state.snapshot # None -> "published"
       [] OTHER                                       -> "draft_changes"

\* _mark_agent_skill_projection_pending.  The code takes the larger of the next
\* number and the clock; only the order of revisions matters.
MarkPending == state' = [state EXCEPT !.local = @ + 1, !.sync = "pending"]
MayEdit == state.local < MaxRevision

(*------------------------------ record edits -----------------------------*)

CreateApplication(a) ==
  /\ a \notin apps
  /\ apps' = apps \cup {a}
  /\ UNCHANGED <<source, catalog, approval, binding, state, pub, wire, head>>

\* Deletes the row; the foreign key takes the bindings of the application along.
DeleteApplication(a) ==
  /\ a \in apps
  /\ apps' = apps \ {a}
  /\ binding' = [b \in Bindable |-> IF b[1] = a THEN None ELSE binding[b]]
  /\ UNCHANGED <<source, catalog, approval, state, pub, wire, head>>

CreateSource(s) ==
  /\ MayEdit
  /\ source[s] = None
  /\ \E to \in {"enabled", "disabled"} : source' = [source EXCEPT ![s] = to]
  /\ MarkPending
  /\ UNCHANGED <<apps, catalog, approval, binding, pub, wire, head>>

\* renamed: display_name or precedence, which no item carries, is changed.
UpdateSource(s) ==
  /\ MayEdit
  /\ source[s] # None
  /\ \E to \in {"enabled", "disabled"}, renamed \in BOOLEAN :
       /\ source' = [source EXCEPT ![s] = to]
       /\ IF to # source[s] \/ renamed THEN MarkPending ELSE UNCHANGED state
  /\ UNCHANGED <<apps, catalog, approval, binding, pub, wire, head>>

\* found: what the discovery of s reported; a known skill it does not report is
\* missing.  A report carries new timestamps or is the same as before.
RefreshCatalog(s) ==
  /\ MayEdit
  /\ source[s] # None
  /\ \E found \in SUBSET {k \in Skills : SourceOf[k] = s} :
     \E report \in [found -> Item], restamped \in BOOLEAN :
       LET known(k) == SourceOf[k] = s /\ catalog[k] # None
           refreshed == [k \in Skills |->
                           CASE k \in found -> report[k]
                             [] k \notin found /\ known(k) -> [catalog[k] EXCEPT !.status = "missing"]
                             [] OTHER -> catalog[k]]
       IN /\ restamped => found # {}
          /\ catalog' = refreshed
          /\ IF refreshed # catalog \/ restamped THEN MarkPending ELSE UNCHANGED state
  /\ UNCHANGED <<apps, source, approval, binding, pub, wire, head>>

Approvable(k) ==
  /\ catalog[k] # None
  /\ source[SourceOf[k]] # "disabled"
  /\ catalog[k].status = "available"

\* The request names the fingerprint it approves and is refused for another.
ApproveSkill(k) ==
  /\ MayEdit
  /\ Approvable(k)
  /\ \E expected \in Fingerprints, policy \in Policies :
       /\ expected = catalog[k].fingerprint
       /\ approval' = [approval EXCEPT ![k] =
                         [state |-> "approved", fingerprint |-> expected, policy |-> policy]]
  /\ MarkPending
  /\ UNCHANGED <<apps, source, catalog, binding, pub, wire, head>>

\* Mutant: a revocation does not start a new revision.
RevokeSilently(k) ==
  /\ MayEdit
  /\ catalog[k] # None
  /\ approval' = [approval EXCEPT ![k] =
                    [state |-> "revoked", fingerprint |-> catalog[k].fingerprint, policy |-> OneShot]]
  /\ UNCHANGED <<apps, source, catalog, binding, state, pub, wire, head>>

\* The policy of the approval it supersedes is kept; without one, the default.
RevokeSkill(k) ==
  /\ MayEdit
  /\ catalog[k] # None
  /\ LET prior == IF approval[k] # None /\ approval[k].state = "approved"
                  THEN approval[k].policy ELSE OneShot
     IN approval' = [approval EXCEPT ![k] =
                       [state |-> "revoked", fingerprint |-> catalog[k].fingerprint,
                        policy |-> prior]]
  /\ MarkPending
  /\ UNCHANGED <<apps, source, catalog, binding, pub, wire, head>>

CanBind(a, k) == a \in apps /\ Approved(k) /\ binding[<<a, k>>] = None

CreateBinding(a, k) ==
  /\ MayEdit
  /\ CanBind(a, k)
  /\ \E to \in {"enabled", "disabled"} : binding' = [binding EXCEPT ![<<a, k>>] = to]
  /\ MarkPending
  /\ UNCHANGED <<apps, source, catalog, approval, pub, wire, head>>

UpdateBinding(a, k) ==
  /\ MayEdit
  /\ binding[<<a, k>>] # None
  /\ \E to \in {"enabled", "disabled"} :
       /\ to = "enabled" => Approved(k)
       /\ binding' = [binding EXCEPT ![<<a, k>>] = to]
       /\ IF to # binding[<<a, k>>] THEN MarkPending ELSE UNCHANGED state
  /\ UNCHANGED <<apps, source, catalog, approval, pub, wire, head>>

DeleteBinding(a, k) ==
  /\ MayEdit
  /\ binding[<<a, k>>] # None
  /\ binding' = [binding EXCEPT ![<<a, k>>] = None]
  /\ MarkPending
  /\ UNCHANGED <<apps, source, catalog, approval, pub, wire, head>>

(*------------------------------ publication ------------------------------*)

\* configure_agent_skill_projection: the first reading draws the first revision.
ConfigureState ==
  IF state.local = 0 THEN MarkPending ELSE UNCHANGED state

\* An administrator opens the review; the form will carry the revision shown.
Review(p) ==
  /\ pub[p].pc = "idle" /\ wire[p] = None
  /\ ConfigureState
  /\ pub' = [pub EXCEPT ![p] = [Idle EXCEPT !.pc = "reviewed", !.expected = state'.local]]
  /\ UNCHANGED <<records, wire, head>>

\* The submitted revision is compared with a first reading of the state.
SubmitReviewed(p) ==
  /\ pub[p].pc = "reviewed"
  /\ pub' = [pub EXCEPT ![p] = IF pub[p].expected = state.local
                               THEN [@ EXCEPT !.pc = "checked"] ELSE Idle]
  /\ UNCHANGED <<records, state, wire, head>>

\* Mutant: the projection is not compared with the revision that was reviewed.
SendUnchecked(p) ==
  /\ pub[p].pc = "checked"
  /\ pub'  = [pub EXCEPT ![p].pc = "waiting", ![p].projection = Projection]
  /\ wire' = [wire EXCEPT ![p] = Projection]
  /\ UNCHANGED <<records, state, head>>

\* The projection is read under the lock and compared again, then sent.
SendProjection(p) ==
  /\ pub[p].pc = "checked"
  /\ IF state.local = pub[p].expected
     THEN /\ pub'  = [pub EXCEPT ![p].pc = "waiting", ![p].projection = Projection]
          /\ wire' = [wire EXCEPT ![p] = Projection]
     ELSE pub' = [pub EXCEPT ![p] = Idle] /\ UNCHANGED wire
  /\ UNCHANGED <<records, state, head>>

\* Mutant: the revision is not compared with the active one.
AcceptsAny(snapshot) == TRUE
\* The transaction of PrismaAgentSkillProjectionStore.publish replaces the head.
Accepts(snapshot) == head = None \/ snapshot.revision > head.revision
\* The same revision again is answered as a success.
Answers(snapshot) == Accepts(snapshot) \/ snapshot = head

\* The execution subsystem handles the PUT; its answer reaches the publisher, or
\* is lost with the connection.
DeliverProjection(p) ==
  /\ wire[p] # None
  /\ head' = IF Accepts(wire[p]) THEN wire[p] ELSE head
  /\ wire' = [wire EXCEPT ![p] = None]
  /\ \/ /\ pub[p].pc = "waiting"
        /\ pub' = [pub EXCEPT ![p].pc = IF Answers(wire[p]) THEN "acked" ELSE "failing"]
     \/ UNCHANGED pub
  /\ UNCHANGED <<records, state>>

LoseRequest(p) ==
  /\ wire[p] # None
  /\ wire' = [wire EXCEPT ![p] = None]
  /\ UNCHANGED <<records, state, pub, head>>

\* urlopen times out or the connection breaks, whatever became of the request.
GiveUpWaiting(p) ==
  /\ pub[p].pc = "waiting"
  /\ pub' = [pub EXCEPT ![p].pc = "failing"]
  /\ UNCHANGED <<records, state, wire, head>>

\* The guards of mark_agent_skill_projection_published, in Python and in SQL.
Recordable(revision) ==
  /\ revision <= state.local
  /\ state.published = None \/ revision >= state.published

\* Mutant: a recorded acknowledgment always means synchronized.
AlwaysSynchronized(revision) == "synchronized"
SyncAfter(revision) == IF revision = state.local THEN "synchronized" ELSE "pending"

\* An acknowledgment that would go back is an error, and changes nothing.
MarkPublished(p) ==
  LET sent == pub[p].projection IN
  /\ pub[p].pc = "acked"
  /\ state' = IF Recordable(sent.revision)
              THEN [state EXCEPT !.published = sent.revision, !.digest = sent,
                                 !.snapshot = Redact(sent.items),
                                 !.sync = SyncAfter(sent.revision)]
              ELSE state
  /\ pub' = [pub EXCEPT ![p] = Idle]
  /\ UNCHANGED <<records, wire, head>>

\* Neither under the lock nor about a revision: the last writer decides.
MarkFailed(p) ==
  /\ pub[p].pc = "failing"
  /\ state' = [state EXCEPT !.sync = "failed"]
  /\ pub' = [pub EXCEPT ![p] = Idle]
  /\ UNCHANGED <<records, wire, head>>

\* The Builder process restarts; its database and the requests on the wire stay.
RestartBuilder ==
  /\ \E p \in Publishers : pub[p] # Idle
  /\ pub' = [p \in Publishers |-> Idle]
  /\ UNCHANGED <<records, state, wire, head>>

(*------------------------------ specification ----------------------------*)

InitialState ==
  [local |-> 0, published |-> None, digest |-> None, snapshot |-> None, sync |-> "synchronized"]

Init ==
  /\ apps = Apps
  /\ source   = [s \in Sources |-> None]
  /\ catalog  = [k \in Skills |-> None]
  /\ approval = [k \in Skills |-> None]
  /\ binding  = [b \in Bindable |-> None]
  /\ state = InitialState
  /\ pub  = [p \in Publishers |-> Idle]
  /\ wire = [p \in Publishers |-> None]
  /\ head = None

EditSource == \E s \in Sources : CreateSource(s) \/ UpdateSource(s) \/ RefreshCatalog(s)
EditSkill  == \E k \in Skills : ApproveSkill(k) \/ RevokeSkill(k)
EditBinding ==
  \E a \in Apps, k \in Skills : CreateBinding(a, k) \/ UpdateBinding(a, k) \/ DeleteBinding(a, k)
EditApplication == \E a \in Apps : CreateApplication(a) \/ DeleteApplication(a)

Publication ==
  \E p \in Publishers :
    \/ Review(p) \/ SubmitReviewed(p) \/ SendProjection(p)
    \/ DeliverProjection(p) \/ LoseRequest(p) \/ GiveUpWaiting(p)
    \/ MarkPublished(p) \/ MarkFailed(p)

Next ==
  \/ EditSource \/ EditSkill \/ EditBinding \/ EditApplication
  \/ Publication \/ RestartBuilder

Spec == Init /\ [][Next]_vars

(*------------------------------- properties ------------------------------*)

HeadRevision == IF head = None THEN 0 ELSE head.revision
Acknowledged == IF state.published = None THEN 0 ELSE state.published

\* Every variable has its type.
TypeOK ==
  /\ apps \subseteq Apps
  /\ source \in [Sources -> {"enabled", "disabled", None}]
  /\ catalog \in [Skills -> Item \cup {None}]
  /\ approval \in [Skills -> Approval \cup {None}]
  /\ binding \in [Bindable -> {"enabled", "disabled", None}]
  /\ state \in StateRow
  /\ pub \in [Publishers -> Publishing]
  /\ wire \in [Publishers -> Projections \cup {None}]
  /\ head \in Projections \cup {None}

\* A Builder that shows itself synchronized has its current records in force in
\* the execution subsystem, but for the bindings of applications deleted since, and
\* where there are none its review page says that they are published.
SynchronizedIsInForce ==
  state.sync = "synchronized" /\ state.published # None =>
    /\ HeadRevision = state.local
    /\ ProjectionItems \subseteq head.items
    /\ \A i \in head.items \ ProjectionItems : binding[<<i.app, i.skill>>] = None
    /\ head.items = ProjectionItems => PreviewState = "published"

\* What the execution subsystem lets an application select (AgentSkillSelectionService).
Selectable(i) ==
  i.approval = "approved" /\ i.approved = i.current /\ i.binding_enabled /\ i.source_enabled

\* A revocation that was published holds: while the Builder shows itself
\* synchronized, no skill it has revoked can be selected by any application.
RevokedIsNotSelectable ==
  state.sync = "synchronized" /\ head # None =>
    \A i \in head.items : Selectable(i) =>
      approval[i.skill] # None /\ approval[i.skill].state = "approved"

\* What is activated is what was reviewed: the revision the administrator saw.
SentWasReviewed ==
  \A p \in Publishers : pub[p].pc \in {"waiting", "acked"} =>
    pub[p].projection.revision = pub[p].expected

Register == INSTANCE GovernanceRegister
              WITH draft <- state.local, active <- HeadRevision, acknowledged <- Acknowledged
\* The Builder, the wire and the execution subsystem together are the register
\* of GovernanceRegister: neither revision ever goes back or runs ahead.
RegisterSpec == Register!Spec
=============================================================================
