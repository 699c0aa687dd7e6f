------------------------- MODULE SkillGovernanceProofs -------------------------
(***************************************************************************)
(* Theorems about SkillGovernance, for every catalogue, every number of    *)
(* applications and publishers, and every number of revisions.             *)
(***************************************************************************)
EXTENDS SkillGovernance, TLAPS

(* Items in force: they are the records of this moment, but for bindings   *)
(* that went with their application, which starts no revision.             *)
InForce(items) ==
  /\ ProjectionItems \subseteq items
  /\ \A i \in items :
       /\ approval[i.skill] # None /\ i.approval = approval[i.skill].state
       /\ binding[<<i.app, i.skill>>] = None \/ i \in ProjectionItems

(* A projection drawn from the records: that of the current revision is    *)
(* still in force.                                                         *)
Drawn(x) ==
  /\ x.revision \in 1..state.local
  /\ x.revision = state.local => InForce(x.items)

(* The execution subsystem has activated x, or a later revision since.     *)
Reached(x) == head # None /\ (x = head \/ x.revision < head.revision)

RecordsInv == \A k \in Skills : approval[k] # None => catalog[k] # None

ProjectionsInv ==
  /\ \A p \in Publishers : wire[p] # None => Drawn(wire[p])
  /\ \A p \in Publishers : pub[p].projection # None => Drawn(pub[p].projection)
  /\ head # None => Drawn(head)

PublisherInv(p) ==
  LET x == pub[p].projection
      pc == pub[p].pc
  IN /\ pc # "idle" => pub[p].expected \in 1..state.local
     /\ pc \in {"waiting", "acked"} => x # None /\ x.revision = pub[p].expected
     /\ pc \in {"reviewed", "checked", "acked"} => wire[p] = None
     /\ pc = "waiting" /\ wire[p] # None => wire[p] = x
     /\ pc = "acked" => Reached(x)

StateInv ==
  /\ state.published # None =>
       /\ state.digest # None /\ state.digest.revision = state.published
       /\ state.snapshot = Redact(state.digest.items)
       /\ Reached(state.digest)
  /\ state.sync = "synchronized" =>
       IF state.published = None THEN state.local = 0 ELSE state.published = state.local

GovInv ==
  /\ TypeOK /\ RecordsInv /\ ProjectionsInv /\ StateInv
  /\ \A p \in Publishers : PublisherInv(p)

----------------------------------------------------------------------------
(* The projection of the records, and what a review shows of one.          *)

Projected ==
  [app : Apps, skill : Skills, current : Fingerprints, approved : Fingerprints,
   approval : {"approved", "revoked"}, policy : Policies,
   source_enabled : BOOLEAN, binding_enabled : BOOLEAN]

\* The items are typed: what is bound and approved is in the catalogue.
LEMMA ItemsTyped ==
  ASSUME TypeOK, RecordsInv
  PROVE  ProjectionItems \subseteq Projected
<1> SUFFICES ASSUME NEW b \in Bindable, binding[b] # None, approval[b[2]] # None
             PROVE  ProjectedItem(b[1], b[2]) \in Projected
  BY DEF ProjectionItems
<1>1. b[1] \in Apps /\ b[2] \in Skills
  BY DEF Bindable
<1>2. catalog[b[2]] \in Item /\ approval[b[2]] \in Approval
  BY <1>1 DEF TypeOK, RecordsInv
<1>3. /\ catalog[b[2]].fingerprint \in Fingerprints /\ approval[b[2]].fingerprint \in Fingerprints
      /\ approval[b[2]].state \in {"approved", "revoked"} /\ approval[b[2]].policy \in Policies
  BY <1>2 DEF Item, Approval
<1> QED
  BY <1>1, <1>3 DEF ProjectedItem, Projected

\* An item stands for one binding.
LEMMA ItemOfBinding ==
  ASSUME NEW i
  PROVE  i \in ProjectionItems <=>
           \E a \in Apps, k \in Skills :
             binding[<<a, k>>] # None /\ approval[k] # None /\ i = ProjectedItem(a, k)
<1>1. ASSUME i \in ProjectionItems
      PROVE  \E a \in Apps, k \in Skills :
               binding[<<a, k>>] # None /\ approval[k] # None /\ i = ProjectedItem(a, k)
  <2>1. PICK b \in Bindable : binding[b] # None /\ approval[b[2]] # None /\ i = ProjectedItem(b[1], b[2])
    BY <1>1 DEF ProjectionItems
  <2>2. PICK a \in Apps, k \in Skills : b = <<a, k>>
    BY DEF Bindable
  <2>3. b[1] = a /\ b[2] = k
    BY <2>2
  <2> QED
    BY <2>1, <2>2, <2>3
<1>2. ASSUME NEW a \in Apps, NEW k \in Skills,
             binding[<<a, k>>] # None, approval[k] # None, i = ProjectedItem(a, k)
      PROVE  i \in ProjectionItems
  <2> DEFINE b == <<a, k>>
  <2>1. b \in Bindable /\ b[1] = a /\ b[2] = k
    BY DEF Bindable
  <2> QED
    BY <1>2, <2>1 DEF ProjectionItems
<1> QED
  BY <1>1, <1>2

LEMMA ProjectionTyped ==
  ASSUME TypeOK, RecordsInv
  PROVE  Projection \in Projections
<1>1. ProjectionItems \in SUBSET Projected /\ state.local \in Nat
  BY ItemsTyped DEF TypeOK, StateRow
<1> QED
  BY <1>1 DEF Projection, Projections, Projected

\* A review is never "no row".
LEMMA RedactTyped ==
  ASSUME NEW items \in SUBSET Projected
  PROVE  Redact(items) \in Reviews /\ Redact(items) # None
<1>1. \A i \in items : i \in Projected
  OBVIOUS
<1>2. \A i \in items : SourceOf[i.skill] \in Sources
  BY <1>1 DEF Sources, Projected
<1>3. Redact(items).sources \in SUBSET [source : Sources, enabled : BOOLEAN]
  <2> DEFINE last(s) == Max({i.skill : i \in {j \in items : SourceOf[j.skill] = s}})
             shown == {j \in items : j.skill = last(SourceOf[j.skill])}
  <2>1. Redact(items).sources = {[source |-> SourceOf[i.skill], enabled |-> i.source_enabled] : i \in shown}
    BY DEF Redact
  <2>2. shown \subseteq items
    OBVIOUS
  <2> HIDE DEF shown
  <2>3. \A i \in shown : SourceOf[i.skill] \in Sources /\ i.source_enabled \in BOOLEAN
    BY <1>1, <1>2, <2>2 DEF Projected
  <2> QED
    BY <2>1, <2>3
<1>4. Redact(items).skills \in
        SUBSET [skill : Skills, current : Fingerprints, approved : Fingerprints,
                approval : {"approved", "revoked"}, policy : Policies]
  BY <1>1 DEF Redact, Projected
<1>5. Redact(items).bindings \in SUBSET [app : Apps, skill : Skills, enabled : BOOLEAN]
  BY <1>1 DEF Redact, Projected
<1>6. Redact(items) = [sources |-> Redact(items).sources, skills |-> Redact(items).skills,
                       bindings |-> Redact(items).bindings]
  BY DEF Redact
<1>7. Redact(items) \in Reviews
  BY <1>3, <1>4, <1>5, <1>6 DEF Reviews
<1> QED
  BY <1>7, NoneAssumption

\* Nothing but the withdrawal of bindings can happen to the items of a revision.
LEMMA CurrentIsInForce ==
  ASSUME TypeOK, RecordsInv
  PROVE  InForce(ProjectionItems)
<1> SUFFICES ASSUME NEW i \in ProjectionItems
             PROVE  approval[i.skill] # None /\ i.approval = approval[i.skill].state
  BY DEF InForce
<1>1. PICK a \in Apps, k \in Skills : approval[k] # None /\ i = ProjectedItem(a, k)
  BY ItemOfBinding
<1>2. i.skill = k /\ i.approval = approval[k].state
  BY <1>1 DEF ProjectedItem
<1> QED
  BY <1>1, <1>2

\* A step that starts a revision, or leaves what the items are made of alone, leaves a
\* projection as it is drawn.
LEMMA DrawnStays ==
  ASSUME NEW x, state.local \in Nat, x.revision \in Int, Drawn(x), state'.local \in Nat,
         \/ state'.local > state.local
         \/ state'.local = state.local /\ UNCHANGED <<source, catalog, approval, binding>>
  PROVE  Drawn(x)'
<1>1. CASE state'.local > state.local
  BY <1>1 DEF Drawn
<1>2. CASE state'.local = state.local /\ UNCHANGED <<source, catalog, approval, binding>>
  <2>1. ProjectionItems' = ProjectionItems
    BY <1>2 DEF ProjectionItems, ProjectedItem
  <2>2. InForce(x.items) => InForce(x.items)'
    BY <1>2, <2>1 DEF InForce
  <2> QED
    BY <1>2, <2>2 DEF Drawn
<1> QED
  BY <1>1, <1>2

\* The deletion of an application only takes bindings away.
LEMMA DrawnOverDelete ==
  ASSUME TypeOK, NEW a \in Apps, DeleteApplication(a), NEW x \in Projections, Drawn(x)
  PROVE  Drawn(x)'
<1>1. /\ binding' = [b \in Bindable |-> IF b[1] = a THEN None ELSE binding[b]]
      /\ UNCHANGED <<source, catalog, approval, state>>
  BY DEF DeleteApplication
<1>2. \A b \in Apps, k \in Skills :
        binding'[<<b, k>>] = IF b = a THEN None ELSE binding[<<b, k>>]
  <2> TAKE b \in Apps, k \in Skills
  <2>1. <<b, k>> \in Bindable
    BY DEF Bindable
  <2> QED
    BY <1>1, <2>1
<1>3. \A b \in Apps, k \in Skills : b # a => ProjectedItem(b, k)' = ProjectedItem(b, k)
  BY <1>1, <1>2 DEF ProjectedItem
<1>4. SUFFICES ASSUME InForce(x.items) PROVE InForce(x.items)'
  BY <1>1 DEF Drawn
<1>5. ProjectionItems' \subseteq x.items
  <2> SUFFICES ASSUME NEW i \in ProjectionItems' PROVE i \in ProjectionItems
    BY <1>4 DEF InForce
  <2>1. PICK b \in Bindable : binding'[b] # None /\ approval'[b[2]] # None /\ i = ProjectedItem(b[1], b[2])'
    BY DEF ProjectionItems
  <2>2. PICK c \in Apps, k \in Skills : b = <<c, k>> /\ b[1] = c /\ b[2] = k
    BY DEF Bindable
  <2>3. c # a /\ binding[b] # None
    BY <1>2, <2>1, <2>2
  <2>4. i = ProjectedItem(b[1], b[2])
    BY <1>3, <2>1, <2>2, <2>3
  <2> QED
    BY <1>1, <2>1, <2>3, <2>4 DEF ProjectionItems
<1>6. ASSUME NEW i \in x.items
      PROVE  /\ approval'[i.skill] # None /\ i.approval = approval'[i.skill].state
             /\ binding'[<<i.app, i.skill>>] = None \/ i \in ProjectionItems'
  <2>1. i.app \in Apps /\ i.skill \in Skills
    BY DEF Projections
  <2>2. approval'[i.skill] # None /\ i.approval = approval'[i.skill].state
    BY <1>1, <1>4 DEF InForce
  <2>3. ASSUME binding'[<<i.app, i.skill>>] # None PROVE i \in ProjectionItems'
    <3>1. i.app # a /\ binding[<<i.app, i.skill>>] # None
      BY <1>2, <2>1, <2>3
    <3>2. i \in ProjectionItems
      BY <1>4, <3>1 DEF InForce
    <3>3. PICK c \in Apps, k \in Skills : i = ProjectedItem(c, k)
      BY <3>2, ItemOfBinding
    <3>4. i.app = c /\ i.skill = k
      BY <3>3 DEF ProjectedItem
    <3>5. i = ProjectedItem(i.app, i.skill)'
      BY <1>3, <3>1, <3>3, <3>4
    <3> DEFINE b == <<i.app, i.skill>>
    <3>6. b \in Bindable /\ b[1] = i.app /\ b[2] = i.skill
      BY <2>1 DEF Bindable
    <3>7. i = ProjectedItem(b[1], b[2])'
      BY <3>5, <3>6
    <3> QED
      BY <2>2, <2>3, <3>6, <3>7 DEF ProjectionItems
  <2> QED
    BY <2>2, <2>3
<1> QED
  BY <1>5, <1>6 DEF InForce

----------------------------------------------------------------------------
(* The inductive invariant.                                                *)

LEMMA MarkPendingEffect ==
  ASSUME TypeOK, MarkPending
  PROVE  /\ state' \in StateRow /\ state'.local = state.local + 1 /\ state'.sync = "pending"
         /\ state'.published = state.published /\ state'.digest = state.digest
         /\ state'.snapshot = state.snapshot
<1>1. state \in StateRow /\ state' = [state EXCEPT !.local = state.local + 1, !.sync = "pending"]
  BY DEF TypeOK, MarkPending
<1>2. state.local + 1 \in Nat
  BY <1>1 DEF StateRow
<1> QED
  BY <1>1, <1>2 DEF StateRow

\* An edit that leaves every projection drawn keeps the invariant.
LEMMA EditKeeps ==
  ASSUME GovInv, TypeOK', RecordsInv', UNCHANGED <<pub, wire, head>>,
         state' = state \/ MarkPending,
         \A x \in Projections : Drawn(x) => Drawn(x)'
  PROVE  GovInv'
<1>1. /\ state'.local \in Nat /\ state.local \in Nat /\ state'.local >= state.local
      /\ state'.published = state.published /\ state'.digest = state.digest
      /\ state'.snapshot = state.snapshot
      /\ state'.sync = "synchronized" => state' = state
  <2>1. state.local \in Nat
    BY DEF GovInv, TypeOK, StateRow
  <2> QED
    BY <2>1, MarkPendingEffect DEF GovInv
<1>2. ProjectionsInv'
  <2>1. \A p \in Publishers : wire[p] \in Projections \cup {None} /\ pub[p].projection \in Projections \cup {None}
    BY DEF GovInv, TypeOK, Publishing
  <2>2. head \in Projections \cup {None}
    BY DEF GovInv, TypeOK
  <2> QED
    BY <2>1, <2>2 DEF GovInv, ProjectionsInv
<1>3. ASSUME NEW p \in Publishers PROVE PublisherInv(p)'
  <2>1. PublisherInv(p) /\ pub[p].expected \in Nat
    BY DEF GovInv, TypeOK, Publishing
  <2>2. (pub[p].pc = "acked" => Reached(pub[p].projection)')
    BY <2>1 DEF PublisherInv, Reached
  <2> QED
    BY <1>1, <2>1, <2>2 DEF PublisherInv
<1>4. StateInv'
  BY <1>1 DEF GovInv, StateInv, Reached
<1> QED
  BY <1>2, <1>3, <1>4 DEF GovInv

RecordsTyped ==
  /\ apps \subseteq Apps
  /\ source \in [Sources -> {"enabled", "disabled", None}]
  /\ catalog \in [Skills -> Item \cup {None}]
  /\ approval \in [Skills -> Approval \cup {None}]
  /\ binding \in [Bindable -> {"enabled", "disabled", None}]

\* An edit that starts a revision, or changes nothing an item is made of.
LEMMA RecordEdit ==
  ASSUME GovInv, RecordsTyped', RecordsInv', UNCHANGED <<pub, wire, head>>,
         MarkPending \/ UNCHANGED <<source, catalog, approval, binding, state>>
  PROVE  GovInv'
<1>1. state' \in StateRow /\ state'.local \in Nat /\ state.local \in Nat
  BY MarkPendingEffect DEF GovInv, TypeOK, StateRow
<1>2. TypeOK'
  BY <1>1 DEF GovInv, TypeOK, RecordsTyped
<1>3. \/ state'.local > state.local
      \/ state'.local = state.local /\ UNCHANGED <<source, catalog, approval, binding>>
  BY <1>1, MarkPendingEffect DEF GovInv
<1>4. ASSUME NEW x \in Projections, Drawn(x) PROVE Drawn(x)'
  <2>1. x.revision \in Int
    BY DEF Projections
  <2> QED
    BY <1>1, <1>3, <1>4, <2>1, DrawnStays
<1> QED
  BY <1>2, <1>4, EditKeeps

LEMMA EditsKeepInv ==
  ASSUME GovInv, EditSource \/ EditSkill \/ EditBinding \/ EditApplication
  PROVE  GovInv'
<1>0. RecordsTyped /\ RecordsInv
  BY DEF GovInv, TypeOK, RecordsTyped
<1>1. ASSUME NEW s \in Sources, CreateSource(s) PROVE GovInv'
  <2>1. MarkPending /\ UNCHANGED <<apps, catalog, approval, binding, pub, wire, head>>
        /\ RecordsTyped' /\ RecordsInv'
    BY <1>0, <1>1 DEF CreateSource, RecordsTyped, RecordsInv
  <2> QED
    BY <2>1, RecordEdit
<1>2. ASSUME NEW s \in Sources, UpdateSource(s) PROVE GovInv'
  <2>1. PICK to \in {"enabled", "disabled"}, renamed \in BOOLEAN :
          /\ source' = [source EXCEPT ![s] = to]
          /\ IF to # source[s] \/ renamed THEN MarkPending ELSE UNCHANGED state
    BY <1>2 DEF UpdateSource
  <2>2. UNCHANGED <<apps, catalog, approval, binding, pub, wire, head>>
    BY <1>2 DEF UpdateSource
  <2>3. RecordsTyped' /\ RecordsInv'
    BY <1>0, <2>1, <2>2 DEF RecordsTyped, RecordsInv
  <2>4. MarkPending \/ (UNCHANGED state /\ source' = source)
    BY <1>0, <2>1 DEF RecordsTyped
  <2> QED
    BY <2>2, <2>3, <2>4, RecordEdit
<1>3. ASSUME NEW s \in Sources, RefreshCatalog(s) PROVE GovInv'
  <2>1. PICK found \in SUBSET {k \in Skills : SourceOf[k] = s} :
          \E report \in [found -> Item], restamped \in BOOLEAN :
          LET known(k) == SourceOf[k] = s /\ catalog[k] # None
              refreshed == [k \in Skills |->
                              CASE k \in found -> report[k]
                                [] k \notin found /\ known(k) -> [catalog[k] EXCEPT !.status = "missing"]
                                [] OTHER -> catalog[k]]
          IN /\ catalog' = refreshed
             /\ IF refreshed # catalog \/ restamped THEN MarkPending ELSE UNCHANGED state
    BY <1>3 DEF RefreshCatalog
  <2>2. UNCHANGED <<apps, source, approval, binding, pub, wire, head>>
    BY <1>3 DEF RefreshCatalog
  <2>3. MarkPending \/ UNCHANGED <<state, catalog>>
    BY <2>1
  <2>4. catalog' = [k \in Skills |-> catalog'[k]]
    BY <2>1
  <2>5. ASSUME NEW k \in Skills
        PROVE  catalog'[k] \in Item \cup {None} /\ (catalog[k] # None => catalog'[k] # None)
    <3>1. \/ catalog'[k] \in Item
          \/ catalog'[k] = catalog[k]
          \/ catalog[k] # None /\ catalog'[k] = [catalog[k] EXCEPT !.status = "missing"]
      BY <2>1
    <3>2. catalog[k] \in Item \cup {None}
      BY <1>0 DEF RecordsTyped
    <3>3. catalog[k] \in Item => [catalog[k] EXCEPT !.status = "missing"] \in Item
      BY DEF Item, Statuses
    <3> QED
      BY <3>1, <3>2, <3>3, NoneAssumption
  <2>6. RecordsTyped' /\ RecordsInv'
    BY <1>0, <2>2, <2>4, <2>5 DEF RecordsTyped, RecordsInv
  <2> QED
    BY <2>2, <2>3, <2>6, RecordEdit
<1>4. ASSUME NEW k \in Skills, ApproveSkill(k) \/ RevokeSkill(k) PROVE GovInv'
  <2>1. MarkPending /\ catalog[k] # None /\ UNCHANGED <<apps, source, catalog, binding, pub, wire, head>>
    BY <1>4 DEF ApproveSkill, RevokeSkill, Approvable
  <2>2. catalog[k] \in Item /\ approval[k] \in Approval \cup {None}
    BY <1>0, <2>1 DEF RecordsTyped
  <2>3. PICK row \in Approval : approval' = [approval EXCEPT ![k] = row]
    <3>1. CASE ApproveSkill(k)
      BY <3>1 DEF ApproveSkill, Approval
    <3>2. CASE RevokeSkill(k)
      <4>1. catalog[k].fingerprint \in Fingerprints
        BY <2>2 DEF Item
      <4>2. approval[k] # None => approval[k].policy \in Policies
        BY <2>2 DEF Approval
      <4> DEFINE prior == IF approval[k] # None /\ approval[k].state = "approved"
                          THEN approval[k].policy ELSE OneShot
                 row == [state |-> "revoked", fingerprint |-> catalog[k].fingerprint, policy |-> prior]
      <4>3. row \in Approval
        BY <4>1, <4>2, PolicyAssumption DEF Approval
      <4>4. approval' = [approval EXCEPT ![k] = row]
        BY <3>2 DEF RevokeSkill
      <4> QED
        BY <4>3, <4>4
    <3> QED
      BY <1>4, <3>1, <3>2
  <2>4. RecordsTyped' /\ RecordsInv'
    BY <1>0, <2>1, <2>3 DEF RecordsTyped, RecordsInv
  <2> QED
    BY <2>1, <2>4, RecordEdit
<1>5. ASSUME NEW a \in Apps, NEW k \in Skills,
             CreateBinding(a, k) \/ UpdateBinding(a, k) \/ DeleteBinding(a, k)
      PROVE  GovInv'
  <2>1. UNCHANGED <<apps, source, catalog, approval, pub, wire, head>>
    BY <1>5 DEF CreateBinding, UpdateBinding, DeleteBinding
  <2>2. PICK to \in {"enabled", "disabled", None} : binding' = [binding EXCEPT ![<<a, k>>] = to]
    BY <1>5 DEF CreateBinding, UpdateBinding, DeleteBinding
  <2>3. MarkPending \/ (UNCHANGED state /\ binding' = binding)
    BY <1>0, <1>5 DEF CreateBinding, UpdateBinding, DeleteBinding, RecordsTyped
  <2>4. RecordsTyped' /\ RecordsInv'
    BY <1>0, <2>1, <2>2 DEF RecordsTyped, RecordsInv
  <2> QED
    BY <2>1, <2>3, <2>4, RecordEdit
<1>6. ASSUME NEW a \in Apps, CreateApplication(a) PROVE GovInv'
  <2>1. RecordsTyped' /\ RecordsInv' /\ UNCHANGED <<source, catalog, approval, binding, state, pub, wire, head>>
    BY <1>0, <1>6 DEF CreateApplication, RecordsTyped, RecordsInv
  <2> QED
    BY <2>1, RecordEdit
<1>7. ASSUME NEW a \in Apps, DeleteApplication(a) PROVE GovInv'
  <2>1. RecordsTyped' /\ RecordsInv' /\ UNCHANGED <<state, pub, wire, head>>
    BY <1>0, <1>7 DEF DeleteApplication, RecordsTyped, RecordsInv
  <2>2. TypeOK'
    BY <2>1 DEF GovInv, TypeOK, RecordsTyped
  <2>3. \A x \in Projections : Drawn(x) => Drawn(x)'
    BY <1>7, DrawnOverDelete DEF GovInv
  <2> QED
    BY <2>1, <2>2, <2>3, EditKeeps
<1> QED
  BY <1>1, <1>2, <1>3, <1>4, <1>5, <1>6, <1>7 DEF EditSource, EditSkill, EditBinding, EditApplication

\* What the execution subsystem has reached stays reached: a later head is a higher one.
LEMMA ReachedStays ==
  ASSUME TypeOK, NEW x \in Projections, Reached(x), NEW y \in Projections,
         head' = head \/ (Accepts(y) /\ head' = y)
  PROVE  Reached(x)'
<1>1. x.revision \in Nat /\ y.revision \in Nat /\ (head # None => head.revision \in Nat)
  BY DEF TypeOK, Projections
<1>2. y # None
  BY NoneAssumption
<1> QED
  BY <1>1, <1>2 DEF Reached, Accepts

\* A step of one publisher keeps the invariant, if it keeps what concerns that publisher.
LEMMA PublisherStep ==
  ASSUME GovInv, NEW p \in Publishers, NEW new \in Publishing, NEW w \in Projections \cup {None},
         UNCHANGED records, state' \in StateRow,
         state'.local = state.local \/ state'.local > state.local,
         pub' = [pub EXCEPT ![p] = new], wire' = [wire EXCEPT ![p] = w],
         head' = head \/ (wire[p] # None /\ Accepts(wire[p]) /\ head' = wire[p]),
         w # None => Drawn(w)', new.projection # None => Drawn(new.projection)',
         PublisherInv(p)', StateInv'
  PROVE  GovInv'
<1>1. /\ pub' \in [Publishers -> Publishing] /\ pub'[p] = new
      /\ wire' \in [Publishers -> Projections \cup {None}] /\ wire'[p] = w
      /\ \A q \in Publishers \ {p} : pub'[q] = pub[q] /\ wire'[q] = wire[q]
      /\ head' \in Projections \cup {None}
  BY DEF GovInv, TypeOK
<1>2. TypeOK'
  BY <1>1 DEF GovInv, TypeOK, records
<1>3. RecordsInv'
  BY DEF GovInv, RecordsInv, records
<1>4. state.local \in Nat /\ state'.local \in Nat /\ state'.local >= state.local
  BY DEF GovInv, TypeOK, StateRow
<1>5. ASSUME NEW x \in Projections, Drawn(x) PROVE Drawn(x)'
  <2>1. x.revision \in Int
    BY DEF Projections
  <2> QED
    BY <1>4, <1>5, <2>1, DrawnStays DEF records
<1>6. \A x \in Projections : Reached(x) => Reached(x)'
  <2>1. CASE head' = head
    BY <2>1 DEF Reached
  <2>2. CASE wire[p] # None /\ Accepts(wire[p]) /\ head' = wire[p]
    <3>1. wire[p] \in Projections
      BY <2>2 DEF GovInv, TypeOK
    <3> QED
      BY <2>2, <3>1, ReachedStays DEF GovInv
  <2> QED
    BY <2>1, <2>2
<1>7. ProjectionsInv'
  <2>1. \A q \in Publishers : wire[q] \in Projections \cup {None} /\ pub[q].projection \in Projections \cup {None}
    BY DEF GovInv, TypeOK, Publishing
  <2>2. head \in Projections \cup {None}
    BY DEF GovInv, TypeOK
  <2>3. (head # None => Drawn(head))'
    <3>1. \A x \in Projections : x = head' /\ Drawn(x)' => Drawn(head)'
      BY DEF Drawn, InForce
    <3> QED
      BY <1>1, <1>5, <2>1, <2>2, <3>1 DEF GovInv, ProjectionsInv
  <2>4. ASSUME NEW q \in Publishers
        PROVE  (wire[q] # None => Drawn(wire[q]))' /\ (pub[q].projection # None => Drawn(pub[q].projection))'
    <3>1. \A x : x = wire'[q] /\ Drawn(x)' => Drawn(wire[q])'
      BY DEF Drawn, InForce
    <3>2. \A x : x = pub'[q].projection /\ Drawn(x)' => Drawn(pub[q].projection)'
      BY DEF Drawn, InForce
    <3>3. CASE q = p
      BY <1>1, <3>1, <3>2, <3>3
    <3>4. CASE q # p
      BY <1>1, <1>5, <2>1, <3>1, <3>2, <3>4 DEF GovInv, ProjectionsInv
    <3> QED
      BY <3>3, <3>4
  <2> QED
    BY <2>3, <2>4 DEF ProjectionsInv
<1>8. ASSUME NEW q \in Publishers PROVE PublisherInv(q)'
  <2>1. CASE q = p
    BY <2>1
  <2>2. CASE q # p
    <3>1. PublisherInv(q) /\ pub'[q] = pub[q] /\ wire'[q] = wire[q] /\ pub[q] \in Publishing
      BY <1>1, <2>2 DEF GovInv, TypeOK
    <3>2. pub[q].projection \in Projections \cup {None} /\ pub[q].expected \in Nat
      BY <3>1 DEF Publishing
    <3>3. pub[q].pc = "acked" => Reached(pub[q].projection)'
      BY <1>6, <3>1, <3>2 DEF PublisherInv
    <3> QED
      BY <1>4, <3>1, <3>2, <3>3 DEF PublisherInv
  <2> QED
    BY <2>1, <2>2
<1> QED
  BY <1>2, <1>3, <1>7, <1>8 DEF GovInv

LEMMA PublicationKeepsInv ==
  ASSUME GovInv, NEW p \in Publishers,
         \/ Review(p) \/ SubmitReviewed(p) \/ SendProjection(p) \/ DeliverProjection(p)
         \/ LoseRequest(p) \/ GiveUpWaiting(p) \/ MarkPublished(p) \/ MarkFailed(p)
  PROVE  GovInv'
<1>0. /\ state \in StateRow /\ state.local \in Nat /\ pub[p] \in Publishing
      /\ wire[p] \in Projections \cup {None} /\ wire = [wire EXCEPT ![p] = wire[p]]
      /\ pub = [pub EXCEPT ![p] = pub[p]]
      /\ pub[p].projection \in Projections \cup {None} /\ pub[p].expected \in Nat
      /\ PublisherInv(p) /\ StateInv
      /\ pub[p].projection # None => Drawn(pub[p].projection)
      /\ wire[p] # None => Drawn(wire[p])
      /\ state.digest \in Projections \cup {None}
  BY DEF GovInv, TypeOK, StateRow, Publishing, ProjectionsInv
<1>1. ASSUME UNCHANGED records, state'.local = state.local, NEW x \in Projections, Drawn(x)
      PROVE  Drawn(x)'
  <2>1. x.revision \in Int
    BY DEF Projections
  <2> QED
    BY <1>0, <1>1, <2>1, DrawnStays DEF records
<1>2. ASSUME UNCHANGED <<state, head>> PROVE StateInv'
  BY <1>0, <1>2 DEF StateInv, Reached
<1>3. CASE Review(p)
  <2>1. PICK new : /\ pub' = [pub EXCEPT ![p] = new]
                   /\ new = [Idle EXCEPT !.pc = "reviewed", !.expected = state'.local]
    BY <1>3 DEF Review
  <2>2. /\ wire[p] = None /\ UNCHANGED <<records, wire, head>>
        /\ IF state.local = 0 THEN MarkPending ELSE UNCHANGED state
    BY <1>3 DEF Review, ConfigureState
  <2>3. /\ state' \in StateRow /\ state'.local \in Nat \ {0}
        /\ state'.local = state.local \/ state'.local > state.local
        /\ state' = state \/ (state'.sync = "pending" /\ state'.published = state.published
                             /\ state'.digest = state.digest /\ state'.snapshot = state.snapshot)
    BY <1>0, <2>2, MarkPendingEffect DEF GovInv
  <2>4. new \in Publishing /\ new.projection = None /\ new.pc = "reviewed" /\ new.expected = state'.local
    BY <2>1, <2>3 DEF Idle, Publishing
  <2>5. PublisherInv(p)'
    <3>1. pub'[p] = new /\ wire'[p] = None
      BY <2>1, <2>2 DEF GovInv, TypeOK
    <3> QED
      BY <2>3, <2>4, <3>1 DEF PublisherInv
  <2>6. StateInv'
    BY <1>0, <1>2, <2>2, <2>3 DEF StateInv, Reached
  <2> QED
    BY <1>0, <2>1, <2>2, <2>3, <2>4, <2>5, <2>6, PublisherStep
<1>4. CASE SubmitReviewed(p)
  <2>1. PICK new : /\ pub' = [pub EXCEPT ![p] = new]
                   /\ new \in {Idle, [pub[p] EXCEPT !.pc = "checked"]}
    BY <1>0, <1>4 DEF SubmitReviewed
  <2>2. pub[p].pc = "reviewed" /\ UNCHANGED <<records, state, wire, head>>
    BY <1>4 DEF SubmitReviewed
  <2>3. /\ new \in Publishing
        /\ \/ new.pc = "idle" /\ new.projection = None
           \/ new.pc = "checked" /\ new.projection = pub[p].projection /\ new.expected = pub[p].expected
    BY <1>0, <2>1 DEF Idle, Publishing
  <2>4. PublisherInv(p)'
    <3>1. pub'[p] = new /\ wire'[p] = wire[p]
      BY <2>1, <2>2 DEF GovInv, TypeOK
    <3> QED
      BY <1>0, <2>2, <2>3, <3>1 DEF PublisherInv
  <2>5. new.projection # None => Drawn(new.projection)'
    BY <1>0, <1>1, <2>2, <2>3
  <2>6. wire[p] = None
    BY <1>0, <2>2 DEF PublisherInv
  <2> QED
    BY <1>0, <1>2, <2>1, <2>2, <2>3, <2>4, <2>5, <2>6, PublisherStep
<1>5. CASE SendProjection(p)
  <2>1. pub[p].pc = "checked" /\ wire[p] = None /\ UNCHANGED <<records, state, head>>
    BY <1>0, <1>5 DEF SendProjection, PublisherInv
  <2>2. CASE state.local # pub[p].expected
    <3>1. pub' = [pub EXCEPT ![p] = Idle] /\ wire' = wire
      BY <1>5, <2>2 DEF SendProjection
    <3>2. Idle \in Publishing /\ Idle.projection = None /\ Idle.pc = "idle"
      BY DEF Idle, Publishing
    <3>3. PublisherInv(p)'
      <4>1. pub'[p] = Idle /\ wire'[p] = None
        BY <2>1, <3>1 DEF GovInv, TypeOK
      <4> QED
        BY <3>2, <4>1 DEF PublisherInv
    <3> QED
      BY <1>0, <1>2, <2>1, <3>1, <3>2, <3>3, PublisherStep
  <2>3. CASE state.local = pub[p].expected
    <3>1. PICK x, new : /\ x = Projection /\ new = [pub[p] EXCEPT !.pc = "waiting", !.projection = x]
                        /\ pub' = [pub EXCEPT ![p] = new] /\ wire' = [wire EXCEPT ![p] = x]
      BY <1>5, <2>3 DEF SendProjection, GovInv, TypeOK
    <3>2. x \in Projections /\ x.revision = state.local /\ x.items = ProjectionItems /\ x # None
      BY <3>1, ProjectionTyped, NoneAssumption DEF GovInv, Projection
    <3>3. Drawn(x)
      BY <1>0, <2>1, <2>3, <3>2, CurrentIsInForce DEF GovInv, Drawn, PublisherInv
    <3>4. Drawn(x)'
      BY <1>1, <2>1, <3>2, <3>3
    <3>5. /\ new \in Publishing /\ new.projection = x /\ new.pc = "waiting"
          /\ new.expected = pub[p].expected
      BY <1>0, <3>1, <3>2 DEF Publishing
    <3>6. PublisherInv(p)'
      <4>1. pub'[p] = new /\ wire'[p] = x
        BY <3>1 DEF GovInv, TypeOK
      <4> QED
        BY <1>0, <2>1, <2>3, <3>2, <3>5, <4>1 DEF PublisherInv
    <3> QED
      BY <1>0, <1>2, <2>1, <3>1, <3>2, <3>4, <3>5, <3>6, PublisherStep
  <2> QED
    BY <2>2, <2>3
<1>6. CASE DeliverProjection(p)
  <2>1. /\ wire[p] # None /\ wire[p] \in Projections
        /\ head' = IF Accepts(wire[p]) THEN wire[p] ELSE head
        /\ wire' = [wire EXCEPT ![p] = None]
        /\ UNCHANGED <<records, state>>
    BY <1>0, <1>6 DEF DeliverProjection
  <2>2. PICK new : /\ pub' = [pub EXCEPT ![p] = new]
                   /\ \/ pub[p].pc = "waiting"
                         /\ new = [pub[p] EXCEPT !.pc = IF Answers(wire[p]) THEN "acked" ELSE "failing"]
                      \/ new = pub[p]
    BY <1>0, <1>6 DEF DeliverProjection
  <2>3. /\ new \in Publishing /\ new.projection = pub[p].projection /\ new.expected = pub[p].expected
        /\ \/ new.pc = pub[p].pc
           \/ pub[p].pc = "waiting" /\ new.pc = "failing"
           \/ pub[p].pc = "waiting" /\ new.pc = "acked" /\ Answers(wire[p])
    BY <1>0, <2>2 DEF Publishing
  <2>4. new.pc = "acked" => /\ pub[p].pc = "waiting" /\ Answers(wire[p])
                            /\ wire[p] = pub[p].projection
    BY <1>0, <2>1, <2>3 DEF PublisherInv
  <2>5. new.pc = "acked" => head' = pub[p].projection /\ head' # None
    BY <2>1, <2>4 DEF Answers
  <2>6. PublisherInv(p)'
    <3>1. pub'[p] = new /\ wire'[p] = None
      BY <2>1, <2>2 DEF GovInv, TypeOK
    <3>2. new.pc = "acked" => Reached(pub[p].projection)'
      BY <2>3, <2>5, <3>1 DEF Reached
    <3> QED
      BY <1>0, <2>1, <2>3, <3>1, <3>2 DEF PublisherInv
  <2>7. StateInv'
    <3>1. state.digest # None /\ Reached(state.digest) => Reached(state.digest)'
      <4> SUFFICES ASSUME state.digest # None, Reached(state.digest) PROVE Reached(state.digest)'
        OBVIOUS
      <4>1. PICK x \in Projections : x = state.digest
        BY <1>0
      <4>2. Reached(x)'
        BY <2>1, <4>1, ReachedStays DEF GovInv
      <4> QED
        BY <2>1, <4>1, <4>2 DEF Reached
    <3> QED
      BY <1>0, <2>1, <3>1 DEF StateInv
  <2>8. new.projection # None => Drawn(new.projection)'
    BY <1>0, <1>1, <2>1, <2>3
  <2> QED
    BY <1>0, <2>1, <2>2, <2>3, <2>6, <2>7, <2>8, PublisherStep
<1>7. CASE LoseRequest(p)
  <2>1. wire' = [wire EXCEPT ![p] = None] /\ pub' = [pub EXCEPT ![p] = pub[p]]
        /\ UNCHANGED <<records, state, pub, head>>
    BY <1>0, <1>7 DEF LoseRequest
  <2>2. PublisherInv(p)'
    <3>1. wire'[p] = None
      BY <2>1 DEF GovInv, TypeOK
    <3> QED
      BY <1>0, <2>1, <3>1 DEF PublisherInv, Reached
  <2>3. \A new : new = pub[p] => (new.projection # None => Drawn(new.projection)')
    BY <1>0, <1>1, <2>1
  <2> QED
    BY <1>0, <1>2, <2>1, <2>2, <2>3, PublisherStep
<1>8. CASE GiveUpWaiting(p)
  <2>1. PICK new, w : /\ pub' = [pub EXCEPT ![p] = new] /\ new = [pub[p] EXCEPT !.pc = "failing"]
                      /\ w = wire[p] /\ wire' = [wire EXCEPT ![p] = w]
    BY <1>0, <1>8 DEF GiveUpWaiting, GovInv, TypeOK
  <2>2. pub[p].pc = "waiting" /\ UNCHANGED <<records, state, wire, head>>
    BY <1>8 DEF GiveUpWaiting
  <2>3. /\ new \in Publishing /\ new.projection = pub[p].projection
        /\ new.expected = pub[p].expected /\ new.pc = "failing"
    BY <1>0, <2>1 DEF Publishing
  <2>4. PublisherInv(p)'
    <3>1. pub'[p] = new
      BY <2>1 DEF GovInv, TypeOK
    <3> QED
      BY <1>0, <2>2, <2>3, <3>1 DEF PublisherInv
  <2>5. (new.projection # None => Drawn(new.projection)') /\ (w # None => Drawn(w)')
    BY <1>0, <1>1, <2>1, <2>2, <2>3
  <2> QED
    BY <1>0, <1>2, <2>1, <2>2, <2>3, <2>4, <2>5, PublisherStep
<1>9. CASE MarkPublished(p)
  <2>1. pub[p].pc = "acked" /\ wire[p] = None /\ pub' = [pub EXCEPT ![p] = Idle] /\ UNCHANGED <<records, wire, head>>
    BY <1>0, <1>9 DEF MarkPublished, PublisherInv
  <2>2. Idle \in Publishing /\ Idle.projection = None /\ Idle.pc = "idle"
    BY DEF Idle, Publishing
  <2>3. PublisherInv(p)'
    <3>1. pub'[p] = Idle /\ wire'[p] = None
      BY <2>1 DEF GovInv, TypeOK
    <3> QED
      BY <2>2, <3>1 DEF PublisherInv
  <2>4. state' \in StateRow /\ state'.local = state.local /\ StateInv'
    <3>1. CASE state' = state
      BY <1>0, <1>2, <2>1, <3>1
    <3>2. CASE state' # state
      <4> DEFINE sent == pub[p].projection
      <4>1. state' = [state EXCEPT !.published = sent.revision, !.digest = sent,
                                   !.snapshot = Redact(sent.items), !.sync = SyncAfter(sent.revision)]
        BY <1>9, <3>2 DEF MarkPublished
      <4>2. sent \in Projections /\ Reached(sent)
        BY <1>0, <2>1 DEF PublisherInv
      <4>3. sent.revision \in Nat /\ sent.items \in SUBSET Projected
        BY <4>2 DEF Projections, Projected
      <4>4. Redact(sent.items) \in Reviews
        BY <4>3, RedactTyped
      <4>5. SyncAfter(sent.revision) \in {"synchronized", "pending"}
            /\ (SyncAfter(sent.revision) = "synchronized" => sent.revision = state.local)
        BY DEF SyncAfter
      <4> HIDE DEF sent
      <4>6. /\ state' \in StateRow /\ state'.local = state.local
            /\ state'.published = sent.revision /\ state'.digest = sent
            /\ state'.snapshot = Redact(sent.items) /\ state'.sync = SyncAfter(sent.revision)
        BY <1>0, <4>1, <4>2, <4>3, <4>4, <4>5 DEF StateRow
      <4>7. sent # None /\ sent.revision # None
        BY <4>2, <4>3, NoneAssumption
      <4>8. StateInv'
        BY <2>1, <4>2, <4>5, <4>6, <4>7 DEF StateInv, Reached
      <4> QED
        BY <4>6, <4>8
    <3> QED
      BY <3>1, <3>2
  <2> QED
    BY <1>0, <2>1, <2>2, <2>3, <2>4, PublisherStep
<1>10. CASE MarkFailed(p)
  <2>1. PICK w : /\ pub' = [pub EXCEPT ![p] = Idle]
                 /\ w = wire[p] /\ wire' = [wire EXCEPT ![p] = w]
    BY <1>0, <1>10 DEF MarkFailed
  <2>2. state' = [state EXCEPT !.sync = "failed"] /\ UNCHANGED <<records, wire, head>>
    BY <1>10 DEF MarkFailed
  <2>3. /\ state' \in StateRow /\ state'.local = state.local /\ state'.sync = "failed"
        /\ state'.published = state.published /\ state'.digest = state.digest
        /\ state'.snapshot = state.snapshot
    BY <1>0, <2>2 DEF StateRow
  <2>4. Idle \in Publishing /\ Idle.projection = None /\ Idle.pc = "idle"
    BY DEF Idle, Publishing
  <2>5. PublisherInv(p)'
    <3>1. pub'[p] = Idle
      BY <2>1 DEF GovInv, TypeOK
    <3> QED
      BY <2>4, <3>1 DEF PublisherInv
  <2>6. StateInv'
    BY <1>0, <2>2, <2>3 DEF StateInv, Reached
  <2>7. w # None => Drawn(w)'
    BY <1>0, <1>1, <2>1, <2>2, <2>3
  <2> QED
    BY <1>0, <2>1, <2>2, <2>3, <2>4, <2>5, <2>6, <2>7, PublisherStep
<1> QED
  BY <1>3, <1>4, <1>5, <1>6, <1>7, <1>8, <1>9, <1>10

LEMMA GovInvInit == Init => GovInv
<1> SUFFICES ASSUME Init PROVE GovInv
  OBVIOUS
<1>1. TypeOK
  BY NoneAssumption DEF Init, TypeOK, StateRow, Publishing, InitialState, Idle
<1>2. RecordsInv /\ ProjectionsInv
  BY DEF Init, RecordsInv, ProjectionsInv, Idle
<1>3. StateInv
  BY DEF Init, StateInv, InitialState
<1>4. \A p \in Publishers : PublisherInv(p)
  BY DEF Init, PublisherInv, Idle
<1> QED
  BY <1>1, <1>2, <1>3, <1>4 DEF GovInv

LEMMA GovInvStep == GovInv /\ [Next]_vars => GovInv'
<1> SUFFICES ASSUME GovInv, [Next]_vars PROVE GovInv'
  OBVIOUS
<1>1. CASE EditSource \/ EditSkill \/ EditBinding \/ EditApplication
  BY <1>1, EditsKeepInv
<1>2. CASE Publication
  BY <1>2, PublicationKeepsInv DEF Publication
<1>3. CASE RestartBuilder
  <2>1. pub' = [p \in Publishers |-> Idle] /\ UNCHANGED <<records, state, wire, head>>
    BY <1>3 DEF RestartBuilder
  <2>2. Idle \in Publishing /\ Idle.pc = "idle" /\ Idle.projection = None
    BY DEF Idle, Publishing
  <2>3. TypeOK' /\ RecordsInv'
    BY <2>1, <2>2 DEF GovInv, TypeOK, RecordsInv, records
  <2>4. ASSUME NEW x \in Projections, Drawn(x) PROVE Drawn(x)'
    <3>1. x.revision \in Int /\ state.local \in Nat
      BY DEF Projections, GovInv, TypeOK, StateRow
    <3> QED
      BY <2>1, <2>4, <3>1, DrawnStays DEF records
  <2>5. ProjectionsInv'
    BY <2>1, <2>2, <2>4 DEF GovInv, TypeOK, ProjectionsInv
  <2>6. StateInv' /\ \A p \in Publishers : PublisherInv(p)'
    BY <2>1, <2>2 DEF GovInv, StateInv, PublisherInv, Reached
  <2> QED
    BY <2>3, <2>5, <2>6 DEF GovInv
<1>4. CASE UNCHANGED vars
  <2>1. TypeOK' /\ RecordsInv'
    BY <1>4 DEF vars, GovInv, TypeOK, RecordsInv
  <2>2. ASSUME NEW x \in Projections, Drawn(x) PROVE Drawn(x)'
    <3>1. x.revision \in Int /\ state.local \in Nat
      BY DEF Projections, GovInv, TypeOK, StateRow
    <3> QED
      BY <1>4, <2>2, <3>1, DrawnStays DEF vars
  <2>3. ProjectionsInv'
    BY <1>4, <2>2 DEF vars, GovInv, TypeOK, Publishing, ProjectionsInv
  <2>4. StateInv' /\ \A p \in Publishers : PublisherInv(p)'
    BY <1>4 DEF vars, GovInv, StateInv, PublisherInv, Reached
  <2> QED
    BY <2>1, <2>3, <2>4 DEF GovInv
<1> QED
  BY <1>1, <1>2, <1>3, <1>4 DEF Next

\* The inductive invariant holds in every reachable state.
THEOREM GovInvariant == Spec => []GovInv
<1> QED
  BY GovInvInit, GovInvStep, PTL DEF Spec

\* The records, the state row, the publications and the active head keep their types;
\* a review is never taken for the absence of one.
THEOREM TypeCorrect == Spec => []TypeOK
<1>1. GovInv => TypeOK
  BY DEF GovInv
<1> QED
  BY <1>1, GovInvariant, PTL

\* What a publisher has sent is the revision that its administrator has seen.
THEOREM ReviewedIsSent == Spec => []SentWasReviewed
<1>1. GovInv => SentWasReviewed
  BY DEF GovInv, PublisherInv, SentWasReviewed
<1> QED
  BY <1>1, GovInvariant, PTL

\* In a state that shows itself synchronized the active head is what was acknowledged,
\* and what was acknowledged is in force.
LEMMA SynchronizedHead ==
  ASSUME GovInv, state.sync = "synchronized"
  PROVE  /\ head # None => state.published # None
         /\ state.published # None =>
              /\ head # None /\ head.revision = state.local /\ InForce(head.items)
              /\ head.items \in SUBSET Projected
              /\ state.snapshot = Redact(head.items)
<1>1. state.local \in Nat /\ (head # None => head \in Projections)
  BY DEF GovInv, TypeOK, StateRow
<1>2. head # None => Drawn(head) /\ head.revision \in Nat
  BY <1>1 DEF GovInv, ProjectionsInv, Projections
<1>3. head # None => state.published # None
  BY <1>1, <1>2 DEF GovInv, StateInv, Drawn
<1>4. ASSUME state.published # None
      PROVE  /\ head # None /\ head.revision = state.local /\ InForce(head.items)
             /\ head.items \in SUBSET Projected
             /\ state.snapshot = Redact(head.items)
  <2>1. /\ state.published = state.local /\ Reached(state.digest)
        /\ state.digest.revision = state.local /\ state.snapshot = Redact(state.digest.items)
    BY <1>4 DEF GovInv, StateInv
  <2>2. head # None /\ head.revision <= state.local
    BY <1>1, <1>2, <2>1 DEF Reached, Drawn
  <2>3. head = state.digest
    BY <1>1, <1>2, <2>1, <2>2 DEF Reached
  <2> QED
    BY <1>1, <1>2, <2>1, <2>2, <2>3 DEF Drawn, Projections, Projected
<1> QED
  BY <1>3, <1>4

\* Synchronized means that the current records are in force, but for bindings that went
\* with their application, and that the review page says so.
THEOREM SynchronizedHolds == Spec => []SynchronizedIsInForce
<1>1. GovInv => SynchronizedIsInForce
  <2> SUFFICES ASSUME GovInv, state.sync = "synchronized", state.published # None
               PROVE  /\ HeadRevision = state.local
                      /\ ProjectionItems \subseteq head.items
                      /\ \A i \in head.items \ ProjectionItems : binding[<<i.app, i.skill>>] = None
                      /\ head.items = ProjectionItems => PreviewState = "published"
    BY DEF SynchronizedIsInForce
  <2>1. /\ head # None /\ head.revision = state.local /\ InForce(head.items)
        /\ head.items \in SUBSET Projected
        /\ state.snapshot = Redact(head.items)
    BY SynchronizedHead
  <2>2. HeadRevision = state.local
    BY <2>1 DEF HeadRevision
  <2>3. head.items = ProjectionItems => PreviewState = "published"
    BY <2>1, RedactTyped DEF PreviewState
  <2> QED
    BY <2>1, <2>2, <2>3 DEF InForce
<1> QED
  BY <1>1, GovInvariant, PTL

\* While the Builder shows itself synchronized, no skill it has revoked can be selected.
THEOREM RevocationHolds == Spec => []RevokedIsNotSelectable
<1>1. GovInv => RevokedIsNotSelectable
  <2> SUFFICES ASSUME GovInv, state.sync = "synchronized", head # None,
                      NEW i \in head.items, Selectable(i)
               PROVE  approval[i.skill] # None /\ approval[i.skill].state = "approved"
    BY DEF RevokedIsNotSelectable
  <2>1. InForce(head.items)
    BY SynchronizedHead
  <2> QED
    BY <2>1 DEF InForce, Selectable
<1> QED
  BY <1>1, GovInvariant, PTL

----------------------------------------------------------------------------
(* The Builder, the wire and the execution subsystem implement the register. *)

LEMMA RevisionsTyped ==
  ASSUME GovInv
  PROVE  /\ state.local \in Nat /\ HeadRevision \in Nat /\ Acknowledged \in Nat
         /\ HeadRevision <= state.local /\ Acknowledged <= HeadRevision
         /\ head # None => HeadRevision = head.revision
<1>1. /\ state.local \in Nat /\ state.published \in Nat \cup {None}
      /\ head # None => head.revision \in Nat /\ Drawn(head)
  BY DEF GovInv, TypeOK, StateRow, Projections, ProjectionsInv
<1>2. state.published # None =>
        head # None /\ state.published <= head.revision
  BY <1>1 DEF GovInv, StateInv, Reached
<1> QED
  BY <1>1, <1>2 DEF HeadRevision, Acknowledged, Drawn

\* Every step is a step of the register, or none.
LEMMA StepIsRegisters ==
  ASSUME GovInv, GovInv', [Next]_vars
  PROVE  [Register!Next]_<<state.local, HeadRevision, Acknowledged>>
<1> USE DEF Register!Next, Register!Edit, Register!Activate, Register!Acknowledge
<1>0. /\ state.local \in Nat /\ HeadRevision \in Nat /\ Acknowledged \in Nat
      /\ state'.local \in Nat /\ HeadRevision' \in Nat /\ Acknowledged' \in Nat
      /\ HeadRevision' <= state'.local /\ Acknowledged' <= HeadRevision'
  <2>1. (state.local \in Nat /\ HeadRevision \in Nat /\ Acknowledged \in Nat
         /\ HeadRevision <= state.local /\ Acknowledged <= HeadRevision)'
    BY DEF GovInv, TypeOK, StateRow, Projections, ProjectionsInv, StateInv, Reached, HeadRevision, Acknowledged, Drawn
  <2> QED
    BY <2>1, RevisionsTyped
<1>1. ASSUME UNCHANGED head, MarkPending \/ UNCHANGED state
      PROVE  [Register!Next]_<<state.local, HeadRevision, Acknowledged>>
  <2>1. HeadRevision' = HeadRevision
    BY <1>1 DEF HeadRevision
  <2>2. Acknowledged' = Acknowledged /\ (state'.local > state.local \/ state'.local = state.local)
    BY <1>0, <1>1, MarkPendingEffect DEF Acknowledged, GovInv
  <2> QED
    BY <1>0, <2>1, <2>2
<1>2. CASE EditSource \/ EditSkill \/ EditBinding \/ EditApplication
  <2>1. UNCHANGED head /\ (MarkPending \/ UNCHANGED state)
    <3>1. EditSource => UNCHANGED head /\ (MarkPending \/ UNCHANGED state)
      BY DEF EditSource, CreateSource, UpdateSource, RefreshCatalog
    <3>2. EditSkill => UNCHANGED head /\ (MarkPending \/ UNCHANGED state)
      BY DEF EditSkill, ApproveSkill, RevokeSkill
    <3>3. EditBinding => UNCHANGED head /\ (MarkPending \/ UNCHANGED state)
      BY DEF EditBinding, CreateBinding, UpdateBinding, DeleteBinding
    <3>4. EditApplication => UNCHANGED <<head, state>>
      BY DEF EditApplication, CreateApplication, DeleteApplication
    <3> QED
      BY <1>2, <3>1, <3>2, <3>3, <3>4
  <2> QED
    BY <1>1, <2>1
<1>3. ASSUME NEW p \in Publishers, DeliverProjection(p)
      PROVE  [Register!Next]_<<state.local, HeadRevision, Acknowledged>>
  <2>1. state' = state /\ wire[p] # None /\ head' = IF Accepts(wire[p]) THEN wire[p] ELSE head
    BY <1>3 DEF DeliverProjection
  <2>2. wire[p].revision \in Nat /\ wire[p].revision >= 1
    BY <2>1 DEF GovInv, TypeOK, Projections, ProjectionsInv, Drawn
  <2>3. HeadRevision' = HeadRevision \/ HeadRevision' > HeadRevision
    <3>1. CASE Accepts(wire[p])
      BY <2>1, <2>2, <3>1 DEF Accepts, HeadRevision
    <3>2. CASE ~Accepts(wire[p])
      BY <2>1, <3>2 DEF HeadRevision
    <3> QED
      BY <3>1, <3>2
  <2>4. Acknowledged' = Acknowledged
    BY <2>1 DEF Acknowledged
  <2> QED
    BY <1>0, <2>1, <2>3, <2>4
<1>4. ASSUME NEW p \in Publishers, MarkPublished(p)
      PROVE  [Register!Next]_<<state.local, HeadRevision, Acknowledged>>
  <2> DEFINE sent == pub[p].projection
  <2>1. head' = head /\ (state' = state \/ (Recordable(sent.revision) /\
          state' = [state EXCEPT !.published = sent.revision, !.digest = sent,
                                 !.snapshot = Redact(sent.items), !.sync = SyncAfter(sent.revision)]))
    BY <1>4 DEF MarkPublished
  <2>2. state \in StateRow /\ pub[p].pc = "acked" /\ PublisherInv(p) /\ sent \in Projections \cup {None}
    BY <1>4 DEF MarkPublished, GovInv, TypeOK, Publishing
  <2>3. sent.revision \in Nat
    BY <2>2 DEF PublisherInv, Projections
  <2> HIDE DEF sent
  <2>4. CASE state' = state
    BY <2>1, <2>4 DEF HeadRevision, Acknowledged
  <2>5. CASE state' # state
    <3>1. state'.local = state.local /\ state'.published = sent.revision
      BY <2>1, <2>2, <2>5 DEF StateRow
    <3>2. Acknowledged' = sent.revision
      BY <2>3, <3>1, NoneAssumption DEF Acknowledged
    <3>3. state.published = None \/ sent.revision >= state.published
      BY <2>1, <2>5 DEF Recordable
    <3>4. sent.revision >= Acknowledged
      BY <2>3, <3>3 DEF Acknowledged
    <3>5. HeadRevision' = HeadRevision
      BY <2>1 DEF HeadRevision
    <3> QED
      BY <1>0, <3>1, <3>2, <3>4, <3>5
  <2> QED
    BY <2>4, <2>5
<1>5. ASSUME NEW p \in Publishers, MarkFailed(p)
      PROVE  [Register!Next]_<<state.local, HeadRevision, Acknowledged>>
  <2>1. head' = head /\ state' = [state EXCEPT !.sync = "failed"] /\ state \in StateRow
    BY <1>5 DEF MarkFailed, GovInv, TypeOK
  <2>2. state'.local = state.local /\ state'.published = state.published
    BY <2>1 DEF StateRow
  <2> QED
    BY <2>1, <2>2 DEF HeadRevision, Acknowledged
<1>6. ASSUME NEW p \in Publishers,
             Review(p) \/ SubmitReviewed(p) \/ SendProjection(p) \/ LoseRequest(p) \/ GiveUpWaiting(p)
      PROVE  [Register!Next]_<<state.local, HeadRevision, Acknowledged>>
  <2>1. UNCHANGED head /\ (MarkPending \/ UNCHANGED state)
    BY <1>6 DEF Review, ConfigureState, SubmitReviewed, SendProjection, LoseRequest, GiveUpWaiting
  <2> QED
    BY <1>1, <2>1
<1>7. CASE RestartBuilder \/ UNCHANGED vars
  <2>1. UNCHANGED <<head, state>>
    BY <1>7 DEF RestartBuilder, vars
  <2> QED
    BY <1>1, <2>1
<1> QED
  BY <1>2, <1>3, <1>4, <1>5, <1>6, <1>7 DEF Next, Publication

\* Publication implements GovernanceRegister: the active revision and the acknowledged one
\* only grow, the first never past the draft, the second never past the first.
THEOREM Refinement == Spec => RegisterSpec
<1>1. Init => Register!Init
  BY DEF Init, InitialState, HeadRevision, Acknowledged, Register!Init
<1>2. GovInv /\ GovInv' /\ [Next]_vars => [Register!Next]_<<state.local, HeadRevision, Acknowledged>>
  BY StepIsRegisters
<1> QED
  BY <1>1, <1>2, GovInvariant, PTL DEF Spec, RegisterSpec, Register!Spec, Register!vars
=============================================================================
