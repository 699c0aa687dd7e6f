-------------------- MODULE InstructionUnderstandingProofs --------------------
(***************************************************************************)
(* Theorems about InstructionUnderstanding, for all texts, catalogs,       *)
(* documents and answers of the compiler, and every number of records.     *)
(* The control is what is proved: which record is active, which one a      *)
(* restart brings back, and what a review is a review of.  What a parser   *)
(* or a compiler makes of one document is left to the runs.                *)
(***************************************************************************)
EXTENDS InstructionUnderstanding, TLAPS

----------------------------------------------------------------------------
(* What a compilation comes to.                                            *)
OutcomeType == [attached : BOOLEAN, valid : BOOLEAN, sound : BOOLEAN]

LEMMA OutcomesTyped ==
  /\ \A o \in Outcomes : o \in OutcomeType
  /\ \A o \in WithoutCompiler : o \in Outcomes /\ Publishes(o)
<1>1. ASSUME NEW doc \in Documents PROVE Unattached(doc) \in OutcomeType /\ ~Unattached(doc).attached
  BY DEF Unattached, OutcomeType, ParsedIsSound
<1>2. ASSUME NEW valid \in BOOLEAN, NEW sound PROVE Attached(valid, sound) \in OutcomeType
  BY DEF Attached, OutcomeType
<1>3. ASSUME NEW c \in Provided PROVE Outcome(c) \in OutcomeType
  <2> DEFINE d == Contract(RuntimeModel(c.doc), c.match)
             valid == ~Ambiguous(c.doc) /\ Validates(c.p, d)
  <2>1. valid \in BOOLEAN
    OBVIOUS
  <2>2. Outcome(c) = Attached(valid, RuntimeIsSound(c.p, Runtime(c.p, d)))
    BY DEF Outcome, Judged
  <2> HIDE DEF valid
  <2> QED
    BY <1>2, <2>1, <2>2
<1>4. \A o \in WithoutCompiler : o \in OutcomeType /\ ~o.attached
  BY <1>1 DEF WithoutCompiler
<1>5. \A o \in Outcomes : o \in OutcomeType
  BY <1>2, <1>3, <1>4 DEF Outcomes
<1> QED
  BY <1>4, <1>5 DEF Outcomes, Publishes

LEMMA NewRecordTyped ==
  ASSUME TypeOK, count < MaxRecords, NEW o \in Outcomes
  PROVE  /\ NewRecord(o) \in Record /\ NewRecord(o).id = count + 1
         /\ NewRecord(o).of = source
         /\ NewRecord(o).attached = o.attached /\ NewRecord(o).valid = o.valid
         /\ NewRecord(o).sound = o.sound
<1>1. o \in OutcomeType
  BY OutcomesTyped
<1>2. count + 1 \in 1..MaxRecords /\ source \in Inputs
  BY BoundsAssumption DEF TypeOK
<1> QED
  BY <1>1, <1>2 DEF NewRecord, Record, OutcomeType

----------------------------------------------------------------------------
(* The snapshots.                                                          *)
Readable == {disk[root] : root \in {x \in Roots : disk[x] # Nothing /\ disk[x].valid}}

\* The newest readable snapshot is a snapshot of one of the two roots.
LEMMA SnapshotIsNewest ==
  ASSUME TypeOK, NEW root \in Roots, disk[root] # Nothing, disk[root].valid
  PROVE  /\ Snapshot \in Readable /\ Snapshot # Nothing
         /\ disk[root].id <= Snapshot.id
<1> DEFINE valid == Readable
<1>1. \A r \in valid : r \in Record /\ r.id \in Nat /\ r # Nothing
  BY NothingAssumption, BoundsAssumption DEF Readable, TypeOK, Record
<1>2. disk[root] \in valid /\ valid # {}
  BY DEF Readable
<1>3. \E r \in valid : \A q \in valid : q.id <= r.id
  <2>1. \A r \in valid : r = disk["primary"] \/ r = disk["fallback"]
    BY DEF Readable, Roots
  <2>2. CASE disk["primary"] \in valid /\ disk["fallback"] \in valid
    <3>1. disk["primary"].id \in Nat /\ disk["fallback"].id \in Nat
      BY <1>1, <2>2
    <3>2. CASE disk["primary"].id <= disk["fallback"].id
      BY <2>1, <2>2, <3>1, <3>2
    <3>3. CASE ~(disk["primary"].id <= disk["fallback"].id)
      BY <2>1, <2>2, <3>1, <3>3
    <3> QED
      BY <3>2, <3>3
  <2>3. CASE ~(disk["primary"] \in valid /\ disk["fallback"] \in valid)
    <3>1. \A q \in valid : q = disk[root]
      BY <1>2, <2>1, <2>3
    <3> QED
      BY <1>1, <1>2, <3>1
  <2> QED
    BY <2>2, <2>3
<1>4. Snapshot = CHOOSE r \in valid : \A q \in valid : q.id <= r.id
  BY <1>2 DEF Snapshot, Readable
<1> HIDE DEF valid
<1>5. Snapshot \in valid /\ \A q \in valid : q.id <= Snapshot.id
  BY <1>3, <1>4
<1> QED
  BY <1>1, <1>2, <1>5 DEF valid

LEMMA SnapshotTyped ==
  ASSUME TypeOK, Snapshot # Nothing
  PROVE  /\ Snapshot \in Readable /\ Snapshot \in Record
         /\ \E root \in Roots : disk[root] # Nothing /\ disk[root].valid /\ disk[root] = Snapshot
         /\ \A root \in Roots : disk[root] # Nothing /\ disk[root].valid => disk[root].id <= Snapshot.id
<1>1. Readable # {}
  BY DEF Snapshot, Readable
<1>2. PICK root \in Roots : disk[root] # Nothing /\ disk[root].valid
  BY <1>1 DEF Readable
<1>3. Snapshot \in Readable
  BY <1>2, SnapshotIsNewest
<1>4. \E r \in Roots : disk[r] # Nothing /\ disk[r].valid /\ disk[r] = Snapshot
  BY <1>3 DEF Readable
<1> QED
  BY <1>3, <1>4, SnapshotIsNewest DEF TypeOK
----------------------------------------------------------------------------
(* The ways in which a step changes what is kept.                          *)
\* A record of the instructions as they are now, for an outcome.
IsNew(record, o) ==
  /\ record \in Record /\ record.id = count + 1 /\ record.of = source
  /\ record.attached = o.attached /\ record.valid = o.valid /\ record.sound = o.sound

\* It is published: it becomes the active one, and goes to a root or to none.
Published ==
  \E o \in Outcomes, record \in Record :
    /\ Publishes(o) /\ IsNew(record, o)
    /\ compiled' = compiled \cup {record} /\ active' = record.id
    /\ count' = count + 1 /\ WriteSnapshot(record)
    /\ review' = Nothing \/ (\E ok \in BOOLEAN : review' = [of |-> count + 1, saw |-> source, ok |-> ok])

\* It is kept beside the active one, which stays.
KeptAside ==
  \E record \in Record :
    /\ record.id = count + 1
    /\ compiled' = compiled \cup {record} /\ count' = count + 1
    /\ UNCHANGED <<active, review, disk, last>>

\* The newest snapshot is brought back, to an application without an active record.
BroughtBack ==
  /\ ~HasActive /\ Snapshot # Nothing
  /\ \/ compiled' = Restored(compiled) /\ UNCHANGED count
     \/ \E record \in Record : /\ record.id = count + 1 /\ count' = count + 1
                               /\ compiled' = Restored(compiled \cup {record})
  /\ active' = Snapshot.id /\ review' = Nothing
  /\ UNCHANGED <<disk, last>>

LEMMA CompileEffect ==
  ASSUME TypeOK, Recompile \/ CompileAndReview
  PROVE  /\ Published \/ KeptAside \/ BroughtBack
         /\ count < MaxRecords
         /\ UNCHANGED <<source, approval, revision>>
<1>1. CASE Recompile
  <2>1. PICK o \in Outcomes :
               IF Publishes(o) \/ HasActive \/ Snapshot = Nothing
               THEN Compile(o)
               ELSE /\ count < MaxRecords
                    /\ count' = count + 1
                    /\ compiled' = Restored(compiled \cup {NewRecord(o)})
                    /\ active' = Snapshot.id
                    /\ review' = Nothing
                    /\ UNCHANGED <<disk, last>>
    BY <1>1 DEF Recompile
  <2>2. count < MaxRecords /\ UNCHANGED <<source, approval, revision>>
    BY <1>1, <2>1 DEF Recompile, Compile
  <2>3. IsNew(NewRecord(o), o) /\ NewRecord(o) \in Record /\ NewRecord(o).id = count + 1
    BY <2>2, NewRecordTyped DEF IsNew
  <2>4. CASE Publishes(o)
    BY <2>1, <2>2, <2>3, <2>4 DEF Compile, Activate, Published
  <2>5. CASE ~Publishes(o) /\ (HasActive \/ Snapshot = Nothing)
    BY <2>1, <2>2, <2>3, <2>5 DEF Compile, KeptAside
  <2>6. CASE ~(Publishes(o) \/ HasActive \/ Snapshot = Nothing)
    BY <2>1, <2>2, <2>3, <2>6 DEF BroughtBack
  <2> QED
    BY <2>2, <2>4, <2>5, <2>6
<1>2. CASE CompileAndReview
  <2>1. PICK o \in WithoutCompiler :
               /\ compiled' = compiled \cup {NewRecord(o)}
               /\ WriteSnapshot(NewRecord(o))
    BY <1>2 DEF CompileAndReview
  <2>2. count < MaxRecords /\ o \in Outcomes /\ Publishes(o)
    BY <1>2, OutcomesTyped DEF CompileAndReview
  <2>3. IsNew(NewRecord(o), o) /\ NewRecord(o) \in Record
    BY <2>2, NewRecordTyped DEF IsNew
  <2>4. /\ count' = count + 1 /\ active' = NewRecord(o).id
        /\ \E ok \in BOOLEAN : review' = [of |-> count + 1, saw |-> source, ok |-> ok]
    BY <1>2, <2>3 DEF CompileAndReview, IsNew
  <2> QED
    BY <1>2, <2>1, <2>2, <2>3, <2>4 DEF Published, CompileAndReview
<1> QED
  BY <1>1, <1>2

Inside == UNCHANGED <<source, approval, revision>>

----------------------------------------------------------------------------
(* Types.                                                                  *)
ReviewType   == [of : 1..MaxRecords, saw : Inputs, ok : BOOLEAN]
ApprovalType == [compiled : 1..MaxRecords, reviewed : 1..MaxRecords, ok : BOOLEAN]
RevisionType == [compiled : 1..MaxRecords, approved : 1..MaxRecords, valid : BOOLEAN]
LastType     == [id : 0..MaxRecords, valid : BOOLEAN, saved : BOOLEAN]

LEMMA TypeOKInit == Init => TypeOK
  BY BoundsAssumption DEF Init, TypeOK, Inputs, LastType

\* A new record on the disk.
LEMMA WriteTyped ==
  ASSUME TypeOK, NEW record \in Record, WriteSnapshot(record)
  PROVE  /\ disk' \in [Roots -> Record \cup {Nothing}]
         /\ last' \in LastType
         /\ last'.id = record.id /\ last'.valid = record.valid
         /\ last'.saved => \E root \in Roots : disk'[root] = record
         /\ \A root \in Roots : disk'[root] \in {disk[root], record, Nothing}
<1>1. PICK written \in Roots \cup {"none"},
           primary \in Broken("primary", record), fallback \in Broken("fallback", record) :
             /\ disk' = [root \in Roots |->
                           CASE root = written                            -> record
                             [] root = "primary" /\ written # root        -> primary
                             [] root = "fallback" /\ written = "primary"  -> disk[root]
                             [] root = "fallback" /\ written = "none"     -> fallback]
             /\ last' = [id |-> record.id, valid |-> record.valid, saved |-> written # "none"]
  BY DEF WriteSnapshot
<1>2. record.id \in 0..MaxRecords /\ record.valid \in BOOLEAN
  BY BoundsAssumption DEF Record
<1>3. last' \in LastType /\ last'.id = record.id /\ last'.valid = record.valid
      /\ last'.saved = (written # "none")
  BY <1>1, <1>2 DEF LastType
<1>4. disk \in [Roots -> Record \cup {Nothing}]
  BY DEF TypeOK
<1>5. /\ disk'["primary"] \in {disk["primary"], record, Nothing}
      /\ disk'["fallback"] \in {disk["fallback"], record, Nothing}
      /\ written # "none" => disk'[written] = record
  <2>1. Roots = {"primary", "fallback"} /\ primary \in {disk["primary"], record, Nothing}
        /\ fallback \in {disk["fallback"], record, Nothing}
    BY <1>1 DEF Roots, Broken
  <2>2. CASE written = "primary"
    <3>1. disk'["primary"] = record /\ disk'["fallback"] = disk["fallback"]
      BY <1>1, <2>1, <2>2
    <3> QED
      BY <2>2, <3>1
  <2>3. CASE written = "fallback"
    <3>1. disk'["primary"] = primary /\ disk'["fallback"] = record
      BY <1>1, <2>1, <2>3
    <3> QED
      BY <2>1, <2>3, <3>1
  <2>4. CASE written = "none"
    <3>1. disk'["primary"] = primary /\ disk'["fallback"] = fallback
      BY <1>1, <2>1, <2>4
    <3> QED
      BY <2>1, <2>4, <3>1
  <2> QED
    BY <2>1, <2>2, <2>3, <2>4
<1>6. disk' = [root \in Roots |-> disk'[root]]
  <2> DEFINE F(root) == CASE root = written                            -> record
                          [] root = "primary" /\ written # root        -> primary
                          [] root = "fallback" /\ written = "primary"  -> disk[root]
                          [] root = "fallback" /\ written = "none"     -> fallback
  <2>1. disk' = [root \in Roots |-> F(root)]
    BY <1>1
  <2> HIDE DEF F
  <2> QED
    BY <2>1
<1>7. \A root \in Roots : disk'[root] \in {disk[root], record, Nothing}
  BY <1>5 DEF Roots
<1>8. disk' \in [Roots -> Record \cup {Nothing}]
  <2>1. \A root \in Roots : disk'[root] \in Record \cup {Nothing}
    BY <1>4, <1>7
  <2> QED
    BY <1>6, <2>1
<1> QED
  BY <1>3, <1>5, <1>7, <1>8

LEMMA TypeOKStep ==
  ASSUME TypeOK, [Next]_vars
  PROVE  TypeOK'
<1> USE DEF ReviewType, ApprovalType, RevisionType, LastType
<1>1. CASE Hydrate
  <2>1. Snapshot \in Record /\ compiled' = Restored(compiled) /\ active' = Snapshot.id
    BY <1>1, SnapshotTyped DEF Hydrate
  <2> QED
    BY <1>1, <2>1 DEF TypeOK, Hydrate, Restored
<1>2. CASE Recompile \/ CompileAndReview
  <2>1. /\ Published \/ KeptAside \/ BroughtBack
        /\ count < MaxRecords /\ UNCHANGED <<source, approval, revision>>
    BY <1>2, CompileEffect
  <2>2. count + 1 \in 1..MaxRecords
    BY <2>1, BoundsAssumption DEF TypeOK
  <2>3. CASE Published
    <3>1. PICK o \in Outcomes, record \in Record :
                 /\ Publishes(o) /\ IsNew(record, o)
                 /\ compiled' = compiled \cup {record} /\ active' = record.id
                 /\ count' = count + 1 /\ WriteSnapshot(record)
                 /\ review' = Nothing \/ (\E ok \in BOOLEAN : review' = [of |-> count + 1, saw |-> source, ok |-> ok])
      BY <2>3 DEF Published
    <3>2. disk' \in [Roots -> Record \cup {Nothing}] /\ last' \in LastType
      BY <3>1, WriteTyped
    <3>3. review' \in {Nothing} \cup ReviewType
      BY <2>2, <3>1 DEF TypeOK
    <3> QED
      BY <2>1, <2>2, <3>1, <3>2, <3>3 DEF TypeOK
  <2>4. CASE KeptAside
    BY <2>1, <2>2, <2>4 DEF TypeOK, KeptAside
  <2>5. CASE BroughtBack
    <3>1. Snapshot \in Record
      BY <2>5, SnapshotTyped DEF BroughtBack
    <3>2. compiled' \subseteq Record /\ Snapshot \in compiled' /\ count' \in 0..MaxRecords
      BY <2>2, <2>5, <3>1 DEF TypeOK, BroughtBack, Restored
    <3> QED
      BY <2>1, <2>5, <3>2 DEF TypeOK, BroughtBack
  <2> QED
    BY <2>1, <2>3, <2>4, <2>5
<1>3. CASE Review
  <2>1. HasActive /\ TheActive \in Record /\ active \in 1..MaxRecords
    BY <1>3 DEF Review, HasActive, TheActive, TypeOK, Record
  <2>2. TheActive.of \in Inputs
    BY <2>1 DEF Record
  <2> QED
    BY <1>3, <2>1, <2>2 DEF TypeOK, Review
<1>4. CASE Approve \/ Revise
  <2>1. active \in 1..MaxRecords
    BY <1>4 DEF Approve, Revise, HasActive, TypeOK, Record
  <2> QED
    BY <1>4, <2>1 DEF TypeOK, Approve, Revise
<1>5. CASE EditSource
  BY <1>5 DEF TypeOK, EditSource, Inputs
<1>6. CASE Restart
  BY <1>6 DEF TypeOK, Restart, Inputs
<1>7. CASE UNCHANGED vars
  BY <1>7 DEF TypeOK, vars
<1> QED
  BY <1>1, <1>2, <1>3, <1>4, <1>5, <1>6, <1>7 DEF Next

\* Every variable has its type, and the active record is one that is kept.
THEOREM TypeCorrect == Spec => []TypeOK
<1>1. Init => TypeOK
  BY TypeOKInit
<1>2. TypeOK /\ [Next]_vars => TypeOK'
  BY TypeOKStep
<1> QED
  BY <1>1, <1>2, PTL DEF Spec
----------------------------------------------------------------------------
(* Ids are given out once and grow, so that the newest snapshot is the     *)
(* last record that was published.                                         *)
Ordered ==
  /\ \A r \in compiled : r.id <= count
  /\ \A r, q \in compiled : r.id = q.id => r = q
  /\ \A root \in Roots : disk[root] # Nothing => disk[root].id <= last.id
  /\ last.id <= count

LastIsKept ==
  /\ last.valid /\ last.saved =>
       \E root \in Roots : disk[root] # Nothing /\ disk[root].valid /\ disk[root].id = last.id
  /\ last.valid /\ last.saved /\ HasActive => active = last.id

\* A review is one of the active record.
ReviewsActive ==
  /\ review # Nothing => HasActive /\ review.of = active
  /\ approval # Nothing => approval.reviewed = approval.compiled

Kept == Ordered /\ LastIsKept /\ ReviewsActive

LEMMA KeptInit == Init => Kept
<1> SUFFICES ASSUME Init PROVE Kept
  OBVIOUS
<1>1. Ordered
  BY DEF Init, Ordered
<1>2. LastIsKept /\ ReviewsActive
  BY DEF Init, LastIsKept, ReviewsActive, HasActive
<1> QED
  BY <1>1, <1>2 DEF Kept

\* There is one record that is active, when one is.
LEMMA TheActiveIs ==
  ASSUME TypeOK, HasActive
  PROVE  TheActive \in compiled /\ TheActive \in Record /\ TheActive.id = active
  BY DEF TypeOK, HasActive, TheActive

LEMMA NewestIsLast ==
  ASSUME TypeOK, Kept, Snapshot # Nothing
  PROVE  /\ Snapshot.id <= last.id
         /\ last.valid /\ last.saved => Snapshot.id = last.id
<1>1. \A root \in Roots : disk[root] # Nothing => disk[root] \in Record /\ disk[root].id \in Nat
  BY BoundsAssumption DEF TypeOK, Record
<1>2. Snapshot.id <= last.id
  BY SnapshotTyped DEF Kept, Ordered
<1>3. ASSUME last.valid, last.saved PROVE Snapshot.id = last.id
  <2>1. PICK root \in Roots : disk[root] # Nothing /\ disk[root].valid /\ disk[root].id = last.id
    BY <1>3 DEF Kept, LastIsKept
  <2>2. last.id <= Snapshot.id
    BY <2>1, SnapshotTyped
  <2>3. Snapshot.id \in Nat /\ last.id \in Nat
    BY <1>1, <2>1, SnapshotTyped
  <2> QED
    BY <1>2, <2>2, <2>3
<1> QED
  BY <1>2, <1>3

LEMMA KeptStep ==
  ASSUME TypeOK, Kept, [Next]_vars
  PROVE  Kept'
<1>a. /\ count \in Nat /\ last.id \in Nat
      /\ \A r \in compiled : r \in Record /\ r.id \in Nat
      /\ \A root \in Roots : disk[root] # Nothing => disk[root] \in Record /\ disk[root].id \in Nat
  BY BoundsAssumption DEF TypeOK, Record
<1>1. CASE Published /\ Inside
  <2>1. PICK o \in Outcomes, record \in Record :
               /\ Publishes(o) /\ IsNew(record, o)
               /\ compiled' = compiled \cup {record} /\ active' = record.id
               /\ count' = count + 1 /\ WriteSnapshot(record)
               /\ review' = Nothing \/ (\E ok \in BOOLEAN : review' = [of |-> count + 1, saw |-> source, ok |-> ok])
    BY <1>1 DEF Published
  <2>2. record.id = count + 1
    BY <2>1 DEF IsNew
  <2>3. /\ last'.id = count + 1 /\ last'.valid = record.valid
        /\ last'.saved => \E root \in Roots : disk'[root] = record
        /\ \A root \in Roots : disk'[root] \in {disk[root], record, Nothing}
    BY <2>1, <2>2, WriteTyped
  <2>4. Ordered'
    <3>1. \A r \in compiled' : r.id <= count'
      BY <1>a, <2>1, <2>2 DEF Kept, Ordered
    <3>2. \A r, q \in compiled' : r.id = q.id => r = q
      BY <1>a, <2>1, <2>2 DEF Kept, Ordered
    <3>3. ASSUME NEW root \in Roots, disk'[root] # Nothing PROVE disk'[root].id <= last'.id
      <4>1. CASE disk'[root] = record
        BY <1>a, <2>2, <2>3, <4>1
      <4>2. CASE disk'[root] = disk[root]
        <5>1. disk[root].id <= last.id /\ last.id <= count
          BY <3>3, <4>2 DEF Kept, Ordered
        <5> QED
          BY <1>a, <2>3, <3>3, <4>2, <5>1
      <4> QED
        BY <2>3, <3>3, <4>1, <4>2
    <3>4. last'.id <= count'
      BY <1>a, <2>1, <2>3
    <3> QED
      BY <3>1, <3>2, <3>3, <3>4 DEF Ordered
  <2>5. LastIsKept'
    <3>1. last'.valid /\ last'.saved =>
            \E root \in Roots : disk'[root] # Nothing /\ disk'[root].valid /\ disk'[root].id = last'.id
      BY <2>2, <2>3, NothingAssumption
    <3>2. active' = last'.id
      BY <2>1, <2>2, <2>3
    <3> QED
      BY <3>1, <3>2 DEF LastIsKept
  <2>6. ReviewsActive'
    <3>1. active' = count + 1 /\ active' # 0
      BY <1>a, <2>1, <2>2
    <3>2. review' # Nothing => review'.of = active'
      BY <2>1, <3>1
    <3> QED
      BY <1>1, <3>1, <3>2 DEF Inside, Kept, ReviewsActive, HasActive
  <2> QED
    BY <2>4, <2>5, <2>6 DEF Kept
<1>2. CASE KeptAside /\ Inside
  <2>1. PICK record \in Record :
               /\ record.id = count + 1
               /\ compiled' = compiled \cup {record} /\ count' = count + 1
               /\ UNCHANGED <<active, review, disk, last>>
    BY <1>2 DEF KeptAside
  <2>2. Ordered'
    <3>1. \A r \in compiled' : r.id <= count'
      BY <1>a, <2>1 DEF Kept, Ordered
    <3>2. \A r, q \in compiled' : r.id = q.id => r = q
      BY <1>a, <2>1 DEF Kept, Ordered
    <3>3. last'.id <= count'
      BY <1>a, <2>1 DEF Kept, Ordered
    <3> QED
      BY <2>1, <3>1, <3>2, <3>3 DEF Kept, Ordered
  <2>3. LastIsKept' /\ ReviewsActive'
    BY <1>2, <2>1 DEF Inside, Kept, LastIsKept, ReviewsActive, HasActive
  <2> QED
    BY <2>2, <2>3 DEF Kept
<1>3. CASE BroughtBack /\ Inside
  <2>1. /\ Snapshot \in Record /\ Snapshot.id <= last.id
        /\ last.valid /\ last.saved => Snapshot.id = last.id
    BY <1>3, SnapshotTyped, NewestIsLast DEF BroughtBack
  <2>2. Snapshot.id \in Nat
    BY <2>1, BoundsAssumption DEF Record
  <2>3. /\ \A r \in compiled' : r = Snapshot \/ r \in compiled \/ r.id = count + 1
        /\ \A r, q \in compiled' : r.id = q.id => r = q
        /\ count' \in {count, count + 1}
        /\ \A r \in compiled' : r.id = count + 1 /\ r \notin compiled /\ r # Snapshot => count' = count + 1
    <3>1. CASE compiled' = Restored(compiled) /\ UNCHANGED count
      BY <3>1 DEF Restored, Kept, Ordered
    <3>2. ASSUME NEW record \in Record, record.id = count + 1, count' = count + 1,
                 compiled' = Restored(compiled \cup {record})
          PROVE  \A r, q \in compiled' : r.id = q.id => r = q
      <4>1. \A r \in compiled : r.id # record.id
        BY <1>a, <3>2 DEF Kept, Ordered
      <4>2. \A r \in compiled' : r = Snapshot \/ (r.id # Snapshot.id /\ (r \in compiled \/ r = record))
        BY <3>2 DEF Restored
      <4> QED
        BY <4>1, <4>2 DEF Kept, Ordered
    <3>3. ASSUME NEW record \in Record, record.id = count + 1, count' = count + 1,
                 compiled' = Restored(compiled \cup {record})
          PROVE  \A r \in compiled' : r = Snapshot \/ r \in compiled \/ r.id = count + 1
      BY <3>3 DEF Restored
    <3> QED
      BY <1>3, <3>1, <3>2, <3>3 DEF BroughtBack
  <2>4. Ordered'
    <3>1. ASSUME NEW r \in compiled' PROVE r.id <= count'
      <4>1. CASE r = Snapshot
        BY <1>a, <2>1, <2>2, <2>3, <4>1 DEF Kept, Ordered
      <4>2. CASE r \in compiled
        BY <1>a, <2>3, <4>2 DEF Kept, Ordered
      <4>3. CASE r \notin compiled /\ r # Snapshot
        BY <1>a, <2>3, <3>1, <4>3
      <4> QED
        BY <4>1, <4>2, <4>3
    <3>2. last'.id <= count'
      BY <1>a, <1>3, <2>3 DEF BroughtBack, Kept, Ordered
    <3> QED
      BY <1>3, <2>3, <3>1, <3>2 DEF BroughtBack, Kept, Ordered
  <2>5. LastIsKept' /\ ReviewsActive'
    BY <1>3, <2>1 DEF BroughtBack, Inside, Kept, LastIsKept, ReviewsActive, HasActive
  <2> QED
    BY <2>4, <2>5 DEF Kept
<1>4. CASE Recompile \/ CompileAndReview
  BY <1>1, <1>2, <1>3, <1>4, CompileEffect DEF Inside
<1>5. CASE Hydrate
  BY <1>3, <1>5 DEF Hydrate, BroughtBack, Inside
<1>6. CASE Review \/ Approve \/ Revise \/ EditSource \/ UNCHANGED vars
  <2>1. UNCHANGED <<compiled, active, count, disk, last>>
    BY <1>6 DEF Review, Approve, Revise, EditSource, vars
  <2>2. Ordered' /\ LastIsKept'
    BY <2>1 DEF Kept, Ordered, LastIsKept, HasActive
  <2>3. ReviewsActive'
    <3>1. CASE Review
      <4>1. HasActive /\ active' = active /\ approval' = approval /\ review'.of = active
        BY <3>1 DEF Review
      <4> QED
        BY <4>1 DEF Kept, ReviewsActive, HasActive
    <3>2. CASE Approve
      <4>1. /\ review # Nothing /\ UNCHANGED <<active, review>>
            /\ approval'.compiled = active /\ approval'.reviewed = review.of
        BY <3>2 DEF Approve
      <4> QED
        BY <4>1 DEF Kept, ReviewsActive, HasActive
    <3>3. CASE Revise \/ EditSource \/ UNCHANGED vars
      <4>1. UNCHANGED <<active, review, approval>>
        BY <3>3 DEF Revise, EditSource, vars
      <4> QED
        BY <4>1 DEF Kept, ReviewsActive, HasActive
    <3> QED
      BY <1>6, <3>1, <3>2, <3>3
  <2> QED
    BY <2>2, <2>3 DEF Kept
<1>7. CASE Restart
  <2>1. Ordered'
    BY <1>7 DEF Restart, Kept, Ordered
  <2>2. LastIsKept' /\ ReviewsActive'
    BY <1>7 DEF Restart, Kept, LastIsKept, ReviewsActive, HasActive
  <2> QED
    BY <2>1, <2>2 DEF Kept
<1> QED
  BY <1>4, <1>5, <1>6, <1>7 DEF Next

LEMMA KeptAlways == Spec => [](TypeOK /\ Kept)
<1>1. Init => TypeOK /\ Kept
  BY TypeOKInit, KeptInit
<1>2. TypeOK /\ Kept /\ [Next]_vars => (TypeOK /\ Kept)'
  BY TypeOKStep, KeptStep
<1> QED
  BY <1>1, <1>2, PTL DEF Spec

\* Whichever of the two roots could be written, and however often the backend was
\* restarted, the record that runs is the last one that was published and reached the
\* disk; and it shows as hot only for the inputs that it was compiled from.
THEOREM NewestIsBroughtBack == Spec => []RestartKeepsPublished
<1>1. TypeOK /\ Kept => RestartKeepsPublished
  <2> SUFFICES ASSUME TypeOK, Kept PROVE RestartKeepsPublished
    OBVIOUS
  <2>1. CacheStatus = "hot" => TheActive.of = source
    <3> SUFFICES ASSUME CacheStatus = "hot" PROVE TheActive.of = source
      OBVIOUS
    <3>1. /\ HasActive /\ TheActive.of.text = source.text
          /\ TheActive.of.code = source.code /\ TheActive.of.catalog = source.catalog
      BY DEF CacheStatus
    <3>2. TheActive.of \in Inputs /\ source \in Inputs
      BY <3>1, TheActiveIs DEF TypeOK, Record
    <3> QED
      BY <3>1, <3>2 DEF Inputs
  <2> QED
    BY <2>1 DEF Kept, LastIsKept, RestartKeepsPublished
<1> QED
  BY <1>1, KeptAlways, PTL

\* Findings are approved for the record they are about, and no review is shown beside
\* another record than its own.
THEOREM FindingsAreOfApproved == Spec => []ApprovalIsOfReviewed
<1>1. Kept => ApprovalIsOfReviewed
  BY DEF Kept, ReviewsActive, ApprovalIsOfReviewed, ShownReview
<1> QED
  BY <1>1, KeptAlways, PTL

----------------------------------------------------------------------------
(* Whatever runs is what a compilation came to that may be published.      *)
ComesOf(r, o) == r.attached = o.attached /\ r.valid = o.valid /\ r.sound = o.sound
Good(r) == \E o \in Outcomes : Publishes(o) /\ ComesOf(r, o)

RunsGood ==
  /\ \A root \in Roots : disk[root] # Nothing => Good(disk[root])
  /\ HasActive => Good(TheActive)

LEMMA RunsGoodStep ==
  ASSUME TypeOK, Kept, RunsGood, TypeOK', Kept', [Next]_vars
  PROVE  RunsGood'
<1>a. \A r \in compiled : r.id = active => r = TheActive
  BY TheActiveIs, BoundsAssumption DEF Kept, Ordered, HasActive, TypeOK, Record
<1>b. ASSUME NEW r \in compiled', active' = r.id PROVE TheActive' = r
  BY <1>b DEF Kept, Ordered, TheActive
<1>1. CASE Published
  <2>1. PICK o \in Outcomes, record \in Record :
               /\ Publishes(o) /\ IsNew(record, o)
               /\ compiled' = compiled \cup {record} /\ active' = record.id
               /\ WriteSnapshot(record)
    BY <1>1 DEF Published
  <2>2. Good(record)
    BY <2>1 DEF IsNew, ComesOf, Good
  <2>3. \A root \in Roots : disk'[root] \in {disk[root], record, Nothing}
    BY <2>1, WriteTyped
  <2>4. TheActive' = record
    BY <1>b, <2>1
  <2> QED
    BY <2>2, <2>3, <2>4 DEF RunsGood, Good
<1>2. CASE BroughtBack
  <2>1. active' = Snapshot.id /\ Snapshot \in compiled' /\ UNCHANGED disk
    BY <1>2 DEF BroughtBack, Restored
  <2>2. Good(Snapshot)
    BY <1>2, SnapshotTyped DEF BroughtBack, RunsGood
  <2>3. TheActive' = Snapshot
    BY <1>b, <2>1
  <2> QED
    BY <2>1, <2>2, <2>3 DEF RunsGood, Good
<1>3. ASSUME compiled \subseteq compiled', UNCHANGED <<active, disk>>
      PROVE  RunsGood'
  <2>1. HasActive => TheActive' = TheActive
    BY <1>b, <1>3, TheActiveIs
  <2> QED
    BY <1>3, <2>1 DEF RunsGood, HasActive, Good
<1>4. CASE Recompile \/ CompileAndReview
  <2>1. CASE KeptAside
    BY <1>3, <2>1 DEF KeptAside
  <2> QED
    BY <1>1, <1>2, <1>4, <2>1, CompileEffect
<1>5. CASE Hydrate
  BY <1>2, <1>5 DEF Hydrate, BroughtBack
<1>6. CASE Review \/ Approve \/ Revise \/ EditSource \/ UNCHANGED vars
  <2>1. compiled' = compiled /\ UNCHANGED <<active, disk>>
    BY <1>6 DEF Review, Approve, Revise, EditSource, vars
  <2> QED
    BY <1>3, <2>1
<1>7. CASE Restart
  BY <1>7 DEF Restart, RunsGood, HasActive, Good
<1> QED
  BY <1>4, <1>5, <1>6, <1>7 DEF Next

\* Whatever was compiled, refused, reviewed, revised, edited or lost, and from whichever
\* snapshot a restart came back, what runs is the outcome of a compilation that
\* _should_publish_compiled_record lets pass: a candidate runs only where it is valid.
THEOREM OnlyPublishedRuns ==
  Spec => [](HasActive =>
               /\ \E o \in Outcomes : Publishes(o) /\ ComesOf(TheActive, o)
               /\ TheActive.attached => TheActive.valid)
<1>1. Init => RunsGood
  BY DEF Init, RunsGood, HasActive
<1>2. TypeOK /\ Kept /\ RunsGood /\ [Next]_vars /\ (TypeOK /\ Kept)' => RunsGood'
  BY RunsGoodStep
<1>3. RunsGood => (HasActive =>
                     /\ \E o \in Outcomes : Publishes(o) /\ ComesOf(TheActive, o)
                     /\ TheActive.attached => TheActive.valid)
  BY DEF RunsGood, Good, ComesOf, Publishes
<1> QED
  BY <1>1, <1>2, <1>3, KeptAlways, PTL DEF Spec
=============================================================================
