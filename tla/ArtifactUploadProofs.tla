------------------------ MODULE ArtifactUploadProofs ------------------------
(***************************************************************************)
(* Theorems about ArtifactUpload, for every number of operations and of    *)
(* request threads.                                                        *)
(***************************************************************************)
EXTENDS ArtifactUpload, TLAPS

(* A request past its first look, or its staging, works on a row there is. *)
RowThere ==
  \A r \in Requests : req[r].pc \notin {"idle", "look", "stage"} => row[req[r].op] # None

(* Whoever is about to remove a file has closed the row before.            *)
Closed(o, status) == row[o] # None /\ row[o].status = status /\ ~row[o].retryable
RemovesWhatIsClosed ==
  /\ \A r \in Requests : req[r].pc = "unlink" => Closed(req[r].op, "ready")
  /\ sweep.unlink # None => Closed(sweep.unlink, "deleted")

UploadInv == TypeOK /\ RowThere /\ OneClaimant /\ RemovesWhatIsClosed /\ RetryableHasFile

----------------------------------------------------------------------------
Pcs == {"idle", "look", "stage", "claim", "reread", "check", "import", "analyse", "finish", "unlink"}
Answers == {"ready", "preparing", "failed", "rejected"}

\* What Goto() does to the request of r, and to no other.
LEMMA GotoEffect ==
  ASSUME TypeOK, NEW r \in Requests, NEW pc \in Pcs, Goto(r, pc), pc # "idle" => req[r].op # None
  PROVE  /\ req' \in [Requests -> Request]
         /\ \A q \in Requests : req'[q].op = req[q].op
         /\ \A q \in Requests : req'[q].pc = IF q = r THEN pc ELSE req[q].pc
         /\ \A q \in Requests : req'[q].pc # "idle" => req'[q].op # None
<1>1. req \in [Requests -> Request]
  BY DEF TypeOK
<1>2. req' = [req EXCEPT ![r] = [req[r] EXCEPT !.pc = pc]]
  BY <1>1 DEF Goto
<1>3. [req[r] EXCEPT !.pc = pc] \in Request
  BY <1>1 DEF Request, Pcs
<1>4. /\ [req[r] EXCEPT !.pc = pc].pc = pc
      /\ [req[r] EXCEPT !.pc = pc].op = req[r].op
  BY <1>1 DEF Request
<1> QED
  BY <1>1, <1>2, <1>3, <1>4 DEF TypeOK

\* An answer ends the request.
LEMMA AnswerEffect ==
  ASSUME TypeOK, NEW r \in Requests, NEW a \in Answers, Answer(r, a)
  PROVE  /\ req' \in [Requests -> Request]
         /\ \A q \in Requests : req'[q].op = req[q].op
         /\ \A q \in Requests : req'[q].pc = IF q = r THEN "idle" ELSE req[q].pc
         /\ \A q \in Requests : req'[q].pc # "idle" => req'[q].op # None
<1>1. req \in [Requests -> Request]
  BY DEF TypeOK
<1>2. req' = [req EXCEPT ![r] = [req[r] EXCEPT !.pc = "idle", !.answer = a]]
  BY <1>1 DEF Answer
<1>3. [req[r] EXCEPT !.pc = "idle", !.answer = a] \in Request
  BY <1>1 DEF Request, Answers
<1>4. /\ [req[r] EXCEPT !.pc = "idle", !.answer = a].pc = "idle"
      /\ [req[r] EXCEPT !.pc = "idle", !.answer = a].op = req[r].op
  BY <1>1 DEF Request
<1> QED
  BY <1>1, <1>2, <1>3, <1>4 DEF TypeOK

\* update_upload_operation() of a row there is.
LEMMA UpdateEffect ==
  ASSUME TypeOK, NEW o \in Ops, row[o] # None,
         NEW status \in Statuses, NEW artifact \in BOOLEAN, NEW retryable \in BOOLEAN,
         Update(o, status, artifact, retryable)
  PROVE  /\ row' \in [Ops -> Row \cup {None}]
         /\ row'[o] # None /\ row'[o].status = status /\ row'[o].retryable = retryable
         /\ \A x \in Ops \ {o} : row'[x] = row[x]
<1>1. row \in [Ops -> Row \cup {None}] /\ row[o] \in Row
  BY DEF TypeOK
<1> DEFINE new == [row[o] EXCEPT !.status = status, !.artifact = artifact, !.retryable = retryable]
<1>2. row' = [row EXCEPT ![o] = new]
  BY <1>1 DEF Update
<1>3. new \in Row /\ new.status = status /\ new.retryable = retryable
  BY <1>1 DEF Row
<1> QED
  BY <1>1, <1>2, <1>3, NoneAssumption

----------------------------------------------------------------------------
LEMMA UploadInvInit == Init => UploadInv
<1> SUFFICES ASSUME Init PROVE UploadInv
  OBVIOUS
<1>1. Idle \in Request
  BY DEF Idle, Request
<1>2. TypeOK
  BY <1>1 DEF Init, TypeOK, Idle
<1>3. RowThere /\ OneClaimant /\ RemovesWhatIsClosed /\ RetryableHasFile
  BY DEF Init, Idle, RowThere, OneClaimant, Holding, RemovesWhatIsClosed, RetryableHasFile, Status
<1> QED
  BY <1>2, <1>3 DEF UploadInv

\* A step that moves request r from pc "from" to pc "to" and changes no row and no
\* file keeps the invariant, where "to" does not ask more of the row than "from".
LEMMA MoveStep ==
  ASSUME UploadInv, NEW r \in Requests, NEW to \in Pcs, Goto(r, to) \/ (to = "idle" /\ \E a \in Answers : Answer(r, a)),
         to # "idle" => req[r].op # None,
         to \notin {"idle", "look", "stage"} => row[req[r].op] # None,
         to \in Holding => req[r].pc \in Holding,
         to # "unlink",
         UNCHANGED <<row, staged, sweep, overdue, crashed>>,
         imported' \subseteq Ops, flight' \subseteq Ops, analysed' \subseteq Ops
  PROVE  UploadInv'
<1>1. /\ req' \in [Requests -> Request]
      /\ \A q \in Requests : req'[q].op = req[q].op
      /\ \A q \in Requests : req'[q].pc = IF q = r THEN to ELSE req[q].pc
      /\ \A q \in Requests : req'[q].pc # "idle" => req'[q].op # None
  BY GotoEffect, AnswerEffect DEF UploadInv
<1>2. TypeOK'
  BY <1>1 DEF UploadInv, TypeOK
<1>3. RowThere'
  BY <1>1 DEF UploadInv, RowThere
<1>4. OneClaimant'
  BY <1>1 DEF UploadInv, OneClaimant, Status
<1>5. RemovesWhatIsClosed'
  BY <1>1 DEF UploadInv, RemovesWhatIsClosed, Closed
<1>6. RetryableHasFile'
  BY DEF UploadInv, RetryableHasFile, Status
<1> QED
  BY <1>2, <1>3, <1>4, <1>5, <1>6 DEF UploadInv

\* A request that holds the claim updates the row and leaves the claim: with an
\* answer, or to remove the file of a row it has closed.
LEMMA SettleStep ==
  ASSUME UploadInv, NEW r \in Requests, req[r].pc \in Holding,
         NEW status \in {"failed", "ready"}, NEW artifact \in BOOLEAN, NEW retryable \in BOOLEAN,
         Update(req[r].op, status, artifact, retryable),
         NEW to \in {"idle", "unlink"},
         Goto(r, to) \/ (to = "idle" /\ \E a \in Answers : Answer(r, a)),
         to = "unlink" => status = "ready" /\ ~retryable,
         retryable => req[r].op \in staged,
         UNCHANGED <<staged, sweep, overdue, crashed>>,
         imported' \subseteq Ops, flight' \subseteq Ops, analysed' \subseteq Ops
  PROVE  UploadInv'
<1> DEFINE o == req[r].op
<1>1. o \in Ops /\ row[o] # None /\ row[o].status = "preparing"
  BY DEF UploadInv, TypeOK, Request, RowThere, OneClaimant, Holding, Status
<1>2. /\ req' \in [Requests -> Request]
      /\ \A q \in Requests : req'[q].op = req[q].op
      /\ \A q \in Requests : req'[q].pc = IF q = r THEN to ELSE req[q].pc
      /\ \A q \in Requests : req'[q].pc # "idle" => req'[q].op # None
  BY GotoEffect, AnswerEffect, <1>1, NoneAssumption DEF UploadInv, Pcs
<1>3. /\ row' \in [Ops -> Row \cup {None}]
      /\ row'[o] # None /\ row'[o].status = status /\ row'[o].retryable = retryable
      /\ \A x \in Ops \ {o} : row'[x] = row[x]
  BY <1>1, UpdateEffect DEF UploadInv, Statuses
<1>4. \A q \in Requests : req[q].pc # "idle" => req[q].op \in Ops
  BY DEF UploadInv, TypeOK, Request
<1> HIDE DEF o
<1>5. TypeOK'
  BY <1>2, <1>3 DEF UploadInv, TypeOK
<1>6. RowThere'
  <2> SUFFICES ASSUME NEW q \in Requests, req'[q].pc \notin {"idle", "look", "stage"}
               PROVE  row'[req'[q].op] # None
    BY DEF RowThere
  <2>1. CASE q = r
    BY <2>1, <1>2, <1>3 DEF o
  <2>2. CASE q # r
    BY <2>2, <1>2, <1>3, <1>4 DEF UploadInv, RowThere
  <2> QED
    BY <2>1, <2>2
<1>7. OneClaimant'
  <2>1. \A q \in Requests : req'[q].pc \in Holding => q # r /\ req[q].pc \in Holding
    BY <1>2 DEF Holding
  <2>2. \A q \in Requests : req'[q].pc \in Holding => req[q].op # o
    BY <2>1 DEF UploadInv, OneClaimant, o
  <2>3. \A q \in Requests : req'[q].pc \in Holding => row'[req[q].op] = row[req[q].op]
    BY <2>1, <2>2, <1>3, <1>4 DEF Holding
  <2> QED
    BY <2>1, <2>3, <1>2 DEF UploadInv, OneClaimant, Status
<1>8. RemovesWhatIsClosed'
  <2>1. \A q \in Requests : req[q].pc = "unlink" => req[q].op # o
    BY <1>1 DEF UploadInv, RemovesWhatIsClosed, Closed
  <2>2. \A q \in Requests : req'[q].pc = "unlink" => Closed(req[q].op, "ready")'
    BY <2>1, <1>2, <1>3, <1>4 DEF UploadInv, RemovesWhatIsClosed, Closed, o
  <2>3. sweep.unlink # None => sweep.unlink \in Ops \ {o}
    BY <1>1 DEF UploadInv, TypeOK, RemovesWhatIsClosed, Closed
  <2> QED
    BY <2>2, <2>3, <1>2, <1>3 DEF UploadInv, RemovesWhatIsClosed, Closed
<1>9. RetryableHasFile'
  BY <1>3 DEF UploadInv, RetryableHasFile, Status, o
<1> QED
  BY <1>5, <1>6, <1>7, <1>8, <1>9 DEF UploadInv

----------------------------------------------------------------------------
\* Every step keeps the invariant: one step of the proof per action.
LEMMA UploadInvStep == UploadInv /\ [Next]_vars => UploadInv'
<1> SUFFICES ASSUME UploadInv, [Next]_vars PROVE UploadInv'
  OBVIOUS
<1> USE NoneAssumption
<1>0. /\ \A r \in Requests : req[r].pc # "idle" => req[r].op \in Ops
      /\ \A r \in Requests : req[r].query \in BOOLEAN
      /\ \A o \in Ops : row[o] # None => row[o] \in Row
  BY DEF UploadInv, TypeOK, Request
<1>1. ASSUME NEW r \in Requests, Begin(r) PROVE UploadInv'
  <2>1. PICK o \in Ops, query \in BOOLEAN, kind \in {"upload", "retry", "legacy"} :
          req' = [req EXCEPT ![r] = [pc |-> "look", op |-> o, kind |-> kind,
                                     query |-> query, answer |-> None]]
    BY <1>1 DEF Begin, Kinds
  <2>2. [pc |-> "look", op |-> o, kind |-> kind, query |-> query, answer |-> None] \in Request
    BY DEF Request
  <2>3. /\ req' \in [Requests -> Request]
        /\ req'[r].pc = "look" /\ req'[r].op = o
        /\ \A q \in Requests \ {r} : req'[q] = req[q]
    BY <2>1, <2>2 DEF UploadInv, TypeOK
  <2>4. UNCHANGED <<row, staged, sweep, overdue, imported, flight, analysed, crashed>>
    BY <1>1 DEF Begin
  <2>5. TypeOK'
    BY <2>3, <2>4 DEF UploadInv, TypeOK
  <2>6. RowThere' /\ RemovesWhatIsClosed'
    BY <2>3, <2>4 DEF UploadInv, RowThere, RemovesWhatIsClosed, Closed
  <2>7. OneClaimant' /\ RetryableHasFile'
    BY <2>3, <2>4 DEF UploadInv, OneClaimant, Holding, RetryableHasFile, Status
  <2> QED
    BY <2>5, <2>6, <2>7 DEF UploadInv
<1>2. ASSUME NEW r \in Requests, Look(r) PROVE UploadInv'
  BY <1>0, <1>2, MoveStep DEF Look, Pcs, Answers, Holding, UploadInv, TypeOK
<1>3. ASSUME NEW r \in Requests, Stage(r) PROVE UploadInv'
  <2> DEFINE o == req[r].op
             new == [status |-> "staged", retryable |-> TRUE, artifact |-> FALSE, query |-> req[r].query]
  <2>1. o \in Ops /\ new \in Row /\ new # None
    <3>1. o \in Ops /\ new \in Row
      BY <1>0, <1>3 DEF Stage, Row, Statuses
    <3> QED
      BY <3>1
  <2>2. CASE /\ row[o] = None /\ row' = [row EXCEPT ![o] = new]
             /\ staged' = staged \cup {o} /\ Goto(r, "claim")
    <3>1. /\ req' \in [Requests -> Request]
          /\ \A q \in Requests : req'[q].op = req[q].op
          /\ \A q \in Requests : req'[q].pc = IF q = r THEN "claim" ELSE req[q].pc
          /\ \A q \in Requests : req'[q].pc # "idle" => req'[q].op # None
      BY <2>1, <2>2, GotoEffect DEF UploadInv, Pcs
    <3>2. row' \in [Ops -> Row \cup {None}] /\ row'[o] = new /\ \A x \in Ops \ {o} : row'[x] = row[x]
      BY <2>1, <2>2 DEF UploadInv, TypeOK
    <3>3. UNCHANGED <<sweep, overdue, imported, flight, analysed, crashed>>
      BY <1>3 DEF Stage
    <3>4. TypeOK'
      BY <2>1, <2>2, <3>1, <3>2, <3>3 DEF UploadInv, TypeOK
    <3>5. RowThere'
      BY <1>0, <2>1, <3>1, <3>2 DEF UploadInv, RowThere
    <3>6. OneClaimant'
      BY <1>0, <2>2, <3>1, <3>2 DEF UploadInv, OneClaimant, Holding, Status
    <3>7. RemovesWhatIsClosed'
      BY <1>0, <2>2, <3>1, <3>2, <3>3 DEF UploadInv, TypeOK, RemovesWhatIsClosed, Closed
    <3>8. RetryableHasFile'
      BY <2>2, <3>2 DEF UploadInv, RetryableHasFile, Status
    <3> QED
      BY <3>4, <3>5, <3>6, <3>7, <3>8 DEF UploadInv
  <2>3. CASE Answer(r, "rejected") /\ UNCHANGED <<row, staged>>
    BY <1>3, <2>3, MoveStep DEF Stage, Pcs, Answers, Holding, UploadInv, TypeOK
  <2> QED
    BY <1>3, <2>2, <2>3 DEF Stage
<1>4. ASSUME NEW r \in Requests, Claim(r) PROVE UploadInv'
  <2> DEFINE o == req[r].op
  <2>1. o \in Ops /\ row[o] # None
    BY <1>0, <1>4 DEF Claim, UploadInv, RowThere
  <2>2. CASE Open(o) /\ row' = [row EXCEPT ![o].status = "preparing"] /\ Goto(r, "check")
    <3>1. /\ req' \in [Requests -> Request]
          /\ \A q \in Requests : req'[q].op = req[q].op
          /\ \A q \in Requests : req'[q].pc = IF q = r THEN "check" ELSE req[q].pc
          /\ \A q \in Requests : req'[q].pc # "idle" => req'[q].op # None
      BY <2>1, <2>2, GotoEffect DEF UploadInv, Pcs
    <3>2. [row[o] EXCEPT !.status = "preparing"] \in Row
      BY <1>0, <2>1 DEF Row, Statuses
    <3>3. /\ row' \in [Ops -> Row \cup {None}]
          /\ row'[o] # None /\ row'[o].status = "preparing" /\ row'[o].retryable = row[o].retryable
          /\ \A x \in Ops \ {o} : row'[x] = row[x]
      BY <1>0, <2>1, <2>2, <3>2 DEF UploadInv, TypeOK, Row
    <3>4. UNCHANGED <<staged, sweep, overdue, imported, flight, analysed, crashed>>
      BY <1>4 DEF Claim
    <3>5. \A q \in Requests : req[q].pc \in Holding => req[q].op # o
      BY <2>2 DEF UploadInv, OneClaimant, Status, Open
    <3>6. TypeOK'
      BY <3>1, <3>3, <3>4 DEF UploadInv, TypeOK
    <3>7. RowThere'
      BY <1>0, <2>1, <3>1, <3>3 DEF UploadInv, RowThere
    <3>8. OneClaimant'
      <4>1. \A q \in Requests : req'[q].pc \in Holding => q = r \/ (req[q].pc \in Holding /\ req[q].op # o)
        BY <3>1, <3>5
      <4>2. \A q \in Requests : req'[q].pc \in Holding => /\ row'[req[q].op] # None
                                                         /\ row'[req[q].op].status = "preparing"
        BY <1>0, <4>1, <3>3 DEF UploadInv, OneClaimant, Status, Holding
      <4>3. \A p, q \in Requests :
              req'[p].pc \in Holding /\ req'[q].pc \in Holding /\ p # q => req[q].op # req[p].op
        BY <4>1 DEF UploadInv, OneClaimant
      <4> QED
        BY <4>2, <4>3, <3>1 DEF OneClaimant, Status
    <3>9. RemovesWhatIsClosed'
      BY <1>0, <2>2, <3>1, <3>3, <3>4 DEF UploadInv, TypeOK, RemovesWhatIsClosed, Closed, Open
    <3>10. RetryableHasFile'
      BY <2>2, <3>3, <3>4 DEF UploadInv, RetryableHasFile, Status, Open
    <3> QED
      BY <3>6, <3>7, <3>8, <3>9, <3>10 DEF UploadInv
  <2>3. CASE Goto(r, "reread") /\ UNCHANGED row
    BY <1>4, <2>1, <2>3, MoveStep DEF Claim, Pcs, Holding, UploadInv, TypeOK
  <2> QED
    BY <1>4, <2>2, <2>3 DEF Claim
<1>5. ASSUME NEW r \in Requests, Reread(r) PROVE UploadInv'
  BY <1>0, <1>5, MoveStep DEF Reread, Pcs, Answers, Holding, UploadInv, TypeOK
<1>6. ASSUME NEW r \in Requests, Check(r) PROVE UploadInv'
  <2> DEFINE o == req[r].op
  <2>1. o \in Ops /\ row[o] \in Row /\ o \in staged /\ req[r].pc \in Holding
    BY <1>0, <1>6 DEF Check, UploadInv, RowThere, OneClaimant, Holding, RetryableHasFile, Status
  <2>2. CASE Update(o, "failed", row[o].artifact, TRUE) /\ Answer(r, "failed")
    BY <1>6, <2>1, <2>2, SettleStep DEF Check, Answers, Row, UploadInv, TypeOK
  <2>3. CASE UNCHANGED row /\ Goto(r, "import")
    BY <1>6, <2>1, <2>3, MoveStep DEF Check, Pcs, Holding, UploadInv, TypeOK, RowThere
  <2> QED
    BY <1>6, <2>1, <2>2, <2>3 DEF Check
<1>7. ASSUME NEW r \in Requests, Import(r) PROVE UploadInv'
  <2> DEFINE o == req[r].op
  <2>1. o \in Ops /\ row[o] # None /\ o \in staged /\ req[r].pc \in Holding
    BY <1>0, <1>7 DEF Import, UploadInv, RowThere, OneClaimant, Holding, RetryableHasFile, Status
  <2>2. UNCHANGED <<staged, sweep, overdue, analysed, crashed>> /\ analysed' \subseteq Ops
    BY <1>7 DEF Import, UploadInv, TypeOK
  <2>3. CASE imported' = imported \cup {o} /\ Goto(r, "analyse") /\ UNCHANGED <<row, flight>>
    BY <2>1, <2>2, <2>3, MoveStep DEF Pcs, Holding, UploadInv, TypeOK
  <2>4. ASSUME NEW retryable \in BOOLEAN, ImportFailed(r, retryable), imported' \subseteq Ops, flight' \subseteq Ops
        PROVE  UploadInv'
    BY <2>1, <2>2, <2>4, SettleStep DEF ImportFailed, Answers
  <2> QED
    BY <1>7, <2>1, <2>3, <2>4 DEF Import, UploadInv, TypeOK
<1>8. ASSUME NEW r \in Requests, Analyse(r) PROVE UploadInv'
  <2> DEFINE o == req[r].op
  <2>1. o \in Ops /\ row[o] # None /\ o \in staged /\ req[r].pc \in Holding
    BY <1>0, <1>8 DEF Analyse, UploadInv, RowThere, OneClaimant, Holding, RetryableHasFile, Status
  <2>2. /\ UNCHANGED <<staged, sweep, overdue, imported, flight, crashed>>
        /\ imported' \subseteq Ops /\ flight' \subseteq Ops /\ analysed' \subseteq Ops
    BY <1>8, <2>1 DEF Analyse, UploadInv, TypeOK
  <2>3. CASE Goto(r, "finish") /\ UNCHANGED row
    BY <2>1, <2>2, <2>3, MoveStep DEF Pcs, Holding
  <2>4. CASE Update(o, "failed", TRUE, TRUE) /\ Answer(r, "failed")
    BY <2>1, <2>2, <2>4, SettleStep DEF Answers
  <2> QED
    BY <1>8, <2>3, <2>4 DEF Analyse
<1>9. ASSUME NEW r \in Requests, Finish(r) PROVE UploadInv'
  BY <1>9, SettleStep DEF Finish, Holding, UploadInv, TypeOK
<1>10. ASSUME NEW r \in Requests, Unlink(r) PROVE UploadInv'
  <2> DEFINE o == req[r].op
  <2>1. o \in Ops /\ Closed(o, "ready")
    BY <1>0, <1>10 DEF Unlink, UploadInv, RemovesWhatIsClosed
  <2>2. /\ req' \in [Requests -> Request]
        /\ \A q \in Requests : req'[q].op = req[q].op
        /\ \A q \in Requests : req'[q].pc = IF q = r THEN "idle" ELSE req[q].pc
        /\ \A q \in Requests : req'[q].pc # "idle" => req'[q].op # None
    BY <1>10, AnswerEffect DEF Unlink, UploadInv, Answers
  <2>3. /\ UNCHANGED <<row, sweep, overdue, imported, flight, analysed, crashed>>
        /\ staged' = staged \ {o}
    BY <1>10 DEF Unlink
  <2>4. TypeOK' /\ RowThere'
    BY <2>2, <2>3 DEF UploadInv, TypeOK, RowThere
  <2>5. OneClaimant' /\ RemovesWhatIsClosed'
    BY <2>2, <2>3 DEF UploadInv, OneClaimant, Holding, Status, RemovesWhatIsClosed, Closed
  <2>6. RetryableHasFile'
    BY <2>1, <2>3 DEF UploadInv, RetryableHasFile, Status, Closed
  <2> QED
    BY <2>4, <2>5, <2>6 DEF UploadInv
<1>11. ASSUME NEW o \in Ops, LateImport(o) \/ Expires(o) PROVE UploadInv'
  <2>1. TypeOK'
    BY <1>11 DEF LateImport, Expires, UploadInv, TypeOK
  <2>2. UNCHANGED <<row, staged, req, sweep>>
    BY <1>11 DEF LateImport, Expires
  <2> QED
    BY <2>1, <2>2 DEF UploadInv, RowThere, OneClaimant, RemovesWhatIsClosed, Closed, RetryableHasFile, Status
<1>12. CASE List
  <2>1. sweep' \in [todo : SUBSET Ops, unlink : Ops \cup {None}] /\ sweep'.unlink = None
    BY <1>12 DEF List, UploadInv, TypeOK
  <2>2. UNCHANGED <<row, staged, req, overdue, imported, flight, analysed, crashed>>
    BY <1>12 DEF List
  <2>3. TypeOK'
    BY <2>1, <2>2 DEF UploadInv, TypeOK
  <2>4. RemovesWhatIsClosed'
    BY <2>1, <2>2 DEF UploadInv, RemovesWhatIsClosed, Closed
  <2> QED
    BY <2>2, <2>3, <2>4 DEF UploadInv, RowThere, OneClaimant, RetryableHasFile, Status
<1>13. ASSUME NEW o \in Ops, Expire(o) PROVE UploadInv'
  <2>1. UNCHANGED <<staged, req, overdue, imported, flight, analysed, crashed>>
    BY <1>13 DEF Expire
  <2>2. CASE Open(o)
    <3>1. /\ row' = [row EXCEPT ![o] = [row[o] EXCEPT !.status = "deleted", !.retryable = FALSE]]
          /\ sweep' = [todo |-> sweep.todo \ {o}, unlink |-> o]
      BY <1>13, <2>2 DEF Expire, UploadInv, TypeOK
    <3>2. [row[o] EXCEPT !.status = "deleted", !.retryable = FALSE] \in Row
      BY <1>0, <2>2 DEF Row, Statuses, Open
    <3>3. /\ row' \in [Ops -> Row \cup {None}] /\ Closed(o, "deleted")'
          /\ \A x \in Ops \ {o} : row'[x] = row[x]
      BY <1>0, <2>2, <3>1, <3>2 DEF UploadInv, TypeOK, Closed, Open, Row
    <3>4. \A q \in Requests : req[q].pc \in Holding \cup {"unlink"} => req[q].op # o
      BY <2>2 DEF UploadInv, OneClaimant, Status, Open, RemovesWhatIsClosed, Closed, Holding
    <3>5. TypeOK'
      BY <2>1, <3>1, <3>3 DEF UploadInv, TypeOK
    <3>6. RowThere'
      BY <1>0, <2>1, <3>3 DEF UploadInv, RowThere, Closed
    <3>7. OneClaimant'
      BY <1>0, <2>1, <3>3, <3>4 DEF UploadInv, OneClaimant, Status, Holding
    <3>8. RemovesWhatIsClosed'
      BY <1>0, <2>1, <3>1, <3>3, <3>4 DEF UploadInv, RemovesWhatIsClosed, Closed
    <3>9. RetryableHasFile'
      BY <2>1, <3>3 DEF UploadInv, RetryableHasFile, Status, Closed
    <3> QED
      BY <3>5, <3>6, <3>7, <3>8, <3>9 DEF UploadInv
  <2>3. CASE ~Open(o)
    <3>1. sweep' = [sweep EXCEPT !.todo = @ \ {o}] /\ UNCHANGED row
      BY <1>13, <2>3 DEF Expire
    <3>2. sweep' \in [todo : SUBSET Ops, unlink : Ops \cup {None}] /\ sweep'.unlink = sweep.unlink
      BY <3>1 DEF UploadInv, TypeOK
    <3>3. TypeOK'
      BY <2>1, <3>1, <3>2 DEF UploadInv, TypeOK
    <3>4. RemovesWhatIsClosed'
      BY <2>1, <3>1, <3>2 DEF UploadInv, RemovesWhatIsClosed, Closed
    <3> QED
      BY <2>1, <3>1, <3>3, <3>4 DEF UploadInv, RowThere, OneClaimant, RetryableHasFile, Status
  <2> QED
    BY <2>2, <2>3
<1>14. CASE RemoveFile
  <2>1. /\ UNCHANGED <<row, req, overdue, imported, flight, analysed, crashed>>
        /\ staged' = staged \ {sweep.unlink}
        /\ Closed(sweep.unlink, "deleted")
    BY <1>14 DEF RemoveFile, UploadInv, RemovesWhatIsClosed
  <2>2. sweep' \in [todo : SUBSET Ops, unlink : Ops \cup {None}] /\ sweep'.unlink = None
    BY <1>14 DEF RemoveFile, UploadInv, TypeOK
  <2>3. TypeOK' /\ RowThere'
    BY <2>1, <2>2 DEF UploadInv, TypeOK, RowThere
  <2>4. OneClaimant' /\ RemovesWhatIsClosed'
    BY <2>1, <2>2 DEF UploadInv, OneClaimant, Status, RemovesWhatIsClosed, Closed
  <2>5. RetryableHasFile'
    BY <2>1 DEF UploadInv, RetryableHasFile, Status, Closed
  <2> QED
    BY <2>3, <2>4, <2>5 DEF UploadInv
<1>15. CASE Crash
  <2>1. /\ req' = [r \in Requests |-> Idle]
        /\ sweep' = [todo |-> {}, unlink |-> None]
        /\ crashed' = TRUE
        /\ UNCHANGED <<row, staged, overdue, imported, analysed>>
    BY <1>15 DEF Crash
  <2>2. flight' \subseteq Ops
    BY <1>0, <1>15 DEF Crash, UploadInv, TypeOK
  <2>3. Idle \in Request
    BY DEF Idle, Request
  <2>4. TypeOK'
    BY <2>1, <2>2, <2>3 DEF UploadInv, TypeOK, Idle
  <2>5. RowThere' /\ OneClaimant' /\ RemovesWhatIsClosed'
    BY <2>1 DEF RowThere, OneClaimant, Holding, RemovesWhatIsClosed, Idle
  <2> QED
    BY <2>1, <2>4, <2>5 DEF UploadInv, RetryableHasFile, Status
<1>16. CASE UNCHANGED vars
  BY <1>16 DEF vars, UploadInv, TypeOK, RowThere, OneClaimant, RemovesWhatIsClosed, Closed, RetryableHasFile, Status
<1> QED
  BY <1>1, <1>2, <1>3, <1>4, <1>5, <1>6, <1>7, <1>8, <1>9, <1>10, <1>11, <1>12, <1>13, <1>14, <1>15, <1>16
     DEF Next, Step, Sweep

\* The inductive invariant holds in every reachable state.
THEOREM UploadInvariant == Spec => []UploadInv
<1> QED
  BY UploadInvInit, UploadInvStep, PTL DEF Spec

\* The rows, the requests and the clean-up keep their types, for every number of them.
THEOREM TypeCorrect == Spec => []TypeOK
<1>1. UploadInv => TypeOK
  BY DEF UploadInv
<1> QED
  BY <1>1, UploadInvariant, PTL

\* The conditional UPDATE of claim_upload_operation_for_preparation lets one thread at a
\* time work on an operation, whatever uploads, retries, clean-up and crashes interleave.
THEOREM ClaimIsExclusive == Spec => []OneClaimant
<1>1. UploadInv => OneClaimant
  BY DEF UploadInv
<1> QED
  BY <1>1, UploadInvariant, PTL

\* Neither the clean-up nor the end of a request takes the staged bytes of an operation
\* that is being prepared or may be retried: who removes a file closed its row before.
THEOREM BytesAreKept == Spec => []RetryableHasFile
<1>1. UploadInv => RetryableHasFile
  BY DEF UploadInv
<1> QED
  BY <1>1, UploadInvariant, PTL
=============================================================================
