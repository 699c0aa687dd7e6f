--------------------------- MODULE ArtifactUpload ---------------------------
(***************************************************************************)
(* Uploads of session files by the app backend: the row and the staged     *)
(* file of an upload operation, the requests that stage, import and        *)
(* analyse it on threads of a pool, the import of older uploads, and the   *)
(* task that removes what was not finished in time.  Every SQL statement,  *)
(* file operation and call of the execution subsystem is a step; a crash   *)
(* of the backend keeps the rows and the files and loses the threads.      *)
(***************************************************************************)
EXTENDS Naturals, FiniteSets

CONSTANTS
  Ops,       \* upload operation ids of one session
  Legacy,    \* those that import an older upload: its file is never removed
  Requests,  \* threads that serve requests
  None

ASSUME OpsAssumption == Legacy \subseteq Ops

VARIABLES
  row,      \* row[o]: the row of the operation, or None
  staged,   \* the operations whose staged file exists
  req,      \* req[r]: what a thread is doing
  sweep,    \* the cleanup task: ids it listed and the id whose file it removes
  overdue,  \* the operations whose retention has passed
  imported, \* the operations the execution subsystem holds an artifact for
  flight,   \* imports it still receives after the backend stopped waiting
  analysed, \* the operations whose analysis ran to its end
  crashed   \* has the backend ever stopped?

vars == <<row, staged, req, sweep, overdue, imported, flight, analysed, crashed>>

Statuses == {"staged", "preparing", "ready", "failed", "deleted"}
Row == [status : Statuses, retryable : BOOLEAN, artifact : BOOLEAN, query : BOOLEAN]
ASSUME NoneAssumption == None \notin Ops \cup Requests \cup Row

\* query: does the operation, or the request, ask for the analysis of the file?
Idle == [pc |-> "idle", op |-> None, kind |-> None, query |-> FALSE, answer |-> None]
Request ==
  [pc     : {"idle", "look", "stage", "claim", "reread", "check", "import", "analyse", "finish", "unlink"},
   op     : Ops \cup {None},
   kind   : {"upload", "retry", "legacy", None},
   query  : BOOLEAN,
   answer : {"ready", "preparing", "failed", "rejected", None}]

Status(o) == IF row[o] = None THEN "absent" ELSE row[o].status
Open(o) == row[o] # None /\ row[o].retryable /\ row[o].status \in {"staged", "failed"}

Goto(r, pc)   == req' = [req EXCEPT ![r].pc = pc]
Answer(r, a)  == req' = [req EXCEPT ![r].pc = "idle", ![r].answer = a]

\* update_upload_operation: no condition on the row it overwrites.
Update(o, status, artifact, retryable) ==
  row' = [row EXCEPT ![o].status = status, ![o].artifact = artifact, ![o].retryable = retryable]

(*------------------------------ a request --------------------------------*)

\* import_legacy_upload: an upload under the id "legacy.<upload id>", which a
\* client may send, too.
Kinds(o) == {"upload", "retry"} \cup (IF o \in Legacy THEN {"legacy"} ELSE {})

\* A retry takes its analysis from the row, which its route reads before the
\* service does; the import of an older upload asks for none.
Begin(r) ==
  /\ req[r].pc = "idle"
  /\ \E o \in Ops, query \in BOOLEAN : \E kind \in Kinds(o) :
       /\ (kind = "legacy") => ~query
       /\ (kind = "retry")  => query = (row[o] # None /\ row[o].status # "ready" /\ row[o].query)
       /\ req' = [req EXCEPT ![r] = [pc |-> "look", op |-> o, kind |-> kind,
                                     query |-> query, answer |-> None]]
  /\ UNCHANGED <<row, staged, sweep, overdue, imported, flight, analysed, crashed>>

\* The head of upload() and of retry(): a row that is being prepared counts as
\* one to prepare.
Look(r) ==
  LET o == req[r].op
  IN /\ req[r].pc = "look"
     /\ CASE row[o] = None /\ req[r].kind # "retry"  -> Goto(r, "stage")
          [] row[o] = None /\ req[r].kind = "retry"  -> Answer(r, "rejected")
          [] row[o] # None /\ row[o].status = "ready" -> Answer(r, "ready")
          [] row[o] # None /\ row[o].status \in {"staged", "failed", "preparing"} /\ row[o].retryable
                                                      -> Goto(r, "claim")
          [] OTHER                                    -> Answer(r, "rejected")
     /\ UNCHANGED <<row, staged, sweep, overdue, imported, flight, analysed, crashed>>

\* save_session_upload_stream: the row goes in when the whole file is in place;
\* a file too large, or a row that is there by now, takes the file away again.
Stage(r) ==
  LET o == req[r].op
  IN /\ req[r].pc = "stage"
     /\ \/ /\ row[o] = None
           /\ row' = [row EXCEPT ![o] = [status |-> "staged", retryable |-> TRUE,
                                         artifact |-> FALSE, query |-> req[r].query]]
           /\ staged' = staged \cup {o}
           /\ Goto(r, "claim")
        \/ /\ Answer(r, "rejected")
           /\ UNCHANGED <<row, staged>>
     /\ UNCHANGED <<sweep, overdue, imported, flight, analysed, crashed>>

\* Mutant: the claim is the SELECT of a moment ago, not a conditional UPDATE.
ClaimUnguarded(r) ==
  LET o == req[r].op
  IN /\ req[r].pc = "claim"
     /\ row' = [row EXCEPT ![o].status = "preparing"]
     /\ Goto(r, "check")
     /\ UNCHANGED <<staged, sweep, overdue, imported, flight, analysed, crashed>>

\* claim_upload_operation_for_preparation: one conditional UPDATE.
Claim(r) ==
  LET o == req[r].op
  IN /\ req[r].pc = "claim"
     /\ IF Open(o)
        THEN /\ row' = [row EXCEPT ![o].status = "preparing"]
             /\ Goto(r, "check")
        ELSE /\ Goto(r, "reread")
             /\ UNCHANGED row
     /\ UNCHANGED <<staged, sweep, overdue, imported, flight, analysed, crashed>>

Reread(r) ==
  LET o == req[r].op
  IN /\ req[r].pc = "reread"
     /\ IF row[o].status \in {"ready", "preparing"}
        THEN Answer(r, row[o].status)
        ELSE Answer(r, "rejected")
     /\ UNCHANGED <<row, staged, sweep, overdue, imported, flight, analysed, crashed>>

\* What _prepare refuses before the import: a missing file for good, an analysis
\* that the request does not bring until another request does.
Check(r) ==
  LET o == req[r].op
  IN /\ req[r].pc = "check"
     /\ CASE o \notin staged -> Update(o, "failed", FALSE, FALSE) /\ Answer(r, "failed")
          [] o \in staged /\ row[o].query /\ ~req[r].query ->
               Update(o, "failed", row[o].artifact, TRUE) /\ Answer(r, "failed")
          [] OTHER -> UNCHANGED row /\ Goto(r, "import")
     /\ UNCHANGED <<staged, sweep, overdue, imported, flight, analysed, crashed>>

\* An answer that is an error, or that names no artifact.
ImportFailed(r, retryable) ==
  Update(req[r].op, "failed", FALSE, retryable) /\ Answer(r, "failed")

\* import_session_upload: done, refused, or unanswered in time.  The
\* importer finds an artifact by the operation id, so an import repeats safely.
Import(r) ==
  LET o == req[r].op
  IN /\ req[r].pc = "import"
     /\ \/ /\ imported' = imported \cup {o}
           /\ Goto(r, "analyse")
           /\ UNCHANGED <<row, flight>>
        \/ /\ \E retryable \in BOOLEAN : ImportFailed(r, retryable)
           /\ UNCHANGED <<imported, flight>>
        \/ /\ ImportFailed(r, TRUE)
           /\ flight' = flight \cup {o}
           /\ UNCHANGED imported
     /\ UNCHANGED <<staged, sweep, overdue, analysed, crashed>>

\* An import that arrives when nobody waits for it.
LateImport(o) ==
  /\ o \in flight
  /\ flight' = flight \ {o}
  /\ imported' = imported \cup {o}
  /\ UNCHANGED <<row, staged, req, sweep, overdue, analysed, crashed>>

\* Mutant: an exception of the analysis is not caught.
AnalyseUncaught(r) ==
  /\ req[r].pc = "analyse"
  /\ \/ analysed' = analysed \cup {req[r].op} /\ Goto(r, "finish")
     \/ UNCHANGED analysed /\ Answer(r, "failed")
  /\ UNCHANGED <<row, staged, sweep, overdue, imported, flight, crashed>>

\* The analysis is a whole chat turn on the staged file; an exception of it
\* leaves the operation to be retried, its artifact noted.
Analyse(r) ==
  LET o == req[r].op
  IN /\ req[r].pc = "analyse"
     /\ \/ /\ analysed' = IF req[r].query THEN analysed \cup {o} ELSE analysed
           /\ Goto(r, "finish")
           /\ UNCHANGED row
        \/ /\ req[r].query
           /\ Update(o, "failed", TRUE, TRUE)
           /\ Answer(r, "failed")
           /\ UNCHANGED analysed
     /\ UNCHANGED <<staged, sweep, overdue, imported, flight, crashed>>

Finish(r) ==
  /\ req[r].pc = "finish"
  /\ Update(req[r].op, "ready", TRUE, FALSE)
  /\ Goto(r, "unlink")
  /\ UNCHANGED <<staged, sweep, overdue, imported, flight, analysed, crashed>>

Unlink(r) ==
  /\ req[r].pc = "unlink"
  /\ staged' = staged \ {req[r].op}
  /\ Answer(r, "ready")
  /\ UNCHANGED <<row, sweep, overdue, imported, flight, analysed, crashed>>

(*------------------------------- clean-up --------------------------------*)

\* The clock passes staging_expires_at of o.
Expires(o) ==
  /\ row[o] # None
  /\ overdue' = overdue \cup {o}
  /\ UNCHANGED <<row, staged, req, sweep, imported, flight, analysed, crashed>>

\* list_expired_upload_operations.
List ==
  /\ sweep.todo = {} /\ sweep.unlink = None
  /\ sweep' = [sweep EXCEPT !.todo = {o \in overdue : Open(o)}]
  /\ UNCHANGED <<row, staged, req, overdue, imported, flight, analysed, crashed>>

\* Mutant: the file is removed before the row says so.
ExpireFileFirst(o) ==
  /\ o \in sweep.todo /\ sweep.unlink = None
  /\ staged' = staged \ {o}
  /\ sweep' = [todo |-> sweep.todo \ {o}, unlink |-> o]
  /\ UNCHANGED <<row, req, overdue, imported, flight, analysed, crashed>>

\* The conditional UPDATE of expire_upload_operation.
Expire(o) ==
  /\ o \in sweep.todo /\ sweep.unlink = None
  /\ IF Open(o)
     THEN /\ row' = [row EXCEPT ![o].status = "deleted", ![o].retryable = FALSE]
          /\ sweep' = [todo |-> sweep.todo \ {o}, unlink |-> o]
     ELSE /\ sweep' = [sweep EXCEPT !.todo = @ \ {o}]
          /\ UNCHANGED row
  /\ UNCHANGED <<staged, req, overdue, imported, flight, analysed, crashed>>

\* Mutant: the task stops at the row and never removes a file.
ForgetFile ==
  /\ sweep.unlink # None
  /\ sweep' = [sweep EXCEPT !.unlink = None]
  /\ UNCHANGED <<row, staged, req, overdue, imported, flight, analysed, crashed>>

RemoveFile ==
  /\ sweep.unlink # None
  /\ staged' = staged \ {sweep.unlink}
  /\ sweep' = [sweep EXCEPT !.unlink = None]
  /\ UNCHANGED <<row, req, overdue, imported, flight, analysed, crashed>>

(*--------------------------------- crash ---------------------------------*)

\* The backend stops: a call on its way may still reach the execution subsystem.
Crash ==
  /\ \E arriving \in SUBSET {req[r].op : r \in {q \in Requests : req[q].pc = "import"}} :
       flight' = flight \cup arriving
  /\ req' = [r \in Requests |-> Idle]
  /\ sweep' = [todo |-> {}, unlink |-> None]
  /\ crashed' = TRUE
  /\ UNCHANGED <<row, staged, overdue, imported, analysed>>

Init ==
  /\ row = [o \in Ops |-> None]
  /\ staged = {}
  /\ req = [r \in Requests |-> Idle]
  /\ sweep = [todo |-> {}, unlink |-> None]
  /\ overdue = {} /\ imported = {} /\ flight = {} /\ analysed = {}
  /\ crashed = FALSE

Step(r) ==
  \/ Look(r) \/ Stage(r) \/ Claim(r) \/ Reread(r) \/ Check(r)
  \/ Import(r) \/ Analyse(r) \/ Finish(r) \/ Unlink(r)
Sweep == List \/ RemoveFile \/ \E o \in Ops : Expire(o)

Next ==
  \/ \E r \in Requests : Begin(r) \/ Step(r)
  \/ \E o \in Ops : LateImport(o) \/ Expires(o)
  \/ Sweep
  \/ Crash

Spec == Init /\ [][Next]_vars

\* A thread in a request goes on: the client of the execution subsystem and the
\* models it calls time out.  The clean-up task repeats for ever.
FairSpec == Spec /\ WF_vars(Sweep) /\ \A r \in Requests : WF_vars(Step(r))

(*------------------------------- properties ------------------------------*)

\* Every variable has its type.
TypeOK ==
  /\ row \in [Ops -> Row \cup {None}]
  /\ staged \subseteq Ops /\ overdue \subseteq Ops /\ imported \subseteq Ops
  /\ flight \subseteq Ops /\ analysed \subseteq Ops
  /\ req \in [Requests -> Request]
  /\ \A r \in Requests : req[r].pc # "idle" => req[r].op # None
  /\ sweep \in [todo : SUBSET Ops, unlink : Ops \cup {None}]
  /\ crashed \in BOOLEAN

Holding == {"check", "import", "analyse", "finish"}

\* A thread past the claim is the only one on its operation, and the row says
\* so: two requests, or a request and the clean-up, never prepare or drop the
\* same bytes (claim_upload_operation_for_preparation).
OneClaimant ==
  \A r \in Requests : req[r].pc \in Holding =>
    /\ Status(req[r].op) = "preparing"
    /\ \A q \in Requests \ {r} : req[q].pc \in Holding => req[q].op # req[r].op

\* An operation that may still be retried, or is being prepared, has its staged
\* bytes: neither the clean-up nor a finished request takes them from under it.
RetryableHasFile ==
  \A o \in Ops :
    (Status(o) = "preparing" \/ (row[o] # None /\ row[o].retryable)) => o \in staged

\* As long as the backend does not stop, what a request claimed is settled.
ClaimIsSettled ==
  \A o \in Ops :
    Status(o) = "preparing" ~> (Status(o) # "preparing" \/ crashed)

\* As long as the backend does not stop, the bytes of an overdue operation are
\* removed, prepared or failed for good.
OverdueIsCleaned ==
  \A o \in Ops :
    (o \in overdue /\ o \in staged)
      ~> (o \notin staged \/ Status(o) = "preparing" \/ crashed
            \/ (Status(o) = "failed" /\ ~row[o].retryable))
=============================================================================
