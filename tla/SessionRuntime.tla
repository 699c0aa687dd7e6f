---------------------------- MODULE SessionRuntime ----------------------------
(***************************************************************************)
(* The runtime-state document of a session in the app backend: one JSON    *)
(* column that every handler reads whole and writes back whole.  Handlers  *)
(* of the event loop give way only where they await; turns that start with *)
(* @exec run on threads of a pool.  Reading and writing are SQL statements *)
(* of their own; calls of the execution subsystem come in between.         *)
(***************************************************************************)
EXTENDS Naturals, FiniteSets

CONSTANTS
  Requests,   \* requests under way at a time
  Executions, \* execution ids; the confirmation id of an execution is its own
  MaxStep,    \* bound: workflow steps of the session
  MaxApproved,\* bound: approved snapshots
  None

ASSUME BoundsAssumption == MaxStep \in Nat /\ MaxApproved \in Nat

VARIABLES
  exists,   \* does the row of the session exist?
  doc,      \* its runtime-state document: the content lane and the execution lane
  latest,   \* the newest approved snapshot of the session
  server,   \* server[e]: the execution in the execution subsystem
  finals,   \* finals[e]: final outputs of the agent chat e among the messages
  req,      \* req[r]: a request, the document as it read it
  loop      \* the request that holds the event loop, or None

vars == <<exists, doc, latest, server, finals, req, loop>>

Turns    == {"submit", "status"}                     \* @exec turns, on threads
Lookups  == {"poll", "interactions", "cancel"}       \* await, then read and write
Local    == {"approve", "login", "chat"}             \* never await
Kinds    == Turns \cup Lookups \cup Local \cup {"advance", "confirm", "endChat"}
ASSUME NoneAssumption == None \notin Requests \cup Executions \cup Kinds

Doc == [progress : 0..MaxStep, approved : 0..MaxApproved,
        exec : Executions \cup {None}, conf : Executions \cup {None},
        state : {None, "pending", "over"}]
EmptyDoc == [progress |-> 0, approved |-> 0, exec |-> None, conf |-> None, state |-> None]

Request ==
  [pc : {"idle", "read", "reread", "snapshot", "lookup", "http", "append", "write"},
   kind : Kinds \cup {None}, e : Executions \cup {None},
   doc : Doc,                                        \* the copy it will write
   snapshot : 0..MaxApproved,                        \* what it binds or approved
   conf : Executions \cup {None},                    \* the confirmation id it sends
   got : {"none", "pending", "running", "over"},     \* what the subsystem answered
   missed : BOOLEAN]                                 \* has the loop written since it read?

Idle == [pc |-> "idle", kind |-> None, e |-> None, doc |-> EmptyDoc, snapshot |-> 0,
         conf |-> None, got |-> "none", missed |-> FALSE]

End(r)        == req' = [req EXCEPT ![r] = Idle]
Goto(r, pc)   == req' = [req EXCEPT ![r].pc = pc]
OnLoop(r)     == loop = r
Copied(r, pc) == req' = [req EXCEPT ![r].doc = doc, ![r].missed = FALSE, ![r].pc = pc]

\* _record_confirmation_lane_state: a new confirmation replaces the id, an end
\* only the state; nothing ever clears the id.
RecordConfirmation(d, e, got) ==
  CASE got = "pending" -> [d EXCEPT !.conf = e, !.state = "pending"]
    [] got = "over"    -> [d EXCEPT !.state = "over"]
    [] OTHER           -> d

(*----------------------------- the beginning -----------------------------*)

\* The chat route creates the session it does not find; the other routes refuse.
\* approve saves its snapshot before it reads the document.
BeginTurn(r) ==
  /\ req[r].pc = "idle" /\ loop = None
  /\ \E kind \in Turns \cup {"chat"}, e \in Executions :
       /\ (kind = "submit") => /\ server[e] = "absent"
                                /\ \A q \in Requests : req[q].kind = "submit" => req[q].e # e
       /\ req' = [req EXCEPT ![r] = [Idle EXCEPT !.kind = kind,
                    !.e = IF kind = "chat" THEN None ELSE e,
                    !.pc = IF kind = "status" THEN "http" ELSE "read"]]
       /\ loop' = IF kind = "chat" THEN r ELSE None
  /\ exists' = TRUE
  /\ doc' = IF exists THEN doc ELSE EmptyDoc
  /\ UNCHANGED <<latest, server, finals>>

BeginLookup(r) ==
  /\ req[r].pc = "idle" /\ loop = None /\ exists
  /\ \E kind \in Lookups \cup {"endChat"}, e \in Executions :
       req' = [req EXCEPT ![r] = [Idle EXCEPT !.kind = kind, !.e = e, !.pc = "http"]]
  /\ UNCHANGED <<exists, doc, latest, server, finals, loop>>

BeginLocal(r) ==
  /\ req[r].pc = "idle" /\ loop = None /\ exists
  /\ loop' = r
  /\ \/ /\ latest < MaxApproved
        /\ latest' = latest + 1
        /\ req' = [req EXCEPT ![r] = [Idle EXCEPT !.kind = "approve", !.pc = "read",
                                                  !.snapshot = latest + 1]]
     \/ /\ \E kind \in {"login", "advance"} :
             req' = [req EXCEPT ![r] = [Idle EXCEPT !.kind = kind, !.pc = "read"]]
        /\ UNCHANGED latest
     \/ /\ \E e \in Executions :
             req' = [req EXCEPT ![r] = [Idle EXCEPT !.kind = "confirm", !.e = e, !.pc = "read"]]
        /\ UNCHANGED latest
  /\ UNCHANGED <<exists, doc, server, finals>>

\* The row and the messages go; approved snapshots have no owner and stay.
Delete ==
  /\ loop = None /\ exists
  /\ exists' = FALSE
  /\ doc' = EmptyDoc
  /\ finals' = [e \in Executions |-> 0]
  /\ UNCHANGED <<latest, server, req, loop>>

(*------------------------------- the reads -------------------------------*)

\* advance reads its step from the row and the document again to put it in; a
\* confirmation of the latest execution uses the id of the lane.
Read(r) ==
  LET k == req[r].kind
  IN /\ req[r].pc = "read" /\ k \notin Lookups
     /\ CASE k = "submit"  -> Copied(r, "snapshot") /\ UNCHANGED loop
          [] k = "advance" -> Copied(r, "reread") /\ UNCHANGED loop
          [] k = "confirm" ->
               IF doc.exec = req[r].e /\ doc.conf # None
               THEN /\ req' = [req EXCEPT ![r].doc = doc, ![r].missed = FALSE,
                                          ![r].conf = doc.conf, ![r].pc = "http"]
                    /\ loop' = None
               ELSE Copied(r, "lookup") /\ UNCHANGED loop
          [] OTHER -> Copied(r, "write") /\ UNCHANGED loop
     /\ UNCHANGED <<exists, doc, latest, server, finals>>

\* update_session_workflow_state.
Reread(r) ==
  LET p == req[r].doc.progress
  IN /\ req[r].pc = "reread"
     /\ \E next \in {p, p + 1} \cap 0..MaxStep :
          req' = [req EXCEPT ![r].doc = [doc EXCEPT !.progress = next],
                             ![r].missed = FALSE, ![r].pc = "write"]
     /\ UNCHANGED <<exists, doc, latest, server, finals, loop>>

\* resolve_approved_snapshot: the newest, whatever the lane says.
Snapshot(r) ==
  /\ req[r].pc = "snapshot"
  /\ req' = [req EXCEPT ![r].snapshot = latest, ![r].pc = "http"]
  /\ UNCHANGED <<exists, doc, latest, server, finals, loop>>

\* The status look-up of a confirmation, made on the event loop itself.
Lookup(r) ==
  LET e == req[r].e
  IN /\ req[r].pc = "lookup"
     /\ \E got \in {server[e], "none"} \ {"absent"} :
          LET d == RecordConfirmation(req[r].doc, e, got)
          IN IF d.conf = None
             THEN End(r)
             ELSE req' = [req EXCEPT ![r].doc = d, ![r].conf = d.conf, ![r].pc = "http"]
     /\ loop' = None
     /\ UNCHANGED <<exists, doc, latest, server, finals>>

(*--------------------- calls of the execution subsystem -------------------*)

\* "none" is an error answer or no answer in time: what was asked may still have
\* been done.  A turn records the error, a look-up gives up.
Sent(r, statuses) ==
  LET e == req[r].e
  IN /\ req[r].pc = "http" /\ req[r].kind = "submit"
     /\ \E status \in statuses \cup {"absent"}, lost \in BOOLEAN :
          /\ server' = [server EXCEPT ![e] = status]
          /\ req' = [req EXCEPT ![r].got = IF lost \/ status = "absent" THEN "none" ELSE status,
                                ![r].pc = "write"]
     /\ UNCHANGED <<exists, doc, latest, finals, loop>>

\* A skill runs to its end in the call, or waits for a confirmation; an agent may
\* go on running after it.
SubmitSkill(r) == Sent(r, {"pending", "over"})
SubmitAgent(r) == Sent(r, {"pending", "running", "over"})

\* An unknown skill or tool, or one whose request is not valid, is refused before
\* anything is sent.
Refuse(r) ==
  /\ req[r].pc = "http" /\ req[r].kind = "submit"
  /\ End(r)
  /\ UNCHANGED <<exists, doc, latest, server, finals, loop>>

\* A status turn on the latest execution, when that has a task of its provider,
\* asks the provider too, and takes its answer for the status.
Poll(r) ==
  /\ req[r].pc = "write" /\ req[r].kind = "status" /\ req[r].doc.exec = req[r].e
  /\ \E got \in {"none", "running", "over"} : req' = [req EXCEPT ![r].got = got]
  /\ UNCHANGED <<exists, doc, latest, server, finals, loop>>

Ask(r) ==
  LET k == req[r].kind
      e == req[r].e
  IN /\ req[r].pc = "http" /\ k \in {"status"} \cup Lookups \cup {"endChat"}
     /\ \/ /\ server[e] # "absent"
           /\ req' = [req EXCEPT ![r].got = server[e],
                                 ![r].pc = IF k = "endChat" THEN "append" ELSE "read"]
        \/ IF k \in {"status", "poll"} THEN Goto(r, "read") ELSE End(r)
     /\ \/ UNCHANGED server
        \/ k = "cancel" /\ server[e] \in {"pending", "running"} /\ server' = [server EXCEPT ![e] = "over"]
     /\ UNCHANGED <<exists, doc, latest, finals, loop>>

\* The subsystem takes the confirmation of the execution it is for, once.
Confirm(r) ==
  LET e == req[r].e
  IN /\ req[r].pc = "http" /\ req[r].kind = "confirm"
     /\ \E status \in {"running", "over"}, lost \in BOOLEAN :
          LET taken == req[r].conf = e /\ server[e] = "pending"
          IN /\ server' = IF taken THEN [server EXCEPT ![e] = status] ELSE server
             /\ req' = [req EXCEPT ![r].got = IF taken /\ ~lost THEN status ELSE "none",
                                   ![r].pc = "write"]
     /\ UNCHANGED <<exists, doc, latest, finals, loop>>

\* The execution ends.
ServerStep(e) ==
  /\ server[e] = "running"
  /\ server' = [server EXCEPT ![e] = "over"]
  /\ UNCHANGED <<exists, doc, latest, finals, req, loop>>

(*------------------------------ the writes -------------------------------*)

\* Mutant: the handler gives the loop up again between its read and its write.
ResumeAndAwait(r) ==
  /\ req[r].pc = "read" /\ req[r].kind \in Lookups /\ loop = None
  /\ Copied(r, "write")
  /\ UNCHANGED <<exists, doc, latest, server, finals, loop>>

\* A handler that awaited holds the loop again when it reads; a turn does not.
Resume(r) ==
  /\ req[r].pc = "read" /\ req[r].kind \in Lookups /\ loop = None
  /\ Copied(r, "write")
  /\ loop' = r
  /\ UNCHANGED <<exists, doc, latest, server, finals>>

\* What the requests make of their copies.  A chat turn puts in the document of
\* persist_run, which has no lanes.
ChatOutcome(step) == [EmptyDoc EXCEPT !.progress = step]

SubmitOutcome(q) ==
  LET bound == IF q.snapshot = 0 THEN q.doc ELSE [q.doc EXCEPT !.approved = q.snapshot]
      named == IF q.got = "none" THEN bound ELSE [bound EXCEPT !.exec = q.e]
  IN RecordConfirmation(named, q.e, q.got)

StatusOutcome(q) == RecordConfirmation([q.doc EXCEPT !.exec = q.e], q.e, q.got)

Outcome(r, step) ==
  LET q == req[r]
  IN CASE q.kind = "chat"    -> ChatOutcome(step)
       [] q.kind = "approve" -> [q.doc EXCEPT !.approved = q.snapshot]
       [] q.kind = "submit"  -> SubmitOutcome(q)
       [] q.kind \in {"status", "poll", "confirm"}  -> StatusOutcome(q)
       [] q.kind \in {"interactions", "cancel"}     -> [q.doc EXCEPT !.exec = q.e]
       [] OTHER -> q.doc

\* Mutant: the row is put back where the UPDATE finds none.
WriteUpserts(r) ==
  /\ req[r].pc = "write" /\ (req[r].kind = "confirm" => loop = None)
  /\ \E step \in 0..MaxStep : doc' = Outcome(r, step)
  /\ exists' = TRUE
  /\ req' = [q \in Requests |->
       IF q = r THEN Idle
       ELSE IF req[r].kind \in Turns THEN req[q] ELSE [req[q] EXCEPT !.missed = TRUE]]
  /\ loop' = IF OnLoop(r) THEN None ELSE loop
  /\ UNCHANGED <<latest, server, finals>>

\* set_runtime_state: the whole document, an UPDATE that may find no row.
Write(r) ==
  /\ req[r].pc = "write" /\ (req[r].kind = "confirm" => loop = None)
  /\ \E step \in 0..MaxStep : doc' = IF exists THEN Outcome(r, step) ELSE doc
  /\ req' = [q \in Requests |->
       IF q = r THEN Idle
       ELSE IF req[r].kind \in Turns \/ req[q].pc = "idle" THEN req[q]
       ELSE [req[q] EXCEPT !.missed = TRUE]]
  /\ loop' = IF OnLoop(r) THEN None ELSE loop
  /\ UNCHANGED <<exists, latest, server, finals>>

\* Mutant: the final output is added without a look at the history.
AppendAlways(r) ==
  /\ req[r].pc = "append" /\ loop = None
  /\ finals' = [finals EXCEPT ![req[r].e] = @ + 1]
  /\ End(r)
  /\ UNCHANGED <<exists, doc, latest, server, loop>>

\* The end of an agent chat: the final output is kept once.
Append(r) ==
  /\ req[r].pc = "append" /\ loop = None
  /\ finals' = [finals EXCEPT ![req[r].e] = IF @ = 0 THEN 1 ELSE @]
  /\ End(r)
  /\ UNCHANGED <<exists, doc, latest, server, loop>>

Init ==
  /\ exists = FALSE /\ doc = EmptyDoc /\ latest = 0
  /\ server = [e \in Executions |-> "absent"]
  /\ finals = [e \in Executions |-> 0]
  /\ req = [r \in Requests |-> Idle]
  /\ loop = None

Next ==
  \/ \E r \in Requests :
       \/ BeginTurn(r) \/ BeginLookup(r) \/ BeginLocal(r)
       \/ Read(r) \/ Resume(r) \/ Reread(r) \/ Snapshot(r) \/ Lookup(r)
       \/ SubmitSkill(r) \/ SubmitAgent(r) \/ Refuse(r) \/ Poll(r) \/ Ask(r) \/ Confirm(r) \/ Write(r) \/ Append(r)
  \/ Delete
  \/ \E e \in Executions : ServerStep(e)

Spec == Init /\ [][Next]_vars

(*------------------------------- properties ------------------------------*)

\* Every variable has its type.
TypeOK ==
  /\ exists \in BOOLEAN /\ doc \in Doc /\ latest \in 0..MaxApproved
  /\ server \in [Executions -> {"absent", "pending", "running", "over"}]
  /\ finals \in [Executions -> Nat]
  /\ req \in [Requests -> Request]
  /\ loop \in Requests \cup {None}
  /\ \A r \in Requests : req[r].pc # "idle" => req[r].kind # None

\* Handlers of the event loop do not undo each other: what another one wrote is
\* in the copy that this one puts back.  Only confirm reads before it awaits.
LoopHandlersSerial ==
  \A r \in Requests :
    (req[r].pc = "write" /\ req[r].kind \in Lookups \cup Local \cup {"advance"}) => ~req[r].missed

\* However often, and by however many windows, an agent chat is ended, its final
\* output is among the messages of the session at most once.
FinalOnce == \A e \in Executions : finals[e] <= 1

\* A request that ends after its session was deleted does not bring it back: only
\* a chat turn makes a session, and an empty one.
DeletedStaysDeleted ==
  [][(~exists /\ exists') => doc' = EmptyDoc /\ \E r \in Requests : req[r].pc = "idle" /\ req'[r].pc # "idle"]_vars

=============================================================================
