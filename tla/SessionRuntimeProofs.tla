------------------------ MODULE SessionRuntimeProofs ------------------------
(***************************************************************************)
(* Theorems about SessionRuntime, for every number of requests, executions *)
(* and workflow steps.                                                     *)
(***************************************************************************)
EXTENDS SessionRuntime, TLAPS

USE DEF Turns, Lookups, Local

Addressed == Turns \cup Lookups \cup {"confirm", "endChat"}

(* Which handlers stand where, and which of them name an execution.        *)
StandsRight(q) ==
  /\ q.pc # "idle" => q.kind \in Kinds
  /\ q.pc # "idle" /\ q.kind \in Addressed => q.e \in Executions
  /\ q.pc \in {"read", "write"} => q.kind # "endChat"
  /\ q.pc = "reread"   => q.kind = "advance"
  /\ q.pc = "snapshot" => q.kind = "submit"
  /\ q.pc = "lookup"   => q.kind = "confirm"
  /\ q.pc = "append"   => q.kind = "endChat"
  /\ q.pc = "http"     => q.kind \in Addressed

(* The stretches of the handlers that no await divides.                    *)
HoldsLoop(q) ==
  \/ q.pc \in {"read", "reread", "write"} /\ q.kind \in Local \cup {"advance"}
  \/ q.pc \in {"read", "lookup"} /\ q.kind = "confirm"
  \/ q.pc = "write" /\ q.kind \in Lookups

LoopInv ==
  /\ \A r \in Requests : StandsRight(req[r])
  /\ \A r \in Requests : HoldsLoop(req[r]) => loop = r
  /\ \A r \in Requests : HoldsLoop(req[r]) /\ req[r].pc \in {"reread", "write"} => ~req[r].missed

RuntimeInv == TypeOK /\ LoopInv /\ FinalOnce

----------------------------------------------------------------------------
(* TypeOK without the requests.                                            *)
RestTyped ==
  /\ exists \in BOOLEAN /\ doc \in Doc /\ latest \in 0..MaxApproved
  /\ server \in [Executions -> {"absent", "pending", "running", "over"}]
  /\ finals \in [Executions -> Nat]
  /\ loop \in Requests \cup {None}

\* A step that changes request r only keeps the invariant, if the new request is typed
\* and holds the loop wherever it must not be interrupted.
LEMMA OneMoves ==
  ASSUME RuntimeInv, RestTyped', NEW r \in Requests, NEW new \in Request,
         req' = [req EXCEPT ![r] = new],
         StandsRight(new),
         HoldsLoop(new) => loop' = r,
         HoldsLoop(new) /\ new.pc \in {"reread", "write"} => ~new.missed,
         loop' = loop \/ loop \in {r, None},
         UNCHANGED finals
  PROVE  RuntimeInv'
<1>1. /\ req' \in [Requests -> Request] /\ req'[r] = new
      /\ \A q \in Requests \ {r} : req'[q] = req[q]
  BY DEF RuntimeInv, TypeOK
<1>2. \A q \in Requests \ {r} : HoldsLoop(req[q]) => loop' = q
  BY NoneAssumption DEF RuntimeInv, LoopInv
<1>3. \A q \in Requests : StandsRight(req'[q])
  BY <1>1 DEF RuntimeInv, LoopInv
<1>4. \A q \in Requests : HoldsLoop(req'[q]) => loop' = q
  BY <1>1, <1>2
<1>5. \A q \in Requests : HoldsLoop(req'[q]) /\ req'[q].pc \in {"reread", "write"} => ~req'[q].missed
  BY <1>1 DEF RuntimeInv, LoopInv
<1>6. \A q \in Requests : req'[q].pc # "idle" => req'[q].kind # None
  BY <1>1, <1>3, NoneAssumption DEF RuntimeInv, TypeOK, StandsRight
<1>7. TypeOK'
  BY <1>1, <1>6 DEF TypeOK, RestTyped
<1>8. LoopInv'
  BY <1>3, <1>4, <1>5 DEF LoopInv, StandsRight, HoldsLoop
<1>9. FinalOnce'
  BY DEF RuntimeInv, FinalOnce
<1> QED
  BY <1>7, <1>8, <1>9 DEF RuntimeInv

\* What a confirmation answer makes of a document is a document.
LEMMA RecordTyped ==
  ASSUME NEW d \in Doc, NEW e \in Executions, NEW got
  PROVE  RecordConfirmation(d, e, got) \in Doc
BY DEF RecordConfirmation, Doc

\* A request whose copy is overtaken stays where it is.
LEMMA MissedEffect ==
  ASSUME NEW q \in Request
  PROVE  LET m == [q EXCEPT !.missed = TRUE]
         IN  m \in Request /\ m.pc = q.pc /\ m.kind = q.kind /\ m.e = q.e
BY DEF Request

----------------------------------------------------------------------------
LEMMA RuntimeInvInit == Init => RuntimeInv
<1> SUFFICES ASSUME Init PROVE RuntimeInv
  OBVIOUS
<1>1. EmptyDoc \in Doc
  BY BoundsAssumption DEF EmptyDoc, Doc
<1>2. Idle \in Request
  BY <1>1, BoundsAssumption DEF Idle, Request
<1>3. TypeOK
  <2>1. req \in [Requests -> Request] /\ \A r \in Requests : req[r].pc = "idle"
    BY <1>2 DEF Init, Idle
  <2>2. finals \in [Executions -> Nat] /\ latest \in 0..MaxApproved
    BY BoundsAssumption DEF Init
  <2>3. server \in [Executions -> {"absent", "pending", "running", "over"}]
    BY DEF Init
  <2> QED
    BY <1>1, <2>1, <2>2, <2>3 DEF Init, TypeOK
<1>4. LoopInv
  BY DEF Init, LoopInv, StandsRight, HoldsLoop, Idle
<1>5. FinalOnce
  BY DEF Init, FinalOnce
<1> QED
  BY <1>3, <1>4, <1>5 DEF RuntimeInv

\* Every step keeps the invariant: one step of the proof per action.
LEMMA RuntimeInvStep == RuntimeInv /\ [Next]_vars => RuntimeInv'
<1> SUFFICES ASSUME RuntimeInv, [Next]_vars PROVE RuntimeInv'
  OBVIOUS
<1> USE NoneAssumption, BoundsAssumption
<1>0. /\ EmptyDoc \in Doc /\ Idle \in Request
      /\ StandsRight(Idle) /\ ~HoldsLoop(Idle)
      /\ RestTyped
      /\ \A r \in Requests : req[r] \in Request /\ StandsRight(req[r])
  BY DEF EmptyDoc, Doc, Idle, Request, StandsRight, HoldsLoop, RuntimeInv, LoopInv, TypeOK, RestTyped
<1>1. ASSUME NEW r \in Requests, BeginTurn(r) PROVE RuntimeInv'
  <2>1. PICK kind \in Turns \cup {"chat"}, e \in Executions :
          /\ req' = [req EXCEPT ![r] = [Idle EXCEPT !.kind = kind,
                       !.e = IF kind = "chat" THEN None ELSE e,
                       !.pc = IF kind = "status" THEN "http" ELSE "read"]]
          /\ loop' = IF kind = "chat" THEN r ELSE None
    BY <1>1 DEF BeginTurn
  <2> DEFINE new == [Idle EXCEPT !.kind = kind, !.e = IF kind = "chat" THEN None ELSE e,
                                 !.pc = IF kind = "status" THEN "http" ELSE "read"]
  <2>2. new \in Request
    BY <1>0 DEF Idle, Request, Kinds
  <2>3. StandsRight(new) /\ (HoldsLoop(new) => kind = "chat") /\ ~new.missed
    BY DEF Idle, StandsRight, HoldsLoop, Kinds, Addressed
  <2>4. RestTyped' /\ loop = None /\ UNCHANGED finals
    BY <1>0, <1>1, <2>1 DEF BeginTurn, RestTyped
  <2> HIDE DEF new
  <2> QED
    BY <2>1, <2>2, <2>3, <2>4, OneMoves DEF new
<1>2. ASSUME NEW r \in Requests, BeginLookup(r) PROVE RuntimeInv'
  <2>1. PICK kind \in Lookups \cup {"endChat"}, e \in Executions :
          req' = [req EXCEPT ![r] = [Idle EXCEPT !.kind = kind, !.e = e, !.pc = "http"]]
    BY <1>2 DEF BeginLookup
  <2> DEFINE new == [Idle EXCEPT !.kind = kind, !.e = e, !.pc = "http"]
  <2>2. new \in Request
    BY <1>0 DEF Idle, Request, Kinds
  <2>3. StandsRight(new) /\ ~HoldsLoop(new)
    BY DEF Idle, StandsRight, HoldsLoop, Kinds, Addressed
  <2>4. RestTyped' /\ UNCHANGED <<loop, finals>>
    BY <1>0, <1>2 DEF BeginLookup, RestTyped
  <2> HIDE DEF new
  <2> QED
    BY <2>1, <2>2, <2>3, <2>4, OneMoves DEF new
<1>3. ASSUME NEW r \in Requests, BeginLocal(r) PROVE RuntimeInv'
  <2>1. loop' = r /\ loop = None /\ UNCHANGED <<exists, doc, server, finals>>
    BY <1>3 DEF BeginLocal
  <2>2. ASSUME NEW new \in Request, req' = [req EXCEPT ![r] = new], latest' \in 0..MaxApproved,
               StandsRight(new), ~new.missed
        PROVE  RuntimeInv'
    BY <1>0, <2>1, <2>2, OneMoves DEF RestTyped
  <2>3. CASE /\ latest < MaxApproved
             /\ latest' = latest + 1
             /\ req' = [req EXCEPT ![r] = [Idle EXCEPT !.kind = "approve", !.pc = "read",
                                                       !.snapshot = latest + 1]]
    <3> DEFINE new == [Idle EXCEPT !.kind = "approve", !.pc = "read", !.snapshot = latest + 1]
    <3>1. latest' \in 0..MaxApproved
      BY <1>0, <2>3 DEF RestTyped
    <3>2. new \in Request
      BY <1>0, <2>3, <3>1 DEF Idle, Request, Kinds
    <3>3. StandsRight(new) /\ ~new.missed
      BY DEF Idle, StandsRight, Kinds, Addressed
    <3> QED
      BY <2>2, <2>3, <3>1, <3>2, <3>3
  <2>4. ASSUME NEW kind \in {"login", "advance"}, UNCHANGED latest,
               req' = [req EXCEPT ![r] = [Idle EXCEPT !.kind = kind, !.pc = "read"]]
        PROVE  RuntimeInv'
    <3> DEFINE new == [Idle EXCEPT !.kind = kind, !.pc = "read"]
    <3>1. new \in Request
      BY <1>0 DEF Idle, Request, Kinds
    <3>2. StandsRight(new) /\ ~new.missed
      BY DEF Idle, StandsRight, Kinds, Addressed
    <3> QED
      BY <1>0, <2>2, <2>4, <3>1, <3>2 DEF RestTyped
  <2>5. ASSUME NEW e \in Executions, UNCHANGED latest,
               req' = [req EXCEPT ![r] = [Idle EXCEPT !.kind = "confirm", !.e = e, !.pc = "read"]]
        PROVE  RuntimeInv'
    <3> DEFINE new == [Idle EXCEPT !.kind = "confirm", !.e = e, !.pc = "read"]
    <3>1. new \in Request
      BY <1>0 DEF Idle, Request, Kinds
    <3>2. StandsRight(new) /\ ~new.missed
      BY DEF Idle, StandsRight, Kinds, Addressed
    <3> QED
      BY <1>0, <2>2, <2>5, <3>1, <3>2 DEF RestTyped
  <2> QED
    BY <1>3, <2>3, <2>4, <2>5 DEF BeginLocal
<1>4. CASE Delete
  <2>1. TypeOK'
    BY <1>0, <1>4 DEF Delete, RuntimeInv, TypeOK
  <2>2. LoopInv'
    BY <1>4 DEF Delete, RuntimeInv, LoopInv
  <2>3. FinalOnce'
    BY <1>4 DEF Delete, FinalOnce
  <2> QED
    BY <2>1, <2>2, <2>3 DEF RuntimeInv
<1>5. ASSUME NEW r \in Requests, Read(r) PROVE RuntimeInv'
  <2> DEFINE k == req[r].kind
             copied(pc) == [req[r] EXCEPT !.doc = doc, !.missed = FALSE, !.pc = pc]
  <2>1. req[r].pc = "read" /\ k \notin Lookups /\ UNCHANGED <<exists, doc, latest, server, finals>>
    BY <1>5 DEF Read
  <2>2. ASSUME NEW new \in Request, req' = [req EXCEPT ![r] = new], StandsRight(new), ~new.missed,
               loop' = loop \/ (loop' = None /\ HoldsLoop(req[r])), HoldsLoop(new) => loop' = loop /\ HoldsLoop(req[r])
        PROVE  RuntimeInv'
    <3>1. HoldsLoop(req[r]) => loop = r
      BY DEF RuntimeInv, LoopInv
    <3>2. RestTyped'
      BY <1>0, <2>1, <2>2 DEF RestTyped
    <3> QED
      BY <2>1, <2>2, <3>1, <3>2, OneMoves
  <2>3. ASSUME NEW pc \in {"snapshot", "reread", "lookup", "write"}, Copied(r, pc), UNCHANGED loop,
               StandsRight(copied(pc)), HoldsLoop(copied(pc)) => HoldsLoop(req[r])
        PROVE  RuntimeInv'
    <3>1. copied(pc) \in Request /\ ~copied(pc).missed
      BY <1>0 DEF Request, RestTyped
    <3>2. req' = [req EXCEPT ![r] = copied(pc)]
      BY <2>3 DEF Copied, RuntimeInv, TypeOK
    <3> QED
      BY <2>2, <2>3, <3>1, <3>2
  <2>4. CASE k = "submit"
    BY <1>0, <1>5, <2>1, <2>3, <2>4 DEF Read, StandsRight, HoldsLoop, Request, Kinds, Addressed
  <2>5. CASE k = "advance"
    BY <1>0, <1>5, <2>1, <2>3, <2>5 DEF Read, StandsRight, HoldsLoop, Request, Kinds, Addressed
  <2>6. CASE k = "confirm"
    <3>1. CASE doc.exec = req[r].e /\ doc.conf # None
      <4> DEFINE new == [req[r] EXCEPT !.doc = doc, !.missed = FALSE, !.conf = doc.conf, !.pc = "http"]
      <4>1. req' = [req EXCEPT ![r] = new] /\ loop' = None
        BY <1>5, <2>1, <2>6, <3>1 DEF Read, RuntimeInv, TypeOK
      <4>2. doc \in Doc /\ doc.conf \in Executions \cup {None}
        BY <1>0 DEF RestTyped, Doc
      <4>5. new \in Request /\ ~new.missed
        BY <1>0, <4>2 DEF Request
      <4>3. StandsRight(new) /\ ~HoldsLoop(new) /\ HoldsLoop(req[r])
        BY <1>0, <2>1, <2>6 DEF StandsRight, HoldsLoop, Request, Kinds, Addressed
      <4> QED
        BY <2>2, <4>1, <4>3, <4>5
    <3>2. CASE ~(doc.exec = req[r].e /\ doc.conf # None)
      BY <1>0, <1>5, <2>1, <2>3, <2>6, <3>2 DEF Read, StandsRight, HoldsLoop, Request, Kinds, Addressed
    <3> QED
      BY <3>1, <3>2
  <2>7. CASE k \notin {"submit", "advance", "confirm"}
    BY <1>0, <1>5, <2>1, <2>3, <2>7 DEF Read, StandsRight, HoldsLoop, Request, Kinds, Addressed
  <2> QED
    BY <2>4, <2>5, <2>6, <2>7
<1>6. ASSUME NEW r \in Requests, Resume(r) PROVE RuntimeInv'
  <2> DEFINE new == [req[r] EXCEPT !.doc = doc, !.missed = FALSE, !.pc = "write"]
  <2>1. /\ req[r].pc = "read" /\ req[r].kind \in Lookups /\ loop = None /\ loop' = r
        /\ UNCHANGED <<exists, doc, latest, server, finals>>
        /\ req' = [req EXCEPT ![r] = new]
    BY <1>6 DEF Resume, Copied, RuntimeInv, TypeOK
  <2>2. new \in Request /\ ~new.missed
    BY <1>0 DEF Request, RestTyped
  <2>3. StandsRight(new)
    BY <1>0, <2>1 DEF StandsRight, Request, Kinds, Addressed
  <2>4. RestTyped'
    BY <1>0, <2>1 DEF RestTyped
  <2> HIDE DEF new
  <2> QED
    BY <2>1, <2>2, <2>3, <2>4, OneMoves
<1>7. ASSUME NEW r \in Requests, Reread(r) PROVE RuntimeInv'
  <2>1. PICK next \in 0..MaxStep :
          req' = [req EXCEPT ![r].doc = [doc EXCEPT !.progress = next], ![r].missed = FALSE, ![r].pc = "write"]
    BY <1>7 DEF Reread
  <2> DEFINE new == [req[r] EXCEPT !.doc = [doc EXCEPT !.progress = next], !.missed = FALSE, !.pc = "write"]
  <2>2. req' = [req EXCEPT ![r] = new]
    BY <2>1 DEF RuntimeInv, TypeOK
  <2>3. [doc EXCEPT !.progress = next] \in Doc
    BY <1>0 DEF RestTyped, Doc
  <2>4. new \in Request /\ ~new.missed
    BY <1>0, <2>3 DEF Request
  <2>5. req[r].pc = "reread" /\ req[r].kind = "advance" /\ UNCHANGED <<exists, doc, latest, server, finals, loop>>
    BY <1>0, <1>7 DEF Reread, StandsRight
  <2>6. StandsRight(new) /\ HoldsLoop(req[r])
    BY <1>0, <2>5 DEF StandsRight, HoldsLoop, Request, Kinds, Addressed
  <2>7. loop = r
    BY <2>6 DEF RuntimeInv, LoopInv
  <2>8. RestTyped'
    BY <1>0, <2>5 DEF RestTyped
  <2> HIDE DEF new
  <2> QED
    BY <2>2, <2>4, <2>5, <2>6, <2>7, <2>8, OneMoves
<1>8. ASSUME NEW r \in Requests, Snapshot(r) PROVE RuntimeInv'
  <2> DEFINE new == [req[r] EXCEPT !.snapshot = latest, !.pc = "http"]
  <2>1. req' = [req EXCEPT ![r] = new] /\ req[r].pc = "snapshot"
        /\ UNCHANGED <<exists, doc, latest, server, finals, loop>>
    BY <1>8 DEF Snapshot, RuntimeInv, TypeOK
  <2>2. new \in Request
    BY <1>0 DEF Request, RestTyped
  <2>3. StandsRight(new) /\ ~HoldsLoop(new)
    BY <1>0, <2>1 DEF StandsRight, HoldsLoop, Request, Kinds, Addressed
  <2>4. RestTyped'
    BY <1>0, <2>1 DEF RestTyped
  <2> HIDE DEF new
  <2> QED
    BY <2>1, <2>2, <2>3, <2>4, OneMoves
<1>9. ASSUME NEW r \in Requests, Lookup(r) PROVE RuntimeInv'
  <2> DEFINE e == req[r].e
  <2>1. /\ req[r].pc = "lookup" /\ req[r].kind = "confirm" /\ e \in Executions /\ loop = r /\ loop' = None
        /\ UNCHANGED <<exists, doc, latest, server, finals>>
    BY <1>0, <1>9 DEF Lookup, RuntimeInv, LoopInv, HoldsLoop, StandsRight, Kinds, Addressed
  <2>2. RestTyped'
    BY <1>0, <2>1 DEF RestTyped
  <2>3. ASSUME NEW d \in Doc, req' = [req EXCEPT ![r].doc = d, ![r].conf = d.conf, ![r].pc = "http"]
        PROVE  RuntimeInv'
    <3> DEFINE new == [req[r] EXCEPT !.doc = d, !.conf = d.conf, !.pc = "http"]
    <3>1. req' = [req EXCEPT ![r] = new]
      BY <2>3 DEF RuntimeInv, TypeOK
    <3>2. new \in Request
      BY <1>0 DEF Request, Doc
    <3>3. StandsRight(new) /\ ~HoldsLoop(new)
      BY <1>0, <2>1 DEF StandsRight, HoldsLoop, Request, Kinds, Addressed
    <3> HIDE DEF new
    <3> QED
      BY <2>1, <2>2, <3>1, <3>2, <3>3, OneMoves
  <2>4. CASE End(r)
    BY <1>0, <2>1, <2>2, <2>4, OneMoves DEF End, Idle
  <2>5. PICK got : LET d == RecordConfirmation(req[r].doc, e, got)
                   IN  End(r) \/ req' = [req EXCEPT ![r].doc = d, ![r].conf = d.conf, ![r].pc = "http"]
    BY <1>9 DEF Lookup
  <2>6. RecordConfirmation(req[r].doc, e, got) \in Doc
    BY <1>0, <2>1, RecordTyped DEF Request
  <2> QED
    BY <2>3, <2>4, <2>5, <2>6
<1>10. ASSUME NEW r \in Requests, SubmitSkill(r) \/ SubmitAgent(r) PROVE RuntimeInv'
  <2> DEFINE e == req[r].e
  <2>1. PICK status \in {"pending", "running", "over", "absent"}, lost \in BOOLEAN :
          /\ server' = [server EXCEPT ![e] = status]
          /\ req' = [req EXCEPT ![r].got = IF lost \/ status = "absent" THEN "none" ELSE status,
                                ![r].pc = "write"]
    BY <1>10 DEF SubmitSkill, SubmitAgent, Sent
  <2>2. /\ req[r].pc = "http" /\ req[r].kind = "submit" /\ e \in Executions
        /\ UNCHANGED <<exists, doc, latest, finals, loop>>
    BY <1>0, <1>10 DEF SubmitSkill, SubmitAgent, Sent, StandsRight, Addressed
  <2> DEFINE new == [req[r] EXCEPT !.got = IF lost \/ status = "absent" THEN "none" ELSE status, !.pc = "write"]
  <2>3. req' = [req EXCEPT ![r] = new]
    BY <2>1 DEF RuntimeInv, TypeOK
  <2>4. new \in Request
    BY <1>0 DEF Request
  <2>5. StandsRight(new) /\ ~HoldsLoop(new)
    BY <1>0, <2>2 DEF StandsRight, HoldsLoop, Request, Kinds, Addressed
  <2>6. RestTyped'
    BY <1>0, <2>1, <2>2 DEF RestTyped
  <2> HIDE DEF new
  <2> QED
    BY <2>2, <2>3, <2>4, <2>5, <2>6, OneMoves
<1>11. ASSUME NEW r \in Requests, Refuse(r) PROVE RuntimeInv'
  <2>1. req' = [req EXCEPT ![r] = Idle] /\ UNCHANGED <<exists, doc, latest, server, finals, loop>>
    BY <1>11 DEF Refuse, End
  <2>2. RestTyped'
    BY <1>0, <2>1 DEF RestTyped
  <2> QED
    BY <1>0, <2>1, <2>2, OneMoves
<1>12. ASSUME NEW r \in Requests, Poll(r) PROVE RuntimeInv'
  <2>1. PICK got \in {"none", "running", "over"} : req' = [req EXCEPT ![r].got = got]
    BY <1>12 DEF Poll
  <2>2. req[r].pc = "write" /\ req[r].kind = "status" /\ UNCHANGED <<exists, doc, latest, server, finals, loop>>
    BY <1>12 DEF Poll
  <2> DEFINE new == [req[r] EXCEPT !.got = got]
  <2>3. req' = [req EXCEPT ![r] = new]
    BY <2>1 DEF RuntimeInv, TypeOK
  <2>4. new \in Request
    BY <1>0 DEF Request
  <2>5. StandsRight(new) /\ ~HoldsLoop(new)
    BY <1>0, <2>2 DEF StandsRight, HoldsLoop, Request, Kinds, Addressed
  <2>6. RestTyped'
    BY <1>0, <2>2 DEF RestTyped
  <2> HIDE DEF new
  <2> QED
    BY <2>2, <2>3, <2>4, <2>5, <2>6, OneMoves
<1>13. ASSUME NEW r \in Requests, Ask(r) PROVE RuntimeInv'
  <2> DEFINE k == req[r].kind
             e == req[r].e
  <2>1. /\ req[r].pc = "http" /\ k \in {"status", "endChat"} \cup Lookups /\ e \in Executions
        /\ UNCHANGED <<exists, doc, latest, finals, loop>>
    BY <1>0, <1>13 DEF Ask, StandsRight, Kinds, Addressed
  <2>2. RestTyped'
    BY <1>0, <1>13, <2>1 DEF Ask, RestTyped
  <2>3. CASE /\ server[e] # "absent"
             /\ req' = [req EXCEPT ![r].got = server[e], ![r].pc = IF k = "endChat" THEN "append" ELSE "read"]
    <3> DEFINE new == [req[r] EXCEPT !.got = server[e], !.pc = IF k = "endChat" THEN "append" ELSE "read"]
    <3>1. req' = [req EXCEPT ![r] = new]
      BY <2>3 DEF RuntimeInv, TypeOK
    <3>2. server[e] \in {"pending", "running", "over"}
      BY <1>0, <2>1, <2>3 DEF RestTyped
    <3>3. new \in Request
      BY <1>0, <3>2 DEF Request
    <3>4. StandsRight(new) /\ ~HoldsLoop(new)
      BY <1>0, <2>1 DEF StandsRight, HoldsLoop, Request, Kinds, Addressed
    <3> HIDE DEF new
    <3> QED
      BY <2>1, <2>2, <3>1, <3>3, <3>4, OneMoves
  <2>4. CASE k \in {"status", "poll"} /\ Goto(r, "read")
    <3> DEFINE new == [req[r] EXCEPT !.pc = "read"]
    <3>1. req' = [req EXCEPT ![r] = new]
      BY <2>4 DEF Goto, RuntimeInv, TypeOK
    <3>2. new \in Request
      BY <1>0 DEF Request
    <3>3. StandsRight(new) /\ ~HoldsLoop(new)
      BY <1>0, <2>1, <2>4 DEF StandsRight, HoldsLoop, Request, Kinds, Addressed
    <3> HIDE DEF new
    <3> QED
      BY <2>1, <2>2, <3>1, <3>2, <3>3, OneMoves
  <2>5. CASE End(r)
    BY <1>0, <2>1, <2>2, <2>5, OneMoves DEF End, Idle
  <2> QED
    BY <1>13, <2>3, <2>4, <2>5 DEF Ask
<1>14. ASSUME NEW r \in Requests, Confirm(r) PROVE RuntimeInv'
  <2> DEFINE e == req[r].e
             taken == req[r].conf = e /\ server[e] = "pending"
  <2>1. PICK status \in {"running", "over"}, lost \in BOOLEAN :
          /\ server' = IF taken THEN [server EXCEPT ![e] = status] ELSE server
          /\ req' = [req EXCEPT ![r].got = IF taken /\ ~lost THEN status ELSE "none", ![r].pc = "write"]
    BY <1>14 DEF Confirm
  <2>2. /\ req[r].pc = "http" /\ req[r].kind = "confirm" /\ e \in Executions
        /\ UNCHANGED <<exists, doc, latest, finals, loop>>
    BY <1>0, <1>14 DEF Confirm, StandsRight, Addressed
  <2> DEFINE new == [req[r] EXCEPT !.got = IF taken /\ ~lost THEN status ELSE "none", !.pc = "write"]
  <2>3. req' = [req EXCEPT ![r] = new]
    BY <2>1 DEF RuntimeInv, TypeOK
  <2>4. new \in Request
    BY <1>0 DEF Request
  <2>5. StandsRight(new) /\ ~HoldsLoop(new)
    BY <1>0, <2>2 DEF StandsRight, HoldsLoop, Request, Kinds, Addressed
  <2>6. RestTyped'
    BY <1>0, <2>1, <2>2 DEF RestTyped
  <2> HIDE DEF new
  <2> QED
    BY <2>2, <2>3, <2>4, <2>5, <2>6, OneMoves
<1>15. ASSUME NEW e \in Executions, ServerStep(e) PROVE RuntimeInv'
  <2>1. TypeOK'
    BY <1>15 DEF ServerStep, RuntimeInv, TypeOK
  <2>2. LoopInv' /\ FinalOnce'
    BY <1>15 DEF ServerStep, RuntimeInv, LoopInv, FinalOnce
  <2> QED
    BY <2>1, <2>2 DEF RuntimeInv
<1>16. ASSUME NEW r \in Requests, Write(r) PROVE RuntimeInv'
  <2> DEFINE k == req[r].kind
  <2>1. /\ req[r].pc = "write" /\ k \in Kinds \ {"endChat"}
        /\ k \in Addressed => req[r].e \in Executions
        /\ k = "confirm" => loop = None
        /\ k \in Lookups \cup Local \cup {"advance"} => loop = r
        /\ UNCHANGED <<exists, latest, server, finals>>
    BY <1>0, <1>16 DEF Write, StandsRight, HoldsLoop, RuntimeInv, LoopInv
  <2>2. \A q \in Requests : req'[q] = IF q = r THEN Idle
                                     ELSE IF k \in Turns \/ req[q].pc = "idle" THEN req[q]
                                     ELSE [req[q] EXCEPT !.missed = TRUE]
    BY <1>16 DEF Write
  <2>3. loop' = IF loop = r THEN None ELSE loop
    BY <1>16 DEF Write, OnLoop
  <2>4. doc' \in Doc
    <3>1. PICK step \in 0..MaxStep : doc' = IF exists THEN Outcome(r, step) ELSE doc
      BY <1>16 DEF Write
    <3>2. ChatOutcome(step) \in Doc
      BY <1>0 DEF ChatOutcome, EmptyDoc, Doc
    <3>3. req[r].doc \in Doc /\ req[r].snapshot \in 0..MaxApproved
      BY <1>0 DEF Request
    <3>4. [req[r].doc EXCEPT !.approved = req[r].snapshot] \in Doc
      BY <3>3 DEF Doc
    <3>5. k \in Addressed => [req[r].doc EXCEPT !.exec = req[r].e] \in Doc
      BY <2>1, <3>3 DEF Doc
    <3>6. k = "submit" => SubmitOutcome(req[r]) \in Doc
      <4> SUFFICES ASSUME k = "submit" PROVE SubmitOutcome(req[r]) \in Doc
        OBVIOUS
      <4> DEFINE bound == IF req[r].snapshot = 0 THEN req[r].doc ELSE [req[r].doc EXCEPT !.approved = req[r].snapshot]
                 named == IF req[r].got = "none" THEN bound ELSE [bound EXCEPT !.exec = req[r].e]
      <4>1. bound \in Doc
        BY <3>3, <3>4
      <4>2. req[r].e \in Executions
        BY <2>1 DEF Addressed
      <4>3. named \in Doc
        BY <4>1, <4>2 DEF Doc
      <4> QED
        BY <4>2, <4>3, RecordTyped DEF SubmitOutcome
    <3>7. k \in {"status", "poll", "confirm"} => StatusOutcome(req[r]) \in Doc
      BY <2>1, <3>5, RecordTyped DEF StatusOutcome, Addressed
    <3>8. Outcome(r, step) \in Doc
      BY <2>1, <3>2, <3>3, <3>4, <3>5, <3>6, <3>7 DEF Outcome, Kinds, Addressed
    <3> QED
      BY <1>0, <3>1, <3>8 DEF RestTyped
  <2>5. \A q \in Requests : req'[q] \in Request
    <3> TAKE q \in Requests
    <3>1. req[q] \in Request /\ [req[q] EXCEPT !.missed = TRUE] \in Request
      BY <1>0, MissedEffect
    <3> QED
      BY <1>0, <2>2, <3>1
  <2>6. req' \in [Requests -> Request]
    BY <1>16, <2>5 DEF Write
  <2>7. \A q \in Requests \ {r} :
          /\ req'[q].pc = req[q].pc /\ req'[q].kind = req[q].kind /\ req'[q].e = req[q].e
          /\ k \in Turns => req'[q] = req[q]
    <3> TAKE q \in Requests \ {r}
    <3> DEFINE m == [req[q] EXCEPT !.missed = TRUE]
    <3>1. m.pc = req[q].pc /\ m.kind = req[q].kind /\ m.e = req[q].e
      BY <1>0, MissedEffect
    <3>2. req'[q] = req[q] \/ (k \notin Turns /\ req'[q] = m)
      BY <2>2
    <3> QED
      BY <3>1, <3>2
  <2> HIDE DEF k
  <2>8. \A q \in Requests : StandsRight(req'[q])
    <3> TAKE q \in Requests
    <3>1. CASE q = r
      BY <1>0, <2>2, <3>1
    <3>2. CASE q # r
      <4>1. StandsRight(req[q])
        BY <1>0
      <4> QED
        BY <2>7, <3>2, <4>1 DEF StandsRight
    <3> QED
      BY <3>1, <3>2
  <2>9. \A q \in Requests : HoldsLoop(req'[q]) => q # r /\ loop = q /\ loop' = q /\ k \in Turns
    <3> SUFFICES ASSUME NEW q \in Requests, HoldsLoop(req'[q])
                 PROVE  q # r /\ loop = q /\ loop' = q /\ k \in Turns
      OBVIOUS
    <3>1. q # r
      BY <1>0, <2>2
    <3>2. HoldsLoop(req[q])
      BY <2>7, <3>1 DEF HoldsLoop
    <3>3. loop = q
      BY <3>2 DEF RuntimeInv, LoopInv
    <3>4. loop' = q
      BY <2>3, <3>1, <3>3
    <3>5. k \in Turns
      BY <2>1, <3>1, <3>3 DEF Kinds
    <3> QED
      BY <3>1, <3>3, <3>4, <3>5
  <2>10. LoopInv'
    <3>1. \A q \in Requests : HoldsLoop(req'[q]) /\ req'[q].pc \in {"reread", "write"} => ~req'[q].missed
      BY <2>7, <2>9 DEF RuntimeInv, LoopInv
    <3> QED
      BY <2>8, <2>9, <3>1 DEF LoopInv, StandsRight, HoldsLoop
  <2>11. \A q \in Requests : req'[q].pc # "idle" => req'[q].kind # None
    BY <2>8 DEF StandsRight
  <2>12. TypeOK'
    BY <1>0, <2>1, <2>3, <2>4, <2>6, <2>11 DEF TypeOK, RestTyped
  <2>13. FinalOnce'
    BY <2>1 DEF RuntimeInv, FinalOnce
  <2> QED
    BY <2>10, <2>12, <2>13 DEF RuntimeInv
<1>17. ASSUME NEW r \in Requests, Append(r) PROVE RuntimeInv'
  <2>1. /\ req' = [req EXCEPT ![r] = Idle]
        /\ finals' = [finals EXCEPT ![req[r].e] = IF @ = 0 THEN 1 ELSE @]
        /\ UNCHANGED <<exists, doc, latest, server, loop>>
    BY <1>17 DEF Append, End
  <2>2. /\ req' \in [Requests -> Request] /\ req'[r] = Idle
        /\ \A q \in Requests \ {r} : req'[q] = req[q]
    BY <1>0, <2>1 DEF RuntimeInv, TypeOK
  <2>3. finals' \in [Executions -> Nat]
    BY <1>0, <2>1 DEF RestTyped
  <2>4. TypeOK'
    BY <1>0, <2>1, <2>2, <2>3 DEF RuntimeInv, TypeOK, Idle
  <2>5. LoopInv'
    BY <1>0, <2>1, <2>2 DEF RuntimeInv, LoopInv, StandsRight, HoldsLoop
  <2>6. FinalOnce'
    BY <1>0, <2>1 DEF RestTyped, RuntimeInv, FinalOnce
  <2> QED
    BY <2>4, <2>5, <2>6 DEF RuntimeInv
<1>18. CASE UNCHANGED vars
  BY <1>18 DEF vars, RuntimeInv, TypeOK, LoopInv, StandsRight, HoldsLoop, FinalOnce
<1> QED
  BY <1>1, <1>2, <1>3, <1>4, <1>5, <1>6, <1>7, <1>8, <1>9, <1>10, <1>11, <1>12, <1>13, <1>14, <1>15,
     <1>16, <1>17, <1>18 DEF Next

\* The inductive invariant holds in every reachable state.
THEOREM RuntimeInvariant == Spec => []RuntimeInv
<1> QED
  BY RuntimeInvInit, RuntimeInvStep, PTL DEF Spec

\* The document, the copies of it in the requests and the server keep their types.
THEOREM TypeCorrect == Spec => []TypeOK
<1>1. RuntimeInv => TypeOK
  BY DEF RuntimeInv
<1> QED
  BY <1>1, RuntimeInvariant, PTL

\* Handlers that read after their last await put back what the other handlers of the
\* event loop wrote: between their read and their write nobody else holds the loop.
THEOREM HandlersAreSerial == Spec => []LoopHandlersSerial
<1>1. RuntimeInv => LoopHandlersSerial
  BY DEF RuntimeInv, LoopInv, HoldsLoop, LoopHandlersSerial
<1> QED
  BY <1>1, RuntimeInvariant, PTL

\* The end of an agent chat is appended to the messages at most once.
THEOREM FinalIsKeptOnce == Spec => []FinalOnce
<1>1. RuntimeInv => FinalOnce
  BY DEF RuntimeInv
<1> QED
  BY <1>1, RuntimeInvariant, PTL

\* A deleted session only comes back by the beginning of a turn, with an empty document:
\* no late write of a request restores it.
THEOREM NoLateResurrection == Spec => DeletedStaysDeleted
<1> DEFINE Back == (~exists /\ exists') =>
                      doc' = EmptyDoc /\ \E r \in Requests : req[r].pc = "idle" /\ req'[r].pc # "idle"
<1>1. RuntimeInv /\ [Next]_vars => [Back]_vars
  <2> SUFFICES ASSUME RuntimeInv, Next, ~exists, exists'
               PROVE  doc' = EmptyDoc /\ \E r \in Requests : req[r].pc = "idle" /\ req'[r].pc # "idle"
    OBVIOUS
  <2>1. PICK r \in Requests : BeginTurn(r)
    <3>1. ~\E r \in Requests : BeginLookup(r) \/ BeginLocal(r)
      BY DEF BeginLookup, BeginLocal
    <3>2. ~\E r \in Requests : Read(r) \/ Resume(r) \/ Reread(r) \/ Snapshot(r) \/ Lookup(r) \/ Refuse(r)
      BY DEF Read, Resume, Reread, Snapshot, Lookup, Refuse
    <3>3. ~\E r \in Requests : SubmitSkill(r) \/ SubmitAgent(r) \/ Poll(r) \/ Ask(r) \/ Confirm(r)
      BY DEF SubmitSkill, SubmitAgent, Sent, Poll, Ask, Confirm
    <3>4. ~\E r \in Requests : Write(r) \/ Append(r)
      BY DEF Write, Append
    <3>5. ~Delete /\ ~\E e \in Executions : ServerStep(e)
      BY DEF Delete, ServerStep
    <3> QED
      BY <3>1, <3>2, <3>3, <3>4, <3>5 DEF Next
  <2>2. PICK kind, e : req' = [req EXCEPT ![r] = [Idle EXCEPT !.kind = kind, !.e = e,
                                 !.pc = IF kind = "status" THEN "http" ELSE "read"]]
    BY <2>1 DEF BeginTurn
  <2>3. req'[r].pc # "idle"
    <3>1. req'[r] = [Idle EXCEPT !.kind = kind, !.e = e, !.pc = IF kind = "status" THEN "http" ELSE "read"]
      BY <2>2 DEF RuntimeInv, TypeOK
    <3> QED
      BY <3>1 DEF Idle
  <2> QED
    BY <2>1, <2>3 DEF BeginTurn
<1> QED
  BY <1>1, RuntimeInvariant, PTL DEF Spec, DeletedStaysDeleted
=============================================================================
