--------------------- MODULE AgentExecutionQueueProofs ---------------------
(***************************************************************************)
(* Theorems about AgentExecutionQueue, for every number of executions,     *)
(* callers and places.                                                     *)
(***************************************************************************)
EXTENDS AgentExecutionQueue, FiniteSetTheorems, FunctionTheorems,
        SequenceTheorems, TLAPS

USE DEF Status, Terminal, Lifecycle!Status, Lifecycle!Terminal,
        Lifecycle!Session, Lifecycle!Waiting

(* The types, with active an integer until the accounting is proved.       *)
Typed ==
  /\ store \in [Executions -> Status]
  /\ op \in [Callers -> OpRecord]
  /\ enqueueOperations \subseteq Executions
  /\ pending \in Seq(Executions)
  /\ scheduled \subseteq Executions
  /\ active \in Int
  /\ run \in [Executions -> RunPc]
  /\ started \in BOOLEAN
  /\ sessions \subseteq Executions
  /\ server \in {"down", "reconciling", "up", "closing"}
  /\ todo \subseteq Executions
  /\ executorCalls \in [Executions -> Nat]

(* One operation per execution, and what the row says while it stands at   *)
(* each of its awaits.                                                     *)
OpsExclusive ==
  /\ \A c \in Callers :
       op[c].pc # "idle" => /\ op[c].exec \in enqueueOperations
                            /\ server \in {"up", "closing"}
  /\ \A c, d \in Callers :
       op[c].pc # "idle" /\ op[d].pc # "idle" /\ c # d => op[c].exec # op[d].exec
  /\ \A c \in Callers :
       /\ op[c].pc = "save" => store[op[c].exec] = "none"
       /\ op[c].pc = "promote" => store[op[c].exec] # "none"

(* An execution the executor has been invoked for is past queued.          *)
OnceInv ==
  \A e \in Executions :
    /\ executorCalls[e] <= 1
    /\ store[e] \in {"none", "pending_confirmation", "queued"} => executorCalls[e] = 0

(* Where run() stands and what the row says.                               *)
RunInv ==
  \A e \in Executions :
    /\ run[e] = "execute" => store[e] = "running" /\ e \notin sessions
    /\ run[e] \in {"attached", "catch", "fail"}
         => store[e] \notin {"none", "pending_confirmation", "queued"}
    /\ e \in sessions => store[e] \notin {"none", "pending_confirmation", "queued"}
    /\ server \in {"down", "reconciling"} => run[e] = "idle"

StoreInv == Typed /\ OpsExclusive /\ OnceInv /\ RunInv

----------------------------------------------------------------------------
LEMMA DrainCount ==
  ASSUME NEW on \in BOOLEAN, NEW q \in Seq(Executions), NEW a \in Int
  PROVE  (IF on /\ a < Concurrency THEN Least(Len(q), Concurrency - a) ELSE 0)
            \in 0 .. Len(q)
  BY ConcurrencyAssumption, LenProperties DEF Least

\* What drain() may do to pending, active and run.
LEMMA DrainTyped ==
  ASSUME NEW on \in BOOLEAN, NEW q \in Seq(Executions), NEW a \in Int,
         NEW r \in [Executions -> RunPc], Drain(on, q, a, r)
  PROVE  /\ pending' \in Seq(Executions)
         /\ active' \in Int
         /\ run' \in [Executions -> RunPc]
         /\ \A e \in Executions : run'[e] \in {r[e], "claim"}
<1> DEFINE n == IF on /\ a < Concurrency THEN Least(Len(q), Concurrency - a) ELSE 0
<1>1. n \in 0 .. Len(q)
  BY DrainCount
<1>2. pending' = SubSeq(q, n + 1, Len(q)) /\ active' = a + n
  BY DEF Drain
<1>3. run' = [e \in Executions |-> IF e \in {q[i] : i \in 1..n} THEN "claim" ELSE r[e]]
  BY DEF Drain
<1> HIDE DEF n
<1>4. pending' \in Seq(Executions)
  BY <1>1, <1>2, SubSeqProperties, LenProperties
<1>5. active' \in Int
  BY <1>1, <1>2, LenProperties
<1>6. run' \in [Executions -> RunPc] /\ \A e \in Executions : run'[e] \in {r[e], "claim"}
  BY <1>3 DEF RunPc
<1> QED
  BY <1>4, <1>5, <1>6

LEMMA StoreInvInit == Init => StoreInv
<1> SUFFICES ASSUME Init PROVE StoreInv
  OBVIOUS
<1>1. Typed
  <2>1. IdleOp \in OpRecord
    BY DEF IdleOp, OpRecord, OpPc
  <2>2. << >> \in Seq(Executions)
    BY EmptySeq
  <2>3. op \in [Callers -> OpRecord]
    BY <2>1 DEF Init
  <2>4. run \in [Executions -> RunPc]
    BY DEF Init, RunPc
  <2>5. store \in [Executions -> Status]
    BY DEF Init
  <2>6. executorCalls \in [Executions -> Nat]
    BY DEF Init
  <2>7. pending \in Seq(Executions)
    BY <2>2 DEF Init
  <2>8. /\ enqueueOperations \subseteq Executions
        /\ scheduled \subseteq Executions
        /\ sessions \subseteq Executions
        /\ todo \subseteq Executions
    BY DEF Init
  <2>9. active \in Int /\ server = "down"
    BY DEF Init
  <2>10. started \in BOOLEAN
    BY DEF Init
  <2> QED
    BY <2>3, <2>4, <2>5, <2>6, <2>7, <2>8, <2>9, <2>10 DEF Typed
<1>2. OpsExclusive
  BY DEF Init, OpsExclusive, IdleOp
<1>3. OnceInv
  BY DEF Init, OnceInv
<1>4. RunInv
  BY DEF Init, RunInv
<1> QED
  BY <1>1, <1>2, <1>3, <1>4 DEF StoreInv

LEMMA StoreInvStep == StoreInv /\ [Next]_vars => StoreInv'
<1> SUFFICES ASSUME StoreInv, [Next]_vars PROVE StoreInv'
  OBVIOUS
<1> USE NoExecAssumption DEF StoreInv, boot, memory
<1>1. ASSUME NEW c \in Callers, NEW e \in Executions, Enqueue(c, e) PROVE StoreInv'
  <2>1. Typed'
    BY <1>1 DEF Typed, OpRecord, OpPc, RunPc, Enqueue
  <2>2. OpsExclusive'
    BY <1>1 DEF Typed, OpRecord, OpPc, RunPc, OpsExclusive, RunInv, Enqueue
  <2>3. OnceInv'
    BY <1>1 DEF Typed, OpRecord, OpPc, RunPc, OpsExclusive, OnceInv, Enqueue
  <2>4. RunInv'
    BY <1>1 DEF Typed, OpRecord, OpPc, RunPc, OpsExclusive, RunInv, Enqueue
  <2> QED
    BY <2>1, <2>2, <2>3, <2>4
<1>2. ASSUME NEW c \in Callers, ReadExisting(c) PROVE StoreInv'
  <2> DEFINE seen == store[op[c].exec]
  <2>1. ASSUME \E pc \in {"save", "promote", "reread"} :
                 /\ op' = [op EXCEPT ![c].pc = pc, ![c].seen = seen]
                 /\ pc = "save" => seen = "none"
                 /\ pc = "promote" => seen # "none"
                 /\ UNCHANGED enqueueOperations
        PROVE  Typed' /\ OpsExclusive'
    <3>1. PICK pc \in {"save", "promote", "reread"} :
            /\ op' = [op EXCEPT ![c].pc = pc, ![c].seen = seen]
            /\ pc = "save" => seen = "none"
            /\ pc = "promote" => seen # "none"
            /\ UNCHANGED enqueueOperations
      BY <2>1
    <3>2. op[c].exec \in Executions /\ op[c].pc = "get"
      BY <1>2 DEF ReadExisting, Typed, OpsExclusive
    <3>3. op[c] \in OpRecord /\ seen \in Status
      BY <3>2 DEF Typed
    <3>4. [op[c] EXCEPT !.pc = pc, !.seen = seen] \in OpRecord
      BY <3>3 DEF OpRecord, OpPc
    <3>5. op' = [op EXCEPT ![c] = [op[c] EXCEPT !.pc = pc, !.seen = seen]]
      BY <3>1 DEF Typed
    <3>6. /\ op'[c].pc = pc /\ op'[c].exec = op[c].exec
          /\ \A d \in Callers \ {c} : op'[d] = op[d]
      BY <3>3, <3>5 DEF Typed, OpRecord
    <3>7. Typed'
      BY <1>2, <3>1, <3>4, <3>5 DEF Typed, ReadExisting
    <3>8. OpsExclusive'
      <4>1. /\ store' = store /\ server' = server
            /\ enqueueOperations' = enqueueOperations
        BY <1>2, <3>1 DEF ReadExisting
      <4>2. \A d \in Callers : op'[d].pc # "idle" =>
               op[d].pc # "idle" /\ op'[d].exec = op[d].exec
        BY <3>2, <3>6
      <4>3. \A d \in Callers :
              /\ op'[d].pc = "save" => store'[op'[d].exec] = "none"
              /\ op'[d].pc = "promote" => store'[op'[d].exec] # "none"
        <5> TAKE d \in Callers
        <5>1. CASE d = c
          BY <5>1, <3>1, <3>6, <4>1
        <5>2. CASE d # c
          BY <5>2, <3>6, <4>1 DEF OpsExclusive
        <5> QED
          BY <5>1, <5>2
      <4> QED
        BY <4>1, <4>2, <4>3 DEF OpsExclusive
    <3> QED
      BY <3>7, <3>8
  <2>2. ASSUME OpEnds(c) PROVE Typed' /\ OpsExclusive'
    <3>1. IdleOp \in OpRecord
      BY DEF IdleOp, OpRecord, OpPc
    <3>2. Typed'
      BY <1>2, <2>2, <3>1 DEF Typed, ReadExisting, OpEnds
    <3>3. OpsExclusive'
      BY <1>2, <2>2 DEF Typed, OpRecord, OpsExclusive, ReadExisting, OpEnds, IdleOp
    <3> QED
      BY <3>2, <3>3
  <2>3. OnceInv' /\ RunInv'
    BY <1>2 DEF OnceInv, RunInv, ReadExisting
  <2>4. Typed' /\ OpsExclusive'
    BY <1>2, <2>1, <2>2 DEF ReadExisting
  <2> QED
    BY <2>3, <2>4
<1>3. ASSUME NEW c \in Callers, SaveQueued(c) PROVE StoreInv'
  <2>1. Typed'
    BY <1>3 DEF Typed, OpRecord, OpPc, RunPc, SaveQueued, Save
  <2>2. OpsExclusive'
    BY <1>3 DEF Typed, OpRecord, OpPc, RunPc, OpsExclusive, RunInv, SaveQueued, Save
  <2>3. OnceInv'
    BY <1>3 DEF Typed, OpRecord, OpPc, RunPc, OpsExclusive, OnceInv, SaveQueued, Save
  <2>4. RunInv'
    BY <1>3 DEF Typed, OpRecord, OpPc, RunPc, OpsExclusive, RunInv, SaveQueued, Save
  <2> QED
    BY <2>1, <2>2, <2>3, <2>4
<1>4. ASSUME NEW c \in Callers, PromoteConfirmed(c) PROVE StoreInv'
  <2>1. Typed'
    BY <1>4 DEF Typed, OpRecord, OpPc, RunPc, PromoteConfirmed, Transition
  <2>2. OpsExclusive'
    BY <1>4 DEF Typed, OpRecord, OpPc, RunPc, OpsExclusive, RunInv, PromoteConfirmed, Transition
  <2>3. OnceInv'
    BY <1>4 DEF Typed, OpRecord, OpPc, RunPc, OpsExclusive, OnceInv, PromoteConfirmed, Transition
  <2>4. RunInv'
    BY <1>4 DEF Typed, OpRecord, OpPc, RunPc, OpsExclusive, RunInv, PromoteConfirmed, Transition
  <2> QED
    BY <2>1, <2>2, <2>3, <2>4
<1>5. ASSUME NEW c \in Callers, Schedule(c) PROVE StoreInv'
  <2>1. op[c].exec \in Executions /\ op[c].pc = "reread"
    BY <1>5 DEF Schedule, Typed, OpRecord, OpsExclusive
  <2>2. /\ pending' \in Seq(Executions)
        /\ active' \in Int
        /\ run' \in [Executions -> RunPc]
        /\ \A x \in Executions : run'[x] \in {run[x], "claim"}
    <3>1. CASE op[c].exec \notin scheduled /\ op[c].seen # "running"
      <4>1. Append(pending, op[c].exec) \in Seq(Executions)
        BY <2>1 DEF Typed
      <4>2. Drain(started, Append(pending, op[c].exec), active, run)
        BY <1>5, <3>1 DEF Schedule
      <4> QED
        BY <4>1, <4>2, DrainTyped DEF Typed
    <3>2. CASE ~(op[c].exec \notin scheduled /\ op[c].seen # "running")
      BY <1>5, <3>2 DEF Schedule, Typed
    <3> QED
      BY <3>1, <3>2
  <2>3. Typed'
    BY <1>5, <2>1, <2>2 DEF Typed, OpRecord, OpPc, RunPc, Schedule, OpEnds, IdleOp
  <2>4. OpsExclusive'
    BY <1>5, <2>1, <2>2 DEF Typed, OpRecord, OpPc, RunPc, OpsExclusive, RunInv, Schedule, OpEnds, IdleOp
  <2>5. OnceInv'
    BY <1>5, <2>1, <2>2 DEF Typed, OpRecord, OpPc, RunPc, OpsExclusive, OnceInv, Schedule, OpEnds, IdleOp
  <2>6. RunInv'
    BY <1>5, <2>1, <2>2 DEF Typed, OpRecord, OpPc, RunPc, OpsExclusive, RunInv, Schedule, OpEnds, IdleOp
  <2> QED
    BY <2>3, <2>4, <2>5, <2>6
<1>6. ASSUME NEW c \in Callers, EnqueueFault(c) PROVE StoreInv'
  <2>1. Typed'
    BY <1>6 DEF Typed, OpRecord, OpPc, RunPc, EnqueueFault, OpEnds, IdleOp, Save, Transition
  <2>2. OpsExclusive'
    BY <1>6 DEF Typed, OpRecord, OpPc, RunPc, OpsExclusive, RunInv, EnqueueFault, OpEnds, IdleOp, Save, Transition
  <2>3. OnceInv'
    BY <1>6 DEF Typed, OpRecord, OpPc, RunPc, OpsExclusive, OnceInv, EnqueueFault, OpEnds, IdleOp, Save, Transition
  <2>4. RunInv'
    BY <1>6 DEF Typed, OpRecord, OpPc, RunPc, OpsExclusive, RunInv, EnqueueFault, OpEnds, IdleOp, Save, Transition
  <2> QED
    BY <2>1, <2>2, <2>3, <2>4
<1>7. ASSUME NEW e \in Executions, Claim(e) PROVE StoreInv'
  <2>1. Typed'
    <3>1. store' \in [Executions -> Status]
      BY <1>7 DEF Typed, Claim, Transition
    <3>2. run' \in [Executions -> RunPc]
      BY <1>7 DEF Typed, Claim, RunPc
    <3>3. executorCalls' \in [Executions -> Nat]
      BY <1>7 DEF Typed, Claim
    <3> QED
      BY <1>7, <3>1, <3>2, <3>3 DEF Typed, Claim
  <2>2. OpsExclusive'
    BY <1>7 DEF Typed, OpRecord, OpPc, RunPc, OpsExclusive, RunInv, Claim, Transition
  <2>3. OnceInv'
    BY <1>7 DEF Typed, OpRecord, OpPc, RunPc, OpsExclusive, OnceInv, Claim, Transition
  <2>4. RunInv'
    BY <1>7 DEF Typed, OpRecord, OpPc, RunPc, OpsExclusive, RunInv, Claim, Transition
  <2> QED
    BY <2>1, <2>2, <2>3, <2>4
<1>8. ASSUME NEW e \in Executions, ExecutorSettles(e) PROVE StoreInv'
  <2>1. Typed'
    BY <1>8 DEF Typed, OpRecord, OpPc, RunPc, ExecutorSettles, Save
  <2>2. OpsExclusive'
    BY <1>8 DEF Typed, OpRecord, OpPc, RunPc, OpsExclusive, RunInv, ExecutorSettles, Save
  <2>3. OnceInv'
    BY <1>8 DEF Typed, OpRecord, OpPc, RunPc, OpsExclusive, OnceInv, ExecutorSettles, Save
  <2>4. RunInv'
    BY <1>8 DEF Typed, OpRecord, OpPc, RunPc, OpsExclusive, RunInv, ExecutorSettles, Save
  <2> QED
    BY <2>1, <2>2, <2>3, <2>4
<1>9. ASSUME NEW e \in Executions, ExecutorOpensSession(e) PROVE StoreInv'
  <2>1. Typed'
    BY <1>9 DEF Typed, OpRecord, OpPc, RunPc, ExecutorOpensSession
  <2>2. OpsExclusive'
    BY <1>9 DEF Typed, OpRecord, OpPc, RunPc, OpsExclusive, RunInv, ExecutorOpensSession
  <2>3. OnceInv'
    BY <1>9 DEF Typed, OpRecord, OpPc, RunPc, OpsExclusive, OnceInv, ExecutorOpensSession
  <2>4. RunInv'
    BY <1>9 DEF Typed, OpRecord, OpPc, RunPc, OpsExclusive, RunInv, ExecutorOpensSession
  <2> QED
    BY <2>1, <2>2, <2>3, <2>4
<1>10. ASSUME NEW e \in Executions, ExecutorDetaches(e) PROVE StoreInv'
  <2>1. Typed'
    BY <1>10 DEF Typed, OpRecord, OpPc, RunPc, ExecutorDetaches
  <2>2. OpsExclusive'
    BY <1>10 DEF Typed, OpRecord, OpPc, RunPc, OpsExclusive, RunInv, ExecutorDetaches
  <2>3. OnceInv'
    BY <1>10 DEF Typed, OpRecord, OpPc, RunPc, OpsExclusive, OnceInv, ExecutorDetaches
  <2>4. RunInv'
    BY <1>10 DEF Typed, OpRecord, OpPc, RunPc, OpsExclusive, RunInv, ExecutorDetaches
  <2> QED
    BY <2>1, <2>2, <2>3, <2>4
<1>11. ASSUME NEW e \in Executions, ExecutorThrows(e) PROVE StoreInv'
  <2>1. Typed'
    BY <1>11 DEF Typed, OpRecord, OpPc, RunPc, ExecutorThrows, Save
  <2>2. OpsExclusive'
    BY <1>11 DEF Typed, OpRecord, OpPc, RunPc, OpsExclusive, RunInv, ExecutorThrows, Save
  <2>3. OnceInv'
    BY <1>11 DEF Typed, OpRecord, OpPc, RunPc, OpsExclusive, OnceInv, ExecutorThrows, Save
  <2>4. RunInv'
    BY <1>11 DEF Typed, OpRecord, OpPc, RunPc, OpsExclusive, RunInv, ExecutorThrows, Save
  <2> QED
    BY <2>1, <2>2, <2>3, <2>4
<1>12. ASSUME NEW e \in Executions, ExecutorFaults(e) PROVE StoreInv'
  <2>1. Typed'
    BY <1>12 DEF Typed, OpRecord, OpPc, RunPc, ExecutorFaults, Save
  <2>2. OpsExclusive'
    BY <1>12 DEF Typed, OpRecord, OpPc, RunPc, OpsExclusive, RunInv, ExecutorFaults, Save
  <2>3. OnceInv'
    BY <1>12 DEF Typed, OpRecord, OpPc, RunPc, OpsExclusive, OnceInv, ExecutorFaults, Save
  <2>4. RunInv'
    BY <1>12 DEF Typed, OpRecord, OpPc, RunPc, OpsExclusive, RunInv, ExecutorFaults, Save
  <2> QED
    BY <2>1, <2>2, <2>3, <2>4
<1>13. ASSUME NEW e \in Executions, ExecutorCatches(e) PROVE StoreInv'
  <2>1. Typed'
    BY <1>13 DEF Typed, OpRecord, OpPc, RunPc, ExecutorCatches, Save
  <2>2. OpsExclusive'
    BY <1>13 DEF Typed, OpRecord, OpPc, RunPc, OpsExclusive, RunInv, ExecutorCatches, Save
  <2>3. OnceInv'
    BY <1>13 DEF Typed, OpRecord, OpPc, RunPc, OpsExclusive, OnceInv, ExecutorCatches, Save
  <2>4. RunInv'
    BY <1>13 DEF Typed, OpRecord, OpPc, RunPc, OpsExclusive, RunInv, ExecutorCatches, Save
  <2> QED
    BY <2>1, <2>2, <2>3, <2>4
<1>14. ASSUME NEW e \in Executions, RecordFailure(e) PROVE StoreInv'
  <2>1. Typed'
    BY <1>14 DEF Typed, OpRecord, OpPc, RunPc, RecordFailure, Transition
  <2>2. OpsExclusive'
    BY <1>14 DEF Typed, OpRecord, OpPc, RunPc, OpsExclusive, RunInv, RecordFailure, Transition
  <2>3. OnceInv'
    BY <1>14 DEF Typed, OpRecord, OpPc, RunPc, OpsExclusive, OnceInv, RecordFailure, Transition
  <2>4. RunInv'
    BY <1>14 DEF Typed, OpRecord, OpPc, RunPc, OpsExclusive, RunInv, RecordFailure, Transition
  <2> QED
    BY <2>1, <2>2, <2>3, <2>4
<1>15. ASSUME NEW e \in Executions, Settle(e) PROVE StoreInv'
  <2>1. Drain(started, pending, active - 1, [run EXCEPT ![e] = "idle"])
    BY <1>15 DEF Settle
  <2>2. [run EXCEPT ![e] = "idle"] \in [Executions -> RunPc]
    BY DEF Typed, RunPc
  <2>3. /\ pending' \in Seq(Executions)
        /\ active' \in Int
        /\ run' \in [Executions -> RunPc]
        /\ \A x \in Executions : run'[x] \in {[run EXCEPT ![e] = "idle"][x], "claim"}
    <3>1. active - 1 \in Int
      BY DEF Typed
    <3> QED
      BY <2>1, <2>2, <3>1, DrainTyped DEF Typed
  <2>4. \A x \in Executions : run'[x] \in {run[x], "idle", "claim"}
    BY <2>3 DEF Typed
  <2>5. Typed'
    BY <1>15, <2>3, <2>4 DEF Typed, OpRecord, OpPc, RunPc, Settle
  <2>6. OpsExclusive'
    BY <1>15, <2>3, <2>4 DEF Typed, OpRecord, OpPc, RunPc, OpsExclusive, RunInv, Settle
  <2>7. OnceInv'
    BY <1>15, <2>3, <2>4 DEF Typed, OpRecord, OpPc, RunPc, OpsExclusive, OnceInv, Settle
  <2>8. RunInv'
    BY <1>15, <2>3, <2>4 DEF Typed, OpRecord, OpPc, RunPc, OpsExclusive, RunInv, Settle
  <2> QED
    BY <2>5, <2>6, <2>7, <2>8
<1>16. ASSUME NEW e \in Executions, SessionMoves(e) PROVE StoreInv'
  <2>1. Typed'
    BY <1>16 DEF Typed, OpRecord, OpPc, RunPc, SessionMoves, Transition, memory, boot
  <2>2. OpsExclusive'
    BY <1>16 DEF Typed, OpRecord, OpPc, RunPc, OpsExclusive, RunInv, SessionMoves, Transition, memory, boot
  <2>3. OnceInv'
    BY <1>16 DEF Typed, OpRecord, OpPc, RunPc, OpsExclusive, OnceInv, SessionMoves, Transition, memory, boot
  <2>4. RunInv'
    BY <1>16 DEF Typed, OpRecord, OpPc, RunPc, OpsExclusive, RunInv, SessionMoves, Transition, memory, boot
  <2> QED
    BY <2>1, <2>2, <2>3, <2>4
<1>17. ASSUME Boot PROVE StoreInv'
  <2>1. Typed'
    BY <1>17 DEF Typed, OpRecord, OpPc, RunPc, Boot, memory
  <2>2. OpsExclusive'
    BY <1>17 DEF Typed, OpRecord, OpPc, RunPc, OpsExclusive, RunInv, Boot, memory
  <2>3. OnceInv'
    BY <1>17 DEF Typed, OpRecord, OpPc, RunPc, OpsExclusive, OnceInv, Boot, memory
  <2>4. RunInv'
    BY <1>17 DEF Typed, OpRecord, OpPc, RunPc, OpsExclusive, RunInv, Boot, memory
  <2> QED
    BY <2>1, <2>2, <2>3, <2>4
<1>18. ASSUME NEW e \in Executions, ReconcileOne(e) PROVE StoreInv'
  <2>1. Typed'
    BY <1>18 DEF Typed, OpRecord, OpPc, RunPc, ReconcileOne, Transition, memory
  <2>2. OpsExclusive'
    BY <1>18 DEF Typed, OpRecord, OpPc, RunPc, OpsExclusive, RunInv, ReconcileOne, Transition, memory
  <2>3. OnceInv'
    BY <1>18 DEF Typed, OpRecord, OpPc, RunPc, OpsExclusive, OnceInv, ReconcileOne, Transition, memory
  <2>4. RunInv'
    BY <1>18 DEF Typed, OpRecord, OpPc, RunPc, OpsExclusive, RunInv, ReconcileOne, Transition, memory
  <2> QED
    BY <2>1, <2>2, <2>3, <2>4
<1>19. ASSUME Start PROVE StoreInv'
  <2>1. Drain(TRUE, pending, active, run)
    BY <1>19 DEF Start
  <2>2. /\ pending' \in Seq(Executions)
        /\ active' \in Int
        /\ run' \in [Executions -> RunPc]
        /\ \A x \in Executions : run'[x] \in {run[x], "claim"}
    BY <2>1, DrainTyped DEF Typed
  <2>3. Typed'
    BY <1>19, <2>2 DEF Typed, OpRecord, OpPc, RunPc, Start
  <2>4. OpsExclusive'
    BY <1>19, <2>2 DEF Typed, OpRecord, OpPc, RunPc, OpsExclusive, RunInv, Start
  <2>5. OnceInv'
    BY <1>19, <2>2 DEF Typed, OpRecord, OpPc, RunPc, OpsExclusive, OnceInv, Start
  <2>6. RunInv'
    BY <1>19, <2>2 DEF Typed, OpRecord, OpPc, RunPc, OpsExclusive, RunInv, Start
  <2> QED
    BY <2>3, <2>4, <2>5, <2>6
<1>20. ASSUME Stop PROVE StoreInv'
  <2>1. Typed'
    BY <1>20 DEF Typed, OpRecord, OpPc, RunPc, Stop
  <2>2. OpsExclusive'
    BY <1>20 DEF Typed, OpRecord, OpPc, RunPc, OpsExclusive, RunInv, Stop
  <2>3. OnceInv'
    BY <1>20 DEF Typed, OpRecord, OpPc, RunPc, OpsExclusive, OnceInv, Stop
  <2>4. RunInv'
    BY <1>20 DEF Typed, OpRecord, OpPc, RunPc, OpsExclusive, RunInv, Stop
  <2> QED
    BY <2>1, <2>2, <2>3, <2>4
<1>21. ASSUME Crash PROVE StoreInv'
  <2>1. Typed'
    <3>1. IdleOp \in OpRecord
      BY DEF IdleOp, OpRecord, OpPc
    <3>2. << >> \in Seq(Executions)
      BY EmptySeq
    <3>3. op' \in [Callers -> OpRecord]
      BY <1>21, <3>1 DEF Crash
    <3>4. run' \in [Executions -> RunPc]
      BY <1>21 DEF Crash, RunPc
    <3>5. pending' \in Seq(Executions)
      BY <1>21, <3>2 DEF Crash
    <3>6. /\ enqueueOperations' \subseteq Executions
          /\ scheduled' \subseteq Executions
          /\ sessions' \subseteq Executions
          /\ todo' \subseteq Executions
      BY <1>21 DEF Crash
    <3>7. active' \in Int /\ server' = "down"
      BY <1>21 DEF Crash
    <3>9. started' \in BOOLEAN
      BY <1>21 DEF Crash
    <3>8. store' = store /\ executorCalls' = executorCalls
      BY <1>21 DEF Crash
    <3> QED
      BY <3>3, <3>4, <3>5, <3>6, <3>7, <3>8, <3>9 DEF Typed
  <2>2. OpsExclusive'
    BY <1>21 DEF Typed, OpRecord, OpPc, RunPc, OpsExclusive, RunInv, Crash, IdleOp
  <2>3. OnceInv'
    BY <1>21 DEF Typed, OpRecord, OpPc, RunPc, OpsExclusive, OnceInv, Crash, IdleOp
  <2>4. RunInv'
    BY <1>21 DEF Typed, OpRecord, OpPc, RunPc, OpsExclusive, RunInv, Crash, IdleOp
  <2> QED
    BY <2>1, <2>2, <2>3, <2>4
<1>22. ASSUME UNCHANGED vars PROVE StoreInv'
  <2>1. Typed'
    BY <1>22 DEF Typed, OpRecord, OpPc, RunPc, vars, memory, boot
  <2>2. OpsExclusive'
    BY <1>22 DEF Typed, OpRecord, OpPc, RunPc, OpsExclusive, RunInv, vars, memory, boot
  <2>3. OnceInv'
    BY <1>22 DEF Typed, OpRecord, OpPc, RunPc, OpsExclusive, OnceInv, vars, memory, boot
  <2>4. RunInv'
    BY <1>22 DEF Typed, OpRecord, OpPc, RunPc, OpsExclusive, RunInv, vars, memory, boot
  <2> QED
    BY <2>1, <2>2, <2>3, <2>4
<1> QED
  BY <1>1, <1>2, <1>3, <1>4, <1>5, <1>6, <1>7, <1>8, <1>9, <1>10, <1>11, <1>12, <1>13, <1>14, <1>15, <1>16, <1>17, <1>18, <1>19, <1>20, <1>21, <1>22
     DEF Next, OpStep, RunStep, ExecutorStep

----------------------------------------------------------------------------
LEMMA StoreInvAlways == Spec => []StoreInv
<1>1. Init => StoreInv
  BY StoreInvInit
<1>2. StoreInv /\ [Next]_vars => StoreInv'
  BY StoreInvStep
<1> QED
  BY <1>1, <1>2, PTL DEF Spec

\* However many requests, crashes and rejected store calls: the executor is
\* invoked at most once for an execution id (transition() in run()).
THEOREM AtMostOnce == Spec => []ExecutedAtMostOnce
<1>1. StoreInv => ExecutedAtMostOnce
  BY DEF StoreInv, OnceInv, ExecutedAtMostOnce
<1> QED
  BY <1>1, StoreInvAlways, PTL

\* The unconditional save() of persistAndSchedule() never overwrites a row.
THEOREM SaveIsFirst == Spec => []SaveNeverOverwrites
<1>1. StoreInv => SaveNeverOverwrites
  BY DEF StoreInv, OpsExclusive, SaveNeverOverwrites
<1> QED
  BY <1>1, StoreInvAlways, PTL

----------------------------------------------------------------------------
(* Without database faults the engine never reaches its catch after a save *)
(* and the record walks the life cycle.                                    *)
FaultFree == \A e \in Executions : run[e] # "catch"

LEMMA FaultFreeStep ==
  ASSUME ~DbFaults, StoreInv, FaultFree, [Next]_vars
  PROVE  FaultFree'
<1> USE DEF StoreInv, FaultFree, boot, memory
<1>1. ASSUME NEW c \in Callers, Schedule(c) PROVE FaultFree'
  <2>1. CASE op[c].exec \notin scheduled /\ op[c].seen # "running"
    <3>1. Append(pending, op[c].exec) \in Seq(Executions)
      BY <1>1 DEF Schedule, Typed, OpRecord, OpsExclusive
    <3>2. Drain(started, Append(pending, op[c].exec), active, run)
      BY <1>1, <2>1 DEF Schedule
    <3> QED
      BY <3>1, <3>2, DrainTyped DEF Typed
  <2> QED
    BY <1>1, <2>1 DEF Schedule, Typed
<1>2. ASSUME NEW e \in Executions, Settle(e) PROVE FaultFree'
  <2>1. /\ active - 1 \in Int
        /\ [run EXCEPT ![e] = "idle"] \in [Executions -> RunPc]
    BY DEF Typed, RunPc
  <2>2. Drain(started, pending, active - 1, [run EXCEPT ![e] = "idle"])
    BY <1>2 DEF Settle
  <2>3. \A x \in Executions : run'[x] \in {[run EXCEPT ![e] = "idle"][x], "claim"}
    BY <2>1, <2>2, DrainTyped DEF Typed
  <2> QED
    BY <2>3 DEF Typed
<1>3. ASSUME Start PROVE FaultFree'
  <2>1. Drain(TRUE, pending, active, run)
    BY <1>3 DEF Start
  <2> QED
    BY <2>1, DrainTyped DEF Typed
<1>4. ASSUME NEW e \in Executions,
             Claim(e) \/ ExecutorStep(e) \/ RecordFailure(e)
      PROVE  FaultFree'
  BY <1>4 DEF Claim, ExecutorStep, ExecutorSettles, ExecutorOpensSession,
     ExecutorDetaches, ExecutorThrows, ExecutorFaults, ExecutorCatches,
     RecordFailure, Typed
<1>5. ASSUME NEW c \in Callers, NEW e \in Executions,
             \/ Enqueue(c, e) \/ ReadExisting(c) \/ SaveQueued(c)
             \/ PromoteConfirmed(c) \/ EnqueueFault(c)
             \/ SessionMoves(e) \/ ReconcileOne(e)
      PROVE  FaultFree'
  BY <1>5 DEF Enqueue, ReadExisting, SaveQueued, PromoteConfirmed, EnqueueFault,
     SessionMoves, ReconcileOne
<1>6. CASE Boot \/ Stop \/ Crash \/ UNCHANGED vars
  BY <1>6 DEF Boot, Stop, Crash, vars
<1>7. ASSUME NEW c \in Callers, OpStep(c) \/ EnqueueFault(c) PROVE FaultFree'
  <2>1. CASE Executions = {}
    BY <2>1
  <2>2. CASE Executions # {}
    BY <1>1, <1>5, <1>7, <2>2 DEF OpStep
  <2> QED
    BY <2>1, <2>2
<1>8. ASSUME NEW e \in Executions, RunStep(e) PROVE FaultFree'
  BY <1>2, <1>4, <1>8 DEF RunStep
<1>9. ASSUME NEW e \in Executions, SessionMoves(e) \/ ReconcileOne(e) PROVE FaultFree'
  BY <1>9 DEF SessionMoves, ReconcileOne
<1>10. ASSUME NEW c \in Callers, NEW e \in Executions, Enqueue(c, e) PROVE FaultFree'
  BY <1>5, <1>10
<1> QED
  BY <1>3, <1>6, <1>7, <1>8, <1>9, <1>10 DEF Next

LEMMA LifecycleStep ==
  ASSUME ~DbFaults, StoreInv, FaultFree, [Next]_vars
  PROVE  [Lifecycle!Next]_store
<1> USE DEF StoreInv, FaultFree, boot, memory
<1> DEFINE Walks(e, s) == /\ s \in Lifecycle!Successors(store[e])
                          /\ store' = [store EXCEPT ![e] = s]
<1>1. ASSUME NEW e \in Executions, NEW s, Walks(e, s)
      PROVE  Lifecycle!Next
  BY <1>1 DEF Lifecycle!Next, Lifecycle!Move
<1> HIDE DEF Walks
<1>2. ASSUME NEW c \in Callers, SaveQueued(c) PROVE Lifecycle!Next
  <2>1. op[c].exec \in Executions /\ store[op[c].exec] = "none"
    BY <1>2 DEF SaveQueued, OpsExclusive, Typed
  <2>2. Walks(op[c].exec, "queued")
    BY <1>2, <2>1 DEF SaveQueued, Save, Walks, Lifecycle!Successors
  <2> QED
    BY <1>1, <2>1, <2>2
<1>3. ASSUME NEW c \in Callers, PromoteConfirmed(c)
      PROVE  Lifecycle!Next \/ UNCHANGED store
  <2>1. op[c].exec \in Executions
    BY <1>3 DEF PromoteConfirmed, OpsExclusive, Typed
  <2>2. CASE store[op[c].exec] = "pending_confirmation"
    <3>1. Walks(op[c].exec, "queued")
      BY <1>3, <2>2 DEF PromoteConfirmed, Transition, Walks, Lifecycle!Successors
    <3> QED
      BY <1>1, <2>1, <3>1
  <2> QED
    BY <1>3, <2>2 DEF PromoteConfirmed, Transition
<1>4. ASSUME NEW e \in Executions, Claim(e)
      PROVE  Lifecycle!Next \/ UNCHANGED store
  <2>1. CASE store[e] = "queued"
    <3>1. Walks(e, "running")
      BY <1>4, <2>1 DEF Claim, Transition, Walks, Lifecycle!Successors
    <3> QED
      BY <1>1, <3>1
  <2> QED
    BY <1>4, <2>1 DEF Claim, Transition
<1>5. ASSUME NEW e \in Executions, ExecutorSettles(e) PROVE Lifecycle!Next
  <2>1. PICK s \in Terminal \ {"cancelled"} : store' = [store EXCEPT ![e] = s]
    BY <1>5 DEF ExecutorSettles, Save
  <2>2. store[e] = "running"
    BY <1>5 DEF ExecutorSettles, RunInv
  <2>3. Walks(e, s)
    BY <2>1, <2>2 DEF Walks, Lifecycle!Successors
  <2> QED
    BY <1>1, <2>3
<1>6. ASSUME NEW e \in Executions,
             \/ ExecutorOpensSession(e) \/ ExecutorDetaches(e)
             \/ ExecutorThrows(e) \/ ExecutorFaults(e) \/ ExecutorCatches(e)
      PROVE  UNCHANGED store
  BY <1>6 DEF ExecutorOpensSession, ExecutorDetaches, ExecutorThrows,
     ExecutorFaults, ExecutorCatches
<1>7. ASSUME NEW e \in Executions, NEW from, NEW s,
             Transition(e, from, s),
             store[e] \in from => s \in Lifecycle!Successors(store[e]) \/ s = store[e]
      PROVE  Lifecycle!Next \/ UNCHANGED store
  <2>1. CASE store[e] \in from /\ s # store[e]
    <3>1. Walks(e, s)
      BY <1>7, <2>1 DEF Transition, Walks
    <3> QED
      BY <1>1, <3>1
  <2>2. CASE store[e] \in from /\ s = store[e]
    BY <1>7, <2>2 DEF Transition, Typed
  <2>3. CASE store[e] \notin from
    BY <1>7, <2>3 DEF Transition
  <2> QED
    BY <2>1, <2>2, <2>3
<1>8. ASSUME NEW e \in Executions, RecordFailure(e)
      PROVE  Lifecycle!Next \/ UNCHANGED store
  <2>1. Transition(e, {"running"}, "failed")
    BY <1>8 DEF RecordFailure
  <2>2. store[e] = "running" => "failed" \in Lifecycle!Successors(store[e])
    BY DEF Lifecycle!Successors
  <2> QED
    BY <1>7, <2>1, <2>2
<1>9. ASSUME NEW e \in Executions, SessionMoves(e)
      PROVE  Lifecycle!Next \/ UNCHANGED store
  <2>1. PICK s \in Lifecycle!Session \cup Terminal :
               Transition(e, Lifecycle!Session, s)
    BY <1>9 DEF SessionMoves
  <2>2. store[e] \in Lifecycle!Session =>
          s \in Lifecycle!Successors(store[e]) \/ s = store[e]
    BY DEF Lifecycle!Successors
  <2> QED
    BY <1>7, <2>1, <2>2
<1>10. ASSUME NEW e \in Executions, ReconcileOne(e)
       PROVE  Lifecycle!Next \/ UNCHANGED store
  <2>1. Transition(e, {"queued", "running", "waiting_for_interaction"}, "failed")
    BY <1>10 DEF ReconcileOne
  <2>2. store[e] \in {"queued", "running", "waiting_for_interaction"} =>
          "failed" \in Lifecycle!Successors(store[e])
    BY DEF Lifecycle!Successors
  <2> QED
    BY <1>7, <2>1, <2>2
<1>11. ASSUME NEW c \in Callers,
              ReadExisting(c) \/ Schedule(c) \/ EnqueueFault(c)
              \/ \E e \in Executions : Enqueue(c, e)
       PROVE  UNCHANGED store
  BY <1>11 DEF ReadExisting, Schedule, EnqueueFault, Enqueue
<1>12. ASSUME \/ \E e \in Executions : Settle(e)
              \/ Boot \/ Start \/ Stop \/ Crash \/ UNCHANGED vars
       PROVE  UNCHANGED store
  BY <1>12 DEF Settle, Boot, Start, Stop, Crash, vars
<1>13. ASSUME NEW e \in Executions, RunStep(e)
       PROVE  Lifecycle!Next \/ UNCHANGED store
  BY <1>4, <1>5, <1>6, <1>8, <1>12, <1>13 DEF RunStep, ExecutorStep
<1>14. ASSUME NEW c \in Callers, OpStep(c)
       PROVE  Lifecycle!Next \/ UNCHANGED store
  BY <1>2, <1>3, <1>11, <1>14 DEF OpStep
<1> QED
  BY <1>9, <1>10, <1>11, <1>12, <1>13, <1>14 DEF Next

\* Without database faults the queue, its crashes and its restart procedure
\* only walk the edges of the life cycle: terminal statuses are absorbing and
\* nothing returns to queued (transition() and save() in the queue).
THEOREM Refinement ==
  ASSUME ~DbFaults
  PROVE  Spec => LifecycleSpec
<1>1. Init => Lifecycle!Init /\ FaultFree
  BY DEF Init, Lifecycle!Init, FaultFree
<1>2. StoreInv /\ FaultFree /\ [Next]_vars => FaultFree'
  BY FaultFreeStep
<1>3. StoreInv /\ FaultFree /\ [Next]_vars => [Lifecycle!Next]_store
  BY LifecycleStep
<1> QED
  BY <1>1, <1>2, <1>3, StoreInvAlways, PTL
     DEF Spec, LifecycleSpec, Lifecycle!Spec

----------------------------------------------------------------------------
(* The accounting of drain(): places, the FIFO and the scheduled set.      *)

ActivationsOf(r) == {e \in Executions : r[e] # "idle"}

NoRepeats(q) == \A i, j \in DOMAIN q : q[i] = q[j] => i = j

\* n different items are n executions.
LEMMA PrefixCount ==
  ASSUME NEW q \in Seq(Executions), NoRepeats(q), NEW n \in 0 .. Len(q)
  PROVE  LET taken == {q[i] : i \in 1..n}
         IN  IsFiniteSet(taken) /\ Cardinality(taken) = n
<1> DEFINE taken == {q[i] : i \in 1..n}
           f == [i \in 1..n |-> q[i]]
<1>1. n \in Nat /\ 1..n \subseteq DOMAIN q
  BY LenProperties
<1>2. f \in [1..n -> taken]
  OBVIOUS
<1>3. \A i, j \in 1..n : f[i] = f[j] => i = j
  BY <1>1 DEF NoRepeats
<1>4. \A x \in taken : \E i \in 1..n : f[i] = x
  OBVIOUS
<1>5. f \in Bijection(1..n, taken)
  BY <1>2, <1>3, <1>4, Fun_IsBij
<1>6. ExistsBijection(1..n, taken)
  BY <1>5 DEF ExistsBijection
<1>7. IsFiniteSet(1..n) /\ Cardinality(1..n) = n
  BY <1>1, FS_Interval
<1> HIDE DEF taken, f
<1>8. IsFiniteSet(taken) /\ Cardinality(taken) = Cardinality(1..n)
  BY <1>6, <1>7, FS_Bijection
<1> QED
  BY <1>7, <1>8 DEF taken

LEMMA DrainAccounts ==
  ASSUME NEW on \in BOOLEAN, NEW q \in Seq(Executions), NEW a \in Nat,
         NEW r \in [Executions -> RunPc], Drain(on, q, a, r), NoRepeats(q),
         Items(q) \cap ActivationsOf(r) = {},
         a = Cardinality(ActivationsOf(r)), a <= Concurrency
  PROVE  /\ NoRepeats(pending')
         /\ Items(pending') \cap Activations' = {}
         /\ Items(pending') \cup Activations' = Items(q) \cup ActivationsOf(r)
         /\ active' = Cardinality(Activations')
         /\ active' \in Nat
         /\ active' <= Concurrency
         /\ on /\ pending' # << >> => active' >= Concurrency
<1> DEFINE n == IF on /\ a < Concurrency THEN Least(Len(q), Concurrency - a) ELSE 0
           taken == {q[i] : i \in 1..n}
<1>1. n \in 0 .. Len(q)
  BY DrainCount
<1>2. /\ n + a <= Concurrency
      /\ on /\ n < Len(q) => n + a >= Concurrency
  BY ConcurrencyAssumption, LenProperties DEF Least
<1>3. /\ pending' = SubSeq(q, n + 1, Len(q)) /\ active' = a + n
      /\ run' = [e \in Executions |-> IF e \in taken THEN "claim" ELSE r[e]]
  BY DEF Drain
<1> HIDE DEF n
<1>4. Len(q) \in Nat /\ DOMAIN q = 1 .. Len(q) /\ n \in Nat /\ n <= Len(q)
  BY <1>1, LenProperties
<1>5. /\ pending' \in Seq(Executions)
      /\ Len(pending') = Len(q) - n
      /\ \A i \in 1 .. Len(q) - n : pending'[i] = q[n + i]
  <2>1. \A i \in n + 1 .. Len(q) : q[i] \in Executions
    BY <1>4
  <2> DEFINE rest == SubSeq(q, n + 1, Len(q))
  <2>2. n + 1 \in Int /\ Len(q) \in Int
    BY <1>4
  <2>3. /\ rest \in Seq(Executions)
        /\ Len(rest) = IF n + 1 <= Len(q) THEN Len(q) - (n + 1) + 1 ELSE 0
        /\ \A i \in 1 .. Len(q) - (n + 1) + 1 : rest[i] = q[n + 1 + i - 1]
    BY <2>1, <2>2, SubSeqProperties
  <2> HIDE DEF rest
  <2>4. Len(rest) = Len(q) - n
    <3>1. Len(rest) = IF n + 1 <= Len(q) THEN Len(q) - (n + 1) + 1 ELSE 0
      BY <2>3
    <3>2. CASE n + 1 <= Len(q)
      BY <1>4, <3>1, <3>2
    <3>3. CASE ~(n + 1 <= Len(q))
      <4> HIDE DEF taken
      <4>1. \A k, l \in Nat : k <= l /\ ~(k + 1 <= l) => k = l
        OBVIOUS
      <4>2. n \in Nat /\ Len(q) \in Nat /\ n <= Len(q)
        BY <1>4
      <4>3. n = Len(q)
        BY <4>1, <4>2, <3>3
      <4>4. Len(rest) = 0
        BY <3>1, <3>3
      <4> QED
        BY <1>4, <4>3, <4>4
    <3> QED
      BY <3>2, <3>3
  <2>5. \A i \in 1 .. Len(q) - n : rest[i] = q[n + i]
    <3> SUFFICES ASSUME NEW i \in 1 .. Len(q) - n PROVE rest[i] = q[n + i]
      OBVIOUS
    <3>1. i \in 1 .. Len(q) - (n + 1) + 1 /\ n + 1 + i - 1 = n + i
      BY <1>4
    <3> QED
      BY <2>3, <3>1
  <2> QED
    BY <1>3, <2>3, <2>4, <2>5 DEF rest
<1>6. DOMAIN pending' = 1 .. Len(q) - n
  BY <1>5, LenProperties
<1>7. NoRepeats(pending')
  <2> SUFFICES ASSUME NEW i \in 1 .. Len(q) - n, NEW j \in 1 .. Len(q) - n,
                      pending'[i] = pending'[j]
               PROVE  i = j
    BY <1>6 DEF NoRepeats
  <2>1. q[n + i] = q[n + j]
    BY <1>5
  <2>2. n + i \in DOMAIN q /\ n + j \in DOMAIN q
    BY <1>4
  <2>3. n + i = n + j
    BY <2>1, <2>2 DEF NoRepeats
  <2> QED
    BY <1>4, <2>3
<1>8. Items(pending') = {q[i] : i \in n + 1 .. Len(q)}
  <2>1. ASSUME NEW x \in Items(pending') PROVE x \in {q[i] : i \in n + 1 .. Len(q)}
    <3>1. PICK i \in 1 .. Len(q) - n : x = pending'[i]
      BY <1>6, <2>1 DEF Items
    <3>2. x = q[n + i] /\ n + i \in n + 1 .. Len(q)
      BY <1>4, <1>5, <3>1
    <3> QED
      BY <3>2
  <2>2. ASSUME NEW i \in n + 1 .. Len(q) PROVE q[i] \in Items(pending')
    <3>1. i - n \in 1 .. Len(q) - n /\ n + (i - n) = i
      BY <1>4
    <3>2. pending'[i - n] = q[i]
      BY <1>5, <3>1
    <3> QED
      BY <1>6, <3>1, <3>2 DEF Items
  <2> QED
    BY <2>1, <2>2
<1>9. taken \subseteq Executions /\ taken \subseteq Items(q)
  BY <1>4 DEF Items
<1>10. Activations' = ActivationsOf(r) \cup taken
  BY <1>3, <1>9 DEF Activations, ActivationsOf
<1>11. Items(q) = taken \cup Items(pending')
  <2>1. Items(q) \subseteq taken \cup Items(pending')
    BY <1>4, <1>8 DEF Items
  <2>2. Items(pending') \subseteq Items(q)
    BY <1>4, <1>8 DEF Items
  <2> QED
    BY <2>1, <2>2, <1>9
<1>12. taken \cap Items(pending') = {}
  <2>1. ASSUME NEW i \in 1..n, NEW j \in n + 1 .. Len(q) PROVE q[i] # q[j]
    BY <1>4 DEF NoRepeats
  <2> QED
    BY <1>8, <2>1
<1>13. IsFiniteSet(taken) /\ Cardinality(taken) = n
  BY <1>1, PrefixCount
<1>14. IsFiniteSet(ActivationsOf(r))
  BY ExecutionsAssumption, FS_Subset DEF ActivationsOf
<1> HIDE DEF taken
<1>15. Cardinality(Activations') = a + n
  <2>1. ActivationsOf(r) \cap taken = {}
    BY <1>9
  <2>2. Cardinality(ActivationsOf(r) \cup taken)
          = Cardinality(ActivationsOf(r)) + Cardinality(taken)
              - Cardinality(ActivationsOf(r) \cap taken)
    BY <1>13, <1>14, FS_Union
  <2>3. Cardinality(ActivationsOf(r) \cap taken) = 0
    BY <2>1, FS_EmptySet
  <2> QED
    BY <1>4, <1>10, <1>13, <2>2, <2>3
<1>16. on /\ pending' # << >> => active' >= Concurrency
  <2> SUFFICES ASSUME on, pending' # << >> PROVE active' >= Concurrency
    OBVIOUS
  <2>1. Len(pending') > 0
    BY <1>5, EmptySeq
  <2>2. n < Len(q)
    BY <1>4, <1>5, <2>1
  <2>3. n + a >= Concurrency
    BY <1>2, <2>2
  <2> QED
    BY <1>3, <1>4, <2>3, ConcurrencyAssumption
<1>17. active' \in Nat /\ active' <= Concurrency
  BY <1>2, <1>3, <1>4, ConcurrencyAssumption
<1> QED
  BY <1>3, <1>7, <1>10, <1>11, <1>12, <1>15, <1>16, <1>17

(* What drain() keeps, of the activations, the FIFO and the places.        *)
Accounting == NoDoubleSchedule /\ ConcurrencyRespected /\ WorkConserving

LEMMA ActivationsFinite ==
  ASSUME NEW r
  PROVE  IsFiniteSet(ActivationsOf(r)) /\ Cardinality(ActivationsOf(r)) \in Nat
  BY ExecutionsAssumption, FS_Subset, FS_CardinalityType DEF ActivationsOf

LEMMA AccountingInit == Init => Accounting
<1> SUFFICES ASSUME Init PROVE Accounting
  OBVIOUS
<1>1. Activations = {} /\ Items(pending) = {}
  BY DEF Init, Activations, Items
<1>2. active = Cardinality(Activations) /\ active <= Concurrency
  BY <1>1, FS_EmptySet, ConcurrencyAssumption DEF Init
<1> QED
  BY <1>1, <1>2
     DEF Init, Accounting, NoDoubleSchedule, ConcurrencyRespected, WorkConserving

\* A step that keeps the FIFO, the flag, the count and who is running.
LEMMA AccountingKept ==
  ASSUME Accounting, UNCHANGED <<pending, scheduled, active, started>>,
         Activations' = Activations
  PROVE  Accounting'
  BY DEF Accounting, NoDoubleSchedule, ConcurrencyRespected, WorkConserving, Items

\* A step of run() that goes from one of its awaits to another.
LEMMA RunMoves ==
  ASSUME Typed, NEW e \in Executions, NEW pc, pc # "idle", run[e] # "idle",
         run' = [run EXCEPT ![e] = pc]
  PROVE  Activations' = Activations
  BY DEF Typed, Activations

\* A step that ends in drain().
LEMMA AccountingDrains ==
  ASSUME NEW on \in BOOLEAN, NEW q \in Seq(Executions), NEW a \in Nat,
         NEW r \in [Executions -> RunPc], Drain(on, q, a, r), NoRepeats(q),
         Items(q) \cap ActivationsOf(r) = {},
         a = Cardinality(ActivationsOf(r)), a <= Concurrency,
         started' = on, scheduled' = Items(q) \cup ActivationsOf(r)
  PROVE  Accounting'
<1>1. /\ NoRepeats(pending')
      /\ Items(pending') \cap Activations' = {}
      /\ Items(pending') \cup Activations' = Items(q) \cup ActivationsOf(r)
      /\ active' = Cardinality(Activations')
      /\ active' <= Concurrency
      /\ on /\ pending' # << >> => active' >= Concurrency
  BY DrainAccounts
<1>2. NoDoubleSchedule'
  BY <1>1 DEF NoDoubleSchedule, NoRepeats, Items
<1>3. ConcurrencyRespected'
  BY <1>1 DEF ConcurrencyRespected
<1>4. WorkConserving'
  BY <1>1 DEF WorkConserving
<1> QED
  BY <1>2, <1>3, <1>4 DEF Accounting

LEMMA AccountingStep == StoreInv /\ Accounting /\ [Next]_vars => Accounting'
<1> SUFFICES ASSUME StoreInv, Accounting, [Next]_vars PROVE Accounting'
  OBVIOUS
<1> USE DEF boot, memory
<1>1. Typed
  BY DEF StoreInv
<1>2. /\ NoRepeats(pending)
      /\ Items(pending) \cap ActivationsOf(run) = {}
      /\ scheduled = Items(pending) \cup ActivationsOf(run)
      /\ active = Cardinality(ActivationsOf(run))
      /\ active <= Concurrency
      /\ active \in Nat
  BY ActivationsFinite
     DEF Accounting, NoDoubleSchedule, ConcurrencyRespected, NoRepeats,
         Activations, ActivationsOf
<1>3. ASSUME UNCHANGED <<pending, scheduled, active, started, run>> PROVE Accounting'
  BY <1>3, AccountingKept DEF Activations
<1>4. ASSUME NEW e \in Executions, NEW pc, pc # "idle", run[e] # "idle",
             run' = [run EXCEPT ![e] = pc],
             UNCHANGED <<pending, scheduled, active, started>>
      PROVE  Accounting'
  BY <1>1, <1>4, RunMoves, AccountingKept
<1>5. ASSUME NEW c \in Callers, Schedule(c) PROVE Accounting'
  <2> DEFINE e == op[c].exec
  <2>1. CASE ~(e \notin scheduled /\ op[c].seen # "running")
    BY <1>3, <1>5, <2>1 DEF Schedule
  <2>2. CASE e \notin scheduled /\ op[c].seen # "running"
    <3> DEFINE q == Append(pending, e)
    <3>1. /\ scheduled' = scheduled \cup {e} /\ Drain(started, q, active, run)
          /\ started' = started
      BY <1>5, <2>2 DEF Schedule
    <3>2. e \in Executions
      BY <1>5 DEF Schedule, StoreInv, OpsExclusive, Typed
    <3>3. /\ q \in Seq(Executions)
          /\ Len(q) = Len(pending) + 1
          /\ \A i \in 1 .. Len(pending) : q[i] = pending[i]
          /\ q[Len(pending) + 1] = e
      BY <1>1, <3>2, AppendProperties DEF Typed
    <3>4. /\ DOMAIN q = 1 .. Len(pending) + 1
          /\ DOMAIN pending = 1 .. Len(pending)
          /\ Len(pending) \in Nat
      BY <1>1, <3>3, LenProperties DEF Typed
    <3> HIDE DEF e, q
    <3>5. Items(q) = Items(pending) \cup {e}
      <4>1. ASSUME NEW i \in DOMAIN q PROVE q[i] \in Items(pending) \cup {e}
        <5>1. i \in 1 .. Len(pending) \/ i = Len(pending) + 1
          BY <3>4
        <5> QED
          BY <3>3, <3>4, <5>1 DEF Items
      <4>2. ASSUME NEW i \in DOMAIN pending PROVE pending[i] \in Items(q)
        <5>1. i \in DOMAIN q /\ q[i] = pending[i]
          BY <3>3, <3>4
        <5> QED
          BY <5>1 DEF Items
      <4>3. e \in Items(q)
        BY <3>3, <3>4 DEF Items
      <4> QED
        BY <4>1, <4>2, <4>3 DEF Items
    <3>6. e \notin Items(pending) /\ e \notin ActivationsOf(run)
      BY <1>2, <2>2 DEF e
    <3>7. NoRepeats(q)
      <4>1. \A i \in 1 .. Len(pending) : pending[i] # e
        BY <3>4, <3>6 DEF Items
      <4>2. ASSUME NEW i \in 1 .. Len(pending), NEW j \in 1 .. Len(pending), q[i] = q[j]
            PROVE  i = j
        BY <1>2, <3>3, <3>4, <4>2 DEF NoRepeats
      <4> QED
        BY <3>3, <3>4, <4>1, <4>2 DEF NoRepeats
    <3>8. Items(q) \cap ActivationsOf(run) = {}
      BY <1>2, <3>5, <3>6
    <3>9. scheduled' = Items(q) \cup ActivationsOf(run)
      BY <1>2, <3>1, <3>5
    <3>10. run \in [Executions -> RunPc]
      BY <1>1 DEF Typed
    <3>11. started \in BOOLEAN
      BY <1>1 DEF Typed
    <3> QED
      BY <1>2, <3>1, <3>3, <3>7, <3>8, <3>9, <3>10, <3>11, AccountingDrains
  <2> QED
    BY <2>1, <2>2
<1>6. ASSUME NEW e \in Executions, Settle(e) PROVE Accounting'
  <2> DEFINE r == [run EXCEPT ![e] = "idle"]
  <2>1. /\ run[e] = "settle" /\ scheduled' = scheduled \ {e}
        /\ Drain(started, pending, active - 1, r) /\ started' = started
    BY <1>6 DEF Settle
  <2>2. r \in [Executions -> RunPc] /\ ActivationsOf(r) = ActivationsOf(run) \ {e}
    BY <1>1 DEF Typed, RunPc, ActivationsOf
  <2>3. e \in ActivationsOf(run)
    BY <2>1 DEF ActivationsOf
  <2> HIDE DEF r
  <2>4. Cardinality(ActivationsOf(r)) = active - 1
    BY <1>2, <2>2, <2>3, ActivationsFinite, FS_RemoveElement
  <2>5. active - 1 \in Nat /\ active - 1 <= Concurrency
    BY <1>2, <2>4, ActivationsFinite, ConcurrencyAssumption
  <2>6. Items(pending) \cap ActivationsOf(r) = {}
    BY <1>2, <2>2
  <2>7. scheduled' = Items(pending) \cup ActivationsOf(r)
    BY <1>2, <2>1, <2>2, <2>3
  <2>8. started \in BOOLEAN
    BY <1>1 DEF Typed
  <2>9. pending \in Seq(Executions)
    BY <1>1 DEF Typed
  <2> QED
    BY <1>2, <2>1, <2>2, <2>4, <2>5, <2>6, <2>7, <2>8, <2>9, AccountingDrains
<1>7. ASSUME Start PROVE Accounting'
  <2>1. /\ Drain(TRUE, pending, active, run) /\ started' = TRUE /\ scheduled' = scheduled
    BY <1>7 DEF Start
  <2>2. pending \in Seq(Executions) /\ run \in [Executions -> RunPc]
    BY <1>1 DEF Typed
  <2> QED
    BY <1>2, <2>1, <2>2, AccountingDrains
<1>8. ASSUME Stop PROVE Accounting'
  <2>1. /\ UNCHANGED <<pending, scheduled, active, run>> /\ ~started'
    BY <1>8 DEF Stop
  <2>2. Activations' = Activations
    BY <2>1 DEF Activations
  <2> QED
    BY <2>1, <2>2
       DEF Accounting, NoDoubleSchedule, ConcurrencyRespected, WorkConserving, Items
<1>9. ASSUME Crash PROVE Accounting'
  <2>1. /\ pending' = << >> /\ scheduled' = {} /\ active' = 0
        /\ run' = [e \in Executions |-> "idle"] /\ ~started'
    BY <1>9 DEF Crash
  <2>2. Activations' = {} /\ Items(pending') = {}
    BY <2>1 DEF Activations, Items
  <2>3. active' = Cardinality(Activations') /\ active' <= Concurrency
    BY <2>1, <2>2, FS_EmptySet, ConcurrencyAssumption
  <2>4. NoDoubleSchedule'
    BY <2>1, <2>2 DEF NoDoubleSchedule, Items
  <2> QED
    BY <2>1, <2>3, <2>4 DEF Accounting, ConcurrencyRespected, WorkConserving
<1>10. ASSUME NEW e \in Executions, Claim(e) PROVE Accounting'
  BY <1>4, <1>10 DEF Claim
<1>11. ASSUME NEW e \in Executions, ExecutorStep(e) PROVE Accounting'
  BY <1>4, <1>11
     DEF ExecutorStep, ExecutorSettles, ExecutorOpensSession, ExecutorDetaches,
         ExecutorThrows, ExecutorFaults, ExecutorCatches
<1>12. ASSUME NEW e \in Executions, RecordFailure(e) PROVE Accounting'
  BY <1>4, <1>12 DEF RecordFailure
<1>13. ASSUME NEW e \in Executions, SessionMoves(e) \/ ReconcileOne(e)
       PROVE  Accounting'
  BY <1>3, <1>13 DEF SessionMoves, ReconcileOne
<1>14. ASSUME NEW c \in Callers,
              \/ ReadExisting(c) \/ SaveQueued(c) \/ PromoteConfirmed(c)
              \/ EnqueueFault(c) \/ \E e \in Executions : Enqueue(c, e)
       PROVE  Accounting'
  BY <1>3, <1>14 DEF ReadExisting, SaveQueued, PromoteConfirmed, EnqueueFault, Enqueue
<1>15. ASSUME Boot \/ UNCHANGED vars PROVE Accounting'
  BY <1>3, <1>15 DEF Boot, vars
<1> QED
  BY <1>5, <1>6, <1>7, <1>8, <1>9, <1>10, <1>11, <1>12, <1>13, <1>14, <1>15
     DEF Next, OpStep, RunStep

LEMMA AccountingAlways == Spec => []Accounting
<1>1. Init => Accounting
  BY AccountingInit
<1>2. StoreInv /\ Accounting /\ [Next]_vars => Accounting'
  BY AccountingStep
<1> QED
  BY <1>1, <1>2, StoreInvAlways, PTL DEF Spec

\* The type invariant of the queue and of the table it works on.
THEOREM TypeCorrect == Spec => []TypeOK
<1>1. StoreInv /\ Accounting => TypeOK
  BY ActivationsFinite
     DEF StoreInv, Typed, TypeOK, Accounting, ConcurrencyRespected,
         Activations, ActivationsOf
<1> QED
  BY <1>1, StoreInvAlways, AccountingAlways, PTL

\* drain() never runs more executions at a time than agentAsync.concurrency,
\* and active counts them exactly, whatever requests, crashes and faults come.
THEOREM PlacesBounded == Spec => []ConcurrencyRespected
<1>1. Accounting => ConcurrencyRespected
  BY DEF Accounting
<1> QED
  BY <1>1, AccountingAlways, PTL

\* No item is lost or taken twice between enqueue() and the finally of drain().
THEOREM OnePlaceEach == Spec => []NoDoubleSchedule
<1>1. Accounting => NoDoubleSchedule
  BY DEF Accounting
<1> QED
  BY <1>1, AccountingAlways, PTL

\* A started queue leaves no place empty while an item waits.
THEOREM NoIdlePlace == Spec => []WorkConserving
<1>1. Accounting => WorkConserving
  BY DEF Accounting
<1> QED
  BY <1>1, AccountingAlways, PTL

----------------------------------------------------------------------------
(* No queued record is left behind as long as no store call rejects: when  *)
(* the second get() rejects, its record waits until it is enqueued again   *)
(* or the service restarts.  The invariant follows a record from the write *)
(* that queues it to the claim.                                            *)
OpsOnTheWay ==
  \A c \in Callers :
    /\ op[c].pc \in {"save", "promote"} => op[c].seen # "running"
    /\ op[c].pc = "reread" =>
         /\ store[op[c].exec] \notin {"none", "pending_confirmation"}
         /\ op[c].seen = "running" => store[op[c].exec] # "queued"

StrandInv ==
  /\ NoStrandedQueued
  /\ server = "reconciling" => \A e \in Executions : store[e] = "queued" => e \in todo
  /\ OpsOnTheWay
  /\ \A e \in scheduled : store[e] \notin {"none", "pending_confirmation"}
  /\ \A e \in Executions : run[e] \notin {"idle", "claim"} => store[e] # "queued"

\* Who is in run() is scheduled.
LEMMA RunningIsScheduled ==
  ASSUME Accounting, NEW e \in Executions, run[e] # "idle"
  PROVE  e \in scheduled
  BY DEF Accounting, NoDoubleSchedule, Activations

\* A step that leaves no new record queued and moves nobody but run().
LEMMA StrandKept ==
  ASSUME StoreInv, StrandInv, UNCHANGED <<op, enqueueOperations, scheduled, server, todo>>,
         run' \in [Executions -> RunPc],
         \A e \in Executions :
           /\ store'[e] = "queued" => store[e] = "queued"
           /\ store[e] \notin {"none", "pending_confirmation"} => store'[e] \notin {"none", "pending_confirmation"}
           /\ run'[e] \notin {"idle", "claim", run[e]} => store'[e] # "queued"
  PROVE  StrandInv'
<1>1. \A c \in Callers : op[c].pc # "idle" => op[c].exec \in Executions
  BY DEF StoreInv, OpsExclusive, Typed
<1>2. OpsOnTheWay'
  BY <1>1 DEF StrandInv, OpsOnTheWay
<1>3. scheduled \subseteq Executions
  BY DEF StoreInv, Typed
<1> QED
  BY <1>2, <1>3 DEF StrandInv, NoStrandedQueued

LEMMA StrandStep ==
  ASSUME ~DbFaults, StoreInv, Accounting, StrandInv, [Next]_vars
  PROVE  StrandInv'
<1> USE DEF boot, memory
<1>0. /\ Typed /\ OpsExclusive /\ RunInv
      /\ \A c \in Callers : op[c].pc # "idle" => op[c].exec \in Executions /\ server \in {"up", "closing"}
  BY DEF StoreInv, OpsExclusive, Typed
<1>1. ASSUME NEW c \in Callers, NEW e \in Executions, Enqueue(c, e) PROVE StrandInv'
  <2>1. OpsOnTheWay'
    BY <1>0, <1>1 DEF Enqueue, StrandInv, OpsOnTheWay, Typed
  <2> QED
    BY <1>1, <2>1 DEF Enqueue, StrandInv, NoStrandedQueued
<1>2. ASSUME NEW c \in Callers, ReadExisting(c) PROVE StrandInv'
  <2>1. /\ op[c].pc = "get" /\ op[c].exec \in Executions /\ op[c] \in OpRecord
        /\ UNCHANGED <<store, pending, scheduled, active, run, started, sessions, boot, executorCalls>>
    BY <1>0, <1>2 DEF ReadExisting, Typed
  <2>2. ASSUME NEW pc \in {"save", "promote", "reread"},
               op' = [op EXCEPT ![c].pc = pc, ![c].seen = store[op[c].exec]], UNCHANGED enqueueOperations,
               pc = "save" => store[op[c].exec] = "none",
               pc = "promote" => store[op[c].exec] = "pending_confirmation",
               pc = "reread" => store[op[c].exec] \in {"queued", "running"}
        PROVE  StrandInv'
    <3>1. /\ op'[c].pc = pc /\ op'[c].seen = store[op[c].exec] /\ op'[c].exec = op[c].exec
          /\ \A d \in Callers \ {c} : op'[d] = op[d]
      BY <1>0, <2>1, <2>2 DEF Typed, OpRecord
    <3>2. OpsOnTheWay'
      BY <2>1, <2>2, <3>1 DEF StrandInv, OpsOnTheWay
    <3> QED
      BY <2>1, <2>2, <3>2 DEF StrandInv, NoStrandedQueued
  <2>3. ASSUME OpEnds(c), store[op[c].exec] # "queued" PROVE StrandInv'
    <3>1. OpsOnTheWay'
      BY <1>0, <2>1, <2>3 DEF OpEnds, StrandInv, OpsOnTheWay, Typed, IdleOp
    <3> QED
      BY <2>1, <2>3, <3>1 DEF OpEnds, StrandInv, NoStrandedQueued
  <2> QED
    BY <1>2, <2>2, <2>3 DEF ReadExisting
<1>3. ASSUME NEW c \in Callers, SaveQueued(c) PROVE StrandInv'
  <2>1. /\ op[c].pc = "save" /\ store' = [store EXCEPT ![op[c].exec] = "queued"]
        /\ op' = [op EXCEPT ![c].pc = "reread"] /\ op[c].exec \in Executions
        /\ UNCHANGED <<enqueueOperations, pending, scheduled, active, run, started, sessions, boot, executorCalls>>
    BY <1>0, <1>3 DEF SaveQueued, Save
  <2>2. store[op[c].exec] = "none" /\ op[c].exec \in enqueueOperations /\ op[c].seen # "running"
    BY <1>0, <2>1 DEF OpsExclusive, StrandInv, OpsOnTheWay
  <2>3. run[op[c].exec] = "idle"
    BY <2>1, <2>2, RunningIsScheduled DEF StrandInv
  <2>4. OpsOnTheWay'
    BY <1>0, <2>1, <2>2 DEF OpsExclusive, StrandInv, OpsOnTheWay, Typed, OpRecord
  <2> QED
    BY <1>0, <2>1, <2>2, <2>3, <2>4 DEF StrandInv, NoStrandedQueued, Typed
<1>4. ASSUME NEW c \in Callers, PromoteConfirmed(c) PROVE StrandInv'
  <2>1. /\ op[c].pc = "promote" /\ op' = [op EXCEPT ![c].pc = "reread"] /\ op[c].exec \in Executions
        /\ store' = IF store[op[c].exec] = "pending_confirmation"
                      THEN [store EXCEPT ![op[c].exec] = "queued"] ELSE store
        /\ UNCHANGED <<enqueueOperations, pending, scheduled, active, run, started, sessions, boot, executorCalls>>
    BY <1>0, <1>4 DEF PromoteConfirmed, Transition
  <2>2. store[op[c].exec] # "none" /\ op[c].exec \in enqueueOperations /\ op[c].seen # "running"
    BY <1>0, <2>1 DEF OpsExclusive, StrandInv, OpsOnTheWay
  <2>3. store[op[c].exec] = "pending_confirmation" => run[op[c].exec] = "idle"
    BY <2>1, RunningIsScheduled DEF StrandInv
  <2>4. OpsOnTheWay'
    BY <1>0, <2>1, <2>2 DEF OpsExclusive, StrandInv, OpsOnTheWay, Typed, OpRecord
  <2> QED
    BY <1>0, <2>1, <2>2, <2>3, <2>4 DEF StrandInv, NoStrandedQueued, Typed
<1>5. ASSUME NEW c \in Callers, Schedule(c) PROVE StrandInv'
  <2>1. /\ op[c].pc = "reread" /\ OpEnds(c) /\ op[c].exec \in Executions
        /\ UNCHANGED <<store, started, sessions, boot, executorCalls>>
    BY <1>0, <1>5 DEF Schedule
  <2>2. OpsOnTheWay'
    BY <1>0, <2>1 DEF OpEnds, StrandInv, OpsOnTheWay, Typed, IdleOp
  <2>3. CASE op[c].exec \notin scheduled /\ op[c].seen # "running"
    <3>1. /\ scheduled' = scheduled \cup {op[c].exec}
          /\ Drain(started, Append(pending, op[c].exec), active, run)
      BY <1>5, <2>3 DEF Schedule
    <3>2. \A x \in Executions : run'[x] \in {run[x], "claim"}
      <4>1. Append(pending, op[c].exec) \in Seq(Executions)
        BY <1>0, <2>1 DEF Typed
      <4> QED
        BY <1>0, <3>1, <4>1, DrainTyped DEF Typed
    <3>3. store[op[c].exec] \notin {"none", "pending_confirmation"}
      BY <2>1 DEF StrandInv, OpsOnTheWay
    <3> QED
      BY <2>1, <2>2, <3>1, <3>2, <3>3 DEF OpEnds, StrandInv, NoStrandedQueued
  <2>4. CASE ~(op[c].exec \notin scheduled /\ op[c].seen # "running")
    <3>1. UNCHANGED <<scheduled, run>>
      BY <1>5, <2>4 DEF Schedule
    <3>2. store[op[c].exec] = "queued" => op[c].exec \in scheduled
      BY <2>1, <2>4 DEF StrandInv, OpsOnTheWay
    <3> QED
      BY <2>1, <2>2, <3>1, <3>2 DEF OpEnds, StrandInv, NoStrandedQueued
  <2> QED
    BY <2>3, <2>4
<1>6. ASSUME NEW e \in Executions, Claim(e) PROVE StrandInv'
  BY <1>0, <1>6, StrandKept DEF Claim, Transition, Typed, RunPc
<1>7. ASSUME NEW e \in Executions, ExecutorStep(e) PROVE StrandInv'
  <2>1. CASE ExecutorSettles(e) \/ ExecutorCatches(e)
    BY <1>0, <2>1, StrandKept DEF ExecutorSettles, ExecutorCatches, Save, Typed, RunPc
  <2>2. CASE ExecutorOpensSession(e) \/ ExecutorDetaches(e)
    BY <1>0, <2>2, StrandKept DEF ExecutorOpensSession, ExecutorDetaches, Typed, RunPc, RunInv
  <2> QED
    BY <1>7, <2>1, <2>2 DEF ExecutorStep, ExecutorThrows, ExecutorFaults
<1>8. ASSUME NEW e \in Executions, RecordFailure(e) PROVE StrandInv'
  BY <1>0, <1>8, StrandKept DEF RecordFailure, Transition, Typed, RunPc, RunInv
<1>9. ASSUME NEW e \in Executions, Settle(e) PROVE StrandInv'
  <2>1. /\ run[e] = "settle" /\ scheduled' = scheduled \ {e}
        /\ Drain(started, pending, active - 1, [run EXCEPT ![e] = "idle"])
        /\ UNCHANGED <<store, op, enqueueOperations, started, sessions, boot, executorCalls>>
    BY <1>9 DEF Settle
  <2>2. [run EXCEPT ![e] = "idle"] \in [Executions -> RunPc] /\ active - 1 \in Int
    BY <1>0 DEF Typed, RunPc
  <2>3. \A x \in Executions : run'[x] \in {[run EXCEPT ![e] = "idle"][x], "claim"}
    BY <1>0, <2>1, <2>2, DrainTyped DEF Typed
  <2>4. \A x \in Executions : run'[x] \in {run[x], "idle", "claim"}
    BY <1>0, <2>3 DEF Typed
  <2>5. store[e] # "queued"
    BY <2>1 DEF StrandInv
  <2>6. OpsOnTheWay'
    BY <2>1 DEF StrandInv, OpsOnTheWay
  <2> QED
    BY <2>1, <2>4, <2>5, <2>6 DEF StrandInv, NoStrandedQueued
<1>10. ASSUME NEW e \in Executions, SessionMoves(e) PROVE StrandInv'
  BY <1>0, <1>10, StrandKept DEF SessionMoves, Transition, Typed
<1>11. CASE Boot
  <2>1. OpsOnTheWay'
    BY <1>11 DEF Boot, StrandInv, OpsOnTheWay
  <2> QED
    BY <1>11, <2>1 DEF Boot, StrandInv, NoStrandedQueued
<1>12. ASSUME NEW e \in Executions, ReconcileOne(e) PROVE StrandInv'
  <2>1. \A c \in Callers : op[c].pc = "idle" /\ op' = op
    BY <1>0, <1>12 DEF ReconcileOne
  <2>2. OpsOnTheWay'
    BY <2>1 DEF OpsOnTheWay
  <2>3. /\ store' \in [Executions -> Status] /\ store'[e] # "queued"
        /\ \A x \in Executions \ {e} : store'[x] = store[x]
        /\ store[e] \notin {"none", "pending_confirmation"} => store'[e] \notin {"none", "pending_confirmation"}
    BY <1>0, <1>12 DEF ReconcileOne, Transition, Typed
  <2>4. /\ server = "reconciling" /\ todo' = todo \ {e} /\ scheduled \subseteq Executions
        /\ UNCHANGED <<op, enqueueOperations, scheduled, run, server>>
    BY <1>0, <1>12 DEF ReconcileOne, Typed
  <2>5. /\ NoStrandedQueued'
        /\ (\A x \in Executions : store[x] = "queued" => x \in todo)'
    BY <2>3, <2>4 DEF StrandInv, NoStrandedQueued
  <2>6. (\A x \in scheduled : store[x] \notin {"none", "pending_confirmation"})'
    BY <2>3, <2>4 DEF StrandInv
  <2>7. (\A x \in Executions : run[x] \notin {"idle", "claim"} => store[x] # "queued")'
    BY <2>3, <2>4 DEF StrandInv
  <2> QED
    BY <2>2, <2>5, <2>6, <2>7 DEF StrandInv
<1>13. CASE Start
  <2>1. /\ Drain(TRUE, pending, active, run) /\ server = "reconciling" /\ todo = {} /\ server' = "up"
        /\ UNCHANGED <<store, op, enqueueOperations, scheduled, sessions, todo, executorCalls>>
    BY <1>13 DEF Start
  <2>2. \A x \in Executions : run'[x] \in {run[x], "claim"}
    BY <1>0, <2>1, DrainTyped DEF Typed
  <2>3. OpsOnTheWay'
    BY <2>1 DEF StrandInv, OpsOnTheWay
  <2> QED
    BY <2>1, <2>2, <2>3 DEF StrandInv, NoStrandedQueued
<1>14. CASE Stop
  <2>1. OpsOnTheWay'
    BY <1>14 DEF Stop, StrandInv, OpsOnTheWay
  <2> QED
    BY <1>14, <2>1 DEF Stop, StrandInv, NoStrandedQueued
<1>15. CASE Crash
  <2>1. OpsOnTheWay'
    BY <1>15 DEF Crash, OpsOnTheWay, IdleOp
  <2> QED
    BY <1>15, <2>1 DEF Crash, StrandInv, NoStrandedQueued
<1>16. CASE UNCHANGED vars
  BY <1>0, <1>16, StrandKept DEF vars, Typed
<1>17. ASSUME NEW c \in Callers, EnqueueFault(c) PROVE StrandInv'
  BY <1>17 DEF EnqueueFault
<1> QED
  BY <1>1, <1>2, <1>3, <1>4, <1>5, <1>6, <1>7, <1>8, <1>9, <1>10, <1>11, <1>12, <1>13, <1>14, <1>15, <1>16, <1>17
     DEF Next, OpStep, RunStep

\* Without a rejected store call, a queued record of a service that is up is always in
\* the queue or still inside the enqueue() that wrote it, through every race of
\* requests with run(), every stop and every restart.
THEOREM NothingStranded == ASSUME ~DbFaults PROVE Spec => []NoStrandedQueued
<1>1. Init => StrandInv
  BY DEF Init, StrandInv, NoStrandedQueued, OpsOnTheWay, IdleOp
<1>2. StoreInv /\ Accounting /\ StrandInv /\ [Next]_vars => StrandInv'
  BY StrandStep
<1>3. StrandInv => NoStrandedQueued
  BY DEF StrandInv
<1> QED
  BY <1>1, <1>2, <1>3, StoreInvAlways, AccountingAlways, PTL DEF Spec
=============================================================================
