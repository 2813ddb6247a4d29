---------------------------- MODULE RecordProofs ----------------------------
(***************************************************************************)
(* Theorems about what the engine records: the leases, the idempotency     *)
(* keys and the history.  They rest on EngineProofs.                       *)
(***************************************************************************)
EXTENDS EngineProofs

-----------------------------------------------------------------------------
(* Leases *)

\* A lease in the name of a worker is for the instance the worker is working on.
LeaseOK ==
  \A i \in Instances : \A w \in Workers :
    rows[i].lockedBy = w => pc[w] \notin {"idle", "ack"} /\ Id(w) = i

\* A lease that has not run out is given up by a step of its holder.
Handover ==
  \A i \in Instances : \A w \in Workers :
    rows[i].live /\ rows[i].lockedBy = w /\ rows'[i].lockedBy # w => pc'[w] # pc[w]

SameOwners == \A i \in Instances : rows'[i].lockedBy = rows[i].lockedBy

\* The steps of a worker that is at work and stays at work.
LEMMA StaysAtWork ==
  ASSUME AInv, NEW w \in Workers,
         \/ EnsureWaitingTimer(w) \/ OptimisticLock(w) \/ AppendStepHistory(w)
         \/ CompleteStepHistory(w) \/ ClearTimerRow(w) \/ ClearTimerKey(w) \/ StreamFull(w)
         \/ ScheduleTimerRow(w) \/ ScheduleTimerKey(w) \/ FireTimerRow(w) \/ FireTimerKey(w)
         \/ StoreError(w) \/ Enqueue(w) \/ ExecuteStep(w)
         \/ MarkStepRunning(w) \/ FinishInstance(w) \/ SaveResult(w)
  PROVE  \E to \in PcValues \ {"idle", "ack"} : pc' = [pc EXCEPT ![w] = to]
<1> USE DEF Reply, Goto, PcValues
<1>1. CASE EnsureWaitingTimer(w)
  BY <1>1 DEF EnsureWaitingTimer
<1>2. CASE OptimisticLock(w)
  BY <1>2 DEF OptimisticLock
<1>3. CASE AppendStepHistory(w)
  BY <1>3 DEF AppendStepHistory
<1>4. CASE CompleteStepHistory(w)
  BY <1>4 DEF CompleteStepHistory
<1>5. CASE ClearTimerRow(w)
  BY <1>5 DEF ClearTimerRow
<1>6. CASE ClearTimerKey(w)
  BY <1>6 DEF ClearTimerKey
<1>7. CASE StreamFull(w)
  BY <1>7 DEF StreamFull
<1>8. CASE ScheduleTimerRow(w)
  BY <1>8 DEF ScheduleTimerRow
<1>9. CASE ScheduleTimerKey(w)
  BY <1>9 DEF ScheduleTimerKey
<1>10. CASE FireTimerRow(w)
  BY <1>10 DEF FireTimerRow
<1>11. CASE FireTimerKey(w)
  BY <1>11 DEF FireTimerKey
<1>12. CASE StoreError(w)
  BY <1>12 DEF StoreError
<1>13. CASE Enqueue(w)
  BY <1>13 DEF Enqueue
<1>14. CASE ExecuteStep(w)
  BY <1>14 DEF ExecuteStep
<1>15. CASE MarkStepRunning(w)
  BY <1>15 DEF MarkStepRunning
<1>16. CASE FinishInstance(w)
  BY <1>16 DEF FinishInstance
<1>17. CASE SaveResult(w)
  BY <1>17, ResultTargets
<1> QED
  BY <1>1, <1>2, <1>3, <1>4, <1>5, <1>6, <1>7, <1>8, <1>9, <1>10, <1>11, <1>12, <1>13,
     <1>14, <1>15, <1>16, <1>17

\* What the steps of the workers do to the owners of the leases.
LEMMA WorkOwners ==
  ASSUME AInv, NEW w \in Workers,
         \/ EnsureWaitingTimer(w) \/ OptimisticLock(w) \/ AppendStepHistory(w)
         \/ CompleteStepHistory(w) \/ ClearTimerRow(w) \/ ClearTimerKey(w) \/ StreamFull(w)
         \/ ScheduleTimerRow(w) \/ ScheduleTimerKey(w) \/ FireTimerRow(w) \/ FireTimerKey(w)
         \/ StoreError(w) \/ Enqueue(w) \/ ExecuteStep(w)
         \/ MarkStepRunning(w) \/ FinishInstance(w) \/ SaveResult(w)
  PROVE  SameOwners /\ \A x \in Workers : job'[x].msg = job[x].msg
<1>1. CASE CallStep(w)
  BY <1>1 DEF CallStep, SameOwners
<1>2. CASE ResultStep(w)
  BY <1>2 DEF ResultStep, SameOwners, AInv, IInv, Shape, JobsOK, IsFun, IsJob
<1>3. CASE SaveStep(w)
  <2>1. PICK inst : Save(w, inst)
    BY <1>3 DEF SaveStep
  <2>2. Shape /\ pc[w] \notin {"idle", "ack"}
    BY <1>3 DEF SaveStep, Moves, AInv, IInv
  <2>3. /\ \A i \in Instances \ {Id(w)} : rows'[i] = rows[i]
        /\ rows'[Id(w)] = [inst |-> inst, version |-> rows[Id(w)].version + 1,
                           lockedBy |-> rows[Id(w)].lockedBy, live |-> rows[Id(w)].live]
        /\ \A x \in Workers \ {w} : job'[x] = job[x]
        /\ job'[w] = [msg |-> job[w].msg, inst |-> inst, version |-> job[w].version + 1, out |-> job[w].out]
    BY <2>1, <2>2, SaveEffect
  <2> QED
    BY <2>3 DEF SameOwners
<1> QED
  BY <1>1, <1>2, <1>3, CallActions, EnqueueAction, ExecuteAction, SaveActions

LEMMA LeaveOwners ==
  ASSUME AInv, LeaseOK, NEW w \in Workers,
         Release(w) \/ ReleaseError(w) \/ Ack(w) \/ AckError(w) \/ Crash(w)
  PROVE  \A i \in Instances : IF rows[i].lockedBy = w THEN rows'[i].lockedBy \in {Nobody, Orphan}
                              ELSE rows'[i].lockedBy = rows[i].lockedBy
<1> SUFFICES ASSUME NEW i \in Instances
             PROVE  IF rows[i].lockedBy = w THEN rows'[i].lockedBy \in {Nobody, Orphan}
                    ELSE rows'[i].lockedBy = rows[i].lockedBy
  OBVIOUS
<1>0. /\ IsFun(rows, Instances) /\ IsRow(rows[i])
      /\ Nobody # w /\ Orphan # w
  BY WorkersAssumption DEF AInv, IInv, Shape, RowsOK
<1>1. CASE Release(w)
  <2>1. ReleaseInstance(Id(w), w)
    BY <1>1 DEF Release
  <2>2. rows[i].lockedBy = w => Id(w) = i
    BY DEF LeaseOK
  <2>3. CASE rows[Id(w)].lockedBy = w
    <3>1. rows' = [rows EXCEPT ![Id(w)].lockedBy = Nobody, ![Id(w)].live = FALSE]
      BY <2>1, <2>3 DEF ReleaseInstance
    <3>2. i # Id(w) => rows'[i] = rows[i]
      BY <1>0, <3>1 DEF IsFun
    <3>3. i = Id(w) => rows'[i].lockedBy = Nobody
      BY <1>0, <3>1 DEF IsFun, IsRow
    <3> QED
      BY <1>0, <2>2, <2>3, <3>2, <3>3
  <2>4. CASE rows[Id(w)].lockedBy # w
    BY <2>1, <2>2, <2>4 DEF ReleaseInstance
  <2> QED
    BY <2>3, <2>4
<1>2. CASE ReleaseError(w) \/ Crash(w)
  <2>1. rows' = Abandoned(w)
    BY <1>2 DEF ReleaseError, Crash
  <2>2. CASE rows[i].lockedBy = w
    <3>1. rows'[i] = [rows[i] EXCEPT !.lockedBy = Orphan]
      BY <2>1, <2>2 DEF Abandoned
    <3> QED
      BY <1>0, <2>2, <3>1 DEF IsRow
  <2>3. CASE rows[i].lockedBy # w
    BY <2>1, <2>3 DEF Abandoned
  <2> QED
    BY <2>2, <2>3
<1>3. CASE Ack(w) \/ AckError(w)
  <2>1. UNCHANGED rows /\ pc[w] = "ack"
    BY <1>3 DEF Ack, AckError, dbVars
  <2> QED
    BY <2>1 DEF LeaseOK
<1> QED
  BY <1>1, <1>2, <1>3

\* A claim is granted on a lease that has run out, or that nobody uses.
LEMMA ClaimOwners ==
  ASSUME AInv, NEW i \in Instances, NEW owner, ClaimInstance(i, owner)
  PROVE  /\ ~ rows[i].live \/ rows[i].lockedBy = Orphan
         /\ rows'[i].lockedBy = owner
         /\ \A j \in Instances \ {i} : rows'[j] = rows[j]
<1>1. IsFun(rows, Instances) /\ IsRow(rows[i])
  BY DEF AInv, IInv, Shape, RowsOK
<1>2. rows' = [rows EXCEPT ![i].lockedBy = owner, ![i].live = TRUE]
  BY DEF ClaimInstance
<1>3. \A j \in Instances \ {i} : rows'[j] = rows[j]
  BY <1>1, <1>2 DEF IsFun
<1>4. rows'[i].lockedBy = owner
  BY <1>1, <1>2 DEF IsFun, IsRow
<1> QED
  BY <1>3, <1>4 DEF ClaimInstance, Claimable

\* The API, the recovery loop, the agents and the clock give no lease away.
LEMMA EnvironmentOwners ==
  ASSUME AInv, Environment \/ \E i \in Instances : ApiCreate(i)
  PROVE  SameOwners /\ UNCHANGED <<pc, job>>
<1> USE DEF dbVars, timerVars, engineVars
<1>0. IsFun(rows, Instances) /\ \A i \in Instances : IsRow(rows[i])
  BY DEF AInv, IInv, Shape, RowsOK
<1>1. ASSUME NEW i \in Instances, ApiCreate(i) PROVE SameOwners /\ UNCHANGED <<pc, job>>
  <2>1. rows' = [rows EXCEPT ![i].inst = NewRuntimeState("pending"), ![i].version = 1]
    BY <1>1 DEF ApiCreate, CreateInstance
  <2>2. \A j \in Instances \ {i} : rows'[j] = rows[j]
    BY <1>0, <2>1 DEF IsFun
  <2>3. rows'[i].lockedBy = rows[i].lockedBy
    BY <1>0, <2>1 DEF IsFun, IsRow
  <2> QED
    BY <1>1, <2>2, <2>3 DEF ApiCreate, SameOwners
<1>2. CASE Environment
  <2>1. UNCHANGED <<pc, job>>
    BY <1>2, EnvironmentRows DEF AInv, IInv, Shape
  <2>2. UNCHANGED rows \/ \E i \in Instances : LeaseExpires(i)
    BY <1>2 DEF Environment, ApiEnqueue, ApiFails, KeyExpiry, KeyExpires, Elapse, OrphanExpires,
         HolderExpires, AgentStep, AgentError, Poll, Notified, AgentClearKey, AgentEnqueue,
         AgentFails, RecoverList, RecoverEnqueue, RecoverFails, vars
  <2>3. ASSUME NEW i \in Instances, LeaseExpires(i) PROVE SameOwners
    <3>1. rows' = [rows EXCEPT ![i].live = FALSE]
      BY <2>3 DEF LeaseExpires
    <3>2. \A j \in Instances \ {i} : rows'[j] = rows[j]
      BY <1>0, <3>1 DEF IsFun
    <3>3. rows'[i].lockedBy = rows[i].lockedBy
      BY <1>0, <3>1 DEF IsFun, IsRow
    <3> QED
      BY <3>2, <3>3 DEF SameOwners
  <2> QED
    BY <2>1, <2>2, <2>3 DEF SameOwners
<1> QED
  BY <1>1, <1>2

LEMMA StepLease ==
  ASSUME AInv, LeaseOK, [Next]_vars PROVE LeaseOK' /\ Handover
<1>0. JobsOK /\ IsFun(pc, Workers) /\ IsFun(job, Workers)
  BY DEF AInv, IInv, Shape, JobsOK
<1>1. ASSUME Environment \/ \E i \in Instances : ApiCreate(i) PROVE LeaseOK' /\ Handover
  BY <1>1, EnvironmentOwners DEF LeaseOK, Handover, SameOwners, Id
<1>2. ASSUME NEW w \in Workers, Consume(w) \/ ReclaimPending(w) PROVE LeaseOK' /\ Handover
  BY <1>2 DEF Consume, ReclaimPending, dbVars, engineVars, LeaseOK, Handover, Id
<1>3. ASSUME NEW w \in Workers,
             \/ EnsureWaitingTimer(w) \/ OptimisticLock(w) \/ AppendStepHistory(w)
             \/ CompleteStepHistory(w) \/ ClearTimerRow(w) \/ ClearTimerKey(w) \/ StreamFull(w)
             \/ ScheduleTimerRow(w) \/ ScheduleTimerKey(w) \/ FireTimerRow(w) \/ FireTimerKey(w)
             \/ StoreError(w) \/ Enqueue(w) \/ ExecuteStep(w)
             \/ MarkStepRunning(w) \/ FinishInstance(w) \/ SaveResult(w)
      PROVE  LeaseOK' /\ Handover
  <2>1. PICK to \in PcValues \ {"idle", "ack"} : pc' = [pc EXCEPT ![w] = to]
    BY <1>3, StaysAtWork
  <2>2. \A x \in Workers : pc[x] \notin {"idle", "ack"} => pc'[x] \notin {"idle", "ack"}
    BY <1>0, <2>1 DEF IsFun
  <2>3. SameOwners /\ \A x \in Workers : job'[x].msg = job[x].msg
    BY <1>3, WorkOwners
  <2> QED
    BY <2>2, <2>3 DEF LeaseOK, Handover, SameOwners, Id
<1>4. ASSUME NEW w \in Workers, Release(w) \/ ReleaseError(w) \/ Ack(w) \/ AckError(w) \/ Crash(w)
      PROVE  LeaseOK' /\ Handover
  <2>1. \A i \in Instances : IF rows[i].lockedBy = w THEN rows'[i].lockedBy \in {Nobody, Orphan}
                            ELSE rows'[i].lockedBy = rows[i].lockedBy
    BY <1>4, LeaveOwners
  <2>2. \A x \in Workers \ {w} : pc'[x] = pc[x] /\ job'[x] = job[x]
    <3>1. \/ Goto(w, "ack") /\ UNCHANGED job
          \/ pc' = [pc EXCEPT ![w] = "idle"] /\ job' = [job EXCEPT ![w] = NoJob]
      BY <1>4 DEF Release, ReleaseError, Ack, AckError, Crash, NextMessage
    <3> QED
      BY <1>0, <3>1 DEF Goto, IsFun
  <2>3. LeaseOK'
    BY <2>1, <2>2, WorkersAssumption DEF LeaseOK, Id
  <2>4. pc[w] \notin {"idle", "ack"} => pc'[w] # pc[w]
    <3>1. pc' = [pc EXCEPT ![w] = "ack"] \/ pc' = [pc EXCEPT ![w] = "idle"]
      BY <1>4 DEF Release, ReleaseError, Ack, AckError, Crash, Goto, NextMessage
    <3> QED
      BY <1>0, <3>1 DEF IsFun
  <2> QED
    BY <2>1, <2>3, <2>4 DEF LeaseOK, Handover
<1>5. ASSUME NEW w \in Workers, Claim(w) PROVE LeaseOK' /\ Handover
  <2>1. PICK m \in batch[w] :
          /\ ClaimInstance(m.inst, w)
          /\ job' = [job EXCEPT ![w] = [NoJob EXCEPT !.msg = m, !.inst = rows[m.inst].inst,
                                                    !.version = rows[m.inst].version]]
          /\ pc' = [pc EXCEPT ![w] = "advance"]
    BY <1>5 DEF Claim, Goto
  <2>2. m.inst \in Instances /\ pc[w] = "idle"
    BY <1>5 DEF Claim, AInv, IInv, Shape, MessagesOK, StreamTypeOK
  <2>3. /\ pc'[w] = "advance" /\ job'[w].msg = m
        /\ \A x \in Workers \ {w} : pc'[x] = pc[x] /\ job'[x] = job[x]
    BY <1>0, <2>1 DEF NoJob, IsFun
  <2>4. /\ ~ rows[m.inst].live \/ rows[m.inst].lockedBy = Orphan
        /\ rows'[m.inst].lockedBy = w
        /\ \A j \in Instances \ {m.inst} : rows'[j] = rows[j]
    BY <2>1, <2>2, ClaimOwners
  <2>5. LeaseOK'
    BY <2>2, <2>3, <2>4 DEF LeaseOK, Id
  <2> QED
    BY <2>4, <2>5, WorkersAssumption DEF Handover
<1>6. ASSUME NEW w \in Workers, ClaimError(w) PROVE LeaseOK' /\ Handover
  <2>1. PICK m \in batch[w] : UNCHANGED rows \/ ClaimInstance(m.inst, Orphan)
    BY <1>6 DEF ClaimError
  <2>2. m.inst \in Instances /\ UNCHANGED <<pc, job>>
    BY <1>6 DEF ClaimError, AInv, IInv, Shape, MessagesOK, StreamTypeOK
  <2>3. CASE UNCHANGED rows
    BY <2>2, <2>3 DEF LeaseOK, Handover, Id
  <2>4. CASE ClaimInstance(m.inst, Orphan)
    <3>1. /\ ~ rows[m.inst].live \/ rows[m.inst].lockedBy = Orphan
          /\ rows'[m.inst].lockedBy = Orphan
          /\ \A j \in Instances \ {m.inst} : rows'[j] = rows[j]
      BY <2>2, <2>4, ClaimOwners
    <3> QED
      BY <2>2, <3>1, WorkersAssumption DEF LeaseOK, Handover, Id
  <2> QED
    BY <2>1, <2>3, <2>4
<1>7. ASSUME NEW w \in Workers, ClaimBusy(w) PROVE LeaseOK' /\ Handover
  <2>1. UNCHANGED rows /\ pc[w] = "idle"
    BY <1>7 DEF ClaimBusy, dbVars
  <2>2. \A x \in Workers \ {w} : pc'[x] = pc[x] /\ job'[x] = job[x]
    BY <1>0, <1>7 DEF ClaimBusy, Goto, IsFun
  <2> QED
    BY <2>1, <2>2 DEF LeaseOK, Handover, Id
<1> QED
  BY <1>1, <1>2, <1>3, <1>4, <1>5, <1>6, <1>7 DEF Next, WorkerStep, WorkerFault, Done, Environment

\* For every definition, and any number of workers and faults: a worker that has lost its
\* lease does not release that of its successor.
THEOREM LeasesAreRespected == Spec => LeaseRespected
<1>1. Init => LeaseOK
  BY WorkersAssumption DEF Init, DBInit, LeaseOK
<1>2. AInv /\ LeaseOK /\ [Next]_vars => LeaseOK' /\ Handover
  BY StepLease
<1>3. Spec => [](AInv /\ LeaseOK)
  BY <1>1, <1>2, InitAInv, StepAInv, PTL DEF Spec
<1> QED
  BY <1>2, <1>3, PTL DEF Spec, LeaseRespected, Handover

-----------------------------------------------------------------------------
(* Idempotency keys *)

RowKey(i, s) == rows[i].inst.steps[s].key
CurKey(w) == job[w].inst.steps[Cur(w)].key

\* The stored keys were handed out, and no two steps have the same; a step that is being
\* executed or was executed has its key in the row.
KeysOK ==
  /\ keySeq \in Nat
  /\ \A i \in Instances : \A s \in StepIds : RowKey(i, s) \in Nat /\ RowKey(i, s) <= keySeq
  /\ \A i, j \in Instances : \A s, t \in StepIds :
       RowKey(i, s) = RowKey(j, t) /\ RowKey(i, s) # 0 => i = j /\ s = t
  /\ \A w \in Workers : pc[w] \in Marked => CurKey(w) = RowKey(Id(w), Cur(w)) /\ CurKey(w) # 0
  /\ \A e \in effects : e.key = RowKey(e.inst, e.step) /\ e.key # 0

\* Keys are handed out by markStepRunning only.
LEMMA KeySeqKept ==
  ASSUME [Next]_vars, ~ \E w \in Workers : MarkStepRunning(w) PROVE UNCHANGED keySeq
<1> USE DEF engineVars
<1>1. ASSUME NEW w \in Workers, Consume(w) \/ ReclaimPending(w) PROVE UNCHANGED keySeq
  BY <1>1 DEF Consume, ReclaimPending
<1>2. ASSUME NEW w \in Workers, WorkerStep(w) PROVE UNCHANGED keySeq
  BY <1>2 DEF WorkerStep, Claim, ClaimBusy, EnsureWaitingTimer, FinishInstance, OptimisticLock,
     AppendStepHistory, ExecuteStep, CompleteStepHistory, ClearTimerRow, ClearTimerKey, SaveResult,
     Enqueue, StreamFull, ScheduleTimerRow, ScheduleTimerKey, FireTimerRow, FireTimerKey, Release, Ack
<1>3. ASSUME NEW w \in Workers, WorkerFault(w) PROVE UNCHANGED keySeq
  BY <1>3 DEF WorkerFault, ClaimError, StoreError, ReleaseError, AckError, Crash
<1>4. ASSUME Environment \/ \E i \in Instances : ApiCreate(i) PROVE UNCHANGED keySeq
  BY <1>4 DEF Environment, ApiCreate, ApiEnqueue, ApiFails, KeyExpiry, Elapse, OrphanExpires,
     HolderExpires, AgentStep, AgentError, RecoverList, RecoverEnqueue, RecoverFails, vars
<1> QED
  BY <1>1, <1>2, <1>3, <1>4 DEF Next, Done, Environment

\* Steps that hand out no key, store none, and execute nothing.
LEMMA KeysKept ==
  ASSUME AInv, KeysOK, UNCHANGED <<keySeq, effects>>, SameMarked,
         \A i \in Instances : \A s \in StepIds : RowKey(i, s)' = RowKey(i, s)
  PROVE  KeysOK'
<1>1. \A w \in Workers : pc'[w] \in Marked => CurKey(w)' = RowKey(Id(w), Cur(w))' /\ CurKey(w)' # 0
  <2> SUFFICES ASSUME NEW w \in Workers, pc'[w] \in Marked
               PROVE  CurKey(w)' = RowKey(Id(w), Cur(w))' /\ CurKey(w)' # 0
    OBVIOUS
  <2>1. /\ pc[w] \in Marked /\ CurKey(w)' = CurKey(w) /\ Id(w)' = Id(w) /\ Cur(w)' = Cur(w)
        /\ CurKey(w) = RowKey(Id(w), Cur(w)) /\ CurKey(w) # 0
    BY DEF SameMarked, KeysOK, CurKey, Id, Cur
  <2>2. PICK i \in Instances, s \in StepIds : i = Id(w) /\ s = Cur(w)
    BY <2>1, AttemptTypes
  <2>3. RowKey(i, s)' = RowKey(i, s)
    OBVIOUS
  <2> QED
    BY <2>1, <2>2, <2>3 DEF RowKey
<1>2. \A e \in effects' : e.key = RowKey(e.inst, e.step)' /\ e.key # 0
  BY DEF KeysOK, AInv, AttemptsOK
<1>3. /\ \A i \in Instances : \A s \in StepIds : RowKey(i, s)' \in Nat /\ RowKey(i, s)' <= keySeq'
      /\ keySeq' \in Nat
  BY DEF KeysOK
<1>4. \A i, j \in Instances : \A s, t \in StepIds :
        RowKey(i, s)' = RowKey(j, t)' /\ RowKey(i, s)' # 0 => i = j /\ s = t
  BY DEF KeysOK
<1> QED
  BY <1>1, <1>2, <1>3, <1>4 DEF KeysOK

\* What a result is stored over keeps its keys.
LEMMA SaveKeys ==
  ASSUME AInv, KeysOK, NEW w \in Workers, FinishInstance(w) \/ SaveResult(w), UNCHANGED keySeq
  PROVE  KeysOK'
<1>1. PICK inst : /\ Save(w, inst) /\ pc[w] \in Advancing
                  /\ \/ FinishInstance(w) /\ inst = FinishWithoutStep(job[w].inst)
                     \/ SaveResult(w) /\ inst = HandleResult(job[w].inst, job[w].out)
  BY DEF FinishInstance, SaveResult, Advancing, Marked, Resulted
<1>2. /\ Id(w) \in Instances /\ rows[Id(w)].inst = job[w].inst /\ rows'[Id(w)].inst = inst
      /\ \A i \in Instances \ {Id(w)} : rows'[i] = rows[i]
      /\ \A x \in Workers \ {w} : job'[x] = job[x]
      /\ IsContent(job[w].inst)
  BY <1>1, SaveFacts
<1>3. SameMarks(job[w].inst, inst)
  <2>1. CASE FinishInstance(w)
    <3>1. inst = FinishWithoutStep(job[w].inst)
      BY <1>1, <2>1 DEF FinishInstance, SaveResult
    <3>2. inst.steps = job[w].inst.steps
      BY <1>2, <3>1, FinishWithoutStepContent
    <3> QED
      BY <3>2 DEF SameMarks
  <2>2. CASE SaveResult(w)
    <3>1. /\ Cur(w) \in StepIds /\ job[w].out.kind \in {"success", "waiting", "error"}
          /\ inst = HandleResult(job[w].inst, job[w].out)
      BY <1>1, <2>2 DEF SaveResult, FinishInstance, AInv, ContentOK, Marked, Resulted
    <3> QED
      BY <1>2, <3>1, ResultContent DEF Cur
  <2> QED
    BY <2>1, <2>2
<1>4. \A i \in Instances : \A s \in StepIds : RowKey(i, s)' = RowKey(i, s)
  BY <1>2, <1>3 DEF RowKey, SameMarks
<1>5. PICK to \in {"enqueue", "schedule", "release", "abort"} : pc' = [pc EXCEPT ![w] = to]
  <2>1. CASE FinishInstance(w)
    BY <2>1 DEF FinishInstance, Reply, Goto
  <2>2. CASE SaveResult(w)
    BY <2>2, ResultTargets
  <2> QED
    BY <2>1, <2>2
<1>6. pc'[w] \notin Marked /\ \A x \in Workers \ {w} : pc'[x] = pc[x]
  BY <1>5 DEF AInv, IInv, Shape, JobsOK, IsFun, Marked, Resulted
<1>7. SameMarked
  BY <1>2, <1>6 DEF SameMarked, Marked
<1> QED
  BY <1>4, <1>7, KeysKept DEF FinishInstance, SaveResult

\* A step that has no key gets one that nobody has.
LEMMA MarkKeys ==
  ASSUME AInv, KeysOK, NEW w \in Workers, MarkStepRunning(w) PROVE KeysOK'
<1>1. PICK inst : inst = StartStep(job[w].inst, keySeq + 1)
  OBVIOUS
<1>2. /\ pc[w] = "advance" /\ Save(w, inst) /\ UNCHANGED effects /\ StepToRun(job[w].inst).next \in StepIds
      /\ keySeq' = IF DrawsKey(job[w].inst) THEN keySeq + 1 ELSE keySeq
  BY <1>1 DEF MarkStepRunning
<1>3. PICK to \in {"append", "abort"} : pc' = [pc EXCEPT ![w] = to]
  BY DEF MarkStepRunning, Reply, Goto
<1>4. pc'[w] = to /\ \A x \in Workers \ {w} : pc'[x] = pc[x]
  BY <1>3 DEF AInv, IInv, Shape, JobsOK, IsFun
<1>5. /\ Id(w) \in Instances /\ rows[Id(w)].inst = job[w].inst /\ rows'[Id(w)].inst = inst
      /\ \A i \in Instances \ {Id(w)} : rows'[i] = rows[i]
      /\ job'[w].inst = inst /\ job'[w].msg = job[w].msg
      /\ \A x \in Workers \ {w} : job'[x] = job[x]
      /\ IsContent(job[w].inst)
  BY <1>2, SaveFacts DEF Advancing
<1>6. /\ inst.cur = StepToRun(job[w].inst).next
      /\ inst.steps[inst.cur].key = KeyFor(job[w].inst.steps[inst.cur], keySeq + 1)
      /\ \A s \in StepIds \ {inst.cur} : inst.steps[s] = job[w].inst.steps[s]
  BY <1>1, <1>2, <1>5, StartContent DEF SameOthers
<1>7. PICK i \in Instances, c \in StepIds : i = Id(w) /\ c = inst.cur
  BY <1>2, <1>5, <1>6
<1>8. RowKey(i, c)' = KeyFor(job[w].inst.steps[c], keySeq + 1) /\ RowKey(i, c) = job[w].inst.steps[c].key
  BY <1>5, <1>6, <1>7 DEF RowKey
<1>9. \A j \in Instances : \A s \in StepIds : j # i \/ s # c => RowKey(j, s)' = RowKey(j, s)
  BY <1>5, <1>6, <1>7 DEF RowKey
<1>10. IF RowKey(i, c) = 0 THEN RowKey(i, c)' = keySeq + 1 /\ keySeq' = keySeq + 1
                           ELSE RowKey(i, c)' = RowKey(i, c) /\ keySeq' = keySeq
  BY <1>2, <1>6, <1>7, <1>8 DEF KeyFor, DrawsKey
<1>11. /\ \A j \in Instances : \A s \in StepIds : RowKey(j, s) \in Nat /\ RowKey(j, s) <= keySeq
       /\ keySeq \in Nat
  BY DEF KeysOK
<1>12. /\ \A j \in Instances : \A s \in StepIds : RowKey(j, s)' \in Nat /\ RowKey(j, s)' <= keySeq'
       /\ keySeq' \in Nat
  BY <1>9, <1>10, <1>11
<1>13. \A j, k \in Instances : \A s, t \in StepIds :
         RowKey(j, s)' = RowKey(k, t)' /\ RowKey(j, s)' # 0 => j = k /\ s = t
  <2>1. \A j \in Instances : \A s \in StepIds :
          RowKey(i, c) = 0 /\ RowKey(j, s)' = keySeq + 1 => j = i /\ s = c
    BY <1>9, <1>11
  <2>2. \A j, k \in Instances : \A s, t \in StepIds :
          RowKey(j, s) = RowKey(k, t) /\ RowKey(j, s) # 0 => j = k /\ s = t
    BY DEF KeysOK
  <2> QED
    BY <1>9, <1>10, <2>1, <2>2
<1>14. \A j \in Instances : \A s \in StepIds : RowKey(j, s) # 0 => RowKey(j, s)' = RowKey(j, s)
  BY <1>9, <1>10
<1>15. (\A x \in Workers : pc[x] \in Marked => CurKey(x) = RowKey(Id(x), Cur(x)) /\ CurKey(x) # 0)'
  <2> SUFFICES ASSUME NEW x \in Workers, pc'[x] \in Marked
               PROVE  (CurKey(x) = RowKey(Id(x), Cur(x)) /\ CurKey(x) # 0)'
    OBVIOUS
  <2>1. CASE x = w
    <3>1. Id(w)' = i /\ Cur(w)' = c /\ CurKey(w)' = inst.steps[c].key
      BY <1>5, <1>7 DEF Id, Cur, CurKey
    <3>2. RowKey(i, c)' = inst.steps[c].key
      BY <1>6, <1>7, <1>8
    <3>3. RowKey(i, c)' # 0
      BY <1>10, <1>11
    <3> QED
      BY <2>1, <3>1, <3>2, <3>3 DEF RowKey
  <2>2. CASE x # w
    <3>1. /\ pc[x] \in Marked /\ CurKey(x)' = CurKey(x) /\ Id(x)' = Id(x) /\ Cur(x)' = Cur(x)
          /\ CurKey(x) = RowKey(Id(x), Cur(x)) /\ CurKey(x) # 0
      BY <1>4, <1>5, <2>2 DEF KeysOK, CurKey, Id, Cur
    <3>2. PICK j \in Instances, s \in StepIds : j = Id(x) /\ s = Cur(x)
      BY <3>1, AttemptTypes
    <3>3. RowKey(j, s)' = RowKey(j, s)
      BY <1>14, <3>1, <3>2
    <3> QED
      BY <3>1, <3>2, <3>3 DEF RowKey
  <2> QED
    BY <2>1, <2>2
<1>16. \A e \in effects' : e.key = RowKey(e.inst, e.step)' /\ e.key # 0
  <2> SUFFICES ASSUME NEW e \in effects PROVE e.key = RowKey(e.inst, e.step)' /\ e.key # 0
    BY <1>2
  <2>1. e.inst \in Instances /\ e.step \in StepIds /\ e.key = RowKey(e.inst, e.step) /\ e.key # 0
    BY DEF KeysOK, AInv, AttemptsOK
  <2> QED
    BY <1>14, <2>1
<1> QED
  BY <1>12, <1>13, <1>15, <1>16 DEF KeysOK

\* The executed step shows the key of its row.
LEMMA ExecuteKeys ==
  ASSUME AInv, KeysOK, NEW w \in Workers, ExecuteStep(w), UNCHANGED keySeq PROVE KeysOK'
<1>1. PICK out \in Execute(job[w].inst, past[Id(w)]) : job' = [job EXCEPT ![w].out = out]
  BY DEF ExecuteStep
<1>2. PICK e : /\ e.inst = Id(w) /\ e.step = Cur(w) /\ e.key = CurKey(w)
               /\ effects' = effects \cup {e}
  <2>1. PICK f : f = [inst |-> Id(w), step |-> Cur(w), attempt |-> Attempt(w),
                      key |-> job[w].inst.steps[Cur(w)].key, by |-> w]
    OBVIOUS
  <2>2. f.inst = Id(w) /\ f.step = Cur(w) /\ f.key = CurKey(w) /\ effects' = effects \cup {f}
    BY <2>1 DEF ExecuteStep, CurKey
  <2> QED
    BY <2>2
<1>3. pc[w] = "execute" /\ pc'[w] = "complete" /\ \A x \in Workers \ {w} : pc'[x] = pc[x]
  BY DEF ExecuteStep, Goto, AInv, IInv, Shape, JobsOK, IsFun
<1>4. \A x \in Workers : job'[x].msg = job[x].msg /\ job'[x].inst = job[x].inst
  BY <1>1 DEF AInv, IInv, Shape, JobsOK, IsFun, IsJob
<1>5. UNCHANGED rows
  BY DEF ExecuteStep, dbVars
<1>6. \A x \in Workers : pc'[x] \in Marked =>
        pc[x] \in Marked /\ CurKey(x)' = RowKey(Id(x), Cur(x))' /\ CurKey(x)' # 0
  BY <1>3, <1>4, <1>5 DEF KeysOK, CurKey, RowKey, Id, Cur, Marked, Resulted
<1>7. \A f \in effects' : f.key = RowKey(f.inst, f.step)' /\ f.key # 0
  BY <1>2, <1>3, <1>5 DEF KeysOK, RowKey, Marked
<1> QED
  BY <1>5, <1>6, <1>7 DEF KeysOK, RowKey

LEMMA StepKeys ==
  ASSUME AInv, KeysOK, [Next]_vars PROVE KeysOK'
<1>1. ASSUME NEW w \in Workers, MarkStepRunning(w) PROVE KeysOK'
  BY <1>1, MarkKeys
<1>2. CASE ~ \E w \in Workers : MarkStepRunning(w)
  <2>0. UNCHANGED keySeq
    BY <1>2, KeySeqKept
  <2>1. ASSUME SameRows, SameMarked, UNCHANGED effects PROVE KeysOK'
    BY <2>0, <2>1, KeysKept DEF SameRows, RowKey
  <2>2. ASSUME NEW w \in Workers, Claim(w), SameRows PROVE KeysOK'
    <3>1. pc'[w] = "advance" /\ \A x \in Workers \ {w} : pc'[x] = pc[x] /\ job'[x] = job[x]
      BY <2>2 DEF Claim, Goto, AInv, IInv, Shape, JobsOK, IsFun
    <3>2. SameMarked
      BY <3>1 DEF SameMarked, Marked, Resulted
    <3> QED
      BY <2>1, <2>2, <3>2 DEF Claim
  <2>3. ASSUME NEW w \in Workers, ExecuteStep(w) PROVE KeysOK'
    BY <2>0, <2>3, ExecuteKeys
  <2>4. ASSUME NEW w \in Workers, FinishInstance(w) \/ SaveResult(w) PROVE KeysOK'
    BY <2>0, <2>4, SaveKeys
  <2>5. ASSUME NEW i \in Instances, ApiCreate(i) PROVE KeysOK'
    <3>1. \A j \in Instances : \A s \in StepIds : RowKey(j, s)' = RowKey(j, s)
      <4>1. IsFun(rows, Instances) /\ IsRow(rows[i]) /\ rows[i].version = 0
        BY <2>5 DEF AInv, IInv, Shape, RowsOK, ApiCreate, CreateInstance, Exists
      <4>2. rows' = [rows EXCEPT ![i].inst = NewRuntimeState("pending"), ![i].version = 1]
        BY <2>5 DEF ApiCreate, CreateInstance
      <4>3. \A j \in Instances \ {i} : rows'[j] = rows[j]
        BY <4>1, <4>2 DEF IsFun
      <4>4. rows'[i].inst = NewRuntimeState("pending") /\ rows[i].inst = NewRuntimeState("absent")
        BY <4>1, <4>2 DEF IsFun, IsRow, AInv, ContentOK, Absent
      <4>5. \A s \in StepIds : rows'[i].inst.steps[s] = rows[i].inst.steps[s]
        BY <4>4 DEF NewRuntimeState
      <4> QED
        BY <4>3, <4>5 DEF RowKey
    <3> QED
      BY <2>0, <2>5, <3>1, KeysKept DEF ApiCreate, SameMarked
  <2> QED
    BY <1>2, <2>1, <2>2, <2>3, <2>4, <2>5, StepKinds DEF SameWork
<1> QED
  BY <1>1, <1>2

\* For every definition, and any number of workers and faults: every execution of a step
\* shows the same idempotency key, which no other step and no other instance shows.
THEOREM KeysIdentifySteps == Spec => []OneKeyPerStep
<1>1. Init => KeysOK
  <2> SUFFICES ASSUME Init PROVE KeysOK
    OBVIOUS
  <2>1. \A i \in Instances : \A s \in StepIds : RowKey(i, s) = 0
    BY DEF Init, DBInit, Absent, NewRuntimeState, NoState, RowKey
  <2>2. keySeq = 0 /\ effects = {} /\ \A w \in Workers : pc[w] = "idle"
    BY DEF Init
  <2> QED
    BY <2>1, <2>2 DEF KeysOK, Marked, Resulted
<1>2. AInv /\ KeysOK /\ [Next]_vars => KeysOK'
  BY StepKeys
<1>3. Spec => [](AInv /\ KeysOK)
  BY <1>1, <1>2, InitAInv, StepAInv, PTL DEF Spec
<1>4. AInv /\ KeysOK => OneKeyPerStep
  BY DEF AInv, AttemptsOK, KeysOK, OneKeyPerStep
<1> QED
  BY <1>3, <1>4, PTL

-----------------------------------------------------------------------------
(* The history *)

\* The history has the result that completed step s.
Recorded(i, s) == \E h \in history : h.inst = i /\ h.step = s /\ h.status \in {"success", "compensated"}

\* The calls between the one that completes the history and the one that stores the result.
AfterHistory == {"clearRow", "clearKey", "update"}

\* A worker that is about to store a success has written it to the history.
HistoryOK ==
  /\ \A i \in Instances : \A s \in StepIds : HasCompleted(rows[i].inst, s) => Recorded(i, s)
  /\ \A w \in Workers :
       pc[w] \in AfterHistory /\ job[w].out.kind = "success" => Recorded(Id(w), Cur(w))

\* A result is never taken out of the history again: completing a row replaces one that is running.
LEMMA RecordedKept ==
  ASSUME [Next]_vars, NEW i, NEW s, Recorded(i, s) PROVE Recorded(i, s)'
<1>1. CASE UNCHANGED history
  BY <1>1 DEF Recorded
<1>2. ASSUME NEW w \in Workers, AppendStepHistory(w) PROVE Recorded(i, s)'
  <2>1. history \subseteq history'
    BY <1>2 DEF AppendStepHistory, AppendHistory
  <2> QED
    BY <2>1 DEF Recorded
<1>3. ASSUME NEW w \in Workers, CompleteStepHistory(w) PROVE Recorded(i, s)'
  <2>1. PICK row : row.status = "running" /\ history \ {row} \subseteq history'
    <3>1. PICK r : r = [inst |-> Id(w), step |-> Cur(w), attempt |-> Attempt(w), status |-> "running"]
      OBVIOUS
    <3>2. r.status = "running" /\ history' = (history \ {r}) \cup {[r EXCEPT !.status = HistoryStatus(w)]}
      BY <1>3, <3>1 DEF CompleteStepHistory, CompleteHistory
    <3> QED
      BY <3>2
  <2>2. PICK h \in history : h.inst = i /\ h.step = s /\ h.status \in {"success", "compensated"}
    BY DEF Recorded
  <2>3. h \in history'
    BY <2>1, <2>2
  <2> QED
    BY <2>2, <2>3 DEF Recorded
<1>4. ASSUME NEW w \in Workers, WorkerStep(w)
      PROVE  UNCHANGED history \/ AppendStepHistory(w) \/ CompleteStepHistory(w)
  BY <1>4 DEF WorkerStep, Claim, ClaimBusy, EnsureWaitingTimer, MarkStepRunning, FinishInstance,
     OptimisticLock, ExecuteStep, ClearTimerRow, ClearTimerKey, SaveResult, Enqueue, StreamFull,
     ScheduleTimerRow, ScheduleTimerKey, FireTimerRow, FireTimerKey, Release, Ack, dbVars
<1>5. ASSUME NEW w \in Workers, Consume(w) \/ ReclaimPending(w) \/ WorkerFault(w) PROVE UNCHANGED history
  BY <1>5 DEF Consume, ReclaimPending, WorkerFault, ClaimError, StoreError, ReleaseError, AckError,
     Crash, dbVars
<1>6. ASSUME Environment \/ \E j \in Instances : ApiCreate(j) PROVE UNCHANGED history
  BY <1>6 DEF Environment, ApiCreate, ApiEnqueue, ApiFails, KeyExpiry, KeyExpires, Elapse, OrphanExpires,
     HolderExpires, AgentStep, AgentError, Poll, Notified, AgentClearKey, AgentEnqueue, AgentFails,
     RecoverList, RecoverEnqueue, RecoverFails, vars, dbVars
<1> QED
  BY <1>1, <1>2, <1>3, <1>4, <1>5, <1>6 DEF Next, Done, Environment

\* The way to the calls after the history.
LEMMA AfterHistoryFrom ==
  ASSUME AInv, [Next]_vars, NEW w \in Workers, pc'[w] \in AfterHistory
  PROVE  (pc[w] \in AfterHistory /\ job'[w] = job[w]) \/ CompleteStepHistory(w)
<1> DEFINE Before == pc[w] \in AfterHistory /\ job'[w] = job[w]
<1>0. IsFun(pc, Workers) /\ IsFun(job, Workers)
  BY DEF AInv, IInv, Shape, JobsOK
<1>1. CASE UNCHANGED <<pc, job>>
  BY <1>1
<1>2. ASSUME NEW x \in Workers,
             \/ EnsureWaitingTimer(x) \/ OptimisticLock(x) \/ AppendStepHistory(x)
             \/ CompleteStepHistory(x) \/ ClearTimerRow(x) \/ ClearTimerKey(x) \/ StreamFull(x)
             \/ ScheduleTimerRow(x) \/ ScheduleTimerKey(x) \/ FireTimerRow(x) \/ FireTimerKey(x)
             \/ StoreError(x) \/ Enqueue(x)
      PROVE  Before \/ CompleteStepHistory(w)
  <2>1. UNCHANGED job
    BY <1>2, CallActions, EnqueueAction DEF CallStep
  <2>2. CASE CompleteStepHistory(x)
    <3>1. \E to : pc' = [pc EXCEPT ![x] = to]
      BY <2>2 DEF CompleteStepHistory, Reply, Goto
    <3> QED
      BY <1>0, <2>1, <2>2, <3>1 DEF IsFun
  <2>3. CASE ~ CompleteStepHistory(x)
    <3>1. PICK to \in PcValues : pc' = [pc EXCEPT ![x] = to] /\ (to \in AfterHistory => pc[x] \in AfterHistory)
      BY <1>2, <2>3 DEF Reply, Goto, PcValues, AfterHistory, EnsureWaitingTimer, OptimisticLock,
         AppendStepHistory, ClearTimerRow, ClearTimerKey, StreamFull, ScheduleTimerRow,
         ScheduleTimerKey, FireTimerRow, FireTimerKey, StoreError, Enqueue
    <3> QED
      BY <1>0, <2>1, <3>1 DEF IsFun
  <2> QED
    BY <2>2, <2>3
<1>3. ASSUME NEW x \in Workers, NEW to, to \notin AfterHistory, pc' = [pc EXCEPT ![x] = to],
             UNCHANGED job \/ \E j : job' = [job EXCEPT ![x] = j]
      PROVE  Before
  BY <1>0, <1>3 DEF IsFun
<1>4. ASSUME NEW x \in Workers, Release(x) \/ ReleaseError(x) \/ Ack(x) \/ AckError(x) \/ Crash(x)
                                \/ ClaimBusy(x)
      PROVE  Before
  <2>1. \E to \in {"idle", "ack"} : pc' = [pc EXCEPT ![x] = to]
    BY <1>4 DEF Release, ReleaseError, Ack, AckError, Crash, ClaimBusy, Goto, NextMessage
  <2>2. UNCHANGED job \/ \E j : job' = [job EXCEPT ![x] = j]
    BY <1>4 DEF Release, ReleaseError, Ack, AckError, Crash, ClaimBusy, NextMessage
  <2> QED
    BY <1>3, <2>1, <2>2 DEF AfterHistory
<1>5. ASSUME NEW x \in Workers, Claim(x) PROVE Before
  <2>1. pc' = [pc EXCEPT ![x] = "advance"] /\ \E j : job' = [job EXCEPT ![x] = j]
    BY <1>5 DEF Claim, Goto
  <2> QED
    BY <1>3, <2>1 DEF AfterHistory
<1>6. ASSUME NEW x \in Workers, ExecuteStep(x) PROVE Before
  <2>1. pc' = [pc EXCEPT ![x] = "complete"] /\ \E out : job' = [job EXCEPT ![x].out = out]
    BY <1>6 DEF ExecuteStep, Goto
  <2>2. \E j : job' = [job EXCEPT ![x] = j]
    BY <2>1
  <2> QED
    BY <1>3, <2>1, <2>2 DEF AfterHistory
<1>7. ASSUME NEW x \in Workers, MarkStepRunning(x) \/ FinishInstance(x) \/ SaveResult(x) PROVE Before
  <2>1. PICK to \in {"append", "enqueue", "schedule", "release", "abort"} : pc' = [pc EXCEPT ![x] = to]
    <3>1. CASE SaveResult(x)
      BY <3>1, ResultTargets
    <3>2. CASE MarkStepRunning(x) \/ FinishInstance(x)
      BY <3>2 DEF MarkStepRunning, FinishInstance, Reply, Goto
    <3> QED
      BY <1>7, <3>1, <3>2
  <2>2. \A y \in Workers \ {x} : job'[y] = job[y]
    <3>1. PICK inst : Save(x, inst) /\ pc[x] \in Advancing
      BY <1>7 DEF MarkStepRunning, FinishInstance, SaveResult, Advancing, Marked, Resulted
    <3> QED
      BY <3>1, SaveFacts
  <2> QED
    BY <1>0, <2>1, <2>2 DEF IsFun, AfterHistory
<1>8. ASSUME NEW x \in Workers, Consume(x) \/ ReclaimPending(x) \/ ClaimError(x) PROVE UNCHANGED <<pc, job>>
  BY <1>8 DEF Consume, ReclaimPending, ClaimError, engineVars
<1>9. ASSUME Environment \/ \E i \in Instances : ApiCreate(i) PROVE UNCHANGED <<pc, job>>
  BY <1>9, EnvironmentOwners
<1> HIDE DEF Before
<1> QED
  BY <1>1, <1>2, <1>4, <1>5, <1>6, <1>7, <1>8, <1>9
     DEF Next, WorkerStep, WorkerFault, Done, Environment, Before

\* The completed steps of the rows: a result completes the step it is the result of.
LEMMA StoredHistory ==
  ASSUME AInv, HistoryOK, [Next]_vars,
         NEW i \in Instances, NEW s \in StepIds, HasCompleted(rows'[i].inst, s)
  PROVE  Recorded(i, s)'
<1>1. ASSUME HasCompleted(rows[i].inst, s) PROVE Recorded(i, s)'
  BY <1>1, RecordedKept DEF HistoryOK
<1>2. CASE SameRows
  BY <1>1, <1>2 DEF SameRows
<1>3. ASSUME NEW w \in Workers, NEW inst, Save(w, inst), pc[w] \in Advancing,
             HasCompleted(inst, s) => HasCompleted(job[w].inst, s)
      PROVE  Recorded(i, s)'
  <2>1. /\ rows[Id(w)].inst = job[w].inst /\ rows'[Id(w)].inst = inst
        /\ \A j \in Instances \ {Id(w)} : rows'[j] = rows[j]
    BY <1>3, SaveFacts
  <2> QED
    BY <1>1, <1>3, <2>1
<1>4. ASSUME NEW w \in Workers, MarkStepRunning(w) \/ FinishInstance(w) PROVE Recorded(i, s)'
  <2>1. PICK inst : /\ Save(w, inst) /\ pc[w] \in Advancing
                    /\ \/ FinishInstance(w) /\ inst = FinishWithoutStep(job[w].inst)
                       \/ /\ StepToRun(job[w].inst).next \in StepIds
                          /\ inst = StartStep(job[w].inst, keySeq + 1)
    BY <1>4 DEF MarkStepRunning, FinishInstance, Advancing
  <2>2. IsContent(job[w].inst)
    BY <2>1 DEF AInv, ContentOK
  <2>3. inst.completed = job[w].inst.completed
    BY <2>1, <2>2, StartContent, FinishWithoutStepContent
  <2> QED
    BY <1>3, <2>1, <2>3 DEF HasCompleted
<1>5. ASSUME NEW w \in Workers, SaveResult(w) PROVE Recorded(i, s)'
  <2>1. PICK inst : Save(w, inst) /\ inst = HandleResult(job[w].inst, job[w].out)
    BY <1>5 DEF SaveResult
  <2>2. pc[w] = "update" /\ pc[w] \in Advancing /\ pc[w] \in AfterHistory
    BY <1>5 DEF SaveResult, Advancing, Marked, Resulted, AfterHistory
  <2>3. /\ IsContent(job[w].inst) /\ job[w].inst.cur \in StepIds
        /\ job[w].out.kind \in {"success", "waiting", "error"}
    BY <2>2 DEF AInv, ContentOK, Cur, Marked, Resulted
  <2>4. IF job[w].out.kind = "success" THEN CompletesOnly(job[w].inst, inst, Cur(w))
                                      ELSE inst.completed = job[w].inst.completed
    BY <2>1, <2>3, ResultContent DEF Cur
  <2>5. CASE HasCompleted(inst, s) => HasCompleted(job[w].inst, s)
    BY <1>3, <2>1, <2>2, <2>5
  <2>6. CASE HasCompleted(inst, s) /\ ~ HasCompleted(job[w].inst, s)
    <3>1. job[w].out.kind = "success" /\ s = Cur(w)
      BY <2>4, <2>6 DEF CompletesOnly, HasCompleted
    <3>2. Recorded(Id(w), Cur(w))
      BY <2>2, <3>1 DEF HistoryOK
    <3>3. CASE i = Id(w)
      BY <3>1, <3>2, <3>3, RecordedKept
    <3>4. CASE i # Id(w)
      <4>1. rows'[i] = rows[i]
        BY <2>1, <2>2, <3>4, SaveFacts
      <4> QED
        BY <1>1, <4>1
    <3> QED
      BY <3>3, <3>4
  <2> QED
    BY <2>5, <2>6
<1>6. ASSUME NEW j \in Instances, ApiCreate(j) PROVE Recorded(i, s)'
  <2>1. IsFun(rows, Instances) /\ IsRow(rows[j])
    BY DEF AInv, IInv, Shape, RowsOK
  <2>2. rows' = [rows EXCEPT ![j].inst = NewRuntimeState("pending"), ![j].version = 1]
    BY <1>6 DEF ApiCreate, CreateInstance
  <2>3. i # j => rows'[i] = rows[i]
    BY <2>1, <2>2 DEF IsFun
  <2>4. rows'[j].inst = NewRuntimeState("pending")
    BY <2>1, <2>2 DEF IsFun, IsRow
  <2>5. rows'[j].inst.completed = <<>>
    BY <2>4, NewContent
  <2>6. i # j
    BY <2>5 DEF HasCompleted, Contains
  <2> QED
    BY <1>1, <2>3, <2>6
<1> QED
  BY <1>2, <1>4, <1>5, <1>6, StepKinds

\* The worker that completes the history has the result in it.
LEMMA CompletedHistory ==
  ASSUME NEW w \in Workers, CompleteStepHistory(w), job[w].out.kind = "success"
  PROVE  Recorded(Id(w), Cur(w))' /\ UNCHANGED job
<1>1. HistoryStatus(w) \in {"success", "compensated"}
  BY DEF HistoryStatus
<1>2. PICK r : r = [inst |-> Id(w), step |-> Cur(w), attempt |-> Attempt(w), status |-> HistoryStatus(w)]
  OBVIOUS
<1>3. r \in history'
  BY <1>2 DEF CompleteStepHistory, CompleteHistory
<1>4. UNCHANGED job
  BY DEF CompleteStepHistory
<1>5. r.inst = Id(w) /\ r.step = Cur(w) /\ r.status \in {"success", "compensated"}
  BY <1>1, <1>2
<1> QED
  BY <1>3, <1>4, <1>5 DEF Recorded, Id, Cur

LEMMA StepHistory ==
  ASSUME AInv, HistoryOK, [Next]_vars PROVE HistoryOK'
<1>1. \A i \in Instances : \A s \in StepIds : HasCompleted(rows'[i].inst, s) => Recorded(i, s)'
  BY StoredHistory
<1>2. ASSUME NEW w \in Workers, pc'[w] \in AfterHistory, job'[w].out.kind = "success"
      PROVE  Recorded(Id(w), Cur(w))'
  <2>1. CASE pc[w] \in AfterHistory /\ job'[w] = job[w]
    <3>1. PICK i, s : i = Id(w) /\ s = Cur(w) /\ i = Id(w)' /\ s = Cur(w)'
      BY <2>1 DEF Id, Cur
    <3>2. Recorded(i, s)
      BY <1>2, <2>1, <3>1 DEF HistoryOK
    <3>3. Recorded(i, s)'
      BY <3>2, RecordedKept
    <3> QED
      BY <3>1, <3>3 DEF Recorded
  <2>2. CASE CompleteStepHistory(w)
    <3>1. job[w].out.kind = "success"
      BY <1>2, <2>2 DEF CompleteStepHistory
    <3> QED
      BY <2>2, <3>1, CompletedHistory
  <2> QED
    BY <1>2, <2>1, <2>2, AfterHistoryFrom
<1> QED
  BY <1>1, <1>2 DEF HistoryOK

LEMMA InitHistory == Init => HistoryOK
<1> SUFFICES ASSUME Init PROVE HistoryOK
  OBVIOUS
<1>1. \A i \in Instances : rows[i].inst.completed = <<>>
  BY NewContent DEF Init, DBInit, Absent
<1>2. \A w \in Workers : pc[w] = "idle"
  BY DEF Init
<1> QED
  BY <1>1, <1>2 DEF HistoryOK, HasCompleted, Contains, AfterHistory

\* For every definition, and any number of workers and faults: a step the row lists as
\* completed has the result that completed it in the history.
THEOREM HistoryComesFirst == Spec => []CompletedHasHistory
<1>1. AInv /\ HistoryOK /\ [Next]_vars => HistoryOK'
  BY StepHistory
<1>2. Spec => [](AInv /\ HistoryOK)
  BY <1>1, InitHistory, InitAInv, StepAInv, PTL DEF Spec
<1>3. HistoryOK => CompletedHasHistory
  BY DEF HistoryOK, CompletedHasHistory, Recorded
<1> QED
  BY <1>2, <1>3, PTL
=============================================================================
