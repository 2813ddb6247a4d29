-------------------------- MODULE RefinementProofs --------------------------
(***************************************************************************)
(* Engine implements Execution: what the workers, the timers, the recovery *)
(* loop and the faults make of the stored content of an instance is what   *)
(* one process that never fails could make of it, so what is proved of     *)
(* Execution holds of the engine.  Its processes also wake no waiting step *)
(* up before its time, and every variable keeps its type.  The faults are  *)
(* charged for the attempts they cause: so retries are bounded, and delays *)
(* fire once.                                                              *)
(***************************************************************************)
EXTENDS RecordProofs, FiniteSetTheorems

\* What is stored, and what a worker has a copy of, keeps to the rules of waiting; what
\* a worker has marked is running; its result is one that the execution may have had.
RunOK ==
  /\ IsFun(past, Instances)
  /\ \A i \in Instances : /\ WaitOK(rows[i].inst)
                          /\ rows[i].version # 0 => rows[i].inst.status # "absent"
  /\ \A w \in Workers : pc[w] \in Advancing => WaitOK(job[w].inst) /\ job[w].inst.status # "absent"
  /\ \A w \in Workers : pc[w] \in Marked => IsRunning(job[w].inst)
  /\ \A w \in Workers : pc[w] \in Resulted =>
       \E reached \in SUBSET past[Id(w)] : job[w].out \in Execute(job[w].inst, reached)

LEMMA InitRun == Init => RunOK
<1> SUFFICES ASSUME Init PROVE RunOK
  OBVIOUS
<1>1. IsFun(past, Instances)
  BY DEF Init, TimerInit, IsFun
<1>2. \A i \in Instances : rows[i].inst = NewRuntimeState("absent") /\ rows[i].version = 0
  BY DEF Init, DBInit, Absent
<1>3. \A i \in Instances : WaitOK(rows[i].inst)
  BY <1>2, NewWaits
<1>4. \A w \in Workers : pc[w] = "idle"
  BY DEF Init
<1> QED
  BY <1>1, <1>2, <1>3, <1>4 DEF RunOK, Advancing, Marked, Resulted

\* The clock is advanced by Elapse only, which changes nothing else.
LEMMA PastKept ==
  ASSUME [Next]_vars PROVE UNCHANGED past \/ \E i \in Instances : Elapse(i)
<1> USE DEF dbVars, timerVars, engineVars
<1>1. ASSUME NEW w \in Workers, Consume(w) \/ ReclaimPending(w) PROVE UNCHANGED past
  BY <1>1 DEF Consume, ReclaimPending
<1>2. ASSUME NEW w \in Workers, WorkerStep(w) PROVE UNCHANGED past
  BY <1>2 DEF WorkerStep, Claim, ClaimBusy, EnsureWaitingTimer, MarkStepRunning, FinishInstance,
     OptimisticLock, AppendStepHistory, ExecuteStep, CompleteStepHistory, ClearTimerRow, ClearTimerKey,
     SaveResult, Enqueue, StreamFull, ScheduleTimerRow, ScheduleTimerKey, FireTimerRow, FireTimerKey,
     Release, Ack
<1>3. ASSUME NEW w \in Workers, WorkerFault(w) PROVE UNCHANGED past
  BY <1>3 DEF WorkerFault, ClaimError, StoreError, ReleaseError, AckError, Crash
<1>4. ASSUME NEW i \in Instances, \/ ApiCreate(i) \/ ApiEnqueue(i) \/ ApiFails(i) \/ KeyExpiry(i)
                                  \/ OrphanExpires(i) \/ HolderExpires(i)
      PROVE  UNCHANGED past
  BY <1>4 DEF ApiCreate, ApiEnqueue, ApiFails, KeyExpiry, KeyExpires, OrphanExpires, HolderExpires
<1>5. ASSUME NEW a \in Agents, AgentStep(a) \/ AgentError(a) PROVE UNCHANGED past
  BY <1>5 DEF AgentStep, AgentError, Poll, Notified, AgentClearKey, AgentEnqueue, AgentFails
<1>6. ASSUME RecoverList \/ RecoverEnqueue \/ RecoverFails \/ Done \/ UNCHANGED vars
      PROVE  UNCHANGED past
  BY <1>6 DEF RecoverList, RecoverEnqueue, RecoverFails, Done, vars
<1> QED
  BY <1>1, <1>2, <1>3, <1>4, <1>5, <1>6 DEF Next

LEMMA PastGrows ==
  ASSUME IsFun(past, Instances), [Next]_vars
  PROVE  IsFun(past', Instances) /\ \A i \in Instances : past[i] \subseteq past'[i]
<1>1. CASE UNCHANGED past
  BY <1>1
<1>2. ASSUME NEW j \in Instances, Elapse(j)
      PROVE  IsFun(past', Instances) /\ \A i \in Instances : past[i] \subseteq past'[i]
  <2>1. PICK time : past' = [past EXCEPT ![j] = past[j] \cup {time}]
    BY <1>2 DEF Elapse
  <2> QED
    BY <2>1 DEF IsFun
<1> QED
  BY <1>1, <1>2, PastKept

\* The workers, when none starts, claims, executes or stores.
LEMMA WorkRun ==
  ASSUME AInv, RunOK, [Next]_vars, NEW w \in Workers,
         pc'[w] = "advance" => pc[w] = "advance" /\ job'[w].inst = job[w].inst,
         pc'[w] \in Marked => pc[w] \in Marked /\ job'[w].inst = job[w].inst
                                               /\ job'[w].msg = job[w].msg,
         pc'[w] \in Resulted => pc[w] \in Resulted /\ job'[w].out = job[w].out
  PROVE  /\ pc'[w] \in Advancing => WaitOK(job'[w].inst) /\ job'[w].inst.status # "absent"
         /\ pc'[w] \in Marked => IsRunning(job'[w].inst)
         /\ pc'[w] \in Resulted =>
              \E reached \in SUBSET past'[Id(w)'] : job'[w].out \in Execute(job'[w].inst, reached)
<1>1. pc'[w] \in Advancing => WaitOK(job'[w].inst) /\ job'[w].inst.status # "absent"
  BY DEF RunOK, Advancing
<1>2. pc'[w] \in Marked => IsRunning(job'[w].inst)
  BY DEF RunOK
<1>3. ASSUME pc'[w] \in Resulted
      PROVE  \E reached \in SUBSET past'[Id(w)'] : job'[w].out \in Execute(job'[w].inst, reached)
  <2>1. /\ pc[w] \in Resulted /\ pc[w] \in Marked /\ job'[w].out = job[w].out
        /\ job'[w].inst = job[w].inst /\ Id(w)' = Id(w)
    BY <1>3 DEF Marked, Id
  <2>2. PICK reached \in SUBSET past[Id(w)] : job[w].out \in Execute(job[w].inst, reached)
    BY <2>1 DEF RunOK
  <2>3. past[Id(w)] \subseteq past'[Id(w)]
    BY <2>1, AttemptTypes, PastGrows DEF RunOK
  <2>4. reached \in SUBSET past'[Id(w)']
    BY <2>1, <2>2, <2>3
  <2> QED
    BY <2>1, <2>2, <2>4
<1> QED
  BY <1>1, <1>2, <1>3

\* RunOK' from its parts.
RowRun(i) == WaitOK(rows[i].inst) /\ (rows[i].version # 0 => rows[i].inst.status # "absent")

WorkerRun(w) ==
  /\ pc[w] \in Advancing => WaitOK(job[w].inst) /\ job[w].inst.status # "absent"
  /\ pc[w] \in Marked => IsRunning(job[w].inst)
  /\ pc[w] \in Resulted =>
       \E reached \in SUBSET past[Id(w)] : job[w].out \in Execute(job[w].inst, reached)

LEMMA RunParts ==
  ASSUME RunOK, [Next]_vars, \A i \in Instances : RowRun(i)', \A w \in Workers : WorkerRun(w)'
  PROVE  RunOK'
<1>1. IsFun(past', Instances)
  BY PastGrows DEF RunOK
<1> QED
  BY <1>1 DEF RunOK, RowRun, WorkerRun

LEMMA WorkerRunKept ==
  ASSUME AInv, RunOK, [Next]_vars, NEW w \in Workers, pc'[w] = pc[w], job'[w] = job[w]
  PROVE  WorkerRun(w)'
BY WorkRun DEF WorkerRun

LEMMA QuietRun ==
  ASSUME AInv, RunOK, [Next]_vars, SameRows, SameWork PROVE RunOK'
<1>1. \A i \in Instances : RowRun(i)'
  BY DEF SameRows, RunOK, RowRun
<1>2. \A w \in Workers : WorkerRun(w)'
  BY WorkRun DEF SameWork, SameMarked, WorkerRun
<1> QED
  BY <1>1, <1>2, RunParts

LEMMA ClaimRun ==
  ASSUME AInv, RunOK, [Next]_vars, NEW w \in Workers, Claim(w), SameRows PROVE RunOK'
<1>1. PICK m \in batch[w] :
        /\ ClaimInstance(m.inst, w)
        /\ job' = [job EXCEPT ![w] = [NoJob EXCEPT !.msg = m, !.inst = rows[m.inst].inst,
                                                  !.version = rows[m.inst].version]]
        /\ pc' = [pc EXCEPT ![w] = "advance"]
  BY DEF Claim, Goto
<1>2. m.inst \in Instances
  BY DEF AInv, IInv, Shape, MessagesOK, StreamTypeOK
<1>3. job'[w].inst = rows[m.inst].inst /\ \A x \in Workers \ {w} : job'[x] = job[x]
  BY <1>1 DEF NoJob, AInv, IInv, Shape, JobsOK, IsFun
<1>4. pc'[w] = "advance" /\ \A x \in Workers \ {w} : pc'[x] = pc[x]
  BY <1>1 DEF AInv, IInv, Shape, JobsOK, IsFun
<1>5. WaitOK(rows[m.inst].inst) /\ rows[m.inst].inst.status # "absent"
  BY <1>1, <1>2 DEF RunOK, ClaimInstance, Claimable, Active, Exists
<1>6. WorkerRun(w)'
  BY <1>3, <1>4, <1>5 DEF WorkerRun, Marked, Resulted
<1>7. \A x \in Workers : WorkerRun(x)'
  BY <1>3, <1>4, <1>6, WorkerRunKept
<1>8. \A i \in Instances : RowRun(i)'
  BY DEF SameRows, RunOK, RowRun
<1> QED
  BY <1>7, <1>8, RunParts

LEMMA ExecuteRun ==
  ASSUME AInv, RunOK, [Next]_vars, NEW w \in Workers, ExecuteStep(w), SameRows PROVE RunOK'
<1>1. PICK out \in Execute(job[w].inst, past[Id(w)]) : job' = [job EXCEPT ![w].out = out]
  BY DEF ExecuteStep
<1>2. pc[w] = "execute" /\ pc'[w] = "complete" /\ \A x \in Workers \ {w} : pc'[x] = pc[x]
  BY DEF ExecuteStep, Goto, AInv, IInv, Shape, JobsOK, IsFun
<1>3. /\ job'[w].msg = job[w].msg /\ job'[w].inst = job[w].inst /\ job'[w].out = out
      /\ \A x \in Workers \ {w} : job'[x] = job[x]
  BY <1>1 DEF AInv, IInv, Shape, JobsOK, IsFun, IsJob
<1>4. Id(w)' = Id(w) /\ UNCHANGED past
  BY <1>3 DEF Id, ExecuteStep
<1>5. WaitOK(job[w].inst) /\ job[w].inst.status # "absent" /\ IsRunning(job[w].inst)
  BY <1>2 DEF RunOK, Advancing, Marked
<1>6. \E reached \in SUBSET past'[Id(w)'] : job'[w].out \in Execute(job'[w].inst, reached)
  BY <1>1, <1>3, <1>4
<1>7. WorkerRun(w)'
  BY <1>3, <1>5, <1>6 DEF WorkerRun
<1>8. \A x \in Workers : WorkerRun(x)'
  BY <1>2, <1>3, <1>7, WorkerRunKept
<1>9. \A i \in Instances : RowRun(i)'
  BY DEF SameRows, RunOK, RowRun
<1> QED
  BY <1>8, <1>9, RunParts

\* What a step that stores a content reads and writes.
LEMMA SavedContent ==
  ASSUME AInv, RunOK, NEW w \in Workers, MarkStepRunning(w) \/ FinishInstance(w) \/ SaveResult(w)
  PROVE  \E inst :
           /\ Save(w, inst) /\ pc[w] \in Advancing /\ IsContent(job[w].inst)
           /\ WaitOK(inst) /\ inst.status # "absent"
           /\ \/ /\ MarkStepRunning(w) /\ inst = StartStep(job[w].inst, keySeq + 1)
                 /\ StepToRun(job[w].inst).next \in StepIds
                 /\ IsRunning(inst)
              \/ /\ FinishInstance(w) /\ inst = FinishWithoutStep(job[w].inst)
              \/ /\ SaveResult(w) /\ inst = HandleResult(job[w].inst, job[w].out)
                 /\ IsRunning(job[w].inst)
<1>1. ASSUME MarkStepRunning(w), NEW inst, inst = StartStep(job[w].inst, keySeq + 1)
      PROVE  /\ Save(w, inst) /\ pc[w] \in Advancing /\ IsContent(job[w].inst)
             /\ WaitOK(inst) /\ inst.status # "absent"
             /\ StepToRun(job[w].inst).next \in StepIds /\ IsRunning(inst)
  <2>1. Save(w, inst) /\ pc[w] \in Advancing /\ StepToRun(job[w].inst).next \in StepIds
    BY <1>1 DEF MarkStepRunning, Advancing
  <2>2. IsContent(job[w].inst) /\ WaitOK(job[w].inst)
    BY <2>1 DEF AInv, ContentOK, RunOK
  <2>3. WaitOK(inst) /\ IsRunning(inst)
    BY <1>1, <2>1, <2>2, StartWaits
  <2>4. inst.status # "absent"
    BY <2>3 DEF IsRunning
  <2> QED
    BY <2>1, <2>2, <2>3, <2>4
<1>2. ASSUME FinishInstance(w), NEW inst, inst = FinishWithoutStep(job[w].inst)
      PROVE  /\ Save(w, inst) /\ pc[w] \in Advancing /\ IsContent(job[w].inst)
             /\ WaitOK(inst) /\ inst.status # "absent"
  <2>1. Save(w, inst) /\ pc[w] \in Advancing /\ StepToRun(job[w].inst).next \notin StepIds
    BY <1>2 DEF FinishInstance, Advancing
  <2>2. IsContent(job[w].inst) /\ WaitOK(job[w].inst)
    BY <2>1 DEF AInv, ContentOK, RunOK
  <2>3. WaitOK(inst) /\ inst.status \in Terminal
    BY <1>2, <2>1, <2>2, FinishWaits, FinishWithoutStepContent
  <2> QED
    BY <2>1, <2>2, <2>3 DEF Terminal
<1>3. ASSUME SaveResult(w), NEW inst, inst = HandleResult(job[w].inst, job[w].out)
      PROVE  /\ Save(w, inst) /\ pc[w] \in Advancing /\ IsContent(job[w].inst)
             /\ WaitOK(inst) /\ inst.status # "absent" /\ IsRunning(job[w].inst)
  <2>1. Save(w, inst) /\ pc[w] = "update"
    BY <1>3 DEF SaveResult
  <2>2. pc[w] \in Advancing /\ pc[w] \in Marked /\ pc[w] \in Resulted
    BY <2>1 DEF Advancing, Marked, Resulted
  <2>3. IsContent(job[w].inst) /\ WaitOK(job[w].inst) /\ IsRunning(job[w].inst)
    BY <2>2 DEF AInv, ContentOK, RunOK
  <2>4. PICK reached : job[w].out \in Execute(job[w].inst, reached)
    BY <2>2 DEF RunOK
  <2>5. WaitOK(inst)
    BY <1>3, <2>3, <2>4, ResultWaits
  <2>6. inst.status \in ResultStatuses
    BY <1>3, <2>2, <2>3, ResultContent DEF AInv, ContentOK, Cur
  <2> QED
    BY <2>1, <2>2, <2>3, <2>5, <2>6 DEF ResultStatuses
<1> QED
  BY <1>1, <1>2, <1>3

LEMMA SaveRun ==
  ASSUME AInv, RunOK, [Next]_vars, NEW w \in Workers,
         MarkStepRunning(w) \/ FinishInstance(w) \/ SaveResult(w)
  PROVE  RunOK'
<1>1. PICK inst :
        /\ Save(w, inst) /\ pc[w] \in Advancing
        /\ WaitOK(inst) /\ inst.status # "absent"
        /\ (MarkStepRunning(w) /\ IsRunning(inst)) \/ FinishInstance(w) \/ SaveResult(w)
  BY SavedContent
<1>2. /\ rows'[Id(w)].inst = inst
      /\ \A i \in Instances \ {Id(w)} : rows'[i] = rows[i]
      /\ job'[w].inst = inst
      /\ \A x \in Workers \ {w} : job'[x] = job[x]
  BY <1>1, SaveFacts
<1>3. PICK to \in {"append", "enqueue", "schedule", "release", "abort"} :
        pc' = [pc EXCEPT ![w] = to] /\ (to = "append" => MarkStepRunning(w) /\ IsRunning(inst))
  <2>1. CASE SaveResult(w)
    BY <2>1, ResultTargets
  <2>2. CASE FinishInstance(w)
    BY <2>2 DEF FinishInstance, Reply, Goto
  <2>3. CASE MarkStepRunning(w) /\ IsRunning(inst)
    BY <2>3 DEF MarkStepRunning, Reply, Goto
  <2> QED
    BY <1>1, <2>1, <2>2, <2>3
<1>4. pc'[w] = to /\ \A x \in Workers \ {w} : pc'[x] = pc[x]
  BY <1>3 DEF AInv, IInv, Shape, JobsOK, IsFun
<1>5. WorkerRun(w)'
  BY <1>1, <1>2, <1>3, <1>4 DEF WorkerRun, Advancing, Marked, Resulted
<1>6. \A x \in Workers : WorkerRun(x)'
  BY <1>2, <1>4, <1>5, WorkerRunKept
<1>7. \A i \in Instances : RowRun(i)'
  BY <1>1, <1>2 DEF RunOK, RowRun
<1> QED
  BY <1>6, <1>7, RunParts

\* The row of a created instance.
LEMMA CreatedRow ==
  ASSUME AInv, NEW i \in Instances, ApiCreate(i)
  PROVE  /\ rows[i].inst = NewRuntimeState("absent")
         /\ rows'[i].inst = NewRuntimeState("pending")
         /\ \A j \in Instances \ {i} : rows'[j] = rows[j]
         /\ UNCHANGED <<pc, job, past, keySeq>>
<1>1. IsFun(rows, Instances) /\ IsRow(rows[i]) /\ rows[i].version = 0
  BY DEF AInv, IInv, Shape, RowsOK, ApiCreate, CreateInstance, Exists
<1>2. rows' = [rows EXCEPT ![i].inst = NewRuntimeState("pending"), ![i].version = 1]
  BY DEF ApiCreate, CreateInstance
<1>3. \A j \in Instances \ {i} : rows'[j] = rows[j]
  BY <1>1, <1>2 DEF IsFun
<1>4. rows'[i].inst = NewRuntimeState("pending")
  BY <1>1, <1>2 DEF IsFun, IsRow
<1>5. rows[i].inst = NewRuntimeState("absent")
  BY <1>1 DEF AInv, ContentOK, Absent
<1> QED
  BY <1>3, <1>4, <1>5 DEF ApiCreate

LEMMA CreateRun ==
  ASSUME AInv, RunOK, [Next]_vars, NEW i \in Instances, ApiCreate(i) PROVE RunOK'
<1>1. /\ rows'[i].inst = NewRuntimeState("pending")
      /\ \A j \in Instances \ {i} : rows'[j] = rows[j]
      /\ UNCHANGED <<pc, job>>
  BY CreatedRow
<1>2. WaitOK(rows'[i].inst) /\ rows'[i].inst.status = "pending"
  BY <1>1, NewWaits, NewContent
<1>3. \A j \in Instances : RowRun(j)'
  BY <1>1, <1>2 DEF RunOK, RowRun
<1>4. \A w \in Workers : WorkerRun(w)'
  BY <1>1, WorkerRunKept
<1> QED
  BY <1>3, <1>4, RunParts

LEMMA StepRun == AInv /\ RunOK /\ [Next]_vars => RunOK'
BY StepKinds, QuietRun, ClaimRun, ExecuteRun, SaveRun, CreateRun

-----------------------------------------------------------------------------
(* Waiting steps *)

\* A step of a worker that stores a content starts a waiting step after its time only.
LEMMA StepResume ==
  ASSUME AInv, RunOK, [Next]_vars, NEW i \in Instances, NEW s \in StepIds,
         rows[i].inst.steps[s].status = "waiting_timer",
         rows'[i].inst.steps[s].status # "waiting_timer"
  PROVE  <<s, rows[i].inst.steps[s].waiting>> \in past[i]
<1>1. CASE SameRows
  BY <1>1 DEF SameRows
<1>2. ASSUME NEW w \in Workers, MarkStepRunning(w) \/ FinishInstance(w) \/ SaveResult(w)
      PROVE  <<s, rows[i].inst.steps[s].waiting>> \in past[i]
  <2>1. PICK inst :
          /\ Save(w, inst) /\ pc[w] \in Advancing /\ IsContent(job[w].inst)
          /\ \/ MarkStepRunning(w)
             \/ FinishInstance(w) /\ inst = FinishWithoutStep(job[w].inst)
             \/ SaveResult(w) /\ IsRunning(job[w].inst)
    BY <1>2, SavedContent
  <2>2. /\ rows[Id(w)].inst = job[w].inst /\ rows'[Id(w)].inst = inst
        /\ \A j \in Instances \ {Id(w)} : rows'[j] = rows[j]
    BY <2>1, SaveFacts
  <2>3. i = Id(w) /\ job[w].inst.steps[s].status = "waiting_timer"
    BY <2>2
  <2>4. /\ job[w].inst.status = "waiting_timer" /\ job[w].inst.cur = s
        /\ job[w].inst.steps[s].waiting # 0
    BY <2>1, <2>3 DEF RunOK, WaitOK
  <2>5. CASE MarkStepRunning(w)
    <3>1. ~ WaitingOnTimer(job[w].inst, past[i])
      BY <2>3, <2>5 DEF MarkStepRunning
    <3>2. s # NoStep
      BY StepsAssumption DEF WellFormed
    <3> QED
      BY <2>2, <2>3, <2>4, <3>1, <3>2 DEF WaitingOnTimer
  <2>6. CASE FinishInstance(w) /\ inst = FinishWithoutStep(job[w].inst)
    <3>1. inst.steps = job[w].inst.steps
      BY <2>1, <2>6, FinishWithoutStepContent
    <3> QED
      BY <2>2, <2>3, <3>1
  <2>7. CASE SaveResult(w) /\ IsRunning(job[w].inst)
    BY <2>4, <2>7 DEF IsRunning
  <2> QED
    BY <2>1, <2>5, <2>6, <2>7
<1>3. ASSUME NEW j \in Instances, ApiCreate(j)
      PROVE  <<s, rows[i].inst.steps[s].waiting>> \in past[i]
  <2>1. rows[j].inst = NewRuntimeState("absent") /\ (i # j => rows'[i] = rows[i])
    BY <1>3, CreatedRow
  <2>2. rows[j].inst.steps[s] = NoState
    BY <2>1, NewContent
  <2>3. NoState.status = ""
    BY DEF NoState
  <2> QED
    BY <2>1, <2>2, <2>3
<1> QED
  BY <1>1, <1>2, <1>3, StepKinds

\* For every definition, and any number of workers, agents and faults: a waiting step is
\* not started before its fire time, whatever wakes the instance up.
THEOREM WaitingStepsWait == Spec => NoEarlyResume
<1>1. Spec => [](AInv /\ RunOK)
  BY InitAInv, StepAInv, InitRun, StepRun, PTL DEF Spec
<1>2. AInv /\ RunOK /\ [Next]_vars =>
        [\A i \in Instances : \A s \in StepIds :
           LET step == rows[i].inst.steps[s] IN
             step.status = "waiting_timer" /\ rows'[i].inst.steps[s].status # "waiting_timer" =>
               <<s, step.waiting>> \in past[i]]_vars
  BY StepResume
<1> QED
  BY <1>1, <1>2, PTL DEF Spec, NoEarlyResume

-----------------------------------------------------------------------------
(***************************************************************************)
(* The operators of Execution, taken through INSTANCE with the engine's    *)
(* constants, are the engine's.  One lemma per operator, each resting on   *)
(* the operators it uses.                                                  *)
(***************************************************************************)
Rows == INSTANCE ForkProofs WITH content <- [i \in Instances |-> rows[i].inst]

LEMMA SameMin == ASSUME NEW S PROVE Exec!Min(S) = Min(S) /\ Rows!Min(S) = Min(S)
BY DEF Min, Exec!Min, Rows!Min

LEMMA SameStepByID ==
  ASSUME NEW id
  PROVE  Exec!StepByID(id) = StepByID(id) /\ Rows!StepByID(id) = StepByID(id)
BY DEF StepByID, Exec!StepByID, Rows!StepByID

LEMMA SameBranchRefs ==
  ASSUME NEW id
  PROVE  Exec!branchRefs(id) = branchRefs(id) /\ Rows!branchRefs(id) = branchRefs(id)
BY SameStepByID DEF branchRefs, Exec!branchRefs, Rows!branchRefs, NoStep, Exec!NoStep,
   Rows!NoStep

LEMMA SamePosition ==
  ASSUME NEW id
  PROVE  Exec!Position(id) = Position(id) /\ Rows!Position(id) = Position(id)
BY DEF Position, Exec!Position, Rows!Position

LEMMA SameFirstJoinAfter ==
  ASSUME NEW id
  PROVE  /\ Exec!firstJoinAfter(id) = firstJoinAfter(id)
         /\ Rows!firstJoinAfter(id) = firstJoinAfter(id)
BY SameMin DEF firstJoinAfter, Exec!firstJoinAfter, Rows!firstJoinAfter, NoStep, Exec!NoStep,
   Rows!NoStep, Position, Exec!Position, Rows!Position

LEMMA SameJoinOf ==
  ASSUME NEW id
  PROVE  Exec!JoinOf(id) = JoinOf(id) /\ Rows!JoinOf(id) = JoinOf(id)
BY SameStepByID, SameFirstJoinAfter DEF JoinOf, Exec!JoinOf, Rows!JoinOf, NoStep, Exec!NoStep,
   Rows!NoStep

LEMMA SameBranchSteps ==
  ASSUME NEW start, NEW join
  PROVE  /\ Exec!BranchSteps(start, join) = BranchSteps(start, join)
         /\ Rows!BranchSteps(start, join) = BranchSteps(start, join)
BY SameBranchRefs DEF BranchSteps, Exec!BranchSteps, Rows!BranchSteps, StepIds, Exec!StepIds,
   Rows!StepIds

LEMMA SameCollectForkBranchSteps ==
  /\ Exec!collectForkBranchSteps = collectForkBranchSteps
  /\ Rows!collectForkBranchSteps = collectForkBranchSteps
BY SameBranchSteps, SameJoinOf, SameStepByID DEF collectForkBranchSteps,
   Exec!collectForkBranchSteps, Rows!collectForkBranchSteps, ForkIds, Exec!ForkIds,
   Rows!ForkIds, ToSet, Exec!ToSet, Rows!ToSet

LEMMA SameNormalPositions ==
  Exec!NormalPositions = NormalPositions /\ Rows!NormalPositions = NormalPositions
BY SameCollectForkBranchSteps DEF NormalPositions, Exec!NormalPositions, Rows!NormalPositions,
   CompensationRefs, Exec!CompensationRefs, Rows!CompensationRefs, NoStep, Exec!NoStep,
   Rows!NoStep

LEMMA SameFirstNormal ==
  Exec!FirstNormal = FirstNormal /\ Rows!FirstNormal = FirstNormal
BY SameNormalPositions, SameMin DEF FirstNormal, Exec!FirstNormal, Rows!FirstNormal, NoStep,
   Exec!NoStep, Rows!NoStep

LEMMA SameNextNormal ==
  ASSUME NEW id
  PROVE  Exec!NextNormal(id) = NextNormal(id) /\ Rows!NextNormal(id) = NextNormal(id)
BY SameNormalPositions, SamePosition, SameMin DEF NextNormal, Exec!NextNormal, Rows!NextNormal,
   NoStep, Exec!NoStep, Rows!NoStep

LEMMA SameStartFork ==
  ASSUME NEW forks, NEW id
  PROVE  /\ Exec!startFork(forks, id) = startFork(forks, id)
         /\ Rows!startFork(forks, id) = startFork(forks, id)
BY SameJoinOf, SameStepByID DEF startFork, Exec!startFork, Rows!startFork

LEMMA SameNextForkStep ==
  ASSUME NEW forks, NEW id
  PROVE  /\ Exec!nextForkStep(forks, id) = nextForkStep(forks, id)
         /\ Rows!nextForkStep(forks, id) = nextForkStep(forks, id)
BY SameMin DEF nextForkStep, Exec!nextForkStep, Rows!nextForkStep

LEMMA SameBranchesAt ==
  ASSUME NEW forks, NEW id
  PROVE  /\ Exec!BranchesAt(forks, id) = BranchesAt(forks, id)
         /\ Rows!BranchesAt(forks, id) = BranchesAt(forks, id)
BY DEF BranchesAt, Exec!BranchesAt, Rows!BranchesAt, RunningBranches, Exec!RunningBranches,
   Rows!RunningBranches, ForkIds, Exec!ForkIds, Rows!ForkIds

LEMMA SameBranchForCurrentStep ==
  ASSUME NEW forks, NEW id
  PROVE  /\ Exec!branchForCurrentStep(forks, id) = branchForCurrentStep(forks, id)
         /\ Rows!branchForCurrentStep(forks, id) = branchForCurrentStep(forks, id)
BY SameBranchesAt DEF branchForCurrentStep, Exec!branchForCurrentStep, Rows!branchForCurrentStep

LEMMA SameNextAfterBranchStep ==
  ASSUME NEW forks, NEW branch, NEW id, NEW result
  PROVE  /\ Exec!nextAfterBranchStep(forks, branch, id, result) = nextAfterBranchStep(forks, branch, id, result)
         /\ Rows!nextAfterBranchStep(forks, branch, id, result) = nextAfterBranchStep(forks, branch, id, result)
BY SameStepByID, SameNextForkStep DEF nextAfterBranchStep, Exec!nextAfterBranchStep,
   Rows!nextAfterBranchStep, NoStep, Exec!NoStep, Rows!NoStep

LEMMA SameMarkJoined ==
  ASSUME NEW forks, NEW id
  PROVE  /\ Exec!markJoined(forks, id) = markJoined(forks, id)
         /\ Rows!markJoined(forks, id) = markJoined(forks, id)
BY DEF markJoined, Exec!markJoined, Rows!markJoined, ForkIds, Exec!ForkIds, Rows!ForkIds

LEMMA SameMarkBranchFailed ==
  ASSUME NEW forks, NEW id
  PROVE  /\ Exec!MarkBranchFailed(forks, id) = MarkBranchFailed(forks, id)
         /\ Rows!MarkBranchFailed(forks, id) = MarkBranchFailed(forks, id)
BY SameBranchesAt, SameBranchForCurrentStep DEF MarkBranchFailed, Exec!MarkBranchFailed,
   Rows!MarkBranchFailed

LEMMA SameNextAfter ==
  ASSUME NEW forks, NEW id, NEW result
  PROVE  /\ Exec!NextAfter(forks, id, result) = NextAfter(forks, id, result)
         /\ Rows!NextAfter(forks, id, result) = NextAfter(forks, id, result)
BY SameStepByID, SameMarkJoined, SameNextForkStep, SameStartFork, SameBranchesAt,
   SameNextAfterBranchStep, SameBranchForCurrentStep, SameNextNormal DEF NextAfter,
   Exec!NextAfter, Rows!NextAfter, NoStep, Exec!NoStep, Rows!NoStep

LEMMA SameStepForCurrent ==
  ASSUME NEW c
  PROVE  /\ Exec!StepForCurrent(c) = StepForCurrent(c)
         /\ Rows!StepForCurrent(c) = StepForCurrent(c)
BY SameFirstNormal, SameNextAfter DEF StepForCurrent, Exec!StepForCurrent, Rows!StepForCurrent,
   NoStep, Exec!NoStep, Rows!NoStep

LEMMA SameCompensationQueue ==
  ASSUME NEW c, NEW failed
  PROVE  /\ Exec!CompensationQueue(c, failed) = CompensationQueue(c, failed)
         /\ Rows!CompensationQueue(c, failed) = CompensationQueue(c, failed)
BY DEF CompensationQueue, Exec!CompensationQueue, Rows!CompensationQueue, NoStep, Exec!NoStep,
   Rows!NoStep, Contains, Exec!Contains, Rows!Contains, Reverse, Exec!Reverse, Rows!Reverse,
   StepByID, Exec!StepByID, Rows!StepByID

LEMMA SameMarkCompleted ==
  ASSUME NEW c, NEW id, NEW next
  PROVE  /\ Exec!MarkCompleted(c, id, next) = MarkCompleted(c, id, next)
         /\ Rows!MarkCompleted(c, id, next) = MarkCompleted(c, id, next)
BY DEF MarkCompleted, Exec!MarkCompleted, Rows!MarkCompleted, HasCompleted, Exec!HasCompleted,
   Rows!HasCompleted, Contains, Exec!Contains, Rows!Contains

LEMMA SameNewRuntimeState ==
  ASSUME NEW status
  PROVE  /\ Exec!NewRuntimeState(status) = NewRuntimeState(status)
         /\ Rows!NewRuntimeState(status) = NewRuntimeState(status)
BY DEF NewRuntimeState, Exec!NewRuntimeState, Rows!NewRuntimeState, NoStep, Exec!NoStep,
   Rows!NoStep, StepIds, Exec!StepIds, Rows!StepIds, NoState, Exec!NoState, Rows!NoState,
   ForkIds, Exec!ForkIds, Rows!ForkIds, NoFork, Exec!NoFork, Rows!NoFork

LEMMA SameWaitingOnTimer ==
  ASSUME NEW c, NEW reached
  PROVE  /\ Exec!WaitingOnTimer(c, reached) = WaitingOnTimer(c, reached)
         /\ Rows!WaitingOnTimer(c, reached) = WaitingOnTimer(c, reached)
BY DEF WaitingOnTimer, Exec!WaitingOnTimer, Rows!WaitingOnTimer, NoStep, Exec!NoStep,
   Rows!NoStep

LEMMA SameStepToRun ==
  ASSUME NEW c
  PROVE  Exec!StepToRun(c) = StepToRun(c) /\ Rows!StepToRun(c) = StepToRun(c)
BY SameStepForCurrent DEF StepToRun, Exec!StepToRun, Rows!StepToRun, Compensates,
   Exec!Compensates, Rows!Compensates, NoStep, Exec!NoStep, Rows!NoStep

LEMMA SameFinishInstance ==
  ASSUME NEW c, NEW status
  PROVE  /\ Exec!finishInstance(c, status) = finishInstance(c, status)
         /\ Rows!finishInstance(c, status) = finishInstance(c, status)
BY DEF finishInstance, Exec!finishInstance, Rows!finishInstance, NoStep, Exec!NoStep,
   Rows!NoStep

LEMMA SameFinishWithoutStep ==
  ASSUME NEW c
  PROVE  /\ Exec!FinishWithoutStep(c) = FinishWithoutStep(c)
         /\ Rows!FinishWithoutStep(c) = FinishWithoutStep(c)
BY SameStepToRun, SameFinishInstance DEF FinishWithoutStep, Exec!FinishWithoutStep,
   Rows!FinishWithoutStep, Compensates, Exec!Compensates, Rows!Compensates

LEMMA SameMarkStepRunning ==
  ASSUME NEW c, NEW id, NEW status, NEW newKey
  PROVE  /\ Exec!markStepRunning(c, id, status, newKey) = markStepRunning(c, id, status, newKey)
         /\ Rows!markStepRunning(c, id, status, newKey) = markStepRunning(c, id, status, newKey)
BY DEF markStepRunning, Exec!markStepRunning, Rows!markStepRunning, KeyFor, Exec!KeyFor,
   Rows!KeyFor, PreviousWait, Exec!PreviousWait, Rows!PreviousWait, NoStep, Exec!NoStep,
   Rows!NoStep

LEMMA SameStartStep ==
  ASSUME NEW c, NEW newKey
  PROVE  /\ Exec!StartStep(c, newKey) = StartStep(c, newKey)
         /\ Rows!StartStep(c, newKey) = StartStep(c, newKey)
BY SameStepToRun, SameMarkStepRunning DEF StartStep, Exec!StartStep, Rows!StartStep,
   Compensates, Exec!Compensates, Rows!Compensates

LEMMA SameDrawsKey ==
  ASSUME NEW c
  PROVE  Exec!DrawsKey(c) = DrawsKey(c) /\ Rows!DrawsKey(c) = DrawsKey(c)
BY SameStepToRun DEF DrawsKey, Exec!DrawsKey, Rows!DrawsKey

LEMMA SameRetriesLeft ==
  ASSUME NEW c, NEW id
  PROVE  /\ Exec!RetriesLeft(c, id) = RetriesLeft(c, id)
         /\ Rows!RetriesLeft(c, id) = RetriesLeft(c, id)
BY SameStepByID DEF RetriesLeft, Exec!RetriesLeft, Rows!RetriesLeft

LEMMA SameFireTimes ==
  ASSUME NEW c
  PROVE  Exec!FireTimes(c) = FireTimes(c) /\ Rows!FireTimes(c) = FireTimes(c)
BY SameStepByID, SameRetriesLeft DEF FireTimes, Exec!FireTimes, Rows!FireTimes, StepIds,
   Exec!StepIds, Rows!StepIds

LEMMA SameExecute ==
  ASSUME NEW c, NEW reached
  PROVE  /\ Exec!Execute(c, reached) = Execute(c, reached)
         /\ Rows!Execute(c, reached) = Execute(c, reached)
BY SameStepByID DEF Execute, Exec!Execute, Rows!Execute,
   executeHTTPRequest, Exec!executeHTTPRequest, Rows!executeHTTPRequest,
   executeTransform, Exec!executeTransform, Rows!executeTransform,
   executeCondition, Exec!executeCondition, Rows!executeCondition,
   executeFork, Exec!executeFork, Rows!executeFork,
   executeJoin, Exec!executeJoin, Rows!executeJoin,
   Succeeds, Exec!Succeeds, Rows!Succeeds,
   Fails, Exec!Fails, Rows!Fails, Waits, Exec!Waits, Rows!Waits, DelayResult, Exec!DelayResult,
   Rows!DelayResult, NoStep, Exec!NoStep, Rows!NoStep

LEMMA SameHandleStepSuccess ==
  ASSUME NEW c, NEW out
  PROVE  /\ Exec!handleStepSuccess(c, out) = handleStepSuccess(c, out)
         /\ Rows!handleStepSuccess(c, out) = handleStepSuccess(c, out)
BY SameNextAfter, SameMarkCompleted, SameFinishInstance DEF handleStepSuccess,
   Exec!handleStepSuccess, Rows!handleStepSuccess, NoStep, Exec!NoStep, Rows!NoStep

LEMMA SameHandleStepWaiting ==
  ASSUME NEW c, NEW out
  PROVE  /\ Exec!handleStepWaiting(c, out) = handleStepWaiting(c, out)
         /\ Rows!handleStepWaiting(c, out) = handleStepWaiting(c, out)
BY DEF handleStepWaiting, Exec!handleStepWaiting, Rows!handleStepWaiting

LEMMA SameHandleStepFailure ==
  ASSUME NEW c, NEW out
  PROVE  /\ Exec!handleStepFailure(c, out) = handleStepFailure(c, out)
         /\ Rows!handleStepFailure(c, out) = handleStepFailure(c, out)
BY SameMarkBranchFailed, SameCompensationQueue, SameRetriesLeft, SameFinishInstance,
   SameHandleStepWaiting DEF handleStepFailure, Exec!handleStepFailure, Rows!handleStepFailure,
   Waits, Exec!Waits, Rows!Waits, NoStep, Exec!NoStep, Rows!NoStep

LEMMA SameCompensationSuccess ==
  ASSUME NEW c, NEW out
  PROVE  /\ Exec!CompensationSuccess(c, out) = CompensationSuccess(c, out)
         /\ Rows!CompensationSuccess(c, out) = CompensationSuccess(c, out)
<1>1. PICK d : /\ d = MarkCompleted(c, c.cur, out.next)
               /\ d = Exec!MarkCompleted(c, c.cur, out.next)
               /\ d = Rows!MarkCompleted(c, c.cur, out.next)
  BY SameMarkCompleted
<1>2. PICK e : e = [d EXCEPT !.queue = Tail(c.queue)]
  OBVIOUS
<1>3. CompensationSuccess(c, out) = IF e.queue = <<>> THEN finishInstance(e, "failed")
                                    ELSE [e EXCEPT !.cur = Head(e.queue)]
  BY <1>1, <1>2 DEF CompensationSuccess
<1>4. Exec!CompensationSuccess(c, out) = IF e.queue = <<>> THEN Exec!finishInstance(e, "failed")
                                         ELSE [e EXCEPT !.cur = Head(e.queue)]
  BY <1>1, <1>2 DEF Exec!CompensationSuccess
<1>5. Rows!CompensationSuccess(c, out) = IF e.queue = <<>> THEN Rows!finishInstance(e, "failed")
                                         ELSE [e EXCEPT !.cur = Head(e.queue)]
  BY <1>1, <1>2 DEF Rows!CompensationSuccess
<1> QED
  BY <1>3, <1>4, <1>5, SameFinishInstance

LEMMA SameCompensationFailure ==
  ASSUME NEW c, NEW out
  PROVE  /\ Exec!CompensationFailure(c, out) = CompensationFailure(c, out)
         /\ Rows!CompensationFailure(c, out) = CompensationFailure(c, out)
BY SameFinishInstance DEF CompensationFailure, Exec!CompensationFailure,
   Rows!CompensationFailure

LEMMA SameHandleResult ==
  ASSUME NEW c, NEW out
  PROVE  /\ Exec!HandleResult(c, out) = HandleResult(c, out)
         /\ Rows!HandleResult(c, out) = HandleResult(c, out)
BY SameHandleStepSuccess, SameHandleStepWaiting, SameHandleStepFailure, SameCompensationSuccess,
   SameCompensationFailure DEF HandleResult, Exec!HandleResult, Rows!HandleResult

\* So are the actions of Execution: the theorems about Execution are about the rows, too.
LEMMA SameExecInit == Exec!ExecInit => Rows!ExecInit
BY SameNewRuntimeState DEF Exec!ExecInit, Rows!ExecInit, Exec!Absent, Rows!Absent

LEMMA SameReady ==
  ASSUME NEW c, NEW reached PROVE Exec!Ready(c, reached) <=> Rows!Ready(c, reached)
BY SameWaitingOnTimer DEF Exec!Ready, Rows!Ready, Exec!Terminal, Rows!Terminal

LEMMA SameCreate == ASSUME NEW i PROVE Exec!Create(i) => Rows!Create(i)
BY SameNewRuntimeState DEF Exec!Create, Rows!Create

LEMMA SameStart == ASSUME NEW i \in Instances PROVE Exec!Start(i) => Rows!Start(i)
<1>1. Exec!StepIds = Rows!StepIds
  BY DEF Exec!StepIds, Rows!StepIds
<1>2. PICK c : c = [j \in Instances |-> rows[j].inst][i]
  OBVIOUS
<1>3. /\ Exec!Ready(c, past[i]) <=> Rows!Ready(c, past[i])
      /\ Exec!StepToRun(c) = Rows!StepToRun(c)
      /\ Exec!StartStep(c, keySeq + 1) = Rows!StartStep(c, keySeq + 1)
      /\ Exec!DrawsKey(c) <=> Rows!DrawsKey(c)
  BY SameReady, SameStepToRun, SameStartStep, SameDrawsKey
<1> QED
  BY <1>1, <1>2, <1>3 DEF Exec!Start, Rows!Start

LEMMA SameFinishEmpty == ASSUME NEW i \in Instances PROVE Exec!FinishEmpty(i) => Rows!FinishEmpty(i)
<1>1. Exec!StepIds = Rows!StepIds
  BY DEF Exec!StepIds, Rows!StepIds
<1>2. PICK c : c = [j \in Instances |-> rows[j].inst][i]
  OBVIOUS
<1>3. /\ Exec!Ready(c, past[i]) <=> Rows!Ready(c, past[i])
      /\ Exec!StepToRun(c) = Rows!StepToRun(c)
      /\ Exec!FinishWithoutStep(c) = Rows!FinishWithoutStep(c)
  BY SameReady, SameStepToRun, SameFinishWithoutStep
<1> QED
  BY <1>1, <1>2, <1>3 DEF Exec!FinishEmpty, Rows!FinishEmpty

LEMMA SameFinish == ASSUME NEW i \in Instances, Exec!Finish(i) PROVE Rows!Finish(i)
<1>1. PICK c : c = [j \in Instances |-> rows[j].inst][i]
  OBVIOUS
<1>2. PICK reached \in SUBSET past[i] : \E out \in Exec!Execute(c, reached) :
        /\ Exec!Running(c) /\ UNCHANGED <<past, keySeq>>
        /\ [j \in Instances |-> rows[j].inst]'
             = [[j \in Instances |-> rows[j].inst] EXCEPT ![i] = Exec!HandleResult(c, out)]
  BY <1>1 DEF Exec!Finish
<1>3. PICK out \in Exec!Execute(c, reached) :
        /\ Exec!Running(c) /\ UNCHANGED <<past, keySeq>>
        /\ [j \in Instances |-> rows[j].inst]'
             = [[j \in Instances |-> rows[j].inst] EXCEPT ![i] = Exec!HandleResult(c, out)]
  BY <1>2
<1>4. Rows!Running(c)
  BY <1>3 DEF Exec!Running, Rows!Running, Exec!NoStep, Rows!NoStep
<1>5. out \in Rows!Execute(c, reached)
  BY SameExecute
<1>6. Exec!HandleResult(c, out) = Rows!HandleResult(c, out)
  BY SameHandleResult
<1> QED
  BY <1>1, <1>3, <1>4, <1>5, <1>6 DEF Rows!Finish

LEMMA SameElapse == ASSUME NEW i PROVE Exec!Elapse(i) => Rows!Elapse(i)
BY SameFireTimes DEF Exec!Elapse, Rows!Elapse

LEMMA SameExecSpec == Exec!ExecSpec => Rows!ExecSpec
<1>1. Exec!ExecNext => Rows!ExecNext
  BY SameCreate, SameStart, SameFinishEmpty, SameFinish, SameElapse DEF Exec!ExecNext, Rows!ExecNext
<1>2. Exec!execVars = Rows!execVars
  BY DEF Exec!execVars, Rows!execVars
<1>3. [Exec!ExecNext]_(Exec!execVars) => [Rows!ExecNext]_(Rows!execVars)
  BY <1>1, <1>2 DEF Exec!execVars, Rows!execVars
<1> QED
  BY <1>3, SameExecInit, PTL DEF Exec!ExecSpec, Rows!ExecSpec

-----------------------------------------------------------------------------
(* The refinement *)

\* The abstract content of the instances, after a step that replaces that of one.
LEMMA ContentReplaced ==
  ASSUME NEW i \in Instances, NEW inst, rows'[i].inst = inst,
         \A j \in Instances \ {i} : rows'[j] = rows[j]
  PROVE  [j \in Instances |-> rows[j].inst]' = [[j \in Instances |-> rows[j].inst] EXCEPT ![i] = inst]
OBVIOUS

LEMMA StartRefines ==
  ASSUME AInv, RunOK, NEW w \in Workers, MarkStepRunning(w)
  PROVE  Exec!ExecNext
<1>1. PICK inst : /\ Save(w, inst) /\ pc[w] \in Advancing
                  /\ inst = StartStep(job[w].inst, keySeq + 1)
  BY DEF MarkStepRunning, Advancing
<1>2. /\ Id(w) \in Instances /\ rows[Id(w)].inst = job[w].inst /\ rows'[Id(w)].inst = inst
      /\ \A j \in Instances \ {Id(w)} : rows'[j] = rows[j]
      /\ job[w].inst.status \notin Terminal
  BY <1>1, SaveFacts
<1>3. PICK i \in Instances : i = Id(w)
  BY <1>2
<1>0. PICK c : c = job[w].inst
  OBVIOUS
<1>4. /\ rows[i].inst = c /\ inst = Exec!StartStep(c, keySeq + 1)
      /\ ~ Exec!WaitingOnTimer(c, past[i])
      /\ Exec!StepToRun(c).next \in StepIds
      /\ c.steps[Exec!StepToRun(c).next].attempt < MaxAttempts
      /\ keySeq' = IF Exec!DrawsKey(c) THEN keySeq + 1 ELSE keySeq
      /\ UNCHANGED past
  BY <1>1, <1>2, <1>0, <1>3, SameStartStep, SameWaitingOnTimer, SameStepToRun, SameDrawsKey DEF MarkStepRunning
<1>5. c.status \notin Exec!Terminal \cup {"absent"}
  BY <1>1, <1>2, <1>0, <1>3 DEF RunOK, Terminal, Exec!Terminal
<1>6. [j \in Instances |-> rows[j].inst]' = [[j \in Instances |-> rows[j].inst] EXCEPT ![i] = inst]
  BY <1>2, <1>0, <1>3, ContentReplaced
<1>7. StepIds = Exec!StepIds
  BY DEF StepIds, Exec!StepIds
<1>8. Exec!Start(i)
  BY <1>4, <1>5, <1>6, <1>7 DEF Exec!Start, Exec!Ready
<1> QED
  BY <1>8 DEF Exec!ExecNext

LEMMA FinishEmptyRefines ==
  ASSUME AInv, RunOK, NEW w \in Workers, FinishInstance(w)
  PROVE  Exec!ExecNext
<1>1. PICK inst : /\ Save(w, inst) /\ pc[w] \in Advancing
                  /\ inst = FinishWithoutStep(job[w].inst)
  BY DEF FinishInstance, Advancing
<1>2. /\ Id(w) \in Instances /\ rows[Id(w)].inst = job[w].inst /\ rows'[Id(w)].inst = inst
      /\ \A j \in Instances \ {Id(w)} : rows'[j] = rows[j]
      /\ job[w].inst.status \notin Terminal
  BY <1>1, SaveFacts
<1>3. PICK i \in Instances : i = Id(w)
  BY <1>2
<1>0. PICK c : c = job[w].inst
  OBVIOUS
<1>4. /\ rows[i].inst = c /\ inst = Exec!FinishWithoutStep(c)
      /\ ~ Exec!WaitingOnTimer(c, past[i])
      /\ Exec!StepToRun(c).next \notin StepIds
      /\ UNCHANGED <<past, keySeq>>
  BY <1>1, <1>2, <1>0, <1>3, SameFinishWithoutStep, SameWaitingOnTimer, SameStepToRun DEF FinishInstance
<1>5. c.status \notin Exec!Terminal \cup {"absent"}
  BY <1>1, <1>2, <1>0, <1>3 DEF RunOK, Terminal, Exec!Terminal
<1>6. [j \in Instances |-> rows[j].inst]' = [[j \in Instances |-> rows[j].inst] EXCEPT ![i] = inst]
  BY <1>2, <1>0, <1>3, ContentReplaced
<1>7. StepIds = Exec!StepIds
  BY DEF StepIds, Exec!StepIds
<1>8. Exec!FinishEmpty(i)
  BY <1>4, <1>5, <1>6, <1>7 DEF Exec!FinishEmpty, Exec!Ready
<1> QED
  BY <1>8 DEF Exec!ExecNext

LEMMA FinishRefines ==
  ASSUME AInv, RunOK, NEW w \in Workers, SaveResult(w)
  PROVE  Exec!ExecNext
<1>1. PICK inst : Save(w, inst) /\ inst = HandleResult(job[w].inst, job[w].out)
  BY DEF SaveResult
<1>2. pc[w] \in Advancing /\ pc[w] \in Marked /\ pc[w] \in Resulted /\ UNCHANGED <<past, keySeq>>
  BY DEF SaveResult, Advancing, Marked, Resulted
<1>3. /\ Id(w) \in Instances /\ rows[Id(w)].inst = job[w].inst /\ rows'[Id(w)].inst = inst
      /\ \A j \in Instances \ {Id(w)} : rows'[j] = rows[j]
  BY <1>1, <1>2, SaveFacts
<1>4. PICK i \in Instances : i = Id(w)
  BY <1>3
<1>0. PICK c, out : c = job[w].inst /\ out = job[w].out
  OBVIOUS
<1>5. IsRunning(c) /\ rows[i].inst = c /\ inst = Exec!HandleResult(c, out)
  BY <1>1, <1>2, <1>3, <1>0, <1>4, SameHandleResult DEF RunOK
<1>6. PICK reached \in SUBSET past[i] : out \in Exec!Execute(c, reached)
  BY <1>2, <1>0, <1>4, SameExecute DEF RunOK
<1>7. [j \in Instances |-> rows[j].inst]' = [[j \in Instances |-> rows[j].inst] EXCEPT ![i] = inst]
  BY <1>3, <1>0, <1>4, ContentReplaced
<1>8. Exec!Running(c)
  BY <1>5, StepsAssumption DEF IsRunning, Exec!Running, WellFormed, NoStep, Exec!NoStep
<1>9. Exec!Finish(i)
  BY <1>2, <1>5, <1>6, <1>7, <1>8 DEF Exec!Finish
<1> QED
  BY <1>9 DEF Exec!ExecNext

LEMMA CreateRefines ==
  ASSUME AInv, NEW i \in Instances, ApiCreate(i) PROVE Exec!ExecNext
<1>1. /\ rows[i].inst = NewRuntimeState("absent")
      /\ rows'[i].inst = NewRuntimeState("pending")
      /\ \A j \in Instances \ {i} : rows'[j] = rows[j]
      /\ UNCHANGED <<past, keySeq>>
  BY CreatedRow
<1>2. rows[i].inst.status = "absent"
  BY <1>1, NewContent
<1>3. [j \in Instances |-> rows[j].inst]'
        = [[j \in Instances |-> rows[j].inst] EXCEPT ![i] = Exec!NewRuntimeState("pending")]
  BY <1>1, ContentReplaced, SameNewRuntimeState
<1>4. Exec!Create(i)
  BY <1>1, <1>2, <1>3 DEF Exec!Create
<1> QED
  BY <1>4 DEF Exec!ExecNext

LEMMA ElapseRefines ==
  ASSUME NEW i \in Instances, Elapse(i) PROVE Exec!ExecNext
<1>1. /\ UNCHANGED <<rows, keySeq>>
      /\ \E time \in Exec!FireTimes(rows[i].inst) \ past[i] :
           past' = [past EXCEPT ![i] = @ \cup {time}]
  BY SameFireTimes DEF Elapse, dbVars, engineVars
<1>2. Exec!Elapse(i)
  BY <1>1 DEF Exec!Elapse
<1> QED
  BY <1>2 DEF Exec!ExecNext

LEMMA StepRefines ==
  ASSUME AInv, RunOK, [Next]_vars PROVE [Exec!ExecNext]_(Exec!execVars)
<1>1. ASSUME SameRows, UNCHANGED past, ~ \E w \in Workers : MarkStepRunning(w)
      PROVE  UNCHANGED Exec!execVars
  <2>1. UNCHANGED keySeq
    BY <1>1, KeySeqKept
  <2>2. UNCHANGED [i \in Instances |-> rows[i].inst]
    BY <1>1 DEF SameRows
  <2> QED
    BY <1>1, <2>1, <2>2 DEF Exec!execVars
<1>2. CASE \E i \in Instances : Elapse(i)
  BY <1>2, ElapseRefines
<1>3. CASE \E w \in Workers : MarkStepRunning(w) \/ FinishInstance(w) \/ SaveResult(w)
  BY <1>3, StartRefines, FinishEmptyRefines, FinishRefines
<1>4. CASE \E i \in Instances : ApiCreate(i)
  BY <1>4, CreateRefines
<1> QED
  BY <1>1, <1>2, <1>3, <1>4, StepKinds, PastKept

LEMMA InitRefines == Init => Exec!ExecInit
<1> SUFFICES ASSUME Init PROVE Exec!ExecInit
  OBVIOUS
<1>1. \A i \in Instances : rows[i].inst = Exec!NewRuntimeState("absent")
  BY SameNewRuntimeState DEF Init, DBInit, Absent
<1>2. [i \in Instances |-> rows[i].inst] = [i \in Instances |-> Exec!Absent]
  BY <1>1 DEF Exec!Absent
<1> QED
  BY <1>2 DEF Init, TimerInit, Exec!ExecInit

\* For every definition, and any number of workers, agents, messages and faults: the stored
\* content of the instances behaves as Execution says, one transition after the other.
THEOREM EngineImplementsExecution == Spec => ImplementsExecution
<1>1. Spec => [](AInv /\ RunOK)
  BY InitAInv, StepAInv, InitRun, StepRun, PTL DEF Spec
<1>2. AInv /\ RunOK /\ [Next]_vars => [Exec!ExecNext]_(Exec!execVars)
  BY StepRefines
<1>3. Spec => Exec!ExecInit /\ [][Exec!ExecNext]_(Exec!execVars)
  BY <1>1, <1>2, InitRefines, PTL DEF Spec
<1> QED
  BY <1>3 DEF ImplementsExecution, Exec!ExecSpec

-----------------------------------------------------------------------------
(* What Execution promises, of what the engine stores *)

LEMMA RowsWellFormed == Rows!WellFormed
BY StepsAssumption DEF WellFormed, Rows!WellFormed, Refs, Rows!Refs, StepIds, Rows!StepIds,
   StepTypes, Rows!StepTypes, NoStep, Rows!NoStep

LEMMA RowsExecuted == Spec => Rows!ExecSpec
BY EngineImplementsExecution, SameExecSpec, PTL DEF ImplementsExecution

\* Whatever the workers, the timers and the faults do: every reference in a stored content is
\* a step of the definition.
THEOREM StoredReferencesAreSteps == Spec => []Rows!ExecTypeOK
<1>1. Rows!ExecSpec => []Rows!ExecTypeOK
  BY RowsWellFormed, BoundsAssumption, Rows!ReferencesAreSteps
<1> QED
  BY <1>1, RowsExecuted, PTL

\* With any number of workers and faults, the engine stores compensations in their order
\* and a failed instance shows what it has undone.
THEOREM EngineCompensates ==
  ASSUME Rows!CompensationsApart
  PROVE  Spec => [](Rows!CompensationOrder /\ Rows!SagaComplete)
<1>1. Rows!ExecSpec => []Rows!CompensationOrder
  BY RowsWellFormed, BoundsAssumption, Rows!CompensationsKeepOrder
<1>2. Rows!ExecSpec => []Rows!SagaComplete
  BY RowsWellFormed, BoundsAssumption, Rows!SagasAreComplete
<1> QED
  BY <1>1, <1>2, RowsExecuted, PTL

\* With any number of workers and faults, the branches of the forks that the engine stores
\* run one by one, and a join waits for the branches of its fork.
THEOREM EngineJoinsForks ==
  ASSUME Rows!ForksUnnested, Rows!JoinsGuarded
  PROVE  Spec => [](/\ Rows!OneBranchAtATime /\ Rows!FailedBranchRecorded
                    /\ Rows!JoinAfterBranches)
<1>1. Rows!ExecSpec => []Rows!OneBranchAtATime
  BY RowsWellFormed, BoundsAssumption, Rows!BranchesRunOneByOne
<1>2. Rows!ExecSpec => []Rows!FailedBranchRecorded
  BY RowsWellFormed, BoundsAssumption, Rows!FailuresAreRecorded
<1>3. Rows!ExecSpec => []Rows!JoinAfterBranches
  BY RowsWellFormed, BoundsAssumption, Rows!JoinsWaitForBranches
<1> QED
  BY <1>1, <1>2, <1>3, RowsExecuted, PTL

\* With any number of workers and faults, no step that a stored content shows as completed
\* or failed is taken up again, if the definition's references lead forward.
THEOREM EngineRunsStepsOnce ==
  ASSUME Rows!CompensationsApart, Rows!ForksUnnested, Rows!StepsInOrder
  PROVE  Spec => Rows!StepsRunOnce
<1>1. Rows!ExecSpec => Rows!StepsRunOnce
  BY RowsWellFormed, BoundsAssumption, Rows!StepsAreDoneOnce
<1> QED
  BY <1>1, RowsExecuted, PTL

-----------------------------------------------------------------------------
(* The control of the workers *)

\* The control of the workers, the faults and the sets of instances have their types.
ControlOK ==
  /\ pc \in [Workers -> PcValues]
  /\ faults \in 0 .. MaxFaults
  /\ api \subseteq Instances
  /\ rkey \subseteq Instances
  /\ notif \subseteq Agents \X Instances

LEMMA InitControl == Init => ControlOK
<1> SUFFICES ASSUME Init PROVE ControlOK
  OBVIOUS
<1>1. pc \in [Workers -> PcValues]
  BY DEF Init, PcValues
<1>2. faults \in 0 .. MaxFaults
  BY BoundsAssumption DEF Init
<1> QED
  BY <1>1, <1>2 DEF Init, TimerInit, ControlOK

LEMMA FaultsTyped ==
  ASSUME faults \in 0 .. MaxFaults, UNCHANGED faults \/ Fault PROVE faults' \in 0 .. MaxFaults
BY BoundsAssumption DEF Fault

LEMMA ReplyTyped ==
  ASSUME faults \in 0 .. MaxFaults, pc \in [Workers -> PcValues], NEW w \in Workers,
         NEW to \in PcValues, Reply(w, to)
  PROVE  faults' \in 0 .. MaxFaults /\ pc' \in [Workers -> PcValues]
<1>1. UNCHANGED faults \/ Fault
  BY DEF Reply
<1>2. pc' \in [Workers -> PcValues]
  BY DEF Reply, Goto, PcValues
<1> QED
  BY <1>1, <1>2, FaultsTyped

LEMMA WorkerControl ==
  ASSUME AInv, ControlOK, NEW w \in Workers, WorkerStep(w) \/ WorkerFault(w)
  PROVE  pc' \in [Workers -> PcValues] /\ faults' \in 0 .. MaxFaults
<1>0. pc \in [Workers -> PcValues] /\ faults \in 0 .. MaxFaults
  BY DEF ControlOK
<1> DEFINE Typed == pc' \in [Workers -> PcValues] /\ faults' \in 0 .. MaxFaults
<1>1. CASE Claim(w)
  BY <1>0, <1>1 DEF Claim, Goto, PcValues
<1>2. CASE ClaimBusy(w)
  BY <1>0, <1>2 DEF ClaimBusy, Goto, PcValues
<1>3. CASE EnsureWaitingTimer(w)
  BY <1>0, <1>3 DEF EnsureWaitingTimer, Goto, PcValues
<1>4. CASE MarkStepRunning(w)
  BY <1>0, <1>4, ReplyTyped DEF MarkStepRunning, PcValues
<1>5. CASE FinishInstance(w)
  BY <1>0, <1>5, ReplyTyped DEF FinishInstance, PcValues
<1>6. CASE OptimisticLock(w)
  BY <1>0, <1>6 DEF OptimisticLock, Goto, PcValues
<1>7. CASE AppendStepHistory(w)
  BY <1>0, <1>7, ReplyTyped DEF AppendStepHistory, PcValues
<1>8. CASE ExecuteStep(w)
  BY <1>0, <1>8 DEF ExecuteStep, Goto, PcValues
<1>9. CASE CompleteStepHistory(w)
  <2>1. PICK to \in PcValues : Reply(w, to)
    BY <1>9 DEF CompleteStepHistory, PcValues
  <2> QED
    BY <1>0, <2>1, ReplyTyped
<1>10. CASE ClearTimerRow(w)
  BY <1>0, <1>10, ReplyTyped DEF ClearTimerRow, PcValues
<1>11. CASE ClearTimerKey(w)
  BY <1>0, <1>11, ReplyTyped DEF ClearTimerKey, PcValues
<1>12. CASE SaveResult(w)
  <2>1. PICK to \in {"enqueue", "schedule", "release", "abort"} : pc' = [pc EXCEPT ![w] = to]
    BY <1>12, ResultTargets
  <2>2. UNCHANGED faults \/ Fault
    BY <1>12 DEF SaveResult, Reply
  <2> QED
    BY <1>0, <2>1, <2>2, FaultsTyped DEF PcValues
<1>13. CASE Enqueue(w)
  BY <1>0, <1>13, ReplyTyped DEF Enqueue, PcValues
<1>14. CASE StreamFull(w)
  BY <1>0, <1>14 DEF StreamFull, Goto, PcValues
<1>15. CASE ScheduleTimerRow(w)
  <2>1. PICK to \in PcValues : Reply(w, to)
    BY <1>15 DEF ScheduleTimerRow, PcValues
  <2> QED
    BY <1>0, <2>1, ReplyTyped
<1>16. CASE ScheduleTimerKey(w)
  BY <1>0, <1>16, ReplyTyped DEF ScheduleTimerKey, PcValues
<1>17. CASE FireTimerRow(w)
  <2>1. PICK to \in PcValues : Reply(w, to)
    BY <1>17 DEF FireTimerRow, PcValues
  <2> QED
    BY <1>0, <2>1, ReplyTyped
<1>18. CASE FireTimerKey(w)
  <2>1. PICK to \in PcValues : Reply(w, to)
    BY <1>18 DEF FireTimerKey, PcValues
  <2> QED
    BY <1>0, <2>1, ReplyTyped
<1>19. CASE Release(w)
  BY <1>0, <1>19 DEF Release, NextMessage, Goto, PcValues
<1>20. CASE Ack(w)
  BY <1>0, <1>20 DEF Ack, NextMessage, PcValues
<1>21. CASE ClaimError(w)
  BY <1>0, <1>21, FaultsTyped DEF ClaimError
<1>22. CASE StoreError(w)
  BY <1>0, <1>22, FaultsTyped DEF StoreError, Goto, PcValues
<1>23. CASE ReleaseError(w)
  BY <1>0, <1>23, FaultsTyped DEF ReleaseError, NextMessage, Goto, PcValues
<1>24. CASE AckError(w)
  BY <1>0, <1>24, FaultsTyped DEF AckError, NextMessage, PcValues
<1>25. CASE Crash(w)
  BY <1>0, <1>25, FaultsTyped DEF Crash, PcValues
<1> QED
  BY <1>1, <1>2, <1>3, <1>4, <1>5, <1>6, <1>7, <1>8, <1>9, <1>10, <1>11, <1>12, <1>13, <1>14, <1>15,
     <1>16, <1>17, <1>18, <1>19, <1>20, <1>21, <1>22, <1>23, <1>24, <1>25 DEF WorkerStep, WorkerFault

\* The keys and their notifications, and the instances still to be enqueued.
LEMMA WorkerKeys ==
  ASSUME AInv, ControlOK, NEW w \in Workers, WorkerStep(w) \/ WorkerFault(w)
  PROVE  api' = api /\ notif' = notif /\ rkey' \subseteq Instances
<1>1. api' = api /\ notif' = notif
  BY DEF WorkerStep, WorkerFault, Claim, ClaimBusy, EnsureWaitingTimer, MarkStepRunning, FinishInstance,
     OptimisticLock, AppendStepHistory, ExecuteStep, CompleteStepHistory, ClearTimerRow, ClearTimerKey,
     SaveResult, Enqueue, StreamFull, ScheduleTimerRow, ScheduleTimerKey, FireTimerRow, FireTimerKey,
     Release, Ack, ClaimError, StoreError, ReleaseError, AckError, Crash, timerVars
<1>2. rkey' = rkey \/ rkey' = rkey \ {Id(w)} \/ (pc[w] = "setKey" /\ rkey' = rkey \cup {Id(w)})
  BY DEF WorkerStep, WorkerFault, Claim, ClaimBusy, EnsureWaitingTimer, MarkStepRunning, FinishInstance,
     OptimisticLock, AppendStepHistory, ExecuteStep, CompleteStepHistory, ClearTimerRow, ClearTimerKey,
     SaveResult, Enqueue, StreamFull, ScheduleTimerRow, ScheduleTimerKey, FireTimerRow, FireTimerKey,
     Release, Ack, ClaimError, StoreError, ReleaseError, AckError, Crash, timerVars, ClearKey, SetKey
<1>3. pc[w] = "setKey" => Id(w) \in Instances
  BY DEF AInv, IInv, Shape, JobsOK, Message, Id
<1> QED
  BY <1>1, <1>2, <1>3 DEF ControlOK

LEMMA StepControl == AInv /\ ControlOK /\ [Next]_vars => ControlOK'
<1> SUFFICES ASSUME AInv, ControlOK, [Next]_vars PROVE ControlOK'
  OBVIOUS
<1> USE DEF dbVars, timerVars, engineVars
<1>1. ASSUME NEW w \in Workers, Consume(w) \/ ReclaimPending(w) PROVE ControlOK'
  BY <1>1 DEF Consume, ReclaimPending, ControlOK
<1>2. ASSUME NEW w \in Workers, WorkerStep(w) \/ WorkerFault(w) PROVE ControlOK'
  BY <1>2, WorkerControl, WorkerKeys DEF ControlOK
<1>3. ASSUME NEW i \in Instances, ApiCreate(i) \/ ApiEnqueue(i) \/ Elapse(i) \/ OrphanExpires(i)
      PROVE  ControlOK'
  BY <1>3 DEF ApiCreate, ApiEnqueue, Elapse, OrphanExpires, ControlOK
<1>4. ASSUME NEW i \in Instances, ApiFails(i) \/ HolderExpires(i) PROVE ControlOK'
  BY <1>4, FaultsTyped DEF ApiFails, HolderExpires, ControlOK
<1>5. ASSUME NEW i \in Instances, KeyExpiry(i) PROVE ControlOK'
  BY <1>5 DEF KeyExpiry, KeyExpires, ControlOK
<1>6. ASSUME NEW a \in Agents, AgentStep(a) PROVE ControlOK'
  BY <1>6 DEF AgentStep, Poll, Notified, AgentClearKey, AgentEnqueue, ClearKey, ControlOK
<1>7. ASSUME NEW a \in Agents, AgentError(a) PROVE ControlOK'
  BY <1>7, FaultsTyped DEF AgentError, AgentFails, ControlOK
<1>8. CASE RecoverList \/ RecoverEnqueue
  BY <1>8 DEF RecoverList, RecoverEnqueue, ControlOK
<1>9. CASE RecoverFails
  BY <1>9, FaultsTyped DEF RecoverFails, ControlOK
<1>10. CASE Done \/ UNCHANGED vars
  BY <1>10 DEF Done, vars, ControlOK
<1> QED
  BY <1>1, <1>2, <1>3, <1>4, <1>5, <1>6, <1>7, <1>8, <1>9, <1>10 DEF Next

-----------------------------------------------------------------------------
(* What the workers hold in memory *)

\* The stored contents are contents: what StoredReferencesAreSteps says of the rows.
StoredTyped ==
  /\ \A i \in Instances : rows[i].inst \in Content
  /\ past \in [Instances -> SUBSET (StepIds \X Nat)]
  /\ keySeq \in Nat

LEMMA StoredIsTyped == Rows!ExecTypeOK => StoredTyped
<1> SUFFICES ASSUME Rows!ExecTypeOK PROVE StoredTyped
  OBVIOUS
<1>1. Rows!Content = Content
  BY DEF Rows!Content, Content, Rows!InstanceStatuses, InstanceStatuses, Rows!Refs, Refs,
     Rows!StepIds, StepIds, Rows!NoStep, NoStep, Rows!StepState, StepState, Rows!StepStatuses,
     StepStatuses, Rows!ForkIds, ForkIds, Rows!ForkState, ForkState
<1>2. [i \in Instances |-> rows[i].inst] \in [Instances -> Content]
  BY <1>1 DEF Rows!ExecTypeOK
<1>3. \A i \in Instances : rows[i].inst \in Content
  BY <1>2
<1>4. past \in [Instances -> SUBSET (StepIds \X Nat)] /\ keySeq \in Nat
  BY DEF Rows!ExecTypeOK, Rows!StepIds, StepIds
<1> QED
  BY <1>3, <1>4 DEF StoredTyped

\* A worker's copy and result have their types, and it schedules a timer for a step only.
JobTyped(w) ==
  /\ job[w].msg \in Message \cup {NoMsg}
  /\ job[w].inst \in Content
  /\ job[w].out \in Outcome
  /\ pc[w] = "schedule" => Cur(w) \in StepIds

LEMMA NewIsContent ==
  ASSUME NEW status \in InstanceStatuses \cup {"absent"} PROVE NewRuntimeState(status) \in Content
<1>1. NoState \in StepState
  BY DEF NoState, StepState, StepStatuses, Refs
<1>2. NoFork \in ForkState
  <2>1. <<>> \in Seq([cur : Refs, status : {"pending", "running", "completed", "failed"}])
    OBVIOUS
  <2> QED
    BY <2>1 DEF NoFork, ForkState, Refs
<1>3. [s \in StepIds |-> NoState] \in [StepIds -> StepState]
  BY <1>1
<1>4. [f \in ForkIds |-> NoFork] \in [ForkIds -> ForkState]
  BY <1>2
<1>5. <<>> \in Seq(StepIds)
  OBVIOUS
<1> QED
  BY <1>3, <1>4, <1>5 DEF NewRuntimeState, Content, Refs

\* What the executor returns names steps of the definition.
LEMMA ExecuteTyped ==
  ASSUME NEW c, c.cur \in StepIds, c.steps[c.cur].attempt \in Nat, c.steps[c.cur].prev \in Nat,
         NEW reached, NEW out \in Execute(c, reached)
  PROVE  out \in Outcome
<1>1. PICK n \in DOMAIN Steps : Steps[n].id = c.cur /\ StepByID(c.cur) = Steps[n]
  BY StepIsOne
<1>2. PICK step : step = Steps[n]
  OBVIOUS
<1>3. /\ step.type \in StepTypes /\ step.next \in Refs /\ step.then \in Refs /\ step.else \in Refs
      /\ step.branches \in Seq(StepIds)
  BY <1>2, StepsAreTyped
<1>4. NoStep \in Refs /\ StepIds \subseteq Refs
  BY DEF Refs
<1>5. \A next \in Refs : Succeeds(next) \in Outcome
  BY DEF Succeeds, Outcome
<1>6. Fails \in Outcome
  BY <1>4 DEF Fails, Outcome
<1>7. \A time \in Nat : Waits(time) \in Outcome
  BY <1>4 DEF Waits, Outcome
<1>8. CASE step.type \in {"http_request", "transform"}
  BY <1>1, <1>2, <1>4, <1>5, <1>6, <1>8 DEF Execute, executeHTTPRequest, executeTransform
<1>9. CASE step.type = "condition"
  BY <1>1, <1>2, <1>3, <1>5, <1>6, <1>9 DEF Execute, executeCondition
<1>10. CASE step.type = "delay"
  <2>1. out = DelayResult(c.cur, c.steps[c.cur], reached)
    BY <1>1, <1>2, <1>10 DEF Execute
  <2> QED
    BY <1>4, <1>5, <1>7, <2>1 DEF DelayResult
<1>11. CASE step.type = "fork"
  <2>1. step.branches # <<>>
    BY <1>2, <1>11, StepsAssumption DEF WellFormed
  <2>2. Head(step.branches) \in StepIds
    BY <1>3, <2>1
  <2>3. out = Succeeds(Head(step.branches))
    BY <1>1, <1>2, <1>11 DEF Execute, executeFork
  <2> QED
    BY <1>4, <1>5, <2>2, <2>3
<1>12. CASE step.type = "join"
  BY <1>1, <1>2, <1>3, <1>5, <1>12 DEF Execute, executeJoin
<1> QED
  BY <1>3, <1>8, <1>9, <1>10, <1>11, <1>12 DEF StepTypes

\* A stored result that waits keeps the step it waits for.
LEMMA WaitingKeepsStep ==
  ASSUME NEW c, IsContent(c), c.cur \in StepIds,
         NEW out, out.kind \in {"success", "waiting", "error"}, NEW d, d = HandleResult(c, out),
         d.status = "waiting_timer"
  PROVE  d.cur = c.cur
<1>1. CASE out.kind = "waiting"
  BY <1>1, WaitingContent DEF HandleResult
<1>2. CASE out.kind = "success" /\ c.status = "compensating"
  BY <1>2, CompensationContent DEF HandleResult
<1>3. CASE out.kind = "success" /\ c.status # "compensating"
  BY <1>3, SuccessContent DEF HandleResult
<1>4. CASE out.kind = "error" /\ c.status = "compensating"
  BY <1>4, CompensationFailureContent DEF HandleResult
<1>5. CASE out.kind = "error" /\ c.status # "compensating"
  BY <1>5, FailureContent DEF HandleResult
<1> QED
  BY <1>1, <1>2, <1>3, <1>4, <1>5

\* The calls that leave the copies alone.
LEMMA CallTyped ==
  ASSUME AInv, StoredTyped, NEW w \in Workers, JobTyped(w),
         \/ EnsureWaitingTimer(w) \/ OptimisticLock(w) \/ AppendStepHistory(w)
         \/ CompleteStepHistory(w) \/ ClearTimerRow(w) \/ ClearTimerKey(w) \/ StreamFull(w)
         \/ ScheduleTimerRow(w) \/ ScheduleTimerKey(w) \/ FireTimerRow(w) \/ FireTimerKey(w)
         \/ StoreError(w) \/ Enqueue(w)
  PROVE  JobTyped(w)'
<1>0. UNCHANGED job /\ IsFun(pc, Workers)
  BY CallActions, EnqueueAction DEF CallStep, AInv, IInv, Shape, JobsOK
<1>1. pc'[w] = "schedule" => EnsureWaitingTimer(w)
  BY <1>0 DEF OptimisticLock, AppendStepHistory, CompleteStepHistory, ClearTimerRow,
         ClearTimerKey, StreamFull, ScheduleTimerRow, ScheduleTimerKey, FireTimerRow, FireTimerKey,
         StoreError, Enqueue, Reply, Goto, IsFun
<1>2. ASSUME EnsureWaitingTimer(w) PROVE Cur(w) \in StepIds
  <2>1. Cur(w) # NoStep
    BY <1>2 DEF EnsureWaitingTimer, WaitingOnTimer, Cur
  <2>2. Cur(w) \in Refs
    BY DEF JobTyped, Content, Cur
  <2> QED
    BY <2>1, <2>2 DEF Refs
<1>3. Cur(w)' = Cur(w)
  BY <1>0 DEF Cur
<1> QED
  BY <1>0, <1>1, <1>2, <1>3 DEF JobTyped

LEMMA ExecuteJobTyped ==
  ASSUME AInv, RunOK, NEW w \in Workers, JobTyped(w), ExecuteStep(w) PROVE JobTyped(w)'
<1>1. PICK out \in Execute(job[w].inst, past[Id(w)]) : job' = [job EXCEPT ![w].out = out]
  BY DEF ExecuteStep
<1>2. pc[w] = "execute" /\ pc'[w] = "complete"
  BY DEF ExecuteStep, Goto, AInv, IInv, Shape, JobsOK, IsFun
<1>3. job'[w].msg = job[w].msg /\ job'[w].inst = job[w].inst /\ job'[w].out = out
  BY <1>1 DEF AInv, IInv, Shape, JobsOK, IsFun, IsJob
<1>4. PICK c \in Content : c = job[w].inst
  BY DEF JobTyped
<1>5. c.cur \in StepIds
  BY <1>2, <1>4 DEF AInv, ContentOK, Cur, Marked
<1>6. c.steps[c.cur] \in StepState
  BY <1>5 DEF Content
<1>7. c.steps[c.cur].attempt \in Nat /\ c.steps[c.cur].prev \in Nat
  BY <1>6 DEF StepState
<1>8. out \in Outcome
  BY <1>1, <1>4, <1>5, <1>7, ExecuteTyped
<1> QED
  BY <1>2, <1>3, <1>8 DEF JobTyped

LEMMA SaveJobTyped ==
  ASSUME AInv, RunOK, StoredTyped', NEW w \in Workers, JobTyped(w),
         MarkStepRunning(w) \/ FinishInstance(w) \/ SaveResult(w)
  PROVE  JobTyped(w)'
<1>1. PICK inst :
        /\ Save(w, inst) /\ pc[w] \in Advancing
        /\ MarkStepRunning(w) \/ FinishInstance(w)
           \/ (SaveResult(w) /\ inst = HandleResult(job[w].inst, job[w].out))
  BY SavedContent
<1>2. Id(w) \in Instances /\ rows'[Id(w)].inst = inst
  BY <1>1, SaveFacts
<1>3. job'[w] = [msg |-> job[w].msg, inst |-> inst, version |-> job[w].version + 1, out |-> job[w].out]
  BY <1>1, SaveEffect DEF AInv, IInv, Advancing, Marked, Resulted
<1>4. inst \in Content
  BY <1>2 DEF StoredTyped
<1>5. ASSUME pc'[w] = "schedule" PROVE inst.cur \in StepIds
  <2>0. IsFun(pc, Workers)
    BY DEF AInv, IInv, Shape, JobsOK
  <2>1. ~ MarkStepRunning(w) /\ ~ FinishInstance(w)
    BY <1>5, <2>0 DEF MarkStepRunning, FinishInstance, Reply, Goto, IsFun
  <2>2. SaveResult(w) /\ inst = HandleResult(job[w].inst, job[w].out)
    BY <1>1, <2>1
  <2>3. pc[w] = "update" /\ AfterUpdate(inst.status) = "schedule"
    BY <1>5, <2>0, <2>2 DEF SaveResult, Reply, Goto, IsFun
  <2>4. /\ IsContent(job[w].inst) /\ job[w].inst.cur \in StepIds
        /\ job[w].out.kind \in {"success", "waiting", "error"}
    BY <2>3 DEF AInv, ContentOK, Cur, Advancing, Marked, Resulted
  <2>5. inst.status \in ResultStatuses
    BY <2>2, <2>4, ResultContent
  <2>6. inst.status = "waiting_timer"
    BY <2>3, <2>5 DEF AfterUpdate, ResultStatuses, Terminal
  <2> QED
    BY <2>2, <2>4, <2>6, WaitingKeepsStep
<1> QED
  BY <1>3, <1>4, <1>5 DEF JobTyped, Cur

LEMMA ClaimJobTyped ==
  ASSUME AInv, StoredTyped, NEW w \in Workers, Claim(w) \/ ClaimBusy(w) PROVE JobTyped(w)'
<1>0. IsFun(pc, Workers) /\ IsFun(job, Workers) /\ \A m \in batch[w] : m \in Message /\ m.inst \in Instances
  BY DEF AInv, IInv, Shape, JobsOK, MessagesOK, StreamTypeOK, Message
<1>1. CASE Claim(w)
  <2>1. PICK m \in batch[w] :
          /\ job' = [job EXCEPT ![w] = [NoJob EXCEPT !.msg = m, !.inst = rows[m.inst].inst,
                                                     !.version = rows[m.inst].version]]
          /\ pc' = [pc EXCEPT ![w] = "advance"]
    BY <1>1 DEF Claim, Goto
  <2>2. m \in Message /\ rows[m.inst].inst \in Content
    BY <1>0 DEF StoredTyped
  <2>3. job'[w].msg = m /\ job'[w].inst = rows[m.inst].inst /\ job'[w].out = Fails
    BY <1>0, <2>1 DEF IsFun, NoJob
  <2>4. Fails \in Outcome
    BY DEF Fails, Outcome, Refs
  <2>5. pc'[w] = "advance"
    BY <1>0, <2>1 DEF IsFun
  <2> QED
    BY <2>2, <2>3, <2>4, <2>5 DEF JobTyped
<1>2. CASE ClaimBusy(w)
  <2>1. PICK m \in batch[w] : /\ job' = [job EXCEPT ![w] = [NoJob EXCEPT !.msg = m]]
                              /\ pc' = [pc EXCEPT ![w] = "ack"]
    BY <1>2 DEF ClaimBusy, Goto
  <2>2. m \in Message /\ Absent \in Content
    BY <1>0, NewIsContent DEF Absent
  <2>3. job'[w].msg = m /\ job'[w].inst = Absent /\ job'[w].out = Fails
    BY <1>0, <2>1 DEF IsFun, NoJob
  <2>4. Fails \in Outcome
    BY DEF Fails, Outcome, Refs
  <2>5. pc'[w] = "ack"
    BY <1>0, <2>1 DEF IsFun
  <2> QED
    BY <2>2, <2>3, <2>4, <2>5 DEF JobTyped
<1> QED
  BY <1>1, <1>2

LEMMA IdleJobTyped ==
  ASSUME NEW w \in Workers, IsFun(job, Workers), IsFun(pc, Workers),
         pc' = [pc EXCEPT ![w] = "idle"], job' = [job EXCEPT ![w] = NoJob]
  PROVE  JobTyped(w)'
<1>1. Absent \in Content /\ Fails \in Outcome
  BY NewIsContent DEF Absent, Fails, Outcome, Refs
<1>2. job'[w].msg = NoMsg /\ job'[w].inst = Absent /\ job'[w].out = Fails /\ pc'[w] = "idle"
  BY DEF IsFun, NoJob
<1> QED
  BY <1>1, <1>2 DEF JobTyped

LEMMA LeaveJobTyped ==
  ASSUME AInv, NEW w \in Workers, JobTyped(w),
         Release(w) \/ ReleaseError(w) \/ Ack(w) \/ AckError(w) \/ Crash(w) \/ ClaimError(w)
  PROVE  JobTyped(w)'
<1>0. IsFun(pc, Workers) /\ IsFun(job, Workers)
  BY DEF AInv, IInv, Shape, JobsOK
<1>1. CASE pc' = [pc EXCEPT ![w] = "idle"] /\ job' = [job EXCEPT ![w] = NoJob]
  BY <1>0, <1>1, IdleJobTyped
<1>2. CASE pc' = [pc EXCEPT ![w] = "ack"] /\ job' = job
  BY <1>0, <1>2 DEF JobTyped, IsFun
<1>3. CASE pc' = pc /\ job' = job
  BY <1>3 DEF JobTyped, Cur
<1> QED
  BY <1>1, <1>2, <1>3 DEF Release, ReleaseError, Ack, AckError, Crash, ClaimError, NextMessage, Goto

LEMMA OtherJobs ==
  ASSUME AInv, NEW w \in Workers, WorkerStep(w) \/ WorkerFault(w), NEW x \in Workers \ {w}
  PROVE  pc'[x] = pc[x] /\ job'[x] = job[x]
<1>0. IsFun(pc, Workers) /\ IsFun(job, Workers)
  BY DEF AInv, IInv, Shape, JobsOK
<1>1. pc' = pc \/ \E to : pc' = [pc EXCEPT ![w] = to]
  BY DEF WorkerStep, WorkerFault, Claim, ClaimBusy, EnsureWaitingTimer, MarkStepRunning, FinishInstance,
     OptimisticLock, AppendStepHistory, ExecuteStep, CompleteStepHistory, ClearTimerRow, ClearTimerKey,
     SaveResult, Enqueue, StreamFull, ScheduleTimerRow, ScheduleTimerKey, FireTimerRow, FireTimerKey,
     Release, Ack, ClaimError, StoreError, ReleaseError, AckError, Crash, Reply, Goto, NextMessage
<1>2. \/ job' = job \/ \E j : job' = [job EXCEPT ![w] = j]
      \/ ExecuteStep(w) \/ MarkStepRunning(w) \/ FinishInstance(w) \/ SaveResult(w)
  BY DEF WorkerStep, WorkerFault, Claim, ClaimBusy, EnsureWaitingTimer,
     OptimisticLock, AppendStepHistory, CompleteStepHistory, ClearTimerRow, ClearTimerKey,
     Enqueue, StreamFull, ScheduleTimerRow, ScheduleTimerKey, FireTimerRow, FireTimerKey,
     Release, Ack, ClaimError, StoreError, ReleaseError, AckError, Crash, NextMessage
<1>3. CASE ExecuteStep(w)
  <2>1. \E out : job' = [job EXCEPT ![w].out = out]
    BY <1>3 DEF ExecuteStep
  <2> QED
    BY <1>0, <1>1, <2>1 DEF IsFun
<1>4. CASE MarkStepRunning(w) \/ FinishInstance(w) \/ SaveResult(w)
  <2>1. \E inst : job' = [job EXCEPT ![w].inst = inst, ![w].version = job[w].version + 1]
    BY <1>4 DEF MarkStepRunning, FinishInstance, SaveResult, Save
  <2> QED
    BY <1>0, <1>1, <2>1 DEF IsFun
<1>5. CASE job' = job \/ \E j : job' = [job EXCEPT ![w] = j]
  BY <1>0, <1>1, <1>5 DEF IsFun
<1> QED
  BY <1>2, <1>3, <1>4, <1>5

LEMMA StepJobs ==
  ASSUME AInv, RunOK, StoredTyped, StoredTyped', [Next]_vars, \A w \in Workers : JobTyped(w)
  PROVE  \A w \in Workers : JobTyped(w)'
<1>1. CASE UNCHANGED <<pc, job>>
  BY <1>1 DEF JobTyped, Cur
<1>2. ASSUME NEW w \in Workers, WorkerStep(w) \/ WorkerFault(w) PROVE \A x \in Workers : JobTyped(x)'
  <2>1. JobTyped(w)'
    BY <1>2, CallTyped, ExecuteJobTyped, SaveJobTyped, ClaimJobTyped, LeaveJobTyped
       DEF WorkerStep, WorkerFault
  <2>2. ASSUME NEW x \in Workers \ {w} PROVE JobTyped(x)'
    BY <1>2, OtherJobs DEF JobTyped, Cur
  <2> QED
    BY <2>1, <2>2
<1>3. ASSUME NEW w \in Workers, Consume(w) \/ ReclaimPending(w) PROVE UNCHANGED <<pc, job>>
  BY <1>3 DEF Consume, ReclaimPending, engineVars
<1>4. ASSUME Environment \/ \E j \in Instances : ApiCreate(j) PROVE UNCHANGED <<pc, job>>
  BY <1>4, EnvironmentRows DEF ApiCreate, AInv, IInv, Shape
<1> QED
  BY <1>1, <1>2, <1>3, <1>4 DEF Next, Done, Environment

-----------------------------------------------------------------------------
(* The leases, the timers, the history and the effects *)

Lock(r) == r.lockedBy \in Workers \cup {Nobody, Orphan} /\ r.live \in BOOLEAN

\* A lease is free, held by a worker, or orphaned.
LocksOK == \A i \in Instances : Lock(rows[i])

LEMMA LeaseLocks ==
  ASSUME RowsOK, LocksOK, NEW i \in Instances, NEW owner \in Workers \cup {Orphan},
         \/ ClaimInstance(i, owner) \/ ReleaseInstance(i, owner)
         \/ LeaseExpires(i) \/ rows' = Abandoned(owner) \/ UNCHANGED rows
  PROVE  LocksOK'
<1>0. IsFun(rows, Instances) /\ IsRow(rows[i])
  BY DEF RowsOK
<1>1. CASE rows' = [rows EXCEPT ![i].lockedBy = Nobody, ![i].live = FALSE]
  <2>1. \A x \in Instances \ {i} : rows'[x] = rows[x]
    BY <1>0, <1>1 DEF IsFun
  <2>2. rows'[i] = [inst |-> rows[i].inst, version |-> rows[i].version, lockedBy |-> Nobody, live |-> FALSE]
    BY <1>0, <1>1 DEF IsFun, IsRow
  <2>3. rows'[i].lockedBy = Nobody /\ rows'[i].live = FALSE
    BY <2>2
  <2>4. rows'[i].lockedBy \in Workers \cup {Nobody, Orphan}
    BY <2>3 DEF LocksOK, Lock
  <2>5. rows'[i].live \in BOOLEAN
    BY <2>3
  <2> QED
    BY <2>1, <2>4, <2>5 DEF LocksOK, Lock
<1>2. CASE ClaimInstance(i, owner)
  <2>0. rows' = [rows EXCEPT ![i].lockedBy = owner, ![i].live = TRUE]
    BY <1>2 DEF ClaimInstance
  <2>1. \A x \in Instances \ {i} : rows'[x] = rows[x]
    BY <1>0, <2>0 DEF IsFun
  <2>2. rows'[i] = [inst |-> rows[i].inst, version |-> rows[i].version, lockedBy |-> owner, live |-> TRUE]
    BY <1>0, <2>0 DEF IsFun, IsRow
  <2>3. rows'[i].lockedBy = owner /\ rows'[i].live = TRUE
    BY <2>2
  <2>4. rows'[i].lockedBy \in Workers \cup {Nobody, Orphan}
    BY <2>3 DEF LocksOK, Lock
  <2>5. rows'[i].live \in BOOLEAN
    BY <2>3
  <2> QED
    BY <2>1, <2>4, <2>5 DEF LocksOK, Lock
<1>3. CASE LeaseExpires(i)
  <2>0. rows' = [rows EXCEPT ![i].live = FALSE]
    BY <1>3 DEF LeaseExpires
  <2>1. \A x \in Instances \ {i} : rows'[x] = rows[x]
    BY <1>0, <2>0 DEF IsFun
  <2>2. rows'[i] = [inst |-> rows[i].inst, version |-> rows[i].version, lockedBy |-> rows[i].lockedBy, live |-> FALSE]
    BY <1>0, <2>0 DEF IsFun, IsRow
  <2>3. rows'[i].lockedBy = rows[i].lockedBy /\ rows'[i].live = FALSE
    BY <2>2
  <2>4. rows'[i].lockedBy \in Workers \cup {Nobody, Orphan}
    BY <2>3 DEF LocksOK, Lock
  <2>5. rows'[i].live \in BOOLEAN
    BY <2>3
  <2> QED
    BY <2>1, <2>4, <2>5 DEF LocksOK, Lock
<1>4. CASE rows' = Abandoned(owner)
  <2> SUFFICES ASSUME NEW x \in Instances PROVE Lock(rows'[x])
    BY DEF LocksOK
  <2>1. rows'[x] = IF rows[x].lockedBy = owner THEN [rows[x] EXCEPT !.lockedBy = Orphan] ELSE rows[x]
    BY <1>4 DEF Abandoned
  <2>2. IsRow(rows[x]) /\ Lock(rows[x])
    BY DEF RowsOK, LocksOK
  <2> QED
    BY <2>1, <2>2 DEF IsRow, Lock
<1>5. CASE UNCHANGED rows
  BY <1>5 DEF LocksOK
<1> QED
  BY <1>1, <1>2, <1>3, <1>4, <1>5 DEF ReleaseInstance

LEMMA StepLocks ==
  ASSUME AInv, RunOK, LocksOK, [Next]_vars PROVE LocksOK'
<1>0. RowsOK /\ IInv
  BY DEF AInv, IInv, Shape
<1>1. CASE UNCHANGED rows
  BY <1>1 DEF LocksOK
<1>2. ASSUME NEW i \in Instances, NEW owner \in Workers \cup {Orphan},
             \/ ClaimInstance(i, owner) \/ ReleaseInstance(i, owner)
             \/ LeaseExpires(i) \/ rows' = Abandoned(owner)
      PROVE  LocksOK'
  BY <1>0, <1>2, LeaseLocks
<1>3. ASSUME NEW w \in Workers, NEW m \in batch[w],
             ClaimInstance(m.inst, w) \/ ClaimInstance(m.inst, Orphan)
      PROVE  LocksOK'
  <2>1. m.inst \in Instances
    BY DEF AInv, IInv, Shape, MessagesOK, StreamTypeOK
  <2> QED
    BY <1>2, <1>3, <2>1
<1>4. ASSUME NEW w \in Workers, Release(w) \/ ReleaseError(w) \/ Crash(w) PROVE LocksOK'
  <2>1. CASE rows' = Abandoned(w)
    <3>1. CASE Instances = {}
      BY <3>1 DEF LocksOK
    <3> QED
      BY <1>2, <2>1, <3>1
  <2>2. CASE Release(w)
    <3>1. Id(w) \in Instances
      BY <2>2 DEF Release, AInv, IInv, Shape, JobsOK, Message, Id
    <3> QED
      BY <1>2, <2>2, <3>1 DEF Release
  <2> QED
    BY <1>4, <2>1, <2>2 DEF ReleaseError, Crash
<1>5. ASSUME NEW w \in Workers, MarkStepRunning(w) \/ FinishInstance(w) \/ SaveResult(w) PROVE LocksOK'
  <2>1. PICK inst : Save(w, inst) /\ pc[w] \in Advancing
    BY <1>5, SavedContent
  <2>2. /\ Id(w) \in Instances
        /\ \A i \in Instances \ {Id(w)} : rows'[i] = rows[i]
        /\ rows'[Id(w)] = [inst |-> inst, version |-> rows[Id(w)].version + 1,
                           lockedBy |-> rows[Id(w)].lockedBy, live |-> rows[Id(w)].live]
    BY <1>0, <2>1, SaveEffect DEF IInv, Advancing, Marked, Resulted
  <2> QED
    BY <2>2 DEF LocksOK, Lock
<1>6. ASSUME NEW i \in Instances, ApiCreate(i) PROVE LocksOK'
  <2>1. \A j \in Instances \ {i} : rows'[j] = rows[j]
    BY <1>6, CreatedRow
  <2>2. IsFun(rows, Instances) /\ IsRow(rows[i])
    BY <1>0 DEF RowsOK
  <2>3. rows' = [rows EXCEPT ![i].inst = NewRuntimeState("pending"), ![i].version = 1]
    BY <1>6 DEF ApiCreate, CreateInstance
  <2>4. rows'[i].lockedBy = rows[i].lockedBy /\ rows'[i].live = rows[i].live
    BY <2>2, <2>3 DEF IsFun, IsRow
  <2> QED
    BY <2>1, <2>4 DEF LocksOK, Lock
<1>7. ASSUME NEW w \in Workers, WorkerStep(w) \/ WorkerFault(w)
      PROVE  \/ UNCHANGED rows
             \/ \E m \in batch[w] : ClaimInstance(m.inst, w) \/ ClaimInstance(m.inst, Orphan)
             \/ Release(w) \/ ReleaseError(w) \/ Crash(w)
             \/ MarkStepRunning(w) \/ FinishInstance(w) \/ SaveResult(w)
  BY <1>7 DEF WorkerStep, WorkerFault, Claim, ClaimBusy, EnsureWaitingTimer,
     OptimisticLock, AppendStepHistory, ExecuteStep, CompleteStepHistory, ClearTimerRow, ClearTimerKey,
     Enqueue, StreamFull, ScheduleTimerRow, ScheduleTimerKey, FireTimerRow, FireTimerKey,
     Ack, ClaimError, StoreError, AckError, dbVars
<1>8. ASSUME NEW w \in Workers, Consume(w) \/ ReclaimPending(w) PROVE UNCHANGED rows
  BY <1>8 DEF Consume, ReclaimPending, dbVars
<1>9. ASSUME Environment PROVE UNCHANGED rows \/ \E i \in Instances : LeaseExpires(i)
  BY <1>9 DEF Environment, ApiEnqueue, ApiFails, KeyExpiry, KeyExpires, Elapse, OrphanExpires,
     HolderExpires, AgentStep, AgentError, Poll, Notified, AgentClearKey, AgentEnqueue, AgentFails,
     RecoverList, RecoverEnqueue, RecoverFails, vars, dbVars
<1>10. ASSUME NEW i \in Instances, LeaseExpires(i) PROVE LocksOK'
  BY <1>2, <1>10
<1> QED
  BY <1>1, <1>3, <1>4, <1>5, <1>6, <1>7, <1>8, <1>9, <1>10 DEF Next, Done, Environment

TimersOK == timers \in [Instances -> [step : Refs, fireAt : Nat]]

LEMMA NoTimerTyped == NoTimer \in [step : Refs, fireAt : Nat]
BY DEF NoTimer, Refs

LEMMA StepTimers ==
  ASSUME AInv, \A w \in Workers : JobTyped(w), TimersOK, [Next]_vars PROVE TimersOK'
<1>1. CASE UNCHANGED timers
  BY <1>1 DEF TimersOK
<1>2. ASSUME NEW i, timers' = [timers EXCEPT ![i] = NoTimer] PROVE TimersOK'
  BY <1>2, NoTimerTyped DEF TimersOK
<1>3. ASSUME NEW claimed, timers' = [i \in Instances |-> IF i \in claimed THEN NoTimer ELSE timers[i]]
      PROVE  TimersOK'
  BY <1>3, NoTimerTyped DEF TimersOK
<1>4. ASSUME NEW w \in Workers, ScheduleTimerRow(w) PROVE TimersOK'
  <2>1. pc[w] = "schedule"
    BY <1>4 DEF ScheduleTimerRow
  <2>2. timers' = [timers EXCEPT ![Id(w)] = [step |-> Cur(w), fireAt |-> job[w].inst.steps[Cur(w)].waiting]]
    BY <1>4 DEF ScheduleTimerRow, UpsertTimer
  <2>3. Cur(w) \in StepIds /\ job[w].inst \in Content
    BY <2>1 DEF JobTyped
  <2>4. job[w].inst.steps[Cur(w)] \in StepState
    BY <2>3 DEF Content
  <2>5. job[w].inst.steps[Cur(w)].waiting \in Nat
    BY <2>4 DEF StepState
  <2>6. [step |-> Cur(w), fireAt |-> job[w].inst.steps[Cur(w)].waiting] \in [step : Refs, fireAt : Nat]
    BY <2>3, <2>5 DEF Refs
  <2> QED
    BY <2>2, <2>6 DEF TimersOK
<1>5. ASSUME NEW w \in Workers, WorkerStep(w) \/ WorkerFault(w)
      PROVE  UNCHANGED timers \/ ScheduleTimerRow(w) \/ \E i : timers' = [timers EXCEPT ![i] = NoTimer]
  BY <1>5 DEF WorkerStep, WorkerFault, Claim, ClaimBusy, EnsureWaitingTimer, MarkStepRunning, FinishInstance,
     OptimisticLock, AppendStepHistory, ExecuteStep, CompleteStepHistory, ClearTimerRow, ClearTimerKey,
     SaveResult, Enqueue, StreamFull, ScheduleTimerKey, FireTimerRow, FireTimerKey,
     Release, Ack, ClaimError, StoreError, ReleaseError, AckError, Crash, dbVars, DeleteTimer, FireTimer
<1>6. ASSUME NEW w \in Workers, Consume(w) \/ ReclaimPending(w) PROVE UNCHANGED timers
  BY <1>6 DEF Consume, ReclaimPending, dbVars
<1>7. ASSUME Environment \/ \E j \in Instances : ApiCreate(j)
      PROVE  \/ UNCHANGED timers \/ \E i : timers' = [timers EXCEPT ![i] = NoTimer]
             \/ \E claimed : timers' = [i \in Instances |-> IF i \in claimed THEN NoTimer ELSE timers[i]]
  BY <1>7 DEF Environment, ApiCreate, ApiEnqueue, ApiFails, KeyExpiry, KeyExpires, Elapse, OrphanExpires,
     HolderExpires, AgentStep, AgentError, Poll, Notified, AgentClearKey, AgentEnqueue, AgentFails,
     RecoverList, RecoverEnqueue, RecoverFails, vars, dbVars, FireTimer, ClaimDueTimers
<1> QED
  BY <1>1, <1>2, <1>3, <1>4, <1>5, <1>6, <1>7 DEF Next, Done, Environment

LEMMA StepHistoryTyped ==
  ASSUME AInv, history \subseteq HistoryRow, [Next]_vars PROVE history' \subseteq HistoryRow
<1>0. \A w \in Workers : pc[w] \in Marked =>
        Attempt(w) \in Nat /\ Id(w) \in Instances /\ Cur(w) \in StepIds
  BY AttemptTypes
<1>1. CASE UNCHANGED history
  BY <1>1
<1>2. ASSUME NEW w \in Workers, AppendStepHistory(w) PROVE history' \subseteq HistoryRow
  <2>1. Attempt(w) \in Nat /\ Id(w) \in Instances /\ Cur(w) \in StepIds
    BY <1>0, <1>2 DEF AppendStepHistory, Marked
  <2>2. [inst |-> Id(w), step |-> Cur(w), attempt |-> Attempt(w), status |-> "running"] \in HistoryRow
    BY <2>1 DEF HistoryRow
  <2> QED
    BY <1>2, <2>2 DEF AppendStepHistory, AppendHistory
<1>3. ASSUME NEW w \in Workers, CompleteStepHistory(w) PROVE history' \subseteq HistoryRow
  <2>1. /\ Attempt(w) \in Nat /\ Id(w) \in Instances /\ Cur(w) \in StepIds
        /\ job[w].out.kind \in {"success", "waiting", "error"}
    BY <1>0, <1>3 DEF CompleteStepHistory, Marked, Resulted, AInv, ContentOK
  <2>2. PICK status \in {"success", "waiting_timer", "failed", "compensated"} : status = HistoryStatus(w)
    BY <2>1 DEF HistoryStatus
  <2>3. PICK row : row = [inst |-> Id(w), step |-> Cur(w), attempt |-> Attempt(w), status |-> "running"]
    OBVIOUS
  <2>4. history' = (history \ {row}) \cup {[row EXCEPT !.status = status]}
    BY <1>3, <2>2, <2>3 DEF CompleteStepHistory, CompleteHistory
  <2>5. [row EXCEPT !.status = status] \in HistoryRow
    BY <2>1, <2>2, <2>3 DEF HistoryRow
  <2> QED
    BY <2>4, <2>5
<1>4. ASSUME NEW w \in Workers, WorkerStep(w)
      PROVE  UNCHANGED history \/ AppendStepHistory(w) \/ CompleteStepHistory(w)
  BY <1>4 DEF WorkerStep, Claim, ClaimBusy, EnsureWaitingTimer, MarkStepRunning, FinishInstance,
     OptimisticLock, ExecuteStep, ClearTimerRow, ClearTimerKey, SaveResult, Enqueue, StreamFull,
     ScheduleTimerRow, ScheduleTimerKey, FireTimerRow, FireTimerKey, Release, Ack, dbVars
<1>5. ASSUME NEW w \in Workers, Consume(w) \/ ReclaimPending(w) \/ WorkerFault(w) PROVE UNCHANGED history
  BY <1>5 DEF Consume, ReclaimPending, WorkerFault, ClaimError, StoreError, ReleaseError, AckError,
     Crash, dbVars
<1>6. ASSUME Environment \/ \E j \in Instances : ApiCreate(j) PROVE UNCHANGED history
  BY <1>6 DEF Environment, ApiCreate, ApiEnqueue, ApiFails, KeyExpiry, KeyExpires, Elapse, OrphanExpires,
     HolderExpires, AgentStep, AgentError, Poll, Notified, AgentClearKey, AgentEnqueue, AgentFails,
     RecoverList, RecoverEnqueue, RecoverFails, vars, dbVars
<1> QED
  BY <1>1, <1>2, <1>3, <1>4, <1>5, <1>6 DEF Next, Done, Environment

EffectRow == [inst : Instances, step : StepIds, attempt : Nat, key : Nat, by : Workers]

LEMMA StepEffects ==
  ASSUME AInv, \A w \in Workers : JobTyped(w), effects \subseteq EffectRow, [Next]_vars
  PROVE  effects' \subseteq EffectRow
<1>1. CASE UNCHANGED effects
  BY <1>1
<1>2. ASSUME NEW w \in Workers, ExecuteStep(w) PROVE effects' \subseteq EffectRow
  <2>1. Attempt(w) \in Nat /\ Id(w) \in Instances /\ Cur(w) \in StepIds
    BY <1>2, AttemptTypes DEF ExecuteStep, Marked
  <2>2. job[w].inst \in Content
    BY DEF JobTyped
  <2>3. job[w].inst.steps[Cur(w)] \in StepState
    BY <2>1, <2>2 DEF Content
  <2>4. job[w].inst.steps[Cur(w)].key \in Nat
    BY <2>3 DEF StepState
  <2>5. [inst |-> Id(w), step |-> Cur(w), attempt |-> Attempt(w),
         key |-> job[w].inst.steps[Cur(w)].key, by |-> w] \in EffectRow
    BY <2>1, <2>4 DEF EffectRow
  <2> QED
    BY <1>2, <2>5 DEF ExecuteStep
<1>3. ASSUME NEW w \in Workers, MarkStepRunning(w) \/ FinishInstance(w) \/ SaveResult(w)
      PROVE  UNCHANGED effects
  BY <1>3 DEF MarkStepRunning, FinishInstance, SaveResult
<1>4. ASSUME NEW w \in Workers, Claim(w) PROVE UNCHANGED effects
  BY <1>4 DEF Claim
<1>5. ASSUME NEW i \in Instances, ApiCreate(i) PROVE UNCHANGED effects
  BY <1>5 DEF ApiCreate
<1> QED
  BY <1>1, <1>2, <1>3, <1>4, <1>5, StepKinds

-----------------------------------------------------------------------------
(* The types *)

DataOK ==
  /\ ControlOK
  /\ \A w \in Workers : JobTyped(w)
  /\ LocksOK
  /\ TimersOK
  /\ history \subseteq HistoryRow
  /\ effects \subseteq EffectRow

LEMMA InitData == Init => DataOK
<1> SUFFICES ASSUME Init PROVE DataOK
  OBVIOUS
<1>1. ControlOK
  BY InitControl
<1>2. Absent \in Content /\ Fails \in Outcome
  BY NewIsContent DEF Absent, Fails, Outcome, Refs
<1>3. ASSUME NEW w \in Workers PROVE JobTyped(w)
  BY <1>2 DEF Init, NoJob, JobTyped
<1>4. LocksOK
  BY DEF Init, DBInit, LocksOK, Lock
<1>5. TimersOK
  BY NoTimerTyped DEF Init, DBInit, TimersOK
<1> QED
  BY <1>1, <1>3, <1>4, <1>5 DEF Init, DBInit, DataOK

LEMMA StepData == AInv /\ RunOK /\ StoredTyped /\ StoredTyped' /\ DataOK /\ [Next]_vars => DataOK'
<1> SUFFICES ASSUME AInv, RunOK, StoredTyped, StoredTyped', DataOK, [Next]_vars PROVE DataOK'
  OBVIOUS
<1>1. ControlOK'
  BY StepControl DEF DataOK
<1>2. \A w \in Workers : JobTyped(w)'
  BY StepJobs DEF DataOK
<1>3. LocksOK'
  BY StepLocks DEF DataOK
<1>4. TimersOK'
  BY StepTimers DEF DataOK
<1>5. history' \subseteq HistoryRow
  BY StepHistoryTyped DEF DataOK
<1>6. effects' \subseteq EffectRow
  BY StepEffects DEF DataOK
<1> QED
  BY <1>1, <1>2, <1>3, <1>4, <1>5, <1>6 DEF DataOK, HistoryRow, EffectRow

LEMMA TypeParts ==
  ASSUME AInv, StoredTyped, DataOK PROVE TypeOK
<1>1. rows \in [Instances -> [inst : Content, version : Nat,
                              lockedBy : Workers \cup {Nobody, Orphan}, live : BOOLEAN]]
  <2>1. ASSUME NEW i \in Instances
        PROVE  rows[i] \in [inst : Content, version : Nat,
                            lockedBy : Workers \cup {Nobody, Orphan}, live : BOOLEAN]
    <3>1. PICK r : r = rows[i]
      OBVIOUS
    <3>2. r = [inst |-> r.inst, version |-> r.version, lockedBy |-> r.lockedBy, live |-> r.live]
      BY <3>1 DEF AInv, IInv, Shape, RowsOK, IsRow
    <3>3. r.version \in Nat
      BY <3>1 DEF AInv, IInv, Shape, RowsOK, IsRow
    <3>4. r.inst \in Content
      BY <3>1 DEF StoredTyped
    <3>5. r.lockedBy \in Workers \cup {Nobody, Orphan} /\ r.live \in BOOLEAN
      BY <3>1 DEF DataOK, LocksOK, Lock
    <3> QED
      BY <3>1, <3>2, <3>3, <3>4, <3>5
  <2>2. IsFun(rows, Instances)
    BY DEF AInv, IInv, Shape, RowsOK
  <2> QED
    BY <2>1, <2>2 DEF IsFun
<1>2. DBTypeOK
  BY <1>1 DEF DBTypeOK, DataOK, TimersOK
<1>3. StreamTypeOK(Instances, Workers) /\ recov \subseteq Instances
  BY DEF AInv, IInv, Shape, MessagesOK
<1>4. TimerTypeOK
  BY DEF TimerTypeOK, AInv, IInv, Shape, MessagesOK, AgentState, StoredTyped, DataOK, ControlOK
<1>5. job \in [Workers -> [msg : [id : MsgIds, inst : Instances] \cup {NoMsg},
                           inst : Content, version : Nat, out : Outcome]]
  <2>1. ASSUME NEW w \in Workers
        PROVE  job[w] \in [msg : [id : MsgIds, inst : Instances] \cup {NoMsg},
                           inst : Content, version : Nat, out : Outcome]
    <3>1. PICK j : j = job[w]
      OBVIOUS
    <3>2. j = [msg |-> j.msg, inst |-> j.inst, version |-> j.version, out |-> j.out]
      BY <3>1 DEF AInv, IInv, Shape, JobsOK, IsJob
    <3>3. j.version \in Nat
      BY <3>1 DEF AInv, IInv, Shape, JobsOK, IsJob
    <3>4. j.msg \in [id : MsgIds, inst : Instances] \cup {NoMsg}
      BY <3>1 DEF DataOK, JobTyped, Message
    <3>5. j.inst \in Content /\ j.out \in Outcome
      BY <3>1 DEF DataOK, JobTyped
    <3> QED
      BY <3>1, <3>2, <3>3, <3>4, <3>5
  <2>2. IsFun(job, Workers)
    BY DEF AInv, IInv, Shape, JobsOK
  <2> QED
    BY <2>1, <2>2 DEF IsFun
<1>6. pc \in [Workers -> PcValues] /\ api \subseteq Instances /\ faults \in 0 .. MaxFaults
  BY DEF DataOK, ControlOK
<1> QED
  BY <1>2, <1>3, <1>4, <1>5, <1>6 DEF TypeOK, StoredTyped, DataOK, EffectRow

\* Every variable of the engine, its stores and its timers has its type, for every
\* definition and any number of workers, agents, messages and faults: in particular every
\* message, timer row, history row and executed step names an instance and a step there is,
\* and a worker schedules a timer for a step only.
THEOREM EngineIsTyped == Spec => []TypeOK
<1>1. Spec => [](AInv /\ RunOK)
  BY InitAInv, StepAInv, InitRun, StepRun, PTL DEF Spec
<1>2. Spec => []StoredTyped
  BY StoredReferencesAreSteps, StoredIsTyped, PTL
<1>3. Spec => []DataOK
  BY <1>1, <1>2, InitData, StepData, PTL DEF Spec
<1>4. AInv /\ StoredTyped /\ DataOK => TypeOK
  BY TypeParts
<1> QED
  BY <1>1, <1>2, <1>3, <1>4, PTL

-----------------------------------------------------------------------------
(* The account of the attempts *)

IsDelay(s) == StepByID(s).type = "delay"

\* What step s may take without a fault after its retries; and what its retries and f
\* faults allow on top of that.
Cost(s) == IF IsDelay(s) THEN 2 ELSE 1
Budget(s, f) == IF IsDelay(s) THEN 2 * f ELSE StepByID(s).maxRetries + f

\* driving is the set of workers that execute the current attempt under its lease; stray
\* the set of those that are about to start another one although their lease has run out.
RunCount(state, s, f, driving, stray) ==
  /\ IsDelay(s) /\ state.prev = 0 => state.attempt <= Budget(s, f) + 1
  /\ driving = {} => state.attempt <= Budget(s, f)
  /\ stray # {} => state.attempt <= Budget(s, f) - 1

WaitCount(state, s, f, stray) ==
  IF IsDelay(s)
  THEN /\ state.attempt <= Budget(s, f) + 1
       /\ state.waiting = state.attempt
       /\ stray # {} => state.attempt <= Budget(s, f) - 1
  ELSE state.attempt <= StepByID(s).maxRetries

Counted(c, s, f, driving, stray) ==
  /\ c.steps[s].attempt <= Budget(s, f) + Cost(s)
  /\ c.steps[s].status \in {"running", "waiting_timer"} => c.steps[s].attempt # 0
  /\ c.status \notin Terminal =>
       /\ c.steps[s].status = "" => c.steps[s].attempt = 0
       /\ c.steps[s].status = "running" =>
            /\ c.cur = s /\ c.status \in {"running", "compensating"}
            /\ RunCount(c.steps[s], s, f, driving, stray)
       /\ c.steps[s].status = "waiting_timer" => WaitCount(c.steps[s], s, f, stray)

AllCounted(c, f, driving, stray) == \A s \in StepIds : Counted(c, s, f, driving, stray)

\* Every fault adds the cost of one more try.
LEMMA BudgetGrows ==
  ASSUME NEW s \in StepIds, NEW f \in Nat, NEW g \in {f, f + 1}
  PROVE  /\ StepByID(s).maxRetries \in Nat
         /\ Budget(s, f) \in Nat /\ Budget(s, g) \in Nat /\ Cost(s) \in {1, 2}
         /\ Budget(s, f) <= Budget(s, g)
         /\ g = f + 1 => Budget(s, g) = Budget(s, f) + Cost(s)
         /\ ~ IsDelay(s) => Budget(s, f) = StepByID(s).maxRetries + f /\ Cost(s) = 1
         /\ IsDelay(s) => Budget(s, f) = 2 * f /\ Cost(s) = 2
<1>1. StepByID(s).maxRetries \in Nat
  BY StepIsOne, StepsAreTyped
<1> QED
  BY <1>1 DEF Budget, Cost

\* Nothing is stored, and leases are lost by faults only.
LEMMA CountKept ==
  ASSUME NEW c, IsContent(c), NEW f \in Nat, NEW g \in {f, f + 1},
         NEW D, NEW S, NEW E, NEW T, AllCounted(c, f, D, S),
         E = {} => D = {} \/ g = f + 1,
         T # {} => S # {} \/ (g = f + 1 /\ D = {})
  PROVE  AllCounted(c, g, E, T)
<1> SUFFICES ASSUME NEW s \in StepIds PROVE Counted(c, s, g, E, T)
  BY DEF AllCounted
<1>0. PICK st : st = c.steps[s]
  OBVIOUS
<1>1. Counted(c, s, f, D, S) /\ st.attempt \in Nat
  BY <1>0 DEF AllCounted, IsContent, IsState
<1>2. PICK b \in Nat, bb \in Nat, k \in {1, 2} : b = Budget(s, f) /\ bb = Budget(s, g) /\ k = Cost(s)
  BY BudgetGrows
<1>3. b <= bb /\ (g = f + 1 => bb = b + k) /\ (IsDelay(s) => k = 2) /\ (~ IsDelay(s) => k = 1)
  BY <1>2, BudgetGrows
<1>4. st.attempt <= b + k
  BY <1>0, <1>1, <1>2 DEF Counted
<1>5. ASSUME RunCount(st, s, f, D, S), st.attempt <= b + k PROVE RunCount(st, s, g, E, T)
  BY <1>1, <1>2, <1>3, <1>5 DEF RunCount
<1>6. ASSUME WaitCount(st, s, f, S) PROVE WaitCount(st, s, g, T)
  <2>1. CASE IsDelay(s)
    BY <1>1, <1>2, <1>3, <1>6, <2>1 DEF WaitCount
  <2>2. CASE ~ IsDelay(s)
    BY <1>6, <2>2 DEF WaitCount
  <2> QED
    BY <2>1, <2>2
<1>7. st.attempt <= bb + k
  BY <1>1, <1>3, <1>4
<1> QED
  BY <1>0, <1>1, <1>2, <1>4, <1>5, <1>6, <1>7 DEF Counted

\* A new instance.
LEMMA CountNew ==
  ASSUME NEW status, NEW c, c = NewRuntimeState(status), NEW f \in Nat, NEW D, NEW S
  PROVE  AllCounted(c, f, D, S)
<1> SUFFICES ASSUME NEW s \in StepIds PROVE Counted(c, s, f, D, S)
  BY DEF AllCounted
<1>1. c.steps[s] = NoState
  BY NewContent
<1>2. NoState.status = "" /\ NoState.attempt = 0
  BY DEF NoState
<1>3. 0 <= Budget(s, f) + Cost(s)
  BY BudgetGrows
<1> QED
  BY <1>1, <1>2, <1>3 DEF Counted

\* An instance that is over.
LEMMA CountOver ==
  ASSUME NEW c, NEW d, IsContent(c), d.steps = c.steps, d.status \in Terminal,
         NEW f \in Nat, NEW g \in {f, f + 1},
         NEW D, NEW S, NEW E, NEW T, AllCounted(c, f, D, S)
  PROVE  AllCounted(d, g, E, T)
<1> SUFFICES ASSUME NEW s \in StepIds PROVE Counted(d, s, g, E, T)
  BY DEF AllCounted
<1>1. Counted(c, s, f, D, S) /\ c.steps[s].attempt \in Nat
  BY DEF AllCounted, IsContent, IsState
<1>2. PICK b \in Nat, bb \in Nat, k \in {1, 2} : b = Budget(s, f) /\ bb = Budget(s, g) /\ k = Cost(s)
  BY BudgetGrows
<1>3. b <= bb
  BY <1>2, BudgetGrows
<1>4. PICK a \in Nat : a = c.steps[s].attempt /\ a <= b + k
  BY <1>1, <1>2 DEF Counted
<1>5. a <= bb + k
  BY <1>3, <1>4
<1> QED
  BY <1>1, <1>2, <1>4, <1>5 DEF Counted

\* A started step remembers the fire time it has waited for.
LEMMA StartPrev ==
  ASSUME NEW c, IsContent(c), NEW key, NEW d, d = StartStep(c, key), StepToRun(c).next \in StepIds
  PROVE  d.steps[d.cur].prev = PreviousWait(c.steps[d.cur], d.status)
<1>0. PICK id \in StepIds : id = StepToRun(c).next
  OBVIOUS
<1>1. PICK status, e : /\ status = IF Compensates(c) THEN "compensating" ELSE "running"
                       /\ e = [c EXCEPT !.forks = StepToRun(c).forks]
  OBVIOUS
<1>2. d = markStepRunning(e, id, status, key)
  BY <1>0, <1>1 DEF StartStep
<1>3. e.steps = c.steps /\ IsFun(e.steps, StepIds)
      /\ e = [status |-> e.status, cur |-> e.cur, steps |-> e.steps,
              completed |-> e.completed, queue |-> e.queue, forks |-> e.forks]
  BY <1>1 DEF IsContent
<1>4. PICK new : new = [status |-> "running", attempt |-> e.steps[id].attempt + 1,
                        key |-> KeyFor(e.steps[id], key), waiting |-> 0,
                        prev |-> PreviousWait(e.steps[id], status), next |-> NoStep]
  OBVIOUS
<1>5. d = [status |-> status, cur |-> id, steps |-> [e.steps EXCEPT ![id] = new],
           completed |-> e.completed, queue |-> e.queue, forks |-> e.forks]
  BY <1>2, <1>3, <1>4 DEF markStepRunning
<1>6. d.cur = id /\ d.status = status /\ d.steps[id] = new
  BY <1>3, <1>5 DEF IsFun
<1>7. new.prev = PreviousWait(e.steps[id], status)
  BY <1>4
<1> QED
  BY <1>3, <1>6, <1>7

\* The step that is running is the one that is started again.
LEMMA RunningIsNext ==
  ASSUME NEW c, WaitOK(c), c.status \in {"running", "compensating"}, c.cur \in StepIds,
         c.steps[c.cur].status = "running"
  PROVE  StepToRun(c).next = c.cur
<1>1. c.cur # NoStep
  BY StepsAssumption DEF WellFormed
<1>2. CASE c.status = "running"
  <2>1. ~ Compensates(c)
    BY <1>2 DEF WaitOK, Compensates
  <2> QED
    BY <1>1, <2>1 DEF StepToRun, StepForCurrent
<1>3. CASE c.status = "compensating"
  BY <1>3 DEF WaitOK, StepToRun, Compensates
<1> QED
  BY <1>2, <1>3

\* The step that is started next is not over, and a delay only on the normal path.
Startable(c) ==
  /\ StepToRun(c).next \in StepIds
  /\ c.steps[StepToRun(c).next].status \in {"", "running", "waiting_timer"}
  /\ IsDelay(StepToRun(c).next) => ~ Compensates(c)

\* A worker without a lease costs a fault: the present one, or one that took its lease.
Charged(f, g, stray, driving) ==
  /\ stray # {} => f # 0
  /\ driving = {} => g = f + 1 \/ stray # {}

\* A step is started that has not begun, or was interrupted by a fault, or has waited.
LEMMA CountStarted ==
  ASSUME NEW c, IsContent(c), WaitOK(c), c.status \notin Terminal,
         NEW key, NEW d, d = StartStep(c, key), Startable(c),
         NEW f \in Nat, NEW g \in {f, f + 1}, NEW S, NEW E, AllCounted(c, f, {}, S), Charged(f, g, S, E)
  PROVE  AllCounted(d, g, E, {})
<1>6. /\ StepToRun(c).next \in StepIds
      /\ c.steps[StepToRun(c).next].status \in {"", "running", "waiting_timer"}
      /\ IsDelay(StepToRun(c).next) => ~ Compensates(c)
  BY DEF Startable
<1>7. (S # {} => f # 0) /\ (E = {} => g = f + 1 \/ S # {})
  BY DEF Charged
<1>1. PICK id \in StepIds : id = StepToRun(c).next
  BY <1>6
<1>8. StepToRun(c).next \in StepIds
  BY <1>6
<1>0. /\ d.status = IF Compensates(c) THEN "compensating" ELSE "running"
      /\ d.cur = StepToRun(c).next
      /\ d.steps[d.cur].status = "running"
      /\ d.steps[d.cur].attempt = c.steps[d.cur].attempt + 1
      /\ SameOthers(d, c)
      /\ d.steps[d.cur].prev = PreviousWait(c.steps[d.cur], d.status)
  BY ONLY IsContent(c), d = StartStep(c, key), <1>8, StartContent, StartPrev
<1>2. /\ d.cur = id /\ d.status = IF Compensates(c) THEN "compensating" ELSE "running"
      /\ d.steps[id].status = "running" /\ d.steps[id].attempt = c.steps[id].attempt + 1
      /\ \A s \in StepIds \ {id} : d.steps[s] = c.steps[s]
  BY <1>0, <1>1 DEF SameOthers
<1>3. d.steps[id].prev = PreviousWait(c.steps[id], d.status)
  BY <1>0, <1>2
<1>4. ASSUME NEW s \in StepIds, s # id PROVE Counted(d, s, g, E, {})
  <2>1. d.steps[s] = c.steps[s] /\ Counted(c, s, f, {}, S) /\ c.steps[s].attempt \in Nat
    BY <1>2, <1>4 DEF AllCounted, IsContent, IsState
  <2>2. PICK st : st = c.steps[s]
    OBVIOUS
  <2>3. st.status # "running"
    BY <1>1, <1>4, <2>1, <2>2, RunningIsNext DEF Counted
  <2>4. st.status # "waiting_timer"
    BY <1>1, <1>4, <2>2, WaitingIsNext
  <2>5. PICK b \in Nat, bb \in Nat, k \in {1, 2} : b = Budget(s, f) /\ bb = Budget(s, g) /\ k = Cost(s)
    BY BudgetGrows
  <2>6. b <= bb
    BY <2>5, BudgetGrows
  <2>7. PICK a \in Nat : a = st.attempt /\ a <= b + k
    BY <2>1, <2>2, <2>5 DEF Counted
  <2>8. a <= bb + k
    BY ONLY <2>5, <2>6, <2>7
  <2>9. st.status = "" => st.attempt = 0
    BY <2>1, <2>2 DEF Counted
  <2> QED
    BY <2>1, <2>2, <2>3, <2>4, <2>5, <2>7, <2>8, <2>9 DEF Counted
<1>5. Counted(d, id, g, E, {})
  <2>1. Counted(c, id, f, {}, S) /\ c.steps[id].attempt \in Nat
    BY DEF AllCounted, IsContent, IsState
  <2>2. PICK st, new : st = c.steps[id] /\ new = d.steps[id]
    OBVIOUS
  <2>3. PICK b \in Nat, bb \in Nat, k \in Nat, r \in Nat :
          b = Budget(id, f) /\ bb = Budget(id, g) /\ k = Cost(id) /\ r = StepByID(id).maxRetries
    BY BudgetGrows
  <2>4. b <= bb /\ (g = f + 1 => bb = b + k)
    BY <2>3, BudgetGrows
  <2>5. (IsDelay(id) => b = 2 * f /\ k = 2) /\ (~ IsDelay(id) => b = r + f /\ k = 1)
    BY <2>3, BudgetGrows
  <2>6. PICK a \in Nat : a = st.attempt /\ new.attempt = a + 1
    BY <1>2, <2>1, <2>2
  <2> DEFINE Fine == /\ a + 1 <= bb + k
                     /\ IsDelay(id) /\ new.prev = 0 => a + 1 <= bb + 1
                     /\ E = {} => a + 1 <= bb
  <2>7. ASSUME st.status = "" PROVE Fine
    <3>1. a = 0
      BY <2>1, <2>2, <2>6, <2>7 DEF Counted
    <3> QED
      BY ONLY g \in {f, f + 1}, f \in Nat, <2>3, <2>4, <2>5, <2>6, <3>1, <1>7
  <2>8. ASSUME st.status = "running" PROVE Fine
    <3>1. a <= b /\ (S # {} => a <= b - 1)
      BY <2>1, <2>2, <2>3, <2>6, <2>8 DEF Counted, RunCount
    <3> QED
      BY ONLY <2>3, <2>4, <2>5, <2>6, <3>1, <1>7, f \in Nat, g \in {f, f + 1}
  <2>9. ASSUME st.status = "waiting_timer" PROVE Fine
    <3>1. WaitCount(st, id, f, S)
      BY <2>1, <2>2, <2>9 DEF Counted
    <3>2. ASSUME IsDelay(id) PROVE Fine
      <4>1. a <= b + 1 /\ (S # {} => a <= b - 1)
        BY <2>3, <2>6, <3>1, <3>2 DEF WaitCount
      <4>2. new.prev = st.waiting
        BY <1>1, <1>2, <1>3, <1>6, <2>2, <2>9, <3>2 DEF PreviousWait
      <4>3. st.waiting # 0
        BY <2>2, <2>9 DEF WaitOK
      <4> QED
        BY ONLY <2>3, <2>4, <2>5, <2>6, <3>2, <4>1, <4>2, <4>3, f \in Nat, g \in {f, f + 1}, <1>7
    <3>3. ASSUME ~ IsDelay(id) PROVE Fine
      <4>1. a <= r
        BY <2>3, <2>6, <3>1, <3>3 DEF WaitCount
      <4> QED
        BY ONLY <2>3, <2>4, <2>5, <2>6, <3>3, <4>1, f \in Nat, g \in {f, f + 1}, <1>7
    <3> QED
      BY <3>2, <3>3
  <2>10. Fine
    BY <1>1, <1>6, <2>2, <2>7, <2>8, <2>9
  <2>11. RunCount(new, id, g, E, {})
    BY <2>3, <2>6, <2>10 DEF RunCount
  <2>12. d.status \in {"running", "compensating"}
    BY <1>2
  <2>13. new.attempt <= Budget(id, g) + Cost(id)
    BY ONLY <2>3, <2>6, <2>10
  <2>14. new.attempt # 0
    BY ONLY <2>6
  <2>15. new.status = "running" /\ d.cur = id
    BY <1>2, <2>2
  <2> HIDE DEF Fine
  <2> QED
    BY <2>2, <2>11, <2>12, <2>13, <2>14, <2>15 DEF Counted
<1> QED
  BY <1>4, <1>5 DEF AllCounted

\* A delay never fails, and nothing else waits.
LEMMA ExecuteByType ==
  ASSUME NEW c, c.cur \in StepIds, NEW reached, NEW out \in Execute(c, reached)
  PROVE  /\ IsDelay(c.cur) => out = DelayResult(c.cur, c.steps[c.cur], reached)
         /\ ~ IsDelay(c.cur) => out.kind # "waiting"
<1>1. PICK step : step = StepByID(c.cur) /\ step.type \in StepTypes
  BY StepHasType
<1>2. CASE step.type = "delay"
  BY <1>1, <1>2 DEF Execute, IsDelay
<1>3. CASE step.type # "delay"
  <2>1. out = Fails \/ \E next : out = Succeeds(next)
    <3>1. CASE step.type \in {"http_request", "transform"}
      BY <1>1, <3>1 DEF Execute, executeHTTPRequest, executeTransform
    <3>2. CASE step.type = "condition"
      BY <1>1, <3>2 DEF Execute, executeCondition
    <3>3. CASE step.type = "fork"
      BY <1>1, <3>3 DEF Execute, executeFork
    <3>4. CASE step.type = "join"
      BY <1>1, <3>4 DEF Execute, executeJoin
    <3> QED
      BY <1>1, <1>3, <3>1, <3>2, <3>3, <3>4 DEF StepTypes
  <2>2. out.kind \in {"error", "success"}
    BY <2>1 DEF Fails, Succeeds
  <2> QED
    BY <1>1, <1>3, <2>2 DEF IsDelay
<1> QED
  BY <1>2, <1>3

\* A delay waits for the time of its attempt, or for the one it has waited for before.
LEMMA DelayKinds ==
  ASSUME NEW id, NEW state, NEW reached, NEW out, out = DelayResult(id, state, reached)
  PROVE  /\ out.kind # "error"
         /\ out.kind = "waiting" => out.fireAt = IF state.prev = 0 THEN state.attempt ELSE state.prev
         /\ state.prev # 0 /\ <<id, state.prev>> \in reached => out.kind = "success"
BY DEF DelayResult, Waits, Succeeds

\* What a result makes of the step that was executed.
LEMMA ResultStep1 ==
  ASSUME NEW c, IsContent(c), IsRunning(c), NEW out, out.kind \in {"success", "waiting", "error"},
         NEW d, d = HandleResult(c, out)
  PROVE  \/ d.status \in Terminal
         \/ d.steps[c.cur].status \in {"completed", "failed"}
         \/ /\ d.steps[c.cur].status = "waiting_timer"
            /\ \/ out.kind = "waiting" /\ d.steps[c.cur].waiting = out.fireAt
               \/ out.kind = "error" /\ RetriesLeft(c, c.cur)
<1>0. c.cur \in StepIds /\ c.status \in {"running", "compensating"}
  BY DEF IsRunning
<1>1. CASE out.kind = "waiting"
  <2>1. d = handleStepWaiting(c, out)
    BY <1>1 DEF HandleResult
  <2> QED
    BY <1>0, <1>1, <2>1, WaitingContent
<1>2. CASE out.kind = "success"
  <2>1. CASE c.status = "compensating"
    <3>1. d = CompensationSuccess(c, out)
      BY <1>2, <2>1 DEF HandleResult
    <3> QED
      BY <1>0, <2>1, <3>1, CompensationContent
  <2>2. CASE c.status # "compensating"
    <3>1. d = handleStepSuccess(c, out)
      BY <1>2, <2>2 DEF HandleResult
    <3> QED
      BY <1>0, <3>1, SuccessContent
  <2> QED
    BY <2>1, <2>2
<1>3. CASE out.kind = "error"
  <2>1. CASE c.status = "compensating"
    <3>1. d = CompensationFailure(c, out)
      BY <1>3, <2>1 DEF HandleResult
    <3> QED
      BY <3>1, CompensationFailureContent DEF Terminal
  <2>2. CASE c.status # "compensating"
    <3>1. d = handleStepFailure(c, out)
      BY <1>3, <2>2 DEF HandleResult
    <3>2. CASE RetriesLeft(c, c.cur)
      <4>1. d = handleStepWaiting(c, Waits(c.steps[c.cur].attempt))
        BY <3>1, <3>2 DEF handleStepFailure
      <4>2. d.steps[c.cur].status = "waiting_timer"
        BY <1>0, <4>1, WaitingContent
      <4> QED
        BY <1>3, <3>2, <4>2
    <3>3. CASE ~ RetriesLeft(c, c.cur)
      <4>1. d.steps[c.cur].status \in {"failed", "waiting_timer"}
        BY <1>0, <3>1, FailureContent
      <4>0. PICK failed, queue :
              /\ failed = [c EXCEPT !.steps[c.cur] = [@ EXCEPT !.status = "failed", !.prev = 0],
                                    !.forks = MarkBranchFailed(c.forks, c.cur)]
              /\ queue = CompensationQueue(failed, c.cur)
        OBVIOUS
      <4>2. d = IF queue # <<>>
                     THEN [failed EXCEPT !.queue = queue, !.status = "compensating", !.cur = Head(queue)]
                     ELSE finishInstance(failed, "failed")
        BY <3>1, <3>3, <4>0 DEF handleStepFailure
      <4>3. CASE queue = <<>>
        <5>1. d = finishInstance(failed, "failed")
          BY <4>2, <4>3
        <5>2. d.status = "failed"
          BY <4>0, <5>1 DEF finishInstance, IsContent
        <5> QED
          BY <5>2 DEF Terminal
      <4>4. CASE queue # <<>>
        <5>1. d.status = "compensating"
          BY <4>0, <4>2, <4>4 DEF IsContent
        <5> QED
          BY <1>0, <3>1, <5>1, FailureContent
      <4> QED
        BY <4>3, <4>4
    <3> QED
      BY <3>2, <3>3
  <2> QED
    BY <2>1, <2>2
<1> QED
  BY <1>1, <1>2, <1>3

\* A result is stored: the step is over, or waits for its time.
LEMMA CountResult ==
  ASSUME NEW c, IsContent(c), WaitOK(c), IsRunning(c),
         NEW reached, NEW out \in Execute(c, reached),
         IsDelay(c.cur) /\ c.steps[c.cur].prev # 0 => out.kind = "success",
         NEW d, d = HandleResult(c, out),
         NEW f \in Nat, NEW g \in {f, f + 1}, NEW D, NEW S, NEW E, AllCounted(c, f, D, S)
  PROVE  AllCounted(d, g, E, {})
<1>1. PICK id \in StepIds : id = c.cur /\ c.steps[id].status = "running" /\ c.steps[id].attempt # 0
                            /\ c.status \in {"running", "compensating"}
  BY DEF IsRunning
<1>2. out.kind \in {"success", "waiting", "error"}
  BY <1>1, ExecuteKinds
<1>3. SameMarks(c, d) /\ SameOthers(c, d)
  BY <1>1, <1>2, ResultContent
<1>4. c.status \notin Terminal
  BY <1>1 DEF Terminal
<1> SUFFICES ASSUME NEW s \in StepIds PROVE Counted(d, s, g, E, {})
  BY DEF AllCounted
<1>5. Counted(c, s, f, D, S) /\ Counted(c, id, f, D, S)
  BY DEF AllCounted
<1>6. PICK b \in Nat, bb \in Nat, k \in {1, 2} : b = Budget(s, f) /\ bb = Budget(s, g) /\ k = Cost(s)
  BY BudgetGrows
<1>7. b <= bb
  BY <1>6, BudgetGrows
<1>8. PICK a \in Nat : a = c.steps[s].attempt /\ d.steps[s].attempt = a /\ a <= b + k
  BY <1>3, <1>5, <1>6 DEF Counted, SameMarks, IsContent, IsState
<1>9. a <= bb + k
  BY ONLY <1>6, <1>7, <1>8
<1>10. CASE s # id
  <2>1. PICK st : st = c.steps[s] /\ st = d.steps[s]
    BY <1>1, <1>3, <1>10 DEF SameOthers
  <2>2. st.status # "running"
    BY <1>1, <1>4, <1>5, <1>10, <2>1 DEF Counted
  <2>3. st.status # "waiting_timer"
    BY <1>1, <2>1 DEF WaitOK
  <2>4. st.status = "" => st.attempt = 0
    BY <1>4, <1>5, <2>1 DEF Counted
  <2> QED
    BY <1>6, <1>8, <1>9, <2>1, <2>2, <2>3, <2>4 DEF Counted
<1>11. CASE s = id
  <2>1. PICK st, new : st = c.steps[id] /\ new = d.steps[id]
    OBVIOUS
  <2>2. a # 0 /\ new.attempt = a /\ st.attempt = a
    BY <1>1, <1>8, <1>11, <2>1
  <2>3. \/ d.status \in Terminal
        \/ new.status \in {"completed", "failed"}
        \/ /\ new.status = "waiting_timer"
           /\ \/ out.kind = "waiting" /\ new.waiting = out.fireAt
              \/ out.kind = "error" /\ RetriesLeft(c, id)
    BY <1>1, <1>2, <2>1, ResultStep1
  <2>4. CASE new.status = "waiting_timer" /\ d.status \notin Terminal
    <3>1. CASE IsDelay(id)
      <4>1. out = DelayResult(id, st, reached)
        BY <1>1, <2>1, <3>1, ExecuteByType
      <4>6. /\ out.kind # "error"
            /\ out.kind = "waiting" => out.fireAt = IF st.prev = 0 THEN st.attempt ELSE st.prev
        BY <4>1, DelayKinds
      <4>7. out.kind = "waiting" /\ new.waiting = out.fireAt
        BY <2>3, <2>4, <4>6
      <4>8. st.prev = 0
        BY <1>1, <2>1, <3>1, <4>7
      <4>2. out.kind = "waiting" /\ st.prev = 0 /\ new.waiting = a
        BY <2>2, <4>6, <4>7, <4>8
      <4>3. a <= b + 1
        BY <1>4, <1>5, <1>6, <1>1, <1>11, <2>1, <2>2, <3>1, <4>2 DEF Counted, RunCount
      <4>4. a <= bb + 1
        BY ONLY <1>6, <1>7, <1>8, <4>3
      <4>5. WaitCount(new, id, g, {})
        BY <1>6, <1>11, <2>2, <3>1, <4>2, <4>4 DEF WaitCount
      <4> QED
        BY <1>6, <1>8, <1>9, <1>11, <2>1, <2>2, <2>4, <4>5 DEF Counted
    <3>2. CASE ~ IsDelay(id)
      <4>1. RetriesLeft(c, id)
        BY <1>1, <2>3, <2>4, <3>2, ExecuteByType
      <4>2. WaitCount(new, id, g, {})
        BY <2>1, <2>2, <3>2, <4>1 DEF WaitCount, RetriesLeft
      <4> QED
        BY <1>6, <1>8, <1>9, <1>11, <2>1, <2>2, <2>4, <4>2 DEF Counted
    <3> QED
      BY <3>1, <3>2
  <2>5. CASE d.status \in Terminal \/ new.status \in {"completed", "failed"}
    BY <1>6, <1>8, <1>9, <1>11, <2>1, <2>2, <2>5 DEF Counted
  <2> QED
    BY <2>3, <2>4, <2>5
<1> QED
  BY <1>10, <1>11

-----------------------------------------------------------------------------
(* The leases of the workers that attempt a step *)

\* The lease of i is w's and has not run out.
Leased(w, i) == rows[i].live /\ rows[i].lockedBy = w

\* w has claimed i, and its copy is still the row.
Claimed(w, i) == pc[w] = "advance" /\ Id(w) = i /\ job[w].version = rows[i].version

\* w executes what it has marked in the row of i, under its lease.
Drives(w, i) ==
  pc[w] \in Marked /\ Id(w) = i /\ job[w].version = rows[i].version /\ Leased(w, i)

Driving(i) == {w \in Workers : Drives(w, i)}
Stray(i) == {w \in Workers : Claimed(w, i) /\ ~ Leased(w, i)}

LeaseKept(w, i) == Leased(w, i) => Leased(w, i)' \/ pc[w] \notin Advancing \/ faults' = faults + 1
LeaseNew(w, i) == Leased(w, i)' => Leased(w, i) \/ Claim(w)
LeasesKept == \A i \in Instances : \A w \in Workers : LeaseKept(w, i) /\ LeaseNew(w, i)

\* A step has at most one fault.
LEMMA FaultsCounted ==
  ASSUME [Next]_vars PROVE UNCHANGED faults \/ faults' = faults + 1
<1> USE DEF engineVars, Reply, Fault
<1>1. ASSUME NEW w \in Workers, Consume(w) \/ ReclaimPending(w) PROVE UNCHANGED faults
  BY <1>1 DEF Consume, ReclaimPending
<1>2. ASSUME NEW w \in Workers, WorkerStep(w) PROVE UNCHANGED faults \/ faults' = faults + 1
  BY <1>2 DEF WorkerStep, Claim, ClaimBusy, EnsureWaitingTimer, MarkStepRunning, FinishInstance,
     OptimisticLock, AppendStepHistory, ExecuteStep, CompleteStepHistory, ClearTimerRow, ClearTimerKey,
     SaveResult, Enqueue, StreamFull, ScheduleTimerRow, ScheduleTimerKey, FireTimerRow, FireTimerKey,
     Release, Ack
<1>3. ASSUME NEW w \in Workers, WorkerFault(w) PROVE faults' = faults + 1
  BY <1>3 DEF WorkerFault, ClaimError, StoreError, ReleaseError, AckError, Crash
<1>4. ASSUME NEW i \in Instances, \/ ApiCreate(i) \/ ApiEnqueue(i) \/ ApiFails(i) \/ KeyExpiry(i)
                                  \/ Elapse(i) \/ OrphanExpires(i) \/ HolderExpires(i)
      PROVE  UNCHANGED faults \/ faults' = faults + 1
  BY <1>4 DEF ApiCreate, ApiEnqueue, ApiFails, KeyExpiry, Elapse, OrphanExpires, HolderExpires
<1>5. ASSUME NEW a \in Agents, AgentStep(a) \/ AgentError(a) PROVE UNCHANGED faults \/ faults' = faults + 1
  BY <1>5 DEF AgentStep, AgentError
<1>6. ASSUME RecoverList \/ RecoverEnqueue \/ RecoverFails \/ Done \/ UNCHANGED vars
      PROVE  UNCHANGED faults \/ faults' = faults + 1
  BY <1>6 DEF RecoverList, RecoverEnqueue, RecoverFails, Done, vars
<1> QED
  BY <1>1, <1>2, <1>3, <1>4, <1>5, <1>6 DEF Next

\* Leases that stay as they are.
LEMMA SameLeases ==
  ASSUME \A i \in Instances : rows'[i].lockedBy = rows[i].lockedBy /\ rows'[i].live = rows[i].live
  PROVE  LeasesKept
BY DEF LeasesKept, LeaseKept, LeaseNew, Leased

\* What the clock does to a lease.
LEMMA ExpiryLeases ==
  ASSUME AInv, LocksOK, NEW i \in Instances, OrphanExpires(i) \/ HolderExpires(i) PROVE LeasesKept
<1>1. IsFun(rows, Instances) /\ IsRow(rows[i])
  BY DEF AInv, IInv, Shape, RowsOK
<1>2. rows' = [rows EXCEPT ![i].live = FALSE] /\ (rows[i].lockedBy = Orphan \/ faults' = faults + 1)
  BY DEF OrphanExpires, HolderExpires, LeaseExpires, Fault
<1>3. \A j \in Instances \ {i} : rows'[j] = rows[j]
  BY <1>1, <1>2 DEF IsFun
<1>4. rows'[i] = [inst |-> rows[i].inst, version |-> rows[i].version,
                  lockedBy |-> rows[i].lockedBy, live |-> FALSE]
  BY <1>1, <1>2 DEF IsFun, IsRow
<1>5. ~ rows'[i].live
  BY <1>4
<1> QED
  BY <1>2, <1>3, <1>5, WorkersAssumption DEF LeasesKept, LeaseKept, LeaseNew, Leased

LEMMA EnvironmentLeases ==
  ASSUME AInv, LocksOK, Environment PROVE LeasesKept
<1>1. UNCHANGED rows \/ \E i \in Instances : OrphanExpires(i) \/ HolderExpires(i)
  BY DEF Environment, ApiEnqueue, ApiFails, KeyExpiry, KeyExpires, Elapse, OrphanExpires,
         HolderExpires, AgentStep, AgentError, Poll, Notified, AgentClearKey, AgentEnqueue,
         AgentFails, RecoverList, RecoverEnqueue, RecoverFails, vars, dbVars, timerVars, engineVars
<1> QED
  BY <1>1, ExpiryLeases, SameLeases

\* A claim takes a lease that nobody uses.
LEMMA ClaimLeases ==
  ASSUME AInv, NEW i \in Instances, NEW owner, ClaimInstance(i, owner)
  PROVE  /\ \A w \in Workers : ~ Leased(w, i)
         /\ rows'[i].lockedBy = owner /\ rows'[i].live
         /\ \A j \in Instances \ {i} : rows'[j] = rows[j]
<1>1. /\ ~ rows[i].live \/ rows[i].lockedBy = Orphan
      /\ rows'[i].lockedBy = owner
      /\ \A j \in Instances \ {i} : rows'[j] = rows[j]
  BY ClaimOwners
<1>2. rows'[i].live
  <2>1. IsFun(rows, Instances) /\ IsRow(rows[i])
    BY DEF AInv, IInv, Shape, RowsOK
  <2>2. rows' = [rows EXCEPT ![i].lockedBy = owner, ![i].live = TRUE]
    BY DEF ClaimInstance
  <2>3. rows'[i] = [inst |-> rows[i].inst, version |-> rows[i].version, lockedBy |-> owner, live |-> TRUE]
    BY <2>1, <2>2 DEF IsFun, IsRow
  <2> QED
    BY <2>3
<1> QED
  BY <1>1, <1>2, WorkersAssumption DEF Leased

\* The deferred release, and what a crash leaves behind.
LEMMA LeaveLeases ==
  ASSUME AInv, LeaseOK, NEW w \in Workers,
         Release(w) \/ ReleaseError(w) \/ Ack(w) \/ AckError(w) \/ Crash(w)
  PROVE  LeasesKept
<1>1. \A i \in Instances : IF rows[i].lockedBy = w THEN rows'[i].lockedBy \in {Nobody, Orphan}
                           ELSE rows'[i].lockedBy = rows[i].lockedBy
  BY LeaveOwners
<1>2. pc[w] \notin Advancing \/ faults' = faults + 1
  BY DEF Release, ReleaseError, Ack, AckError, Crash, Fault, Advancing, Marked, Resulted
<1>3. \A i \in Instances : rows[i].lockedBy # w => rows'[i] = rows[i]
  <2>0. IsFun(rows, Instances)
    BY DEF AInv, IInv, Shape, RowsOK
  <2>1. CASE Release(w)
    <3>1. ReleaseInstance(Id(w), w)
      BY <2>1 DEF Release
    <3> QED
      BY <2>0, <3>1 DEF ReleaseInstance, IsFun
  <2>2. CASE ReleaseError(w) \/ Crash(w)
    BY <2>2 DEF ReleaseError, Crash, Abandoned
  <2>3. CASE Ack(w) \/ AckError(w)
    BY <2>3 DEF Ack, AckError, dbVars
  <2> QED
    BY <2>1, <2>2, <2>3
<1> QED
  BY <1>1, <1>2, <1>3, WorkersAssumption DEF LeasesKept, LeaseKept, LeaseNew, Leased

\* A worker that advances an instance loses its lease by a fault only, and gets one by a claim.
LEMMA StepLeases ==
  ASSUME AInv, LeaseOK, LocksOK, [Next]_vars PROVE LeasesKept
<1>1. CASE Environment
  BY <1>1, EnvironmentLeases
<1>2. ASSUME NEW i \in Instances, ApiCreate(i) PROVE LeasesKept
  <2>1. IsFun(rows, Instances) /\ IsRow(rows[i])
    BY DEF AInv, IInv, Shape, RowsOK
  <2>2. rows' = [rows EXCEPT ![i].inst = NewRuntimeState("pending"), ![i].version = 1]
    BY <1>2 DEF ApiCreate, CreateInstance
  <2>3. \A j \in Instances \ {i} : rows'[j] = rows[j]
    BY <2>1, <2>2 DEF IsFun
  <2>4. rows'[i] = [inst |-> NewRuntimeState("pending"), version |-> 1,
                    lockedBy |-> rows[i].lockedBy, live |-> rows[i].live]
    BY <2>1, <2>2 DEF IsFun, IsRow
  <2>5. rows'[i].lockedBy = rows[i].lockedBy /\ rows'[i].live = rows[i].live
    BY <2>4
  <2> QED
    BY <2>3, <2>5, SameLeases
<1>3. ASSUME NEW w \in Workers, Consume(w) \/ ReclaimPending(w) \/ ClaimBusy(w) PROVE LeasesKept
  <2>1. UNCHANGED rows
    BY <1>3 DEF Consume, ReclaimPending, ClaimBusy, dbVars
  <2> QED
    BY <2>1, SameLeases
<1>4. ASSUME NEW w \in Workers,
             \/ EnsureWaitingTimer(w) \/ OptimisticLock(w) \/ AppendStepHistory(w)
             \/ CompleteStepHistory(w) \/ ClearTimerRow(w) \/ ClearTimerKey(w) \/ StreamFull(w)
             \/ ScheduleTimerRow(w) \/ ScheduleTimerKey(w) \/ FireTimerRow(w) \/ FireTimerKey(w)
             \/ StoreError(w) \/ Enqueue(w) \/ ExecuteStep(w)
      PROVE  LeasesKept
  <2>1. UNCHANGED rows
    BY <1>4, CallActions, EnqueueAction DEF CallStep, ExecuteStep, dbVars
  <2> QED
    BY <2>1, SameLeases
<1>5. ASSUME NEW w \in Workers, MarkStepRunning(w) \/ FinishInstance(w) \/ SaveResult(w) PROVE LeasesKept
  <2>1. SaveStep(w)
    BY <1>5, SaveActions
  <2>2. PICK inst : Save(w, inst)
    BY <2>1 DEF SaveStep
  <2>3. Shape /\ pc[w] \notin {"idle", "ack"}
    BY <2>1 DEF SaveStep, Moves, AInv, IInv
  <2>4. /\ \A i \in Instances \ {Id(w)} : rows'[i] = rows[i]
        /\ rows'[Id(w)] = [inst |-> inst, version |-> rows[Id(w)].version + 1,
                           lockedBy |-> rows[Id(w)].lockedBy, live |-> rows[Id(w)].live]
    BY <2>2, <2>3, SaveEffect
  <2>5. rows'[Id(w)].lockedBy = rows[Id(w)].lockedBy /\ rows'[Id(w)].live = rows[Id(w)].live
    BY <2>4
  <2> QED
    BY <2>4, <2>5, SameLeases
<1>6. ASSUME NEW w \in Workers, Release(w) \/ ReleaseError(w) \/ Ack(w) \/ AckError(w) \/ Crash(w)
      PROVE  LeasesKept
  BY <1>6, LeaveLeases
<1>7. ASSUME NEW w \in Workers, Claim(w) PROVE LeasesKept
  <2>1. PICK m \in batch[w] : ClaimInstance(m.inst, w)
    BY <1>7 DEF Claim
  <2>2. m.inst \in Instances
    BY DEF AInv, IInv, Shape, MessagesOK, StreamTypeOK
  <2>3. /\ \A x \in Workers : ~ Leased(x, m.inst)
        /\ rows'[m.inst].lockedBy = w
        /\ \A j \in Instances \ {m.inst} : rows'[j] = rows[j]
    BY <2>1, <2>2, ClaimLeases
  <2> QED
    BY <1>7, <2>3 DEF LeasesKept, LeaseKept, LeaseNew, Leased
<1>8. ASSUME NEW w \in Workers, ClaimError(w) PROVE LeasesKept
  <2>1. PICK m \in batch[w] : UNCHANGED rows \/ ClaimInstance(m.inst, Orphan)
    BY <1>8 DEF ClaimError
  <2>2. m.inst \in Instances
    BY DEF AInv, IInv, Shape, MessagesOK, StreamTypeOK
  <2>3. CASE UNCHANGED rows
    BY <2>3, SameLeases
  <2>4. CASE ClaimInstance(m.inst, Orphan)
    <3>1. /\ \A x \in Workers : ~ Leased(x, m.inst)
          /\ rows'[m.inst].lockedBy = Orphan
          /\ \A j \in Instances \ {m.inst} : rows'[j] = rows[j]
      BY <2>2, <2>4, ClaimLeases
    <3> QED
      BY <3>1, WorkersAssumption DEF LeasesKept, LeaseKept, LeaseNew, Leased
  <2> QED
    BY <2>1, <2>3, <2>4
<1> QED
  BY <1>1, <1>2, <1>3, <1>4, <1>5, <1>6, <1>7, <1>8 DEF Next, WorkerStep, WorkerFault, Done, Environment

\* x works on the same row, in the version it has read.
SameCopy(x) == job'[x].msg = job[x].msg /\ job'[x].version = job[x].version

\* A step that stores no content: what x was about to do, and what it goes on to do.
Phase(x) ==
  /\ pc'[x] = "advance" => (pc[x] = "advance" /\ SameCopy(x)) \/ Claim(x)
  /\ pc'[x] \in Marked => pc[x] \in Marked /\ SameCopy(x)
  /\ pc[x] \in Marked /\ job[x].version = rows[Id(x)].version => pc'[x] \in Marked \/ faults' = faults + 1

\* The other workers, when one takes a step.
LEMMA PhaseKept ==
  ASSUME JobsOK, NEW w \in Workers, NEW to, pc' = [pc EXCEPT ![w] = to],
         \A x \in Workers \ {w} : job'[x] = job[x], Phase(w)
  PROVE  \A x \in Workers : Phase(x)
<1>1. \A x \in Workers \ {w} : pc'[x] = pc[x]
  BY DEF JobsOK, IsFun
<1> QED
  BY <1>1 DEF Phase, SameCopy

LEMMA CallPhase ==
  ASSUME JobsOK, NEW w \in Workers,
         \/ EnsureWaitingTimer(w) \/ OptimisticLock(w) \/ AppendStepHistory(w)
         \/ CompleteStepHistory(w) \/ ClearTimerRow(w) \/ ClearTimerKey(w) \/ StreamFull(w)
         \/ ScheduleTimerRow(w) \/ ScheduleTimerKey(w) \/ FireTimerRow(w) \/ FireTimerKey(w)
         \/ StoreError(w) \/ Enqueue(w)
  PROVE  \A x \in Workers : Phase(x)
<1> USE DEF Reply, Goto, Fault, Marked, Resulted
<1>1. UNCHANGED job
  BY CallActions, EnqueueAction DEF CallStep
<1>2. PICK to :
        /\ pc' = [pc EXCEPT ![w] = to]
        /\ to # "advance"
        /\ to \in Marked => pc[w] \in Marked
        /\ pc[w] \in Marked => to \in Marked \/ faults' = faults + 1 \/ ~ VersionMatches(Id(w), job[w].version)
  <2>1. CASE EnsureWaitingTimer(w)
    BY <2>1 DEF EnsureWaitingTimer
  <2>2. CASE OptimisticLock(w)
    BY <2>2 DEF OptimisticLock
  <2>3. CASE AppendStepHistory(w)
    BY <2>3 DEF AppendStepHistory
  <2>4. CASE CompleteStepHistory(w)
    BY <2>4 DEF CompleteStepHistory
  <2>5. CASE ClearTimerRow(w)
    BY <2>5 DEF ClearTimerRow
  <2>6. CASE ClearTimerKey(w)
    BY <2>6 DEF ClearTimerKey
  <2>7. CASE StreamFull(w)
    BY <2>7 DEF StreamFull
  <2>8. CASE ScheduleTimerRow(w)
    BY <2>8 DEF ScheduleTimerRow
  <2>9. CASE ScheduleTimerKey(w)
    BY <2>9 DEF ScheduleTimerKey
  <2>10. CASE FireTimerRow(w)
    BY <2>10 DEF FireTimerRow
  <2>11. CASE FireTimerKey(w)
    BY <2>11 DEF FireTimerKey
  <2>12. CASE StoreError(w)
    BY <2>12 DEF StoreError
  <2>13. CASE Enqueue(w)
    BY <2>13 DEF Enqueue
  <2> QED
    BY <2>1, <2>2, <2>3, <2>4, <2>5, <2>6, <2>7, <2>8, <2>9, <2>10, <2>11, <2>12, <2>13
<1>3. pc'[w] = to
  BY <1>2 DEF JobsOK, IsFun
<1>4. Phase(w)
  BY <1>1, <1>2, <1>3 DEF Phase, SameCopy, VersionMatches
<1> QED
  BY <1>1, <1>2, <1>4, PhaseKept

LEMMA LeavePhase ==
  ASSUME JobsOK, NEW w \in Workers,
         Release(w) \/ ReleaseError(w) \/ Ack(w) \/ AckError(w) \/ ClaimBusy(w) \/ Crash(w)
  PROVE  \A x \in Workers : Phase(x)
<1> USE DEF Release, ReleaseError, Ack, AckError, ClaimBusy, Crash
<1>1. PICK to \in {"ack", "idle"} : pc' = [pc EXCEPT ![w] = to]
  BY DEF Goto, NextMessage
<1>2. \A x \in Workers \ {w} : job'[x] = job[x]
  <2>1. CASE UNCHANGED job
    BY <2>1
  <2>2. CASE \E j : job' = [job EXCEPT ![w] = j]
    BY <2>2 DEF JobsOK, IsFun
  <2> QED
    BY <2>1, <2>2 DEF NextMessage
<1>3. pc[w] \notin Marked \/ faults' = faults + 1
  BY DEF Fault, Marked, Resulted
<1>4. pc'[w] = to
  BY <1>1 DEF JobsOK, IsFun
<1>5. Phase(w)
  BY <1>1, <1>3, <1>4 DEF Phase, Marked, Resulted
<1> QED
  BY <1>1, <1>2, <1>5, PhaseKept

LEMMA ExecutePhase ==
  ASSUME JobsOK, NEW w \in Workers, ExecuteStep(w) PROVE \A x \in Workers : Phase(x)
<1>1. pc' = [pc EXCEPT ![w] = "complete"] /\ pc[w] = "execute"
  BY DEF ExecuteStep, Goto
<1>2. PICK out : job' = [job EXCEPT ![w].out = out]
  BY DEF ExecuteStep
<1>3. IsFun(job, Workers) /\ IsFun(pc, Workers) /\ IsJob(job[w])
  BY DEF JobsOK
<1>4. \A x \in Workers \ {w} : job'[x] = job[x]
  BY <1>2, <1>3 DEF IsFun
<1>5. job'[w] = [msg |-> job[w].msg, inst |-> job[w].inst, version |-> job[w].version, out |-> out]
  BY <1>2, <1>3 DEF IsFun, IsJob
<1>6. SameCopy(w)
  BY <1>5 DEF SameCopy
<1>7. pc'[w] = "complete"
  BY <1>1, <1>3 DEF IsFun
<1>8. Phase(w)
  BY <1>1, <1>6, <1>7 DEF Phase, Marked, Resulted
<1> QED
  BY <1>1, <1>4, <1>8, PhaseKept

\* What a claim gives the claimer.
LEMMA ClaimFacts ==
  ASSUME AInv, NEW w \in Workers, Claim(w)
  PROVE  /\ pc[w] = "idle" /\ pc' = [pc EXCEPT ![w] = "advance"] /\ pc'[w] = "advance"
         /\ \A x \in Workers \ {w} : job'[x] = job[x]
         /\ \E i \in Instances : /\ Id(w)' = i /\ Leased(w, i)'
                                /\ \A x \in Workers : ~ Leased(x, i)
<1>1. PICK m \in batch[w] :
        /\ ClaimInstance(m.inst, w)
        /\ job' = [job EXCEPT ![w] = [NoJob EXCEPT !.msg = m, !.inst = rows[m.inst].inst,
                                                   !.version = rows[m.inst].version]]
  BY DEF Claim
<1>2. m.inst \in Instances
  BY DEF AInv, IInv, Shape, MessagesOK, StreamTypeOK
<1>3. IsFun(job, Workers) /\ IsFun(pc, Workers)
  BY DEF AInv, IInv, Shape, JobsOK
<1>4. pc[w] = "idle" /\ pc' = [pc EXCEPT ![w] = "advance"]
  BY DEF Claim, Goto
<1>5. pc'[w] = "advance"
  BY <1>3, <1>4 DEF IsFun
<1>6. \A x \in Workers \ {w} : job'[x] = job[x]
  BY <1>1, <1>3 DEF IsFun
<1>7. job'[w] = [NoJob EXCEPT !.msg = m, !.inst = rows[m.inst].inst, !.version = rows[m.inst].version]
  BY <1>1, <1>3 DEF IsFun
<1>8. job'[w].msg = m
  BY <1>7 DEF NoJob
<1>9. Id(w)' = m.inst
  BY <1>8 DEF Id
<1>10. rows'[m.inst].live /\ rows'[m.inst].lockedBy = w /\ \A x \in Workers : ~ Leased(x, m.inst)
  BY <1>1, <1>2, ClaimLeases
<1> QED
  BY <1>2, <1>4, <1>5, <1>6, <1>9, <1>10 DEF Leased

LEMMA ClaimPhase ==
  ASSUME AInv, NEW w \in Workers, Claim(w) PROVE \A x \in Workers : Phase(x)
<1>1. /\ pc[w] = "idle" /\ pc' = [pc EXCEPT ![w] = "advance"] /\ pc'[w] = "advance"
      /\ \A x \in Workers \ {w} : job'[x] = job[x]
  BY ClaimFacts
<1>2. Phase(w)
  BY <1>1 DEF Phase, Marked, Resulted
<1> QED
  BY <1>1, <1>2, PhaseKept DEF AInv, IInv, Shape

\* The steps that store no content.
LEMMA QuietKinds ==
  ASSUME AInv, [Next]_vars
  PROVE  \/ SameRows /\ \A x \in Workers : Phase(x)
         \/ \E w \in Workers : MarkStepRunning(w) \/ FinishInstance(w) \/ SaveResult(w)
         \/ \E i \in Instances : ApiCreate(i)
<1>0. RowsOK /\ JobsOK
  BY DEF AInv, IInv, Shape
<1> DEFINE Quiet == \A x \in Workers : Phase(x)
<1>1. ASSUME UNCHANGED <<pc, job>> PROVE Quiet
  BY <1>1 DEF Phase, SameCopy
<1>2. ASSUME Environment PROVE Quiet
  BY <1>0, <1>1, <1>2, EnvironmentRows
<1>3. ASSUME NEW w \in Workers, Consume(w) \/ ReclaimPending(w) \/ ClaimError(w) PROVE Quiet
  BY <1>1, <1>3 DEF Consume, ReclaimPending, ClaimError, engineVars
<1>4. ASSUME NEW w \in Workers,
             \/ EnsureWaitingTimer(w) \/ OptimisticLock(w) \/ AppendStepHistory(w)
             \/ CompleteStepHistory(w) \/ ClearTimerRow(w) \/ ClearTimerKey(w) \/ StreamFull(w)
             \/ ScheduleTimerRow(w) \/ ScheduleTimerKey(w) \/ FireTimerRow(w) \/ FireTimerKey(w)
             \/ StoreError(w) \/ Enqueue(w)
      PROVE  Quiet
  BY <1>0, <1>4, CallPhase
<1>5. ASSUME NEW w \in Workers,
             Release(w) \/ ReleaseError(w) \/ Ack(w) \/ AckError(w) \/ ClaimBusy(w) \/ Crash(w)
      PROVE  Quiet
  BY <1>0, <1>5, LeavePhase
<1>6. ASSUME NEW w \in Workers, ExecuteStep(w) PROVE Quiet
  BY <1>0, <1>6, ExecutePhase
<1>7. ASSUME NEW w \in Workers, Claim(w) PROVE Quiet
  BY <1>7, ClaimPhase
<1> HIDE DEF Quiet
<1>8. \/ Quiet
      \/ \E w \in Workers : MarkStepRunning(w) \/ FinishInstance(w) \/ SaveResult(w)
      \/ \E i \in Instances : ApiCreate(i)
  BY <1>2, <1>3, <1>4, <1>5, <1>6, <1>7 DEF Next, WorkerStep, WorkerFault, Done, Environment
<1>9. \/ SameRows
      \/ \E w \in Workers : MarkStepRunning(w) \/ FinishInstance(w) \/ SaveResult(w)
      \/ \E i \in Instances : ApiCreate(i)
  BY StepKinds
<1> QED
  BY <1>8, <1>9 DEF Quiet

\* The workers at work on i after a step that stores no content.
Accounted(i) ==
  /\ Driving(i)' = {} => Driving(i) = {} \/ faults' = faults + 1
  /\ Stray(i)' # {} => Stray(i) # {} \/ (faults' = faults + 1 /\ Driving(i) = {})
  /\ Driving(i)' # {} => \A x \in Workers : ~ Claimed(x, i)'

\* The current attempt has one driver, or one worker that has claimed the row.
OneDriver(i) == Driving(i) # {} => \A x \in Workers : ~ Claimed(x, i)

\* A driver is lost by a fault only; a claim is made without a lease after a fault only, and
\* never beside a driver.
LEMMA QuietAccounts ==
  ASSUME AInv, LeasesKept, SameRows, \A x \in Workers : Phase(x),
         NEW i \in Instances, OneDriver(i)
  PROVE  Accounted(i)
<1> USE DEF Advancing
<1>0. rows'[i].version = rows[i].version
  BY DEF SameRows
<1>1. ASSUME NEW x \in Workers, Claimed(x, i)' PROVE Claimed(x, i) \/ Claim(x)
  BY <1>0, <1>1 DEF Claimed, Phase, SameCopy, Id
<1>2. ASSUME NEW x \in Workers, Claimed(x, i)', Claim(x)
      PROVE  Leased(x, i)' /\ \A y \in Workers : ~ Leased(y, i)
  <2>1. Id(x)' = i
    BY <1>2 DEF Claimed
  <2> QED
    BY <1>2, <2>1, ClaimFacts DEF Leased
<1>3. ASSUME NEW x \in Workers, Drives(x, i) PROVE Drives(x, i)' \/ faults' = faults + 1
  <2>1. pc[x] \in Marked /\ job[x].version = rows[Id(x)].version /\ Leased(x, i) /\ Id(x) = i
    BY <1>3 DEF Drives
  <2>2. pc'[x] \in Marked \/ faults' = faults + 1
    BY <2>1 DEF Phase
  <2>3. Leased(x, i)' \/ faults' = faults + 1
    BY <2>1 DEF LeasesKept, LeaseKept
  <2>4. pc'[x] \in Marked => SameCopy(x)
    BY DEF Phase
  <2> QED
    BY <1>0, <2>1, <2>2, <2>3, <2>4 DEF Drives, SameCopy, Id
<1>4. ASSUME NEW x \in Workers, Drives(x, i)' PROVE Drives(x, i)
  <2>1. pc'[x] \in Marked /\ Id(x)' = i /\ job'[x].version = rows'[i].version /\ Leased(x, i)'
    BY <1>4 DEF Drives
  <2>2. pc[x] \in Marked /\ SameCopy(x)
    BY <2>1 DEF Phase
  <2>3. ~ Claim(x)
    <3>1. pc[x] # "idle"
      BY <2>2 DEF Marked, Resulted
    <3> QED
      BY <3>1 DEF Claim
  <2>4. Leased(x, i)
    BY <2>1, <2>3 DEF LeasesKept, LeaseNew
  <2> QED
    BY <1>0, <2>1, <2>2, <2>4 DEF Drives, SameCopy, Id
<1>5. Driving(i)' = {} => Driving(i) = {} \/ faults' = faults + 1
  BY <1>3 DEF Driving
<1>6. ASSUME NEW x \in Workers, Claimed(x, i)', ~ Leased(x, i)'
      PROVE  Stray(i) # {} \/ (faults' = faults + 1 /\ Driving(i) = {})
  <2>1. Claimed(x, i)
    BY <1>1, <1>2, <1>6
  <2>2. CASE ~ Leased(x, i)
    BY <2>1, <2>2 DEF Stray
  <2>3. CASE Leased(x, i)
    <3>1. faults' = faults + 1
      BY <1>6, <2>1, <2>3 DEF LeasesKept, LeaseKept, Claimed
    <3> QED
      BY <2>1, <3>1 DEF OneDriver
  <2> QED
    BY <2>2, <2>3
<1>7. Stray(i)' # {} => Stray(i) # {} \/ (faults' = faults + 1 /\ Driving(i) = {})
  BY <1>6 DEF Stray
<1>8. ASSUME NEW x \in Workers, NEW y \in Workers, Drives(y, i)', Claimed(x, i)' PROVE FALSE
  <2>1. Drives(y, i) /\ Leased(y, i)
    BY <1>4, <1>8 DEF Drives
  <2>2. Claimed(x, i)
    BY <1>1, <1>2, <1>8, <2>1
  <2> QED
    BY <2>1, <2>2 DEF OneDriver, Driving
<1>9. Driving(i)' # {} => \A x \in Workers : ~ Claimed(x, i)'
  BY <1>8 DEF Driving
<1> QED
  BY <1>5, <1>7, <1>9 DEF Accounted

\* Where a worker goes after it has stored a content.
LEMMA SaveTargets ==
  ASSUME AInv, NEW w \in Workers, MarkStepRunning(w) \/ FinishInstance(w) \/ SaveResult(w)
  PROVE  \E to \in {"append", "enqueue", "schedule", "release", "abort"} :
           /\ pc' = [pc EXCEPT ![w] = to]
           /\ to = "append" => MarkStepRunning(w)
           /\ MarkStepRunning(w) => to = "append" \/ faults' = faults + 1
<1>1. CASE MarkStepRunning(w)
  BY <1>1 DEF MarkStepRunning, Reply, Goto, Fault
<1>2. CASE FinishInstance(w) /\ ~ MarkStepRunning(w)
  BY <1>2 DEF FinishInstance, Reply, Goto
<1>3. CASE SaveResult(w) /\ ~ MarkStepRunning(w)
  <2>1. PICK to \in {"enqueue", "schedule", "release", "abort"} : pc' = [pc EXCEPT ![w] = to]
    BY <1>3, ResultTargets
  <2> QED
    BY <1>3, <2>1
<1> QED
  BY <1>1, <1>2, <1>3

\* A step that stores a content changes nothing for the other instances.
SameAccount(j) ==
  /\ rows'[j] = rows[j]
  /\ Driving(j)' = Driving(j) /\ Stray(j)' = Stray(j)
  /\ \A x \in Workers : Claimed(x, j)' <=> Claimed(x, j)

\* A new version of the row leaves every other worker behind.
LEMMA SaveAccounts ==
  ASSUME AInv, NEW w \in Workers, MarkStepRunning(w) \/ FinishInstance(w) \/ SaveResult(w)
  PROVE  \E i \in Instances :
           /\ i = Id(w)
           /\ pc[w] = "advance" => Claimed(w, i)
           /\ \A x \in Workers : ~ Claimed(x, i)'
           /\ MarkStepRunning(w) /\ Leased(w, i) => Driving(i)' # {} \/ faults' = faults + 1
           /\ \A j \in Instances \ {i} : SameAccount(j)
<1>1. SaveStep(w)
  BY SaveActions
<1>2. PICK inst : Save(w, inst)
  BY <1>1 DEF SaveStep
<1>3. Shape /\ pc[w] \notin {"idle", "ack"}
  BY <1>1 DEF SaveStep, Moves, AInv, IInv
<1>4. PICK i \in Instances : i = Id(w)
  BY <1>2, <1>3, SaveEffect
<1>5. /\ rows[i].version = job[w].version /\ job[w].version \in Nat
      /\ \A j \in Instances \ {i} : rows'[j] = rows[j]
      /\ rows'[i] = [inst |-> inst, version |-> rows[i].version + 1,
                     lockedBy |-> rows[i].lockedBy, live |-> rows[i].live]
      /\ \A x \in Workers \ {w} : job'[x] = job[x]
      /\ job'[w] = [msg |-> job[w].msg, inst |-> inst, version |-> job[w].version + 1, out |-> job[w].out]
  BY <1>2, <1>3, <1>4, SaveEffect
<1>6. /\ rows'[i].version = rows[i].version + 1 /\ rows'[i].lockedBy = rows[i].lockedBy
      /\ rows'[i].live = rows[i].live
  BY <1>5
<1>7. job'[w].msg = job[w].msg /\ job'[w].version = rows'[i].version
  BY <1>5, <1>6
<1>8. PICK to \in {"append", "enqueue", "schedule", "release", "abort"} :
           /\ pc' = [pc EXCEPT ![w] = to]
           /\ to = "append" => MarkStepRunning(w)
           /\ MarkStepRunning(w) => to = "append" \/ faults' = faults + 1
  BY SaveTargets
<1>9. pc'[w] = to /\ \A x \in Workers \ {w} : pc'[x] = pc[x]
  BY <1>3, <1>8 DEF Shape, JobsOK, IsFun
<1>10. Id(w)' = i
  BY <1>4, <1>7 DEF Id
<1>11. ASSUME NEW x \in Workers, Claimed(x, i)' PROVE FALSE
  <2>1. x # w
    BY <1>8, <1>9, <1>11 DEF Claimed
  <2>2. pc[x] = "advance" /\ Id(x) = i /\ job[x].version = rows[i].version + 1
    BY <1>5, <1>6, <1>9, <1>11, <2>1 DEF Claimed, Id
  <2>3. job[x].version <= rows[i].version
    BY <2>2 DEF AInv, IInv, SnapshotCurrent, Holding
  <2>4. PICK n \in Nat : n = rows[i].version
    BY <1>5
  <2> QED
    BY ONLY <2>2, <2>3, <2>4
<1>12. MarkStepRunning(w) /\ Leased(w, i) => Driving(i)' # {} \/ faults' = faults + 1
  <2> SUFFICES ASSUME MarkStepRunning(w), Leased(w, i), faults' # faults + 1 PROVE Driving(i)' # {}
    OBVIOUS
  <2>1. pc'[w] \in Marked
    BY <1>8, <1>9 DEF Marked
  <2>2. Leased(w, i)'
    BY <1>6 DEF Leased
  <2>3. Drives(w, i)'
    BY <1>7, <1>10, <2>1, <2>2 DEF Drives
  <2> QED
    BY <2>3 DEF Driving
<1>13. ASSUME NEW j \in Instances \ {i}
       PROVE  /\ rows'[j] = rows[j]
              /\ \A x \in Workers : /\ (Claimed(x, j)' <=> Claimed(x, j)) /\ (Drives(x, j)' <=> Drives(x, j))
                                    /\ (Leased(x, j)' <=> Leased(x, j))
  <2>1. rows'[j] = rows[j]
    BY <1>5
  <2>2. ~ Claimed(w, j) /\ ~ Claimed(w, j)' /\ ~ Drives(w, j) /\ ~ Drives(w, j)'
    BY <1>4, <1>10 DEF Claimed, Drives
  <2>3. \A x \in Workers : (Leased(x, j)' <=> Leased(x, j))
    BY <2>1 DEF Leased
  <2>4. ASSUME NEW x \in Workers \ {w}
        PROVE  (Claimed(x, j)' <=> Claimed(x, j)) /\ (Drives(x, j)' <=> Drives(x, j))
    <3>1. pc'[x] = pc[x] /\ job'[x] = job[x]
      BY <1>5, <1>9
    <3> QED
      BY <2>1, <2>3, <3>1 DEF Claimed, Drives, Id
  <2> QED
    BY <2>1, <2>2, <2>3, <2>4
<1>14. \A j \in Instances \ {i} : Driving(j)' = Driving(j) /\ Stray(j)' = Stray(j)
  BY <1>13 DEF Driving, Stray
<1>15. pc[w] = "advance" => Claimed(w, i)
  BY <1>4, <1>5 DEF Claimed
<1> QED
  BY <1>4, <1>11, <1>12, <1>13, <1>14, <1>15 DEF SameAccount

\* Nobody has a copy of a row that does not exist yet.
LEMMA CreateAccounts ==
  ASSUME AInv, NEW i \in Instances, ApiCreate(i)
  PROVE  /\ \A x \in Workers : ~ Claimed(x, i)'
         /\ \A j \in Instances \ {i} : SameAccount(j)
<1>1. IsFun(rows, Instances) /\ IsRow(rows[i]) /\ rows[i].version = 0
  BY DEF AInv, IInv, Shape, RowsOK, ApiCreate, CreateInstance, Exists
<1>2. rows' = [rows EXCEPT ![i].inst = NewRuntimeState("pending"), ![i].version = 1]
      /\ UNCHANGED <<pc, job>>
  BY DEF ApiCreate, CreateInstance
<1>3. \A j \in Instances \ {i} : rows'[j] = rows[j]
  BY <1>1, <1>2 DEF IsFun
<1>4. rows'[i].version = 1
  BY <1>1, <1>2 DEF IsFun, IsRow
<1>5. ASSUME NEW x \in Workers, Claimed(x, i)' PROVE FALSE
  <2>1. pc[x] = "advance" /\ Id(x) = i /\ job[x].version = 1
    BY <1>2, <1>4, <1>5 DEF Claimed, Id
  <2>2. job[x].version <= rows[i].version
    BY <2>1 DEF AInv, IInv, SnapshotCurrent, Holding
  <2> QED
    BY <1>1, <2>1, <2>2
<1>6. ASSUME NEW j \in Instances \ {i}, NEW x \in Workers
      PROVE  /\ (Claimed(x, j)' <=> Claimed(x, j)) /\ (Drives(x, j)' <=> Drives(x, j))
             /\ (Leased(x, j)' <=> Leased(x, j))
  BY <1>2, <1>3 DEF Claimed, Drives, Leased, Id
<1>7. \A j \in Instances \ {i} : Driving(j)' = Driving(j) /\ Stray(j)' = Stray(j)
  BY <1>6 DEF Driving, Stray
<1> QED
  BY <1>3, <1>5, <1>6, <1>7 DEF SameAccount

-----------------------------------------------------------------------------
(* The invariant, and the steps that keep it *)

\* The account of instance i: its attempts and the workers at work on it.
AccountOK(i) ==
  /\ OneDriver(i)
  /\ Stray(i) # {} => faults # 0
  /\ AllCounted(rows[i].inst, faults, Driving(i), Stray(i))

\* A delay that has waited is executed after its time, and succeeds.
ResumeOK(w) ==
  LET state == job[w].inst.steps[Cur(w)] IN
  pc[w] \in Marked /\ IsDelay(Cur(w)) /\ state.prev # 0 =>
    /\ <<Cur(w), state.prev>> \in past[Id(w)]
    /\ pc[w] \in Resulted => job[w].out.kind = "success"

CountOK ==
  /\ faults \in Nat
  /\ \A i \in Instances : AccountOK(i)
  /\ \A i \in Instances : \A time \in past[i] : time[2] # 0
  /\ \A w \in Workers : ResumeOK(w)

\* What the stored contents obey if the definition is in order: a step that is over is left
\* alone, and only compensations are queued.
DoneKept ==
  \A i \in Instances : \A s \in StepIds :
    rows[i].inst.steps[s].status \in {"completed", "failed"} =>
      rows'[i].inst.steps[s] = rows[i].inst.steps[s]

UndoQueued ==
  \A i \in Instances : \A n \in DOMAIN rows[i].inst.queue : rows[i].inst.queue[n] \in CompensationRefs

\* No compensation is a delay.  The validator does not ask for it; such a compensation would
\* be put off again and again, because advanceCompensation executes it with an empty
\* previous state.
CompensationsPrompt == \A s \in CompensationRefs : ~ IsDelay(s)

LEMMA InitCount == Init => CountOK
<1> SUFFICES ASSUME Init PROVE CountOK
  OBVIOUS
<1>1. faults = 0 /\ \A w \in Workers : pc[w] = "idle"
  BY DEF Init
<1>2. \A i \in Instances : rows[i].inst = NewRuntimeState("absent") /\ past[i] = {}
  BY DEF Init, DBInit, TimerInit, Absent
<1>3. ASSUME NEW i \in Instances PROVE AccountOK(i)
  <2>1. Driving(i) = {} /\ Stray(i) = {}
    BY <1>1 DEF Driving, Drives, Stray, Claimed, Marked, Resulted
  <2>2. AllCounted(rows[i].inst, faults, Driving(i), Stray(i))
    BY <1>1, <1>2, CountNew
  <2> QED
    BY <2>1, <2>2 DEF AccountOK, OneDriver
<1>4. \A w \in Workers : ResumeOK(w)
  BY <1>1 DEF ResumeOK, Marked, Resulted
<1> QED
  BY <1>1, <1>2, <1>3, <1>4 DEF CountOK

LEMMA FaultsGrow ==
  ASSUME CountOK, [Next]_vars
  PROVE  /\ faults \in Nat /\ faults' \in Nat /\ faults' \in {faults, faults + 1}
         /\ faults # 0 => faults' # 0
         /\ faults' = faults + 1 => faults' # 0
<1>1. faults \in Nat /\ (UNCHANGED faults \/ faults' = faults + 1)
  BY FaultsCounted DEF CountOK
<1> QED
  BY <1>1

\* The account, when nothing is stored.
LEMMA QuietCount ==
  ASSUME AInv, LeasesKept, SameRows, \A x \in Workers : Phase(x), CountOK, [Next]_vars, NEW i \in Instances
  PROVE  AccountOK(i)'
<1>1. AccountOK(i) /\ IsContent(rows[i].inst)
  BY DEF CountOK, AInv, ContentOK
<1>2. /\ Driving(i)' = {} => Driving(i) = {} \/ faults' = faults + 1
      /\ Stray(i)' # {} => Stray(i) # {} \/ (faults' = faults + 1 /\ Driving(i) = {})
      /\ Driving(i)' # {} => \A x \in Workers : ~ Claimed(x, i)'
  BY <1>1, QuietAccounts DEF AccountOK, Accounted
<1>3. /\ faults \in Nat /\ faults' \in {faults, faults + 1}
      /\ faults # 0 => faults' # 0
      /\ faults' = faults + 1 => faults' # 0
  BY FaultsGrow
<1>4. AllCounted(rows[i].inst, faults, Driving(i), Stray(i))
  BY <1>1 DEF AccountOK
<1>5. PICK c, f, g, D, S, E, T : /\ c = rows[i].inst /\ f = faults /\ g = faults'
                                 /\ D = Driving(i) /\ S = Stray(i) /\ E = Driving(i)' /\ T = Stray(i)'
  OBVIOUS
<1>6. /\ IsContent(c) /\ f \in Nat /\ g \in {f, f + 1} /\ AllCounted(c, f, D, S)
      /\ E = {} => D = {} \/ g = f + 1
      /\ T # {} => S # {} \/ (g = f + 1 /\ D = {})
  BY <1>1, <1>2, <1>3, <1>4, <1>5
<1>7. AllCounted(c, g, E, T)
  BY ONLY <1>6, CountKept
<1>8. rows'[i].inst = c
  BY <1>5 DEF SameRows
<1>9. AllCounted(rows[i].inst, faults, Driving(i), Stray(i))'
  BY ONLY <1>5, <1>7, <1>8 DEF AllCounted, Counted, RunCount, WaitCount, Budget, Cost, IsDelay
<1>10. OneDriver(i)'
  BY <1>2 DEF OneDriver
<1>11. (Stray(i) # {} => faults # 0)'
  BY <1>1, <1>2, <1>3 DEF AccountOK
<1> QED
  BY <1>9, <1>10, <1>11 DEF AccountOK

\* The account of an instance that is not written to.
LEMMA OtherCount ==
  ASSUME AInv, CountOK, [Next]_vars, NEW i \in Instances, SameAccount(i) PROVE AccountOK(i)'
<1>1. AccountOK(i) /\ IsContent(rows[i].inst)
  BY DEF CountOK, AInv, ContentOK
<1>2. rows'[i] = rows[i] /\ Driving(i)' = Driving(i) /\ Stray(i)' = Stray(i)
      /\ \A x \in Workers : Claimed(x, i)' <=> Claimed(x, i)
  BY DEF SameAccount
<1>3. faults \in Nat /\ faults' \in {faults, faults + 1} /\ (faults # 0 => faults' # 0)
  BY FaultsGrow
<1>4. AllCounted(rows[i].inst, faults, Driving(i), Stray(i))
  BY <1>1 DEF AccountOK
<1>5. PICK c, f, g, D, S : /\ c = rows[i].inst /\ f = faults /\ g = faults'
                           /\ D = Driving(i) /\ S = Stray(i)
  OBVIOUS
<1>6. IsContent(c) /\ f \in Nat /\ g \in {f, f + 1} /\ AllCounted(c, f, D, S)
  BY <1>1, <1>3, <1>4, <1>5
<1>7. AllCounted(c, g, D, S)
  BY ONLY <1>6, CountKept
<1>8. AllCounted(rows[i].inst, faults, Driving(i), Stray(i))'
  BY ONLY <1>2, <1>5, <1>7 DEF AllCounted, Counted, RunCount, WaitCount, Budget, Cost, IsDelay
<1>9. OneDriver(i)' /\ (Stray(i) # {} => faults # 0)'
  BY <1>1, <1>2, <1>3 DEF AccountOK, OneDriver
<1> QED
  BY <1>8, <1>9 DEF AccountOK

\* The account of an instance with a new content.
LEMMA NewAccount ==
  ASSUME NEW i \in Instances, \A x \in Workers : ~ Claimed(x, i)', NEW d, d = rows'[i].inst,
         NEW g, g = faults', NEW E, E = Driving(i)', AllCounted(d, g, E, {})
  PROVE  AccountOK(i)'
<1>1. Stray(i)' = {} /\ OneDriver(i)'
  BY DEF Stray, OneDriver
<1>2. AllCounted(rows[i].inst, faults, Driving(i), Stray(i))'
  BY <1>1 DEF AllCounted, Counted, RunCount, WaitCount, Budget, Cost, IsDelay
<1> QED
  BY <1>1, <1>2 DEF AccountOK

LEMMA CreateCount ==
  ASSUME AInv, CountOK, [Next]_vars, NEW i \in Instances, ApiCreate(i)
  PROVE  \A j \in Instances : AccountOK(j)'
<1>1. (\A x \in Workers : ~ Claimed(x, i)') /\ \A j \in Instances \ {i} : SameAccount(j)
  BY CreateAccounts
<1>2. PICK d, g, E : d = rows'[i].inst /\ g = faults' /\ E = Driving(i)'
  OBVIOUS
<1>3. d = NewRuntimeState("pending") /\ g \in Nat
  BY <1>2, CreatedRow, FaultsGrow
<1>4. AllCounted(d, g, E, {})
  BY ONLY <1>3, CountNew
<1>5. AccountOK(i)'
  BY <1>1, <1>2, <1>4, NewAccount
<1> QED
  BY <1>1, <1>5, OtherCount

\* The step that is started: not one that is over, and a delay only on the normal path.
LEMMA StartedStep ==
  ASSUME CompensationsPrompt, AInv, RunOK, StoredTyped, UndoQueued, DoneKept,
         NEW w \in Workers, MarkStepRunning(w), NEW c, c = job[w].inst
  PROVE  Startable(c)
<1>1. pc[w] = "advance" /\ pc[w] \in Advancing /\ StepToRun(c).next \in StepIds
      /\ Save(w, StartStep(c, keySeq + 1))
  BY DEF MarkStepRunning, Advancing
<1>7. PICK d : d = StartStep(c, keySeq + 1)
  OBVIOUS
<1>0. PICK s \in StepIds : s = StepToRun(c).next
  BY <1>1
<1>2. PICK i \in Instances :
        i = Id(w) /\ rows[i].inst = c /\ rows'[i].inst = d /\ IsContent(c)
  BY <1>1, <1>7, SaveFacts
<1>3. d.cur = s /\ d.steps[s].status = "running"
  BY <1>0, <1>2, <1>7, StartContent
<1>4. c.steps[s].status \notin {"completed", "failed"}
  BY <1>2, <1>3 DEF DoneKept
<1>5. c.steps[s].status \in StepStatuses /\ c.queue \in Seq(StepIds)
  <2>1. c \in Content
    BY <1>2 DEF StoredTyped
  <2>2. c.steps \in [StepIds -> StepState] /\ c.queue \in Seq(StepIds)
    BY <2>1 DEF Content
  <2> QED
    BY <2>2 DEF StepState
<1>6. ASSUME Compensates(c) PROVE ~ IsDelay(s)
  <2>1. c.queue # <<>>
    BY <1>1, <1>2, <1>6 DEF RunOK, WaitOK, Compensates
  <2>2. s = Head(c.queue) /\ 1 \in DOMAIN c.queue
    BY <1>0, <1>5, <1>6, <2>1 DEF StepToRun
  <2>3. s = c.queue[1]
    BY <1>5, <2>1, <2>2
  <2>4. s \in CompensationRefs
    BY <1>2, <2>2, <2>3 DEF UndoQueued
  <2> QED
    BY <2>4 DEF CompensationsPrompt
<1> QED
  BY <1>0, <1>1, <1>4, <1>5, <1>6 DEF StepStatuses, Startable

\* The account, when a content is stored that starts a step, finishes the instance, or holds
\* a result.
LEMMA MarkCount ==
  ASSUME CompensationsPrompt, AInv, RunOK, StoredTyped, UndoQueued, DoneKept, CountOK, [Next]_vars,
         NEW w \in Workers, MarkStepRunning(w)
  PROVE  \A j \in Instances : AccountOK(j)'
<1>1. PICK i \in Instances :
        /\ i = Id(w) /\ Claimed(w, i)
        /\ \A x \in Workers : ~ Claimed(x, i)'
        /\ Leased(w, i) => Driving(i)' # {} \/ faults' = faults + 1
        /\ \A j \in Instances \ {i} : SameAccount(j)
  BY SaveAccounts DEF MarkStepRunning
<1>2. pc[w] \in Advancing /\ Save(w, StartStep(job[w].inst, keySeq + 1))
  BY DEF MarkStepRunning, Advancing
<1>3. PICK c, d, key, f, g, S, E :
        /\ c = job[w].inst /\ key = keySeq + 1 /\ d = StartStep(c, key) /\ f = faults /\ g = faults'
        /\ S = Stray(i) /\ E = Driving(i)'
  OBVIOUS
<1>4. rows[i].inst = c /\ rows'[i].inst = d /\ IsContent(c) /\ c.status \notin Terminal
  BY <1>1, <1>2, <1>3, SaveFacts
<1>5. WaitOK(c)
  BY <1>2, <1>3 DEF RunOK
<1>6. Startable(c)
  BY <1>3, StartedStep
<1>7. f \in Nat /\ g \in {f, f + 1}
  BY <1>3, FaultsGrow
<1>8. AccountOK(i)
  BY DEF CountOK
<1>9. Driving(i) = {}
  BY <1>1, <1>8 DEF AccountOK, OneDriver
<1>10. AllCounted(c, f, {}, S) /\ (S # {} => f # 0)
  BY <1>3, <1>4, <1>8, <1>9 DEF AccountOK
<1>11. E = {} => g = f + 1 \/ S # {}
  <2>1. ~ Leased(w, i) => w \in Stray(i)
    BY <1>1 DEF Stray
  <2> QED
    BY <1>1, <1>3, <2>1
<1>12. AllCounted(d, g, E, {})
  <2>1. d = StartStep(c, key)
    BY <1>3
  <2>2. IsContent(c) /\ c.status \notin Terminal
    BY <1>4
  <2>3. Charged(f, g, S, E)
    BY <1>10, <1>11 DEF Charged
  <2> QED
    BY ONLY <1>5, <1>6, <1>7, <1>10, <2>1, <2>2, <2>3, CountStarted
<1>13. AccountOK(i)'
  BY <1>1, <1>3, <1>4, <1>12, NewAccount
<1> QED
  BY <1>1, <1>13, OtherCount

LEMMA FinishCount ==
  ASSUME AInv, RunOK, CountOK, [Next]_vars, NEW w \in Workers, FinishInstance(w)
  PROVE  \A j \in Instances : AccountOK(j)'
<1>1. PICK i \in Instances :
        /\ i = Id(w)
        /\ \A x \in Workers : ~ Claimed(x, i)'
        /\ \A j \in Instances \ {i} : SameAccount(j)
  BY SaveAccounts
<1>2. pc[w] \in Advancing /\ Save(w, FinishWithoutStep(job[w].inst))
  BY DEF FinishInstance, Advancing
<1>3. PICK c, d, f, g, D, S, E :
        /\ c = job[w].inst /\ d = FinishWithoutStep(c) /\ f = faults /\ g = faults'
        /\ D = Driving(i) /\ S = Stray(i) /\ E = Driving(i)'
  OBVIOUS
<1>4. rows[i].inst = c /\ rows'[i].inst = d /\ IsContent(c)
  BY <1>1, <1>2, <1>3, SaveFacts
<1>5. d.steps = c.steps /\ d.status \in Terminal
  BY <1>3, <1>4, FinishWithoutStepContent
<1>6. f \in Nat /\ g \in {f, f + 1} /\ AllCounted(c, f, D, S)
  BY <1>3, <1>4, FaultsGrow DEF CountOK, AccountOK
<1>7. AllCounted(d, g, E, {})
  BY ONLY <1>4, <1>5, <1>6, CountOver
<1>8. AccountOK(i)'
  BY <1>1, <1>3, <1>4, <1>7, NewAccount
<1> QED
  BY <1>1, <1>8, OtherCount

LEMMA ResultCount ==
  ASSUME AInv, RunOK, CountOK, [Next]_vars, NEW w \in Workers, SaveResult(w)
  PROVE  \A j \in Instances : AccountOK(j)'
<1>1. PICK i \in Instances :
        /\ i = Id(w)
        /\ \A x \in Workers : ~ Claimed(x, i)'
        /\ \A j \in Instances \ {i} : SameAccount(j)
  BY SaveAccounts
<1>2. pc[w] = "update" /\ Save(w, HandleResult(job[w].inst, job[w].out))
  BY DEF SaveResult
<1>3. pc[w] \in Advancing /\ pc[w] \in Marked /\ pc[w] \in Resulted
  BY <1>2 DEF Advancing, Marked, Resulted
<1>4. PICK c, out, reached, d, f, g, D, S, E :
        /\ c = job[w].inst /\ out = job[w].out /\ out \in Execute(c, reached)
        /\ d = HandleResult(c, out) /\ f = faults /\ g = faults'
        /\ D = Driving(i) /\ S = Stray(i) /\ E = Driving(i)'
  BY <1>3 DEF RunOK
<1>5. rows[i].inst = c /\ rows'[i].inst = d /\ IsContent(c)
  BY <1>1, <1>2, <1>3, <1>4, SaveFacts
<1>6. WaitOK(c) /\ IsRunning(c)
  BY <1>3, <1>4 DEF RunOK
<1>7. IsDelay(c.cur) /\ c.steps[c.cur].prev # 0 => out.kind = "success"
  BY <1>3, <1>4 DEF CountOK, ResumeOK, Cur
<1>8. f \in Nat /\ g \in {f, f + 1} /\ AllCounted(c, f, D, S)
  BY <1>4, <1>5, FaultsGrow DEF CountOK, AccountOK
<1>9. AllCounted(d, g, E, {})
  BY ONLY <1>4, <1>5, <1>6, <1>7, <1>8, CountResult
<1>10. AccountOK(i)'
  BY <1>1, <1>4, <1>5, <1>9, NewAccount
<1> QED
  BY <1>1, <1>10, OtherCount

LEMMA StepAccounts ==
  ASSUME CompensationsPrompt, AInv, LeaseOK, LocksOK, RunOK, StoredTyped, UndoQueued,
         DoneKept, CountOK, [Next]_vars
  PROVE  \A i \in Instances : AccountOK(i)'
<1>1. LeasesKept
  BY StepLeases
<1> QED
  BY <1>1, QuietKinds, QuietCount, MarkCount, FinishCount, ResultCount, CreateCount

\* The clock reaches the time of an attempt, which is numbered from 1.
LEMMA StepPast ==
  ASSUME RunOK, CountOK, [Next]_vars PROVE (\A i \in Instances : \A time \in past[i] : time[2] # 0)'
<1>1. CASE UNCHANGED past
  BY <1>1 DEF CountOK
<1>2. ASSUME NEW j \in Instances, Elapse(j)
      PROVE  \A i \in Instances : \A time \in past'[i] : time[2] # 0
  <2>1. PICK time \in FireTimes(rows[j].inst) : past' = [past EXCEPT ![j] = past[j] \cup {time}]
    BY <1>2 DEF Elapse
  <2>2. PICK s \in StepIds : /\ time = <<s, rows[j].inst.steps[s].attempt>>
                             /\ rows[j].inst.steps[s].status \in {"running", "waiting_timer"}
    BY <2>1 DEF FireTimes
  <2>3. rows[j].inst.steps[s].attempt # 0
    BY <2>2 DEF CountOK, AccountOK, AllCounted, Counted
  <2>4. time[2] # 0
    BY <2>2, <2>3
  <2> QED
    BY <2>1, <2>4 DEF CountOK, RunOK, IsFun
<1> QED
  BY <1>1, <1>2, PastKept

\* A worker that goes on with what it has marked.
LEMMA ResumeKept ==
  ASSUME RunOK, CountOK, [Next]_vars, AInv, NEW x \in Workers,
         pc'[x] \in Marked => pc[x] \in Marked /\ job'[x].inst = job[x].inst /\ job'[x].msg = job[x].msg,
         pc'[x] \in Resulted => pc[x] \in Resulted /\ job'[x].out = job[x].out
  PROVE  ResumeOK(x)'
<1> SUFFICES ASSUME pc'[x] \in Marked, IsDelay(Cur(x)'), job'[x].inst.steps[Cur(x)'].prev # 0
             PROVE  /\ <<Cur(x)', job'[x].inst.steps[Cur(x)'].prev>> \in past'[Id(x)']
                    /\ pc'[x] \in Resulted => job'[x].out.kind = "success"
  BY DEF ResumeOK, IsDelay
<1>1. pc[x] \in Marked /\ Cur(x)' = Cur(x) /\ Id(x)' = Id(x) /\ job'[x].inst = job[x].inst
  BY DEF Cur, Id
<1>2. Id(x) \in Instances
  BY <1>1, AttemptTypes
<1>3. past[Id(x)] \subseteq past'[Id(x)]
  BY <1>2, PastGrows DEF RunOK
<1>4. ResumeOK(x)
  BY DEF CountOK
<1> QED
  BY <1>1, <1>3, <1>4 DEF ResumeOK

\* A waiting delay is marked running after its time.
LEMMA MarkResume ==
  ASSUME AInv, RunOK, NEW w \in Workers, MarkStepRunning(w) PROVE ResumeOK(w)'
<1>1. /\ pc[w] = "advance" /\ pc[w] \in Advancing
      /\ ~ WaitingOnTimer(job[w].inst, past[Id(w)])
      /\ StepToRun(job[w].inst).next \in StepIds
      /\ Save(w, StartStep(job[w].inst, keySeq + 1))
      /\ UNCHANGED past
  BY DEF MarkStepRunning, Advancing
<1>2. PICK c, d, key : c = job[w].inst /\ key = keySeq + 1 /\ d = StartStep(c, key)
  OBVIOUS
<1>3. /\ IsContent(c) /\ WaitOK(c) /\ StepToRun(c).next \in StepIds
      /\ job'[w].inst = d /\ job'[w].msg = job[w].msg
  BY <1>1, <1>2, SaveFacts DEF RunOK
<1>4. d.cur = StepToRun(c).next /\ d.steps[d.cur].prev = PreviousWait(c.steps[d.cur], d.status)
  BY <1>2, <1>3, StartContent, StartPrev
<1>5. Cur(w)' = d.cur /\ Id(w)' = Id(w)
  BY <1>3 DEF Cur, Id
<1>6. pc'[w] \notin Resulted
  <2>1. PICK to \in {"append", "enqueue", "schedule", "release", "abort"} : pc' = [pc EXCEPT ![w] = to]
    BY SaveTargets
  <2>2. pc'[w] = to
    BY <2>1 DEF AInv, IInv, Shape, JobsOK, IsFun
  <2> QED
    BY <2>2 DEF Resulted
<1>7. ASSUME d.steps[d.cur].prev # 0 PROVE <<d.cur, d.steps[d.cur].prev>> \in past[Id(w)]
  <2>1. c.steps[d.cur].status = "waiting_timer" /\ d.steps[d.cur].prev = c.steps[d.cur].waiting
    BY <1>4, <1>7 DEF PreviousWait
  <2>2. c.status = "waiting_timer" /\ c.cur = d.cur /\ c.steps[d.cur].waiting # 0
    BY <1>3, <1>4, <2>1 DEF WaitOK
  <2>3. c.cur # NoStep
    BY <1>3, <1>4, <2>2, StepsAssumption DEF WellFormed
  <2> QED
    BY <1>1, <1>2, <2>1, <2>2, <2>3 DEF WaitingOnTimer
<1> QED
  BY <1>1, <1>3, <1>5, <1>6, <1>7 DEF ResumeOK, IsDelay

\* A delay whose time has come succeeds.
LEMMA ExecuteResume ==
  ASSUME AInv, RunOK, CountOK, NEW w \in Workers, ExecuteStep(w) PROVE ResumeOK(w)'
<1>1. PICK out \in Execute(job[w].inst, past[Id(w)]) : job' = [job EXCEPT ![w].out = out]
  BY DEF ExecuteStep
<1>2. pc[w] = "execute" /\ UNCHANGED past
  BY DEF ExecuteStep
<1>3. job'[w].msg = job[w].msg /\ job'[w].inst = job[w].inst /\ job'[w].out = out
  BY <1>1 DEF AInv, IInv, Shape, JobsOK, IsFun, IsJob
<1>4. Id(w)' = Id(w) /\ Cur(w)' = Cur(w)
  BY <1>3 DEF Id, Cur
<1>5. PICK c : c = job[w].inst /\ c.cur \in StepIds
  BY <1>2 DEF RunOK, Marked, IsRunning
<1>6. ASSUME IsDelay(c.cur), c.steps[c.cur].prev # 0
      PROVE  <<c.cur, c.steps[c.cur].prev>> \in past[Id(w)] /\ out.kind = "success"
  <2>1. <<c.cur, c.steps[c.cur].prev>> \in past[Id(w)]
    BY <1>2, <1>5, <1>6 DEF CountOK, ResumeOK, Cur, Marked
  <2>2. out = DelayResult(c.cur, c.steps[c.cur], past[Id(w)])
    BY <1>1, <1>5, <1>6, ExecuteByType
  <2> QED
    BY <1>6, <2>1, <2>2, DelayKinds
<1> QED
  BY <1>2, <1>3, <1>4, <1>5, <1>6 DEF ResumeOK, Cur, IsDelay

LEMMA StepResumes ==
  ASSUME AInv, RunOK, CountOK, [Next]_vars PROVE \A w \in Workers : ResumeOK(w)'
<1>1. CASE SameWork
  BY <1>1, ResumeKept DEF SameWork, SameMarked
<1>2. ASSUME NEW w \in Workers, Claim(w), NEW x \in Workers PROVE ResumeOK(x)'
  <2>1. pc'[w] = "advance" /\ pc' = [pc EXCEPT ![w] = "advance"] /\ \A y \in Workers \ {w} : job'[y] = job[y]
    BY <1>2, ClaimFacts
  <2>2. \A y \in Workers \ {w} : pc'[y] = pc[y]
    BY <2>1 DEF AInv, IInv, Shape, JobsOK, IsFun
  <2>3. CASE x = w
    BY <2>1, <2>3 DEF ResumeOK, Marked, Resulted
  <2>4. CASE x # w
    BY <2>1, <2>2, <2>4, ResumeKept
  <2> QED
    BY <2>3, <2>4
<1>3. ASSUME NEW w \in Workers, ExecuteStep(w), NEW x \in Workers PROVE ResumeOK(x)'
  <2>1. pc' = [pc EXCEPT ![w] = "complete"] /\ \E out : job' = [job EXCEPT ![w].out = out]
    BY <1>3 DEF ExecuteStep, Goto
  <2>2. \A y \in Workers \ {w} : pc'[y] = pc[y] /\ job'[y] = job[y]
    BY <2>1 DEF AInv, IInv, Shape, JobsOK, IsFun
  <2>3. CASE x = w
    BY <1>3, <2>3, ExecuteResume
  <2>4. CASE x # w
    BY <2>2, <2>4, ResumeKept
  <2> QED
    BY <2>3, <2>4
<1>4. ASSUME NEW w \in Workers, MarkStepRunning(w) \/ FinishInstance(w) \/ SaveResult(w), NEW x \in Workers
      PROVE  ResumeOK(x)'
  <2>1. PICK to \in {"append", "enqueue", "schedule", "release", "abort"} :
          pc' = [pc EXCEPT ![w] = to] /\ (to = "append" => MarkStepRunning(w))
    BY <1>4, SaveTargets
  <2>2. pc'[w] = to /\ \A y \in Workers \ {w} : pc'[y] = pc[y]
    BY <2>1 DEF AInv, IInv, Shape, JobsOK, IsFun
  <2>3. \A y \in Workers \ {w} : job'[y] = job[y]
    <3>1. PICK inst : Save(w, inst) /\ pc[w] \in Advancing
      BY <1>4, SavedContent
    <3> QED
      BY <3>1, SaveFacts
  <2>4. CASE x # w
    BY <2>2, <2>3, <2>4, ResumeKept
  <2>5. CASE x = w /\ MarkStepRunning(w)
    BY <2>5, MarkResume
  <2>6. CASE x = w /\ ~ MarkStepRunning(w)
    BY <2>1, <2>2, <2>6 DEF ResumeOK, Marked, Resulted
  <2> QED
    BY <2>4, <2>5, <2>6
<1>5. ASSUME NEW i \in Instances, ApiCreate(i), NEW x \in Workers PROVE ResumeOK(x)'
  BY <1>5, CreatedRow, ResumeKept
<1> QED
  BY <1>1, <1>2, <1>3, <1>4, <1>5, StepKinds

LEMMA StepCount ==
  ASSUME CompensationsPrompt, AInv, LeaseOK, LocksOK, RunOK, StoredTyped, UndoQueued,
         DoneKept, CountOK, [Next]_vars
  PROVE  CountOK'
<1>1. (faults \in Nat)'
  BY FaultsGrow
<1>2. \A i \in Instances : AccountOK(i)'
  BY StepAccounts
<1>3. \A w \in Workers : ResumeOK(w)'
  BY StepResumes
<1> QED
  BY <1>1, <1>2, <1>3, StepPast DEF CountOK

-----------------------------------------------------------------------------
(* The attempts are bounded, and delays fire once *)

\* What is proved of Execution, of the rows.
LEMMA StoredOrder ==
  ASSUME Rows!PathInv PROVE UndoQueued
<1>1. Rows!CompensationRefs = CompensationRefs
  BY DEF Rows!CompensationRefs, CompensationRefs, Rows!NoStep, NoStep
<1>2. ASSUME NEW i \in Instances, NEW n \in DOMAIN rows[i].inst.queue
      PROVE  rows[i].inst.queue[n] \in CompensationRefs
  BY <1>1 DEF Rows!PathInv, Rows!PathOK
<1> QED
  BY <1>2 DEF UndoQueued

LEMMA StoredStays ==
  ASSUME Rows!ForksUnnested, Rows!StepsInOrder,
         Rows!TypeInv, Rows!PathInv, Rows!SagaInv, Rows!OrderInv, [Rows!ExecNext]_Rows!execVars
  PROVE  DoneKept
<1>1. Rows!StepIds = StepIds
  BY DEF Rows!StepIds, StepIds
<1>2. PICK old, new : old = [i \in Instances |-> rows[i].inst] /\ new = [i \in Instances |-> rows[i].inst]'
  OBVIOUS
<1>3. \A i \in Instances : Rows!DoneStays(old[i], new[i])
  BY <1>2, RowsWellFormed, BoundsAssumption, Rows!OrderStep
<1>4. ASSUME NEW i \in Instances, NEW s \in StepIds, rows[i].inst.steps[s].status \in {"completed", "failed"}
      PROVE  rows'[i].inst.steps[s] = rows[i].inst.steps[s]
  <2>1. old[i] = rows[i].inst /\ new[i] = rows'[i].inst
    BY <1>2
  <2> QED
    BY <1>1, <1>3, <1>4, <2>1 DEF Rows!DoneStays
<1> QED
  BY <1>4 DEF DoneKept

\* The account holds in every state of the engine.
LEMMA CountIsInvariant ==
  ASSUME Rows!CompensationsApart, Rows!ForksUnnested, Rows!StepsInOrder, CompensationsPrompt
  PROVE  Spec => [](RunOK /\ StoredTyped /\ CountOK)
<1>1. Spec => [](AInv /\ RunOK)
  BY InitAInv, StepAInv, InitRun, StepRun, PTL DEF Spec
<1>2. Spec => []StoredTyped
  BY StoredReferencesAreSteps, StoredIsTyped, PTL
<1>3. Spec => []LeaseOK
  <2>1. Init => LeaseOK
    BY WorkersAssumption DEF Init, DBInit, LeaseOK
  <2>2. AInv /\ LeaseOK /\ [Next]_vars => LeaseOK'
    BY StepLease
  <2> QED
    BY <1>1, <2>1, <2>2, PTL DEF Spec
<1>4. Spec => []LocksOK
  <2>1. Init => LocksOK
    BY InitData DEF DataOK
  <2>2. AInv /\ RunOK /\ LocksOK /\ [Next]_vars => LocksOK'
    BY StepLocks
  <2> QED
    BY <1>1, <2>1, <2>2, PTL DEF Spec
<1>5. Spec => []UndoQueued
  <2>1. Rows!ExecSpec => [](Rows!TypeInv /\ Rows!PathInv)
    BY RowsWellFormed, BoundsAssumption, Rows!PathIsInvariant
  <2>2. Rows!PathInv => UndoQueued
    BY StoredOrder
  <2> QED
    BY <2>1, <2>2, RowsExecuted, PTL
<1>6. Spec => [][DoneKept]_vars
  <2>1. Rows!ExecSpec => [](Rows!TypeInv /\ Rows!PathInv /\ Rows!SagaInv /\ Rows!OrderInv)
    BY RowsWellFormed, BoundsAssumption, Rows!OrderIsInvariant
  <2>2. /\ Rows!TypeInv /\ Rows!PathInv /\ Rows!SagaInv /\ Rows!OrderInv
        /\ [Rows!ExecNext]_Rows!execVars
        => DoneKept
    BY StoredStays
  <2> QED
    BY <2>1, <2>2, RowsExecuted, PTL DEF Rows!ExecSpec
<1>7. AInv /\ LeaseOK /\ LocksOK /\ RunOK /\ StoredTyped /\ UndoQueued /\ CountOK
      /\ [Next]_vars /\ [DoneKept]_vars => CountOK'
  <2>1. UNCHANGED vars => DoneKept
    BY DEF vars, DoneKept
  <2> QED
    BY <2>1, StepCount
<1> QED
  BY <1>1, <1>2, <1>3, <1>4, <1>5, <1>6, <1>7, InitCount, PTL DEF Spec

\* If the definition's references lead forward and no compensation is a delay: with any
\* number of workers, agents and messages a step is attempted at most once per retry and
\* once more, and every fault (a lost reply, a failed call, a crash, a lease that runs out)
\* adds at most one attempt; for a delay, two instead of one.
THEOREM RetriesAreBounded ==
  ASSUME Rows!CompensationsApart, Rows!ForksUnnested, Rows!StepsInOrder, CompensationsPrompt
  PROVE  Spec => []BoundedAttempts
<1>1. RunOK /\ StoredTyped /\ CountOK => BoundedAttempts
  <2> SUFFICES ASSUME CountOK, NEW i \in Instances, NEW s \in StepIds
               PROVE  rows[i].inst.steps[s].attempt <=
                        IF StepByID(s).type = "delay" THEN 2 * (1 + faults)
                        ELSE 1 + StepByID(s).maxRetries + faults
    BY DEF BoundedAttempts
  <2>1. PICK st : st = rows[i].inst.steps[s]
    OBVIOUS
  <2>2. faults \in Nat /\ st.attempt <= Budget(s, faults) + Cost(s)
    BY <2>1 DEF CountOK, AccountOK, AllCounted, Counted
  <2>3. /\ StepByID(s).maxRetries \in Nat
        /\ ~ IsDelay(s) => Budget(s, faults) = StepByID(s).maxRetries + faults /\ Cost(s) = 1
        /\ IsDelay(s) => Budget(s, faults) = 2 * faults /\ Cost(s) = 2
    BY <2>2, BudgetGrows
  <2>4. CASE IsDelay(s)
    <3>1. st.attempt <= 2 * faults + 2
      BY <2>2, <2>3, <2>4
    <3>2. 2 * faults + 2 = 2 * (1 + faults)
      BY <2>2
    <3> QED
      BY <2>1, <2>4, <3>1, <3>2 DEF IsDelay
  <2>5. CASE ~ IsDelay(s)
    <3>1. st.attempt <= (StepByID(s).maxRetries + faults) + 1
      BY <2>2, <2>3, <2>5
    <3>2. (StepByID(s).maxRetries + faults) + 1 = 1 + StepByID(s).maxRetries + faults
      BY <2>2, <2>3
    <3> QED
      BY <2>1, <2>5, <3>1, <3>2 DEF IsDelay
  <2> QED
    BY <2>4, <2>5
<1> QED
  BY <1>1, CountIsInvariant, PTL

\* Under the same conditions, the fire times that a delay has let pass before the one it
\* waits for number at most two per fault: without faults, a delay is never put off.
THEOREM DelaysFireOnce ==
  ASSUME Rows!CompensationsApart, Rows!ForksUnnested, Rows!StepsInOrder, CompensationsPrompt
  PROVE  Spec => []DelayFiresOnce
<1>1. RunOK /\ StoredTyped /\ CountOK => DelayFiresOnce
  <2> SUFFICES ASSUME RunOK, StoredTyped, CountOK, NEW i \in Instances, NEW s \in StepIds, NEW step,
                      step = rows[i].inst.steps[s], IsDelay(s), step.status = "waiting_timer"
               PROVE  Cardinality({time \in past[i] : time[1] = s /\ time[2] < step.waiting}) <= 2 * faults
    BY DEF DelayFiresOnce, IsDelay
  <2>1. PICK f \in Nat : f = faults
    BY DEF CountOK
  <2>2. WaitCount(step, s, f, Stray(i)) /\ step.attempt \in Nat
    <3>1. rows[i].inst.status \notin Terminal
      BY DEF RunOK, WaitOK, Terminal
    <3>2. rows[i].inst.steps \in [StepIds -> StepState]
      BY DEF StoredTyped, Content
    <3>3. step.attempt \in Nat
      BY <3>2 DEF StepState
    <3> QED
      BY <2>1, <3>1, <3>3 DEF CountOK, AccountOK, AllCounted, Counted
  <2>3. PICK n \in Nat : n = step.waiting /\ n <= 2 * f + 1
    BY <2>1, <2>2, BudgetGrows DEF WaitCount
  <2>4. PICK times : times = {time \in past[i] : time[1] = s /\ time[2] < step.waiting}
    OBVIOUS
  <2>5. PICK number : number = [time \in times |-> time[2]]
    OBVIOUS
  <2>6. ASSUME NEW time \in times PROVE number[time] \in 1 .. 2 * f /\ time = <<s, number[time]>>
    <3>1. time \in StepIds \X Nat /\ time[1] = s /\ time[2] < n /\ time[2] # 0
      BY <2>3, <2>4 DEF StoredTyped, CountOK
    <3>2. PICK k \in Nat : k = time[2]
      BY <3>1
    <3>3. k \in 1 .. 2 * f
      BY ONLY <2>3, <3>1, <3>2, f \in Nat
    <3> QED
      BY <2>5, <3>1, <3>2, <3>3
  <2>7. number \in Injection(times, 1 .. 2 * f)
    <3>1. number \in [times -> 1 .. 2 * f]
      BY <2>5, <2>6
    <3>2. \A a, b \in times : number[a] = number[b] => a = b
      BY <2>6
    <3> QED
      BY <3>1, <3>2 DEF Injection, IsInjective
  <2>8. IsFiniteSet(1 .. 2 * f) /\ Cardinality(1 .. 2 * f) = 2 * f
    <3>1. PICK m \in Nat : m = 2 * f
      OBVIOUS
    <3>2. IsFiniteSet(1 .. m) /\ Cardinality(1 .. m) = IF 1 > m THEN 0 ELSE m - 1 + 1
      BY ONLY m \in Nat, FS_Interval
    <3> QED
      BY <3>1, <3>2
  <2> QED
    BY <2>1, <2>4, <2>7, <2>8, FS_Injection
<1> QED
  BY <1>1, CountIsInvariant, PTL

=============================================================================
