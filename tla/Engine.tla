------------------------------- MODULE Engine -------------------------------
(***************************************************************************)
(* The engine (internal/engine/engine.go): workers that consume the stream *)
(* and advance instances, the recovery loop, the API's createInstance      *)
(* (internal/api/handlers.go), and the timer service, over PostgreSQL and  *)
(* Redis.  Every call to a store is a step of its own, so another process  *)
(* may act, a lease may expire, or a worker may crash, between any two.    *)
(***************************************************************************)
EXTENDS TimerService

CONSTANTS
  MaxAttempts,   \* bound on the attempts of a step
  MaxFaults      \* bound on failed store calls, lost replies, crashes and leases that
                 \* expire while their holder is alive

ASSUME BoundsAssumption == MaxAttempts \in Nat /\ MaxFaults \in Nat

VARIABLES
  pc,        \* pc[w]: the store call worker w makes next
  job,       \* job[w]: the message in process, the claimed instance, the step's result
  recov,     \* instances the recovery loop has listed and not yet enqueued
  api,       \* instances createInstance has inserted and not yet enqueued
  keySeq,    \* number of idempotency keys handed out (uuid.NewString)
  faults,    \* number of faults so far
  effects    \* executions of steps so far (kept for the properties only)

engineVars == <<pc, job, recov, api, keySeq, faults, effects>>

vars == <<rows, history, timers, past, rkey, notif, agent, stream, batch,
          pc, job, recov, api, keySeq, faults, effects>>

NoMsg == [id |-> "none", inst |-> NoInst]

\* inst and version are the worker's copy of the row, out the result of the execution.
NoJob == [msg |-> NoMsg, inst |-> Absent, version |-> 0, out |-> Fails]

PcValues == {"idle", "advance", "append", "execute", "complete", "clearRow", "clearKey", "update",
             "enqueue", "schedule", "setKey", "fire", "fireKey", "fireKeyOnly",
             "release", "abort", "ack"}

Init ==
  /\ DBInit
  /\ StreamInit(Workers)
  /\ TimerInit
  /\ pc = [w \in Workers |-> "idle"]
  /\ job = [w \in Workers |-> NoJob]
  /\ recov = {}
  /\ api = {}
  /\ keySeq = 0
  /\ faults = 0
  /\ effects = {}

TypeOK ==
  /\ DBTypeOK
  /\ StreamTypeOK(Instances, Workers)
  /\ TimerTypeOK
  /\ pc \in [Workers -> PcValues]
  /\ job \in [Workers -> [msg : [id : MsgIds, inst : Instances] \cup {NoMsg},
                          inst : Content, version : Nat, out : Outcome]]
  /\ recov \subseteq Instances
  /\ api \subseteq Instances
  /\ keySeq \in Nat
  /\ faults \in 0 .. MaxFaults
  /\ effects \subseteq [inst : Instances, step : StepIds, attempt : Nat, key : Nat, by : Workers]

-----------------------------------------------------------------------------
\* The instance w works on, and its step.
Id(w) == job[w].msg.inst
Cur(w) == job[w].inst.cur
Attempt(w) == job[w].inst.steps[Cur(w)].attempt

Fault == faults < MaxFaults /\ faults' = faults + 1

Goto(w, to) == pc' = [pc EXCEPT ![w] = to]

\* The reply of a store call that took effect reaches the worker, or is lost: then the
\* call returns an error and Advance returns it, after the deferred release.
Reply(w, to) ==
  \/ Goto(w, to) /\ UNCHANGED faults
  \/ Goto(w, "abort") /\ Fault

\* The message is done with; the worker takes the next one of its batch.
NextMessage(w) ==
  /\ pc' = [pc EXCEPT ![w] = "idle"]
  /\ job' = [job EXCEPT ![w] = NoJob]
  /\ batch' = [batch EXCEPT ![w] = @ \ {job[w].msg}]

-----------------------------------------------------------------------------
(* consume, reclaimPending and processMessage *)

Consume(w) ==
  /\ pc[w] = "idle" /\ batch[w] = {}
  /\ XReadGroup(w)
  /\ UNCHANGED <<dbVars, past, timerVars, engineVars>>

ReclaimPending(w) ==
  /\ pc[w] = "idle" /\ batch[w] = {}
  /\ XAutoClaim(w)
  /\ UNCHANGED <<dbVars, past, timerVars, engineVars>>

\* Advance claims the instance of the next message, and reads its row.
Claim(w) ==
  /\ pc[w] = "idle"
  /\ \E m \in batch[w] :
       /\ ClaimInstance(m.inst, w)
       /\ job' = [job EXCEPT ![w] = [NoJob EXCEPT !.msg = m, !.inst = rows[m.inst].inst,
                                                  !.version = rows[m.inst].version]]
       /\ Goto(w, "advance")
  /\ UNCHANGED <<history, timers, past, timerVars, stream, batch, recov, api, keySeq, faults, effects>>

\* ErrInstanceBusy: processMessage acknowledges the message as a duplicate.
ClaimBusy(w) ==
  /\ pc[w] = "idle"
  /\ \E m \in batch[w] :
       /\ InstanceBusy(m.inst)
       /\ job' = [job EXCEPT ![w] = [NoJob EXCEPT !.msg = m]]
       /\ Goto(w, "ack")
  /\ UNCHANGED <<dbVars, past, timerVars, stream, batch, recov, api, keySeq, faults, effects>>

\* The claim fails, or its reply is lost: nothing is released, the message stays pending.
ClaimError(w) ==
  /\ pc[w] = "idle"
  /\ Fault
  /\ \E m \in batch[w] :
       /\ batch' = [batch EXCEPT ![w] = @ \ {m}]
       /\ UNCHANGED rows \/ ClaimInstance(m.inst, Orphan)
  /\ UNCHANGED <<history, timers, past, timerVars, stream, pc, job, recov, api, keySeq, effects>>

-----------------------------------------------------------------------------
(* Advance, executeNormalStep and advanceCompensation *)

EnsureWaitingTimer(w) ==
  /\ pc[w] = "advance"
  /\ WaitingOnTimer(job[w].inst, past[Id(w)])
  /\ Goto(w, "schedule")
  /\ UNCHANGED <<dbVars, past, timerVars, stream, batch, job, recov, api, keySeq, faults, effects>>

\* Store inst over the row, if it still has the worker's version.
Save(w, inst) ==
  /\ UpdateInstance(Id(w), inst, job[w].version)
  /\ job' = [job EXCEPT ![w].inst = inst, ![w].version = job[w].version + 1]

\* Mutant: the fire time is not checked again.
MarkStepRunningEarly(w) ==
  /\ pc[w] = "advance"
  /\ StepToRun(job[w].inst).next \in StepIds
  /\ Save(w, StartStep(job[w].inst, keySeq + 1))
  /\ keySeq' = IF DrawsKey(job[w].inst) THEN keySeq + 1 ELSE keySeq
  /\ Reply(w, "append")
  /\ UNCHANGED <<history, timers, past, timerVars, stream, batch, recov, api, effects>>

MarkStepRunning(w) ==
  /\ pc[w] = "advance"
  /\ ~ WaitingOnTimer(job[w].inst, past[Id(w)])
  /\ StepToRun(job[w].inst).next \in StepIds
  /\ job[w].inst.steps[StepToRun(job[w].inst).next].attempt < MaxAttempts
  /\ Save(w, StartStep(job[w].inst, keySeq + 1))
  /\ keySeq' = IF DrawsKey(job[w].inst) THEN keySeq + 1 ELSE keySeq
  /\ Reply(w, "append")
  /\ UNCHANGED <<history, timers, past, timerVars, stream, batch, recov, api, effects>>

\* Mutant: an instance with no step left is failed.
FinishInstanceFailed(w) ==
  /\ pc[w] = "advance"
  /\ ~ WaitingOnTimer(job[w].inst, past[Id(w)])
  /\ StepToRun(job[w].inst).next \notin StepIds
  /\ Save(w, finishInstance(job[w].inst, "failed"))
  /\ Reply(w, "release")
  /\ UNCHANGED <<history, timers, past, timerVars, stream, batch, recov, api, keySeq, effects>>

FinishInstance(w) ==
  /\ pc[w] = "advance"
  /\ ~ WaitingOnTimer(job[w].inst, past[Id(w)])
  /\ StepToRun(job[w].inst).next \notin StepIds
  /\ Save(w, FinishWithoutStep(job[w].inst))
  /\ Reply(w, "release")
  /\ UNCHANGED <<history, timers, past, timerVars, stream, batch, recov, api, keySeq, effects>>

\* ErrOptimisticLock, from any UpdateInstance.
OptimisticLock(w) ==
  /\ pc[w] \in {"advance", "update"}
  /\ pc[w] = "advance" => ~ WaitingOnTimer(job[w].inst, past[Id(w)])
  /\ ~ VersionMatches(Id(w), job[w].version)
  /\ Goto(w, "abort")
  /\ UNCHANGED <<dbVars, past, timerVars, stream, batch, job, recov, api, keySeq, faults, effects>>

AppendStepHistory(w) ==
  /\ pc[w] = "append"
  /\ AppendHistory(Id(w), Cur(w), Attempt(w))
  /\ Reply(w, "execute")
  /\ UNCHANGED <<rows, timers, past, timerVars, stream, batch, job, recov, api, keySeq, effects>>

\* executeWithSpan: the step's effect on the world happens here.
ExecuteStep(w) ==
  /\ pc[w] = "execute"
  /\ \E out \in Execute(job[w].inst, past[Id(w)]) : job' = [job EXCEPT ![w].out = out]
  /\ effects' = effects \cup {[inst |-> Id(w), step |-> Cur(w), attempt |-> Attempt(w),
                               key |-> job[w].inst.steps[Cur(w)].key, by |-> w]}
  /\ Goto(w, "complete")
  /\ UNCHANGED <<dbVars, past, timerVars, stream, batch, recov, api, keySeq, faults>>

-----------------------------------------------------------------------------
(* handleStepSuccess, handleStepWaiting, handleStepFailure and the rest of
   advanceCompensation *)

Compensating(w) == job[w].inst.status = "compensating"

\* Mutant: the status word of a step instead of the history's.
HistoryStatusOfStep(w) ==
  CASE job[w].out.kind = "waiting" -> "waiting_timer"
    [] job[w].out.kind = "error"   -> "failed"
    [] job[w].out.kind = "success" -> "completed"

\* The status CompleteHistory records for a result.
HistoryStatus(w) ==
  CASE job[w].out.kind = "waiting" -> "waiting_timer"
    [] job[w].out.kind = "error"   -> "failed"
    [] job[w].out.kind = "success" -> IF Compensating(w) THEN "compensated" ELSE "success"

\* Only handleStepSuccess clears the instance's timer.
CompleteStepHistory(w) ==
  /\ pc[w] = "complete"
  /\ CompleteHistory(Id(w), Cur(w), Attempt(w), HistoryStatus(w))
  /\ Reply(w, IF job[w].out.kind = "success" /\ ~ Compensating(w) THEN "clearRow" ELSE "update")
  /\ UNCHANGED <<rows, timers, past, timerVars, stream, batch, job, recov, api, keySeq, effects>>

\* timers.Clear: the row, then the key.
ClearTimerRow(w) ==
  /\ pc[w] = "clearRow"
  /\ DeleteTimer(Id(w))
  /\ Reply(w, "clearKey")
  /\ UNCHANGED <<rows, history, past, timerVars, stream, batch, job, recov, api, keySeq, effects>>

ClearTimerKey(w) ==
  /\ pc[w] = "clearKey"
  /\ ClearKey(Id(w))
  /\ Reply(w, "update")
  /\ UNCHANGED <<dbVars, past, notif, agent, stream, batch, job, recov, api, keySeq, effects>>

\* What follows the stored result: wake the instance up again, now or later, or nothing.
AfterUpdate(status) ==
  CASE status \in {"running", "compensating"} -> "enqueue"
    [] status = "waiting_timer" -> "schedule"
    [] status \in Terminal -> "release"

SaveResult(w) ==
  LET inst == HandleResult(job[w].inst, job[w].out) IN
  /\ pc[w] = "update"
  /\ Save(w, inst)
  /\ Reply(w, AfterUpdate(inst.status))
  /\ UNCHANGED <<history, timers, past, timerVars, stream, batch, recov, api, keySeq, effects>>

Enqueue(w) ==
  /\ pc[w] = "enqueue"
  /\ XAdd(Id(w))
  /\ Reply(w, "release")
  /\ UNCHANGED <<dbVars, past, timerVars, batch, job, recov, api, keySeq, effects>>

\* timers.Schedule: the row; then the key, or, when the time has come, fire.
ScheduleTimerRow(w) ==
  LET fireAt == job[w].inst.steps[Cur(w)].waiting IN
  /\ pc[w] = "schedule"
  /\ UpsertTimer(Id(w), Cur(w), fireAt)
  /\ Reply(w, IF <<Cur(w), fireAt>> \in past[Id(w)] THEN "fire" ELSE "setKey")
  /\ UNCHANGED <<rows, history, past, timerVars, stream, batch, job, recov, api, keySeq, effects>>

ScheduleTimerKey(w) ==
  /\ pc[w] = "setKey"
  /\ SetKey(Id(w))
  /\ Reply(w, "release")
  /\ UNCHANGED <<dbVars, past, notif, agent, stream, batch, job, recov, api, keySeq, effects>>

\* fire: the row, then the key, then the message if there was a row.
FireTimerRow(w) ==
  /\ pc[w] = "fire"
  /\ \E ok \in BOOLEAN : FireTimer(Id(w), ok) /\ Reply(w, IF ok THEN "fireKey" ELSE "fireKeyOnly")
  /\ UNCHANGED <<rows, history, past, timerVars, stream, batch, job, recov, api, keySeq, effects>>

FireTimerKey(w) ==
  /\ pc[w] \in {"fireKey", "fireKeyOnly"}
  /\ ClearKey(Id(w))
  /\ Reply(w, IF pc[w] = "fireKey" THEN "enqueue" ELSE "release")
  /\ UNCHANGED <<dbVars, past, notif, agent, stream, batch, job, recov, api, keySeq, effects>>

-----------------------------------------------------------------------------
\* The deferred release.  An error of Advance leaves the message pending.
Release(w) ==
  /\ pc[w] \in {"release", "abort"}
  /\ ReleaseInstance(Id(w), w)
  /\ IF pc[w] = "release" THEN Goto(w, "ack") /\ UNCHANGED <<job, batch>> ELSE NextMessage(w)
  /\ UNCHANGED <<history, timers, past, timerVars, stream, recov, api, keySeq, faults, effects>>

Ack(w) ==
  /\ pc[w] = "ack"
  /\ XAck(job[w].msg.id)
  /\ NextMessage(w)
  /\ UNCHANGED <<dbVars, past, timerVars, recov, api, keySeq, faults, effects>>

\* Mutant: the error of CompleteHistory is ignored.
StoreErrorIgnored(w) ==
  /\ pc[w] \notin {"idle", "execute", "release", "abort", "ack"}
  /\ Goto(w, IF pc[w] = "complete" THEN "update" ELSE "abort")
  /\ Fault
  /\ UNCHANGED <<dbVars, past, timerVars, stream, batch, job, recov, api, keySeq, effects>>

\* A store call of Advance fails without effect.
StoreError(w) ==
  /\ pc[w] \notin {"idle", "execute", "release", "abort", "ack"}
  /\ Goto(w, "abort")
  /\ Fault
  /\ UNCHANGED <<dbVars, past, timerVars, stream, batch, job, recov, api, keySeq, effects>>

\* XADD is refused when the stream holds as many messages as the model allows.
StreamFull(w) ==
  /\ pc[w] = "enqueue"
  /\ FreeSlots = {}
  /\ Goto(w, "abort")
  /\ UNCHANGED <<dbVars, past, timerVars, stream, batch, job, recov, api, keySeq, faults, effects>>

\* The release fails: it is logged, and the lease stays until it expires.
ReleaseError(w) ==
  /\ pc[w] \in {"release", "abort"}
  /\ rows' = Abandoned(w)
  /\ IF pc[w] = "release" THEN Goto(w, "ack") /\ UNCHANGED <<job, batch>> ELSE NextMessage(w)
  /\ Fault
  /\ UNCHANGED <<history, timers, past, timerVars, stream, recov, api, keySeq, effects>>

AckError(w) ==
  /\ pc[w] = "ack"
  /\ NextMessage(w)
  /\ Fault
  /\ UNCHANGED <<dbVars, past, timerVars, stream, recov, api, keySeq, effects>>

\* The process of w dies and is started again: what w held in memory is gone.
Crash(w) ==
  /\ pc[w] # "idle" \/ batch[w] # {}
  /\ rows' = Abandoned(w)
  /\ pc' = [pc EXCEPT ![w] = "idle"]
  /\ job' = [job EXCEPT ![w] = NoJob]
  /\ batch' = [batch EXCEPT ![w] = {}]
  /\ Fault
  /\ UNCHANGED <<history, timers, past, timerVars, stream, recov, api, keySeq, effects>>

-----------------------------------------------------------------------------
(* The API, the recovery loop, the timer agents and the clock *)

ApiCreate(i) ==
  /\ CreateInstance(i)
  /\ api' = api \cup {i}
  /\ UNCHANGED <<history, timers, past, timerVars, stream, batch, pc, job, recov, keySeq, faults, effects>>

ApiEnqueue(i) ==
  /\ i \in api
  /\ XAdd(i)
  /\ api' = api \ {i}
  /\ UNCHANGED <<dbVars, past, timerVars, batch, pc, job, recov, keySeq, faults, effects>>

\* The enqueue fails, or the process dies: the client gets an error, the row stays.
ApiFails(i) ==
  /\ i \in api
  /\ api' = api \ {i}
  /\ Fault
  /\ UNCHANGED <<dbVars, past, timerVars, stream, batch, pc, job, recov, keySeq, effects>>

RecoverList ==
  /\ recov = {}
  /\ ListRecoverableInstances # {}
  /\ recov' = ListRecoverableInstances
  /\ UNCHANGED <<dbVars, past, timerVars, stream, batch, pc, job, api, keySeq, faults, effects>>

RecoverEnqueue ==
  /\ \E i \in recov : XAdd(i) /\ recov' = recov \ {i}
  /\ UNCHANGED <<dbVars, past, timerVars, batch, pc, job, api, keySeq, faults, effects>>

\* An enqueue fails, or the process dies: Recover gives the rest of its list up.
RecoverFails ==
  /\ recov # {}
  /\ recov' = {}
  /\ Fault
  /\ UNCHANGED <<dbVars, past, timerVars, stream, batch, pc, job, api, keySeq, effects>>

AgentStep(a) ==
  /\ Poll(a) \/ Notified(a) \/ AgentClearKey(a) \/ AgentEnqueue(a)
  /\ UNCHANGED engineVars

AgentError(a) ==
  /\ AgentFails(a)
  /\ Fault
  /\ UNCHANGED <<pc, job, recov, api, keySeq, effects>>

KeyExpiry(i) == KeyExpires(i) /\ UNCHANGED engineVars

\* The clock reaches the fire time of an attempt, perhaps before it is stored.
Elapse(i) ==
  /\ \E time \in FireTimes(rows[i].inst) \ past[i] :
       past' = [past EXCEPT ![i] = @ \cup {time}]
  /\ UNCHANGED <<dbVars, timerVars, stream, batch, engineVars>>

\* A lease runs out; that is a fault only if its holder is still at work.
OrphanExpires(i) ==
  /\ rows[i].lockedBy = Orphan
  /\ LeaseExpires(i)
  /\ UNCHANGED <<history, timers, past, timerVars, stream, batch, engineVars>>

HolderExpires(i) ==
  /\ rows[i].lockedBy # Orphan
  /\ LeaseExpires(i)
  /\ Fault
  /\ UNCHANGED <<history, timers, past, timerVars, stream, batch, pc, job, recov, api, keySeq, effects>>

-----------------------------------------------------------------------------
\* The calls of a worker that succeed or fail by the state of the stores.
WorkerStep(w) ==
  \/ Claim(w) \/ ClaimBusy(w) \/ EnsureWaitingTimer(w) \/ MarkStepRunning(w) \/ FinishInstance(w)
  \/ OptimisticLock(w) \/ AppendStepHistory(w) \/ ExecuteStep(w) \/ CompleteStepHistory(w)
  \/ ClearTimerRow(w) \/ ClearTimerKey(w) \/ SaveResult(w) \/ Enqueue(w) \/ StreamFull(w)
  \/ ScheduleTimerRow(w) \/ ScheduleTimerKey(w) \/ FireTimerRow(w) \/ FireTimerKey(w)
  \/ Release(w) \/ Ack(w)

WorkerFault(w) ==
  ClaimError(w) \/ StoreError(w) \/ ReleaseError(w) \/ AckError(w) \/ Crash(w)

\* Every instance is over: the system rests until a client creates another one.
Done == (\A i \in Instances : rows[i].inst.status \in Terminal) /\ UNCHANGED vars

Next ==
  \/ \E w \in Workers : Consume(w) \/ ReclaimPending(w) \/ WorkerStep(w) \/ WorkerFault(w)
  \/ \E i \in Instances : \/ ApiCreate(i) \/ ApiEnqueue(i) \/ ApiFails(i) \/ KeyExpiry(i)
                          \/ Elapse(i) \/ OrphanExpires(i) \/ HolderExpires(i)
  \/ \E a \in Agents : AgentStep(a) \/ AgentError(a)
  \/ RecoverList \/ RecoverEnqueue \/ RecoverFails
  \/ Done

Spec == Init /\ [][Next]_vars

\* Goroutines keep running, a due timer comes due, and a lease nobody renews runs out;
\* clients and faults owe nothing.
Fairness ==
  /\ \A w \in Workers : WF_vars(WorkerStep(w)) /\ WF_vars(Consume(w) \/ ReclaimPending(w))
  /\ \A a \in Agents : WF_vars(AgentStep(a))
  /\ WF_vars(RecoverList) /\ WF_vars(RecoverEnqueue)
  /\ \A i \in Instances : WF_vars(ApiEnqueue(i)) /\ WF_vars(Elapse(i)) /\ WF_vars(OrphanExpires(i))

FairSpec == Spec /\ Fairness

-----------------------------------------------------------------------------
(* Properties *)

\* The workers whose copy of the row is still to be used.
Holding == {w \in Workers : pc[w] \notin {"idle", "ack"}}

\* A worker's copy is the row itself as long as it has the row's version, whoever holds
\* the lease by now: that is what lets UpdateInstance check the version only.
SnapshotCurrent ==
  \A w \in Holding :
    /\ job[w].version <= rows[Id(w)].version
    /\ job[w].version = rows[Id(w)].version => job[w].inst = rows[Id(w)].inst

\* No attempt of a step is executed by two workers, even after a lease was lost: the
\* attempt is stored, under the version check, before the execution.
AttemptExclusive ==
  \A e, f \in effects :
    e.inst = f.inst /\ e.step = f.step /\ e.attempt = f.attempt => e.by = f.by

\* Every execution of a step, in whatever process and after whatever crash, shows the
\* outside world the same idempotency key, and no other step shows that key.
OneKeyPerStep ==
  \A e, f \in effects : (e.inst = f.inst /\ e.step = f.step) <=> e.key = f.key

\* A step in the stored list of completed steps has its execution in the history, with
\* the result that completed it: the history is written first.
CompletedHasHistory ==
  \A i \in Instances : \A s \in StepIds :
    HasCompleted(rows[i].inst, s) =>
      \E h \in history : h.inst = i /\ h.step = s /\ h.status \in {"success", "compensated"}

\* Retries are bounded: a step is attempted once and once per retry (a delay twice, to
\* wait and to resume), and every fault adds at most one attempt (to a delay two).
BoundedAttempts ==
  \A i \in Instances : \A s \in StepIds :
    rows[i].inst.steps[s].attempt <=
      IF StepByID(s).type = "delay" THEN 2 * (1 + faults) ELSE 1 + StepByID(s).maxRetries + faults

\* Once a fire time of a delay has come, the delay is not put off to another one, except
\* by a fault, which loses the fire time it has restored: that costs at most two attempts.
DelayFiresOnce ==
  \A i \in Instances : \A s \in StepIds :
    LET step == rows[i].inst.steps[s] IN
      StepByID(s).type = "delay" /\ step.status = "waiting_timer" =>
        Cardinality({time \in past[i] : time[1] = s /\ time[2] < step.waiting}) <= 2 * faults

\* A finished instance never changes: late workers, messages and timers cannot revive it.
TerminalIsFinal ==
  [][\A i \in Instances : rows[i].inst.status \in Terminal => rows'[i].inst = rows[i].inst]_vars

\* A lease is given up by a step of its holder, or after it has run out: a worker that lost
\* its lease does not release that of its successor.
LeaseRespected ==
  [][\A i \in Instances : \A w \in Workers :
       rows[i].live /\ rows[i].lockedBy = w /\ rows'[i].lockedBy # w => pc'[w] # pc[w]]_vars

\* A waiting step is not started before its fire time, whatever wakes the instance up:
\* a key that expires early, a stale notification, the recovery loop, a duplicate message.
NoEarlyResume ==
  [][\A i \in Instances : \A s \in StepIds :
       LET step == rows[i].inst.steps[s] IN
         step.status = "waiting_timer" /\ rows'[i].inst.steps[s].status # "waiting_timer" =>
           <<s, step.waiting>> \in past[i]]_vars

\* The stored content of the instances behaves as module Execution says.
Exec == INSTANCE Execution WITH content <- [i \in Instances |-> rows[i].inst]

ImplementsExecution == Exec!ExecSpec

\* Something other than the recovery loop is going to advance instance i.
WakeUpPending(i) ==
  \/ i \in api
  \/ \E m \in MsgIds : stream[m].st # "free" /\ stream[m].inst = i
  \/ timers[i] # NoTimer
  \/ \E a \in Agents : agent[a].stage # "idle" /\ (agent[a].cur = i \/ i \in agent[a].todo)
  \/ \E w \in Holding : Id(w) = i /\ pc[w] \notin {"release", "abort"}

\* A message is acknowledged only after a transition or as a confirmed duplicate: an
\* instance that is not over always has another wake-up to come.
NoLostWakeUp ==
  \A i \in Instances : Active(i) => WakeUpPending(i)

\* Every created instance is finished in the end, whatever faults hit its workers, the
\* timers, the messages and the recovery loop, once they stop.
Completion ==
  \A i \in Instances : Exists(i) ~> rows[i].inst.status \in Terminal

=============================================================================
