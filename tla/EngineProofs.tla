---------------------------- MODULE EngineProofs ----------------------------
(***************************************************************************)
(* Theorems about Engine, for every definition, every number of instances, *)
(* workers, messages and agents, and every bound: the workers' copies of   *)
(* the rows are current, no two workers execute one attempt, and what is   *)
(* finished stays so.                                                      *)
(***************************************************************************)
EXTENDS Engine, InstanceProofs

IsRow(r) ==
  /\ r = [inst |-> r.inst, version |-> r.version, lockedBy |-> r.lockedBy, live |-> r.live]
  /\ r.version \in Nat

IsJob(j) ==
  /\ j = [msg |-> j.msg, inst |-> j.inst, version |-> j.version, out |-> j.out]
  /\ j.version \in Nat

Message == [id : MsgIds, inst : Instances]

AgentState == [stage : {"idle", "clear", "clearOnly", "enqueue"},
               cur : Instances \cup {NoInst}, todo : SUBSET Instances]

\* The messages on their way name instances.
MessagesOK ==
  /\ StreamTypeOK(Instances, Workers)
  /\ \A m \in MsgIds : stream[m].st # "free" => stream[m].inst \in Instances
  /\ agent \in [Agents -> AgentState]
  /\ \A a \in Agents : agent[a].stage # "idle" => agent[a].cur \in Instances
  /\ recov \subseteq Instances

\* The rows and the workers have the shape of their types; what the rows contain is open.
RowsOK == IsFun(rows, Instances) /\ \A i \in Instances : IsRow(rows[i])

JobsOK ==
  /\ IsFun(pc, Workers) /\ IsFun(job, Workers)
  /\ \A w \in Workers : IsJob(job[w])
  /\ \A w \in Workers : pc[w] # "idle" => job[w].msg \in Message

Shape == MessagesOK /\ RowsOK /\ JobsOK

LEMMA InitShape == Init => Shape
<1> SUFFICES ASSUME Init PROVE Shape
  OBVIOUS
<1>1. StreamTypeOK(Instances, Workers)
  BY DEF Init, StreamInit, StreamTypeOK, NoMessage
<1>2. \A m \in MsgIds : stream[m].st = "free"
  BY DEF Init, StreamInit, NoMessage
<1>3. agent \in [Agents -> AgentState] /\ \A a \in Agents : agent[a].stage = "idle"
  BY DEF Init, TimerInit, AgentState, IdleAgent
<1>4. recov \subseteq Instances
  BY DEF Init
<1>5. RowsOK
  BY DEF Init, DBInit, RowsOK, IsFun, IsRow
<1>6. JobsOK
  BY DEF Init, IsFun, IsJob, NoJob, JobsOK
<1> QED
  BY <1>1, <1>2, <1>3, <1>4, <1>5, <1>6 DEF Shape, MessagesOK

-----------------------------------------------------------------------------
(* The messages *)

\* A new message names an instance.
LEMMA XAddOK ==
  ASSUME MessagesOK, NEW i \in Instances, XAdd(i), UNCHANGED batch
  PROVE  /\ StreamTypeOK(Instances, Workers)'
         /\ \A m \in MsgIds : stream'[m].st # "free" => stream'[m].inst \in Instances
<1>1. PICK m \in FreeSlots : stream' = [stream EXCEPT ![m] = [inst |-> i, st |-> "new"]]
  BY DEF XAdd
<1>2. m \in MsgIds
  BY DEF FreeSlots, InState
<1> QED
  BY <1>1, <1>2 DEF MessagesOK, StreamTypeOK

LEMMA DeliverOK ==
  ASSUME MessagesOK, NEW w \in Workers, NEW st \in {"new", "pending"}, Deliver(w, st)
  PROVE  /\ StreamTypeOK(Instances, Workers)'
         /\ \A m \in MsgIds : stream'[m].st # "free" => stream'[m].inst \in Instances
<1>1. PICK ms \in SUBSET InState(st) :
        /\ batch' = [batch EXCEPT ![w] = {[id |-> m, inst |-> stream[m].inst] : m \in ms}]
        /\ stream' = [m \in MsgIds |-> IF m \in ms THEN [stream[m] EXCEPT !.st = "pending"] ELSE stream[m]]
  BY DEF Deliver
<1>2. \A m \in ms : m \in MsgIds /\ stream[m].inst \in Instances
  BY DEF MessagesOK, InState
<1>3. {[id |-> m, inst |-> stream[m].inst] : m \in ms} \in SUBSET [id : MsgIds, inst : Instances]
  BY <1>2
<1>4. batch' \in [Workers -> SUBSET [id : MsgIds, inst : Instances]]
  BY <1>1, <1>3 DEF MessagesOK, StreamTypeOK
<1>5. stream' \in [MsgIds -> [inst : Instances \cup {NoInst}, st : {"free", "new", "pending"}]]
  BY <1>1 DEF MessagesOK, StreamTypeOK
<1>6. \A m \in MsgIds : stream'[m].st # "free" => stream'[m].inst \in Instances
  BY <1>1, <1>2 DEF MessagesOK, StreamTypeOK
<1> QED
  BY <1>4, <1>5, <1>6 DEF StreamTypeOK

LEMMA XAckOK ==
  ASSUME MessagesOK, NEW m, XAck(m)
  PROVE  /\ stream' \in [MsgIds -> [inst : Instances \cup {NoInst}, st : {"free", "new", "pending"}]]
         /\ \A n \in MsgIds : stream'[n].st # "free" => stream'[n].inst \in Instances
BY DEF MessagesOK, StreamTypeOK, XAck, NoMessage

\* The parts of a step that leave the messages alone.
LEMMA MessagesUnchanged ==
  ASSUME MessagesOK, UNCHANGED <<stream, batch, agent, recov>> PROVE MessagesOK'
BY DEF MessagesOK, StreamTypeOK

\* One process takes its message off its batch.
LEMMA BatchShrinks ==
  ASSUME MessagesOK, NEW w \in Workers, NEW m, batch' = [batch EXCEPT ![w] = @ \ {m}]
  PROVE  batch' \in [Workers -> SUBSET [id : MsgIds, inst : Instances]]
<1>1. batch[w] \ {m} \in SUBSET [id : MsgIds, inst : Instances]
  BY DEF MessagesOK, StreamTypeOK
<1> QED
  BY <1>1 DEF MessagesOK, StreamTypeOK

LEMMA AgentMessages ==
  ASSUME MessagesOK, NEW a \in Agents, AgentStep(a) \/ AgentError(a) PROVE MessagesOK'
<1> USE DEF AgentState
<1>0. UNCHANGED recov
  BY DEF AgentStep, AgentError, engineVars
<1>1. CASE Poll(a)
  <2>1. PICK claimed \in SUBSET DueTimers(past) : \E i \in claimed :
          agent' = [agent EXCEPT ![a] = [stage |-> "clear", cur |-> i, todo |-> claimed \ {i}]]
    BY <1>1 DEF Poll
  <2>2. claimed \subseteq Instances
    BY DEF DueTimers
  <2>3. PICK i \in claimed :
          agent' = [agent EXCEPT ![a] = [stage |-> "clear", cur |-> i, todo |-> claimed \ {i}]]
    BY <2>1
  <2>4. [stage |-> "clear", cur |-> i, todo |-> claimed \ {i}] \in AgentState /\ i \in Instances
    BY <2>2
  <2>5. agent' \in [Agents -> AgentState]
        /\ \A b \in Agents : agent'[b].stage # "idle" => agent'[b].cur \in Instances
    BY <2>3, <2>4 DEF MessagesOK
  <2> QED
    BY <1>0, <1>1, <2>5 DEF Poll, MessagesOK, StreamTypeOK
<1>2. CASE Notified(a)
  <2>1. PICK i \in Instances : \E ok \in BOOLEAN :
          agent' = [agent EXCEPT ![a] = [stage |-> IF ok THEN "clear" ELSE "clearOnly",
                                         cur |-> i, todo |-> {}]]
    BY <1>2 DEF Notified
  <2>2. agent' \in [Agents -> AgentState]
        /\ \A b \in Agents : agent'[b].stage # "idle" => agent'[b].cur \in Instances
    BY <2>1 DEF MessagesOK
  <2> QED
    BY <1>0, <1>2, <2>2 DEF Notified, MessagesOK, StreamTypeOK
<1>3. CASE AgentClearKey(a)
  <2>1. agent' \in [Agents -> AgentState]
    BY <1>3 DEF AgentClearKey, MessagesOK, IdleAgent
  <2>2. \A b \in Agents : agent'[b].stage # "idle" => agent'[b].cur \in Instances
    BY <1>3 DEF AgentClearKey, MessagesOK, IdleAgent
  <2> QED
    BY <1>0, <1>3, <2>1, <2>2 DEF AgentClearKey, MessagesOK, StreamTypeOK
<1>4. CASE AgentEnqueue(a)
  <2>1. agent[a].cur \in Instances
    BY <1>4 DEF AgentEnqueue, MessagesOK
  <2>2. /\ StreamTypeOK(Instances, Workers)'
        /\ \A m \in MsgIds : stream'[m].st # "free" => stream'[m].inst \in Instances
    BY <1>4, <2>1, XAddOK DEF AgentEnqueue
  <2>3. agent' \in [Agents -> AgentState]
        /\ \A b \in Agents : agent'[b].stage # "idle" => agent'[b].cur \in Instances
    <3>1. CASE agent[a].todo = {}
      BY <1>4, <3>1 DEF AgentEnqueue, MessagesOK, IdleAgent
    <3>2. CASE agent[a].todo # {}
      <4>1. PICK i \in agent[a].todo :
              agent' = [agent EXCEPT ![a] = [stage |-> "clear", cur |-> i, todo |-> @.todo \ {i}]]
        BY <1>4, <3>2 DEF AgentEnqueue
      <4>2. i \in Instances /\ agent[a].todo \ {i} \in SUBSET Instances
        BY DEF MessagesOK
      <4> QED
        BY <4>1, <4>2 DEF MessagesOK
    <3> QED
      BY <3>1, <3>2
  <2> QED
    BY <1>0, <2>2, <2>3 DEF MessagesOK
<1>5. CASE AgentFails(a)
  <2>1. agent' \in [Agents -> AgentState]
        /\ \A b \in Agents : agent'[b].stage # "idle" => agent'[b].cur \in Instances
    BY <1>5 DEF AgentFails, MessagesOK, IdleAgent
  <2> QED
    BY <1>0, <1>5, <2>1 DEF AgentFails, MessagesOK, StreamTypeOK
<1> QED
  BY <1>1, <1>2, <1>3, <1>4, <1>5 DEF AgentStep, AgentError

-----------------------------------------------------------------------------
(* The steps of a worker, by what they do to the rows and to the worker's copy *)

\* w, which has a copy, goes on to another call.
Moves(w) == pc[w] \notin {"idle", "ack"} /\ \E to : Goto(w, to)

\* Neither the rows nor the copies change.
CallStep(w) == Moves(w) /\ UNCHANGED <<rows, job, batch, agent, recov>>

\* The result of the execution is added to the copy.
ResultStep(w) ==
  /\ Moves(w) /\ UNCHANGED <<rows, stream, batch, agent, recov>>
  /\ \E out : job' = [job EXCEPT ![w].out = out]

\* A new content is stored.
SaveStep(w) ==
  /\ Moves(w) /\ UNCHANGED <<stream, batch, agent, recov>>
  /\ \E inst : Save(w, inst)

\* The copy is dropped.
LeaveStep(w) ==
  /\ pc[w] # "idle"
  /\ UNCHANGED <<agent, recov>>
  /\ \/ Goto(w, "ack") /\ UNCHANGED <<job, batch>>
     \/ NextMessage(w)

LEMMA CallActions ==
  ASSUME NEW w \in Workers,
         \/ EnsureWaitingTimer(w) \/ OptimisticLock(w) \/ AppendStepHistory(w)
         \/ CompleteStepHistory(w) \/ ClearTimerRow(w) \/ ClearTimerKey(w) \/ StreamFull(w)
         \/ ScheduleTimerRow(w) \/ ScheduleTimerKey(w) \/ FireTimerRow(w) \/ FireTimerKey(w)
         \/ StoreError(w)
  PROVE  CallStep(w) /\ UNCHANGED stream
<1> USE DEF CallStep, Moves, Reply, timerVars, dbVars
<1>1. CASE EnsureWaitingTimer(w)
  BY <1>1 DEF EnsureWaitingTimer
<1>2. CASE OptimisticLock(w)
  BY <1>2 DEF OptimisticLock
<1>3. CASE AppendStepHistory(w)
  BY <1>3 DEF AppendStepHistory
<1>4. CASE CompleteStepHistory(w)
  BY <1>4 DEF CompleteStepHistory
<1>5. CASE ClearTimerRow(w)
  BY <1>5 DEF ClearTimerRow
<1>6. CASE ClearTimerKey(w)
  BY <1>6 DEF ClearTimerKey
<1>7. CASE StreamFull(w)
  BY <1>7 DEF StreamFull
<1>8. CASE ScheduleTimerRow(w)
  BY <1>8 DEF ScheduleTimerRow
<1>9. CASE ScheduleTimerKey(w)
  BY <1>9 DEF ScheduleTimerKey
<1>10. CASE FireTimerRow(w)
  BY <1>10 DEF FireTimerRow
<1>11. CASE FireTimerKey(w)
  BY <1>11 DEF FireTimerKey
<1>12. CASE StoreError(w)
  BY <1>12 DEF StoreError
<1> QED
  BY <1>1, <1>2, <1>3, <1>4, <1>5, <1>6, <1>7, <1>8, <1>9, <1>10, <1>11, <1>12

LEMMA SaveActions ==
  ASSUME NEW w \in Workers, MarkStepRunning(w) \/ FinishInstance(w) \/ SaveResult(w)
  PROVE  SaveStep(w)
<1> USE DEF SaveStep, Moves, Reply, timerVars
<1>1. CASE MarkStepRunning(w)
  BY <1>1 DEF MarkStepRunning
<1>2. CASE FinishInstance(w)
  BY <1>2 DEF FinishInstance
<1>3. CASE SaveResult(w)
  BY <1>3 DEF SaveResult
<1> QED
  BY <1>1, <1>2, <1>3

LEMMA EnqueueAction ==
  ASSUME NEW w \in Workers, Enqueue(w) PROVE CallStep(w) /\ XAdd(Id(w))
BY DEF Enqueue, CallStep, Moves, Reply, timerVars, dbVars

LEMMA ExecuteAction ==
  ASSUME NEW w \in Workers, ExecuteStep(w) PROVE ResultStep(w)
BY DEF ExecuteStep, ResultStep, Moves, timerVars, dbVars

LEMMA LeaveActions ==
  ASSUME NEW w \in Workers, Release(w) \/ ReleaseError(w) \/ Ack(w) \/ AckError(w)
  PROVE  LeaveStep(w)
BY DEF Release, ReleaseError, Ack, AckError, LeaveStep, timerVars, dbVars

-----------------------------------------------------------------------------
(* Every step keeps the shapes and the snapshots *)

IInv == Shape /\ SnapshotCurrent

\* Content and version of every row.
SameRows == \A i \in Instances : rows'[i].inst = rows[i].inst /\ rows'[i].version = rows[i].version

\* The copy of a worker that is not at work does not matter; rows that keep their content
\* and version keep the copies current.
LEMMA SnapshotKept ==
  ASSUME IInv, SameRows, JobsOK',
         \A w \in Workers : pc'[w] \notin {"idle", "ack"} =>
           /\ pc[w] \notin {"idle", "ack"}
           /\ job'[w].msg = job[w].msg
           /\ job'[w].inst = job[w].inst
           /\ job'[w].version = job[w].version
  PROVE  SnapshotCurrent'
<1> SUFFICES ASSUME NEW w \in Workers, pc'[w] \notin {"idle", "ack"}
             PROVE  LET i == job'[w].msg.inst IN
                    /\ job'[w].version <= rows'[i].version
                    /\ job'[w].version = rows'[i].version => job'[w].inst = rows'[i].inst
  BY DEF SnapshotCurrent, Holding, Id
<1>1. job[w].msg.inst \in Instances
  BY DEF IInv, Shape, JobsOK, Message
<1> QED
  BY <1>1 DEF IInv, SnapshotCurrent, Holding, Id, SameRows

LEMMA CallIInv ==
  ASSUME IInv, NEW w \in Workers, CallStep(w), MessagesOK' PROVE IInv'
<1>1. PICK to : pc' = [pc EXCEPT ![w] = to]
  BY DEF CallStep, Moves, Goto
<1>2. RowsOK'
  BY DEF CallStep, IInv, Shape, RowsOK
<1>3. JobsOK'
  BY <1>1 DEF CallStep, Moves, IInv, Shape, JobsOK, IsFun
<1>4. SnapshotCurrent'
  BY <1>1, <1>3, SnapshotKept DEF CallStep, Moves, IInv, Shape, JobsOK, IsFun, SameRows
<1> QED
  BY <1>2, <1>3, <1>4 DEF IInv, Shape

LEMMA ResultIInv ==
  ASSUME IInv, NEW w \in Workers, ResultStep(w) PROVE IInv'
<1>1. PICK to : pc' = [pc EXCEPT ![w] = to]
  BY DEF ResultStep, Moves, Goto
<1>2. PICK out : job' = [job EXCEPT ![w].out = out]
  BY DEF ResultStep
<1>3. RowsOK'
  BY DEF ResultStep, IInv, Shape, RowsOK
<1>4. \A x \in Workers : /\ job'[x].msg = job[x].msg
                         /\ job'[x].inst = job[x].inst
                         /\ job'[x].version = job[x].version
  BY <1>2 DEF IInv, Shape, JobsOK, IsFun, IsJob
<1>5. JobsOK'
  <2>1. IsFun(job', Workers) /\ \A x \in Workers : IsJob(job'[x])
    BY <1>2 DEF IInv, Shape, JobsOK, IsFun, IsJob
  <2>2. IsFun(pc', Workers) /\ \A x \in Workers : pc'[x] # "idle" => pc[x] # "idle"
    BY <1>1 DEF ResultStep, Moves, IInv, Shape, JobsOK, IsFun
  <2> QED
    BY <1>4, <2>1, <2>2 DEF IInv, Shape, JobsOK
<1>6. MessagesOK'
  BY MessagesUnchanged DEF ResultStep, IInv, Shape
<1>7. SnapshotCurrent'
  BY <1>1, <1>4, <1>5, SnapshotKept DEF ResultStep, Moves, IInv, Shape, JobsOK, IsFun, SameRows
<1> QED
  BY <1>3, <1>5, <1>6, <1>7 DEF IInv, Shape

\* What Save does to the row and to the copy.
LEMMA SaveEffect ==
  ASSUME Shape, NEW w \in Workers, pc[w] \notin {"idle", "ack"}, NEW inst, Save(w, inst)
  PROVE  /\ Id(w) \in Instances
         /\ rows[Id(w)].version = job[w].version /\ job[w].version \in Nat
         /\ IsFun(rows', Instances)
         /\ \A i \in Instances \ {Id(w)} : rows'[i] = rows[i]
         /\ rows'[Id(w)] = [inst |-> inst, version |-> rows[Id(w)].version + 1,
                            lockedBy |-> rows[Id(w)].lockedBy, live |-> rows[Id(w)].live]
         /\ IsFun(job', Workers)
         /\ \A x \in Workers \ {w} : job'[x] = job[x]
         /\ job'[w] = [msg |-> job[w].msg, inst |-> inst, version |-> job[w].version + 1, out |-> job[w].out]
<1>1. /\ rows[Id(w)].version = job[w].version
      /\ rows' = [rows EXCEPT ![Id(w)].inst = inst, ![Id(w)].version = rows[Id(w)].version + 1]
      /\ job' = [job EXCEPT ![w].inst = inst, ![w].version = job[w].version + 1]
  BY DEF Save, UpdateInstance, VersionMatches
<1>2. Id(w) \in Instances
  BY DEF Shape, JobsOK, Message, Id
<1>3. IsFun(rows, Instances) /\ IsRow(rows[Id(w)])
  BY <1>2 DEF Shape, RowsOK
<1>4. IsFun(job, Workers) /\ IsJob(job[w]) /\ job[w].version \in Nat
  BY DEF Shape, JobsOK, IsJob
<1>5. IsFun(rows', Instances)
  BY <1>1, <1>3 DEF IsFun
<1>6. \A i \in Instances \ {Id(w)} : rows'[i] = rows[i]
  BY <1>1, <1>3 DEF IsFun
<1>7. rows'[Id(w)] = [inst |-> inst, version |-> rows[Id(w)].version + 1,
                      lockedBy |-> rows[Id(w)].lockedBy, live |-> rows[Id(w)].live]
  BY <1>1, <1>2, <1>3 DEF IsFun, IsRow
<1>8. IsFun(job', Workers)
  BY <1>1, <1>4 DEF IsFun
<1>9. \A x \in Workers \ {w} : job'[x] = job[x]
  BY <1>1, <1>4 DEF IsFun
<1>10. job'[w] = [msg |-> job[w].msg, inst |-> inst, version |-> job[w].version + 1, out |-> job[w].out]
  BY <1>1, <1>4 DEF IsFun, IsJob
<1> QED
  BY <1>1, <1>2, <1>4, <1>5, <1>6, <1>7, <1>8, <1>9, <1>10

\* The row gets a new version, which no copy but the writer's has.
LEMMA SaveIInv ==
  ASSUME IInv, NEW w \in Workers, SaveStep(w) PROVE IInv'
<1>1. PICK to : pc' = [pc EXCEPT ![w] = to]
  BY DEF SaveStep, Moves, Goto
<1>2. PICK inst : Save(w, inst)
  BY DEF SaveStep
<1>3. /\ Id(w) \in Instances
      /\ rows[Id(w)].version = job[w].version /\ job[w].version \in Nat
  BY <1>2, SaveEffect DEF SaveStep, Moves, IInv
<1>4. /\ IsFun(rows', Instances)
      /\ \A i \in Instances \ {Id(w)} : rows'[i] = rows[i]
      /\ rows'[Id(w)] = [inst |-> inst, version |-> rows[Id(w)].version + 1,
                         lockedBy |-> rows[Id(w)].lockedBy, live |-> rows[Id(w)].live]
  BY <1>2, SaveEffect DEF SaveStep, Moves, IInv
<1>5. RowsOK'
  <2>1. IsRow(rows'[Id(w)])
    BY <1>3, <1>4 DEF IsRow
  <2>2. \A i \in Instances \ {Id(w)} : IsRow(rows'[i])
    BY <1>4 DEF IInv, Shape, RowsOK
  <2> QED
    BY <1>4, <2>1, <2>2 DEF RowsOK
<1>6. /\ IsFun(job', Workers)
      /\ \A x \in Workers \ {w} : job'[x] = job[x]
      /\ job'[w] = [msg |-> job[w].msg, inst |-> inst, version |-> job[w].version + 1, out |-> job[w].out]
  BY <1>2, SaveEffect DEF SaveStep, Moves, IInv
<1>7. JobsOK'
  <2>1. IsFun(pc', Workers) /\ \A x \in Workers : pc'[x] # "idle" => pc[x] # "idle"
    BY <1>1 DEF SaveStep, Moves, IInv, Shape, JobsOK, IsFun
  <2>2. IsJob(job'[w]) /\ job'[w].msg = job[w].msg
    BY <1>3, <1>6 DEF IsJob
  <2>3. \A x \in Workers : IsJob(job'[x]) /\ job'[x].msg = job[x].msg
    BY <1>6, <2>2 DEF IInv, Shape, JobsOK
  <2> QED
    BY <1>6, <2>1, <2>3 DEF IInv, Shape, JobsOK
<1>8. SnapshotCurrent'
  <2> SUFFICES ASSUME NEW x \in Workers, pc'[x] \notin {"idle", "ack"}
               PROVE  LET i == job'[x].msg.inst IN
                      /\ job'[x].version <= rows'[i].version
                      /\ job'[x].version = rows'[i].version => job'[x].inst = rows'[i].inst
    BY DEF SnapshotCurrent, Holding, Id
  <2>1. pc[x] \notin {"idle", "ack"}
    BY <1>1 DEF SaveStep, Moves, IInv, Shape, JobsOK, IsFun
  <2>2. /\ job[x].msg.inst \in Instances
        /\ job[x].version <= rows[job[x].msg.inst].version
        /\ job[x].version = rows[job[x].msg.inst].version => job[x].inst = rows[job[x].msg.inst].inst
        /\ job[x].version \in Nat /\ rows[job[x].msg.inst].version \in Nat
    BY <2>1 DEF IInv, Shape, JobsOK, RowsOK, IsRow, IsJob, Message, SnapshotCurrent, Holding, Id
  <2>3. CASE x = w
    <3>1. /\ job'[w].msg.inst = Id(w)
          /\ job'[w].version = rows'[Id(w)].version
          /\ job'[w].inst = rows'[Id(w)].inst
      BY <1>3, <1>4, <1>6 DEF Id
    <3>2. rows'[Id(w)].version \in Nat
      BY <1>3, <1>5 DEF RowsOK, IsRow
    <3> QED
      BY <2>3, <3>1, <3>2
  <2>4. CASE x # w
    BY <1>4, <1>6, <2>2, <2>4 DEF Id
  <2> QED
    BY <2>3, <2>4
<1>9. MessagesOK'
  BY MessagesUnchanged DEF SaveStep, IInv, Shape
<1> QED
  BY <1>5, <1>7, <1>8, <1>9 DEF IInv, Shape

-----------------------------------------------------------------------------
(* What the lease operations do to the rows *)

LEMMA LeaseRows ==
  ASSUME RowsOK, NEW i \in Instances, NEW owner,
         \/ ClaimInstance(i, owner) \/ ReleaseInstance(i, owner)
         \/ LeaseExpires(i) \/ rows' = Abandoned(owner) \/ UNCHANGED rows
  PROVE  RowsOK' /\ SameRows
<1>0. IsFun(rows, Instances) /\ IsRow(rows[i])
  BY DEF RowsOK
<1>1. CASE rows' = [rows EXCEPT ![i].lockedBy = Nobody, ![i].live = FALSE]
  <2>1. IsFun(rows', Instances) /\ \A x \in Instances \ {i} : rows'[x] = rows[x]
    BY <1>0, <1>1 DEF IsFun
  <2>2. rows'[i] = [inst |-> rows[i].inst, version |-> rows[i].version, lockedBy |-> Nobody, live |-> FALSE]
    BY <1>0, <1>1 DEF IsFun, IsRow
  <2> QED
    BY <1>0, <2>1, <2>2 DEF RowsOK, IsRow, SameRows
<1>2. CASE ClaimInstance(i, owner)
  <2>0. rows' = [rows EXCEPT ![i].lockedBy = owner, ![i].live = TRUE]
    BY <1>2 DEF ClaimInstance
  <2>1. IsFun(rows', Instances) /\ \A x \in Instances \ {i} : rows'[x] = rows[x]
    BY <1>0, <2>0 DEF IsFun
  <2>2. rows'[i] = [inst |-> rows[i].inst, version |-> rows[i].version, lockedBy |-> owner, live |-> TRUE]
    BY <1>0, <2>0 DEF IsFun, IsRow
  <2> QED
    BY <1>0, <2>1, <2>2 DEF RowsOK, IsRow, SameRows
<1>3. CASE LeaseExpires(i)
  <2>0. rows' = [rows EXCEPT ![i].live = FALSE]
    BY <1>3 DEF LeaseExpires
  <2>1. IsFun(rows', Instances) /\ \A x \in Instances \ {i} : rows'[x] = rows[x]
    BY <1>0, <2>0 DEF IsFun
  <2>2. rows'[i] = [inst |-> rows[i].inst, version |-> rows[i].version, lockedBy |-> rows[i].lockedBy, live |-> FALSE]
    BY <1>0, <2>0 DEF IsFun, IsRow
  <2> QED
    BY <1>0, <2>1, <2>2 DEF RowsOK, IsRow, SameRows
<1>4. CASE rows' = Abandoned(owner)
  <2>1. IsFun(rows', Instances)
    BY <1>4 DEF IsFun, Abandoned
  <2>2. \A x \in Instances : IsRow(rows'[x]) /\ rows'[x].inst = rows[x].inst
                                             /\ rows'[x].version = rows[x].version
    <3> SUFFICES ASSUME NEW x \in Instances
                 PROVE  IsRow(rows'[x]) /\ rows'[x].inst = rows[x].inst
                                        /\ rows'[x].version = rows[x].version
      OBVIOUS
    <3>1. IsRow(rows[x])
      BY DEF RowsOK
    <3>2. CASE rows[x].lockedBy = owner
      <4>1. rows'[x] = [rows[x] EXCEPT !.lockedBy = Orphan]
        BY <1>4, <3>2 DEF Abandoned
      <4>2. rows'[x] = [inst |-> rows[x].inst, version |-> rows[x].version, lockedBy |-> Orphan, live |-> rows[x].live]
        BY <3>1, <4>1 DEF IsRow
      <4> QED
        BY <3>1, <4>2 DEF IsRow
    <3>3. CASE rows[x].lockedBy # owner
      BY <1>4, <3>1, <3>3 DEF Abandoned
    <3> QED
      BY <3>2, <3>3
  <2> QED
    BY <2>1, <2>2 DEF RowsOK, SameRows
<1>5. CASE UNCHANGED rows
  BY <1>5 DEF RowsOK, SameRows
<1> QED
  BY <1>1, <1>2, <1>3, <1>4, <1>5 DEF ReleaseInstance

\* The workers are as they were, and the rows keep content and version.
LEMMA OthersIInv ==
  ASSUME IInv, MessagesOK', RowsOK', SameRows, UNCHANGED <<pc, job>> PROVE IInv'
<1>1. JobsOK'
  BY DEF IInv, Shape, JobsOK
<1>2. SnapshotCurrent'
  BY <1>1, SnapshotKept
<1> QED
  BY <1>1, <1>2 DEF IInv, Shape

LEMMA LeaveIInv ==
  ASSUME IInv, NEW w \in Workers, LeaveStep(w), MessagesOK', RowsOK', SameRows PROVE IInv'
<1>1. CASE Goto(w, "ack") /\ UNCHANGED <<job, batch>>
  <2>1. JobsOK'
    BY <1>1 DEF Goto, LeaveStep, IInv, Shape, JobsOK, IsFun
  <2>2. SnapshotCurrent'
    BY <1>1, <2>1, SnapshotKept DEF Goto, IInv, Shape, JobsOK, IsFun
  <2> QED
    BY <2>1, <2>2 DEF IInv, Shape
<1>2. CASE NextMessage(w)
  <2>1. JobsOK'
    BY <1>2 DEF NextMessage, IInv, Shape, JobsOK, IsFun, IsJob, NoJob
  <2>2. SnapshotCurrent'
    BY <1>2, <2>1, SnapshotKept DEF NextMessage, IInv, Shape, JobsOK, IsFun
  <2> QED
    BY <2>1, <2>2 DEF IInv, Shape
<1> QED
  BY <1>1, <1>2 DEF LeaveStep

-----------------------------------------------------------------------------
(* The remaining steps of the workers *)

LEMMA LeaveMessages ==
  ASSUME IInv, NEW w \in Workers, Release(w) \/ ReleaseError(w) \/ Ack(w) \/ AckError(w)
  PROVE  MessagesOK' /\ RowsOK' /\ SameRows
<1>0. LeaveStep(w)
  BY LeaveActions
<1>1. batch' \in [Workers -> SUBSET [id : MsgIds, inst : Instances]]
  <2>1. CASE UNCHANGED batch
    BY <2>1 DEF IInv, Shape, MessagesOK, StreamTypeOK
  <2>2. CASE NextMessage(w)
    BY <2>2, BatchShrinks DEF NextMessage, IInv, Shape
  <2> QED
    BY <1>0, <2>1, <2>2 DEF LeaveStep
<1>2. /\ stream' \in [MsgIds -> [inst : Instances \cup {NoInst}, st : {"free", "new", "pending"}]]
      /\ \A m \in MsgIds : stream'[m].st # "free" => stream'[m].inst \in Instances
  <2>1. CASE UNCHANGED stream
    BY <2>1 DEF IInv, Shape, MessagesOK, StreamTypeOK
  <2>2. CASE Ack(w)
    BY <2>2, XAckOK DEF Ack, IInv, Shape
  <2> QED
    BY <2>1, <2>2 DEF Release, ReleaseError, AckError
<1>3. MessagesOK'
  BY <1>0, <1>1, <1>2 DEF LeaveStep, IInv, Shape, MessagesOK, StreamTypeOK
<1>4. RowsOK' /\ SameRows
  <2>1. Id(w) \in Instances
    BY <1>0 DEF LeaveStep, IInv, Shape, JobsOK, Message, Id
  <2>2. ReleaseInstance(Id(w), w) \/ rows' = Abandoned(w) \/ UNCHANGED rows
    BY DEF Release, ReleaseError, Ack, AckError, dbVars
  <2> QED
    BY <2>1, <2>2, LeaseRows DEF IInv, Shape
<1> QED
  BY <1>3, <1>4

LEMMA ReadIInv ==
  ASSUME IInv, NEW w \in Workers, Consume(w) \/ ReclaimPending(w) PROVE IInv'
<1>1. Deliver(w, "new") \/ Deliver(w, "pending")
  BY DEF Consume, ReclaimPending, XReadGroup, XAutoClaim
<1>2. UNCHANGED <<rows, pc, job, agent, recov>>
  BY DEF Consume, ReclaimPending, dbVars, timerVars, engineVars
<1>3. /\ StreamTypeOK(Instances, Workers)'
      /\ \A m \in MsgIds : stream'[m].st # "free" => stream'[m].inst \in Instances
  BY <1>1, DeliverOK DEF IInv, Shape
<1>4. MessagesOK'
  BY <1>2, <1>3 DEF IInv, Shape, MessagesOK
<1>5. RowsOK' /\ SameRows
  BY <1>2 DEF IInv, Shape, RowsOK, SameRows
<1> QED
  BY <1>2, <1>4, <1>5, OthersIInv

LEMMA ClaimIInv ==
  ASSUME IInv, NEW w \in Workers, Claim(w) PROVE IInv'
<1>1. PICK m \in batch[w] :
        /\ ClaimInstance(m.inst, w)
        /\ job' = [job EXCEPT ![w] = [NoJob EXCEPT !.msg = m, !.inst = rows[m.inst].inst,
                                                  !.version = rows[m.inst].version]]
        /\ pc' = [pc EXCEPT ![w] = "advance"]
  BY DEF Claim, Goto
<1>2. m \in Message /\ m.inst \in Instances
  BY DEF IInv, Shape, MessagesOK, StreamTypeOK, Message
<1>3. MessagesOK'
  BY MessagesUnchanged DEF Claim, timerVars, IInv, Shape
<1>4. RowsOK' /\ SameRows
  BY <1>1, <1>2, LeaseRows DEF IInv, Shape
<1>5. /\ IsFun(job', Workers) /\ \A x \in Workers \ {w} : job'[x] = job[x]
      /\ job'[w] = [msg |-> m, inst |-> rows[m.inst].inst, version |-> rows[m.inst].version, out |-> Fails]
  BY <1>1 DEF NoJob, IInv, Shape, JobsOK, IsFun
<1>6. IsFun(pc', Workers) /\ pc'[w] = "advance" /\ \A x \in Workers \ {w} : pc'[x] = pc[x]
  BY <1>1 DEF IInv, Shape, JobsOK, IsFun
<1>7. rows[m.inst].version \in Nat
  BY <1>2 DEF IInv, Shape, RowsOK, IsRow
<1>8. JobsOK'
  <2>1. IsJob(job'[w]) /\ job'[w].msg \in Message
    BY <1>2, <1>5, <1>7 DEF IsJob
  <2> QED
    BY <1>5, <1>6, <2>1 DEF IInv, Shape, JobsOK
<1>9. SnapshotCurrent'
  <2> SUFFICES ASSUME NEW x \in Workers, pc'[x] \notin {"idle", "ack"}
               PROVE  LET i == job'[x].msg.inst IN
                      /\ job'[x].version <= rows'[i].version
                      /\ job'[x].version = rows'[i].version => job'[x].inst = rows'[i].inst
    BY DEF SnapshotCurrent, Holding, Id
  <2>1. CASE x = w
    BY <1>2, <1>4, <1>5, <1>7, <2>1 DEF SameRows
  <2>2. CASE x # w
    <3>1. /\ job[x].msg.inst \in Instances
          /\ job[x].version <= rows[job[x].msg.inst].version
          /\ job[x].version = rows[job[x].msg.inst].version => job[x].inst = rows[job[x].msg.inst].inst
      BY <1>6, <2>2 DEF IInv, Shape, JobsOK, Message, SnapshotCurrent, Holding, Id
    <3> QED
      BY <1>4, <1>5, <2>2, <3>1 DEF SameRows
  <2> QED
    BY <2>1, <2>2
<1> QED
  BY <1>3, <1>4, <1>8, <1>9 DEF IInv, Shape

LEMMA ClaimBusyIInv ==
  ASSUME IInv, NEW w \in Workers, ClaimBusy(w) PROVE IInv'
<1>1. PICK m \in batch[w] :
        /\ job' = [job EXCEPT ![w] = [NoJob EXCEPT !.msg = m]]
        /\ pc' = [pc EXCEPT ![w] = "ack"]
  BY DEF ClaimBusy, Goto
<1>2. m \in Message
  BY DEF IInv, Shape, MessagesOK, StreamTypeOK, Message
<1>3. MessagesOK' /\ RowsOK' /\ SameRows
  BY MessagesUnchanged DEF ClaimBusy, timerVars, dbVars, IInv, Shape, RowsOK, SameRows
<1>4. /\ IsFun(job', Workers) /\ \A x \in Workers \ {w} : job'[x] = job[x]
      /\ job'[w] = [msg |-> m, inst |-> Absent, version |-> 0, out |-> Fails]
  BY <1>1 DEF NoJob, IInv, Shape, JobsOK, IsFun
<1>5. IsFun(pc', Workers) /\ pc'[w] = "ack" /\ \A x \in Workers \ {w} : pc'[x] = pc[x]
  BY <1>1 DEF IInv, Shape, JobsOK, IsFun
<1>6. JobsOK'
  <2>1. IsJob(job'[w]) /\ job'[w].msg \in Message
    BY <1>2, <1>4 DEF IsJob
  <2> QED
    BY <1>4, <1>5, <2>1 DEF IInv, Shape, JobsOK
<1>7. SnapshotCurrent'
  BY <1>3, <1>4, <1>5, <1>6, SnapshotKept
<1> QED
  BY <1>3, <1>6, <1>7 DEF IInv, Shape

LEMMA ClaimErrorIInv ==
  ASSUME IInv, NEW w \in Workers, ClaimError(w) PROVE IInv'
<1>1. PICK m \in batch[w] :
        /\ batch' = [batch EXCEPT ![w] = @ \ {m}]
        /\ UNCHANGED rows \/ ClaimInstance(m.inst, Orphan)
  BY DEF ClaimError
<1>2. m.inst \in Instances
  BY DEF IInv, Shape, MessagesOK, StreamTypeOK
<1>3. RowsOK' /\ SameRows
  BY <1>1, <1>2, LeaseRows DEF IInv, Shape
<1>4. MessagesOK'
  BY <1>1, BatchShrinks DEF ClaimError, timerVars, IInv, Shape, MessagesOK, StreamTypeOK
<1> QED
  BY <1>3, <1>4, OthersIInv DEF ClaimError

LEMMA CrashIInv ==
  ASSUME IInv, NEW w \in Workers, Crash(w) PROVE IInv'
<1>1. UNCHANGED <<stream, agent, recov>>
  BY DEF Crash, timerVars
<1>2. MessagesOK'
  <2>1. batch' \in [Workers -> SUBSET [id : MsgIds, inst : Instances]]
    BY DEF Crash, IInv, Shape, MessagesOK, StreamTypeOK
  <2> QED
    BY <1>1, <2>1 DEF IInv, Shape, MessagesOK, StreamTypeOK
<1>3. RowsOK' /\ SameRows
  <2>1. CASE Instances = {}
    BY <2>1 DEF Crash, Abandoned, RowsOK, SameRows, IsFun
  <2>2. CASE Instances # {}
    BY <2>2, LeaseRows DEF Crash, IInv, Shape
  <2> QED
    BY <2>1, <2>2
<1>4. /\ IsFun(job', Workers) /\ \A x \in Workers \ {w} : job'[x] = job[x]
      /\ job'[w] = NoJob
  BY DEF Crash, IInv, Shape, JobsOK, IsFun
<1>5. IsFun(pc', Workers) /\ pc'[w] = "idle" /\ \A x \in Workers \ {w} : pc'[x] = pc[x]
  BY DEF Crash, IInv, Shape, JobsOK, IsFun
<1>6. JobsOK'
  <2>1. IsJob(job'[w])
    BY <1>4 DEF IsJob, NoJob
  <2> QED
    BY <1>4, <1>5, <2>1 DEF IInv, Shape, JobsOK
<1>7. SnapshotCurrent'
  BY <1>3, <1>4, <1>5, <1>6, SnapshotKept
<1> QED
  BY <1>2, <1>3, <1>6, <1>7 DEF IInv, Shape

\* A new row has version 1; a copy of the missing row would have version 0.
LEMMA CreateIInv ==
  ASSUME IInv, NEW i \in Instances, ApiCreate(i) PROVE IInv'
<1>0. IsFun(rows, Instances) /\ IsRow(rows[i]) /\ rows[i].version = 0
  BY DEF IInv, Shape, RowsOK, ApiCreate, CreateInstance, Exists
<1>1. rows' = [rows EXCEPT ![i].inst = NewRuntimeState("pending"), ![i].version = 1]
  BY DEF ApiCreate, CreateInstance
<1>2. MessagesOK'
  BY MessagesUnchanged DEF ApiCreate, timerVars, IInv, Shape
<1>3. IsFun(rows', Instances)
  BY <1>0, <1>1 DEF IsFun
<1>4. \A x \in Instances \ {i} : rows'[x] = rows[x]
  BY <1>0, <1>1 DEF IsFun
<1>5. rows'[i] = [inst |-> NewRuntimeState("pending"), version |-> 1,
                  lockedBy |-> rows[i].lockedBy, live |-> rows[i].live]
  BY <1>0, <1>1 DEF IsFun, IsRow
<1>6. RowsOK'
  <2>1. IsRow(rows'[i])
    BY <1>5 DEF IsRow
  <2> QED
    BY <1>3, <1>4, <2>1 DEF IInv, Shape, RowsOK
<1>7. JobsOK'
  BY DEF ApiCreate, IInv, Shape, JobsOK
<1>8. SnapshotCurrent'
  <2> SUFFICES ASSUME NEW x \in Workers, pc'[x] \notin {"idle", "ack"}
               PROVE  LET j == job'[x].msg.inst IN
                      /\ job'[x].version <= rows'[j].version
                      /\ job'[x].version = rows'[j].version => job'[x].inst = rows'[j].inst
    BY DEF SnapshotCurrent, Holding, Id
  <2>1. job'[x] = job[x] /\ pc[x] \notin {"idle", "ack"}
    BY DEF ApiCreate
  <2>2. /\ job[x].msg.inst \in Instances
        /\ job[x].version <= rows[job[x].msg.inst].version
        /\ job[x].version = rows[job[x].msg.inst].version => job[x].inst = rows[job[x].msg.inst].inst
        /\ job[x].version \in Nat
    BY <2>1 DEF IInv, Shape, JobsOK, IsJob, Message, SnapshotCurrent, Holding, Id
  <2>3. CASE job[x].msg.inst = i
    BY <1>0, <1>5, <2>1, <2>2, <2>3
  <2>4. CASE job[x].msg.inst # i
    BY <1>4, <2>1, <2>2, <2>4
  <2> QED
    BY <2>3, <2>4
<1> QED
  BY <1>2, <1>6, <1>7, <1>8 DEF IInv, Shape

\* The API, the recovery loop, the agents and the clock.
Environment ==
  \/ \E i \in Instances : \/ ApiEnqueue(i) \/ ApiFails(i) \/ KeyExpiry(i)
                          \/ Elapse(i) \/ OrphanExpires(i) \/ HolderExpires(i)
  \/ \E a \in Agents : AgentStep(a) \/ AgentError(a)
  \/ RecoverList \/ RecoverEnqueue \/ RecoverFails
  \/ UNCHANGED vars

LEMMA EnvironmentRows ==
  ASSUME RowsOK, Environment PROVE UNCHANGED <<pc, job, effects>> /\ RowsOK' /\ SameRows
<1> USE DEF dbVars, timerVars, engineVars, Environment
<1>1. UNCHANGED <<pc, job, effects>>
  BY DEF ApiEnqueue, ApiFails, KeyExpiry, Elapse, OrphanExpires, HolderExpires,
         AgentStep, AgentError, RecoverList, RecoverEnqueue, RecoverFails, vars
<1>2. CASE UNCHANGED rows
  BY <1>1, <1>2 DEF RowsOK, SameRows
<1>3. ASSUME NEW i \in Instances, LeaseExpires(i) PROVE RowsOK' /\ SameRows
  BY <1>3, LeaseRows
<1>4. UNCHANGED rows \/ \E i \in Instances : LeaseExpires(i)
  BY DEF ApiEnqueue, ApiFails, KeyExpiry, KeyExpires, Elapse, OrphanExpires, HolderExpires,
         AgentStep, AgentError, Poll, Notified, AgentClearKey, AgentEnqueue, AgentFails,
         RecoverList, RecoverEnqueue, RecoverFails, vars
<1> QED
  BY <1>1, <1>2, <1>3, <1>4

LEMMA EnvironmentIInv ==
  ASSUME IInv, Environment PROVE IInv'
<1> USE DEF dbVars, timerVars, engineVars
<1>1. UNCHANGED <<pc, job>> /\ RowsOK' /\ SameRows
  BY EnvironmentRows DEF IInv, Shape
<1>2. MessagesOK'
  <2>0. MessagesOK
    BY DEF IInv, Shape
  <2>1. ASSUME NEW a \in Agents, AgentStep(a) \/ AgentError(a) PROVE MessagesOK'
    BY <2>0, <2>1, AgentMessages
  <2>2. ASSUME NEW i \in Instances, ApiEnqueue(i) PROVE MessagesOK'
    BY <2>0, <2>2, XAddOK DEF ApiEnqueue, MessagesOK
  <2>3. CASE RecoverEnqueue
    <3>1. PICK i \in recov : XAdd(i) /\ recov' = recov \ {i}
      BY <2>3 DEF RecoverEnqueue
    <3>2. i \in Instances
      BY <2>0 DEF MessagesOK
    <3> QED
      BY <2>0, <2>3, <3>1, <3>2, XAddOK DEF RecoverEnqueue, MessagesOK
  <2>4. CASE RecoverList
    BY <2>0, <2>4 DEF RecoverList, ListRecoverableInstances, MessagesOK, StreamTypeOK
  <2>5. CASE RecoverFails
    BY <2>0, <2>5 DEF RecoverFails, MessagesOK, StreamTypeOK
  <2>6. CASE UNCHANGED <<stream, batch, agent, recov>>
    BY <2>0, <2>6, MessagesUnchanged
  <2> QED
    BY <2>1, <2>2, <2>3, <2>4, <2>5, <2>6
       DEF Environment, ApiFails, KeyExpiry, KeyExpires, Elapse, OrphanExpires, HolderExpires, vars
<1> QED
  BY <1>1, <1>2, OthersIInv

\* One step of the engine keeps the invariant.
LEMMA StepIInv == IInv /\ [Next]_vars => IInv'
<1> SUFFICES ASSUME IInv, [Next]_vars PROVE IInv'
  OBVIOUS
<1>1. ASSUME NEW w \in Workers, CallStep(w), UNCHANGED stream PROVE IInv'
  BY <1>1, CallIInv, MessagesUnchanged DEF CallStep, IInv, Shape
<1>2. ASSUME NEW w \in Workers, Enqueue(w) PROVE IInv'
  <2>1. CallStep(w) /\ XAdd(Id(w))
    BY <1>2, EnqueueAction
  <2>2. Id(w) \in Instances
    BY <2>1 DEF CallStep, Moves, IInv, Shape, JobsOK, Message, Id
  <2>3. MessagesOK'
    BY <2>1, <2>2, XAddOK DEF CallStep, IInv, Shape, MessagesOK
  <2> QED
    BY <2>1, <2>3, CallIInv
<1>3. ASSUME NEW w \in Workers, WorkerStep(w) PROVE IInv'
  BY <1>1, <1>2, <1>3, CallActions, SaveActions, SaveIInv, ExecuteAction, ResultIInv,
     LeaveActions, LeaveMessages, LeaveIInv, ClaimIInv, ClaimBusyIInv
     DEF WorkerStep
<1>4. ASSUME NEW w \in Workers, WorkerFault(w) PROVE IInv'
  BY <1>1, <1>4, CallActions, LeaveActions, LeaveMessages, LeaveIInv, ClaimErrorIInv, CrashIInv
     DEF WorkerFault
<1>5. ASSUME NEW w \in Workers, Consume(w) \/ ReclaimPending(w) PROVE IInv'
  BY <1>5, ReadIInv
<1>6. ASSUME NEW i \in Instances, ApiCreate(i) PROVE IInv'
  BY <1>6, CreateIInv
<1> QED
  BY <1>3, <1>4, <1>5, <1>6, EnvironmentIInv DEF Next, Done, Environment

LEMMA InitIInv == Init => IInv
<1> SUFFICES ASSUME Init PROVE SnapshotCurrent
  BY InitShape DEF IInv
<1> QED
  BY DEF Init, SnapshotCurrent, Holding

\* A copy with the row's version is the row: for every definition and any number of
\* processes and faults, the version check of UpdateInstance alone prevents lost updates.
THEOREM SnapshotsAreCurrent == Spec => []SnapshotCurrent
<1>1. Spec => []IInv
  BY InitIInv, StepIInv, PTL DEF Spec
<1> QED
  BY <1>1, PTL DEF IInv

-----------------------------------------------------------------------------
(* What a worker that holds a current copy may store, and the attempts *)

\* The worker has the result of its step; has a step marked running; has claimed.
Resulted == {"complete", "clearRow", "clearKey", "update"}
Marked == {"append", "execute"} \cup Resulted
Advancing == {"advance"} \cup Marked

RowAttempt(i, s) == rows[i].inst.steps[s].attempt

\* What is stored and what is about to be stored are contents, and no worker is about to
\* store over a finished instance.
ContentOK ==
  /\ \A i \in Instances : IsContent(rows[i].inst)
  /\ \A i \in Instances : rows[i].version = 0 => rows[i].inst = Absent
  /\ \A w \in Workers : pc[w] \in Advancing =>
       IsContent(job[w].inst) /\ job[w].inst.status \notin Terminal
  /\ \A w \in Workers : pc[w] \in Marked => Cur(w) \in StepIds
  /\ \A w \in Workers : pc[w] \in Resulted => job[w].out.kind \in {"success", "waiting", "error"}

\* No attempt exceeds the stored one; an attempt belongs to the worker that marked it.
AttemptsOK ==
  /\ \A e \in effects : /\ e.inst \in Instances /\ e.step \in StepIds /\ e.attempt \in Nat
                        /\ e.attempt <= RowAttempt(e.inst, e.step)
  /\ \A w \in Workers : pc[w] \in Marked => Attempt(w) <= RowAttempt(Id(w), Cur(w))
  /\ \A v, w \in Workers :
       /\ pc[v] \in Marked /\ pc[w] \in Marked
       /\ Id(v) = Id(w) /\ Cur(v) = Cur(w) /\ Attempt(v) = Attempt(w)
       => v = w
  /\ \A w \in Workers : \A e \in effects :
       /\ pc[w] \in Marked
       /\ e.inst = Id(w) /\ e.step = Cur(w) /\ e.attempt = Attempt(w)
       => e.by = w

AInv == IInv /\ ContentOK /\ AttemptsOK /\ AttemptExclusive

LEMMA InitAInv == Init => AInv
<1> SUFFICES ASSUME Init PROVE AInv
  OBVIOUS
<1>1. IInv
  BY InitIInv
<1>2. \A w \in Workers : pc[w] = "idle"
  BY DEF Init
<1>3. \A i \in Instances : rows[i].inst = Absent
  BY DEF Init, DBInit
<1>4. ContentOK
  BY <1>2, <1>3, NewContent DEF ContentOK, Absent, Advancing, Marked, Resulted
<1>5. AttemptsOK /\ AttemptExclusive
  BY <1>2 DEF Init, AttemptsOK, AttemptExclusive, Marked, Resulted
<1> QED
  BY <1>1, <1>4, <1>5 DEF AInv

\* The stored attempts never decrease.
Grows == \A i \in Instances : \A s \in StepIds : RowAttempt(i, s) <= RowAttempt(i, s)'

\* A worker with a step marked running had it marked running, in the same copy.
SameMarked ==
  \A w \in Workers :
    /\ pc'[w] \in Marked => pc[w] \in Marked /\ job'[w].inst = job[w].inst
                                             /\ job'[w].msg = job[w].msg
    /\ pc'[w] \in Resulted => pc[w] \in Resulted /\ job'[w].out = job[w].out

SameWork ==
  /\ SameMarked
  /\ \A w \in Workers : pc'[w] = "advance" => pc[w] = "advance" /\ job'[w].inst = job[w].inst

LEMMA AttemptTypes ==
  ASSUME AInv
  PROVE  /\ \A i \in Instances : \A s \in StepIds : RowAttempt(i, s) \in Nat
         /\ \A w \in Workers : pc[w] \in Marked =>
              Attempt(w) \in Nat /\ Id(w) \in Instances /\ Cur(w) \in StepIds
<1>1. \A i \in Instances : \A s \in StepIds : RowAttempt(i, s) \in Nat
  BY DEF AInv, ContentOK, RowAttempt, IsContent, IsState
<1>2. ASSUME NEW w \in Workers, pc[w] \in Marked
      PROVE  Attempt(w) \in Nat /\ Id(w) \in Instances /\ Cur(w) \in StepIds
  <2>1. Cur(w) \in StepIds /\ IsContent(job[w].inst)
    BY <1>2 DEF AInv, ContentOK, Advancing
  <2>2. Id(w) \in Instances
    BY <1>2 DEF AInv, IInv, Shape, JobsOK, Message, Id, Marked, Resulted
  <2>3. Attempt(w) \in Nat
    BY <2>1 DEF Attempt, IsContent, IsState
  <2> QED
    BY <2>1, <2>2, <2>3
<1> QED
  BY <1>1, <1>2

\* Steps that start no attempt and execute none.
LEMMA AttemptsKept ==
  ASSUME AInv, IInv', Grows, \A i \in Instances : \A s \in StepIds : RowAttempt(i, s)' \in Nat,
         SameMarked, UNCHANGED effects
  PROVE  AttemptsOK' /\ AttemptExclusive'
<1>0. /\ \A i \in Instances : \A s \in StepIds : RowAttempt(i, s) \in Nat
      /\ \A w \in Workers : pc[w] \in Marked =>
           Attempt(w) \in Nat /\ Id(w) \in Instances /\ Cur(w) \in StepIds
  BY AttemptTypes
<1>1. \A w \in Workers : pc'[w] \in Marked =>
        pc[w] \in Marked /\ Attempt(w)' = Attempt(w) /\ Id(w)' = Id(w) /\ Cur(w)' = Cur(w)
  BY DEF SameMarked, Attempt, Id, Cur
<1>2. AttemptExclusive'
  BY DEF AInv, AttemptExclusive
<1>3. \A e \in effects' : /\ e.inst \in Instances /\ e.step \in StepIds /\ e.attempt \in Nat
                          /\ e.attempt <= RowAttempt(e.inst, e.step)'
  <2> SUFFICES ASSUME NEW e \in effects
               PROVE  /\ e.inst \in Instances /\ e.step \in StepIds /\ e.attempt \in Nat
                      /\ e.attempt <= RowAttempt(e.inst, e.step)'
    OBVIOUS
  <2>1. /\ e.inst \in Instances /\ e.step \in StepIds /\ e.attempt \in Nat
        /\ e.attempt <= RowAttempt(e.inst, e.step)
    BY DEF AInv, AttemptsOK
  <2>2. RowAttempt(e.inst, e.step) <= RowAttempt(e.inst, e.step)'
    BY <2>1 DEF Grows
  <2>3. RowAttempt(e.inst, e.step) \in Nat /\ RowAttempt(e.inst, e.step)' \in Nat
    BY <1>0, <2>1
  <2> QED
    BY <2>1, <2>2, <2>3
<1>4. (\A w \in Workers : pc[w] \in Marked => Attempt(w) <= RowAttempt(Id(w), Cur(w)))'
  <2> SUFFICES ASSUME NEW w \in Workers, pc'[w] \in Marked
               PROVE  (Attempt(w) <= RowAttempt(Id(w), Cur(w)))'
    OBVIOUS
  <2>1. PICK i \in Instances, s \in StepIds, n \in Nat :
          /\ i = Id(w) /\ s = Cur(w) /\ n = Attempt(w)
          /\ i = Id(w)' /\ s = Cur(w)' /\ n = Attempt(w)'
    BY <1>0, <1>1
  <2>2. n <= RowAttempt(i, s)
    BY <1>1, <2>1 DEF AInv, AttemptsOK
  <2>3. n <= RowAttempt(i, s)'
    BY <1>0, <2>2 DEF Grows
  <2> QED
    BY <2>1, <2>3 DEF RowAttempt
<1>5. \A v, w \in Workers :
        /\ pc'[v] \in Marked /\ pc'[w] \in Marked
        /\ Id(v)' = Id(w)' /\ Cur(v)' = Cur(w)' /\ Attempt(v)' = Attempt(w)'
        => v = w
  BY <1>1 DEF AInv, AttemptsOK
<1>6. \A w \in Workers : \A e \in effects' :
        /\ pc'[w] \in Marked
        /\ e.inst = Id(w)' /\ e.step = Cur(w)' /\ e.attempt = Attempt(w)'
        => e.by = w
  BY <1>1 DEF AInv, AttemptsOK
<1> QED
  BY <1>2, <1>3, <1>4, <1>5, <1>6 DEF AttemptsOK

\* w goes from one phase to another with its copy, or leaves.
LEMMA WorkKept ==
  ASSUME JobsOK, NEW w \in Workers, NEW to, pc' = [pc EXCEPT ![w] = to],
         \A x \in Workers \ {w} : job'[x] = job[x],
         to = "advance" => pc[w] = "advance" /\ job'[w].inst = job[w].inst,
         to \in Marked => pc[w] \in Marked /\ job'[w].inst = job[w].inst /\ job'[w].msg = job[w].msg,
         to \in Resulted => pc[w] \in Resulted /\ job'[w].out = job[w].out
  PROVE  SameWork
<1>1. pc'[w] = to /\ \A x \in Workers \ {w} : pc'[x] = pc[x]
  BY DEF JobsOK, IsFun
<1> QED
  BY <1>1 DEF SameWork, SameMarked

LEMMA CallWork ==
  ASSUME JobsOK, NEW w \in Workers,
         \/ EnsureWaitingTimer(w) \/ OptimisticLock(w) \/ AppendStepHistory(w)
         \/ CompleteStepHistory(w) \/ ClearTimerRow(w) \/ ClearTimerKey(w) \/ StreamFull(w)
         \/ ScheduleTimerRow(w) \/ ScheduleTimerKey(w) \/ FireTimerRow(w) \/ FireTimerKey(w)
         \/ StoreError(w) \/ Enqueue(w)
  PROVE  SameWork /\ UNCHANGED <<rows, effects>>
<1> USE DEF Reply, Goto, dbVars, PcValues, Advancing, Marked, Resulted
<1>1. UNCHANGED <<rows, job, effects>>
  BY DEF EnsureWaitingTimer, OptimisticLock, AppendStepHistory, CompleteStepHistory, ClearTimerRow,
         ClearTimerKey, StreamFull, ScheduleTimerRow, ScheduleTimerKey, FireTimerRow, FireTimerKey,
         StoreError, Enqueue
<1>2. PICK to \in PcValues :
                /\ pc' = [pc EXCEPT ![w] = to]
                /\ to # "advance"
                /\ to \in Marked => pc[w] \in Marked
                /\ to \in Resulted => pc[w] \in Resulted
  <2>1. CASE EnsureWaitingTimer(w)
    BY <2>1 DEF EnsureWaitingTimer
  <2>2. CASE OptimisticLock(w)
    BY <2>2 DEF OptimisticLock
  <2>3. CASE AppendStepHistory(w)
    BY <2>3 DEF AppendStepHistory
  <2>4. CASE CompleteStepHistory(w)
    BY <2>4 DEF CompleteStepHistory
  <2>5. CASE ClearTimerRow(w)
    BY <2>5 DEF ClearTimerRow
  <2>6. CASE ClearTimerKey(w)
    BY <2>6 DEF ClearTimerKey
  <2>7. CASE StreamFull(w)
    BY <2>7 DEF StreamFull
  <2>8. CASE ScheduleTimerRow(w)
    BY <2>8 DEF ScheduleTimerRow
  <2>9. CASE ScheduleTimerKey(w)
    BY <2>9 DEF ScheduleTimerKey
  <2>10. CASE FireTimerRow(w)
    BY <2>10 DEF FireTimerRow
  <2>11. CASE FireTimerKey(w)
    BY <2>11 DEF FireTimerKey
  <2>12. CASE StoreError(w)
    BY <2>12 DEF StoreError
  <2>13. CASE Enqueue(w)
    BY <2>13 DEF Enqueue
  <2> QED
    BY <2>1, <2>2, <2>3, <2>4, <2>5, <2>6, <2>7, <2>8, <2>9, <2>10, <2>11, <2>12, <2>13
<1> QED
  BY <1>1, <1>2, WorkKept

\* The contents, when no new content is stored.
LEMMA ContentKept ==
  ASSUME AInv, SameRows, SameWork PROVE ContentOK'
<1>1. \A i \in Instances : IsContent(rows'[i].inst) /\ (rows'[i].version = 0 => rows'[i].inst = Absent)
  BY DEF AInv, ContentOK, SameRows
<1>2. \A w \in Workers : pc'[w] \in Advancing =>
        IsContent(job'[w].inst) /\ job'[w].inst.status \notin Terminal
  BY DEF AInv, ContentOK, SameWork, SameMarked, Advancing
<1>3. \A w \in Workers : pc'[w] \in Marked => job'[w].inst.cur \in StepIds
  BY DEF AInv, ContentOK, SameWork, SameMarked, Cur
<1>4. \A w \in Workers : pc'[w] \in Resulted => job'[w].out.kind \in {"success", "waiting", "error"}
  BY DEF AInv, ContentOK, SameWork, SameMarked, Advancing
<1> QED
  BY <1>1, <1>2, <1>3, <1>4 DEF ContentOK, Cur

\* The steps that leave contents, versions, work and effects alone.
LEMMA QuietAInv ==
  ASSUME AInv, IInv', SameRows, SameWork, UNCHANGED effects PROVE AInv'
<1>1. ContentOK'
  BY ContentKept
<1>2. \A i \in Instances : \A s \in StepIds : RowAttempt(i, s)' = RowAttempt(i, s)
  BY DEF SameRows, RowAttempt
<1>3. \A i \in Instances : \A s \in StepIds : RowAttempt(i, s) \in Nat
  BY AttemptTypes
<1>4. Grows /\ \A i \in Instances : \A s \in StepIds : RowAttempt(i, s)' \in Nat
  BY <1>2, <1>3 DEF Grows
<1>5. AttemptsOK' /\ AttemptExclusive'
  BY <1>4, AttemptsKept DEF SameWork
<1> QED
  BY <1>1, <1>5 DEF AInv

-----------------------------------------------------------------------------
(* The steps of the workers *)

LEMMA LeaveWork ==
  ASSUME JobsOK, NEW w \in Workers,
         Release(w) \/ ReleaseError(w) \/ Ack(w) \/ AckError(w)
         \/ ClaimBusy(w) \/ ClaimError(w) \/ Crash(w)
  PROVE  SameWork /\ UNCHANGED effects
<1> USE DEF Release, ReleaseError, Ack, AckError, ClaimBusy, ClaimError, Crash
<1>1. UNCHANGED effects
  OBVIOUS
<1>2. CASE ClaimError(w)
  BY <1>2 DEF SameWork, SameMarked
<1>3. CASE \E to \in {"ack", "idle"} : pc' = [pc EXCEPT ![w] = to]
  <2>1. PICK to \in {"ack", "idle"} : pc' = [pc EXCEPT ![w] = to]
    BY <1>3
  <2>2. \A x \in Workers \ {w} : job'[x] = job[x]
    <3>1. CASE UNCHANGED job
      BY <3>1
    <3>2. CASE \E j : job' = [job EXCEPT ![w] = j]
      BY <3>2 DEF JobsOK, IsFun
    <3> QED
      BY <3>1, <3>2 DEF NextMessage
  <2> QED
    BY <2>1, <2>2, WorkKept DEF Advancing, Marked, Resulted
<1> QED
  BY <1>1, <1>2, <1>3 DEF Goto, NextMessage

LEMMA ClaimAInv ==
  ASSUME AInv, NEW w \in Workers, Claim(w), IInv' PROVE AInv'
<1>1. PICK m \in batch[w] :
        /\ ClaimInstance(m.inst, w)
        /\ job' = [job EXCEPT ![w] = [NoJob EXCEPT !.msg = m, !.inst = rows[m.inst].inst,
                                                  !.version = rows[m.inst].version]]
        /\ pc' = [pc EXCEPT ![w] = "advance"]
  BY DEF Claim, Goto
<1>2. m.inst \in Instances
  BY DEF AInv, IInv, Shape, MessagesOK, StreamTypeOK
<1>3. SameRows
  BY <1>1, <1>2, LeaseRows DEF AInv, IInv, Shape
<1>4. /\ \A x \in Workers \ {w} : job'[x] = job[x]
      /\ job'[w].inst = rows[m.inst].inst
  BY <1>1 DEF NoJob, AInv, IInv, Shape, JobsOK, IsFun
<1>5. pc'[w] = "advance" /\ \A x \in Workers \ {w} : pc'[x] = pc[x]
  BY <1>1 DEF AInv, IInv, Shape, JobsOK, IsFun
<1>6. SameMarked
  BY <1>4, <1>5 DEF SameMarked, Marked, Resulted
<1>7. ContentOK'
  <2>1. \A i \in Instances : IsContent(rows'[i].inst) /\ (rows'[i].version = 0 => rows'[i].inst = Absent)
    BY <1>3 DEF AInv, ContentOK, SameRows
  <2>2. IsContent(job'[w].inst) /\ job'[w].inst.status \notin Terminal
    BY <1>1, <1>2, <1>4 DEF AInv, ContentOK, ClaimInstance, Claimable, Active
  <2>3. \A x \in Workers : pc'[x] \in Advancing =>
          IsContent(job'[x].inst) /\ job'[x].inst.status \notin Terminal
    BY <1>4, <1>5, <2>2 DEF AInv, ContentOK
  <2>4. \A x \in Workers : pc'[x] \in Marked => job'[x].inst.cur \in StepIds
    BY <1>6 DEF SameMarked, AInv, ContentOK, Cur
  <2>5. \A x \in Workers : pc'[x] \in Resulted => job'[x].out.kind \in {"success", "waiting", "error"}
    BY <1>6 DEF SameMarked, AInv, ContentOK
  <2> QED
    BY <2>1, <2>3, <2>4, <2>5 DEF ContentOK, Cur
<1>8. \A i \in Instances : \A s \in StepIds :
        RowAttempt(i, s)' = RowAttempt(i, s) /\ RowAttempt(i, s) \in Nat
  BY <1>3, AttemptTypes DEF SameRows, RowAttempt
<1>9. AttemptsOK' /\ AttemptExclusive'
  BY <1>6, <1>8, AttemptsKept DEF Grows, Claim
<1> QED
  BY <1>7, <1>9 DEF AInv

\* The executing worker is the one that marked the attempt.
LEMMA ExecuteAInv ==
  ASSUME AInv, NEW w \in Workers, ExecuteStep(w), IInv' PROVE AInv'
<1>1. PICK out \in Execute(job[w].inst, past[Id(w)]) : job' = [job EXCEPT ![w].out = out]
  BY DEF ExecuteStep
<1>2. PICK e : /\ e = [inst |-> Id(w), step |-> Cur(w), attempt |-> Attempt(w),
                       key |-> job[w].inst.steps[Cur(w)].key, by |-> w]
               /\ effects' = effects \cup {e}
  BY DEF ExecuteStep
<1>3. pc[w] = "execute" /\ pc'[w] = "complete" /\ \A x \in Workers \ {w} : pc'[x] = pc[x]
  BY DEF ExecuteStep, Goto, AInv, IInv, Shape, JobsOK, IsFun
<1>4. /\ \A x \in Workers : job'[x].msg = job[x].msg /\ job'[x].inst = job[x].inst
      /\ job'[w].out = out
      /\ \A x \in Workers \ {w} : job'[x] = job[x]
  BY <1>1 DEF AInv, IInv, Shape, JobsOK, IsFun, IsJob
<1>5. UNCHANGED rows
  BY DEF ExecuteStep, dbVars
<1>6. \A x \in Workers : /\ Id(x)' = Id(x) /\ Cur(x)' = Cur(x) /\ Attempt(x)' = Attempt(x)
                         /\ pc'[x] \in Marked => pc[x] \in Marked
  BY <1>3, <1>4 DEF Id, Cur, Attempt, Marked, Resulted
<1>7. /\ \A i \in Instances : \A s \in StepIds : RowAttempt(i, s)' = RowAttempt(i, s)
      /\ \A x \in Workers : pc[x] \in Marked =>
           Attempt(x) \in Nat /\ Id(x) \in Instances /\ Cur(x) \in StepIds
  BY <1>5, AttemptTypes DEF RowAttempt
<1>8. pc[w] \in Marked
  BY <1>3 DEF Marked
<1>9. ContentOK'
  <2>1. out.kind \in {"success", "waiting", "error"}
    BY <1>7, <1>8, ExecuteKinds DEF Cur
  <2>2. \A x \in Workers : pc'[x] \in Advancing =>
          IsContent(job'[x].inst) /\ job'[x].inst.status \notin Terminal
    BY <1>3, <1>4 DEF AInv, ContentOK, Advancing, Marked, Resulted
  <2>3. \A x \in Workers : pc'[x] \in Resulted => job'[x].out.kind \in {"success", "waiting", "error"}
    BY <1>3, <1>4, <2>1 DEF AInv, ContentOK
  <2>4. \A x \in Workers : pc'[x] \in Marked => Cur(x)' \in StepIds
    BY <1>6, <1>7
  <2> QED
    BY <1>5, <2>2, <2>3, <2>4 DEF AInv, ContentOK
<1>10. e.attempt <= RowAttempt(e.inst, e.step)
  BY <1>2, <1>8 DEF AInv, AttemptsOK
<1>11. AttemptsOK'
  <2>1. \A f \in effects' : /\ f.inst \in Instances /\ f.step \in StepIds /\ f.attempt \in Nat
                            /\ f.attempt <= RowAttempt(f.inst, f.step)'
    BY <1>2, <1>7, <1>8, <1>10 DEF AInv, AttemptsOK
  <2>2. (\A x \in Workers : pc[x] \in Marked => Attempt(x) <= RowAttempt(Id(x), Cur(x)))'
    BY <1>5, <1>6 DEF AInv, AttemptsOK, RowAttempt
  <2>3. \A v, x \in Workers :
          /\ pc'[v] \in Marked /\ pc'[x] \in Marked
          /\ Id(v)' = Id(x)' /\ Cur(v)' = Cur(x)' /\ Attempt(v)' = Attempt(x)'
          => v = x
    BY <1>6 DEF AInv, AttemptsOK
  <2>4. \A x \in Workers : \A f \in effects' :
          /\ pc'[x] \in Marked
          /\ f.inst = Id(x)' /\ f.step = Cur(x)' /\ f.attempt = Attempt(x)'
          => f.by = x
    BY <1>2, <1>6, <1>8 DEF AInv, AttemptsOK
  <2> QED
    BY <2>1, <2>2, <2>3, <2>4 DEF AttemptsOK
<1>12. AttemptExclusive'
  <2>1. \A f \in effects : f.inst = e.inst /\ f.step = e.step /\ f.attempt = e.attempt => f.by = w
    BY <1>2, <1>8 DEF AInv, AttemptsOK
  <2> QED
    BY <1>2, <2>1 DEF AInv, AttemptExclusive
<1> QED
  BY <1>9, <1>11, <1>12 DEF AInv

\* The content a worker stores replaces the content it has a copy of.
LEMMA SaveFacts ==
  ASSUME AInv, NEW w \in Workers, pc[w] \in Advancing, NEW inst, Save(w, inst)
  PROVE  /\ Id(w) \in Instances
         /\ rows[Id(w)].inst = job[w].inst
         /\ rows'[Id(w)].inst = inst
         /\ rows'[Id(w)].version # 0
         /\ \A i \in Instances \ {Id(w)} : rows'[i] = rows[i]
         /\ job'[w].inst = inst /\ job'[w].msg = job[w].msg
         /\ \A x \in Workers \ {w} : job'[x] = job[x]
         /\ IsContent(job[w].inst) /\ job[w].inst.status \notin Terminal
<1>0. pc[w] \notin {"idle", "ack"}
  BY DEF Advancing, Marked, Resulted
<1>1. /\ Id(w) \in Instances
      /\ rows[Id(w)].version = job[w].version /\ job[w].version \in Nat
      /\ \A i \in Instances \ {Id(w)} : rows'[i] = rows[i]
      /\ rows'[Id(w)] = [inst |-> inst, version |-> rows[Id(w)].version + 1,
                         lockedBy |-> rows[Id(w)].lockedBy, live |-> rows[Id(w)].live]
      /\ \A x \in Workers \ {w} : job'[x] = job[x]
      /\ job'[w] = [msg |-> job[w].msg, inst |-> inst, version |-> job[w].version + 1, out |-> job[w].out]
  BY <1>0, SaveEffect DEF AInv, IInv
<1>2. rows[Id(w)].inst = job[w].inst
  BY <1>0, <1>1 DEF AInv, IInv, SnapshotCurrent, Holding
<1>3. IsContent(job[w].inst) /\ job[w].inst.status \notin Terminal
  BY DEF AInv, ContentOK
<1> QED
  BY <1>1, <1>2, <1>3

\* A content is stored that starts no attempt, and the worker is done with its copy.
LEMMA StoredAInv ==
  ASSUME AInv, IInv', NEW w \in Workers, pc[w] \in Advancing, NEW inst, Save(w, inst),
         IsContent(inst), SameMarks(job[w].inst, inst),
         NEW to, to \notin Advancing, pc' = [pc EXCEPT ![w] = to], UNCHANGED effects
  PROVE  AInv'
<1>1. /\ Id(w) \in Instances
      /\ rows[Id(w)].inst = job[w].inst
      /\ rows'[Id(w)].inst = inst
      /\ rows'[Id(w)].version # 0
      /\ \A i \in Instances \ {Id(w)} : rows'[i] = rows[i]
      /\ \A x \in Workers \ {w} : job'[x] = job[x]
  BY SaveFacts
<1>2. pc'[w] = to /\ \A x \in Workers \ {w} : pc'[x] = pc[x]
  BY DEF AInv, IInv, Shape, JobsOK, IsFun
<1>3. SameWork
  BY <1>1, <1>2 DEF SameWork, SameMarked, Advancing, Marked
<1>4. \A i \in Instances : \A s \in StepIds : RowAttempt(i, s)' = RowAttempt(i, s)
  BY <1>1 DEF SameMarks, RowAttempt
<1>5. \A i \in Instances : IsContent(rows'[i].inst) /\ (rows'[i].version = 0 => rows'[i].inst = Absent)
  BY <1>1 DEF AInv, ContentOK
<1>6. ContentOK'
  <2>1. \A x \in Workers : pc'[x] \in Advancing =>
          IsContent(job'[x].inst) /\ job'[x].inst.status \notin Terminal
    BY <1>1, <1>2 DEF AInv, ContentOK
  <2>2. \A x \in Workers : pc'[x] \in Marked => job'[x].inst.cur \in StepIds
    BY <1>3 DEF SameWork, SameMarked, AInv, ContentOK, Cur
  <2>3. \A x \in Workers : pc'[x] \in Resulted => job'[x].out.kind \in {"success", "waiting", "error"}
    BY <1>3 DEF SameWork, SameMarked, AInv, ContentOK
  <2> QED
    BY <1>5, <2>1, <2>2, <2>3 DEF ContentOK, Cur
<1>7. Grows /\ \A i \in Instances : \A s \in StepIds : RowAttempt(i, s)' \in Nat
  BY <1>4, AttemptTypes DEF Grows
<1>8. AttemptsOK' /\ AttemptExclusive'
  BY <1>3, <1>7, AttemptsKept DEF SameWork
<1> QED
  BY <1>6, <1>8 DEF AInv

LEMMA FinishAInv ==
  ASSUME AInv, IInv', NEW w \in Workers, FinishInstance(w) PROVE AInv'
<1>1. PICK inst : inst = FinishWithoutStep(job[w].inst)
  OBVIOUS
<1>2. pc[w] \in Advancing /\ Save(w, inst) /\ UNCHANGED effects
  BY <1>1 DEF FinishInstance, Advancing
<1>3. IsContent(inst) /\ SameMarks(job[w].inst, inst)
  BY <1>1, <1>2, FinishWithoutStepContent DEF AInv, ContentOK, SameMarks
<1>4. PICK to \in {"release", "abort"} : pc' = [pc EXCEPT ![w] = to]
  BY DEF FinishInstance, Reply, Goto
<1>5. to \notin Advancing
  BY DEF Advancing, Marked, Resulted
<1> QED
  BY <1>2, <1>3, <1>4, <1>5, StoredAInv

\* What a worker does after the result is stored.
LEMMA ResultTargets ==
  ASSUME AInv, NEW w \in Workers, SaveResult(w)
  PROVE  \E to \in {"enqueue", "schedule", "release", "abort"} : pc' = [pc EXCEPT ![w] = to]
<1>1. PICK inst : inst = HandleResult(job[w].inst, job[w].out)
  OBVIOUS
<1>2. pc[w] = "update" /\ Reply(w, AfterUpdate(inst.status))
  BY <1>1 DEF SaveResult
<1>3. inst.status \in ResultStatuses
  BY <1>1, <1>2, ResultContent DEF AInv, ContentOK, Cur, Advancing, Marked, Resulted
<1>4. AfterUpdate(inst.status) \in {"enqueue", "schedule", "release"}
  BY <1>3 DEF AfterUpdate, ResultStatuses, Terminal
<1> QED
  BY <1>2, <1>4 DEF Reply, Goto

LEMMA ResultAInv ==
  ASSUME AInv, IInv', NEW w \in Workers, SaveResult(w) PROVE AInv'
<1>1. PICK inst : inst = HandleResult(job[w].inst, job[w].out)
  OBVIOUS
<1>2. pc[w] = "update" /\ Save(w, inst) /\ UNCHANGED effects
  BY <1>1 DEF SaveResult
<1>3. pc[w] \in Advancing /\ pc[w] \in Marked /\ pc[w] \in Resulted
  BY <1>2 DEF Advancing, Marked, Resulted
<1>4. IsContent(inst) /\ SameMarks(job[w].inst, inst)
  BY <1>1, <1>3, ResultContent DEF AInv, ContentOK, Cur
<1>5. PICK to \in {"enqueue", "schedule", "release", "abort"} : pc' = [pc EXCEPT ![w] = to]
  BY ResultTargets
<1>6. to \notin Advancing
  BY DEF Advancing, Marked, Resulted
<1> QED
  BY <1>2, <1>3, <1>4, <1>5, <1>6, StoredAInv

\* The attempt marked running is one more than the stored one, so it is nobody else's.
LEMMA MarkAInv ==
  ASSUME AInv, IInv', NEW w \in Workers, MarkStepRunning(w) PROVE AInv'
<1>1. PICK inst : inst = StartStep(job[w].inst, keySeq + 1)
  OBVIOUS
<1>2. pc[w] = "advance" /\ Save(w, inst) /\ UNCHANGED effects /\ StepToRun(job[w].inst).next \in StepIds
  BY <1>1 DEF MarkStepRunning
<1>3. PICK to \in {"append", "abort"} : pc' = [pc EXCEPT ![w] = to]
  BY DEF MarkStepRunning, Reply, Goto
<1>4. pc'[w] = to /\ \A x \in Workers \ {w} : pc'[x] = pc[x]
  BY <1>3 DEF AInv, IInv, Shape, JobsOK, IsFun
<1>5. /\ Id(w) \in Instances
      /\ rows[Id(w)].inst = job[w].inst
      /\ rows'[Id(w)].inst = inst
      /\ rows'[Id(w)].version # 0
      /\ \A i \in Instances \ {Id(w)} : rows'[i] = rows[i]
      /\ job'[w].inst = inst /\ job'[w].msg = job[w].msg
      /\ \A x \in Workers \ {w} : job'[x] = job[x]
      /\ IsContent(job[w].inst)
  BY <1>2, SaveFacts DEF Advancing
<1>6. /\ IsContent(inst) /\ inst.status \in {"running", "compensating"}
      /\ inst.cur \in StepIds
      /\ inst.steps[inst.cur].attempt = job[w].inst.steps[inst.cur].attempt + 1
      /\ \A s \in StepIds \ {inst.cur} : inst.steps[s].attempt = job[w].inst.steps[s].attempt
  BY <1>1, <1>2, <1>5, StartContent DEF SameOthers
<1>7. /\ \A j \in Instances : \A s \in StepIds : RowAttempt(j, s) \in Nat
      /\ \A x \in Workers : pc[x] \in Marked =>
           Attempt(x) \in Nat /\ Id(x) \in Instances /\ Cur(x) \in StepIds
  BY AttemptTypes
<1>8. PICK i \in Instances, c \in StepIds, n \in Nat : i = Id(w) /\ c = inst.cur /\ n = RowAttempt(i, c)
  BY <1>5, <1>6, <1>7
<1>9. /\ RowAttempt(i, c)' = n + 1 /\ n \in Nat
      /\ \A j \in Instances : \A s \in StepIds : j # i \/ s # c => RowAttempt(j, s)' = RowAttempt(j, s)
  BY <1>5, <1>6, <1>7, <1>8 DEF RowAttempt
<1>10. Id(w)' = i /\ Cur(w)' = c /\ Attempt(w)' = n + 1
  BY <1>5, <1>6, <1>8, <1>9 DEF Id, Cur, Attempt, RowAttempt
<1>11. \A x \in Workers \ {w} : /\ Id(x)' = Id(x) /\ Cur(x)' = Cur(x) /\ Attempt(x)' = Attempt(x)
                                /\ pc'[x] \in Marked => pc[x] \in Marked
  BY <1>4, <1>5 DEF Id, Cur, Attempt
<1>12. ContentOK'
  <2>1. \A j \in Instances : IsContent(rows'[j].inst) /\ (rows'[j].version = 0 => rows'[j].inst = Absent)
    BY <1>5, <1>6 DEF AInv, ContentOK
  <2>2. \A x \in Workers : pc'[x] \in Advancing =>
          IsContent(job'[x].inst) /\ job'[x].inst.status \notin Terminal
    BY <1>4, <1>5, <1>6 DEF AInv, ContentOK, Terminal
  <2>3. \A x \in Workers : pc'[x] \in Marked => job'[x].inst.cur \in StepIds
    BY <1>4, <1>5, <1>6 DEF AInv, ContentOK, Cur
  <2>4. \A x \in Workers : pc'[x] \in Resulted => job'[x].out.kind \in {"success", "waiting", "error"}
    BY <1>4, <1>5 DEF AInv, ContentOK, Resulted
  <2> QED
    BY <2>1, <2>2, <2>3, <2>4 DEF ContentOK, Cur
<1>13. AttemptExclusive'
  BY <1>2 DEF AInv, AttemptExclusive
<1>14. AttemptsOK'
  <2>1. \A f \in effects' : /\ f.inst \in Instances /\ f.step \in StepIds /\ f.attempt \in Nat
                            /\ f.attempt <= RowAttempt(f.inst, f.step)'
    <3> SUFFICES ASSUME NEW f \in effects
                 PROVE  /\ f.inst \in Instances /\ f.step \in StepIds /\ f.attempt \in Nat
                        /\ f.attempt <= RowAttempt(f.inst, f.step)'
      BY <1>2
    <3>1. /\ f.inst \in Instances /\ f.step \in StepIds /\ f.attempt \in Nat
          /\ f.attempt <= RowAttempt(f.inst, f.step)
      BY DEF AInv, AttemptsOK
    <3> QED
      BY <1>8, <1>9, <3>1
  <2>2. (\A x \in Workers : pc[x] \in Marked => Attempt(x) <= RowAttempt(Id(x), Cur(x)))'
    <3> SUFFICES ASSUME NEW x \in Workers, pc'[x] \in Marked
                 PROVE  (Attempt(x) <= RowAttempt(Id(x), Cur(x)))'
      OBVIOUS
    <3>1. CASE x = w
      BY <1>9, <1>10, <3>1 DEF RowAttempt
    <3>2. CASE x # w
      <4>1. PICK j \in Instances, s \in StepIds, k \in Nat :
              /\ j = Id(x) /\ s = Cur(x) /\ k = Attempt(x)
              /\ j = Id(x)' /\ s = Cur(x)' /\ k = Attempt(x)'
        BY <1>7, <1>11, <3>2
      <4>2. k <= RowAttempt(j, s)
        BY <1>11, <3>2, <4>1 DEF AInv, AttemptsOK
      <4>3. k <= RowAttempt(j, s)'
        BY <1>8, <1>9, <4>2
      <4> QED
        BY <4>1, <4>3 DEF RowAttempt
    <3> QED
      BY <3>1, <3>2
  <2>3. \A x \in Workers \ {w} :
          ~ (pc'[x] \in Marked /\ Id(x)' = i /\ Cur(x)' = c /\ Attempt(x)' = n + 1)
    <3> SUFFICES ASSUME NEW x \in Workers \ {w}, pc[x] \in Marked, Id(x) = i, Cur(x) = c,
                        Attempt(x) = n + 1
                 PROVE  FALSE
      BY <1>11
    <3>1. Attempt(x) <= n
      BY <1>8 DEF AInv, AttemptsOK
    <3> QED
      BY <1>9, <3>1
  <2>4. \A v, x \in Workers :
          /\ pc'[v] \in Marked /\ pc'[x] \in Marked
          /\ Id(v)' = Id(x)' /\ Cur(v)' = Cur(x)' /\ Attempt(v)' = Attempt(x)'
          => v = x
    BY <1>10, <1>11, <2>3 DEF AInv, AttemptsOK
  <2>5. \A f \in effects : ~ (f.inst = i /\ f.step = c /\ f.attempt = n + 1)
    <3> SUFFICES ASSUME NEW f \in effects, f.inst = i, f.step = c, f.attempt = n + 1 PROVE FALSE
      OBVIOUS
    <3>1. f.attempt <= n
      BY <1>8 DEF AInv, AttemptsOK
    <3> QED
      BY <1>9, <3>1
  <2>6. \A x \in Workers : \A f \in effects' :
          /\ pc'[x] \in Marked
          /\ f.inst = Id(x)' /\ f.step = Cur(x)' /\ f.attempt = Attempt(x)'
          => f.by = x
    BY <1>2, <1>10, <1>11, <2>5 DEF AInv, AttemptsOK
  <2> QED
    BY <2>1, <2>2, <2>4, <2>6 DEF AttemptsOK
<1> QED
  BY <1>12, <1>13, <1>14 DEF AInv

LEMMA CreateAInv ==
  ASSUME AInv, IInv', NEW i \in Instances, ApiCreate(i) PROVE AInv'
<1>0. IsFun(rows, Instances) /\ IsRow(rows[i]) /\ rows[i].version = 0
  BY DEF AInv, IInv, Shape, RowsOK, ApiCreate, CreateInstance, Exists
<1>1. rows' = [rows EXCEPT ![i].inst = NewRuntimeState("pending"), ![i].version = 1]
  BY DEF ApiCreate, CreateInstance
<1>2. \A x \in Instances \ {i} : rows'[x] = rows[x]
  BY <1>0, <1>1 DEF IsFun
<1>3. rows'[i].inst = NewRuntimeState("pending") /\ rows'[i].version = 1
  BY <1>0, <1>1 DEF IsFun, IsRow
<1>4. UNCHANGED <<pc, job, effects>>
  BY DEF ApiCreate
<1>5. SameWork
  BY <1>4 DEF SameWork, SameMarked
<1>6. rows[i].inst = NewRuntimeState("absent")
  BY <1>0 DEF AInv, ContentOK, Absent
<1>7. \A j \in Instances : \A s \in StepIds : RowAttempt(j, s)' = RowAttempt(j, s)
  BY <1>2, <1>3, <1>6 DEF RowAttempt, NewRuntimeState
<1>8. ContentOK'
  <2>1. \A j \in Instances : IsContent(rows'[j].inst) /\ (rows'[j].version = 0 => rows'[j].inst = Absent)
    BY <1>2, <1>3, NewContent DEF AInv, ContentOK
  <2> QED
    BY <1>4, <2>1 DEF AInv, ContentOK, Cur
<1>9. Grows /\ \A j \in Instances : \A s \in StepIds : RowAttempt(j, s)' \in Nat
  BY <1>7, AttemptTypes DEF Grows
<1>10. AttemptsOK' /\ AttemptExclusive'
  BY <1>4, <1>5, <1>9, AttemptsKept DEF SameWork
<1> QED
  BY <1>8, <1>10 DEF AInv

-----------------------------------------------------------------------------
(* Every step *)

\* A step stores a new content, or creates an instance, or starts or executes an attempt,
\* or does none of these.
LEMMA StepKinds ==
  ASSUME AInv, [Next]_vars
  PROVE  \/ SameRows /\ SameWork /\ UNCHANGED effects
         \/ \E w \in Workers : SameRows /\ (Claim(w) \/ ExecuteStep(w))
         \/ \E w \in Workers : MarkStepRunning(w) \/ FinishInstance(w) \/ SaveResult(w)
         \/ \E i \in Instances : ApiCreate(i)
<1> DEFINE Quiet == SameRows /\ SameWork /\ UNCHANGED effects
<1>0. RowsOK /\ JobsOK /\ IInv
  BY DEF AInv, IInv, Shape
<1>1. ASSUME Environment PROVE Quiet
  BY <1>0, <1>1, EnvironmentRows DEF SameWork, SameMarked
<1>2. ASSUME NEW w \in Workers, Consume(w) \/ ReclaimPending(w) PROVE Quiet
  BY <1>2 DEF Consume, ReclaimPending, dbVars, engineVars, SameRows, SameWork, SameMarked
<1>3. ASSUME NEW w \in Workers,
             \/ EnsureWaitingTimer(w) \/ OptimisticLock(w) \/ AppendStepHistory(w)
             \/ CompleteStepHistory(w) \/ ClearTimerRow(w) \/ ClearTimerKey(w) \/ StreamFull(w)
             \/ ScheduleTimerRow(w) \/ ScheduleTimerKey(w) \/ FireTimerRow(w) \/ FireTimerKey(w)
             \/ StoreError(w) \/ Enqueue(w)
      PROVE  Quiet
  BY <1>0, <1>3, CallWork DEF SameRows
<1>4. ASSUME NEW w \in Workers, Release(w) \/ ReleaseError(w) \/ Ack(w) \/ AckError(w) PROVE Quiet
  BY <1>0, <1>4, LeaveWork, LeaveMessages
<1>5. ASSUME NEW w \in Workers, ClaimBusy(w) PROVE Quiet
  BY <1>0, <1>5, LeaveWork DEF ClaimBusy, dbVars, SameRows
<1>6. ASSUME NEW w \in Workers, ClaimError(w) PROVE Quiet
  <2>1. PICK m \in batch[w] : UNCHANGED rows \/ ClaimInstance(m.inst, Orphan)
    BY <1>6 DEF ClaimError
  <2>2. m.inst \in Instances
    BY DEF AInv, IInv, Shape, MessagesOK, StreamTypeOK
  <2> QED
    BY <1>0, <1>6, <2>1, <2>2, LeaseRows, LeaveWork
<1>7. ASSUME NEW w \in Workers, Crash(w) PROVE Quiet
  BY <1>0, <1>7, LeaseRows, LeaveWork DEF Crash, SameRows
<1>8. ASSUME NEW w \in Workers, Claim(w) PROVE SameRows
  <2>1. PICK m \in batch[w] : ClaimInstance(m.inst, w)
    BY <1>8 DEF Claim
  <2>2. m.inst \in Instances
    BY DEF AInv, IInv, Shape, MessagesOK, StreamTypeOK
  <2> QED
    BY <1>0, <2>1, <2>2, LeaseRows
<1>9. ASSUME NEW w \in Workers, ExecuteStep(w) PROVE SameRows
  BY <1>9 DEF ExecuteStep, dbVars, SameRows
<1> HIDE DEF Quiet
<1> QED
  BY <1>1, <1>2, <1>3, <1>4, <1>5, <1>6, <1>7, <1>8, <1>9
     DEF Next, WorkerStep, WorkerFault, Done, Environment, Quiet

LEMMA StepAInv == AInv /\ [Next]_vars => AInv'
<1> SUFFICES ASSUME AInv, [Next]_vars PROVE AInv'
  OBVIOUS
<1>1. IInv'
  BY StepIInv DEF AInv
<1> QED
  BY <1>1, StepKinds, QuietAInv, ClaimAInv, ExecuteAInv, MarkAInv, FinishAInv, ResultAInv, CreateAInv

\* The content of a finished instance is not replaced.
LEMMA StepTerminal ==
  ASSUME AInv, [Next]_vars, NEW i \in Instances, rows[i].inst.status \in Terminal
  PROVE  rows'[i].inst = rows[i].inst
<1>1. CASE SameRows
  BY <1>1 DEF SameRows
<1>2. ASSUME NEW w \in Workers, MarkStepRunning(w) \/ FinishInstance(w) \/ SaveResult(w)
      PROVE  rows'[i].inst = rows[i].inst
  <2>1. pc[w] \in Advancing /\ \E inst : Save(w, inst)
    BY <1>2 DEF MarkStepRunning, FinishInstance, SaveResult, Advancing, Marked, Resulted
  <2>2. PICK inst : Save(w, inst)
    BY <2>1
  <2>3. rows[Id(w)].inst.status \notin Terminal /\ \A j \in Instances \ {Id(w)} : rows'[j] = rows[j]
    BY <2>1, <2>2, SaveFacts
  <2> QED
    BY <2>3
<1>3. ASSUME NEW j \in Instances, ApiCreate(j) PROVE rows'[i].inst = rows[i].inst
  <2>1. rows[j].inst.status = "absent"
    BY <1>3, NewContent DEF ApiCreate, CreateInstance, Exists, AInv, ContentOK, Absent
  <2>2. i # j
    BY <2>1 DEF Terminal
  <2> QED
    BY <1>3, <2>2 DEF ApiCreate, CreateInstance, AInv, IInv, Shape, RowsOK, IsFun
<1> QED
  BY <1>1, <1>2, <1>3, StepKinds

\* For every definition, and any number of workers and faults: no attempt of a step is
\* executed by two workers.
THEOREM AttemptsAreExclusive == Spec => []AttemptExclusive
<1>1. Spec => []AInv
  BY InitAInv, StepAInv, PTL DEF Spec
<1> QED
  BY <1>1, PTL DEF AInv

\* For every definition, and any number of workers and faults: nothing that a late worker,
\* message or timer does changes a finished instance.
THEOREM FinishedStaysFinished == Spec => TerminalIsFinal
<1>1. AInv /\ [Next]_vars =>
        [\A i \in Instances : rows[i].inst.status \in Terminal => rows'[i].inst = rows[i].inst]_vars
  BY StepTerminal
<1>2. Spec => []AInv
  BY InitAInv, StepAInv, PTL DEF Spec
<1> QED
  BY <1>1, <1>2, PTL DEF Spec, TerminalIsFinal
=============================================================================
