----------------------------- MODULE ApiProofs -----------------------------
(***************************************************************************)
(* Theorems about the service: tenants stay apart, answers are consistent, *)
(* every variable has its type, and a process that is signalled, cut off   *)
(* and started again keeps what the other proofs establish of the engine:  *)
(* it implements Execution too.                                            *)
(***************************************************************************)
EXTENDS Api, RefinementProofs

-----------------------------------------------------------------------------
(* The engine inside the service *)

CoreInv == AInv /\ RunOK /\ HistoryOK

\* A worker goes on as it was, or is cut off.
CutOff == \A w \in Workers : pc'[w] = "idle" \/ (pc'[w] = pc[w] /\ job'[w] = job[w])

\* Workers are cut off without a trace in the contents, the history and the clock.
Cut == SameRows /\ CutOff /\ UNCHANGED <<history, effects, past>>

\* The steps of the service that the engine does not have: the stream refuses an instance's
\* first message, a signal, a worker that gives its lease back, and the end of the process.
Refused == UNCHANGED <<rows, history, past, stream, batch, agent, recov, pc, job, effects>>

Stop == Refused \/ Signal \/ (\E w \in Workers : Unwind(w)) \/ Exit

LEMMA SignalCut == ASSUME IInv, Signal PROVE IInv' /\ Cut
<1>1. UNCHANGED <<rows, history, past, stream, batch, pc, job, effects>>
  BY DEF Signal, dbVars
<1>2. agent' \in [Agents -> AgentState] /\ \A a \in Agents : agent'[a].stage = "idle"
  BY DEF Signal, AgentState, IdleAgent
<1>3. recov' \subseteq Instances
  BY DEF Signal
<1>4. MessagesOK'
  BY <1>1, <1>2, <1>3 DEF IInv, Shape, MessagesOK, StreamTypeOK
<1>5. RowsOK' /\ SameRows
  BY <1>1 DEF IInv, Shape, RowsOK, SameRows
<1>6. IInv'
  BY <1>1, <1>4, <1>5, OthersIInv
<1> QED
  BY <1>1, <1>5, <1>6 DEF Cut, CutOff

LEMMA RefusedCut == ASSUME IInv, Refused PROVE IInv' /\ Cut
<1>1. MessagesOK'
  BY MessagesUnchanged DEF Refused, IInv, Shape
<1>2. RowsOK' /\ SameRows
  BY DEF Refused, IInv, Shape, RowsOK, SameRows
<1>3. IInv'
  BY <1>1, <1>2, OthersIInv DEF Refused
<1> QED
  BY <1>2, <1>3 DEF Refused, Cut, CutOff

LEMMA UnwindCut == ASSUME IInv, NEW w \in Workers, Unwind(w) PROVE IInv' /\ Cut
<1>1. UNCHANGED <<history, past, stream, agent, recov, effects>>
  BY DEF Unwind, timerVars
<1>2. pc[w] \notin {"idle", "ack"} /\ NextMessage(w)
  BY DEF Unwind, Holding
<1>3. LeaveStep(w)
  BY <1>1, <1>2 DEF LeaveStep
<1>4. Id(w) \in Instances
  BY <1>2 DEF IInv, Shape, JobsOK, Message, Id
<1>5. RowsOK' /\ SameRows
  BY <1>4, LeaseRows DEF Unwind, IInv, Shape
<1>6. batch' \in [Workers -> SUBSET [id : MsgIds, inst : Instances]]
  BY <1>2, BatchShrinks DEF NextMessage, IInv, Shape
<1>7. MessagesOK'
  BY <1>1, <1>6 DEF IInv, Shape, MessagesOK, StreamTypeOK
<1>8. IInv'
  BY <1>3, <1>5, <1>7, LeaveIInv
<1>9. CutOff
  BY <1>2 DEF NextMessage, CutOff, IInv, Shape, JobsOK, IsFun
<1> QED
  BY <1>1, <1>5, <1>8, <1>9 DEF Cut

LEMMA ExitCut == ASSUME IInv, Exit PROVE IInv' /\ Cut
<1>1. UNCHANGED <<history, past, stream, effects>>
  BY DEF Exit
<1>2. pc' = [w \in Workers |-> "idle"] /\ job' = [w \in Workers |-> NoJob] /\ batch' = [w \in Workers |-> {}]
  BY DEF Exit
<1>3. agent' \in [Agents -> AgentState] /\ \A a \in Agents : agent'[a].stage = "idle"
  BY DEF Exit, AgentState, IdleAgent
<1>4. recov' \subseteq Instances
  BY DEF Exit
<1>5. batch' \in [Workers -> SUBSET [id : MsgIds, inst : Instances]]
  BY <1>2
<1>6. MessagesOK'
  BY <1>1, <1>3, <1>4, <1>5 DEF IInv, Shape, MessagesOK, StreamTypeOK
<1>7. JobsOK'
  <2>1. IsJob(NoJob)
    BY DEF IsJob, NoJob
  <2> QED
    BY <1>2, <2>1 DEF JobsOK, IsFun
<1>8. RowsOK' /\ SameRows
  <2>1. IsFun(rows', Instances)
    BY DEF Exit, IsFun
  <2>2. ASSUME NEW i \in Instances
        PROVE  IsRow(rows'[i]) /\ rows'[i].inst = rows[i].inst /\ rows'[i].version = rows[i].version
    <3>1. IsRow(rows[i])
      BY DEF IInv, Shape, RowsOK
    <3>2. CASE rows[i].lockedBy \in Workers
      <4>1. rows'[i] = [rows[i] EXCEPT !.lockedBy = Orphan]
        BY <3>2 DEF Exit
      <4>2. rows'[i] = [inst |-> rows[i].inst, version |-> rows[i].version,
                        lockedBy |-> Orphan, live |-> rows[i].live]
        BY <3>1, <4>1 DEF IsRow
      <4> QED
        BY <3>1, <4>2 DEF IsRow
    <3>3. CASE rows[i].lockedBy \notin Workers
      BY <3>1, <3>3 DEF Exit
    <3> QED
      BY <3>2, <3>3
  <2> QED
    BY <2>1, <2>2 DEF RowsOK, SameRows
<1>9. SnapshotCurrent'
  BY <1>2, <1>7, <1>8, SnapshotKept
<1> QED
  BY <1>1, <1>2, <1>6, <1>7, <1>8, <1>9 DEF IInv, Shape, Cut, CutOff

LEMMA StopCut == ASSUME IInv, Stop PROVE IInv' /\ Cut
BY SignalCut, RefusedCut, UnwindCut, ExitCut DEF Stop

\* What the engine's proofs establish survives the cut.
LEMMA CutCore == ASSUME CoreInv, IInv', Cut PROVE CoreInv'
<1>1. SameWork
  BY DEF Cut, CutOff, SameWork, SameMarked, Marked, Resulted
<1>2. AInv'
  BY <1>1, QuietAInv DEF CoreInv, Cut
<1>3. RunOK'
  <2>1. \A i \in Instances : /\ WaitOK(rows'[i].inst)
                             /\ rows'[i].version # 0 => rows'[i].inst.status # "absent"
    BY DEF Cut, SameRows, CoreInv, RunOK
  <2>2. ASSUME NEW w \in Workers PROVE WorkerRun(w)'
    <3>1. CASE pc'[w] = "idle"
      BY <3>1 DEF WorkerRun, Advancing, Marked, Resulted
    <3>2. CASE pc'[w] = pc[w] /\ job'[w] = job[w]
      BY <3>2 DEF WorkerRun, CoreInv, RunOK, Cut, Id
    <3> QED
      BY <3>1, <3>2 DEF Cut, CutOff
  <2> QED
    BY <2>1, <2>2 DEF RunOK, WorkerRun, CoreInv, Cut
<1>4. HistoryOK'
  <2>1. \A i \in Instances : \A s \in StepIds : HasCompleted(rows'[i].inst, s) => Recorded(i, s)'
    BY DEF Cut, SameRows, CoreInv, HistoryOK, Recorded
  <2>2. ASSUME NEW w \in Workers, pc'[w] \in AfterHistory, job'[w].out.kind = "success"
        PROVE  Recorded(Id(w), Cur(w))'
    <3>1. pc'[w] = pc[w] /\ job'[w] = job[w]
      BY <2>2 DEF Cut, CutOff, AfterHistory
    <3> QED
      BY <2>2, <3>1 DEF CoreInv, HistoryOK, Recorded, Id, Cur, Cut
  <2> QED
    BY <2>1, <2>2 DEF HistoryOK
<1> QED
  BY <1>2, <1>3, <1>4 DEF CoreInv

LEMMA StepCore == ASSUME CoreInv, [Next]_vars \/ Stop PROVE CoreInv'
<1>1. CASE [Next]_vars
  BY <1>1, StepAInv, StepRun, StepHistory DEF CoreInv
<1>2. CASE Stop
  BY <1>2, StopCut, CutCore DEF CoreInv, AInv
<1> QED
  BY <1>1, <1>2

-----------------------------------------------------------------------------
(* Instances and the history only grow *)

\* The steps of the engine's goroutines, of the clock and of a handler that enqueues.
EngineStep == Environment \/ \E w \in Workers : Consume(w) \/ ReclaimPending(w) \/ WorkerStep(w)

LEMMA EngineIsNext == EngineStep => [Next]_vars
BY DEF EngineStep, Environment, Next

LEMMA EngineRows ==
  ASSUME AInv, EngineStep
  PROVE  SameRows \/ \E w \in Workers : MarkStepRunning(w) \/ FinishInstance(w) \/ SaveResult(w)
<1>0. RowsOK /\ JobsOK /\ IInv
  BY DEF AInv, IInv, Shape
<1>1. CASE Environment
  BY <1>0, <1>1, EnvironmentRows
<1>2. ASSUME NEW w \in Workers, Consume(w) \/ ReclaimPending(w) \/ ClaimBusy(w) \/ ExecuteStep(w)
      PROVE  SameRows
  BY <1>2 DEF Consume, ReclaimPending, ClaimBusy, ExecuteStep, dbVars, SameRows
<1>3. ASSUME NEW w \in Workers,
             \/ EnsureWaitingTimer(w) \/ OptimisticLock(w) \/ AppendStepHistory(w)
             \/ CompleteStepHistory(w) \/ ClearTimerRow(w) \/ ClearTimerKey(w) \/ StreamFull(w)
             \/ ScheduleTimerRow(w) \/ ScheduleTimerKey(w) \/ FireTimerRow(w) \/ FireTimerKey(w)
             \/ Enqueue(w)
      PROVE  SameRows
  BY <1>0, <1>3, CallWork DEF SameRows
<1>4. ASSUME NEW w \in Workers, Release(w) \/ Ack(w) PROVE SameRows
  BY <1>0, <1>4, LeaveMessages
<1>5. ASSUME NEW w \in Workers, Claim(w) PROVE SameRows
  <2>1. PICK m \in batch[w] : ClaimInstance(m.inst, w)
    BY <1>5 DEF Claim
  <2>2. m.inst \in Instances
    BY DEF AInv, IInv, Shape, MessagesOK, StreamTypeOK
  <2> QED
    BY <1>0, <2>1, <2>2, LeaseRows
<1> QED
  BY <1>1, <1>2, <1>3, <1>4, <1>5 DEF EngineStep, WorkerStep

\* No step but the API's insert changes which instances exist: what a worker stores it
\* stores over an instance that exists.
LEMMA SameInstances ==
  ASSUME CoreInv, EngineStep \/ Stop, NEW i \in Instances PROVE Exists(i)' <=> Exists(i)
<1>1. CASE SameRows
  BY <1>1 DEF SameRows, Exists
<1>2. ASSUME NEW w \in Workers, MarkStepRunning(w) \/ FinishInstance(w) \/ SaveResult(w)
      PROVE  Exists(i)' <=> Exists(i)
  <2>1. PICK inst : Save(w, inst) /\ pc[w] \in Advancing
    BY <1>2 DEF MarkStepRunning, FinishInstance, SaveResult, Advancing, Marked, Resulted
  <2>2. /\ Id(w) \in Instances
        /\ rows[Id(w)].inst = job[w].inst
        /\ rows'[Id(w)].version # 0
        /\ \A j \in Instances \ {Id(w)} : rows'[j] = rows[j]
    BY <2>1, SaveFacts DEF CoreInv
  <2>3. job[w].inst.status # "absent"
    BY <2>1 DEF CoreInv, RunOK
  <2>4. rows[Id(w)].version # 0
    BY <2>2, <2>3, NewContent DEF CoreInv, AInv, ContentOK, Absent
  <2> QED
    BY <2>2, <2>4 DEF Exists
<1>3. Stop => SameRows
  BY StopCut DEF CoreInv, AInv, Cut
<1> QED
  BY <1>1, <1>2, <1>3, EngineRows DEF CoreInv

LEMMA CreatedExists ==
  ASSUME CoreInv, NEW i \in Instances, ApiCreate(i)
  PROVE  ~ Exists(i) /\ Exists(i)' /\ \A j \in Instances \ {i} : Exists(j)' <=> Exists(j)
<1>1. IsFun(rows, Instances) /\ IsRow(rows[i]) /\ rows[i].version = 0
  BY DEF CoreInv, AInv, IInv, Shape, RowsOK, ApiCreate, CreateInstance, Exists
<1>2. rows' = [rows EXCEPT ![i].inst = NewRuntimeState("pending"), ![i].version = 1]
  BY DEF ApiCreate, CreateInstance
<1>3. \A j \in Instances \ {i} : rows'[j] = rows[j]
  BY <1>1, <1>2 DEF IsFun
<1>4. rows'[i].version = 1
  BY <1>1, <1>2 DEF IsFun, IsRow
<1> QED
  BY <1>1, <1>3, <1>4 DEF Exists

LEMMA RecordsGrow ==
  ASSUME CoreInv, EngineStep \/ Stop, NEW i, NEW s, Recorded(i, s) PROVE Recorded(i, s)'
<1>1. CASE EngineStep
  BY <1>1, EngineIsNext, RecordedKept
<1>2. CASE Stop
  BY <1>2, StopCut DEF CoreInv, AInv, Cut, Recorded
<1> QED
  BY <1>1, <1>2

-----------------------------------------------------------------------------
(* Requests *)

IsRequest(q) ==
  /\ q = [stage |-> q.stage, tenant |-> q.tenant, def |-> q.def, inst |-> q.inst,
          reads |-> q.reads, completed |-> q.completed, recorded |-> q.recorded]
  /\ q.reads \in 0 .. 2

\* What a handler relies on when it makes its next call: the definition it has loaded is
\* its tenant's, and so is the instance it has read; the history has what the row showed.
RequestOK(r) ==
  /\ IsRequest(req[r])
  /\ req[r].stage = "insert" => req[r].def \in defs /\ req[r].def.tenant = req[r].tenant
  /\ req[r].stage \in {"enqueue", "read"} => req[r].inst \in Instances
  /\ req[r].stage \notin {"read", "answered"} => req[r].reads = 0
  /\ req[r].stage = "read" => req[r].reads \in {0, 1}
  /\ req[r].reads # 0 => /\ req[r].inst \in Instances
                         /\ Exists(req[r].inst)
                         /\ owner[req[r].inst].tenant = req[r].tenant
                         /\ \A s \in req[r].completed : Recorded(req[r].inst, s)
  /\ req[r].stage = "answered" => req[r].completed \subseteq req[r].recorded

OwnersOK ==
  /\ IsFun(owner, Instances)
  /\ \A i \in Instances : Exists(i) => owner[i].def \in defs /\ owner[i].def.tenant = owner[i].tenant

RequestsOK == IsFun(req, Slots) /\ \A r \in Slots : RequestOK(r)

ServiceInv == CoreInv /\ OwnersOK /\ RequestsOK

\* A request is not disturbed by what others do.
Undisturbed ==
  /\ defs \subseteq defs'
  /\ \A i \in Instances : Exists(i) => Exists(i)' /\ owner'[i] = owner[i]
  /\ \A i \in Instances : \A s : Recorded(i, s) => Recorded(i, s)'

LEMMA RequestKept ==
  ASSUME NEW r \in Slots, RequestOK(r), Undisturbed, req'[r] = req[r] PROVE RequestOK(r)'
<1>1. ASSUME req[r].reads # 0
      PROVE  /\ req[r].inst \in Instances
             /\ Exists(req[r].inst)'
             /\ owner'[req[r].inst].tenant = req[r].tenant
             /\ \A s \in req[r].completed : Recorded(req[r].inst, s)'
  BY <1>1 DEF RequestOK, Undisturbed
<1>2. PICK i : i = req[r].inst
  OBVIOUS
<1>3. req[r].reads # 0 => Exists(i)' /\ \A s \in req[r].completed : Recorded(i, s)'
  BY <1>1, <1>2
<1> QED
  BY <1>1, <1>2, <1>3 DEF RequestOK, Undisturbed, Exists, Recorded

LEMMA RequestFields ==
  ASSUME NEW stage, NEW tenant, NEW def, NEW inst, NEW reads \in 0 .. 2, NEW completed, NEW recorded, NEW q,
         q = [stage |-> stage, tenant |-> tenant, def |-> def, inst |-> inst,
              reads |-> reads, completed |-> completed, recorded |-> recorded]
  PROVE  /\ IsRequest(q)
         /\ q.stage = stage /\ q.tenant = tenant /\ q.def = def /\ q.inst = inst
         /\ q.reads = reads /\ q.completed = completed /\ q.recorded = recorded
<1>1. /\ q.stage = stage /\ q.tenant = tenant /\ q.def = def /\ q.inst = inst
      /\ q.reads = reads /\ q.completed = completed /\ q.recorded = recorded
  OBVIOUS
<1>2. q = [stage |-> q.stage, tenant |-> q.tenant, def |-> q.def, inst |-> q.inst,
           reads |-> q.reads, completed |-> q.completed, recorded |-> q.recorded]
  BY <1>1, Zenon
<1>3. q.reads \in 0 .. 2
  BY <1>1
<1> QED
  BY <1>1, <1>2, <1>3 DEF IsRequest

\* A request that has just been let in, or an empty slot.
LEMMA FreshRequest ==
  ASSUME NEW r \in Slots, NEW stage \in {"idle", "define", "load", "read"}, NEW tenant, NEW def, NEW inst,
         stage = "read" => inst \in Instances,
         req'[r] = Request(stage, tenant, def, inst)
  PROVE  RequestOK(r)'
<1>1. /\ IsRequest(req'[r])
      /\ req'[r].stage = stage /\ req'[r].inst = inst /\ req'[r].reads = 0
  BY RequestFields DEF Request
<1> QED
  BY <1>1 DEF RequestOK

LEMMA IdleRequest == ASSUME NEW r \in Slots, req'[r] = Idle PROVE RequestOK(r)'
BY FreshRequest DEF Idle

\* One request moves on.
LEMMA OneRequest ==
  ASSUME RequestsOK, Undisturbed, NEW r \in Slots, NEW q, req' = [req EXCEPT ![r] = q],
         RequestOK(r)'
  PROVE  RequestsOK'
<1>1. IsFun(req', Slots) /\ \A x \in Slots \ {r} : req'[x] = req[x]
  BY DEF RequestsOK, IsFun
<1>2. \A x \in Slots \ {r} : RequestOK(x)'
  BY <1>1, RequestKept DEF RequestsOK
<1> QED
  BY <1>1, <1>2 DEF RequestsOK

-----------------------------------------------------------------------------
(* The handlers *)

\* What the tables look like to the handlers when the engine stands still.
LEMMA Standstill ==
  ASSUME OwnersOK, UNCHANGED <<vars, owner>>, defs \subseteq defs' PROVE Undisturbed /\ OwnersOK'
<1>1. UNCHANGED <<rows, history>>
  BY DEF vars
<1> QED
  BY <1>1 DEF Undisturbed, OwnersOK, Exists, Recorded

LEMMA AdmitOK ==
  ASSUME ServiceInv, NEW r \in Slots, AdmitDefinition(r) \/ AdmitInstance(r) \/ AdmitRead(r)
  PROVE  OwnersOK' /\ RequestsOK'
<1>1. ASSUME NEW stage \in {"define", "load", "read"}, NEW tenant, NEW def, NEW inst,
             stage = "read" => inst \in Instances,
             req' = [req EXCEPT ![r] = Request(stage, tenant, def, inst)],
             UNCHANGED <<vars, defs, owner>>
      PROVE  OwnersOK' /\ RequestsOK'
  <2>1. Undisturbed /\ OwnersOK'
    BY <1>1, Standstill DEF ServiceInv
  <2>2. req'[r] = Request(stage, tenant, def, inst)
    BY <1>1 DEF ServiceInv, RequestsOK, IsFun
  <2>3. RequestOK(r)'
    BY <1>1, <2>2, FreshRequest
  <2> QED
    BY <1>1, <2>1, <2>3, OneRequest DEF ServiceInv
<1>2. CASE AdmitDefinition(r)
  <2>1. PICK d : req' = [req EXCEPT ![r] = Request("define", d.tenant, d, NoInst)] /\ UNCHANGED <<vars, defs, owner>>
    BY <1>2 DEF AdmitDefinition, Admit
  <2> QED
    BY <1>1, <2>1
<1>3. CASE AdmitInstance(r)
  <2>1. PICK t, d : req' = [req EXCEPT ![r] = Request("load", t, d, NoInst)] /\ UNCHANGED <<vars, defs, owner>>
    BY <1>3 DEF AdmitInstance, Admit
  <2> QED
    BY <1>1, <2>1
<1>4. CASE AdmitRead(r)
  <2>1. PICK i \in Instances : \E t :
          req' = [req EXCEPT ![r] = Request("read", t, NoDefinition, i)] /\ UNCHANGED <<vars, defs, owner>>
    BY <1>4 DEF AdmitRead, Admit
  <2> QED
    BY <1>1, <2>1
<1> QED
  BY <1>2, <1>3, <1>4

\* The request is answered, or leaves no trace.
LEMMA ClosedOK ==
  ASSUME RequestsOK, Undisturbed, NEW r \in Slots, req' = [req EXCEPT ![r] = Idle] PROVE RequestsOK'
<1>1. req'[r] = Idle
  BY DEF RequestsOK, IsFun
<1> QED
  BY <1>1, IdleRequest, OneRequest

LEMMA DefineOK ==
  ASSUME ServiceInv, NEW r \in Slots, CreateDefinition(r) \/ InsertRefused(r) PROVE OwnersOK' /\ RequestsOK'
<1>1. Undisturbed /\ OwnersOK'
  BY Standstill DEF ServiceInv, CreateDefinition, InsertRefused
<1> QED
  BY <1>1, ClosedOK DEF ServiceInv, CreateDefinition, InsertRefused

LEMMA LoadOK ==
  ASSUME ServiceInv, NEW r \in Slots, LoadDefinition(r) PROVE OwnersOK' /\ RequestsOK'
<1>1. Undisturbed /\ OwnersOK'
  BY Standstill DEF ServiceInv, LoadDefinition
<1>2. CASE GetDefinitionForTenant(req[r].tenant, req[r].def)
  <2>1. RequestOK(r) /\ IsRequest(req[r]) /\ req[r].stage = "load" /\ req[r].reads = 0
    BY DEF ServiceInv, RequestsOK, RequestOK, LoadDefinition
  <2>2. req' = [req EXCEPT ![r] = [req[r] EXCEPT !.stage = "insert"]]
    BY <1>2 DEF LoadDefinition
  <2>3. req'[r] = [stage |-> "insert", tenant |-> req[r].tenant, def |-> req[r].def, inst |-> req[r].inst,
                   reads |-> 0, completed |-> req[r].completed, recorded |-> req[r].recorded]
    BY <2>1, <2>2 DEF ServiceInv, RequestsOK, IsFun, IsRequest
  <2>4. /\ IsRequest(req'[r]) /\ req'[r].stage = "insert" /\ req'[r].reads = 0
        /\ req'[r].tenant = req[r].tenant /\ req'[r].def = req[r].def
    BY <2>3, RequestFields
  <2>5. req'[r].def \in defs' /\ req'[r].def.tenant = req'[r].tenant
    BY <1>2, <2>4 DEF GetDefinitionForTenant, LoadDefinition
  <2>6. RequestOK(r)'
    BY <2>4, <2>5 DEF RequestOK
  <2> QED
    BY <1>1, <2>2, <2>6, OneRequest DEF ServiceInv
<1>3. CASE ~ GetDefinitionForTenant(req[r].tenant, req[r].def)
  <2>1. req' = [req EXCEPT ![r] = Idle]
    BY <1>3 DEF LoadDefinition
  <2> QED
    BY <1>1, <2>1, ClosedOK DEF ServiceInv
<1> QED
  BY <1>2, <1>3

LEMMA InsertOK ==
  ASSUME ServiceInv, NEW r \in Slots, InsertInstance(r) PROVE OwnersOK' /\ RequestsOK'
<1>1. PICK i \in Instances :
        /\ ApiCreate(i)
        /\ owner' = [owner EXCEPT ![i] = [tenant |-> req[r].tenant, def |-> req[r].def]]
        /\ req' = [req EXCEPT ![r].stage = "enqueue", ![r].inst = i]
  BY DEF InsertInstance
<1>2. ~ Exists(i) /\ Exists(i)' /\ \A j \in Instances \ {i} : Exists(j)' <=> Exists(j)
  BY <1>1, CreatedExists DEF ServiceInv
<1>3. /\ IsFun(owner', Instances)
      /\ owner'[i] = [tenant |-> req[r].tenant, def |-> req[r].def]
      /\ \A j \in Instances \ {i} : owner'[j] = owner[j]
  BY <1>1 DEF ServiceInv, OwnersOK, IsFun
<1>4. /\ IsRequest(req[r]) /\ req[r].reads = 0
      /\ req[r].def \in defs /\ req[r].def.tenant = req[r].tenant
  BY DEF ServiceInv, RequestsOK, RequestOK, InsertInstance
<1>5. UNCHANGED <<defs, history>>
  BY <1>1 DEF InsertInstance, ApiCreate
<1>6. OwnersOK'
  BY <1>2, <1>3, <1>4, <1>5 DEF ServiceInv, OwnersOK
<1>7. Undisturbed
  BY <1>2, <1>3, <1>5 DEF Undisturbed, Recorded
<1>8. req'[r] = [stage |-> "enqueue", tenant |-> req[r].tenant, def |-> req[r].def, inst |-> i,
                 reads |-> 0, completed |-> req[r].completed, recorded |-> req[r].recorded]
  BY <1>1, <1>4 DEF ServiceInv, RequestsOK, IsFun, IsRequest
<1>9. IsRequest(req'[r]) /\ req'[r].stage = "enqueue" /\ req'[r].inst = i /\ req'[r].reads = 0
  BY <1>8, RequestFields
<1>10. RequestOK(r)'
  BY <1>9 DEF RequestOK
<1>11. \E q : req' = [req EXCEPT ![r] = q]
  BY <1>1
<1> QED
  BY <1>6, <1>7, <1>10, <1>11, OneRequest DEF ServiceInv

\* The steps of the engine in which no instance is inserted.
LEMMA EngineUndisturbed ==
  ASSUME ServiceInv, EngineStep \/ Stop, UNCHANGED <<defs, owner>>
  PROVE  Undisturbed /\ OwnersOK'
<1>1. \A i \in Instances : Exists(i)' <=> Exists(i)
  BY SameInstances DEF ServiceInv
<1>2. \A i \in Instances : \A s : Recorded(i, s) => Recorded(i, s)'
  BY RecordsGrow DEF ServiceInv
<1> QED
  BY <1>1, <1>2 DEF ServiceInv, Undisturbed, OwnersOK

\* The row of an instance shows completed steps that the history has.
LEMMA CompletedRecorded ==
  ASSUME CoreInv, NEW i \in Instances, NEW s \in ToSet(rows[i].inst.completed) PROVE Recorded(i, s)
<1>1. rows[i].inst.completed \in Seq(StepIds)
  BY DEF CoreInv, AInv, ContentOK, IsContent
<1>2. PICK n \in 1 .. Len(rows[i].inst.completed) : rows[i].inst.completed[n] = s
  BY <1>1 DEF ToSet
<1>3. s \in StepIds
  BY <1>1, <1>2
<1>4. HasCompleted(rows[i].inst, s)
  BY <1>1, <1>2 DEF HasCompleted, Contains
<1> QED
  BY <1>3, <1>4 DEF CoreInv, HistoryOK

LEMMA ReadOK ==
  ASSUME ServiceInv, NEW r \in Slots, ReadInstance(r) PROVE OwnersOK' /\ RequestsOK'
<1>1. Undisturbed /\ OwnersOK'
  BY Standstill DEF ServiceInv, ReadInstance
<1>2. PICK q : q = req[r]
  OBVIOUS
<1>3. /\ IsRequest(q) /\ q.stage = "read" /\ q.inst \in Instances /\ q.reads \in {0, 1}
      /\ q.reads # 0 => \A s \in q.completed : Recorded(q.inst, s)
  BY <1>2 DEF ServiceInv, RequestsOK, RequestOK, ReadInstance
<1>4. UNCHANGED <<rows, history, owner>>
  BY DEF ReadInstance, vars
<1>5. CASE ~ GetInstanceForTenant(q.tenant, q.inst)
  <2>1. req' = [req EXCEPT ![r] = Idle]
    BY <1>2, <1>5 DEF ReadInstance
  <2> QED
    BY <1>1, <2>1, ClosedOK DEF ServiceInv
<1>6. CASE GetInstanceForTenant(q.tenant, q.inst) /\ q.reads = 0
  <2>1. req'[r] = [stage |-> "read", tenant |-> q.tenant, def |-> q.def, inst |-> q.inst, reads |-> 1,
                   completed |-> ToSet(rows[q.inst].inst.completed), recorded |-> q.recorded]
    <3>0. /\ q.reads + 1 = 1 /\ q.reads + 1 # Len(Reads)
          /\ Reads[q.reads + 1] = "row" /\ Reads[q.reads + 1] # "history"
      BY <1>6 DEF Reads
    <3>1. req'[r] = [q EXCEPT !.reads = 1, !.stage = "read",
                              !.completed = ToSet(rows[q.inst].inst.completed), !.recorded = q.recorded]
      <4>1. req' = [req EXCEPT ![r] =
                      [q EXCEPT !.reads = q.reads + 1,
                                !.stage = IF q.reads + 1 = Len(Reads) THEN "answered" ELSE "read",
                                !.completed = IF Reads[q.reads + 1] = "row" THEN ToSet(rows[q.inst].inst.completed)
                                              ELSE q.completed,
                                !.recorded = IF Reads[q.reads + 1] = "history" THEN RecordedSteps(q.inst)
                                             ELSE q.recorded]]
        BY <1>2, <1>6 DEF ReadInstance
      <4>2. req' = [req EXCEPT ![r] = [q EXCEPT !.reads = 1, !.stage = "read",
                                         !.completed = ToSet(rows[q.inst].inst.completed), !.recorded = q.recorded]]
        BY <3>0, <4>1
      <4> QED
        BY <4>2 DEF ServiceInv, RequestsOK, IsFun
    <3> QED
      BY <1>3, <3>1 DEF IsRequest
  <2>2. /\ IsRequest(req'[r]) /\ req'[r].stage = "read" /\ req'[r].tenant = q.tenant
        /\ req'[r].inst = q.inst /\ req'[r].reads = 1
        /\ req'[r].completed = ToSet(rows[q.inst].inst.completed)
    BY <2>1, RequestFields
  <2>3. \A s \in req'[r].completed : Recorded(q.inst, s)
    BY <1>3, <2>2, CompletedRecorded DEF ServiceInv
  <2>4. RequestOK(r)'
    BY <1>3, <1>4, <1>6, <2>2, <2>3 DEF RequestOK, GetInstanceForTenant, Exists, Recorded
  <2>5. \E p : req' = [req EXCEPT ![r] = p]
    BY DEF ReadInstance
  <2> QED
    BY <1>1, <2>4, <2>5, OneRequest DEF ServiceInv
<1>7. CASE GetInstanceForTenant(q.tenant, q.inst) /\ q.reads = 1
  <2>1. req'[r] = [stage |-> "answered", tenant |-> q.tenant, def |-> q.def, inst |-> q.inst, reads |-> 2,
                   completed |-> q.completed, recorded |-> RecordedSteps(q.inst)]
    <3>0. q.reads + 1 = 2 /\ Len(Reads) = 2 /\ Reads[q.reads + 1] = "history"
      BY <1>7 DEF Reads
    <3>1. req'[r] = [q EXCEPT !.reads = 2, !.stage = "answered",
                              !.completed = q.completed, !.recorded = RecordedSteps(q.inst)]
      <4>1. req' = [req EXCEPT ![r] =
                      [q EXCEPT !.reads = q.reads + 1,
                                !.stage = IF q.reads + 1 = Len(Reads) THEN "answered" ELSE "read",
                                !.completed = IF Reads[q.reads + 1] = "row" THEN ToSet(rows[q.inst].inst.completed)
                                              ELSE q.completed,
                                !.recorded = IF Reads[q.reads + 1] = "history" THEN RecordedSteps(q.inst)
                                             ELSE q.recorded]]
        BY <1>2, <1>7 DEF ReadInstance
      <4>2. req' = [req EXCEPT ![r] = [q EXCEPT !.reads = 2, !.stage = "answered",
                                         !.completed = q.completed, !.recorded = RecordedSteps(q.inst)]]
        BY <3>0, <4>1
      <4> QED
        BY <4>2 DEF ServiceInv, RequestsOK, IsFun
    <3> QED
      BY <1>3, <3>1 DEF IsRequest
  <2>2. /\ IsRequest(req'[r]) /\ req'[r].stage = "answered" /\ req'[r].tenant = q.tenant
        /\ req'[r].inst = q.inst /\ req'[r].reads = 2
        /\ req'[r].completed = q.completed /\ req'[r].recorded = RecordedSteps(q.inst)
    BY <2>1, RequestFields
  <2>3. \A s \in q.completed : Recorded(q.inst, s) /\ s \in RecordedSteps(q.inst)
    BY <1>3, <1>7 DEF Recorded, RecordedSteps
  <2>4. RequestOK(r)'
    BY <1>3, <1>4, <1>7, <2>2, <2>3 DEF RequestOK, GetInstanceForTenant, Exists, Recorded
  <2>5. \E p : req' = [req EXCEPT ![r] = p]
    BY DEF ReadInstance
  <2> QED
    BY <1>1, <2>4, <2>5, OneRequest DEF ServiceInv
<1> QED
  BY <1>3, <1>5, <1>6, <1>7

-----------------------------------------------------------------------------
(* Every step *)

\* Nothing happens to the requests.
LEMMA OthersOK ==
  ASSUME ServiceInv, EngineStep \/ Stop, UNCHANGED <<defs, owner, req>> PROVE OwnersOK' /\ RequestsOK'
<1>1. Undisturbed /\ OwnersOK'
  BY EngineUndisturbed
<1>2. \A r \in Slots : RequestOK(r)'
  BY <1>1, RequestKept DEF ServiceInv, RequestsOK
<1> QED
  BY <1>1, <1>2 DEF ServiceInv, RequestsOK

LEMMA EnqueueOK ==
  ASSUME ServiceInv, NEW r \in Slots, EnqueueInstance(r)
  PROVE  (EngineStep \/ Stop) /\ OwnersOK' /\ RequestsOK'
<1>1. req[r].inst \in Instances
  BY DEF ServiceInv, RequestsOK, RequestOK, EnqueueInstance
<1>2. EngineStep \/ Stop
  <2>1. CASE ApiEnqueue(req[r].inst)
    BY <1>1, <2>1 DEF EngineStep, Environment
  <2>2. CASE ~ ApiEnqueue(req[r].inst)
    BY <2>2 DEF EnqueueInstance, Stop, Refused, dbVars, timerVars
  <2> QED
    BY <2>1, <2>2
<1>3. Undisturbed /\ OwnersOK'
  BY <1>2, EngineUndisturbed DEF EnqueueInstance
<1> QED
  BY <1>2, <1>3, ClosedOK DEF ServiceInv, EnqueueInstance

LEMMA ExitOK == ASSUME ServiceInv, Exit PROVE OwnersOK' /\ RequestsOK'
<1>1. Undisturbed /\ OwnersOK'
  BY EngineUndisturbed DEF Exit, Stop
<1>2. IsFun(req', Slots) /\ \A r \in Slots : req'[r] = req[r] \/ req'[r] = Idle
  BY DEF Exit, IsFun
<1>3. \A r \in Slots : RequestOK(r)'
  BY <1>1, <1>2, RequestKept, IdleRequest DEF ServiceInv, RequestsOK
<1> QED
  BY <1>1, <1>2, <1>3 DEF RequestsOK

LEMMA StepService == ServiceInv /\ [ServiceNext]_serviceVars => ServiceInv'
<1> SUFFICES ASSUME ServiceInv, [ServiceNext]_serviceVars PROVE ServiceInv'
  OBVIOUS
<1>0. CoreInv /\ (UNCHANGED vars => EngineStep)
  BY DEF ServiceInv, EngineStep, Environment
<1>1. ASSUME [Next]_vars \/ EngineStep \/ Stop, OwnersOK', RequestsOK' PROVE ServiceInv'
  BY <1>0, <1>1, EngineIsNext, StepCore DEF ServiceInv
<1>2. ASSUME NEW r \in Slots, AdmitDefinition(r) \/ AdmitInstance(r) \/ AdmitRead(r) PROVE ServiceInv'
  <2>1. UNCHANGED vars
    BY <1>2 DEF AdmitDefinition, AdmitInstance, AdmitRead, Admit
  <2> QED
    BY <1>1, <1>2, <2>1, AdmitOK
<1>3. ASSUME NEW r \in Slots, CreateDefinition(r) \/ InsertRefused(r) PROVE ServiceInv'
  BY <1>1, <1>3, DefineOK DEF CreateDefinition, InsertRefused
<1>4. ASSUME NEW r \in Slots, LoadDefinition(r) PROVE ServiceInv'
  BY <1>1, <1>4, LoadOK DEF LoadDefinition
<1>5. ASSUME NEW r \in Slots, InsertInstance(r) PROVE ServiceInv'
  <2>1. [Next]_vars
    BY <1>5 DEF InsertInstance, Next
  <2> QED
    BY <1>1, <1>5, <2>1, InsertOK
<1>6. ASSUME NEW r \in Slots, EnqueueInstance(r) PROVE ServiceInv'
  BY <1>1, <1>6, EnqueueOK
<1>7. ASSUME NEW r \in Slots, ReadInstance(r) PROVE ServiceInv'
  BY <1>1, <1>7, ReadOK DEF ReadInstance
<1>8. ASSUME EngineStep \/ Stop, UNCHANGED <<defs, owner, req>> PROVE ServiceInv'
  BY <1>1, <1>8, OthersOK
<1>9. ASSUME NEW w \in Workers, Work(w) \/ Receive(w) PROVE ServiceInv'
  BY <1>8, <1>9 DEF Work, Receive, EngineStep, apiVars
<1>10. ASSUME NEW w \in Workers, Unwind(w) PROVE ServiceInv'
  BY <1>8, <1>10 DEF Unwind, Stop, apiVars
<1>11. ASSUME NEW a \in Agents, Tick(a) PROVE ServiceInv'
  BY <1>8, <1>11 DEF Tick, EngineStep, Environment, apiVars
<1>12. ASSUME NEW i \in Instances, Time(i) PROVE ServiceInv'
  BY <1>8, <1>12 DEF Time, EngineStep, Environment, apiVars
<1>13. CASE Recover
  BY <1>8, <1>13 DEF Recover, EngineStep, Environment, apiVars
<1>14. CASE Signal
  BY <1>8, <1>14 DEF Signal, Stop
<1>15. CASE Exit
  BY <1>1, <1>15, ExitOK DEF Stop
<1>16. CASE Start \/ Rest \/ UNCHANGED serviceVars
  <2>1. UNCHANGED <<vars, defs, owner, req>>
    BY <1>16 DEF Start, Rest, Done, apiVars, serviceVars, vars
  <2> QED
    BY <1>0, <1>8, <2>1
<1> QED
  BY <1>2, <1>3, <1>4, <1>5, <1>6, <1>7, <1>9, <1>10, <1>11, <1>12, <1>13, <1>14, <1>15, <1>16
     DEF ServiceNext, Handle

LEMMA InitService == ServiceInit => ServiceInv
<1> SUFFICES ASSUME ServiceInit PROVE ServiceInv
  OBVIOUS
<1>1. Init
  BY DEF ServiceInit
<1>2. CoreInv
  BY <1>1, InitAInv, InitRun, InitHistory DEF CoreInv
<1>3. OwnersOK
  <2>1. \A i \in Instances : ~ Exists(i)
    BY <1>1 DEF Init, DBInit, Exists
  <2>2. IsFun(owner, Instances)
    BY DEF ServiceInit, IsFun
  <2> QED
    BY <2>1, <2>2 DEF OwnersOK
<1>4. ASSUME NEW r \in Slots PROVE RequestOK(r)
  <2>1. req[r] = Request("idle", "", NoDefinition, NoInst)
    BY DEF ServiceInit, Idle
  <2>2. PICK stage, tenant : stage = "idle" /\ req[r] = Request(stage, tenant, NoDefinition, NoInst)
    BY <2>1
  <2>3. IsRequest(req[r]) /\ req[r].stage = stage /\ req[r].reads = 0
    BY <2>2, RequestFields DEF Request
  <2> QED
    BY <2>2, <2>3 DEF RequestOK
<1>5. IsFun(req, Slots)
  BY DEF ServiceInit, IsFun
<1> QED
  BY <1>2, <1>3, <1>4, <1>5 DEF ServiceInv, RequestsOK

LEMMA ServiceIsInvariant == ServiceSpec => []ServiceInv
BY InitService, StepService, PTL DEF ServiceSpec

\* For every set of keys, tenants and definitions and any number of requests, workers and
\* restarts: an instance runs a stored definition of its own tenant, and what getInstance
\* has read is answered to the tenant it belongs to.
THEOREM TenantsStayApart == ServiceSpec => []TenantIsolation
<1>1. ServiceInv => TenantIsolation
  <2> SUFFICES ASSUME ServiceInv PROVE TenantIsolation
    OBVIOUS
  <2>1. \A r \in Slots : req[r].reads \in 0 .. 2 /\ (req[r].reads # 0 => owner[req[r].inst].tenant = req[r].tenant)
    BY DEF ServiceInv, RequestsOK, RequestOK, IsRequest
  <2> QED
    BY <2>1 DEF ServiceInv, OwnersOK, TenantIsolation
<1> QED
  BY <1>1, ServiceIsInvariant, PTL

\* For any number of requests, workers and restarts: an answer of getInstance shows no
\* completed step without its result in the history.
THEOREM AnswersAreConsistent == ServiceSpec => []HistoryCoversState
<1>1. ServiceInv => HistoryCoversState
  BY DEF ServiceInv, RequestsOK, RequestOK, HistoryCoversState
<1> QED
  BY <1>1, ServiceIsInvariant, PTL

\* However often the process is signalled, cut off in the middle of anything and started
\* again: copies stay current, attempts exclusive, and the history ahead of the rows.
THEOREM RestartsKeepTheInvariants ==
  ServiceSpec => [](SnapshotCurrent /\ AttemptExclusive /\ CompletedHasHistory)
<1>1. ServiceInv => SnapshotCurrent /\ AttemptExclusive /\ CompletedHasHistory
  BY DEF ServiceInv, CoreInv, AInv, IInv, HistoryOK, CompletedHasHistory, Recorded
<1> QED
  BY <1>1, ServiceIsInvariant, PTL

-----------------------------------------------------------------------------
(* The service implements Execution *)

\* The stream is full: the instance stays in the table, nobody is told of it.
Unsent ==
  /\ api' \subseteq api
  /\ UNCHANGED <<dbVars, past, timerVars, stream, batch, pc, job, recov, keySeq, faults, effects>>

Halt == Unsent \/ Signal \/ (\E w \in Workers : Unwind(w)) \/ Exit

LEMMA ServiceKinds ==
  ASSUME ServiceInv, [ServiceNext]_serviceVars PROVE [Next]_vars \/ Halt
<1>1. ASSUME NEW r \in Slots, AdmitDefinition(r) \/ AdmitInstance(r) \/ AdmitRead(r) PROVE [Next]_vars
  BY <1>1 DEF AdmitDefinition, AdmitInstance, AdmitRead, Admit
<1>2. ASSUME NEW r \in Slots,
             CreateDefinition(r) \/ InsertRefused(r) \/ LoadDefinition(r) \/ ReadInstance(r)
      PROVE  [Next]_vars
  BY <1>2 DEF CreateDefinition, InsertRefused, LoadDefinition, ReadInstance
<1>3. ASSUME NEW r \in Slots, InsertInstance(r) PROVE [Next]_vars
  BY <1>3 DEF InsertInstance, Next
<1>4. ASSUME NEW r \in Slots, EnqueueInstance(r) PROVE [Next]_vars \/ Unsent
  <2>1. req[r].inst \in Instances
    BY <1>4 DEF ServiceInv, RequestsOK, RequestOK, EnqueueInstance
  <2>2. CASE ApiEnqueue(req[r].inst)
    BY <2>1, <2>2 DEF Next
  <2>3. CASE ~ ApiEnqueue(req[r].inst)
    BY <1>4, <2>3 DEF EnqueueInstance, Unsent
  <2> QED
    BY <2>2, <2>3
<1>5. ASSUME NEW w \in Workers, Work(w) \/ Receive(w) PROVE [Next]_vars
  BY <1>5 DEF Work, Receive, Next
<1>6. ASSUME NEW a \in Agents, Tick(a) PROVE [Next]_vars
  BY <1>6 DEF Tick, Next
<1>7. ASSUME NEW i \in Instances, Time(i) PROVE [Next]_vars
  BY <1>7 DEF Time, Next
<1>8. CASE Recover
  BY <1>8 DEF Recover, Next
<1>9. CASE Start \/ Rest \/ UNCHANGED serviceVars
  BY <1>9 DEF Start, Rest, Done, serviceVars, vars
<1> QED
  BY <1>1, <1>2, <1>3, <1>4, <1>5, <1>6, <1>7, <1>8, <1>9 DEF ServiceNext, Handle, Halt

LEMMA HaltCut == ASSUME IInv, Halt PROVE Cut /\ UNCHANGED <<keySeq, faults, timers, rkey>>
<1>1. Halt => Stop
  BY DEF Halt, Stop, Unsent, Refused, dbVars, timerVars
<1>2. Cut
  BY <1>1, StopCut
<1>3. UNCHANGED <<keySeq, faults, timers, rkey>>
  BY DEF Halt, Unsent, Signal, Unwind, Exit, dbVars, timerVars
<1> QED
  BY <1>2, <1>3

LEMMA ServiceRefines ==
  ASSUME ServiceInv, [ServiceNext]_serviceVars PROVE [Exec!ExecNext]_(Exec!execVars)
<1>1. CASE [Next]_vars
  BY <1>1, StepRefines DEF ServiceInv, CoreInv
<1>2. CASE Halt
  <2>1. SameRows /\ UNCHANGED <<past, keySeq>>
    BY <1>2, HaltCut DEF ServiceInv, CoreInv, AInv, Cut
  <2>2. UNCHANGED [i \in Instances |-> rows[i].inst]
    BY <2>1 DEF SameRows
  <2> QED
    BY <2>1, <2>2 DEF Exec!execVars
<1> QED
  BY <1>1, <1>2, ServiceKinds

\* However often the process is signalled, cut off in the middle of anything and started
\* again, with any number of requests on the way: the stored content of the instances behaves
\* as Execution says.
THEOREM ServiceImplementsExecution == ServiceSpec => ImplementsExecution
<1>1. ServiceInv /\ [ServiceNext]_serviceVars => [Exec!ExecNext]_(Exec!execVars)
  BY ServiceRefines
<1>2. ServiceInit => Exec!ExecInit
  BY InitRefines DEF ServiceInit
<1>3. ServiceSpec => Exec!ExecInit /\ [][Exec!ExecNext]_(Exec!execVars)
  BY <1>1, <1>2, ServiceIsInvariant, PTL DEF ServiceSpec
<1> QED
  BY <1>3 DEF ImplementsExecution, Exec!ExecSpec

LEMMA ServiceStoredTyped == ServiceSpec => []StoredTyped
<1>1. Rows!ExecSpec => []Rows!ExecTypeOK
  BY RowsWellFormed, BoundsAssumption, Rows!ReferencesAreSteps
<1>2. ServiceSpec => Rows!ExecSpec
  BY ServiceImplementsExecution, SameExecSpec, PTL DEF ImplementsExecution
<1> QED
  BY <1>1, <1>2, StoredIsTyped, PTL

-----------------------------------------------------------------------------
(* The types *)

\* Workers that are cut off forget their job.
LEMMA HaltJobs ==
  ASSUME ServiceInv, DataOK, Halt PROVE \A w \in Workers : JobTyped(w)'
<1>0. IsFun(pc, Workers) /\ IsFun(job, Workers)
  BY DEF ServiceInv, CoreInv, AInv, IInv, Shape, JobsOK
<1>1. CASE Unsent \/ Signal
  BY <1>1 DEF Unsent, Signal, DataOK, JobTyped, Cur
<1>2. ASSUME NEW w \in Workers, Unwind(w) PROVE \A x \in Workers : JobTyped(x)'
  <2>1. pc' = [pc EXCEPT ![w] = "idle"] /\ job' = [job EXCEPT ![w] = NoJob]
    BY <1>2 DEF Unwind, NextMessage
  <2>2. JobTyped(w)'
    BY <1>0, <2>1, IdleJobTyped
  <2>3. \A x \in Workers \ {w} : pc'[x] = pc[x] /\ job'[x] = job[x]
    BY <1>0, <2>1 DEF IsFun
  <2>4. \A x \in Workers \ {w} : JobTyped(x)'
    BY <2>3 DEF DataOK, JobTyped, Cur
  <2> QED
    BY <2>2, <2>4
<1>3. CASE Exit
  <2>1. Absent \in Content /\ Fails \in Outcome
    BY NewIsContent DEF Absent, Fails, Outcome, Refs
  <2> QED
    BY <1>3, <2>1 DEF Exit, NoJob, JobTyped
<1> QED
  BY <1>1, <1>2, <1>3 DEF Halt

LEMMA HaltLocks ==
  ASSUME ServiceInv, DataOK, Halt PROVE LocksOK'
<1>0. RowsOK /\ LocksOK
  BY DEF ServiceInv, CoreInv, AInv, IInv, Shape, DataOK
<1>1. CASE Unsent \/ Signal
  BY <1>0, <1>1 DEF Unsent, Signal, LocksOK, dbVars
<1>2. ASSUME NEW w \in Workers, Unwind(w) PROVE LocksOK'
  <2>1. Id(w) \in Instances
    BY <1>2 DEF Unwind, Holding, ServiceInv, CoreInv, AInv, IInv, Shape, JobsOK, Message, Id
  <2> QED
    BY <1>0, <1>2, <2>1, LeaseLocks DEF Unwind
<1>3. CASE Exit
  <2> SUFFICES ASSUME NEW i \in Instances PROVE Lock(rows'[i])
    BY DEF LocksOK
  <2>1. rows'[i] = IF rows[i].lockedBy \in Workers THEN [rows[i] EXCEPT !.lockedBy = Orphan] ELSE rows[i]
    BY <1>3 DEF Exit
  <2>2. IsRow(rows[i]) /\ Lock(rows[i])
    BY <1>0 DEF RowsOK, LocksOK
  <2> QED
    BY <2>1, <2>2 DEF IsRow, Lock
<1> QED
  BY <1>1, <1>2, <1>3 DEF Halt

LEMMA HaltControl ==
  ASSUME ServiceInv, ControlOK, Halt PROVE ControlOK'
<1>1. faults' = faults /\ rkey' = rkey
  BY HaltCut DEF ServiceInv, CoreInv, AInv
<1>2. pc' \in [Workers -> PcValues]
  BY DEF Halt, Unsent, Signal, Unwind, NextMessage, Exit, ControlOK, PcValues
<1>3. api' \subseteq Instances /\ notif' \subseteq Agents \X Instances
  BY DEF Halt, Unsent, Signal, Unwind, Exit, ControlOK, timerVars
<1> QED
  BY <1>1, <1>2, <1>3 DEF ControlOK

LEMMA ServiceData ==
  ASSUME ServiceInv, StoredTyped, StoredTyped', DataOK, [ServiceNext]_serviceVars PROVE DataOK'
<1>1. CASE [Next]_vars
  BY <1>1, StepData DEF ServiceInv, CoreInv
<1>2. CASE Halt
  <2>1. UNCHANGED <<timers, history, effects>>
    BY <1>2, HaltCut DEF ServiceInv, CoreInv, AInv, Cut
  <2>2. ControlOK' /\ LocksOK' /\ \A w \in Workers : JobTyped(w)'
    BY <1>2, HaltControl, HaltLocks, HaltJobs DEF DataOK
  <2> QED
    BY <2>1, <2>2 DEF DataOK, TimersOK
<1> QED
  BY <1>1, <1>2, ServiceKinds

RequestStages == {"idle", "define", "load", "insert", "enqueue", "read", "answered"}

RequestTyped(q) ==
  /\ q.stage \in RequestStages
  /\ q.tenant \in Tenants \cup {""}
  /\ q.def \in Definition \cup {NoDefinition}
  /\ q.stage \in {"define", "load", "insert"} => q.def \in Definition /\ q.tenant \in Tenants
  /\ q.inst \in Instances \cup {NoInst}
  /\ q.completed \subseteq StepIds
  /\ q.recorded \subseteq StepIds

\* The tables and the requests have their types; a request that is about a definition names one.
TablesOK ==
  /\ defs \subseteq Definition
  /\ \A i \in Instances : /\ owner[i].tenant \in Tenants \cup {""}
                          /\ owner[i].def \in Definition \cup {NoDefinition}
                          /\ owner[i] = [tenant |-> owner[i].tenant, def |-> owner[i].def]
  /\ \A r \in Slots : RequestTyped(req[r])
  /\ proc \in {"serving", "draining", "down"}
  /\ restarts \in 0 .. MaxRestarts
  /\ proc # "serving" => restarts < MaxRestarts

LEMMA IdleTyped == RequestTyped(Idle)
BY DEF Idle, Request, RequestTyped, RequestStages

LEMMA AdmitTyped ==
  ASSUME NEW stage \in {"define", "load"}, NEW t \in Tenants, NEW d \in Definition
  PROVE  RequestTyped(Request(stage, t, d, NoInst))
BY DEF Request, RequestTyped, RequestStages

LEMMA AdmitReadTyped ==
  ASSUME NEW t \in Tenants, NEW i \in Instances
  PROVE  RequestTyped(Request("read", t, NoDefinition, i))
BY DEF Request, RequestTyped, RequestStages

\* A request that moves on to another stage, perhaps with an instance.
LEMMA MovedTyped ==
  ASSUME NEW q, IsRequest(q), RequestTyped(q), NEW stage \in RequestStages, NEW inst \in Instances \cup {NoInst},
         stage \in {"define", "load", "insert"} => q.stage \in {"define", "load", "insert"},
         NEW reads, NEW completed \in SUBSET StepIds, NEW recorded \in SUBSET StepIds, NEW d,
         d = [stage |-> stage, tenant |-> q.tenant, def |-> q.def, inst |-> inst,
              reads |-> reads, completed |-> completed, recorded |-> recorded]
  PROVE  RequestTyped(d)
<1>1. /\ d.stage = stage /\ d.tenant = q.tenant /\ d.def = q.def /\ d.inst = inst
      /\ d.completed = completed /\ d.recorded = recorded
  OBVIOUS
<1> QED
  BY <1>1 DEF RequestTyped

LEMMA OneTyped ==
  ASSUME IsFun(req, Slots), \A x \in Slots : RequestTyped(req[x]), NEW r \in Slots, NEW q,
         req' = [req EXCEPT ![r] = q], RequestTyped(q)
  PROVE  \A x \in Slots : RequestTyped(req'[x])
<1>1. req'[r] = q /\ \A x \in Slots \ {r} : req'[x] = req[x]
  BY DEF IsFun
<1>2. \A x \in Slots \ {r} : RequestTyped(req'[x])
  BY <1>1
<1>3. RequestTyped(req'[r])
  BY <1>1
<1> QED
  BY <1>2, <1>3

\* The completed steps that getInstance reads, in the row and in the history.
LEMMA ReadTyped ==
  ASSUME StoredTyped, history \subseteq HistoryRow, NEW i \in Instances
  PROVE  ToSet(rows[i].inst.completed) \subseteq StepIds /\ RecordedSteps(i) \subseteq StepIds
<1>1. PICK completed \in Seq(StepIds) : completed = rows[i].inst.completed
  BY DEF StoredTyped, Content
<1>2. ToSet(completed) \subseteq StepIds
  BY DEF ToSet
<1>3. RecordedSteps(i) \subseteq StepIds
  BY DEF RecordedSteps, HistoryRow
<1> QED
  BY <1>1, <1>2, <1>3

LEMMA ReadInstanceTyped ==
  ASSUME ServiceInv, StoredTyped, DataOK, TablesOK, NEW r \in Slots, ReadInstance(r)
  PROVE  \A x \in Slots : RequestTyped(req'[x])
<1>0. IsFun(req, Slots) /\ \A x \in Slots : RequestTyped(req[x])
  BY DEF ServiceInv, RequestsOK, TablesOK
<1>1. PICK q : q = req[r]
  OBVIOUS
<1>2. IsRequest(q) /\ RequestTyped(q) /\ q.inst \in Instances
  BY <1>0, <1>1 DEF ServiceInv, RequestsOK, RequestOK, ReadInstance
<1>3. CASE ~ GetInstanceForTenant(q.tenant, q.inst)
  <2>1. req' = [req EXCEPT ![r] = Idle]
    BY <1>1, <1>3 DEF ReadInstance
  <2> QED
    BY <1>0, <2>1, IdleTyped, OneTyped
<1>4. CASE GetInstanceForTenant(q.tenant, q.inst)
  <2>1. PICK stage \in {"answered", "read"}, completed \in {ToSet(rows[q.inst].inst.completed), q.completed},
             recorded \in {RecordedSteps(q.inst), q.recorded} :
          req' = [req EXCEPT ![r] = [q EXCEPT !.reads = q.reads + 1, !.stage = stage,
                                              !.completed = completed, !.recorded = recorded]]
    BY <1>1, <1>4 DEF ReadInstance
  <2>2. PICK d : d = [q EXCEPT !.reads = q.reads + 1, !.stage = stage,
                               !.completed = completed, !.recorded = recorded]
    OBVIOUS
  <2>3. d = [stage |-> stage, tenant |-> q.tenant, def |-> q.def, inst |-> q.inst,
             reads |-> q.reads + 1, completed |-> completed, recorded |-> recorded]
    BY <1>2, <2>2 DEF IsRequest
  <2>4. completed \in SUBSET StepIds /\ recorded \in SUBSET StepIds
    BY <1>2, ReadTyped DEF RequestTyped, DataOK
  <2>5. RequestTyped(d)
    BY <1>2, <2>3, <2>4, MovedTyped DEF RequestStages
  <2> QED
    BY <1>0, <2>1, <2>2, <2>5, OneTyped
<1> QED
  BY <1>3, <1>4

LEMMA LoadTyped ==
  ASSUME ServiceInv, TablesOK, NEW r \in Slots, LoadDefinition(r)
  PROVE  \A x \in Slots : RequestTyped(req'[x])
<1>0. IsFun(req, Slots) /\ \A x \in Slots : RequestTyped(req[x])
  BY DEF ServiceInv, RequestsOK, TablesOK
<1>1. PICK q : q = req[r]
  OBVIOUS
<1>2. IsRequest(q) /\ RequestTyped(q) /\ q.stage = "load"
  BY <1>0, <1>1 DEF ServiceInv, RequestsOK, RequestOK, LoadDefinition
<1>3. CASE req' = [req EXCEPT ![r] = Idle]
  BY <1>0, <1>3, IdleTyped, OneTyped
<1>4. CASE req' = [req EXCEPT ![r] = [q EXCEPT !.stage = "insert"]]
  <2>1. PICK d : d = [q EXCEPT !.stage = "insert"]
    OBVIOUS
  <2>2. d = [stage |-> "insert", tenant |-> q.tenant, def |-> q.def, inst |-> q.inst,
             reads |-> q.reads, completed |-> q.completed, recorded |-> q.recorded]
    BY <1>2, <2>1 DEF IsRequest
  <2>3. q.completed \in SUBSET StepIds /\ q.recorded \in SUBSET StepIds /\ q.inst \in Instances \cup {NoInst}
    BY <1>2 DEF RequestTyped
  <2>4. RequestTyped(d)
    BY <1>2, <2>2, <2>3, MovedTyped DEF RequestStages
  <2> QED
    BY <1>0, <1>4, <2>1, <2>4, OneTyped
<1> QED
  BY <1>1, <1>3, <1>4 DEF LoadDefinition

\* The two columns of a row.
LEMMA OwnerFields ==
  ASSUME NEW tenant, NEW def, NEW o, o = [tenant |-> tenant, def |-> def]
  PROVE  o.tenant = tenant /\ o.def = def /\ o = [tenant |-> o.tenant, def |-> o.def]
<1>1. o.tenant = tenant /\ o.def = def
  OBVIOUS
<1> QED
  BY <1>1, Zenon

LEMMA InsertTyped ==
  ASSUME ServiceInv, TablesOK, NEW r \in Slots, InsertInstance(r)
  PROVE  /\ \A x \in Slots : RequestTyped(req'[x])
         /\ \A j \in Instances : /\ owner'[j].tenant \in Tenants \cup {""}
                                 /\ owner'[j].def \in Definition \cup {NoDefinition}
                                 /\ owner'[j] = [tenant |-> owner'[j].tenant, def |-> owner'[j].def]
<1>0. IsFun(req, Slots) /\ \A x \in Slots : RequestTyped(req[x])
  BY DEF ServiceInv, RequestsOK, TablesOK
<1>1. PICK i \in Instances :
        /\ owner' = [owner EXCEPT ![i] = [tenant |-> req[r].tenant, def |-> req[r].def]]
        /\ req' = [req EXCEPT ![r].stage = "enqueue", ![r].inst = i]
  BY DEF InsertInstance
<1>2. PICK q : q = req[r]
  OBVIOUS
<1>3. IsRequest(q) /\ RequestTyped(q) /\ q.stage = "insert"
  BY <1>0, <1>2 DEF ServiceInv, RequestsOK, RequestOK, InsertInstance
<1>4. req'[r] = [stage |-> "enqueue", tenant |-> q.tenant, def |-> q.def, inst |-> i,
                 reads |-> q.reads, completed |-> q.completed, recorded |-> q.recorded]
  BY <1>0, <1>1, <1>2, <1>3 DEF IsFun, IsRequest
<1>5. q.completed \in SUBSET StepIds /\ q.recorded \in SUBSET StepIds
  BY <1>3 DEF RequestTyped
<1>6. RequestTyped(req'[r])
  BY <1>3, <1>4, <1>5, MovedTyped DEF RequestStages
<1>7. \A x \in Slots \ {r} : RequestTyped(req'[x])
  BY <1>0, <1>1 DEF IsFun
<1>8. owner'[i] = [tenant |-> q.tenant, def |-> q.def] /\ \A j \in Instances \ {i} : owner'[j] = owner[j]
  BY <1>1, <1>2 DEF ServiceInv, OwnersOK, IsFun
<1>9. q.tenant \in Tenants \cup {""} /\ q.def \in Definition \cup {NoDefinition}
  BY <1>3 DEF RequestTyped
<1>10. ASSUME NEW j \in Instances
       PROVE  /\ owner'[j].tenant \in Tenants \cup {""}
              /\ owner'[j].def \in Definition \cup {NoDefinition}
              /\ owner'[j] = [tenant |-> owner'[j].tenant, def |-> owner'[j].def]
  <2>1. CASE j = i
    <3>1. PICK o : o = owner'[j]
      OBVIOUS
    <3>2. o = [tenant |-> q.tenant, def |-> q.def]
      BY <1>8, <2>1, <3>1
    <3>3. o.tenant = q.tenant /\ o.def = q.def /\ o = [tenant |-> o.tenant, def |-> o.def]
      BY <3>2, OwnerFields
    <3> QED
      BY <1>9, <3>1, <3>3
  <2>2. CASE j # i
    BY <1>8, <2>2 DEF TablesOK
  <2> QED
    BY <2>1, <2>2
<1> QED
  BY <1>6, <1>7, <1>10

LEMMA ServiceTables ==
  ASSUME ServiceInv, StoredTyped, DataOK, TablesOK, [ServiceNext]_serviceVars PROVE TablesOK'
<1>0. IsFun(req, Slots) /\ \A x \in Slots : RequestTyped(req[x])
  BY DEF ServiceInv, RequestsOK, TablesOK
<1>1. ASSUME UNCHANGED <<defs, owner, proc, restarts>>, \A x \in Slots : RequestTyped(req'[x]) PROVE TablesOK'
  BY <1>1 DEF TablesOK
<1>2. ASSUME NEW r \in Slots, AdmitDefinition(r) PROVE TablesOK'
  <2>1. PICK d \in Definition : Admit(r, "createDefinition", d.tenant, Request("define", d.tenant, d, NoInst))
    BY <1>2 DEF AdmitDefinition
  <2>2. d.tenant \in Tenants
    BY DEF Definition
  <2>3. RequestTyped(Request("define", d.tenant, d, NoInst))
    BY <2>2, AdmitTyped
  <2> QED
    BY <1>0, <1>1, <2>1, <2>3, OneTyped DEF Admit
<1>3. ASSUME NEW r \in Slots, AdmitInstance(r) PROVE TablesOK'
  <2>1. PICK t \in Tenants, d \in defs : Admit(r, "createInstance", t, Request("load", t, d, NoInst))
    BY <1>3 DEF AdmitInstance
  <2>2. d \in Definition
    BY DEF TablesOK
  <2>3. RequestTyped(Request("load", t, d, NoInst))
    BY <2>2, AdmitTyped
  <2> QED
    BY <1>0, <1>1, <2>1, <2>3, OneTyped DEF Admit
<1>4. ASSUME NEW r \in Slots, AdmitRead(r) PROVE TablesOK'
  <2>1. PICK t \in Tenants, i \in Instances : Admit(r, "getInstance", t, Request("read", t, NoDefinition, i))
    BY <1>4 DEF AdmitRead
  <2>2. RequestTyped(Request("read", t, NoDefinition, i))
    BY AdmitReadTyped
  <2> QED
    BY <1>0, <1>1, <2>1, <2>2, OneTyped DEF Admit
<1>5. ASSUME NEW r \in Slots, CreateDefinition(r) PROVE TablesOK'
  <2>1. req[r].def \in Definition
    BY <1>0, <1>5 DEF CreateDefinition, RequestTyped
  <2>2. \A x \in Slots : RequestTyped(req'[x])
    BY <1>0, <1>5, IdleTyped, OneTyped DEF CreateDefinition
  <2> QED
    BY <1>5, <2>1, <2>2 DEF CreateDefinition, TablesOK
<1>6. ASSUME NEW r \in Slots, InsertRefused(r) \/ EnqueueInstance(r) PROVE TablesOK'
  BY <1>0, <1>1, <1>6, IdleTyped, OneTyped DEF InsertRefused, EnqueueInstance
<1>7. ASSUME NEW r \in Slots, LoadDefinition(r) PROVE TablesOK'
  BY <1>1, <1>7, LoadTyped DEF LoadDefinition
<1>8. ASSUME NEW r \in Slots, ReadInstance(r) PROVE TablesOK'
  BY <1>1, <1>8, ReadInstanceTyped DEF ReadInstance
<1>9. ASSUME NEW r \in Slots, InsertInstance(r) PROVE TablesOK'
  <2>1. UNCHANGED <<defs, proc, restarts>>
    BY <1>9 DEF InsertInstance
  <2> QED
    BY <1>9, <2>1, InsertTyped DEF TablesOK
<1>10. ASSUME UNCHANGED apiVars PROVE TablesOK'
  BY <1>10 DEF apiVars, TablesOK
<1>11. CASE \/ \E w \in Workers : Work(w) \/ Receive(w) \/ Unwind(w)
            \/ \E a \in Agents : Tick(a)
            \/ Recover \/ (\E i \in Instances : Time(i)) \/ Rest
  BY <1>10, <1>11 DEF Work, Receive, Unwind, Tick, Recover, Time, Rest
<1>12. CASE Signal
  BY <1>12, RestartsAssumption DEF Signal, TablesOK
<1>13. CASE Exit
  <2>1. \A x \in Slots : RequestTyped(req'[x])
    BY <1>0, <1>13, IdleTyped DEF Exit
  <2>2. proc' = "down" /\ restarts < MaxRestarts /\ UNCHANGED <<defs, owner, restarts>>
    BY <1>13 DEF Exit, TablesOK
  <2> QED
    BY <2>1, <2>2 DEF TablesOK
<1>14. CASE Start
  <2>1. proc' = "serving" /\ restarts' = restarts + 1 /\ UNCHANGED <<defs, owner, req>>
    BY <1>14 DEF Start
  <2>2. restarts \in 0 .. MaxRestarts /\ restarts < MaxRestarts
    BY <1>14 DEF Start, TablesOK
  <2>3. restarts' \in 0 .. MaxRestarts
    BY <2>1, <2>2, RestartsAssumption
  <2> QED
    BY <2>1, <2>3 DEF TablesOK
<1>15. CASE UNCHANGED serviceVars
  BY <1>10, <1>15 DEF serviceVars, apiVars
<1> QED
  BY <1>2, <1>3, <1>4, <1>5, <1>6, <1>7, <1>8, <1>9, <1>11, <1>12, <1>13, <1>14, <1>15
     DEF ServiceNext, Handle

LEMMA InitTables == ServiceInit => DataOK /\ TablesOK
<1> SUFFICES ASSUME ServiceInit PROVE DataOK /\ TablesOK
  OBVIOUS
<1>1. DataOK
  BY InitData DEF ServiceInit
<1>2. \A i \in Instances : owner[i] = [tenant |-> "", def |-> NoDefinition]
  BY DEF ServiceInit
<1>3. ASSUME NEW i \in Instances
      PROVE  /\ owner[i].tenant \in Tenants \cup {""}
             /\ owner[i].def \in Definition \cup {NoDefinition}
             /\ owner[i] = [tenant |-> owner[i].tenant, def |-> owner[i].def]
  <2>1. PICK o : o = owner[i]
    OBVIOUS
  <2>2. o = [tenant |-> "", def |-> NoDefinition]
    BY <1>2, <2>1
  <2>3. o.tenant = "" /\ o.def = NoDefinition /\ o = [tenant |-> o.tenant, def |-> o.def]
    BY <2>2, OwnerFields
  <2> QED
    BY <2>1, <2>3
<1>4. \A r \in Slots : RequestTyped(req[r])
  BY IdleTyped DEF ServiceInit
<1>5. restarts \in 0 .. MaxRestarts
  <2>1. restarts = 0
    BY DEF ServiceInit
  <2> QED
    BY <2>1, RestartsAssumption
<1>6. defs = {} /\ proc = "serving"
  BY DEF ServiceInit
<1> QED
  BY <1>1, <1>3, <1>4, <1>5, <1>6 DEF TablesOK

LEMMA ServiceTypeParts ==
  ASSUME ServiceInv, StoredTyped, DataOK, TablesOK PROVE ServiceTypeOK
<1>1. TypeOK
  BY TypeParts DEF ServiceInv, CoreInv
<1>2. owner \in [Instances -> [tenant : Tenants \cup {""}, def : Definition \cup {NoDefinition}]]
  <2>1. ASSUME NEW i \in Instances
        PROVE  owner[i] \in [tenant : Tenants \cup {""}, def : Definition \cup {NoDefinition}]
    <3>1. PICK o : o = owner[i]
      OBVIOUS
    <3>2. /\ o = [tenant |-> o.tenant, def |-> o.def]
          /\ o.tenant \in Tenants \cup {""} /\ o.def \in Definition \cup {NoDefinition}
      BY <3>1 DEF TablesOK
    <3> QED
      BY <3>1, <3>2
  <2> QED
    BY <2>1 DEF ServiceInv, OwnersOK, IsFun
<1>3. req \in [Slots -> [stage : {"idle", "define", "load", "insert", "enqueue", "read", "answered"},
                         tenant : Tenants \cup {""}, def : Definition \cup {NoDefinition},
                         inst : Instances \cup {NoInst}, reads : 0 .. 2,
                         completed : SUBSET StepIds, recorded : SUBSET StepIds]]
  <2>1. ASSUME NEW r \in Slots
        PROVE  req[r] \in [stage : {"idle", "define", "load", "insert", "enqueue", "read", "answered"},
                           tenant : Tenants \cup {""}, def : Definition \cup {NoDefinition},
                           inst : Instances \cup {NoInst}, reads : 0 .. 2,
                           completed : SUBSET StepIds, recorded : SUBSET StepIds]
    <3>1. PICK q : q = req[r]
      OBVIOUS
    <3>2. q = [stage |-> q.stage, tenant |-> q.tenant, def |-> q.def, inst |-> q.inst,
               reads |-> q.reads, completed |-> q.completed, recorded |-> q.recorded]
      BY <3>1 DEF ServiceInv, RequestsOK, RequestOK, IsRequest
    <3>3. q.reads \in 0 .. 2
      BY <3>1 DEF ServiceInv, RequestsOK, RequestOK, IsRequest
    <3>4. /\ q.stage \in {"idle", "define", "load", "insert", "enqueue", "read", "answered"}
          /\ q.tenant \in Tenants \cup {""} /\ q.def \in Definition \cup {NoDefinition}
          /\ q.inst \in Instances \cup {NoInst}
          /\ q.completed \in SUBSET StepIds /\ q.recorded \in SUBSET StepIds
      BY <3>1 DEF TablesOK, RequestTyped, RequestStages
    <3> QED
      BY <3>1, <3>2, <3>3, <3>4
  <2> QED
    BY <2>1 DEF ServiceInv, RequestsOK, IsFun
<1> QED
  BY <1>1, <1>2, <1>3 DEF ServiceTypeOK, TablesOK

\* Every variable of the service has its type, for every set of keys and definitions and any
\* number of requests, workers and restarts: in particular what a client is shown and what
\* a handler inserts names tenants, definitions, instances and steps there are.
THEOREM ServiceIsTyped == ServiceSpec => []ServiceTypeOK
<1>1. ServiceInv /\ StoredTyped /\ StoredTyped' /\ DataOK /\ [ServiceNext]_serviceVars => DataOK'
  BY ServiceData
<1>2. ServiceInv /\ StoredTyped /\ DataOK /\ TablesOK /\ [ServiceNext]_serviceVars => TablesOK'
  BY ServiceTables
<1>3. ServiceSpec => [](DataOK /\ TablesOK)
  BY <1>1, <1>2, InitTables, ServiceIsInvariant, ServiceStoredTyped, PTL DEF ServiceSpec
<1>4. ServiceInv /\ StoredTyped /\ DataOK /\ TablesOK => ServiceTypeOK
  BY ServiceTypeParts
<1> QED
  BY <1>3, <1>4, ServiceIsInvariant, ServiceStoredTyped, PTL

=============================================================================
