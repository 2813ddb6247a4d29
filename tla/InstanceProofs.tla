--------------------------- MODULE InstanceProofs ---------------------------
(***************************************************************************)
(* What the handlers make of the content of an instance, for every         *)
(* definition: the status they leave it in, the attempts and the keys of   *)
(* its steps, its list of completed steps and its compensation queue.      *)
(***************************************************************************)
EXTENDS Instance, TLAPS

\* f is a function on S.
IsFun(f, S) == f = [x \in S |-> f[x]]

IsState(s) ==
  /\ s = [status |-> s.status, attempt |-> s.attempt, key |-> s.key,
          waiting |-> s.waiting, prev |-> s.prev, next |-> s.next]
  /\ s.attempt \in Nat

\* The shape of a content, and the part of its type that the theorems need.
IsContent(c) ==
  /\ c = [status |-> c.status, cur |-> c.cur, steps |-> c.steps,
          completed |-> c.completed, queue |-> c.queue, forks |-> c.forks]
  /\ IsFun(c.steps, StepIds)
  /\ \A s \in StepIds : IsState(c.steps[s])
  /\ c.completed \in Seq(StepIds)

\* d has the attempts and the keys of c, and those of its steps that are not the current one.
SameMarks(c, d) ==
  \A s \in StepIds : d.steps[s].attempt = c.steps[s].attempt /\ d.steps[s].key = c.steps[s].key

SameOthers(c, d) == \A s \in StepIds \ {c.cur} : d.steps[s] = c.steps[s]

\* d has completed what c had completed, and perhaps id.
CompletesOnly(c, d, id) == \A s \in StepIds : HasCompleted(d, s) => HasCompleted(c, s) \/ s = id

LEMMA NewContent ==
  ASSUME NEW status, NEW d, d = NewRuntimeState(status)
  PROVE  /\ IsContent(d) /\ d.status = status /\ d.queue = <<>> /\ d.completed = <<>>
         /\ \A s \in StepIds : d.steps[s] = NoState
<1>1. d.steps = [s \in StepIds |-> NoState] /\ d.completed = <<>> /\ d.queue = <<>> /\ d.status = status
  BY DEF NewRuntimeState
<1>2. IsState(NoState)
  BY DEF NoState, IsState
<1>3. d = [status |-> d.status, cur |-> d.cur, steps |-> d.steps,
           completed |-> d.completed, queue |-> d.queue, forks |-> d.forks]
  BY DEF NewRuntimeState
<1> QED
  BY <1>1, <1>2, <1>3 DEF IsContent, IsFun

LEMMA FinishContent ==
  ASSUME NEW c, IsContent(c), NEW status, NEW d, d = finishInstance(c, status)
  PROVE  IsContent(d) /\ d.status = status /\ d.steps = c.steps /\ d.completed = c.completed
<1>1. d = [status |-> status, cur |-> NoStep, steps |-> c.steps,
           completed |-> c.completed, queue |-> c.queue, forks |-> c.forks]
  BY DEF finishInstance, IsContent
<1> QED
  BY <1>1 DEF IsContent

LEMMA FinishWithoutStepContent ==
  ASSUME NEW c, IsContent(c), NEW d, d = FinishWithoutStep(c)
  PROVE  IsContent(d) /\ d.status \in Terminal /\ d.steps = c.steps /\ d.completed = c.completed
<1> DEFINE e == [c EXCEPT !.forks = StepToRun(c).forks]
<1>1. e = [status |-> c.status, cur |-> c.cur, steps |-> c.steps,
           completed |-> c.completed, queue |-> c.queue, forks |-> StepToRun(c).forks]
  BY DEF IsContent
<1>2. IsContent(e) /\ e.steps = c.steps /\ e.completed = c.completed
  BY <1>1 DEF IsContent
<1>3. d = finishInstance(e, IF Compensates(c) THEN "failed" ELSE "completed")
  BY DEF FinishWithoutStep
<1> HIDE DEF e
<1> QED
  BY <1>2, <1>3, FinishContent DEF Terminal

LEMMA StartContent ==
  ASSUME NEW c, IsContent(c), NEW newKey, NEW d, d = StartStep(c, newKey),
         StepToRun(c).next \in StepIds
  PROVE  /\ IsContent(d)
         /\ d.status = IF Compensates(c) THEN "compensating" ELSE "running"
         /\ d.cur = StepToRun(c).next
         /\ d.completed = c.completed /\ d.queue = c.queue
         /\ d.steps[d.cur].status = "running"
         /\ d.steps[d.cur].attempt = c.steps[d.cur].attempt + 1
         /\ d.steps[d.cur].key = KeyFor(c.steps[d.cur], newKey)
         /\ SameOthers(d, c)
<1> DEFINE id == StepToRun(c).next
           e == [c EXCEPT !.forks = StepToRun(c).forks]
           status == IF Compensates(c) THEN "compensating" ELSE "running"
           started == [status  |-> "running",
                       attempt |-> c.steps[id].attempt + 1,
                       key     |-> KeyFor(c.steps[id], newKey),
                       waiting |-> 0,
                       prev    |-> PreviousWait(c.steps[id], status),
                       next    |-> NoStep]
<1>1. e = [status |-> c.status, cur |-> c.cur, steps |-> c.steps,
           completed |-> c.completed, queue |-> c.queue, forks |-> StepToRun(c).forks]
  BY DEF IsContent
<1>2. d = markStepRunning(e, id, status, newKey)
  BY DEF StartStep
<1> HIDE DEF e, status, id
<1>3. d = [e EXCEPT !.status = status, !.cur = id, !.steps[id] = started]
  <2>1. e.steps[id] = c.steps[id]
    BY <1>1
  <2> QED
    BY <1>2, <2>1 DEF markStepRunning
<1> USE DEF id
<1>4. /\ IsState(started) /\ started.attempt = c.steps[id].attempt + 1
      /\ started.key = KeyFor(c.steps[id], newKey) /\ started.status = "running"
  <2>1. c.steps[id].attempt \in Nat
    BY DEF IsState, IsContent
  <2> QED
    BY <2>1 DEF IsState
<1> HIDE DEF started
<1>5. d = [status |-> status, cur |-> id, steps |-> [c.steps EXCEPT ![id] = started],
           completed |-> c.completed, queue |-> c.queue, forks |-> StepToRun(c).forks]
  BY <1>1, <1>3
<1>6. IsFun([c.steps EXCEPT ![id] = started], StepIds)
  BY DEF IsFun, IsContent
<1>7. IsContent(d)
  BY <1>4, <1>5, <1>6 DEF IsContent, IsFun
<1>8. d.steps[id] = started /\ \A s \in StepIds \ {id} : d.steps[s] = c.steps[s]
  BY <1>5 DEF IsFun, IsContent
<1> QED
  BY <1>4, <1>5, <1>7, <1>8 DEF SameOthers, status

-----------------------------------------------------------------------------
(* The handlers of a result *)

LEMMA WaitingContent ==
  ASSUME NEW c, IsContent(c), c.cur \in StepIds, NEW out, NEW d, d = handleStepWaiting(c, out)
  PROVE  /\ IsContent(d) /\ SameMarks(c, d) /\ SameOthers(c, d)
         /\ d.status = "waiting_timer" /\ d.cur = c.cur
         /\ d.completed = c.completed /\ d.queue = c.queue
         /\ d.steps[c.cur].status = "waiting_timer" /\ d.steps[c.cur].waiting = out.fireAt
<1>0. PICK state : state = [c.steps[c.cur] EXCEPT !.status = "waiting_timer",
                                                  !.waiting = out.fireAt, !.prev = 0]
  OBVIOUS
<1>1. IsState(c.steps[c.cur]) /\ c.completed \in Seq(StepIds)
  BY DEF IsContent
<1>2. state = [status |-> "waiting_timer", attempt |-> c.steps[c.cur].attempt, key |-> c.steps[c.cur].key,
               waiting |-> out.fireAt, prev |-> 0, next |-> c.steps[c.cur].next]
  BY <1>0, <1>1 DEF IsState
<1>3. /\ IsState(state) /\ state.attempt = c.steps[c.cur].attempt /\ state.key = c.steps[c.cur].key
      /\ state.status = "waiting_timer" /\ state.waiting = out.fireAt
  BY <1>1, <1>2 DEF IsState
<1>4. d = [c EXCEPT !.status = "waiting_timer", !.steps[c.cur] = state]
  BY <1>0 DEF handleStepWaiting
<1>5. PICK steps : steps = [c.steps EXCEPT ![c.cur] = state]
  OBVIOUS
<1>6. d = [status |-> "waiting_timer", cur |-> c.cur, steps |-> steps,
           completed |-> c.completed, queue |-> c.queue, forks |-> c.forks]
  BY <1>4, <1>5 DEF IsContent
<1>7. /\ IsFun(steps, StepIds) /\ steps[c.cur] = state
      /\ \A s \in StepIds \ {c.cur} : steps[s] = c.steps[s]
  BY <1>5 DEF IsFun, IsContent
<1>8. IsContent(d)
  BY <1>3, <1>6, <1>7 DEF IsContent
<1> QED
  BY <1>3, <1>6, <1>7, <1>8 DEF SameMarks, SameOthers

LEMMA CompletedContent ==
  ASSUME NEW c, IsContent(c), c.cur \in StepIds, NEW next, NEW d, d = MarkCompleted(c, c.cur, next)
  PROVE  /\ IsContent(d) /\ SameMarks(c, d) /\ SameOthers(c, d)
         /\ d.status = c.status /\ d.cur = c.cur /\ d.queue = c.queue
         /\ d.steps[c.cur].status = "completed"
         /\ CompletesOnly(c, d, c.cur)
<1>1. PICK state : state = [c.steps[c.cur] EXCEPT !.status = "completed", !.waiting = 0,
                                                  !.prev = 0, !.next = next]
  OBVIOUS
<1>2. IsState(c.steps[c.cur]) /\ c.completed \in Seq(StepIds)
  BY DEF IsContent
<1>3. state = [status |-> "completed", attempt |-> c.steps[c.cur].attempt, key |-> c.steps[c.cur].key,
               waiting |-> 0, prev |-> 0, next |-> next]
  BY <1>1, <1>2 DEF IsState
<1>4. /\ IsState(state) /\ state.attempt = c.steps[c.cur].attempt /\ state.key = c.steps[c.cur].key
      /\ state.status = "completed"
  BY <1>2, <1>3 DEF IsState
<1>5. PICK list : list = IF HasCompleted(c, c.cur) THEN c.completed ELSE Append(c.completed, c.cur)
  OBVIOUS
<1>6. d = [c EXCEPT !.steps[c.cur] = state, !.completed = list]
  BY <1>1, <1>5 DEF MarkCompleted
<1>7. PICK steps : steps = [c.steps EXCEPT ![c.cur] = state]
  OBVIOUS
<1>8. d = [status |-> c.status, cur |-> c.cur, steps |-> steps,
           completed |-> list, queue |-> c.queue, forks |-> c.forks]
  BY <1>6, <1>7 DEF IsContent
<1>9. /\ list \in Seq(StepIds)
      /\ \A s \in StepIds : Contains(list, s) => Contains(c.completed, s) \/ s = c.cur
  <2>1. CASE HasCompleted(c, c.cur)
    BY <1>2, <1>5, <2>1
  <2>2. CASE ~ HasCompleted(c, c.cur)
    <3>1. list = Append(c.completed, c.cur)
      BY <1>5, <2>2
    <3>2. \A n \in 1 .. Len(list) : IF n = Len(c.completed) + 1 THEN list[n] = c.cur
                                   ELSE n \in 1 .. Len(c.completed) /\ list[n] = c.completed[n]
      BY <1>2, <3>1
    <3>3. list \in Seq(StepIds)
      BY <1>2, <3>1
    <3> QED
      BY <3>2, <3>3 DEF Contains
  <2> QED
    BY <2>1, <2>2
<1>10. /\ IsFun(steps, StepIds) /\ steps[c.cur] = state
       /\ \A s \in StepIds \ {c.cur} : steps[s] = c.steps[s]
  BY <1>7 DEF IsFun, IsContent
<1>11. IsContent(d)
  BY <1>4, <1>8, <1>9, <1>10 DEF IsContent
<1> QED
  BY <1>4, <1>8, <1>9, <1>10, <1>11 DEF CompletesOnly, HasCompleted, SameMarks, SameOthers

LEMMA SuccessContent ==
  ASSUME NEW c, IsContent(c), c.cur \in StepIds, NEW out, NEW d, d = handleStepSuccess(c, out)
  PROVE  /\ IsContent(d) /\ SameMarks(c, d) /\ SameOthers(c, d)
         /\ d.status \in {"running", "completed"} /\ d.queue = c.queue
         /\ d.steps[c.cur].status = "completed"
         /\ CompletesOnly(c, d, c.cur)
<1>1. PICK after : after = NextAfter(c.forks, c.cur, out.next)
  OBVIOUS
<1>2. PICK marked : marked = MarkCompleted(c, c.cur, out.next)
  OBVIOUS
<1>3. PICK done : done = [marked EXCEPT !.forks = after.forks]
  OBVIOUS
<1>4. /\ IsContent(marked) /\ SameMarks(c, marked) /\ SameOthers(c, marked)
      /\ marked.queue = c.queue /\ marked.steps[c.cur].status = "completed"
      /\ CompletesOnly(c, marked, c.cur)
  BY <1>2, CompletedContent
<1>5. done = [status |-> marked.status, cur |-> marked.cur, steps |-> marked.steps,
              completed |-> marked.completed, queue |-> marked.queue, forks |-> after.forks]
  BY <1>3, <1>4 DEF IsContent
<1>6. IsContent(done)
  BY <1>4, <1>5 DEF IsContent
<1>7. d = IF after.next = NoStep THEN finishInstance(done, "completed")
          ELSE [done EXCEPT !.status = "running", !.cur = after.next]
  BY <1>1, <1>2, <1>3 DEF handleStepSuccess
<1>8. /\ d = [status |-> d.status, cur |-> d.cur, steps |-> marked.steps,
              completed |-> marked.completed, queue |-> marked.queue, forks |-> after.forks]
      /\ d.status \in {"running", "completed"}
  <2>1. CASE after.next = NoStep
    BY <1>5, <1>7, <2>1 DEF finishInstance
  <2>2. CASE after.next # NoStep
    BY <1>5, <1>7, <2>2
  <2> QED
    BY <2>1, <2>2
<1>9. IsContent(d)
  BY <1>4, <1>8 DEF IsContent
<1> QED
  BY <1>4, <1>8, <1>9 DEF SameMarks, SameOthers, CompletesOnly, HasCompleted

LEMMA CompensationContent ==
  ASSUME NEW c, IsContent(c), c.cur \in StepIds, c.status = "compensating", NEW out,
         NEW d, d = CompensationSuccess(c, out)
  PROVE  /\ IsContent(d) /\ SameMarks(c, d) /\ SameOthers(c, d)
         /\ d.status \in {"compensating", "failed"} /\ d.queue = Tail(c.queue)
         /\ d.status = "compensating" => d.queue # <<>> /\ d.cur = Head(d.queue)
         /\ d.steps[c.cur].status = "completed"
         /\ CompletesOnly(c, d, c.cur)
<1>1. PICK marked : marked = MarkCompleted(c, c.cur, out.next)
  OBVIOUS
<1>2. PICK done : done = [marked EXCEPT !.queue = Tail(c.queue)]
  OBVIOUS
<1>3. /\ IsContent(marked) /\ SameMarks(c, marked) /\ SameOthers(c, marked)
      /\ marked.status = "compensating" /\ marked.steps[c.cur].status = "completed"
      /\ CompletesOnly(c, marked, c.cur)
  BY <1>1, CompletedContent
<1>4. done = [status |-> marked.status, cur |-> marked.cur, steps |-> marked.steps,
              completed |-> marked.completed, queue |-> Tail(c.queue), forks |-> marked.forks]
  BY <1>2, <1>3 DEF IsContent
<1>5. d = IF done.queue = <<>> THEN finishInstance(done, "failed")
          ELSE [done EXCEPT !.cur = Head(done.queue)]
  BY <1>1, <1>2 DEF CompensationSuccess
<1>6. /\ d = [status |-> d.status, cur |-> d.cur, steps |-> marked.steps,
              completed |-> marked.completed, queue |-> Tail(c.queue), forks |-> marked.forks]
      /\ d.status \in {"compensating", "failed"}
      /\ d.status = "compensating" => Tail(c.queue) # <<>> /\ d.cur = Head(Tail(c.queue))
  <2>1. CASE done.queue = <<>>
    BY <1>4, <1>5, <2>1 DEF finishInstance
  <2>2. CASE done.queue # <<>>
    BY <1>3, <1>4, <1>5, <2>2
  <2> QED
    BY <2>1, <2>2
<1>7. IsContent(d)
  BY <1>3, <1>6 DEF IsContent
<1> QED
  BY <1>3, <1>6, <1>7 DEF SameMarks, SameOthers, CompletesOnly, HasCompleted

LEMMA CompensationFailureContent ==
  ASSUME NEW c, IsContent(c), NEW out, NEW d, d = CompensationFailure(c, out)
  PROVE  IsContent(d) /\ d.status = "failed" /\ d.steps = c.steps /\ d.completed = c.completed
BY FinishContent DEF CompensationFailure

\* A failed step waits for its retry, or starts the compensation, or fails the instance.
LEMMA FailureContent ==
  ASSUME NEW c, IsContent(c), c.cur \in StepIds, NEW out, NEW d, d = handleStepFailure(c, out)
  PROVE  /\ IsContent(d) /\ SameMarks(c, d) /\ SameOthers(c, d) /\ d.completed = c.completed
         /\ \/ /\ d.status = "waiting_timer" /\ d.cur = c.cur /\ d.queue = c.queue
               /\ d.steps[c.cur].status = "waiting_timer"
               /\ d.steps[c.cur].waiting = c.steps[c.cur].attempt
            \/ /\ d.status = "compensating" /\ d.queue # <<>> /\ d.cur = Head(d.queue)
               /\ d.steps[c.cur].status = "failed"
            \/ d.status = "failed" /\ d.steps[c.cur].status = "failed"
<1>1. PICK state : state = [c.steps[c.cur] EXCEPT !.status = "failed", !.prev = 0]
  OBVIOUS
<1>2. PICK forks : forks = MarkBranchFailed(c.forks, c.cur)
  OBVIOUS
<1>3. PICK failed : failed = [c EXCEPT !.steps[c.cur] = state, !.forks = forks]
  OBVIOUS
<1>4. PICK queue : queue = CompensationQueue(failed, c.cur)
  OBVIOUS
<1>5. IsState(c.steps[c.cur]) /\ c.completed \in Seq(StepIds)
  BY DEF IsContent
<1>6. state = [status |-> "failed", attempt |-> c.steps[c.cur].attempt, key |-> c.steps[c.cur].key,
               waiting |-> c.steps[c.cur].waiting, prev |-> 0, next |-> c.steps[c.cur].next]
  BY <1>1, <1>5 DEF IsState
<1>7. /\ IsState(state) /\ state.attempt = c.steps[c.cur].attempt /\ state.key = c.steps[c.cur].key
      /\ state.status = "failed"
  BY <1>5, <1>6 DEF IsState
<1>8. PICK steps : steps = [c.steps EXCEPT ![c.cur] = state]
  OBVIOUS
<1>9. failed = [status |-> c.status, cur |-> c.cur, steps |-> steps,
                completed |-> c.completed, queue |-> c.queue, forks |-> forks]
  BY <1>3, <1>8 DEF IsContent
<1>10. /\ IsFun(steps, StepIds) /\ steps[c.cur] = state
       /\ \A s \in StepIds \ {c.cur} : steps[s] = c.steps[s]
  BY <1>8 DEF IsFun, IsContent
<1>11. d = IF RetriesLeft(c, c.cur)
           THEN handleStepWaiting(c, Waits(c.steps[c.cur].attempt))
           ELSE IF queue # <<>>
           THEN [failed EXCEPT !.queue = queue, !.status = "compensating", !.cur = Head(queue)]
           ELSE finishInstance(failed, "failed")
  BY <1>1, <1>2, <1>3, <1>4 DEF handleStepFailure
<1>12. CASE RetriesLeft(c, c.cur)
  <2>1. PICK wait : wait = Waits(c.steps[c.cur].attempt)
    OBVIOUS
  <2>2. wait.fireAt = c.steps[c.cur].attempt /\ d = handleStepWaiting(c, wait)
    BY <1>11, <1>12, <2>1 DEF Waits
  <2>3. /\ IsContent(d) /\ SameMarks(c, d) /\ SameOthers(c, d)
        /\ d.status = "waiting_timer" /\ d.cur = c.cur
        /\ d.completed = c.completed /\ d.queue = c.queue
        /\ d.steps[c.cur].status = "waiting_timer" /\ d.steps[c.cur].waiting = wait.fireAt
    BY <2>2, WaitingContent
  <2> QED
    BY <2>2, <2>3
<1>13. CASE ~ RetriesLeft(c, c.cur)
  <2>1. /\ d = [status |-> d.status, cur |-> d.cur, steps |-> steps,
                completed |-> c.completed, queue |-> d.queue, forks |-> forks]
        /\ \/ d.status = "compensating" /\ d.queue # <<>> /\ d.cur = Head(d.queue)
           \/ d.status = "failed"
    <3>1. CASE queue # <<>>
      BY <1>9, <1>11, <1>13, <3>1
    <3>2. CASE queue = <<>>
      BY <1>9, <1>11, <1>13, <3>2 DEF finishInstance
    <3> QED
      BY <3>1, <3>2
  <2>2. d.steps = steps /\ d.completed = c.completed
    BY <2>1
  <2>3. IsContent(d)
    BY <1>7, <1>10, <2>1 DEF IsContent
  <2> QED
    BY <1>7, <1>10, <2>1, <2>2, <2>3 DEF SameMarks, SameOthers
<1> QED
  BY <1>12, <1>13

\* The statuses a stored result may have.
ResultStatuses == {"running", "waiting_timer", "compensating", "completed", "failed"}

\* A result changes no attempt and no key, no state but that of the current step, and
\* completes the current step only, if it is a success.
LEMMA ResultContent ==
  ASSUME NEW c, IsContent(c), c.cur \in StepIds,
         NEW out, out.kind \in {"success", "waiting", "error"}, NEW d, d = HandleResult(c, out)
  PROVE  /\ IsContent(d) /\ SameMarks(c, d) /\ SameOthers(c, d) /\ d.status \in ResultStatuses
         /\ IF out.kind = "success" THEN CompletesOnly(c, d, c.cur) ELSE d.completed = c.completed
<1>1. CASE out.kind = "waiting"
  BY <1>1, WaitingContent DEF HandleResult, ResultStatuses
<1>2. CASE out.kind = "success"
  BY <1>2, SuccessContent, CompensationContent DEF HandleResult, ResultStatuses
<1>3. CASE out.kind = "error"
  BY <1>3, FailureContent, CompensationFailureContent
     DEF HandleResult, ResultStatuses, SameMarks, SameOthers
<1> QED
  BY <1>1, <1>2, <1>3

\* The definition's part of the proofs: a step is one of Steps and has its type.
LEMMA StepIsOne ==
  ASSUME NEW id \in StepIds
  PROVE  \E n \in DOMAIN Steps : Steps[n].id = id /\ StepByID(id) = Steps[n]
<1>1. PICK n \in DOMAIN Steps : Steps[n].id = id
  BY DEF StepIds
<1>2. PICK k : k = CHOOSE m \in DOMAIN Steps : Steps[m].id = id
  OBVIOUS
<1>3. k \in DOMAIN Steps /\ Steps[k].id = id
  BY <1>1, <1>2
<1> QED
  BY <1>2, <1>3 DEF StepByID

LEMMA StepsAreTyped ==
  ASSUME NEW n \in DOMAIN Steps
  PROVE  /\ Steps[n].id \in StepIds /\ Steps[n].type \in StepTypes
         /\ Steps[n].next \in Refs /\ Steps[n].then \in Refs /\ Steps[n].else \in Refs
         /\ Steps[n].branches \in Seq(StepIds) /\ Steps[n].join \in Refs
         /\ Steps[n].onFailure \in Refs /\ Steps[n].maxRetries \in Nat
<1> DEFINE Step == [id : StepIds, type : StepTypes, next : Refs, then : Refs, else : Refs,
                    branches : Seq(StepIds), join : Refs, onFailure : Refs, maxRetries : Nat]
<1>1. Steps \in Seq(Step)
  BY StepsAssumption DEF WellFormed
<1>2. ASSUME NEW step \in Step
      PROVE  /\ step.id \in StepIds /\ step.type \in StepTypes
             /\ step.next \in Refs /\ step.then \in Refs /\ step.else \in Refs
             /\ step.branches \in Seq(StepIds) /\ step.join \in Refs
             /\ step.onFailure \in Refs /\ step.maxRetries \in Nat
  BY <1>2
<1> HIDE DEF Step
<1> QED
  BY <1>1, <1>2

LEMMA StepHasType ==
  ASSUME NEW id \in StepIds PROVE StepByID(id).type \in StepTypes
BY StepIsOne, StepsAreTyped

\* Every step has one of the types, so its execution has one of the results.
LEMMA ExecuteKinds ==
  ASSUME NEW c, c.cur \in StepIds, NEW past, NEW out \in Execute(c, past)
  PROVE  out.kind \in {"success", "waiting", "error"}
<1>1. StepByID(c.cur).type \in StepTypes
  BY StepHasType
<1> QED
  BY <1>1 DEF Execute, executeHTTPRequest, executeTransform, executeCondition, executeFork, executeJoin,
              StepTypes, Succeeds, Fails, DelayResult, Waits

-----------------------------------------------------------------------------
(* Waiting steps and the compensation queue *)

\* The only step that waits is the current one of an instance that waits.  The queue holds
\* the compensations still to run, the current one first.
WaitOK(c) ==
  /\ \A s \in StepIds :
       c.steps[s].status = "waiting_timer" =>
         c.status = "waiting_timer" /\ c.cur = s /\ c.steps[s].waiting # 0
  /\ c.status = "running" => c.queue = <<>>
  /\ c.status = "compensating" => c.queue # <<>>
  /\ c.status \in {"compensating", "waiting_timer"} /\ c.queue # <<>> => c.cur = Head(c.queue)

\* What markStepRunning has stored.
IsRunning(c) ==
  /\ c.status \in {"running", "compensating"}
  /\ c.cur \in StepIds
  /\ c.steps[c.cur].status = "running"
  /\ c.steps[c.cur].attempt # 0

LEMMA NewWaits ==
  ASSUME NEW status \in {"absent", "pending"}, NEW d, d = NewRuntimeState(status) PROVE WaitOK(d)
<1>1. d.status = status /\ d.queue = <<>> /\ \A s \in StepIds : d.steps[s] = NoState
  BY NewContent
<1>2. NoState.status = ""
  BY DEF NoState
<1> QED
  BY <1>1, <1>2 DEF WaitOK

\* A step that waits is the one Advance chooses.
LEMMA WaitingIsNext ==
  ASSUME NEW c, WaitOK(c), NEW s \in StepIds, c.steps[s].status = "waiting_timer"
  PROVE  StepToRun(c).next = s
<1>1. c.status = "waiting_timer" /\ c.cur = s
  BY DEF WaitOK
<1>2. c.cur # NoStep
  BY <1>1, StepsAssumption DEF WellFormed
<1>3. CASE c.queue = <<>>
  BY <1>1, <1>2, <1>3 DEF StepToRun, Compensates, StepForCurrent
<1>4. CASE c.queue # <<>>
  BY <1>1, <1>4 DEF StepToRun, Compensates, WaitOK
<1> QED
  BY <1>3, <1>4

LEMMA StartWaits ==
  ASSUME NEW c, IsContent(c), WaitOK(c), NEW newKey, NEW d, d = StartStep(c, newKey),
         StepToRun(c).next \in StepIds
  PROVE  WaitOK(d) /\ IsRunning(d)
<1>1. /\ d.status = IF Compensates(c) THEN "compensating" ELSE "running"
      /\ d.cur = StepToRun(c).next
      /\ d.queue = c.queue
      /\ d.steps[d.cur].status = "running"
      /\ d.steps[d.cur].attempt = c.steps[d.cur].attempt + 1
      /\ \A s \in StepIds \ {d.cur} : d.steps[s] = c.steps[s]
  BY StartContent DEF SameOthers
<1>2. \A s \in StepIds : d.steps[s].status # "waiting_timer"
  BY <1>1, WaitingIsNext
<1>3. Compensates(c) => c.queue # <<>> /\ StepToRun(c).next = Head(c.queue)
  BY DEF Compensates, WaitOK, StepToRun
<1>4. ~ Compensates(c) => c.queue = <<>>
  BY DEF Compensates
<1>5. c.steps[d.cur].attempt \in Nat
  BY <1>1 DEF IsContent, IsState
<1> QED
  BY <1>1, <1>2, <1>3, <1>4, <1>5 DEF WaitOK, IsRunning

LEMMA FinishWaits ==
  ASSUME NEW c, IsContent(c), WaitOK(c), NEW d, d = FinishWithoutStep(c),
         StepToRun(c).next \notin StepIds
  PROVE  WaitOK(d)
<1>1. d.status \in Terminal /\ d.steps = c.steps
  BY FinishWithoutStepContent
<1>2. \A s \in StepIds : c.steps[s].status # "waiting_timer"
  BY WaitingIsNext
<1> QED
  BY <1>1, <1>2 DEF WaitOK, Terminal

\* A result that waits names a fire time.
LEMMA ExecuteFires ==
  ASSUME NEW c, c.cur \in StepIds, c.steps[c.cur].attempt # 0,
         NEW past, NEW out \in Execute(c, past), out.kind = "waiting"
  PROVE  out.fireAt # 0
<1>1. StepByID(c.cur).type \in StepTypes
  BY StepHasType
<1> QED
  BY <1>1 DEF Execute, executeHTTPRequest, executeTransform, executeCondition, executeFork, executeJoin,
              StepTypes, Succeeds, Fails, DelayResult, Waits

LEMMA ResultWaits ==
  ASSUME NEW c, IsContent(c), WaitOK(c), IsRunning(c),
         NEW past, NEW out \in Execute(c, past), NEW d, d = HandleResult(c, out)
  PROVE  WaitOK(d)
<1>0. out.kind \in {"success", "waiting", "error"} /\ (out.kind = "waiting" => out.fireAt # 0)
  BY ExecuteKinds, ExecuteFires DEF IsRunning
<1>1. /\ c.cur \in StepIds /\ c.steps[c.cur].attempt # 0
      /\ \A s \in StepIds : c.steps[s].status # "waiting_timer"
  BY DEF WaitOK, IsRunning
<1>2. c.queue # <<>> => c.status = "compensating" /\ c.cur = Head(c.queue)
  BY DEF WaitOK, IsRunning
<1>3. CASE out.kind = "waiting"
  <2>1. d = handleStepWaiting(c, out) /\ c.cur \in StepIds
    BY <1>1, <1>3 DEF HandleResult
  <2>2. /\ IsContent(d) /\ SameMarks(c, d) /\ SameOthers(c, d)
        /\ d.status = "waiting_timer" /\ d.cur = c.cur
        /\ d.completed = c.completed /\ d.queue = c.queue
        /\ d.steps[c.cur].status = "waiting_timer" /\ d.steps[c.cur].waiting = out.fireAt
    BY <2>1, WaitingContent
  <2> QED
    BY <1>0, <1>1, <1>2, <1>3, <2>2 DEF WaitOK, SameOthers
<1>4. CASE out.kind = "success" /\ c.status # "compensating"
  BY <1>1, <1>2, <1>4, SuccessContent DEF HandleResult, WaitOK, SameOthers
<1>5. CASE out.kind = "success" /\ c.status = "compensating"
  BY <1>1, <1>5, CompensationContent DEF HandleResult, WaitOK, SameOthers
<1>6. CASE out.kind = "error" /\ c.status # "compensating"
  <2>1. d = handleStepFailure(c, out)
    BY <1>6 DEF HandleResult
  <2>2. /\ \A s \in StepIds \ {c.cur} : d.steps[s] = c.steps[s]
        /\ \/ /\ d.status = "waiting_timer" /\ d.cur = c.cur /\ d.queue = c.queue
              /\ d.steps[c.cur].status = "waiting_timer"
              /\ d.steps[c.cur].waiting = c.steps[c.cur].attempt
           \/ /\ d.status = "compensating" /\ d.queue # <<>> /\ d.cur = Head(d.queue)
              /\ d.steps[c.cur].status = "failed"
           \/ d.status = "failed" /\ d.steps[c.cur].status = "failed"
    BY <1>1, <2>1, FailureContent DEF SameOthers
  <2> QED
    BY <1>1, <1>2, <2>2 DEF WaitOK
<1>7. CASE out.kind = "error" /\ c.status = "compensating"
  BY <1>1, <1>7, CompensationFailureContent DEF HandleResult, WaitOK
<1> QED
  BY <1>0, <1>3, <1>4, <1>5, <1>6, <1>7
=============================================================================
