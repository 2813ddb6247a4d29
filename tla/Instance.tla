------------------------------ MODULE Instance ------------------------------
(***************************************************************************)
(* What the handlers of internal/engine/engine.go compute from the content *)
(* of an instance: which step to run, the content that marks it running,   *)
(* the results its executor (internal/worker) may return, and the content  *)
(* each result leads to.  These are functions of one content; the modules  *)
(* Execution and Engine say when and against which row they are applied.   *)
(***************************************************************************)
EXTENDS Machine

\* past is the set of fire times <<step, attempt>> the clock has reached.

\* Mutant: a waiting instance is advanced whenever it is woken up.
WaitingOnTimerIgnored(c, past) == FALSE

\* ensureWaitingTimer's test: the current step waits for a time still to come.
WaitingOnTimer(c, past) ==
  /\ c.status = "waiting_timer"
  /\ c.cur # NoStep
  /\ c.steps[c.cur].waiting # 0
  /\ <<c.cur, c.steps[c.cur].waiting>> \notin past

Compensates(c) == c.status = "compensating" \/ c.queue # <<>>

\* The step Advance chooses: the head of the compensation queue, or the machine's step.
StepToRun(c) ==
  IF ~ Compensates(c)   THEN StepForCurrent(c)
  ELSE IF c.queue = <<>> THEN [next |-> NoStep, forks |-> c.forks]
  ELSE [next |-> Head(c.queue), forks |-> c.forks]

finishInstance(c, status) == [c EXCEPT !.status = status, !.cur = NoStep]

\* Advance with no step left to run.
FinishWithoutStep(c) ==
  finishInstance([c EXCEPT !.forks = StepToRun(c).forks],
                 IF Compensates(c) THEN "failed" ELSE "completed")

\* Mutant: the step state is read after it was overwritten.
PreviousWaitLost(state, status) == 0

\* The fire time in previousStepState; a compensation step is executed with an empty one.
PreviousWait(state, status) ==
  IF status = "running" /\ state.status = "waiting_timer" THEN state.waiting ELSE 0

\* Mutant: every attempt gets a key of its own.
KeyForNew(state, newKey) == newKey

KeyFor(state, newKey) == IF state.key # 0 THEN state.key ELSE newKey

markStepRunning(c, id, status, newKey) ==
  LET state == c.steps[id]
  IN  [c EXCEPT !.status = status,
                !.cur = id,
                !.steps[id] = [status  |-> "running",
                               attempt |-> state.attempt + 1,
                               key     |-> KeyFor(state, newKey),
                               waiting |-> 0,
                               prev    |-> PreviousWait(state, status),
                               next    |-> NoStep]]

\* executeNormalStep and advanceCompensation up to the execution of the step.
StartStep(c, newKey) ==
  markStepRunning([c EXCEPT !.forks = StepToRun(c).forks], StepToRun(c).next,
                  IF Compensates(c) THEN "compensating" ELSE "running", newKey)

\* markStepRunning draws a new key for a step that has none.
DrawsKey(c) == c.steps[StepToRun(c).next].key = 0

-----------------------------------------------------------------------------
\* Results of executing a step: its Result, a WaitingTimerError or another error.
Succeeds(next)  == [kind |-> "success", next |-> next, fireAt |-> 0]
Waits(fireAt)   == [kind |-> "waiting", next |-> NoStep, fireAt |-> fireAt]
Fails           == [kind |-> "error", next |-> NoStep, fireAt |-> 0]

Outcome == [kind : {"success", "waiting", "error"}, next : Refs, fireAt : Nat]

\* executeWithSpan on a delay, and executeDelay.  The latter looks for a waiting
\* step state too, but the step has just been marked running.
DelayResult(id, state, past) ==
  IF state.prev = 0 THEN Waits(state.attempt)
  ELSE IF <<id, state.prev>> \in past THEN Succeeds(NoStep)
  ELSE Waits(state.prev)

\* Mutant: one retry too many.
RetriesLeftOffByOne(c, id) == c.steps[id].attempt <= StepByID(id).maxRetries + 1

\* The running attempt of step id is retried if it fails.
RetriesLeft(c, id) == c.steps[id].attempt <= StepByID(id).maxRetries

\* The fire times that attempts in progress or waiting have computed or may compute:
\* a delay's, and the backoff of a step with retries left.
FireTimes(c) ==
  {<<s, c.steps[s].attempt>> : s \in
     {s \in StepIds : /\ c.steps[s].status \in {"running", "waiting_timer"}
                      /\ StepByID(s).type = "delay" \/ RetriesLeft(c, s)}}

\* What the executors of the step types may return.  The evaluation of a request, an
\* expression or a template comes to a result or an error.
executeHTTPRequest == {Succeeds(NoStep), Fails}
executeTransform == {Succeeds(NoStep), Fails}
executeCondition(step) == {Succeeds(step.then), Succeeds(step.else), Fails}
executeFork(step) == {Succeeds(Head(step.branches))}
executeJoin(step) == {Succeeds(step.next)}

\* What the executor may return for the current, running step.
Execute(c, past) ==
  LET step == StepByID(c.cur)
  IN  CASE step.type = "http_request" -> executeHTTPRequest
        [] step.type = "transform"    -> executeTransform
        [] step.type = "condition"    -> executeCondition(step)
        [] step.type = "delay"        -> {DelayResult(c.cur, c.steps[c.cur], past)}
        [] step.type = "fork"         -> executeFork(step)
        [] step.type = "join"         -> executeJoin(step)

-----------------------------------------------------------------------------
handleStepSuccess(c, out) ==
  LET after == NextAfter(c.forks, c.cur, out.next)
      done  == [MarkCompleted(c, c.cur, out.next) EXCEPT !.forks = after.forks]
  IN  IF after.next = NoStep
      THEN finishInstance(done, "completed")
      ELSE [done EXCEPT !.status = "running", !.cur = after.next]

handleStepWaiting(c, out) ==
  [c EXCEPT !.status = "waiting_timer",
            !.steps[c.cur] = [@ EXCEPT !.status = "waiting_timer", !.waiting = out.fireAt, !.prev = 0]]

\* A failed step is retried after a backoff, or fails its branch and starts the
\* compensation, or fails the instance.  The backoff's fire time is named by the attempt.
handleStepFailure(c, out) ==
  LET failed == [c EXCEPT !.steps[c.cur] = [@ EXCEPT !.status = "failed", !.prev = 0],
                          !.forks = MarkBranchFailed(c.forks, c.cur)]
      queue  == CompensationQueue(failed, c.cur)
  IN  IF RetriesLeft(c, c.cur)
      THEN handleStepWaiting(c, Waits(c.steps[c.cur].attempt))
      ELSE IF queue # <<>>
      THEN [failed EXCEPT !.queue = queue, !.status = "compensating", !.cur = Head(queue)]
      ELSE finishInstance(failed, "failed")

\* advanceCompensation after a successful execution.
CompensationSuccess(c, out) ==
  LET done == [MarkCompleted(c, c.cur, out.next) EXCEPT !.queue = Tail(c.queue)]
  IN  IF done.queue = <<>>
      THEN finishInstance(done, "failed")
      ELSE [done EXCEPT !.cur = Head(done.queue)]

\* advanceCompensation after a failed one: no retry, and the queue is abandoned.
CompensationFailure(c, out) == finishInstance(c, "failed")

\* The content the engine stores for the result of the running step.
HandleResult(c, out) ==
  CASE out.kind = "waiting" -> handleStepWaiting(c, out)
    [] out.kind = "success" -> IF c.status = "compensating" THEN CompensationSuccess(c, out)
                               ELSE handleStepSuccess(c, out)
    [] out.kind = "error"   -> IF c.status = "compensating" THEN CompensationFailure(c, out)
                               ELSE handleStepFailure(c, out)

=============================================================================
