# A TLA+ verification of AetherFlow

AetherFlow (`src/aetherflow`) is a durable workflow engine: a workflow definition is a list of
steps, an instance is one execution of it, and any number of processes advance instances one
step at a time over PostgreSQL (the truth) and Redis (task stream and timer keys). This
directory models the part that makes it durable, from the validation of a definition to the
shutdown of a process, checks it with TLC on small instances and proves its core safety
properties with TLAPS for every instance.

## 1. Inventory

| Component (source) | State it keeps | Operations | What makes it correct |
|---|---|---|---|
| Definitions, runtime state (`workflow/types.go`) | per instance: step states, completed list, compensation queue, forks | `NewRuntimeState`, `MarkCompleted`, `HasCompleted`, `StepByID`, `Backoff` | a step is completed once, in order; a backoff grows to its maximum |
| State machine (`engine/machine.go`) | none; changes `state.Forks` | `StepForCurrent`, `NextAfter`, `startFork`, `nextForkStep`, `MarkBranchFailed`, `CompensationQueue` | joins after branches, one branch at a time, compensations in reverse order and complete |
| Engine workers (`engine/engine.go`) | a local copy of one instance, a batch of messages | `consume`, `reclaimPending`, `processMessage`, `Advance` and its handlers | one result per attempt, stable idempotency keys, no revival of finished instances, progress |
| Recovery loop (`engine.go:134,593`) | the list being enqueued | `Recover` | no unfinished instance is forgotten, whatever the backlog |
| Repository (`store/postgres.go`) | `definitions`, `instances` (version, lease), `execution_history`, `timers` | one statement per method | version check, lease rules, tenant scoping |
| Timer service (`timer/timer.go`) | Redis keys, notifications | `Schedule`, `Clear`, `fire`, `poll`, `Run` | no early resume, no lost timer |
| Task stream (Redis, external) | entries, pending list | XADD, XREADGROUP, XAUTOCLAIM, XACK | at-least-once delivery |
| Executor (`worker/worker.go`) | none | `Execute` by step type | a delay waits once |
| API (`api/handlers.go`, `api/auth.go`) | none; keys are parsed once | `createDefinition`, `createInstance` (insert, then enqueue), `getInstance` (two queries) | tenants stay apart, answers are consistent, an inserted instance is executed |
| Validator (`dsl/validator.go`) | none; the cycle search has its own | `Validate` | what it accepts satisfies `StepsAssumption` and does not loop |
| Process (`cmd/api/main.go`) | running goroutines | start, signal, return | a restart loses no instance |
| HTTP policy, config, telemetry | - | - | not modelled, see section 8 |

Interactions. A worker reads a message, claims the instance with a lease (`locked_by`,
`locked_until`), copies the row, and then makes a sequence of store calls: mark the step running
(a versioned update), append history, execute, complete history, clear the timer, store the
result (a versioned update), and wake the instance up again by a message or a timer. The
lease is released by a deferred call and the message is acknowledged last. The timer agents, the
API and the recovery loop produce messages concurrently.

What is hard: leases expire under live holders; messages are redelivered and reclaimed from
batches; a process may die, or a reply may be lost, between any two store calls; key-expiry
notifications are early, stale or lost; timer rows are deleted before their wake-up is
enqueued. `PROJECT.json` lists each of these hazards at its line.

## 2. Modules

```
Workflow <- Machine <- Instance <- Execution                    (abstract specification)
                             ^---- Postgres <--+
                                   Stream  <---+-- TimerService <- Engine <- Api  (implementation)
Backoff <- Validator (instantiates Instance with the definition under validation)
Backlog                                                         (queries with a LIMIT)
InstanceProofs (Instance) <- EngineProofs (Engine) <- RecordProofs <- RefinementProofs
  <- ApiProofs (Api)                            ValidatorProofs (Validator)
ExecutionProofs (Execution, InstanceProofs) <- ForkProofs (instantiated by RefinementProofs
  with the stored rows, as Rows)
Definitions; MCExecution, MCEngine, MCApi = Execution, Engine, Api + Definitions; MCValidator
```

* **Workflow**: steps, step states, fork states; `StepsAssumption` is what the validator
  guarantees. Of a step's config only the references are kept. A fire time is named by the
  attempt that computed it, so 0 is "none" and two waits of one step are told apart. `prev`
  stands for the local variable `previousStepState` of `executeNormalStep`.
* **Machine**: `machine.go`, function by function, on the value of `state.Forks`.
* **Instance**: the pure part of the engine's handlers: which step to run, the content that
  marks it running, the results an executor may return, and the content after each result.
* **Execution**: the abstract specification. An instance's content moves by `Create`, `Start`
  (a new attempt is stored before it is executed), `Finish` (the result of the attempt that is
  stored as running, applied to exactly that content) and `FinishEmpty`. No workers, leases,
  messages or timers. Its properties concern forks, joins, compensations and repetitions; the conditions
  on definitions that its theorems need (`CompensationsApart`, `ForksUnnested`, `JoinsGuarded`,
  `StepsInOrder`) are stated with them, and `MCExecution` assumes them of the definitions it runs (but for
  the one of its violation run).
* **Postgres**: the three tables and one operator per statement.
* **Stream**: the Redis consumer group, external. A slot is reused once it is acknowledged and
  nobody holds the message.
* **TimerService**: timer rows, keys, notifications and agents.
* **Engine**: everything composed. `pc[w]` is the next store call of worker `w`, `job[w]`
  its local copy; every store call is an action of its own.
* **Api**: one process. Keys, roles and tenants; the three handlers, one step per store call, in
  request slots; the engine's workers, agent and recovery loop, which run while `proc` is
  "serving"; `Signal` (the root context is cancelled: handlers go on, a worker that holds a lease
  can only release it, `Unwind`), `Exit` (`run` returns and does not wait for the engine; also a
  crash of the whole process), `Start`. A refused request changes nothing and is left out.
* **Backoff**: `RetryPolicy`'s functions on durations of `Width` bits, with the conversion of an
  out-of-range `float64` left to the processor.
* **Validator**: here the definition is a variable. `Check` stands for every check before the cycle
  search; the search is the recursive `visit` with an explicit stack, its roots in any order. The
  walk then advances an instance of the accepted definition with the operators of `Instance`.
* **Backlog**: the recovery list (oldest `updated_at` first) and the claim of due timers (oldest
  `fire_at` first) with their limits, over instances that are just ready, waiting or overdue. A worker
  may leave its lease behind (`KeepLease`, until `Expire`), which hides the instance from recovery and
  makes its message a duplicate, or lose it while it executes a step (`Overrun`) and then, late, delete
  a timer row that its successor has stored (`LateClear`, `engine.go:369`).

Correspondence of `pc` with the code: `advance` (after the claim), `append`, `execute`,
`complete`, `clearRow`/`clearKey` (`timers.Clear`), `update` (the second `UpdateInstance`),
`enqueue`, `schedule`/`setKey`/`fire`/`fireKey`/`fireKeyOnly` (`timers.Schedule` and `fire`),
`release`/`abort` (the deferred release after success or after an error), `ack`.

### Faults

`MaxFaults` bounds: a store call that fails without effect (`StoreError`, `ClaimError`,
`ReleaseError`, `AckError`, `ApiFails`, `RecoverFails`, `AgentError`), a call that takes effect
but whose reply is lost (`Reply`), a crash with restart (`Crash`), and a lease that expires while
its holder is alive (`HolderExpires`). The following are not counted, since they are normal:
reclaiming a pending message, duplicates, notifications that are early or missed, expiry of
a lease nobody uses any more. A cancelled context at shutdown looks like failing calls.

### Leases

Owner names are new for every claim (`nextClaimOwner`). `lockedBy` is the worker while it still
uses the name and `Orphan` afterwards. A process restarted with the same host and pid draws the
same names again, so an orphaned lease may be granted before it expires (`Claimable`).

### Time

`past[i]` is the set of fire times the clock has reached; a time may be reached before it is
stored, because durations may be zero and calls slow. Durations and backoffs are otherwise
arbitrary. PostgreSQL keeps microseconds of the nanoseconds in `WaitingTime`, so a poll may
come a moment early; the model has early wake-ups from expiring keys, which take the same path.

## 3. Abstractions

Payloads, templates, expressions, history inputs and error texts are left out. HTTP calls and
transforms succeed or fail; conditions take either branch or fail. A transform whose
`result_key` is `next_step` would be read back as a reference by `StepForCurrent`; definitions
are taken not to do that. Messages without `instance_id` are never produced by the code. Reads of
the immutable definition are merged with the following step. `BranchState.Completed` and error
texts are written and never read. `XADD` is refused when the `MsgIds` slots are full
(`StreamFull`), which behaves like a Redis error.

## 4. Runs

The `MCEngine` and `Api` runs check for deadlock (`Done` and `Rest` are the intended rest), and so
does Backlog; an execution may stop at a finished instance or at `MaxAttempts`, a validation at its
verdict, so deadlock is off there. Symmetry is used for safety only.

| Run | Instance | Shows |
|---|---|---|
| ExecutionSaga | the README's saga, then a fork whose two branches share a last step, jump back; 2 attempts | `ExecTypeOK`, `CompensationOrder`, `SagaComplete`, `JoinAfterBranches`, `OneBranchAtATime`, `FailedBranchRecorded`, `StepsRunOnce` |
| EngineLease | 1 delay, 2 workers, 2 messages, no agent, 1 fault | `TypeOK`, `SnapshotCurrent`, `AttemptExclusive`, `DelayFiresOnce`, `TerminalIsFinal`, `LeaseRespected`, `NoEarlyResume`, `ImplementsExecution` |
| EngineSaga | a branch with retry, compensation and jump back, 1 worker, batches of 2, 1 fault | `BoundedAttempts`, `ImplementsExecution` |
| EngineLiveCalls | 2 calls, 2 workers, 1 fault, fair | `OneKeyPerStep`, `CompletedHasHistory`, `Completion` |
| EngineLiveDelay | 1 delay, 1 worker, 1 agent, 1 fault, fair | `DelayFiresOnce`, `NoEarlyResume`, `Completion` |
| Validator | 16 600 definitions, walks of 8 steps, backoffs of 7 attempts | `AcceptedIsWellFormed`, `SearchIsExact`, `RoundsLeaveNormalPath`, `BackoffGrows` |
| Api | 1 delay, 1 worker, 1 agent, 2 tenants, 1 request slot, 1 restart, fair | `ServiceTypeOK`, `TenantIsolation`, `HistoryCoversState`, `RestartLosesNothing` |
| Backlog | 3 instances, limits 1 and 2, 1 loss of a wake-up or a lease, fair | `NoStarvation` |
| EngineWakeUp, EngineDelayedUndo, ExecutionNestedFork, ValidatorCycle | | expected violations, section 6 |

Bounds and why they are enough. Two workers are needed for every race on one row; a third adds
no new pair. One fault suffices for a lease to be lost at any point, or for a crash at any point.
A delay is the smallest definition whose execution crosses every store call, a wait and a resume,
which is why EngineLease uses it. Without the agent the recovery loop and early wake-ups still
resume the delay. Two messages allow a duplicate of every message; the recovery loop and the
agents keep producing more as slots become free. `MaxAttempts` = 6 in the engine runs is never
reached (attempts are bounded by retries and faults, `BoundedAttempts`), so it cuts nothing off; in
the Execution runs it is 2, which includes one restart or retry of every step. Instances do not
interact except through the stream, batches and limits: EngineSaga has batches with a message that
waits in memory, Backlog has several instances, and the theorems of section 7 hold for any number.
Api has one message slot, so that `XADD` is also refused to a handler, and no single faults: those
are Engine's, here the whole process fails. Three steps suffice for every cycle through one branch
or compensation step; the forked definitions have five. `Width` = 6 puts products beyond the type
within reach of the second attempt, and six attempts are more than it takes to reach every maximum.
`RecoverLimit` = 1 is the hardest case of starvation, since only
the head of the list is recovered.

Two workers with the timer agent under fairness are too large for TLC, so no engine run has a worker that
lost its lease delete the timer of its successor and asks what becomes of the instance. EngineLease has
the safety of two workers without timer rows; Backlog has this step and the liveness. The key and
notification cases of `NoEarlyResume` and `DelayFiresOnce` occur in EngineLiveDelay, which has the agent;
`BoundedAttempts` in EngineSaga is about retries, its definition has no delay.

## 5. Properties

* `SnapshotCurrent`: a worker's copy with the row's version is the row, whoever holds the
  lease. This is why checking only the version in `UpdateInstance` is sound.
* `AttemptExclusive`: no attempt is executed by two workers, even after a lost lease.
* `OneKeyPerStep`: all executions of a step show one idempotency key, and different steps
  different ones.
* `TerminalIsFinal`, `LeaseRespected`, `CompletedHasHistory`, `BoundedAttempts`, `NoEarlyResume`,
  `DelayFiresOnce`: see the comments in `Engine.tla`.
* `ImplementsExecution`: the rows' content, seen through the refinement mapping, is a
  behaviour of `Execution`, so what holds of Execution's content holds of the stored instances.
* `Completion` (liveness): every created instance is finished in the end.
* `SagaComplete`: when an instance is over, each compensation its steps called for is completed, or
  (a compensation failed) is still in the queue with the failed one at its head, so that what was
  not undone can be read off the row.
* `StepsRunOnce` (action property): a step that has completed or failed is not run again and keeps its
  recorded result, although conditions jump back to it and branches share it: `StepForCurrent` passes
  over a completed step. It passes over one only, so a shared step must be the last of its branch
  (finding 5).
* `AcceptedIsWellFormed`: the assumption under which everything else is checked and proved is
  what the validator establishes. `SearchIsExact`: the depth-first search agrees with the
  definition of a cycle. `RoundsLeaveNormalPath`: the validator's promise carried over to the
  machine, which computes the normal path with its own copy of the code: no step is run twice
  before the walk has left that path by starting a branch or a compensation (a delay counts as one
  execution, it succeeds in the walk).
* `BackoffGrows`: the first wait of every accepted policy is positive and capped. If its initial interval is
  at most half of the range of a duration (146 years), each wait is followed by a longer one until the
  maximum is reached, which is then kept, whatever the maximum and whatever the processor makes of an
  overflow. A wait above half of the range and below the maximum promises nothing for the next one
  (finding 6).
* `TenantIsolation`; `HistoryCoversState`: an answer of two queries shows no completed step without
  its history, because the row is read first and history is written first.
* `RestartLosesNothing` (liveness): if the process is in the end up for good, every instance is
  finished, wherever it was when the process went down. `NoStarvation` (liveness): an unfinished
  instance comes to a message with which a worker can run its next step, even behind a backlog and after
  its own wake-up was lost, its timer was deleted by a late worker or its lease was left behind; it holds
  because every pass that makes progress moves the instance to the end of the list and every
  waiting head becomes due. It says "eventually" only: an instance that lost its wake-up behind 500
  that wait for far timers is recovered no sooner than the first of those timers is due.

Fairness (`Fairness`): each worker's goroutine takes its next step and keeps reading new or pending
messages; the agent's and the recovery loop's tickers keep ticking; an inserted instance is
enqueued by its handler; clocks advance (fire times come, orphaned leases expire). The code
justifies them: they are goroutines in endless loops and real time. Faults, clients, expiring
keys and notifications owe nothing. The retry of executions is bounded by the bound on faults.
`ServiceSpec` assumes the same of the goroutines of a running process and of its handlers, and nothing
of clients, signals, exits and starts. `Backlog` assumes that messages are processed, time
passes, leases expire and both loops run; it asks nothing of late workers.

Every property has a mutant in `PROJECT.json`: a small plausible bug in a definition (the
operators commented "Mutant") under which TLC finds the property violated.

## 6. Findings

1. **Lost wake-up** (EngineWakeUp). A step enqueues its follow-up before the deferred release. A
   worker that is quick enough finds the instance busy and acknowledges the message as a duplicate
   (`engine.go:579`), though README.md:261 promises an acknowledgement "only after a
   successful transition or a confirmed duplicate claim". No fault is needed. The instance
   then waits for the recovery loop; `Completion` shows that it is finished all the same.
2. **A delay as a compensation never ends** (EngineDelayedUndo). `advanceCompensation` passes an
   empty previous state (`engine.go:262`), so each resume computes a new fire time.
3. **Nested forks** (ExecutionNestedFork). The outer join runs before the outer branches are
   complete, against README.md:269; the validator accepts the definition.
4. **Accepted cycles** (ValidatorCycle). `validateAcyclic` gives edges only to normal steps, so a cycle
   through a branch step or through a step that is anyone's `on_failure` is accepted, and
   `NextAfter` follows it for ever, though `validator_test.go:66` expects a "cycle validation error".

Two more follow from the limits that `StepsRunOnce` and `BackoffGrows` state; they have no run of their own,
TLC found them, the first with the definition given here, the second with durations of 6 bits.

5. **A shared chain is run again.** In a fork with the branches `left` and `right`, whose next is
   `charge`, whose next is `notify`, the second branch finds `charge` completed; `StepForCurrent` goes on to
   the step after it and does not look at the state of that one (`machine.go:45`). `notify` is executed
   once more and its stored result replaced, although it succeeded and this was stored; README.md:258
   knows of a repetition only when storing the completion fails. It has the same idempotency key.
6. **A backoff that wraps.** The validator accepts any positive interval. For a wait above half of the
   range of a duration the product is out of range; where the conversion yields the least duration
   (amd64), `next <= backoff` holds and `backoff * 2` (`types.go:86`) wraps to a negative wait: with an
   initial interval of 1500000h and the default maximum the first retry waits 30 s and the second
   none. README.md:259 promises "exponential backoff".

Noticed and not modelled: the API answers 202 with status `pending` where the README says 201 and
`running`; errors documented as 409 and 422 are 500 and 400.

## 7. Proofs

`tlapm` checks every proof to the last leaf. The assumptions are those of the models: `StepsAssumption`
(Workflow: the definition was accepted), `WorkersAssumption` (Postgres: no worker is called "nobody" or
"orphan") and, for the validator alone, `RequestsAssumption` (a request has the JSON type it is decoded
into), `BackoffAssumption` (the default intervals are positive, in order, and can be doubled) and
`BoundsAssumption` (`MaxAttempts` is a number). There is no bound on workers, instances, messages, agents, faults, attempts, requests or
restarts: the bounds of the runs are constants, of which nothing else is assumed.

**InstanceProofs**: what the handlers do to a content, by cases of the result: which fields they
leave alone, that only `StartStep` counts an attempt, that only a success completes a step, and
`WaitOK`, the rules of waiting (a waiting step is the current one or the head of the queue).

**ExecutionProofs**. The content of an instance in `Execution`, for every definition.

* `QueueIsQueue` says what the loop of `CompensationQueue` computes: the compensations of the failed step and
  of the completed ones, latest first, each one once. The recursion is unrolled to a sequence of queues,
  and a least counterexample among its indices is refuted (`LeastNatural`).
* `ReferencesAreSteps` (`ExecSpec => []ExecTypeOK`). The machine does not leave a set of steps that is
  `Closed`; all steps are one. `TypeInv` adds `QueueOK`: a compensating instance has a queue, so the `Tail` and
  the `Head` that `advanceCompensation` takes exist.
* `CompensationsKeepOrder` (`ExecSpec => []CompensationOrder`) and `SagasAreComplete`
  (`ExecSpec => []SagaComplete`), both for definitions with `CompensationsApart`: the other steps refer to
  compensations as `on_failure` only, and compensations have none of their own. The validator does not ask
  for it, and without it neither can be expected: a compensation that the normal path reaches has
  completed there while later steps are not undone yet. `MCExecution` assumes it of the definitions of its runs, so TLC
  evaluates it. `SagaOK` is the inductive invariant. `Forward`: until a step fails, the normal steps are
  closed and no compensation is touched. `Backward`: afterwards there is a plan, the queue as it was computed;
  the compensations completed since and the queue that is left make up the plan, and only the one in
  between may have started. Order and completeness are then facts about positions in the plan.

**ForkProofs**. Forks and the order of steps in `Execution`.

* `BranchesRunOneByOne`, `FailuresAreRecorded` and `JoinsWaitForBranches` (`ExecSpec =>` `[]OneBranchAtATime`,
  `[]FailedBranchRecorded`, `[]JoinAfterBranches`). `PathOK` is inductive: while an instance goes forward
  all started branches are over, or the machine is in exactly one branch, the current step is the
  one this branch records, and its siblings are completed or untouched; once something has failed no
  branch is running. `JoinOK` adds that a join has not begun before its fork's branches are over. The
  hypotheses are `ForksUnnested` (no branch leads to another fork or starts at its own join) and, for the
  joins, `JoinsGuarded` (every way from the first step to a join leads through its fork). The validator
  asks for neither, and without the first the properties fail (finding 3).
* `StepsAreDoneOnce` (`ExecSpec => StepsRunOnce`). `StepsInOrder`: the steps are listed in the order in which they
  run, but for leaves (steps that lead nowhere), which may be shared by branches and jumped back to. `OrderOK` is
  the invariant: the steps that have begun are listed before the current one, and before all those that the
  rest of the current fork may still reach. So the step that is run next has not been done, or it is a
  leaf, and then the machine passes over it. For a definition with a cycle (finding 4) no such order exists,
  and a shared step that leads on is run again (finding 5).

**EngineProofs**. `SnapshotsAreCurrent` (`Spec => []SnapshotCurrent`). The invariant by itself is not
inductive: a `Claim` must know that its message names an instance, and a save that `job[w].version`
is a number and that `Id(w)` is an instance. `IInv` adds `Shape`: `MessagesOK` (stream, batches and
jobs name instances), `RowsOK` and `JobsOK` (the fields the argument reads). A save then matches the
version, so the copy was the row, and it increments the version, so every other copy of the old
version becomes strictly older and stays so.

`AttemptsAreExclusive` (`Spec => []AttemptExclusive`). `AInv` adds `ContentOK` (rows and
copies have well-formed step states) and `AttemptsOK`: every recorded execution, and every worker
between marking a step and storing its result, has an attempt no greater than the row's; two such
workers, or a worker and another one's execution, never share an attempt. The key step is
`MarkStepRunning`: by `SnapshotCurrent` the copy is the row, so the new attempt is the row's plus
one and greater than anything recorded. `FinishedStaysFinished` (`Spec => TerminalIsFinal`) follows from
the same invariant: a worker whose version matches a finished row would hold a finished copy, but
workers that are about to save hold an unfinished one.

**RecordProofs**.

* `LeasesAreRespected` (`Spec => LeaseRespected`). `LeaseOK`: a lease in the name of a worker is for the
  instance the worker is working on, so the deferred release of one instance cannot free another.
* `KeysIdentifySteps` (`Spec => []OneKeyPerStep`). `KeysOK`: a stored key was handed out, no two steps
  have the same one, and a step that is being executed or was executed has its key in the row.
* `HistoryComesFirst` (`Spec => []CompletedHasHistory`). `HistoryOK`: a worker that is about to store a
  success has written it to the history; `RecordedKept`: the history never takes a result back.

**RefinementProofs**.

* `WaitingStepsWait` (`Spec => NoEarlyResume`). `RunOK`: rows and copies keep to `WaitOK`, what a worker
  has marked is running, and its result is one that an execution may have had by now.
* `EngineImplementsExecution` (`Spec => ImplementsExecution`), the refinement. The operators of the two
  instances of module Instance are the same (the lemmas `Same...`); one lemma per action then shows that
  it stutters or is a step of `Execution`: `SnapshotCurrent` gives that a save changes exactly the
  content that was read, `RunOK` that a result is applied to the attempt that produced it.
* `StoredReferencesAreSteps`, `EngineCompensates`, `EngineJoinsForks` and `EngineRunsStepsOnce` carry the theorems about
  `Execution` over to the stored rows: ForkProofs is instantiated with them (`Rows`), and the refinement
  gives `Spec => Rows!ExecSpec`. Their hypotheses are those above.
* `EngineIsTyped` (`Spec => []TypeOK`). The contents of the rows are typed by `StoredReferencesAreSteps`; with that,
  `DataOK` (copies, results, messages, timers, history and executions name instances and steps there are)
  is inductive: a copy is the row, or came from it by an operation that keeps the types.

* `RetriesAreBounded` (`Spec => []BoundedAttempts`) and `DelaysFireOnce` (`Spec => []DelayFiresOnce`), for definitions with
  `CompensationsApart`, `ForksUnnested`, `StepsInOrder` and `CompensationsPrompt` (no compensation is a delay).
  A cycle (finding 4) repeats a step without any fault and a delayed compensation (finding 2) is put off for
  ever, so such conditions are needed. `CountOK` is the account of who paid for each attempt. A worker
  drives the current attempt while it has marked the step and has the row's version and its lease; one that
  has claimed the row and lost the lease since is a stray, and there is one only after a fault. A driver is
  lost by a fault alone (`QuietAccounts`), and never beside another claim (`OneDriver`). So a step that
  is found running without a driver has a fault to charge the next attempt to, and any other attempt
  is the first, a configured retry, or the resumption of a delay, which succeeds because the stored fire
  time has passed (`ResumeOK`). Steps that are over stay so by `StepsRunOnce`. TLC checked `CountOK` as an
  invariant, and the four conditions, on the instances of the passing engine runs before it was proved.

**ValidatorProofs**. `AcceptedDefinitions` (`Spec => []AcceptedIsWellFormed`): the checks before the cycle
search imply `WellFormed`, so `StepsAssumption` is justified by the code. `SearchDecides`
(`Spec => []SearchIsExact`), by `SearchOK`: the stack is a path of different steps, the ones in `visiting`
(`StackOK`); the edges a call has followed lead to visited steps (`FollowedOK`); the visited steps
are closed under edges and hold no set from each of whose members an edge leads back into it
(`VisitedOK`). That two definitions of a cycle agree (a path back to its start, such a set) is
proved by taking least counterexamples.

`NormalPathHasNoRounds` (`Spec => []RoundsLeaveNormalPath`). The machine's iteration over branch steps
reaches the least closed set (by cardinality), so that validator and machine agree on the normal path;
up to the first branch or compensation the walk follows edges of the cycle search; and since these have no cycle, there is
no way back to a step. `BackoffsGrow` (`Spec => []BackoffGrows`) for every width of the integers, either conversion of an
out-of-range float, every maximum interval and every number of attempts, under the conditions the property
states (an initial interval, and a wait, of at most half of the range; finding 6 shows that they are needed):
powers of two are compared as numbers of subsets, and the recursive function that stands for the loop is
treated by a least counterexample.

**ApiProofs**. The engine's invariants are carried over to a service whose process drains and dies:
`SignalCut`, `RefusedCut`, `UnwindCut` and `ExitCut` show that the steps the engine does not have only cut work
off (`Cut`), and `CutCore` that this keeps them. `RestartsKeepTheInvariants` is the result for
`SnapshotCurrent`, `AttemptExclusive` and `CompletedHasHistory`. `ServiceInv` adds what each handler
relies on between its calls (`RequestOK`) and who owns what (`OwnersOK`). From it follow
`TenantsStayApart` (`ServiceSpec => []TenantIsolation`) and `AnswersAreConsistent`
(`ServiceSpec => []HistoryCoversState`): the history read second covers the row read first, since the engine
writes history first and never takes it back. `ServiceImplementsExecution` (`ServiceSpec =>
ImplementsExecution`): a signal, an exit and a start leave the rows alone, and the rest are steps of
the engine. `ServiceIsTyped` (`ServiceSpec => []ServiceTypeOK`) rests on it as `EngineIsTyped` does.

Only model-checked, and why:

* liveness (`Completion`, `RestartLosesNothing`, `NoStarvation`) and `ENABLED` are out of the prover's
  reach;
* what the violation runs refute, by counterexample.

`BoundedAttempts`, `DelayFiresOnce`, `StepsRunOnce` and the properties of forks and compensations do not hold of
every accepted definition; their theorems name the condition, and the findings show what happens
without it.

## 8. Not modelled

* `security/http.go`: a pure check of a URL and of resolved addresses; what matters to the engine is
  that a step may fail or a config be refused, which the models allow at any time.
* HTTP requests, templates and expressions of `worker/worker.go`: payloads are abstracted; every
  outcome they can have (success, failure, a condition's branch) is explored.
* `config`: values become constants. `telemetry`: written and never read.
* The two health endpoints, body limits and header parsing of the API; queries nothing calls
  (`GetDefinition`, `GetInstance`, `ListHistory`, `ListDueTimers`).
* Several processes with their own timer agents and recovery loops, beyond what two workers and the
  nondeterminism of agents and notifications cover.

## 9. Plan

Done: all modules above, their runs, and the theorems of section 7; the theorems that hold only for
some definitions state the condition, and `MCExecution` evaluates it. Left to
TLC alone: liveness, which the prover cannot treat.
