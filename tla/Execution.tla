------------------------------ MODULE Execution ------------------------------
(***************************************************************************)
(* What the engine promises of an instance, whoever executes it: its       *)
(* content advances one stored transition at a time.  A step is marked     *)
(* running, and its result is applied to the content that marked it; a     *)
(* running step may be started again (its worker died, or lost its lease)  *)
(* and each start is a new attempt.  There are no workers, leases,         *)
(* messages, timers or failures of a store here: module Engine adds them   *)
(* and implements this specification.                                      *)
(***************************************************************************)
EXTENDS Instance

CONSTANTS
  Instances,     \* the instances that may be created
  MaxAttempts    \* bound on the attempts of a step

ASSUME MaxAttemptsAssumption == MaxAttempts \in Nat

VARIABLES
  content,   \* content[i]: status, current step and runtime state of instance i
  past,      \* past[i]: the fire times <<step, attempt>> of i that the clock has reached
  keySeq     \* number of idempotency keys handed out (uuid.NewString)

execVars == <<content, past, keySeq>>

Absent == NewRuntimeState("absent")

ExecInit ==
  /\ content = [i \in Instances |-> Absent]
  /\ past = [i \in Instances |-> {}]
  /\ keySeq = 0

\* An instance that can be advanced: created, not over, not waiting for a time to come.
Ready(c, reached) == c.status \notin Terminal \cup {"absent"} /\ ~ WaitingOnTimer(c, reached)

\* CreateInstance.
Create(i) ==
  /\ content[i].status = "absent"
  /\ content' = [content EXCEPT ![i] = NewRuntimeState("pending")]
  /\ UNCHANGED <<past, keySeq>>

\* Advance up to markStepRunning.
Start(i) ==
  /\ Ready(content[i], past[i])
  /\ StepToRun(content[i]).next \in StepIds
  /\ content[i].steps[StepToRun(content[i]).next].attempt < MaxAttempts
  /\ content' = [content EXCEPT ![i] = StartStep(@, keySeq + 1)]
  /\ keySeq' = IF DrawsKey(content[i]) THEN keySeq + 1 ELSE keySeq
  /\ UNCHANGED past

\* Advance with no step left.
FinishEmpty(i) ==
  /\ Ready(content[i], past[i])
  /\ StepToRun(content[i]).next \notin StepIds
  /\ content' = [content EXCEPT ![i] = FinishWithoutStep(@)]
  /\ UNCHANGED <<past, keySeq>>

Running(c) == /\ c.status \in {"running", "compensating"}
              /\ c.cur # NoStep
              /\ c.steps[c.cur].status = "running"

\* The handlers of a step's result, which was computed when the clock had reached a part
\* of the fire times it has reached by now.
Finish(i) ==
  /\ Running(content[i])
  /\ \E reached \in SUBSET past[i] : \E out \in Execute(content[i], reached) :
       content' = [content EXCEPT ![i] = HandleResult(@, out)]
  /\ UNCHANGED <<past, keySeq>>

\* The clock reaches the fire time of an attempt.  It may do so before the result that
\* names the time is stored: a duration may be zero, or over by then.
Elapse(i) ==
  /\ \E time \in FireTimes(content[i]) \ past[i] :
       past' = [past EXCEPT ![i] = @ \cup {time}]
  /\ UNCHANGED <<content, keySeq>>

ExecNext ==
  \E i \in Instances : Create(i) \/ Start(i) \/ FinishEmpty(i) \/ Finish(i) \/ Elapse(i)

ExecSpec == ExecInit /\ [][ExecNext]_execVars

-----------------------------------------------------------------------------
\* Every variable has its type; in particular every reference the machine follows
\* (current step, queue, branch) is a step of the definition.
ExecTypeOK ==
  /\ content \in [Instances -> Content]
  /\ past \in [Instances -> SUBSET (StepIds \X Nat)]
  /\ keySeq \in Nat

\* s completed before t completed, or before t failed.
CompletedBefore(c, s, t) ==
  \/ \E m, n \in DOMAIN c.completed : m < n /\ c.completed[m] = s /\ c.completed[n] = t
  \/ HasCompleted(c, s) /\ c.steps[t].status = "failed"

\* Compensations run in reverse completion order, the failed step's own first: when the
\* compensation of s has been started, those of every later step are completed.  A
\* compensation that several steps share counts for the latest of them.
\* (CompensationQueue and advanceCompensation.)
CompensationOrder ==
  \A i \in Instances : LET c == content[i]
                           comp(s) == StepByID(s).onFailure
    IN  \A s, t \in StepIds :
          /\ comp(s) # NoStep /\ comp(t) # NoStep
          /\ CompletedBefore(c, s, t)
          /\ ~ \E u \in StepIds : comp(u) = comp(s) /\ CompletedBefore(c, s, u)
          /\ c.steps[comp(s)].status # ""
          => c.steps[comp(t)].status = "completed"

\* A failed instance shows what it has undone: the compensation of every step that
\* completed or failed is completed itself, or is left in the queue because one of them
\* failed; that one is the head, and nothing behind it was started.
SagaComplete ==
  \A i \in Instances : LET c == content[i] IN
    c.status = "failed" =>
      /\ \A s \in StepIds :
           (HasCompleted(c, s) \/ c.steps[s].status = "failed") /\ StepByID(s).onFailure # NoStep =>
             HasCompleted(c, StepByID(s).onFailure) \/ Contains(c.queue, StepByID(s).onFailure)
      /\ \A n \in DOMAIN c.queue : c.steps[c.queue[n]].status = IF n = 1 THEN "running" ELSE ""

RefsOn(V) == V \cup {NoStep}

\* The machine does not leave the steps of V: they hold the normal path and whatever they
\* refer to.
Closed(V) ==
  /\ V \subseteq StepIds
  /\ \A n \in NormalPositions : Steps[n].id \in V
  /\ \A s \in V : LET step == StepByID(s) IN
       /\ step.next \in RefsOn(V) /\ step.then \in RefsOn(V) /\ step.else \in RefsOn(V)
       /\ step.branches \in Seq(V)
       /\ s \in ForkIds => JoinOf(s) \in V

NormalSteps == StepIds \ CompensationRefs

\* The compensations of the definition stand apart: the other steps refer to them as
\* on_failure only, and they have no compensation of their own.  Theorems about sagas
\* need it; the validator does not ask for it.
CompensationsApart ==
  /\ \A s \in CompensationRefs : StepByID(s).onFailure = NoStep
  /\ Closed(NormalSteps)

\* No branch of a fork starts at the join of its fork or leads to another fork.  Theorems
\* about forks need it; the validator does not ask for it.
ForksUnnested ==
  \A f \in ForkIds : \A b \in ToSet(StepByID(f).branches) :
    b # JoinOf(f) /\ BranchSteps(b, JoinOf(f)) \cap ForkIds = {}

\* The steps that the machine may choose after s.
Successors(s) ==
  LET step == StepByID(s)
  IN  ({step.next, step.then, step.else, NextNormal(s)} \ {NoStep})
        \cup IF s \in ForkIds THEN ToSet(step.branches) \cup {JoinOf(s)} ELSE {}

\* Every way from the first step to the join of f, which is not in W, leads through f.
Guards(f, W) ==
  /\ FirstNormal \in RefsOn(W)
  /\ JoinOf(f) \notin W
  /\ \A s \in W \ {f} : Successors(s) \subseteq W

\* A join is reached only through its fork.  The validator does not ask for this either.
JoinsGuarded ==
  \A f \in ForkIds : JoinOf(f) \notin CompensationRefs /\ \E W \in SUBSET StepIds : Guards(f, W)

\* The steps that lead nowhere: they are off the normal path and name no step.
Leaves == {s \in StepIds \ ForkIds : branchRefs(s) = {} /\ Position(s) \notin NormalPositions}

\* Where the machine may go at the end of branch n of f.
BranchExits(f, n) ==
  LET branches == StepByID(f).branches
  IN  {JoinOf(f)} \cup {branches[m] : m \in {k \in DOMAIN branches : k > n}}

\* t is listed after s, or may be reached again.
Follows(s, t, again) == t \in again \/ Position(t) > Position(s)

\* The steps are listed in the order in which they run, the branches of a fork one after
\* the other, but for the steps of the set again, which are shared or jumped back to.
ListedInOrder(again) ==
  /\ \A s \in StepIds : \A t \in branchRefs(s) : Follows(s, t, again)
  /\ \A f \in ForkIds :
       /\ \A t \in ToSet(StepByID(f).branches) \cup {JoinOf(f)} : Follows(f, t, again)
       /\ \A n \in DOMAIN StepByID(f).branches :
            \A s \in BranchSteps(StepByID(f).branches[n], JoinOf(f)) : \A t \in BranchExits(f, n) :
              IF s \in again THEN t \notin again ELSE Follows(s, t, again)

\* Nothing but leaves is shared or jumped back to.  Theorems about repetitions need it; the
\* validator does not ask for this either.
StepsInOrder == \E again \in SUBSET Leaves : ListedInOrder(again)

\* A step is done once: after it has completed or failed it is not run again, although
\* conditions jump back to it and branches share it.  (StepForCurrent passes over it.)
StepsRunOnce ==
  [][\A i \in Instances : \A s \in StepIds :
       content[i].steps[s].status \in {"completed", "failed"} =>
         content'[i].steps[s] = content[i].steps[s]]_execVars

\* The join step of a started fork runs only after every branch of the fork has
\* completed (nextForkStep, nextAfterBranchStep).
JoinAfterBranches ==
  \A i \in Instances : \A f \in ForkIds :
    LET fork == content[i].forks[f] IN
      /\ fork.status # ""
      /\ content[i].steps[fork.join].status # ""
      => \A n \in DOMAIN fork.branches : fork.branches[n].status = "completed"

\* Branches are advanced one at a time: at most one branch of one fork is running
\* (nextForkStep).  It makes the lookup of branchForCurrentStep, which ranges over a map
\* in an unspecified order, unambiguous.
OneBranchAtATime ==
  \A i \in Instances : \A b1, b2 \in RunningBranches(content[i].forks) : b1 = b2

\* A branch that failed is recorded: no running branch is left at a step that has failed.
FailedBranchRecorded ==
  \A i \in Instances : \A s \in StepIds :
    content[i].steps[s].status = "failed" => BranchesAt(content[i].forks, s) = {}

=============================================================================
