------------------------------- MODULE Machine -------------------------------
(***************************************************************************)
(* The state machine that walks a definition (internal/engine/machine.go). *)
(* Its methods change only state.Forks, so each returns the forks after    *)
(* the call together with the next step (NoStep: no next step).            *)
(* The lists BranchState.Completed and the texts BranchState.Error are     *)
(* only written, never read, and are left out.                             *)
(***************************************************************************)
EXTENDS Workflow

Position(id) == CHOOSE n \in DOMAIN Steps : Steps[n].id = id

firstJoinAfter(id) ==
  LET later == {n \in DOMAIN Steps : n > Position(id) /\ Steps[n].type = "join"}
  IN  IF later = {} THEN NoStep ELSE Steps[Min(later)].id

JoinOf(fork) ==
  IF StepByID(fork).join # NoStep THEN StepByID(fork).join ELSE firstJoinAfter(fork)

branchRefs(id) ==
  LET step == StepByID(id)
  IN  ({step.next} \cup IF step.type = "condition" THEN {step.then, step.else} ELSE {}) \ {NoStep}

\* collectBranchStep: the least set that holds the branch start and, up to the
\* join, every reference of its members.
BranchSteps(start, join) ==
  LET closed(S) == /\ start # join => start \in S
                   /\ \A s \in S : branchRefs(s) \ {join} \subseteq S
  IN  {s \in StepIds : \A S \in SUBSET StepIds : closed(S) => s \in S}

collectForkBranchSteps ==
  UNION {UNION {BranchSteps(b, JoinOf(f)) : b \in ToSet(StepByID(f).branches)} : f \in ForkIds}

\* NewMachine: the positions of the steps on the normal, linear path.
NormalPositions ==
  {n \in DOMAIN Steps : Steps[n].id \notin CompensationRefs \cup collectForkBranchSteps}

\* The first normal step, and the one that follows id on the normal path.
FirstNormal ==
  IF NormalPositions = {} THEN NoStep ELSE Steps[Min(NormalPositions)].id

NextNormal(id) ==
  LET later == {n \in NormalPositions : n > Position(id)}
  IN  IF Position(id) \in NormalPositions /\ later # {} THEN Steps[Min(later)].id ELSE NoStep

-----------------------------------------------------------------------------
startFork(forks, id) ==
  IF forks[id].status # ""
  THEN forks
  ELSE [forks EXCEPT ![id] =
          [status   |-> "running",
           join     |-> JoinOf(id),
           branches |-> [n \in DOMAIN StepByID(id).branches |->
                           [cur |-> StepByID(id).branches[n], status |-> "pending"]]]]

\* Mutant: pending branches are forgotten.
nextForkStepRunningOnly(forks, id) ==
  LET open == {n \in DOMAIN forks[id].branches : forks[id].branches[n].status = "running"}
  IN  IF open # {}
      THEN [next |-> forks[id].branches[Min(open)].cur, forks |-> forks]
      ELSE [next |-> forks[id].join, forks |-> [forks EXCEPT ![id].status = "completed"]]

\* Mutant: every open branch is set running.
nextForkStepAll(forks, id) ==
  LET isOpen(n) == forks[id].branches[n].status \in {"pending", "running"}
      open == {n \in DOMAIN forks[id].branches : isOpen(n)}
  IN  IF open # {}
      THEN [next  |-> forks[id].branches[Min(open)].cur,
            forks |-> [forks EXCEPT ![id].branches =
                         [n \in DOMAIN @ |-> IF isOpen(n) THEN [@[n] EXCEPT !.status = "running"] ELSE @[n]]]]
      ELSE [next |-> forks[id].join, forks |-> [forks EXCEPT ![id].status = "completed"]]

\* The first branch that is not over goes on; with none left, the join is next.
nextForkStep(forks, id) ==
  LET open == {n \in DOMAIN forks[id].branches :
                 forks[id].branches[n].status \in {"pending", "running"}}
  IN  IF open # {}
      THEN [next  |-> forks[id].branches[Min(open)].cur,
            forks |-> [forks EXCEPT ![id].branches[Min(open)].status = "running"]]
      ELSE [next  |-> forks[id].join,
            forks |-> [forks EXCEPT ![id].status = "completed"]]

\* The running branches <<fork, index>> of the running forks.
RunningBranches(forks) ==
  {b \in UNION {{f} \X DOMAIN forks[f].branches : f \in ForkIds} :
     /\ forks[b[1]].status = "running"
     /\ forks[b[1]].branches[b[2]].status = "running"}

\* branchForCurrentStep.  The code ranges over a Go map and returns the first
\* match in an unspecified order.  OneBranchAtATime states that at most one branch is
\* running, so there is at most one match and the choice below is the code's.
BranchesAt(forks, id) ==
  {b \in RunningBranches(forks) : forks[b[1]].branches[b[2]].cur = id}

branchForCurrentStep(forks, id) == CHOOSE b \in BranchesAt(forks, id) : TRUE

nextAfterBranchStep(forks, branch, id, result) ==
  LET f    == branch[1]
      n    == branch[2]
      next == IF result # NoStep THEN result ELSE StepByID(id).next
  IN  IF next \notin {NoStep, forks[f].join}
      THEN [next  |-> next,
            forks |-> [forks EXCEPT ![f].branches[n] = [cur |-> next, status |-> "running"]]]
      ELSE nextForkStep([forks EXCEPT ![f].branches[n] = [cur |-> NoStep, status |-> "completed"]], f)

markJoined(forks, id) ==
  [f \in ForkIds |-> IF forks[f].join = id /\ forks[f].status = "completed"
                     THEN [forks[f] EXCEPT !.status = "joined"]
                     ELSE forks[f]]

\* Mutant: the failure is not recorded.
MarkBranchFailedSkipped(forks, id) == forks

MarkBranchFailed(forks, id) ==
  IF BranchesAt(forks, id) = {}
  THEN forks
  ELSE LET b == branchForCurrentStep(forks, id)
       IN  [forks EXCEPT ![b[1]].status = "failed", ![b[1]].branches[b[2]].status = "failed"]

\* The step after id, whose execution named the step result (or NoStep).
NextAfter(forks, id, result) ==
  LET step   == StepByID(id)
      joined == IF step.type = "join" THEN markJoined(forks, id) ELSE forks
      named  == IF result # NoStep THEN result ELSE step.next
  IN  IF step.type = "fork"
      THEN nextForkStep(startFork(forks, id), id)
      ELSE IF BranchesAt(forks, id) # {}
      THEN nextAfterBranchStep(forks, branchForCurrentStep(forks, id), id, result)
      ELSE [forks |-> joined,
            next  |-> IF named # NoStep THEN named
                      ELSE IF step.type = "condition" THEN NoStep ELSE NextNormal(id)]

\* Mutant: a completed current step is run again.
StepForCurrentAgain(c) ==
  [next |-> IF c.cur = NoStep THEN FirstNormal ELSE c.cur, forks |-> c.forks]

\* The step to run for an instance; a current step that is already completed is passed over.
StepForCurrent(c) ==
  IF c.cur = NoStep
  THEN [next |-> FirstNormal, forks |-> c.forks]
  ELSE IF c.steps[c.cur].status = "completed"
  THEN NextAfter(c.forks, c.cur, c.steps[c.cur].next)
  ELSE [next |-> c.cur, forks |-> c.forks]

\* Mutants: oldest step first; without the failed step; with the empty references.
CompensationQueueForward(c, failed) ==
  LET refs == {n \in DOMAIN c.completed : StepByID(c.completed[n]).onFailure # NoStep}
      own  == StepByID(failed).onFailure
      done == [n \in 1 .. Cardinality(refs) |->
                 StepByID(c.completed[SetToSortSeq(refs, <)[n]]).onFailure]
  IN  done \o (IF own = NoStep \/ Contains(done, own) THEN <<>> ELSE <<own>>)

CompensationQueueOfCompleted(c, failed) ==
  LET add(queue, id) == LET ref == StepByID(id).onFailure
                        IN  IF ref = NoStep \/ Contains(queue, ref) THEN queue ELSE Append(queue, ref)
  IN  FoldLeft(add, <<>>, Reverse(c.completed))

CompensationQueueUnfiltered(c, failed) ==
  [n \in 1 .. Len(c.completed) + 1 |-> StepByID((<<failed>> \o Reverse(c.completed))[n]).onFailure]

\* The compensations of the failed step and of the completed steps, latest
\* first, each one once.
CompensationQueue(c, failed) ==
  LET ids == <<failed>> \o Reverse(c.completed)
      queue[n \in 0 .. Len(ids)] ==
        IF n = 0 THEN <<>>
        ELSE LET ref == StepByID(ids[n]).onFailure
             IN  IF ref = NoStep \/ Contains(queue[n - 1], ref) THEN queue[n - 1]
                 ELSE Append(queue[n - 1], ref)
  IN  queue[Len(ids)]

=============================================================================
