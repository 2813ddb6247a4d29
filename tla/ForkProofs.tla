------------------------------ MODULE ForkProofs ------------------------------
(***************************************************************************)
(* Proofs about the forks of Execution and the order of its steps.         *)
(*                                                                         *)
(* Forks: while an instance goes forward, all branches that have started   *)
(* are over, or the machine is in exactly one branch and the others rest   *)
(* (PathOK); the join of a fork has not begun before the branches of the   *)
(* fork are over (JoinOK). The hypotheses are about the definition: no     *)
(* branch leads to another fork (ForksUnnested), a join is reached only    *)
(* through its fork (JoinsGuarded).                                        *)
(*                                                                         *)
(* Order: if the steps are listed in the order in which they run, but for  *)
(* leaves that are shared or jumped back to (StepsInOrder), then all steps *)
(* that have begun lie before the current one and before those to come     *)
(* (OrderOK), so that no step is run again once it is done.                *)
(***************************************************************************)
EXTENDS ExecutionProofs

-----------------------------------------------------------------------------
(* Definitions *)

\* Every branch of a fork is completed.
Over(fork) == \A n \in DOMAIN fork.branches : fork.branches[n].status = "completed"

\* A fork in state.Forks is the one that startFork made, as far as its shape goes.
Fits(fork, f) ==
  \/ fork = NoFork
  \/ /\ fork.status # ""
     /\ fork.join = JoinOf(f)
     /\ DOMAIN fork.branches = DOMAIN StepByID(f).branches

Fit(forks) == \A f \in ForkIds : Fits(forks[f], f)

\* The branches of f other than n are completed or have not begun.
OthersRest(fork, f, n) ==
  \A m \in DOMAIN fork.branches :
    m # n => \/ fork.branches[m].status = "completed"
             \/ fork.branches[m] = [cur |-> StepByID(f).branches[m], status |-> "pending"]

\* The machine is in branch n of fork f, and in no other.
InBranch(forks, cur, f, n) ==
  /\ n \in DOMAIN forks[f].branches
  /\ forks[f].status = "running"
  /\ forks[f].branches[n] = [cur |-> cur, status |-> "running"]
  /\ cur \in BranchSteps(StepByID(f).branches[n], JoinOf(f))
  /\ OthersRest(forks[f], f, n)
  /\ \A g \in ForkIds : g # f => Over(forks[g])

Idle(forks) == \A f \in ForkIds : Over(forks[f])

OnPath(forks, cur) == Idle(forks) \/ \E f \in ForkIds : \E n \in Nat : InBranch(forks, cur, f, n)

\* What step s may name as the next one.
Names(s) == branchRefs(s) \cup {NoStep}

NamesOK(c) == \A s \in StepIds \ ForkIds : c.steps[s].next \in Names(s)

Undoing(c) == c.status \in {"compensating", "failed"} \/ c.queue # <<>>

NoneFailed(steps) == \A s \in StepIds : steps[s].status # "failed"

PathOK(c) ==
  /\ Fit(c.forks)
  /\ NamesOK(c)
  /\ c.status = "running" => c.queue = <<>>
  /\ \A n \in DOMAIN c.queue : c.queue[n] \in CompensationRefs
  /\ Undoing(c) => RunningBranches(c.forks) = {}
  /\ ~ Undoing(c) => OnPath(c.forks, c.cur) /\ NoneFailed(c.steps)

\* The join of f has not been started before the branches of f are over.
JoinWaits(c, f) == c.steps[JoinOf(f)].status # "" => c.forks[f].status # "" /\ Over(c.forks[f])

\* Before f starts, the machine is in W.
Approach(forks, cur, f, W) ==
  forks[f].status = "" => cur \in RefsOn(W) /\ \A g \in ForkIds : forks[g].status # "" => g \in W

JoinOK(c) ==
  /\ \A f \in ForkIds : JoinWaits(c, f)
  /\ ~ Undoing(c) =>
       \A f \in ForkIds : \A W \in SUBSET StepIds : Guards(f, W) => Approach(c.forks, c.cur, f, W)

-----------------------------------------------------------------------------
(* Branches *)

LEMMA BranchRefsAreSteps ==
  ASSUME NEW s \in StepIds PROVE branchRefs(s) \subseteq StepIds
BY StepIsOne, StepsAreTyped DEF branchRefs, Refs

\* The steps of a branch, and not its join, are where the branch starts and what they
\* refer to.
LEMMA BranchIsClosed ==
  ASSUME NEW b \in StepIds, NEW j
  PROVE  /\ b # j => b \in BranchSteps(b, j)
         /\ \A s \in BranchSteps(b, j) : branchRefs(s) \ {j} \subseteq BranchSteps(b, j)
         /\ j \notin BranchSteps(b, j)
         /\ BranchSteps(b, j) \subseteq StepIds
<1> DEFINE closed(S) == /\ b # j => b \in S
                        /\ \A s \in S : branchRefs(s) \ {j} \subseteq S
<1>1. BranchSteps(b, j) = {s \in StepIds : \A S \in SUBSET StepIds : closed(S) => s \in S}
  BY DEF BranchSteps
<1>2. BranchSteps(b, j) \subseteq StepIds /\ (b # j => b \in BranchSteps(b, j))
  BY <1>1
<1>3. ASSUME NEW s \in BranchSteps(b, j), NEW t \in branchRefs(s) \ {j} PROVE t \in BranchSteps(b, j)
  <2>1. t \in StepIds
    BY <1>2, BranchRefsAreSteps
  <2>2. ASSUME NEW S \in SUBSET StepIds, closed(S) PROVE t \in S
    <3>1. s \in S
      BY <1>1, <2>2
    <3> QED
      BY <2>2, <3>1
  <2> QED
    BY <1>1, <2>1, <2>2
<1>4. j \notin BranchSteps(b, j)
  <2>1. closed(StepIds \ {j})
    BY BranchRefsAreSteps
  <2>2. PICK S : S = StepIds \ {j}
    OBVIOUS
  <2>3. S \in SUBSET StepIds /\ closed(S) /\ j \notin S
    BY <2>1, <2>2
  <2> QED
    BY <1>1, <2>3
<1> QED
  BY <1>2, <1>3, <1>4

\* The branches of a fork.
LEMMA BranchStarts ==
  ASSUME NEW f \in ForkIds, NEW n \in DOMAIN StepByID(f).branches
  PROVE  /\ StepByID(f).branches[n] \in StepIds
         /\ StepByID(f).branches[n] \in ToSet(StepByID(f).branches)
<1>1. f \in StepIds
  BY ForksAreSteps
<1>2. PICK starts : starts = StepByID(f).branches
  OBVIOUS
<1>3. starts \in Seq(StepIds)
  BY <1>1, <1>2, StepIdsAreClosed DEF Closed
<1>4. starts[n] \in StepIds
  BY <1>2, <1>3
<1> QED
  BY <1>2, <1>4 DEF ToSet

LEMMA NoForkInBranch ==
  ASSUME ForksUnnested, NEW f \in ForkIds, NEW n \in DOMAIN StepByID(f).branches
  PROVE  /\ StepByID(f).branches[n] \in BranchSteps(StepByID(f).branches[n], JoinOf(f))
         /\ \A s \in BranchSteps(StepByID(f).branches[n], JoinOf(f)) : s \notin ForkIds
<1>1. PICK b : b = StepByID(f).branches[n]
  OBVIOUS
<1>2. b \in StepIds /\ b \in ToSet(StepByID(f).branches)
  BY <1>1, BranchStarts
<1>3. b # JoinOf(f) /\ BranchSteps(b, JoinOf(f)) \cap ForkIds = {}
  BY <1>2 DEF ForksUnnested
<1>4. b \in BranchSteps(b, JoinOf(f))
  BY <1>2, <1>3, BranchIsClosed
<1> QED
  BY <1>1, <1>3, <1>4

\* The branch that the machine is in is the only running one.
LEMMA OneRunning ==
  ASSUME NEW forks, NEW cur, NEW f \in ForkIds, NEW n, InBranch(forks, cur, f, n)
  PROVE  RunningBranches(forks) = {<<f, n>>} /\ BranchesAt(forks, cur) = {<<f, n>>}
<1>1. <<f, n>> \in RunningBranches(forks)
  BY DEF InBranch, RunningBranches
<1>2. ASSUME NEW b \in RunningBranches(forks) PROVE b = <<f, n>>
  <2>1. PICK g \in ForkIds : \E m \in DOMAIN forks[g].branches :
          b = <<g, m>> /\ forks[g].branches[m].status = "running"
    BY <1>2 DEF RunningBranches
  <2>2. PICK m \in DOMAIN forks[g].branches : b = <<g, m>> /\ forks[g].branches[m].status = "running"
    BY <2>1
  <2>3. g = f
    BY <2>2 DEF InBranch, Over
  <2>4. m = n
    <3>1. SUFFICES ASSUME m # n PROVE FALSE
      OBVIOUS
    <3>2. OthersRest(forks[f], f, n) /\ m \in DOMAIN forks[f].branches
      BY <2>3 DEF InBranch
    <3>3. PICK branch : branch = forks[f].branches[m]
      OBVIOUS
    <3>4. branch.status = "completed" \/ branch = [cur |-> StepByID(f).branches[m], status |-> "pending"]
      BY <3>1, <3>2, <3>3 DEF OthersRest
    <3>5. branch.status # "running"
      BY <3>4
    <3> QED
      BY <2>2, <2>3, <3>3, <3>5
  <2> QED
    BY <2>2, <2>3, <2>4
<1>3. RunningBranches(forks) = {<<f, n>>}
  BY <1>1, <1>2
<1>4. forks[f].branches[n].cur = cur
  BY DEF InBranch
<1>5. BranchesAt(forks, cur) = {<<f, n>>}
  BY <1>3, <1>4 DEF BranchesAt
<1> QED
  BY <1>3, <1>5

LEMMA NoneRunning ==
  ASSUME NEW forks, Idle(forks), NEW cur
  PROVE  RunningBranches(forks) = {} /\ BranchesAt(forks, cur) = {}
<1>1. ASSUME NEW b \in RunningBranches(forks) PROVE FALSE
  <2>1. PICK g \in ForkIds : \E m \in DOMAIN forks[g].branches :
          b = <<g, m>> /\ forks[g].branches[m].status = "running"
    BY <1>1 DEF RunningBranches
  <2> QED
    BY <2>1 DEF Idle, Over
<1> QED
  BY <1>1 DEF BranchesAt

-----------------------------------------------------------------------------
(* Changes of a fork *)

\* Of forks, only branch n of f is changed; only the status of f is changed.
IsBranchSet(after, forks, f, n, branch) ==
  /\ \A g \in ForkIds : g # f => after[g] = forks[g]
  /\ after[f].status = forks[f].status /\ after[f].join = forks[f].join
  /\ DOMAIN after[f].branches = DOMAIN forks[f].branches
  /\ after[f].branches[n] = branch
  /\ \A m \in DOMAIN forks[f].branches : m # n => after[f].branches[m] = forks[f].branches[m]

IsStatusSet(after, forks, f, status) ==
  /\ \A g \in ForkIds : g # f => after[g] = forks[g]
  /\ after[f].status = status /\ after[f].join = forks[f].join /\ after[f].branches = forks[f].branches

LEMMA BranchIsSet ==
  ASSUME NEW V, NEW forks \in ForksOn(V), NEW f \in ForkIds, NEW n \in DOMAIN forks[f].branches, NEW branch,
         NEW after, after = [forks EXCEPT ![f].branches[n] = branch]
  PROVE  IsBranchSet(after, forks, f, n, branch)
<1>1. PICK fork, old, branches : fork = forks[f] /\ old = fork.branches /\ branches = [old EXCEPT ![n] = branch]
  OBVIOUS
<1>2. fork = [status |-> fork.status, join |-> fork.join, branches |-> fork.branches]
  BY <1>1, ForkOn
<1>3. [fork EXCEPT !.branches[n] = branch] = [status |-> fork.status, join |-> fork.join, branches |-> branches]
  BY <1>1, <1>2
<1>4. DOMAIN forks = ForkIds
  BY DEF ForksOn
<1>5. after[f] = [status |-> fork.status, join |-> fork.join, branches |-> branches]
  BY <1>1, <1>3, <1>4
<1>6. /\ DOMAIN branches = DOMAIN old
      /\ branches[n] = branch
      /\ \A m \in DOMAIN old : m # n => branches[m] = old[m]
  BY <1>1
<1>7. \A g \in ForkIds : g # f => after[g] = forks[g]
  BY <1>4
<1> QED
  BY <1>1, <1>5, <1>6, <1>7 DEF IsBranchSet

LEMMA BranchStatusIsSet ==
  ASSUME NEW V, NEW forks \in ForksOn(V), NEW f \in ForkIds, NEW n \in DOMAIN forks[f].branches, NEW status,
         NEW after, after = [forks EXCEPT ![f].branches[n].status = status]
  PROVE  IsBranchSet(after, forks, f, n, [cur |-> forks[f].branches[n].cur, status |-> status])
<1>1. PICK branch : branch = forks[f].branches[n]
  OBVIOUS
<1>2. branch \in BranchStateOn(V)
  BY <1>1, ForkOn, BranchOn
<1>3. [branch EXCEPT !.status = status] = [cur |-> branch.cur, status |-> status]
  BY <1>2 DEF BranchStateOn
<1>4. after = [forks EXCEPT ![f].branches[n] = [branch EXCEPT !.status = status]]
  BY <1>1
<1> QED
  BY <1>1, <1>3, <1>4, BranchIsSet

LEMMA StatusIsSet ==
  ASSUME NEW V, NEW forks \in ForksOn(V), NEW f \in ForkIds, NEW status,
         NEW after, after = [forks EXCEPT ![f].status = status]
  PROVE  IsStatusSet(after, forks, f, status)
<1>1. PICK fork : fork = forks[f]
  OBVIOUS
<1>2. fork = [status |-> fork.status, join |-> fork.join, branches |-> fork.branches] /\ DOMAIN forks = ForkIds
  BY <1>1, ForkOn DEF ForksOn
<1>3. after[f] = [status |-> status, join |-> fork.join, branches |-> fork.branches]
  BY <1>1, <1>2
<1> QED
  BY <1>1, <1>2, <1>3 DEF IsStatusSet

LEMMA StartedIsNew ==
  ASSUME NEW fork, fork.status # "" PROVE fork # NoFork
<1>1. SUFFICES ASSUME fork = [status |-> "", join |-> NoStep, branches |-> <<>>] PROVE FALSE
  BY DEF NoFork
<1>2. fork.status = ""
  BY <1>1
<1> QED
  BY <1>2

\* Neither change alters the shape of a started fork.
LEMMA FitKept ==
  ASSUME NEW forks, Fit(forks), NEW f \in ForkIds, forks[f].status # "", NEW after,
         \A g \in ForkIds : g # f => after[g] = forks[g],
         after[f].status # "", after[f].join = forks[f].join, DOMAIN after[f].branches = DOMAIN forks[f].branches
  PROVE  Fit(after)
<1>1. forks[f] # NoFork
  BY StartedIsNew
<1>2. Fits(after[f], f)
  BY <1>1 DEF Fit, Fits
<1> QED
  BY <1>2 DEF Fit

\* The branches of a fork are completed or have not begun.
AllRest(fork, f) ==
  \A m \in DOMAIN fork.branches :
    \/ fork.branches[m].status = "completed"
    \/ fork.branches[m] = [cur |-> StepByID(f).branches[m], status |-> "pending"]

\* What a call of the machine does to the forks: none is forgotten, only those of the set
\* new are started, and a fork that is over remains so.
Progress(after, forks, new) ==
  /\ \A g \in ForkIds : forks[g].status # "" => after[g].status # ""
  /\ \A g \in ForkIds : after[g].status # "" => forks[g].status # "" \/ g \in new
  /\ \A g \in ForkIds : forks[g].status # "" /\ Over(forks[g]) => Over(after[g])

\* The machine is between two branches of f, or at f.
Resting(forks, f) ==
  /\ Fit(forks) /\ forks[f].status # ""
  /\ AllRest(forks[f], f)
  /\ forks[f].status = "running" \/ Over(forks[f])
  /\ \A g \in ForkIds : g # f => Over(forks[g])

\* A fork whose branches rest goes on with the first pending one, or with its join.
StartsBranch(forks, f, r) ==
  \E m \in Nat :
    LET start == StepByID(f).branches[m]
    IN  /\ r.next = start /\ m \in DOMAIN forks[f].branches /\ forks[f].branches[m].status = "pending"
        /\ IsBranchSet(r.forks, forks, f, m, [cur |-> start, status |-> "running"])
        /\ InBranch(r.forks, start, f, m)
        /\ \A k \in DOMAIN forks[f].branches : forks[f].branches[k].status = "pending" => k = m \/ k > m

ReachesJoin(forks, f, r) ==
  /\ r.next = JoinOf(f)
  /\ IsStatusSet(r.forks, forks, f, "completed")
  /\ Idle(r.forks)

LEMMA ForkStepIs ==
  ASSUME ForksUnnested, NEW forks \in ForksOn(StepIds), NEW f \in ForkIds, Resting(forks, f),
         NEW r, r = nextForkStep(forks, f)
  PROVE  StartsBranch(forks, f, r) \/ ReachesJoin(forks, f, r)
<1>1. PICK branches : branches = forks[f].branches
  OBVIOUS
<1>2. PICK open : open = {n \in DOMAIN branches : branches[n].status \in {"pending", "running"}}
  OBVIOUS
<1>3. DOMAIN branches \in SUBSET Nat
  BY <1>1, ForkOn, BranchOn
<1>4. forks[f].join = JoinOf(f) /\ DOMAIN branches = DOMAIN StepByID(f).branches
  BY <1>1, StartedIsNew DEF Resting, Fit, Fits
<1>5. CASE open # {}
  <2>1. PICK m : m = Min(open)
    OBVIOUS
  <2>2. m \in open /\ \A k \in open : k >= m
    BY <1>2, <1>3, <1>5, <2>1, LeastNatural
  <2>3. m \in DOMAIN branches /\ branches[m].status # "completed" /\ m \in Nat
    BY <1>2, <1>3, <2>2
  <2>4. PICK start : start = StepByID(f).branches[m]
    OBVIOUS
  <2>5. branches[m] = [cur |-> start, status |-> "pending"]
    BY <1>1, <2>3, <2>4 DEF Resting, AllRest
  <2>6. PICK after : after = [forks EXCEPT ![f].branches[m].status = "running"]
    OBVIOUS
  <2>7. branches[m].cur = start /\ branches[m].status = "pending"
    <3>1. PICK branch : branch = branches[m]
      OBVIOUS
    <3>2. branch.cur = start /\ branch.status = "pending"
      BY <2>5, <3>1
    <3> QED
      BY <3>1, <3>2
  <2>8. r = [next |-> start, forks |-> after]
    BY <1>1, <1>2, <1>5, <2>1, <2>6, <2>7 DEF nextForkStep
  <2>9. IsBranchSet(after, forks, f, m, [cur |-> start, status |-> "running"])
    BY <1>1, <2>3, <2>6, <2>7, BranchStatusIsSet
  <2>10. ~ Over(forks[f])
    BY <1>1, <2>3 DEF Over
  <2>11. start \in BranchSteps(start, JoinOf(f))
    BY <1>4, <2>3, <2>4, NoForkInBranch
  <2>12. OthersRest(after[f], f, m)
    BY <2>9 DEF Resting, IsBranchSet, AllRest, OthersRest
  <2>13. InBranch(after, start, f, m)
    BY <1>1, <2>3, <2>4, <2>9, <2>10, <2>11, <2>12 DEF Resting, IsBranchSet, InBranch
  <2>14. \A k \in DOMAIN branches : branches[k].status = "pending" => k = m \/ k > m
    BY <1>2, <1>3, <2>2, <2>3
  <2>15. r.next = start /\ r.forks = after
    BY <2>8
  <2> QED
    BY <1>1, <2>3, <2>4, <2>7, <2>9, <2>13, <2>14, <2>15 DEF StartsBranch
<1>6. CASE open = {}
  <2>1. PICK after : after = [forks EXCEPT ![f].status = "completed"]
    OBVIOUS
  <2>2. r = [next |-> JoinOf(f), forks |-> after]
    BY <1>1, <1>2, <1>4, <1>6, <2>1 DEF nextForkStep
  <2>3. IsStatusSet(after, forks, f, "completed")
    BY <2>1, StatusIsSet
  <2>4. ASSUME NEW n \in DOMAIN branches PROVE branches[n].status = "completed"
    <3>1. PICK branch : branch = branches[n]
      OBVIOUS
    <3>2. branch.status # "pending"
      BY <1>2, <1>6, <3>1
    <3>3. branch.status = "completed" \/ branch = [cur |-> StepByID(f).branches[n], status |-> "pending"]
      BY <1>1, <3>1 DEF Resting, AllRest
    <3> QED
      BY <3>1, <3>2, <3>3
  <2>5. \A g \in ForkIds : Over(after[g])
    BY <1>1, <2>3, <2>4 DEF Resting, IsStatusSet, Over
  <2>6. r.next = JoinOf(f) /\ r.forks = after
    BY <2>2
  <2> QED
    BY <2>3, <2>5, <2>6 DEF ReachesJoin, Idle
<1> QED
  BY <1>5, <1>6

LEMMA ForkGoesOn ==
  ASSUME ForksUnnested, NEW forks \in ForksOn(StepIds), NEW f \in ForkIds, Resting(forks, f),
         NEW r, r = nextForkStep(forks, f)
  PROVE  /\ Fit(r.forks) /\ OnPath(r.forks, r.next) /\ Progress(r.forks, forks, {})
         /\ r.next \in ToSet(StepByID(f).branches) \cup {JoinOf(f)}
<1>1. Fit(forks) /\ forks[f].status # ""
  BY DEF Resting
<1>2. CASE StartsBranch(forks, f, r)
  <2>1. PICK m \in Nat :
          LET start == StepByID(f).branches[m]
          IN  /\ r.next = start /\ m \in DOMAIN forks[f].branches /\ forks[f].branches[m].status = "pending"
              /\ IsBranchSet(r.forks, forks, f, m, [cur |-> start, status |-> "running"])
              /\ InBranch(r.forks, start, f, m)
    BY <1>2 DEF StartsBranch
  <2>2. Fit(r.forks)
    <3>1. ASSUME NEW after, NEW branch, IsBranchSet(after, forks, f, m, branch) PROVE Fit(after)
      BY <1>1, <3>1, FitKept DEF IsBranchSet
    <3> QED
      BY <2>1, <3>1
  <2>3. ~ Over(forks[f])
    BY <2>1 DEF Over
  <2>4. Progress(r.forks, forks, {})
    BY <2>1, <2>3 DEF IsBranchSet, Progress
  <2>5. DOMAIN forks[f].branches = DOMAIN StepByID(f).branches
    BY <1>1, StartedIsNew DEF Fit, Fits
  <2>6. r.next \in ToSet(StepByID(f).branches)
    BY <2>1, <2>5, BranchStarts
  <2> QED
    BY <2>1, <2>2, <2>4, <2>6 DEF OnPath
<1>3. CASE ReachesJoin(forks, f, r)
  <2>1. r.next = JoinOf(f) /\ IsStatusSet(r.forks, forks, f, "completed") /\ Idle(r.forks)
    BY <1>3 DEF ReachesJoin
  <2>2. Fit(r.forks)
    <3>1. ASSUME NEW after, IsStatusSet(after, forks, f, "completed") PROVE Fit(after)
      BY <1>1, <3>1, FitKept DEF IsStatusSet
    <3> QED
      BY <2>1, <3>1
  <2>3. Progress(r.forks, forks, {})
    BY <1>1, <2>1 DEF IsStatusSet, Progress, Idle
  <2> QED
    BY <2>1, <2>2, <2>3 DEF OnPath
<1> QED
  BY <1>2, <1>3, ForkStepIs

LEMMA StartForkRests ==
  ASSUME NEW forks \in ForksOn(StepIds), NEW f \in ForkIds, Fit(forks), Idle(forks)
  PROVE  Resting(startFork(forks, f), f) /\ Progress(startFork(forks, f), forks, {f})
<1>1. CASE forks[f].status # ""
  <2>1. startFork(forks, f) = forks
    BY <1>1 DEF startFork
  <2>2. AllRest(forks[f], f) /\ Over(forks[f])
    BY DEF Idle, Over, AllRest
  <2> QED
    BY <1>1, <2>1, <2>2 DEF Resting, Idle, Progress
<1>2. CASE forks[f].status = ""
  <2>1. PICK starts : starts = StepByID(f).branches
    OBVIOUS
  <2>2. PICK branches : branches = [n \in DOMAIN starts |-> [cur |-> starts[n], status |-> "pending"]]
    OBVIOUS
  <2>3. PICK fork : fork = [status |-> "running", join |-> JoinOf(f), branches |-> branches]
    OBVIOUS
  <2>4. PICK after : after = [forks EXCEPT ![f] = fork]
    OBVIOUS
  <2>5. startFork(forks, f) = after
    BY <1>2, <2>1, <2>2, <2>3, <2>4 DEF startFork
  <2>6. after[f] = fork /\ \A g \in ForkIds : g # f => after[g] = forks[g]
    BY <2>4 DEF ForksOn
  <2>7. fork.status = "running" /\ fork.join = JoinOf(f) /\ fork.branches = branches
    BY <2>3
  <2>8. AllRest(fork, f)
    BY <2>1, <2>2, <2>7 DEF AllRest
  <2>9. Fits(fork, f)
    BY <2>1, <2>2, <2>7 DEF Fits
  <2>10. Fit(after)
    BY <2>6, <2>9 DEF Fit
  <2>11. Resting(after, f)
    BY <2>6, <2>7, <2>8, <2>10 DEF Resting, Idle
  <2>12. Progress(after, forks, {f})
    BY <1>2, <2>6, <2>7 DEF Progress
  <2> QED
    BY <2>5, <2>11, <2>12
<1> QED
  BY <1>1, <1>2

LEMMA ProgressOn ==
  ASSUME NEW a, NEW b, NEW c, NEW new, NEW more, Progress(b, a, new), Progress(c, b, more)
  PROVE  Progress(c, a, new \cup more)
BY DEF Progress

LEMMA JoinedRests ==
  ASSUME NEW forks \in ForksOn(StepIds), Fit(forks), Idle(forks), NEW id, NEW after, after = markJoined(forks, id)
  PROVE  Fit(after) /\ Idle(after) /\ Progress(after, forks, {})
<1>1. ASSUME NEW f \in ForkIds
      PROVE  /\ after[f].status = "" <=> forks[f].status = ""
             /\ Over(after[f])
             /\ Fits(after[f], f)
  <2>1. PICK fork : fork = forks[f]
    OBVIOUS
  <2>2. fork = [status |-> fork.status, join |-> fork.join, branches |-> fork.branches]
    BY <2>1, ForkOn
  <2>3. Over(fork) /\ Fits(fork, f)
    BY <2>1 DEF Idle, Fit
  <2>4. CASE fork.join = id /\ fork.status = "completed"
    <3>1. PICK joined : joined = [status |-> "joined", join |-> fork.join, branches |-> fork.branches]
      OBVIOUS
    <3>2. after[f] = joined
      BY <2>1, <2>2, <2>4, <3>1 DEF markJoined
    <3>3. joined.status = "joined" /\ joined.join = fork.join /\ joined.branches = fork.branches
      BY <3>1
    <3>4. fork # NoFork
      BY <2>4, StartedIsNew
    <3> QED
      BY <2>1, <2>3, <2>4, <3>2, <3>3, <3>4 DEF Over, Fits
  <2>5. CASE ~ (fork.join = id /\ fork.status = "completed")
    <3>1. after[f] = fork
      BY <2>1, <2>5 DEF markJoined
    <3> QED
      BY <2>1, <2>3, <3>1
  <2> QED
    BY <2>4, <2>5
<1> QED
  BY <1>1 DEF Fit, Idle, Progress

\* From step id of branch n of f, the machine goes on in the branch, or ends it.
StaysInBranch(forks, id, f, n, r) ==
  /\ r.next \in branchRefs(id)
  /\ IsBranchSet(r.forks, forks, f, n, [cur |-> r.next, status |-> "running"])
  /\ InBranch(r.forks, r.next, f, n)

EndsBranch(forks, f, n, r) ==
  \E after \in ForksOn(StepIds) :
    /\ IsBranchSet(after, forks, f, n, [cur |-> NoStep, status |-> "completed"])
    /\ Resting(after, f)
    /\ r = nextForkStep(after, f)

LEMMA BranchStepIs ==
  ASSUME NEW forks \in ForksOn(StepIds), NEW id \in StepIds, Fit(forks),
         NEW f \in ForkIds, NEW n \in Nat, InBranch(forks, id, f, n), NEW result \in Names(id),
         NEW r, r = nextAfterBranchStep(forks, <<f, n>>, id, result)
  PROVE  StaysInBranch(forks, id, f, n, r) \/ EndsBranch(forks, f, n, r)
<1>1. PICK next : next = IF result # NoStep THEN result ELSE StepByID(id).next
  OBVIOUS
<1>2. next = NoStep \/ next \in branchRefs(id)
  BY <1>1 DEF Names, branchRefs
<1>3. /\ n \in DOMAIN forks[f].branches /\ forks[f].status = "running"
      /\ id \in BranchSteps(StepByID(f).branches[n], JoinOf(f))
      /\ OthersRest(forks[f], f, n)
      /\ \A g \in ForkIds : g # f => Over(forks[g])
  BY DEF InBranch
<1>4. forks[f].join = JoinOf(f) /\ DOMAIN forks[f].branches = DOMAIN StepByID(f).branches
  BY <1>3, StartedIsNew DEF Fit, Fits
<1>5. CASE next \notin {NoStep, JoinOf(f)}
  <2>1. PICK branch : branch = [cur |-> next, status |-> "running"]
    OBVIOUS
  <2>2. PICK after : after = [forks EXCEPT ![f].branches[n] = branch]
    OBVIOUS
  <2>3. r = [next |-> next, forks |-> after]
    BY <1>1, <1>4, <1>5, <2>1, <2>2 DEF nextAfterBranchStep
  <2>4. IsBranchSet(after, forks, f, n, branch)
    BY <1>3, <2>2, BranchIsSet
  <2>5. next \in BranchSteps(StepByID(f).branches[n], JoinOf(f))
    BY <1>2, <1>3, <1>4, <1>5, BranchStarts, BranchIsClosed
  <2>6. OthersRest(after[f], f, n)
    BY <1>3, <2>4 DEF IsBranchSet, OthersRest
  <2>7. InBranch(after, next, f, n)
    BY <1>3, <2>1, <2>4, <2>5, <2>6 DEF IsBranchSet, InBranch
  <2>8. r.next = next /\ r.forks = after
    BY <2>3
  <2> QED
    BY <1>2, <1>5, <2>1, <2>4, <2>7, <2>8 DEF StaysInBranch
<1>6. CASE next \in {NoStep, JoinOf(f)}
  <2>1. PICK branch : branch = [cur |-> NoStep, status |-> "completed"]
    OBVIOUS
  <2>2. PICK after : after = [forks EXCEPT ![f].branches[n] = branch]
    OBVIOUS
  <2>3. r = nextForkStep(after, f)
    BY <1>1, <1>4, <1>6, <2>1, <2>2 DEF nextAfterBranchStep
  <2>4. IsBranchSet(after, forks, f, n, branch)
    BY <1>3, <2>2, BranchIsSet
  <2>5. Fit(after)
    BY <1>3, <2>4, FitKept DEF IsBranchSet
  <2>6. branch.status = "completed"
    BY <2>1
  <2>7. AllRest(after[f], f)
    BY <1>3, <2>4, <2>6 DEF IsBranchSet, OthersRest, AllRest
  <2>8. Resting(after, f)
    BY <1>3, <2>4, <2>5, <2>7 DEF IsBranchSet, Resting
  <2>9. after \in ForksOn(StepIds)
    <3>1. branch \in BranchStateOn(StepIds)
      BY <2>1 DEF BranchStateOn, RefsOn
    <3> QED
      BY <1>3, <2>2, <3>1, SetBranch
  <2> QED
    BY <2>1, <2>3, <2>4, <2>8, <2>9 DEF EndsBranch
<1> QED
  BY <1>5, <1>6

LEMMA BranchGoesOn ==
  ASSUME ForksUnnested, NEW forks \in ForksOn(StepIds), NEW id \in StepIds, Fit(forks),
         NEW f \in ForkIds, NEW n \in Nat, InBranch(forks, id, f, n), NEW result \in Names(id),
         NEW r, r = nextAfterBranchStep(forks, <<f, n>>, id, result)
  PROVE  /\ Fit(r.forks) /\ OnPath(r.forks, r.next) /\ Progress(r.forks, forks, {})
         /\ r.next \in branchRefs(id) \cup ToSet(StepByID(f).branches) \cup {JoinOf(f)}
<1>1. n \in DOMAIN forks[f].branches /\ forks[f].status = "running"
  BY DEF InBranch
<1>2. ~ Over(forks[f])
  <2>1. PICK branch : branch = forks[f].branches[n]
    OBVIOUS
  <2>2. branch = [cur |-> id, status |-> "running"]
    BY <2>1 DEF InBranch
  <2>3. branch.status # "completed"
    BY <2>2
  <2> QED
    BY <1>1, <2>1, <2>3 DEF Over
<1>3. ASSUME NEW after, NEW branch, IsBranchSet(after, forks, f, n, branch)
      PROVE  Progress(after, forks, {}) /\ Fit(after)
  <2>1. Progress(after, forks, {})
    BY <1>2, <1>3 DEF IsBranchSet, Progress
  <2>2. Fit(after)
    BY <1>1, <1>3, FitKept DEF IsBranchSet
  <2> QED
    BY <2>1, <2>2
<1>4. CASE StaysInBranch(forks, id, f, n, r)
  BY <1>3, <1>4 DEF StaysInBranch, OnPath
<1>5. CASE EndsBranch(forks, f, n, r)
  <2>1. PICK after \in ForksOn(StepIds) :
          /\ IsBranchSet(after, forks, f, n, [cur |-> NoStep, status |-> "completed"])
          /\ Resting(after, f)
          /\ r = nextForkStep(after, f)
    BY <1>5 DEF EndsBranch
  <2>2. /\ Fit(r.forks) /\ OnPath(r.forks, r.next) /\ Progress(r.forks, after, {})
        /\ r.next \in ToSet(StepByID(f).branches) \cup {JoinOf(f)}
    BY <2>1, ForkGoesOn
  <2>3. Progress(r.forks, forks, {})
    BY <1>3, <2>1, <2>2, ProgressOn
  <2> QED
    BY <2>2, <2>3
<1> QED
  BY <1>4, <1>5, BranchStepIs

\* Where the machine may go from id: to a successor of id, or of a fork it has started.
Ahead(forks, id, next) ==
  \/ next \in RefsOn(Successors(id))
  \/ \E g \in ForkIds : forks[g].status # "" /\ next \in Successors(g)

\* What NextAfter(forks, id, ...) returns.
GoesOn(forks, id, r) ==
  /\ Fit(r.forks) /\ OnPath(r.forks, r.next)
  /\ Progress(r.forks, forks, {id})
  /\ id \in ForkIds => r.forks[id].status # ""
  /\ Ahead(forks, id, r.next)

LEMMA SuccessorsOf ==
  ASSUME NEW s \in StepIds
  PROVE  /\ branchRefs(s) \subseteq Successors(s) /\ NextNormal(s) \in RefsOn(Successors(s))
         /\ s \in ForkIds => ToSet(StepByID(s).branches) \cup {JoinOf(s)} \subseteq Successors(s)
<1>1. PICK step : step = StepByID(s)
  OBVIOUS
<1>2. {step.next, step.then, step.else, NextNormal(s)} \ {NoStep} \subseteq Successors(s)
  BY <1>1 DEF Successors
<1>3. s \in ForkIds => ToSet(step.branches) \cup {JoinOf(s)} \subseteq Successors(s)
  BY <1>1 DEF Successors
<1> QED
  BY <1>1, <1>2, <1>3 DEF branchRefs, RefsOn

LEMMA MachineGoesOn ==
  ASSUME ForksUnnested, NEW forks \in ForksOn(StepIds), NEW id \in StepIds, Fit(forks), OnPath(forks, id),
         NEW result, id \notin ForkIds => result \in Names(id),
         NEW r, r = NextAfter(forks, id, result)
  PROVE  GoesOn(forks, id, r)
<1>1. CASE id \in ForkIds
  <2>1. Idle(forks)
    <3>1. ASSUME NEW f \in ForkIds, NEW n \in Nat, InBranch(forks, id, f, n) PROVE FALSE
      <4>1. /\ n \in DOMAIN forks[f].branches /\ forks[f].status = "running"
            /\ id \in BranchSteps(StepByID(f).branches[n], JoinOf(f))
        BY <3>1 DEF InBranch
      <4>2. DOMAIN forks[f].branches = DOMAIN StepByID(f).branches
        BY <4>1, StartedIsNew DEF Fit, Fits
      <4> QED
        BY <1>1, <4>1, <4>2, NoForkInBranch
    <3> QED
      BY <3>1 DEF OnPath
  <2>2. PICK started : started = startFork(forks, id)
    OBVIOUS
  <2>3. Resting(started, id) /\ Progress(started, forks, {id})
    BY <1>1, <2>1, <2>2, StartForkRests
  <2>4. started \in ForksOn(StepIds)
    BY <1>1, <2>2, StartForkOn, StepIdsAreClosed
  <2>5. r = nextForkStep(started, id)
    BY <1>1, <2>2, ForksAreSteps DEF NextAfter
  <2>6. /\ Fit(r.forks) /\ OnPath(r.forks, r.next) /\ Progress(r.forks, started, {})
        /\ r.next \in ToSet(StepByID(id).branches) \cup {JoinOf(id)}
    BY <1>1, <2>3, <2>4, <2>5, ForkGoesOn
  <2>7. Progress(r.forks, forks, {id})
    BY <2>3, <2>6, ProgressOn
  <2>8. started[id].status # ""
    BY <2>3 DEF Resting
  <2>9. r.forks[id].status # ""
    BY <1>1, <2>6, <2>8 DEF Progress
  <2>10. Ahead(forks, id, r.next)
    BY <1>1, <2>6, SuccessorsOf DEF Ahead, RefsOn
  <2> QED
    BY <2>6, <2>7, <2>9, <2>10 DEF GoesOn
<1>2. CASE id \notin ForkIds /\ Idle(forks)
  <2>1. StepByID(id).type # "fork" /\ BranchesAt(forks, id) = {}
    BY <1>2, ForkTypes, NoneRunning
  <2>2. PICK joined, next :
          /\ joined = IF StepByID(id).type = "join" THEN markJoined(forks, id) ELSE forks
          /\ next = LET named == IF result # NoStep THEN result ELSE StepByID(id).next
                    IN  IF named # NoStep THEN named
                        ELSE IF StepByID(id).type = "condition" THEN NoStep ELSE NextNormal(id)
    OBVIOUS
  <2>3. r = [forks |-> joined, next |-> next]
    BY <2>1, <2>2 DEF NextAfter
  <2>4. r.forks = joined /\ r.next = next
    BY <2>3
  <2>5. Progress(forks, forks, {})
    BY DEF Progress
  <2>6. Fit(joined) /\ Idle(joined) /\ Progress(joined, forks, {})
    BY <1>2, <2>2, <2>5, JoinedRests
  <2>7. Progress(joined, forks, {id})
    BY <2>6 DEF Progress
  <2>8. next \in RefsOn(Successors(id))
    <3>1. StepByID(id).next \in Names(id) /\ result \in Names(id)
      BY <1>2 DEF Names, branchRefs
    <3>2. NoStep \in RefsOn(Successors(id)) /\ Names(id) \subseteq RefsOn(Successors(id))
      BY SuccessorsOf DEF RefsOn, Names
    <3> QED
      BY <2>2, <3>1, <3>2, SuccessorsOf
  <2> QED
    BY <1>2, <2>4, <2>6, <2>7, <2>8 DEF GoesOn, OnPath, Ahead
<1>3. CASE id \notin ForkIds /\ ~ Idle(forks)
  <2>1. PICK f \in ForkIds : \E n \in Nat : InBranch(forks, id, f, n)
    BY <1>3 DEF OnPath
  <2>2. PICK n \in Nat : InBranch(forks, id, f, n)
    BY <2>1
  <2>3. BranchesAt(forks, id) = {<<f, n>>}
    BY <2>2, OneRunning
  <2>4. branchForCurrentStep(forks, id) = <<f, n>>
    BY <2>3 DEF branchForCurrentStep
  <2>5. r = nextAfterBranchStep(forks, <<f, n>>, id, result)
    <3>1. StepByID(id).type # "fork" /\ BranchesAt(forks, id) # {}
      BY <1>3, <2>3, ForkTypes
    <3> QED
      BY <2>4, <3>1 DEF NextAfter
  <2>6. /\ Fit(r.forks) /\ OnPath(r.forks, r.next) /\ Progress(r.forks, forks, {})
        /\ r.next \in branchRefs(id) \cup ToSet(StepByID(f).branches) \cup {JoinOf(f)}
    BY <1>3, <2>2, <2>5, BranchGoesOn
  <2>7. Progress(r.forks, forks, {id})
    BY <2>6 DEF Progress
  <2>8. forks[f].status # ""
    BY <2>2 DEF InBranch
  <2>9. Ahead(forks, id, r.next)
    BY <2>6, <2>8, SuccessorsOf, ForksAreSteps DEF Ahead, RefsOn
  <2> QED
    BY <1>3, <2>6, <2>7, <2>9 DEF GoesOn
<1> QED
  BY <1>1, <1>2, <1>3

\* Until f is started, the machine does not leave W.
LEMMA ApproachKept ==
  ASSUME NEW f \in ForkIds, NEW W, Guards(f, W), NEW forks, NEW id \in StepIds, Approach(forks, id, f, W),
         NEW r, GoesOn(forks, id, r)
  PROVE  Approach(r.forks, r.next, f, W)
<1>1. PICK after, next : after = r.forks /\ next = r.next
  OBVIOUS
<1>2. Progress(after, forks, {id}) /\ Ahead(forks, id, next) /\ (id \in ForkIds => after[id].status # "")
  BY <1>1 DEF GoesOn
<1>3. SUFFICES ASSUME after[f].status = ""
               PROVE  next \in RefsOn(W) /\ \A g \in ForkIds : after[g].status # "" => g \in W
  BY <1>1 DEF Approach
<1>4. forks[f].status = "" /\ id # f
  BY <1>2, <1>3 DEF Progress
<1>5. id \in W /\ \A g \in ForkIds : forks[g].status # "" => g \in W
  BY <1>4, NoStepIsNone DEF Approach, RefsOn
<1>6. \A s \in W : s # f => Successors(s) \subseteq W
  BY DEF Guards
<1>7. next \in RefsOn(W)
  BY <1>2, <1>4, <1>5, <1>6 DEF Ahead, RefsOn
<1>8. \A g \in ForkIds : after[g].status # "" => g \in W
  BY <1>2, <1>5 DEF Progress
<1> QED
  BY <1>7, <1>8

\* A step that the machine runs is no join of a fork with branches to run.
LEMMA StartedJoin ==
  ASSUME NEW forks, NEW id \in StepIds, Fit(forks), OnPath(forks, id),
         NEW f \in ForkIds, id = JoinOf(f), forks[f].status # ""
  PROVE  Over(forks[f])
<1>1. CASE Idle(forks)
  BY <1>1 DEF Idle
<1>2. CASE ~ Idle(forks)
  <2>1. PICK g \in ForkIds : \E n \in Nat : InBranch(forks, id, g, n)
    BY <1>2 DEF OnPath
  <2>2. PICK n \in Nat : InBranch(forks, id, g, n)
    BY <2>1
  <2>3. CASE g # f
    BY <2>2, <2>3 DEF InBranch
  <2>4. CASE g = f
    <3>1. id \in BranchSteps(StepByID(f).branches[n], JoinOf(f)) /\ n \in DOMAIN forks[f].branches
      BY <2>2, <2>4 DEF InBranch
    <3>2. n \in DOMAIN StepByID(f).branches
      BY <3>1, StartedIsNew DEF Fit, Fits
    <3> QED
      BY <3>1, <3>2, BranchStarts, BranchIsClosed
  <2> QED
    BY <2>3, <2>4
<1> QED
  BY <1>1, <1>2

\* Nothing runs once a branch has failed.
LEMMA NoneAfterFailure ==
  ASSUME NEW forks \in ForksOn(StepIds), NEW id, Fit(forks), OnPath(forks, id),
         NEW after, after = MarkBranchFailed(forks, id)
  PROVE  RunningBranches(after) = {} /\ Fit(after) /\ Progress(after, forks, {})
<1>1. CASE Idle(forks)
  <2>1. after = forks /\ RunningBranches(forks) = {}
    BY <1>1, NoneRunning DEF MarkBranchFailed
  <2> QED
    BY <2>1 DEF Progress
<1>2. CASE ~ Idle(forks)
  <2>1. PICK f \in ForkIds : \E n \in Nat : InBranch(forks, id, f, n)
    BY <1>2 DEF OnPath
  <2>2. PICK n \in Nat : InBranch(forks, id, f, n)
    BY <2>1
  <2>3. RunningBranches(forks) = {<<f, n>>} /\ BranchesAt(forks, id) = {<<f, n>>} /\ n \in DOMAIN forks[f].branches
    BY <2>2, OneRunning DEF InBranch
  <2>4. PICK stopped : stopped = [forks EXCEPT ![f].status = "failed"]
    OBVIOUS
  <2>5. IsStatusSet(stopped, forks, f, "failed") /\ stopped \in ForksOn(StepIds)
    BY <2>4, StatusIsSet, SetStatus DEF ForkStatuses
  <2>6. after = [stopped EXCEPT ![f].branches[n].status = "failed"]
    <3>1. branchForCurrentStep(forks, id) = <<f, n>>
      BY <2>3 DEF branchForCurrentStep
    <3> QED
      BY <2>3, <2>4, <3>1 DEF MarkBranchFailed
  <2>7. n \in DOMAIN stopped[f].branches
    BY <2>3, <2>5 DEF IsStatusSet
  <2>8. IsBranchSet(after, stopped, f, n, [cur |-> stopped[f].branches[n].cur, status |-> "failed"])
    BY <2>5, <2>6, <2>7, BranchStatusIsSet
  <2>9. after[f].status = "failed" /\ \A g \in ForkIds : g # f => after[g] = forks[g]
    BY <2>5, <2>8 DEF IsBranchSet, IsStatusSet
  <2>10. ASSUME NEW b \in RunningBranches(after) PROVE FALSE
    <3>1. PICK g \in ForkIds : /\ after[g].status = "running"
                               /\ \E m \in DOMAIN after[g].branches : after[g].branches[m].status = "running"
      BY <2>10 DEF RunningBranches
    <3>2. g # f
      BY <2>9, <3>1
    <3> QED
      BY <2>2, <2>9, <3>1, <3>2 DEF InBranch, Over
  <2>11. forks[f].status # "" /\ ~ Over(forks[f])
    <3>1. PICK branch : branch = forks[f].branches[n]
      OBVIOUS
    <3>2. branch = [cur |-> id, status |-> "running"] /\ forks[f].status = "running"
      BY <2>2, <3>1 DEF InBranch
    <3>3. branch.status # "completed"
      BY <3>2
    <3> QED
      BY <2>3, <3>1, <3>2, <3>3 DEF Over
  <2>12. after[f].join = forks[f].join /\ DOMAIN after[f].branches = DOMAIN forks[f].branches
    BY <2>5, <2>8 DEF IsBranchSet, IsStatusSet
  <2>13. Fit(after)
    BY <2>9, <2>11, <2>12, FitKept
  <2>14. Progress(after, forks, {})
    BY <2>9, <2>11 DEF Progress
  <2> QED
    BY <2>10, <2>13, <2>14
<1> QED
  BY <1>1, <1>2

-----------------------------------------------------------------------------
(* What the handlers do to an instance *)

\* Steps of T may have been started; what a step names is something it may name.
Changed(new, old, T) ==
  \A s \in StepIds :
    \/ new[s] = old[s]
    \/ (s \notin ForkIds => new[s].next \in Names(s)) /\ (old[s].status # "" \/ s \in T)

\* The machine stays on the path to each fork, in it, and after it.
Leads(forks, cur, after, next) ==
  /\ Fit(after) /\ OnPath(after, next) /\ Progress(after, forks, StepIds)
  /\ \A f \in ForkIds : \A W \in SUBSET StepIds :
       Guards(f, W) /\ Approach(forks, cur, f, W) => Approach(after, next, f, W)

\* From c to d, the machine goes forward or undoes.
Forwards(c, d) ==
  /\ ~ Undoing(c) /\ ~ Undoing(d)
  /\ Changed(d.steps, c.steps, {d.cur}) /\ NoneFailed(d.steps)
  /\ Leads(c.forks, c.cur, d.forks, d.cur)

Backwards(c, d) ==
  /\ Undoing(d) /\ d.status # "running"
  /\ Changed(d.steps, c.steps, CompensationRefs)
  /\ \A n \in DOMAIN d.queue : d.queue[n] \in CompensationRefs
  /\ Fit(d.forks) /\ RunningBranches(d.forks) = {} /\ Progress(d.forks, c.forks, StepIds)

LEMMA ChangedAt ==
  ASSUME NEW old \in [StepIds -> StepState], NEW id \in StepIds, NEW state,
         id \notin ForkIds => state.next \in Names(id), NEW T, old[id].status # "" \/ id \in T,
         NEW new, new = [old EXCEPT ![id] = state]
  PROVE  Changed(new, old, T)
BY DEF Changed

LEMMA NoneFailedAt ==
  ASSUME NEW old \in [StepIds -> StepState], NoneFailed(old), NEW id \in StepIds, NEW state,
         state.status # "failed", NEW new, new = [old EXCEPT ![id] = state]
  PROVE  NoneFailed(new)
BY DEF NoneFailed

LEMMA NothingNamed == ASSUME NEW s PROVE NoStep \in Names(s)
BY DEF Names

LEMMA PathIsKept ==
  ASSUME NEW c, PathOK(c), NEW d, Forwards(c, d) \/ Backwards(c, d) PROVE PathOK(d)
<1>1. \E T : Changed(d.steps, c.steps, T)
  BY DEF Forwards, Leads, Backwards
<1>2. PICK T : Changed(d.steps, c.steps, T)
  BY <1>1
<1>3. NamesOK(d)
  BY <1>2 DEF PathOK, NamesOK, Changed
<1>4. CASE Forwards(c, d)
  <2>1. d.queue = <<>> /\ ~ Undoing(d)
    BY <1>4 DEF Forwards, Leads, Undoing
  <2> QED
    BY <1>3, <1>4, <2>1 DEF Forwards, Leads, PathOK
<1>5. CASE Backwards(c, d)
  BY <1>3, <1>5 DEF Backwards, PathOK
<1> QED
  BY <1>4, <1>5

LEMMA JoinIsKept ==
  ASSUME JoinsGuarded, NEW c, PathOK(c), JoinOK(c), NEW d, Forwards(c, d) \/ Backwards(c, d) PROVE JoinOK(d)
<1>1. CASE Forwards(c, d)
  <2>1. ASSUME NEW f \in ForkIds, NEW W \in SUBSET StepIds, Guards(f, W) PROVE Approach(d.forks, d.cur, f, W)
    BY <1>1, <2>1 DEF Forwards, Leads, JoinOK
  <2>2. ASSUME NEW f \in ForkIds, d.steps[JoinOf(f)].status # "" PROVE d.forks[f].status # "" /\ Over(d.forks[f])
    <3>1. JoinOf(f) \in StepIds
      BY JoinIsStep
    <3>2. CASE c.steps[JoinOf(f)].status # ""
      <4>1. c.forks[f].status # "" /\ Over(c.forks[f])
        BY <3>2 DEF JoinOK, JoinWaits
      <4>2. Progress(d.forks, c.forks, StepIds)
        BY <1>1 DEF Forwards, Leads
      <4> QED
        BY <4>1, <4>2 DEF Progress
    <3>3. CASE c.steps[JoinOf(f)].status = ""
      <4>1. Changed(d.steps, c.steps, {d.cur})
        BY <1>1 DEF Forwards, Leads
      <4>2. d.cur = JoinOf(f)
        BY <2>2, <3>1, <3>3, <4>1 DEF Changed
      <4>3. PICK W \in SUBSET StepIds : Guards(f, W)
        BY DEF JoinsGuarded
      <4>4. d.cur \notin RefsOn(W)
        BY <3>1, <4>2, <4>3, NoStepIsNone DEF Guards, RefsOn
      <4>5. d.forks[f].status # ""
        BY <2>1, <4>3, <4>4 DEF Approach
      <4>6. Fit(d.forks) /\ OnPath(d.forks, d.cur)
        BY <1>1 DEF Forwards, Leads
      <4> QED
        BY <3>1, <4>2, <4>5, <4>6, StartedJoin
    <3> QED
      BY <3>2, <3>3
  <2> QED
    BY <2>1, <2>2 DEF JoinOK, JoinWaits
<1>2. CASE Backwards(c, d)
  <2>1. Undoing(d) /\ Changed(d.steps, c.steps, CompensationRefs) /\ Progress(d.forks, c.forks, StepIds)
    BY <1>2 DEF Backwards
  <2>2. ASSUME NEW f \in ForkIds, d.steps[JoinOf(f)].status # "" PROVE d.forks[f].status # "" /\ Over(d.forks[f])
    <3>1. JoinOf(f) \in StepIds /\ JoinOf(f) \notin CompensationRefs
      BY JoinIsStep DEF JoinsGuarded
    <3>2. c.steps[JoinOf(f)].status # ""
      BY <2>1, <2>2, <3>1 DEF Changed
    <3>3. c.forks[f].status # "" /\ Over(c.forks[f])
      BY <3>2 DEF JoinOK, JoinWaits
    <3> QED
      BY <2>1, <3>3 DEF Progress
  <2> QED
    BY <2>1, <2>2 DEF JoinOK, JoinWaits
<1> QED
  BY <1>1, <1>2

LEMMA StaysOnPath ==
  ASSUME NEW forks, NEW cur, Fit(forks), OnPath(forks, cur) PROVE Leads(forks, cur, forks, cur)
BY DEF Leads, Progress

LEMMA GoesOnLeads ==
  ASSUME NEW forks, NEW id \in StepIds, NEW r, GoesOn(forks, id, r) PROVE Leads(forks, id, r.forks, r.next)
<1>1. Fit(r.forks) /\ OnPath(r.forks, r.next) /\ Progress(r.forks, forks, {id})
  BY DEF GoesOn
<1>2. Progress(r.forks, forks, StepIds)
  BY <1>1 DEF Progress
<1>3. \A f \in ForkIds : \A W \in SUBSET StepIds :
        Guards(f, W) /\ Approach(forks, id, f, W) => Approach(r.forks, r.next, f, W)
  BY ApproachKept
<1> QED
  BY <1>1, <1>2, <1>3 DEF Leads

\* With no step left or to begin with, the machine is in no branch.
LEMMA NoStepIsIdle ==
  ASSUME NEW forks, Fit(forks), OnPath(forks, NoStep) PROVE Idle(forks)
<1>1. ASSUME NEW f \in ForkIds, NEW n \in Nat, InBranch(forks, NoStep, f, n) PROVE FALSE
  <2>1. /\ n \in DOMAIN forks[f].branches /\ forks[f].status = "running"
        /\ NoStep \in BranchSteps(StepByID(f).branches[n], JoinOf(f))
    BY <1>1 DEF InBranch
  <2>2. DOMAIN forks[f].branches = DOMAIN StepByID(f).branches
    BY <2>1, StartedIsNew DEF Fit, Fits
  <2> QED
    BY <2>1, <2>2, BranchStarts, BranchIsClosed, NoStepIsNone
<1> QED
  BY <1>1 DEF OnPath

LEMMA ToRunLeads ==
  ASSUME ForksUnnested, NEW c, IsTyped(c), PathOK(c), ~ Undoing(c), NEW r, r = StepToRun(c)
  PROVE  Leads(c.forks, c.cur, r.forks, r.next)
<1>1. r = StepForCurrent(c)
  BY DEF StepToRun, Compensates, Undoing
<1>2. Fit(c.forks) /\ OnPath(c.forks, c.cur) /\ NamesOK(c)
  BY DEF PathOK
<1>3. c.cur \in RefsOn(StepIds) /\ c.forks \in ForksOn(StepIds)
  BY DEF IsTyped
<1>4. CASE c.cur = NoStep
  <2>1. r = [next |-> FirstNormal, forks |-> c.forks]
    BY <1>1, <1>4 DEF StepForCurrent
  <2>2. r.next = FirstNormal /\ r.forks = c.forks
    BY <2>1
  <2>3. OnPath(c.forks, FirstNormal)
    BY <1>2, <1>4, NoStepIsIdle DEF OnPath
  <2>4. \A f \in ForkIds : \A W \in SUBSET StepIds :
          Guards(f, W) /\ Approach(c.forks, c.cur, f, W) => Approach(c.forks, FirstNormal, f, W)
    BY DEF Guards, Approach
  <2> QED
    BY <1>2, <2>2, <2>3, <2>4 DEF Leads, Progress
<1>5. CASE c.cur # NoStep /\ c.steps[c.cur].status = "completed"
  <2>1. c.cur \in StepIds
    BY <1>3, <1>5 DEF RefsOn
  <2>2. PICK result : result = c.steps[c.cur].next
    OBVIOUS
  <2>3. r = NextAfter(c.forks, c.cur, result)
    BY <1>1, <1>5, <2>2 DEF StepForCurrent
  <2>4. c.cur \notin ForkIds => result \in Names(c.cur)
    BY <1>2, <2>1, <2>2 DEF NamesOK
  <2>5. GoesOn(c.forks, c.cur, r)
    BY <1>2, <1>3, <2>1, <2>3, <2>4, MachineGoesOn
  <2> QED
    BY <2>1, <2>5, GoesOnLeads
<1>6. CASE c.cur # NoStep /\ c.steps[c.cur].status # "completed"
  <2>1. r = [next |-> c.cur, forks |-> c.forks]
    BY <1>1, <1>6 DEF StepForCurrent
  <2>2. r.next = c.cur /\ r.forks = c.forks
    BY <2>1
  <2> QED
    BY <1>2, <2>2, StaysOnPath
<1> QED
  BY <1>4, <1>5, <1>6

\* Undoing, the machine leaves the forks alone.
LEMMA UndoingLeaves ==
  ASSUME NEW c, PathOK(c), Undoing(c)
  PROVE  Fit(c.forks) /\ RunningBranches(c.forks) = {} /\ Progress(c.forks, c.forks, StepIds)
BY DEF PathOK, Progress

LEMMA StartGoesOn ==
  ASSUME ForksUnnested, NEW c, IsTyped(c), PathOK(c), c.status # "failed", StepToRun(c).next \in StepIds,
         NEW newKey, NEW d, d = StartStep(c, newKey)
  PROVE  Forwards(c, d) \/ Backwards(c, d)
<1>1. IsContent(c) /\ c.steps \in [StepIds -> StepState]
  BY TypedIsShaped DEF IsTyped
<1>2. PICK run, status : run = StepToRun(c) /\ status = IF Compensates(c) THEN "compensating" ELSE "running"
  OBVIOUS
<1>3. PICK id : id = run.next /\ id \in StepIds
  BY <1>2
<1>4. PICK state : state = RunningState(c.steps[id], KeyFor(c.steps[id], newKey), PreviousWait(c.steps[id], status))
  OBVIOUS
<1>5. state.status = "running" /\ state.next = NoStep
  BY <1>4 DEF RunningState
<1>6. PICK steps : steps = [c.steps EXCEPT ![id] = state]
  OBVIOUS
<1>7. d = [status |-> status, cur |-> id, steps |-> steps,
           completed |-> c.completed, queue |-> c.queue, forks |-> run.forks]
  BY <1>1, <1>2, <1>3, <1>4, <1>6, StartForm
<1>8. d.status = status /\ d.cur = id /\ d.steps = steps /\ d.queue = c.queue /\ d.forks = run.forks
  BY <1>7
<1>9. ASSUME NEW T, id \in T PROVE Changed(steps, c.steps, T)
  <2>1. state.next \in Names(id)
    BY <1>5, NothingNamed
  <2> QED
    BY <1>1, <1>3, <1>6, <1>9, <2>1, ChangedAt
<1>10. CASE Compensates(c)
  <2>1. c.queue # <<>> /\ run = [next |-> Head(c.queue), forks |-> c.forks]
    BY <1>2, <1>3, <1>10, NoStepIsNone DEF StepToRun
  <2>2. id = Head(c.queue) /\ run.forks = c.forks
    BY <1>3, <2>1
  <2>3. c.queue \in Seq(StepIds)
    BY DEF IsTyped
  <2>4. 1 \in DOMAIN c.queue /\ Head(c.queue) = c.queue[1]
    BY <2>1, <2>3
  <2>5. \A n \in DOMAIN c.queue : c.queue[n] \in CompensationRefs
    BY DEF PathOK
  <2>6. id \in CompensationRefs
    BY <2>2, <2>4, <2>5
  <2>7. Undoing(c) /\ Undoing(d) /\ d.status # "running"
    BY <1>2, <1>8, <1>10 DEF Compensates, Undoing
  <2> QED
    BY <1>8, <1>9, <2>2, <2>5, <2>6, <2>7, UndoingLeaves DEF Backwards
<1>11. CASE ~ Compensates(c)
  <2>1. ~ Undoing(c) /\ ~ Undoing(d)
    BY <1>2, <1>8, <1>11 DEF Compensates, Undoing
  <2>2. NoneFailed(steps)
    <3>1. NoneFailed(c.steps) /\ state.status # "failed"
      BY <1>5, <2>1 DEF PathOK
    <3> QED
      BY <1>1, <1>3, <1>6, <3>1, NoneFailedAt
  <2>3. Leads(c.forks, c.cur, run.forks, id)
    BY <1>2, <1>3, <2>1, ToRunLeads
  <2> QED
    BY <1>8, <1>9, <2>1, <2>2, <2>3 DEF Forwards
<1> QED
  BY <1>10, <1>11

LEMMA EndGoesOn ==
  ASSUME ForksUnnested, NEW c, IsTyped(c), PathOK(c), c.status # "failed", StepToRun(c).next \notin StepIds,
         NEW d, d = FinishWithoutStep(c)
  PROVE  Forwards(c, d) \/ Backwards(c, d)
<1>1. IsContent(c)
  BY TypedIsShaped
<1>2. PICK run, status : run = StepToRun(c) /\ status = IF Compensates(c) THEN "failed" ELSE "completed"
  OBVIOUS
<1>3. d = [status |-> status, cur |-> NoStep, steps |-> c.steps,
           completed |-> c.completed, queue |-> c.queue, forks |-> run.forks]
  BY <1>1, <1>2, FinishWithoutForm
<1>4. d.status = status /\ d.cur = NoStep /\ d.steps = c.steps /\ d.queue = c.queue /\ d.forks = run.forks
  BY <1>3
<1>5. ASSUME NEW T PROVE Changed(d.steps, c.steps, T)
  BY <1>4 DEF Changed
<1>6. CASE Compensates(c)
  <2>1. Undoing(c) /\ Undoing(d) /\ d.status # "running"
    BY <1>2, <1>4, <1>6 DEF Compensates, Undoing
  <2>2. run.forks = c.forks
    <3>1. run = [next |-> NoStep, forks |-> c.forks] \/ run = [next |-> Head(c.queue), forks |-> c.forks]
      BY <1>2, <1>6 DEF StepToRun
    <3> QED
      BY <3>1
  <2>3. \A n \in DOMAIN c.queue : c.queue[n] \in CompensationRefs
    BY DEF PathOK
  <2> QED
    BY <1>4, <1>5, <2>1, <2>2, <2>3, UndoingLeaves DEF Backwards
<1>7. CASE ~ Compensates(c)
  <2>1. ~ Undoing(c) /\ ~ Undoing(d)
    BY <1>2, <1>4, <1>7 DEF Compensates, Undoing
  <2>2. NoneFailed(c.steps)
    BY <2>1 DEF PathOK
  <2>3. run.next = NoStep
    BY <1>2, StepToRunTyped DEF RefsOn
  <2>4. Leads(c.forks, c.cur, run.forks, NoStep)
    BY <1>2, <2>1, <2>3, ToRunLeads
  <2> QED
    BY <1>4, <1>5, <2>1, <2>2, <2>4 DEF Forwards
<1> QED
  BY <1>6, <1>7

\* A step names only what it refers to.
LEMMA ExecuteNames ==
  ASSUME NEW c, c.cur \in StepIds, c.cur \notin ForkIds, NEW reached, NEW out \in Execute(c, reached)
  PROVE  out.next \in Names(c.cur)
<1>1. PICK step : step = StepByID(c.cur)
  OBVIOUS
<1>2. step.type \in StepTypes /\ step.type # "fork"
  BY <1>1, StepHasType, ForkTypes
<1>3. /\ NoStep \in Names(c.cur) /\ step.next \in Names(c.cur)
      /\ step.type = "condition" => step.then \in Names(c.cur) /\ step.else \in Names(c.cur)
  BY <1>1 DEF Names, branchRefs
<1>4. \A next : Succeeds(next).next = next
  BY DEF Succeeds
<1>5. Fails.next = NoStep /\ \A fireAt : Waits(fireAt).next = NoStep
  BY DEF Fails, Waits
<1>6. CASE step.type \in {"http_request", "transform"}
  BY <1>1, <1>3, <1>4, <1>5, <1>6 DEF Execute, executeHTTPRequest, executeTransform
<1>7. CASE step.type = "condition"
  BY <1>1, <1>3, <1>4, <1>5, <1>7 DEF Execute, executeCondition
<1>8. CASE step.type = "delay"
  <2>1. out = DelayResult(c.cur, c.steps[c.cur], reached)
    BY <1>1, <1>8 DEF Execute
  <2> QED
    BY <1>3, <1>4, <1>5, <2>1 DEF DelayResult
<1>9. CASE step.type = "join"
  BY <1>1, <1>3, <1>4, <1>9 DEF Execute, executeJoin
<1> QED
  BY <1>2, <1>6, <1>7, <1>8, <1>9 DEF StepTypes

\* The state of a running step, given by a handler that may not have changed what it names.
LEMMA CurChanged ==
  ASSUME NEW c, IsTyped(c), c.cur \in StepIds, c.steps[c.cur].status = "running",
         NEW state, c.cur \notin ForkIds => state.next \in Names(c.cur),
         NEW steps, steps = [c.steps EXCEPT ![c.cur] = state], NEW T
  PROVE  Changed(steps, c.steps, T)
<1>1. c.steps \in [StepIds -> StepState]
  BY DEF IsTyped
<1> QED
  BY <1>1, ChangedAt

LEMMA WaitGoesOn ==
  ASSUME NEW c, IsTyped(c), QueueOK(c), PathOK(c), Running(c), c.cur \in StepIds,
         NEW out, NEW d, d = handleStepWaiting(c, out)
  PROVE  Forwards(c, d) \/ Backwards(c, d)
<1>1. IsContent(c) /\ c.steps \in [StepIds -> StepState]
  BY TypedIsShaped DEF IsTyped
<1>2. PICK state : state = WaitingState(c.steps[c.cur], out.fireAt)
  OBVIOUS
<1>3. state.status = "waiting_timer" /\ state.next = c.steps[c.cur].next
  BY <1>2 DEF WaitingState
<1>4. PICK steps : steps = [c.steps EXCEPT ![c.cur] = state]
  OBVIOUS
<1>5. d = [status |-> "waiting_timer", cur |-> c.cur, steps |-> steps,
           completed |-> c.completed, queue |-> c.queue, forks |-> c.forks]
  BY <1>1, <1>2, <1>4, WaitingForm
<1>6. d.status = "waiting_timer" /\ d.cur = c.cur /\ d.steps = steps /\ d.queue = c.queue /\ d.forks = c.forks
  BY <1>5
<1>7. ASSUME NEW T PROVE Changed(steps, c.steps, T)
  <2>1. c.cur \notin ForkIds => state.next \in Names(c.cur)
    BY <1>3 DEF PathOK, NamesOK
  <2>2. c.steps[c.cur].status = "running"
    BY DEF Running
  <2> QED
    BY <1>4, <2>1, <2>2, CurChanged
<1>8. CASE Undoing(c)
  <2>1. c.queue # <<>>
    BY <1>8 DEF Running, QueueOK, Undoing
  <2>2. Undoing(d) /\ d.status # "running"
    BY <1>6, <2>1 DEF Undoing
  <2>3. \A n \in DOMAIN c.queue : c.queue[n] \in CompensationRefs
    BY DEF PathOK
  <2> QED
    BY <1>6, <1>7, <1>8, <2>2, <2>3, UndoingLeaves DEF Backwards
<1>9. CASE ~ Undoing(c)
  <2>1. ~ Undoing(d)
    BY <1>6, <1>9 DEF Undoing
  <2>2. NoneFailed(steps)
    <3>1. NoneFailed(c.steps) /\ state.status # "failed"
      BY <1>3, <1>9 DEF PathOK
    <3> QED
      BY <1>1, <1>4, <3>1, NoneFailedAt
  <2>3. Leads(c.forks, c.cur, c.forks, c.cur)
    BY <1>9, StaysOnPath DEF PathOK
  <2> QED
    BY <1>6, <1>7, <1>9, <2>1, <2>2, <2>3 DEF Forwards
<1> QED
  BY <1>8, <1>9

\* The state of a completed step.
LEMMA CompletedChange ==
  ASSUME NEW c, IsTyped(c), Running(c), c.cur \in StepIds, NEW next, c.cur \notin ForkIds => next \in Names(c.cur),
         NEW steps, steps = [c.steps EXCEPT ![c.cur] = CompletedState(c.steps[c.cur], next)], NEW T
  PROVE  Changed(steps, c.steps, T) /\ (NoneFailed(c.steps) => NoneFailed(steps))
<1>1. PICK state : state = CompletedState(c.steps[c.cur], next)
  OBVIOUS
<1>2. state.status = "completed" /\ state.next = next
  BY <1>1 DEF CompletedState
<1>3. steps = [c.steps EXCEPT ![c.cur] = state] /\ c.steps \in [StepIds -> StepState]
  BY <1>1 DEF IsTyped
<1>4. c.steps[c.cur].status = "running"
  BY DEF Running
<1>5. Changed(steps, c.steps, T)
  BY <1>2, <1>3, <1>4, CurChanged
<1>6. state.status # "failed"
  BY <1>2
<1>7. NoneFailed(c.steps) => NoneFailed(steps)
  BY <1>3, <1>6, NoneFailedAt
<1> QED
  BY <1>5, <1>7

LEMMA SuccessGoesOn ==
  ASSUME ForksUnnested, NEW c, IsTyped(c), PathOK(c), Running(c), c.status = "running", c.cur \in StepIds,
         NEW out, c.cur \notin ForkIds => out.next \in Names(c.cur), NEW d, d = handleStepSuccess(c, out)
  PROVE  Forwards(c, d)
<1>1. IsContent(c) /\ c.forks \in ForksOn(StepIds)
  BY TypedIsShaped DEF IsTyped
<1>2. PICK after, steps :
        /\ after = NextAfter(c.forks, c.cur, out.next)
        /\ steps = [c.steps EXCEPT ![c.cur] = CompletedState(c.steps[c.cur], out.next)]
  OBVIOUS
<1>3. PICK status, completed :
        /\ status = IF after.next = NoStep THEN "completed" ELSE "running"
        /\ completed = IF HasCompleted(c, c.cur) THEN c.completed ELSE Append(c.completed, c.cur)
  OBVIOUS
<1>4. d = [status |-> status, cur |-> after.next, steps |-> steps, completed |-> completed,
           queue |-> c.queue, forks |-> after.forks]
  BY <1>1, <1>2, <1>3, SuccessForm
<1>5. d.status = status /\ d.cur = after.next /\ d.steps = steps /\ d.queue = c.queue /\ d.forks = after.forks
  BY <1>4
<1>6. ~ Undoing(c)
  BY DEF PathOK, Undoing
<1>7. ~ Undoing(d)
  BY <1>3, <1>5, <1>6 DEF Undoing
<1>8. NoneFailed(c.steps) /\ Fit(c.forks) /\ OnPath(c.forks, c.cur)
  BY <1>6 DEF PathOK
<1>9. Changed(steps, c.steps, {d.cur}) /\ NoneFailed(steps)
  BY <1>2, <1>8, CompletedChange
<1>10. GoesOn(c.forks, c.cur, after)
  BY <1>1, <1>2, <1>8, MachineGoesOn
<1>11. Leads(c.forks, c.cur, after.forks, after.next)
  BY <1>10, GoesOnLeads
<1> QED
  BY <1>5, <1>6, <1>7, <1>9, <1>11 DEF Forwards

LEMMA FailureGoesOn ==
  ASSUME NEW c, IsTyped(c), PathOK(c), Running(c), c.status = "running", c.cur \in StepIds,
         ~ RetriesLeft(c, c.cur), NEW out, NEW d, d = handleStepFailure(c, out)
  PROVE  Backwards(c, d)
<1>1. IsContent(c) /\ c.forks \in ForksOn(StepIds) /\ c.completed \in Seq(StepIds)
  BY TypedIsShaped DEF IsTyped
<1>2. PICK queue, forks : queue = CompensationQueue(c, c.cur) /\ forks = MarkBranchFailed(c.forks, c.cur)
  OBVIOUS
<1>3. PICK state : state = FailedState(c.steps[c.cur])
  OBVIOUS
<1>4. state.next = c.steps[c.cur].next
  BY <1>3 DEF FailedState
<1>5. PICK steps : steps = [c.steps EXCEPT ![c.cur] = state]
  OBVIOUS
<1>6. c.queue = <<>>
  BY DEF PathOK
<1>7. d = [status |-> IF queue # <<>> THEN "compensating" ELSE "failed",
           cur |-> IF queue # <<>> THEN Head(queue) ELSE NoStep,
           steps |-> steps, completed |-> c.completed, queue |-> IF queue # <<>> THEN queue ELSE c.queue,
           forks |-> forks]
  BY <1>1, <1>2, <1>3, <1>5, FailureForm
<1>8. /\ d.status \in {"compensating", "failed"} /\ d.steps = steps /\ d.forks = forks
      /\ d.queue = IF queue # <<>> THEN queue ELSE c.queue
  BY <1>7
<1>9. d.queue = queue
  BY <1>6, <1>8
<1>10. \A n \in DOMAIN queue : queue[n] \in CompensationRefs
  <2>1. queue \in Seq(StepIds) /\ \A p \in 1 .. Len(queue) : queue[p] \in CompensationRefs
    BY <1>1, <1>2, QueueIsPlan
  <2> QED
    BY <2>1
<1>11. Changed(steps, c.steps, CompensationRefs)
  <2>1. c.cur \notin ForkIds => state.next \in Names(c.cur)
    BY <1>4 DEF PathOK, NamesOK
  <2>2. c.steps[c.cur].status = "running"
    BY DEF Running
  <2> QED
    BY <1>5, <2>1, <2>2, CurChanged
<1>12. Fit(c.forks) /\ OnPath(c.forks, c.cur)
  BY <1>6 DEF PathOK, Undoing
<1>13. RunningBranches(forks) = {} /\ Fit(forks) /\ Progress(forks, c.forks, {})
  BY <1>1, <1>2, <1>12, NoneAfterFailure
<1>14. Progress(forks, c.forks, StepIds)
  BY <1>13 DEF Progress
<1>15. Undoing(d) /\ d.status # "running"
  BY <1>8 DEF Undoing
<1> QED
  BY <1>8, <1>9, <1>10, <1>11, <1>13, <1>14, <1>15 DEF Backwards

LEMMA CompensationGoesOn ==
  ASSUME NEW c, IsTyped(c), QueueOK(c), PathOK(c), Running(c), c.status = "compensating", c.cur \in StepIds,
         NEW out, c.cur \notin ForkIds => out.next \in Names(c.cur),
         NEW d, d = CompensationSuccess(c, out) \/ d = CompensationFailure(c, out)
  PROVE  Backwards(c, d)
<1>1. IsContent(c) /\ c.queue \in Seq(StepIds) /\ c.queue # <<>>
  BY TypedIsShaped DEF IsTyped, QueueOK
<1>2. Undoing(c) /\ \A n \in DOMAIN c.queue : c.queue[n] \in CompensationRefs
  BY DEF PathOK, Undoing
<1>3. CASE d = CompensationSuccess(c, out)
  <2>1. PICK steps, queue :
          /\ steps = [c.steps EXCEPT ![c.cur] = CompletedState(c.steps[c.cur], out.next)]
          /\ queue = Tail(c.queue)
    OBVIOUS
  <2>2. PICK status, cur, completed :
          d = [status |-> status, cur |-> cur, steps |-> steps, completed |-> completed,
               queue |-> queue, forks |-> c.forks] /\ status \in {"failed", "compensating"}
    BY <1>1, <1>3, <2>1, CompensationForm
  <2>3. d.status = status /\ d.steps = steps /\ d.queue = queue /\ d.forks = c.forks
    BY <2>2
  <2>4. Changed(steps, c.steps, CompensationRefs)
    BY <2>1, CompletedChange
  <2>5. \A n \in DOMAIN queue : queue[n] \in CompensationRefs
    <3>1. PICK old : old = c.queue
      OBVIOUS
    <3>2. \A n \in DOMAIN queue : n + 1 \in DOMAIN old /\ queue[n] = old[n + 1]
      BY <1>1, <2>1, <3>1
    <3> QED
      BY <1>2, <3>1, <3>2
  <2>6. Undoing(d) /\ d.status # "running"
    BY <2>2, <2>3 DEF Undoing
  <2> QED
    BY <1>2, <2>3, <2>4, <2>5, <2>6, UndoingLeaves DEF Backwards
<1>4. CASE d = CompensationFailure(c, out)
  <2>1. d = [status |-> "failed", cur |-> NoStep, steps |-> c.steps,
             completed |-> c.completed, queue |-> c.queue, forks |-> c.forks]
    BY <1>1, <1>4, FinishForm DEF CompensationFailure
  <2>2. d.status = "failed" /\ d.steps = c.steps /\ d.queue = c.queue /\ d.forks = c.forks
    BY <2>1
  <2>3. Undoing(d) /\ d.status # "running" /\ Changed(d.steps, c.steps, CompensationRefs)
    BY <2>2 DEF Undoing, Changed
  <2> QED
    BY <1>2, <2>2, <2>3, UndoingLeaves DEF Backwards
<1> QED
  BY <1>3, <1>4

LEMMA ResultGoesOn ==
  ASSUME ForksUnnested, NEW c, IsTyped(c), QueueOK(c), PathOK(c), Running(c), c.cur \in StepIds,
         NEW reached, NEW out \in Execute(c, reached), NEW d, d = HandleResult(c, out)
  PROVE  Forwards(c, d) \/ Backwards(c, d)
<1>1. out.kind \in {"success", "waiting", "error"}
  BY ExecuteKinds
<1>2. c.cur \notin ForkIds => out.next \in Names(c.cur)
  BY ExecuteNames
<1>3. c.status \in {"running", "compensating"}
  BY DEF Running
<1>4. CASE out.kind = "waiting"
  <2>1. d = handleStepWaiting(c, out)
    BY <1>4 DEF HandleResult
  <2> QED
    BY <2>1, WaitGoesOn
<1>5. CASE out.kind = "success" /\ c.status = "running"
  <2>1. d = handleStepSuccess(c, out)
    BY <1>5 DEF HandleResult
  <2> QED
    BY <1>2, <1>5, <2>1, SuccessGoesOn
<1>6. CASE out.kind = "error" /\ c.status = "running"
  <2>1. d = handleStepFailure(c, out)
    BY <1>6 DEF HandleResult
  <2>2. CASE RetriesLeft(c, c.cur)
    <3>1. d = handleStepWaiting(c, Waits(c.steps[c.cur].attempt))
      BY <2>1, <2>2, RetryIsWait
    <3> QED
      BY <3>1, WaitGoesOn
  <2>3. CASE ~ RetriesLeft(c, c.cur)
    BY <1>6, <2>1, <2>3, FailureGoesOn
  <2> QED
    BY <2>2, <2>3
<1>7. CASE out.kind # "waiting" /\ c.status = "compensating"
  <2>1. d = CompensationSuccess(c, out) \/ d = CompensationFailure(c, out)
    BY <1>1, <1>7 DEF HandleResult
  <2> QED
    BY <1>2, <1>7, <2>1, CompensationGoesOn
<1> QED
  BY <1>1, <1>3, <1>4, <1>5, <1>6, <1>7

LEMMA NewOnPath ==
  ASSUME NEW status \in {"absent", "pending"}, NEW c, c = NewRuntimeState(status) PROVE PathOK(c) /\ JoinOK(c)
<1>1. PICK steps, forks : steps = [s \in StepIds |-> NoState] /\ forks = [f \in ForkIds |-> NoFork]
  OBVIOUS
<1>2. c = [status |-> status, cur |-> NoStep, steps |-> steps, completed |-> <<>>, queue |-> <<>>, forks |-> forks]
  BY <1>1 DEF NewRuntimeState
<1>3. c.status = status /\ c.cur = NoStep /\ c.steps = steps /\ c.queue = <<>> /\ c.forks = forks
  BY <1>2
<1>4. NoState.status = "" /\ NoState.next = NoStep
  BY DEF NoState
<1>5. NoFork.status = "" /\ NoFork.branches = <<>>
  BY DEF NoFork
<1>6. \A s \in StepIds : steps[s] = NoState
  BY <1>1
<1>7. \A f \in ForkIds : forks[f] = NoFork
  BY <1>1
<1>8. Fit(forks) /\ Idle(forks)
  <2>1. \A f \in ForkIds : Fits(forks[f], f)
    BY <1>7 DEF Fits
  <2>2. \A n \in DOMAIN << >> : FALSE
    OBVIOUS
  <2>3. Over(NoFork)
    BY <1>5, <2>2 DEF Over
  <2>4. \A f \in ForkIds : Over(forks[f])
    BY <1>7, <2>3
  <2> QED
    BY <2>1, <2>4 DEF Fit, Idle
<1>9. NamesOK(c) /\ NoneFailed(steps)
  BY <1>3, <1>4, <1>6, NothingNamed DEF NamesOK, NoneFailed
<1>10. ~ Undoing(c)
  BY <1>3 DEF Undoing
<1>11. PathOK(c)
  BY <1>3, <1>8, <1>9, <1>10 DEF PathOK, OnPath
<1>12. ASSUME NEW f \in ForkIds PROVE JoinWaits(c, f)
  BY <1>3, <1>4, <1>6, JoinIsStep DEF JoinWaits
<1>13. ASSUME NEW f \in ForkIds, NEW W PROVE Approach(c.forks, c.cur, f, W)
  BY <1>3, <1>5, <1>7 DEF Approach, RefsOn
<1> QED
  BY <1>11, <1>12, <1>13 DEF JoinOK

-----------------------------------------------------------------------------
(* The invariants, and what they say of forks *)

PathInv == \A i \in Instances : PathOK(content[i])

JoinInv == \A i \in Instances : JoinOK(content[i])

\* A step of the machine, for one instance.
LEMMA InstanceGoesOn ==
  ASSUME ForksUnnested, TypeInv, PathInv, NEW i \in Instances, Start(i) \/ FinishEmpty(i) \/ Finish(i)
  PROVE  \E d : /\ Forwards(content[i], d) \/ Backwards(content[i], d)
                /\ content' = [content EXCEPT ![i] = d]
<1>1. PICK c : c = content[i]
  OBVIOUS
<1>2. IsTyped(c) /\ QueueOK(c) /\ PathOK(c)
  BY <1>1, ContentTyped DEF PathInv
<1>3. CASE Start(i)
  <2>1. PICK d : d = StartStep(c, keySeq + 1)
    OBVIOUS
  <2>2. c.status # "failed" /\ StepToRun(c).next \in StepIds /\ content' = [content EXCEPT ![i] = d]
    BY <1>1, <1>3, <2>1 DEF Start, Ready, Terminal
  <2>3. Forwards(c, d) \/ Backwards(c, d)
    BY <1>2, <2>1, <2>2, StartGoesOn
  <2> QED
    BY <1>1, <2>2, <2>3
<1>4. CASE FinishEmpty(i)
  <2>1. PICK d : d = FinishWithoutStep(c)
    OBVIOUS
  <2>2. c.status # "failed" /\ StepToRun(c).next \notin StepIds /\ content' = [content EXCEPT ![i] = d]
    BY <1>1, <1>4, <2>1 DEF FinishEmpty, Ready, Terminal
  <2>3. Forwards(c, d) \/ Backwards(c, d)
    BY <1>2, <2>1, <2>2, EndGoesOn
  <2> QED
    BY <1>1, <2>2, <2>3
<1>5. CASE Finish(i)
  <2>1. Running(c)
    BY <1>1, <1>5 DEF Finish
  <2>2. PICK reached \in SUBSET past[i] : \E out \in Execute(c, reached) :
          content' = [content EXCEPT ![i] = HandleResult(c, out)]
    BY <1>1, <1>5 DEF Finish
  <2>3. PICK out \in Execute(c, reached) : content' = [content EXCEPT ![i] = HandleResult(c, out)]
    BY <2>2
  <2>4. c.cur \in StepIds
    BY <1>2, <2>1 DEF Running, IsTyped, RefsOn
  <2>5. PICK d : d = HandleResult(c, out)
    OBVIOUS
  <2>6. Forwards(c, d) \/ Backwards(c, d)
    BY <1>2, <2>1, <2>4, <2>5, ResultGoesOn
  <2> QED
    BY <1>1, <2>3, <2>5, <2>6
<1> QED
  BY <1>3, <1>4, <1>5

\* Every step of the specification creates an instance, moves one, or moves none.
LEMMA EveryStep ==
  ASSUME ForksUnnested, TypeInv, PathInv, [ExecNext]_execVars
  PROVE  \/ content' = content
         \/ \E i \in Instances : \E d : /\ content' = [content EXCEPT ![i] = d]
                                       /\ \/ d = NewRuntimeState("pending")
                                          \/ Forwards(content[i], d) \/ Backwards(content[i], d)
<1>1. CASE UNCHANGED execVars
  BY <1>1 DEF execVars
<1>2. ASSUME NEW i \in Instances, Create(i) \/ Start(i) \/ FinishEmpty(i) \/ Finish(i) \/ Elapse(i)
      PROVE  \/ content' = content
             \/ \E d : /\ content' = [content EXCEPT ![i] = d]
                       /\ \/ d = NewRuntimeState("pending")
                          \/ Forwards(content[i], d) \/ Backwards(content[i], d)
  <2>1. CASE Create(i)
    BY <2>1 DEF Create
  <2>2. CASE Start(i) \/ FinishEmpty(i) \/ Finish(i)
    BY <2>2, InstanceGoesOn
  <2>3. CASE Elapse(i)
    BY <2>3 DEF Elapse
  <2> QED
    BY <1>2, <2>1, <2>2, <2>3
<1> QED
  BY <1>1, <1>2 DEF ExecNext

LEMMA PathStep ==
  ASSUME ForksUnnested, TypeInv, PathInv, [ExecNext]_execVars PROVE PathInv'
<1>1. CASE content' = content
  BY <1>1 DEF PathInv
<1>2. ASSUME NEW i \in Instances, NEW d, content' = [content EXCEPT ![i] = d],
             d = NewRuntimeState("pending") \/ Forwards(content[i], d) \/ Backwards(content[i], d)
      PROVE  PathInv'
  <2>1. PathOK(content[i])
    BY DEF PathInv
  <2>2. PathOK(d)
    BY <1>2, <2>1, NewOnPath, PathIsKept
  <2>3. ASSUME NEW j \in Instances PROVE content'[j] = d \/ content'[j] = content[j]
    BY <1>2 DEF TypeInv
  <2>4. ASSUME NEW j \in Instances PROVE PathOK(content'[j])
    BY <2>2, <2>3 DEF PathInv
  <2> QED
    BY <2>4 DEF PathInv
<1> QED
  BY <1>1, <1>2, EveryStep

LEMMA JoinStep ==
  ASSUME ForksUnnested, JoinsGuarded, TypeInv, PathInv, JoinInv, [ExecNext]_execVars PROVE JoinInv'
<1>1. CASE content' = content
  BY <1>1 DEF JoinInv
<1>2. ASSUME NEW i \in Instances, NEW d, content' = [content EXCEPT ![i] = d],
             d = NewRuntimeState("pending") \/ Forwards(content[i], d) \/ Backwards(content[i], d)
      PROVE  JoinInv'
  <2>1. PathOK(content[i]) /\ JoinOK(content[i])
    BY DEF PathInv, JoinInv
  <2>2. JoinOK(d)
    BY <1>2, <2>1, NewOnPath, JoinIsKept
  <2>3. ASSUME NEW j \in Instances PROVE content'[j] = d \/ content'[j] = content[j]
    BY <1>2 DEF TypeInv
  <2>4. ASSUME NEW j \in Instances PROVE JoinOK(content'[j])
    BY <2>2, <2>3 DEF JoinInv
  <2> QED
    BY <2>4 DEF JoinInv
<1> QED
  BY <1>1, <1>2, EveryStep

LEMMA PathIsInvariant ==
  ASSUME ForksUnnested PROVE ExecSpec => [](TypeInv /\ PathInv)
<1>1. ExecInit => PathInv
  BY NewOnPath DEF ExecInit, Absent, PathInv
<1>2. TypeInv /\ PathInv /\ [ExecNext]_execVars => PathInv'
  BY PathStep
<1> QED
  BY <1>1, <1>2, TypeIsInvariant, PTL DEF ExecSpec

LEMMA JoinIsInvariant ==
  ASSUME ForksUnnested, JoinsGuarded PROVE ExecSpec => [](TypeInv /\ PathInv /\ JoinInv)
<1>1. ExecInit => JoinInv
  BY NewOnPath DEF ExecInit, Absent, JoinInv
<1>2. TypeInv /\ PathInv /\ JoinInv /\ [ExecNext]_execVars => JoinInv'
  BY JoinStep
<1> QED
  BY <1>1, <1>2, PathIsInvariant, PTL DEF ExecSpec

\* For every definition without nested forks: at most one branch of one fork is running,
\* so the order in which branchForCurrentStep ranges over the map of forks is irrelevant.
THEOREM BranchesRunOneByOne ==
  ASSUME ForksUnnested PROVE ExecSpec => []OneBranchAtATime
<1>1. PathInv => OneBranchAtATime
  <2>1. SUFFICES ASSUME PathInv, NEW i \in Instances, NEW b1 \in RunningBranches(content[i].forks),
                        NEW b2 \in RunningBranches(content[i].forks)
                 PROVE  b1 = b2
    BY DEF OneBranchAtATime
  <2>2. PICK c : c = content[i]
    OBVIOUS
  <2>3. PathOK(c) /\ RunningBranches(c.forks) # {}
    <3>1. PathOK(content[i])
      BY <2>1 DEF PathInv
    <3> QED
      BY <2>1, <2>2, <3>1
  <2>4. OnPath(c.forks, c.cur)
    BY <2>3 DEF PathOK
  <2>5. ~ Idle(c.forks)
    BY <2>3, NoneRunning
  <2>6. PICK f \in ForkIds : \E n \in Nat : InBranch(c.forks, c.cur, f, n)
    BY <2>4, <2>5 DEF OnPath
  <2>7. PICK n \in Nat : InBranch(c.forks, c.cur, f, n)
    BY <2>6
  <2>8. RunningBranches(c.forks) = {<<f, n>>}
    BY <2>7, OneRunning
  <2> QED
    BY <2>2, <2>8
<1> QED
  BY <1>1, PathIsInvariant, PTL

\* For the same definitions: the failure of a branch is recorded, so that no running
\* branch is left at the failed step.
THEOREM FailuresAreRecorded ==
  ASSUME ForksUnnested PROVE ExecSpec => []FailedBranchRecorded
<1>1. PathInv => FailedBranchRecorded
  <2>1. SUFFICES ASSUME PathInv, NEW i \in Instances, NEW s \in StepIds, content[i].steps[s].status = "failed"
                 PROVE  BranchesAt(content[i].forks, s) = {}
    BY DEF FailedBranchRecorded
  <2>2. PICK c : c = content[i]
    OBVIOUS
  <2>3. PathOK(c) /\ ~ NoneFailed(c.steps)
    BY <2>1, <2>2 DEF PathInv, NoneFailed
  <2>4. RunningBranches(c.forks) = {}
    BY <2>3 DEF PathOK
  <2> QED
    BY <2>2, <2>4 DEF BranchesAt
<1> QED
  BY <1>1, PathIsInvariant, PTL

\* For every definition without nested forks whose joins are reached only through their
\* forks: a join runs only after every branch of its fork has completed.
THEOREM JoinsWaitForBranches ==
  ASSUME ForksUnnested, JoinsGuarded PROVE ExecSpec => []JoinAfterBranches
<1>1. PathInv /\ JoinInv => JoinAfterBranches
  <2>1. SUFFICES ASSUME PathInv, JoinInv, NEW i \in Instances, NEW f \in ForkIds, NEW fork, fork = content[i].forks[f],
                        fork.status # "", content[i].steps[fork.join].status # ""
                 PROVE  Over(fork)
    BY DEF JoinAfterBranches, Over
  <2>2. PICK c : c = content[i]
    OBVIOUS
  <2>3. Fits(fork, f) /\ JoinWaits(c, f)
    BY <2>1, <2>2 DEF PathInv, PathOK, Fit, JoinInv, JoinOK
  <2>4. fork.join = JoinOf(f)
    BY <2>1, <2>3, StartedIsNew DEF Fits
  <2> QED
    BY <2>1, <2>2, <2>3, <2>4 DEF JoinWaits
<1> QED
  BY <1>1, JoinIsInvariant, PTL

-----------------------------------------------------------------------------
(* The order of the steps *)

Began(steps) == {s \in StepIds : steps[s].status # ""}

\* With the steps of B begun, t is still to come; or t is the latest of them.  The steps of
\* again do not count.
Later(B, t, again) == t \in again \/ \A v \in B \ again : Position(v) < Position(t)

Arrived(B, t, again) == t \in again \/ \A v \in B \ again : v = t \/ Position(v) < Position(t)

\* The join and the pending branches of f are still to come; while branch n of f runs, the
\* pending ones are after n.
ToCome(fork, f, B, again) ==
  /\ Later(B, JoinOf(f), again)
  /\ \A m \in DOMAIN fork.branches :
       fork.branches[m].status = "pending" => Later(B, StepByID(f).branches[m], again)

Remaining(fork, f, n, B, again) ==
  /\ ToCome(fork, f, B, again)
  /\ \A m \in DOMAIN fork.branches : fork.branches[m].status = "pending" => m > n

InOrder(forks, cur, B, again) ==
  \A f \in ForkIds : \A n \in Nat : InBranch(forks, cur, f, n) => Remaining(forks[f], f, n, B, again)

Listed(again) == again \in SUBSET Leaves /\ ListedInOrder(again)

LEMMA PositionIs ==
  ASSUME NEW n \in DOMAIN Steps PROVE Position(Steps[n].id) = n
BY StepsAssumption DEF Position, WellFormed

LEMMA PositionIsNat ==
  ASSUME NEW s \in StepIds PROVE Position(s) \in Nat /\ Position(s) \in DOMAIN Steps /\ Steps[Position(s)].id = s
<1>1. PICK n \in DOMAIN Steps : Steps[n].id = s
  BY DEF StepIds
<1> QED
  BY <1>1, PositionIs, StepsIsSeq

LEMMA NextIsLater ==
  ASSUME NEW s \in StepIds, NextNormal(s) # NoStep
  PROVE  /\ s \notin Leaves
         /\ NextNormal(s) \in StepIds /\ Position(NextNormal(s)) > Position(s)
<1>1. NormalPositions \in SUBSET Nat /\ NormalPositions \subseteq DOMAIN Steps
  BY StepsIsSeq DEF NormalPositions
<1>2. PICK later : later = {n \in NormalPositions : n > Position(s)}
  OBVIOUS
<1>3. Position(s) \in NormalPositions /\ later # {} /\ NextNormal(s) = Steps[Min(later)].id
  BY <1>2 DEF NextNormal
<1>4. later \in SUBSET Nat
  BY <1>1, <1>2
<1>5. Min(later) \in later
  BY <1>3, <1>4, LeastNatural
<1>6. Min(later) \in DOMAIN Steps /\ Min(later) > Position(s)
  BY <1>1, <1>2, <1>5
<1>7. NextNormal(s) \in StepIds
  BY <1>3, <1>6 DEF StepIds
<1>8. Position(NextNormal(s)) > Position(s)
  BY <1>3, <1>6, PositionIs
<1> QED
  BY <1>3, <1>7, <1>8 DEF Leaves

LEMMA FollowsIsLater ==
  ASSUME NEW again, NEW B \in SUBSET StepIds, NEW s \in StepIds, s \notin again, Arrived(B, s, again),
         NEW t \in StepIds, Follows(s, t, again)
  PROVE  Later(B, t, again)
<1>1. SUFFICES ASSUME t \notin again, NEW v \in B, v \notin again PROVE Position(v) < Position(t)
  BY DEF Later
<1>2. Position(t) > Position(s) /\ (v = s \/ Position(v) < Position(s))
  BY <1>1 DEF Follows, Arrived
<1>3. Position(v) \in Nat /\ Position(s) \in Nat /\ Position(t) \in Nat
  BY PositionIsNat
<1> QED
  BY <1>2, <1>3

\* What is still to come has not begun, unless it may be reached again.
LEMMA LaterIsNew ==
  ASSUME NEW again, NEW B \in SUBSET StepIds, NEW t \in StepIds, Later(B, t, again)
  PROVE  Arrived(B, t, again) /\ (t \in B => t \in again)
<1>1. Arrived(B, t, again)
  BY DEF Later, Arrived
<1>2. ASSUME t \in B, t \notin again PROVE FALSE
  <2>1. Position(t) < Position(t)
    BY <1>2 DEF Later
  <2>2. Position(t) \in Nat
    BY PositionIsNat
  <2> QED
    BY <2>1, <2>2
<1> QED
  BY <1>1, <1>2

LEMMA InOneBranch ==
  ASSUME NEW forks, NEW cur, NEW f \in ForkIds, NEW n, InBranch(forks, cur, f, n),
         NEW g \in ForkIds, NEW m, InBranch(forks, cur, g, m)
  PROVE  g = f /\ m = n
<1>1. {<<f, n>>} = {<<g, m>>}
  BY OneRunning
<1>2. <<f, n>> = <<g, m>>
  BY <1>1
<1> QED
  BY <1>2

LEMMA IdleInOrder ==
  ASSUME NEW forks, Idle(forks), NEW cur, NEW B, NEW again PROVE InOrder(forks, cur, B, again)
<1>1. ASSUME NEW f \in ForkIds, NEW n, InBranch(forks, cur, f, n) PROVE FALSE
  <2>1. RunningBranches(forks) = {<<f, n>>} /\ RunningBranches(forks) = {}
    BY <1>1, OneRunning, NoneRunning
  <2> QED
    BY <2>1
<1> QED
  BY <1>1 DEF InOrder

\* A fork that goes on does so with something that is still to come.
PassesTo(fork, f, next) ==
  \/ next = JoinOf(f)
  \/ \E m \in DOMAIN fork.branches : fork.branches[m].status = "pending" /\ next = StepByID(f).branches[m]

LEMMA ForkOrder ==
  ASSUME ForksUnnested, NEW forks \in ForksOn(StepIds), NEW f \in ForkIds, Resting(forks, f),
         NEW B, NEW again, ToCome(forks[f], f, B, again), NEW r, r = nextForkStep(forks, f)
  PROVE  /\ Later(B, r.next, again) /\ InOrder(r.forks, r.next, B, again)
         /\ PassesTo(forks[f], f, r.next)
<1>1. CASE ReachesJoin(forks, f, r)
  BY <1>1, IdleInOrder DEF ReachesJoin, ToCome, PassesTo
<1>2. CASE StartsBranch(forks, f, r)
  <2>1. PICK m \in Nat :
          LET start == StepByID(f).branches[m]
          IN  /\ r.next = start /\ m \in DOMAIN forks[f].branches /\ forks[f].branches[m].status = "pending"
              /\ IsBranchSet(r.forks, forks, f, m, [cur |-> start, status |-> "running"])
              /\ InBranch(r.forks, start, f, m)
              /\ \A k \in DOMAIN forks[f].branches : forks[f].branches[k].status = "pending" => k = m \/ k > m
    BY <1>2 DEF StartsBranch
  <2>2. PICK after, branch, start :
          after = r.forks /\ branch = [cur |-> start, status |-> "running"] /\ start = r.next
    OBVIOUS
  <2>3. IsBranchSet(after, forks, f, m, branch) /\ InBranch(after, start, f, m) /\ branch.status = "running"
    BY <2>1, <2>2
  <2>4. ASSUME NEW k \in DOMAIN after[f].branches, after[f].branches[k].status = "pending"
        PROVE  k > m /\ Later(B, StepByID(f).branches[k], again)
    <3>1. k # m
      BY <2>3, <2>4 DEF IsBranchSet
    <3>2. k \in DOMAIN forks[f].branches /\ forks[f].branches[k].status = "pending"
      BY <2>3, <2>4, <3>1 DEF IsBranchSet
    <3> QED
      BY <2>1, <3>1, <3>2 DEF ToCome
  <2>5. Remaining(after[f], f, m, B, again)
    BY <2>4 DEF Remaining, ToCome
  <2>6. InOrder(after, start, B, again)
    BY <2>3, <2>5, InOneBranch DEF InOrder
  <2>7. Later(B, start, again) /\ PassesTo(forks[f], f, start)
    BY <2>1, <2>2 DEF ToCome, PassesTo
  <2> QED
    BY <2>2, <2>6, <2>7
<1> QED
  BY <1>1, <1>2, ForkStepIs

\* What the machine goes on with.
Onward(id, r, B, again) ==
  /\ r.next # NoStep => /\ Later(B, r.next, again)
                        /\ id \in again => r.next \notin again
  /\ InOrder(r.forks, r.next, B, again)

LEMMA ReferenceIsLater ==
  ASSUME NEW again, Listed(again), NEW B \in SUBSET StepIds, NEW s \in StepIds, Arrived(B, s, again),
         NEW t \in branchRefs(s)
  PROVE  s \notin again /\ Later(B, t, again)
<1>1. s \notin again
  BY DEF Listed, Leaves
<1>2. Follows(s, t, again)
  BY DEF Listed, ListedInOrder
<1>3. t \in StepIds
  BY BranchRefsAreSteps
<1> QED
  BY <1>1, <1>2, <1>3, FollowsIsLater

LEMMA BranchOrder ==
  ASSUME ForksUnnested, NEW forks \in ForksOn(StepIds), NEW id \in StepIds, Fit(forks),
         NEW f \in ForkIds, NEW n \in Nat, InBranch(forks, id, f, n), NEW result \in Names(id),
         NEW again, Listed(again), NEW B \in SUBSET StepIds, Arrived(B, id, again), Remaining(forks[f], f, n, B, again),
         NEW r, r = nextAfterBranchStep(forks, <<f, n>>, id, result)
  PROVE  Onward(id, r, B, again)
<1>1. CASE StaysInBranch(forks, id, f, n, r)
  <2>1. PICK after, next, branch :
          after = r.forks /\ next = r.next /\ branch = [cur |-> next, status |-> "running"]
    OBVIOUS
  <2>2. /\ next \in branchRefs(id) /\ IsBranchSet(after, forks, f, n, branch) /\ InBranch(after, next, f, n)
        /\ branch.status = "running"
    BY <1>1, <2>1 DEF StaysInBranch
  <2>3. id \notin again /\ Later(B, next, again)
    BY <2>2, ReferenceIsLater
  <2>4. ASSUME NEW k \in DOMAIN after[f].branches, after[f].branches[k].status = "pending"
        PROVE  k > n /\ Later(B, StepByID(f).branches[k], again)
    <3>1. k # n
      BY <2>2, <2>4 DEF IsBranchSet
    <3>2. k \in DOMAIN forks[f].branches /\ forks[f].branches[k].status = "pending"
      BY <2>2, <2>4, <3>1 DEF IsBranchSet
    <3> QED
      BY <3>2 DEF Remaining, ToCome
  <2>5. Remaining(after[f], f, n, B, again)
    BY <2>4 DEF Remaining, ToCome
  <2>6. InOrder(after, next, B, again)
    BY <2>2, <2>5, InOneBranch DEF InOrder
  <2> QED
    BY <2>1, <2>3, <2>6 DEF Onward
<1>2. CASE EndsBranch(forks, f, n, r)
  <2>1. PICK after \in ForksOn(StepIds) :
          /\ IsBranchSet(after, forks, f, n, [cur |-> NoStep, status |-> "completed"])
          /\ Resting(after, f)
          /\ r = nextForkStep(after, f)
    BY <1>2 DEF EndsBranch
  <2>2. PICK branch : branch = [cur |-> NoStep, status |-> "completed"]
    OBVIOUS
  <2>3. branch.status = "completed" /\ IsBranchSet(after, forks, f, n, branch)
    BY <2>1, <2>2
  <2>4. ASSUME NEW k \in DOMAIN after[f].branches, after[f].branches[k].status = "pending"
        PROVE  k > n /\ Later(B, StepByID(f).branches[k], again)
    <3>1. k # n
      BY <2>3, <2>4 DEF IsBranchSet
    <3>2. k \in DOMAIN forks[f].branches /\ forks[f].branches[k].status = "pending"
      BY <2>3, <2>4, <3>1 DEF IsBranchSet
    <3> QED
      BY <3>2 DEF Remaining, ToCome
  <2>5. ToCome(after[f], f, B, again)
    BY <2>4 DEF Remaining, ToCome
  <2>6. Later(B, r.next, again) /\ InOrder(r.forks, r.next, B, again) /\ PassesTo(after[f], f, r.next)
    BY <2>1, <2>5, ForkOrder
  <2>7. DOMAIN after[f].branches = DOMAIN StepByID(f).branches
    BY <2>1, StartedIsNew DEF Resting, Fit, Fits
  <2>8. r.next \in BranchExits(f, n)
    BY <2>4, <2>6, <2>7 DEF PassesTo, BranchExits
  <2>9. n \in DOMAIN StepByID(f).branches /\ id \in BranchSteps(StepByID(f).branches[n], JoinOf(f))
    BY <2>1, <2>7 DEF InBranch, IsBranchSet
  <2>10. id \in again => r.next \notin again
    BY <2>8, <2>9 DEF Listed, ListedInOrder
  <2> QED
    BY <2>6, <2>10 DEF Onward
<1> QED
  BY <1>1, <1>2, BranchStepIs

LEMMA MachineOrder ==
  ASSUME ForksUnnested, NEW forks \in ForksOn(StepIds), NEW id \in StepIds, Fit(forks), OnPath(forks, id),
         NEW result, id \notin ForkIds => result \in Names(id),
         NEW again, Listed(again), NEW B \in SUBSET StepIds, Arrived(B, id, again), InOrder(forks, id, B, again),
         NEW r, r = NextAfter(forks, id, result)
  PROVE  Onward(id, r, B, again)
<1>1. CASE id \in ForkIds
  <2>1. Idle(forks)
    <3>1. ASSUME NEW f \in ForkIds, NEW n \in Nat, InBranch(forks, id, f, n) PROVE FALSE
      <4>1. /\ n \in DOMAIN forks[f].branches /\ forks[f].status = "running"
            /\ id \in BranchSteps(StepByID(f).branches[n], JoinOf(f))
        BY <3>1 DEF InBranch
      <4>2. DOMAIN forks[f].branches = DOMAIN StepByID(f).branches
        BY <4>1, StartedIsNew DEF Fit, Fits
      <4> QED
        BY <1>1, <4>1, <4>2, NoForkInBranch
    <3> QED
      BY <3>1 DEF OnPath
  <2>2. PICK started : started = startFork(forks, id)
    OBVIOUS
  <2>3. Resting(started, id)
    BY <1>1, <2>1, <2>2, StartForkRests
  <2>4. started \in ForksOn(StepIds)
    BY <1>1, <2>2, StartForkOn, StepIdsAreClosed
  <2>5. r = nextForkStep(started, id)
    BY <1>1, <2>2, ForksAreSteps DEF NextAfter
  <2>6. id \notin again
    BY <1>1 DEF Listed, Leaves
  <2>7. DOMAIN started[id].branches = DOMAIN StepByID(id).branches
    BY <1>1, <2>3, StartedIsNew DEF Resting, Fit, Fits
  <2>8. ASSUME NEW t \in StepIds, t \in ToSet(StepByID(id).branches) \cup {JoinOf(id)} PROVE Later(B, t, again)
    <3>1. Follows(id, t, again)
      BY <1>1, <2>8 DEF Listed, ListedInOrder
    <3> QED
      BY <2>6, <3>1, FollowsIsLater
  <2>9. ToCome(started[id], id, B, again)
    BY <1>1, <2>7, <2>8, BranchStarts, JoinIsStep DEF ToCome
  <2>10. Later(B, r.next, again) /\ InOrder(r.forks, r.next, B, again)
    BY <1>1, <2>3, <2>4, <2>5, <2>9, ForkOrder
  <2> QED
    BY <2>6, <2>10 DEF Onward
<1>2. CASE id \notin ForkIds /\ Idle(forks)
  <2>1. StepByID(id).type # "fork" /\ BranchesAt(forks, id) = {}
    BY <1>2, ForkTypes, NoneRunning
  <2>2. PICK joined, next :
          /\ joined = IF StepByID(id).type = "join" THEN markJoined(forks, id) ELSE forks
          /\ next = LET named == IF result # NoStep THEN result ELSE StepByID(id).next
                    IN  IF named # NoStep THEN named
                        ELSE IF StepByID(id).type = "condition" THEN NoStep ELSE NextNormal(id)
    OBVIOUS
  <2>3. r = [forks |-> joined, next |-> next]
    BY <2>1, <2>2 DEF NextAfter
  <2>4. r.forks = joined /\ r.next = next
    BY <2>3
  <2>5. InOrder(joined, next, B, again)
    BY <1>2, <2>2, JoinedRests, IdleInOrder
  <2>6. next # NoStep => next \in branchRefs(id) \/ next = NextNormal(id)
    <3>1. StepByID(id).next \in Names(id) /\ result \in Names(id)
      BY <1>2 DEF Names, branchRefs
    <3> QED
      BY <2>2, <3>1 DEF Names
  <2>7. ASSUME next # NoStep, next = NextNormal(id) PROVE id \notin again /\ Later(B, next, again)
    <3>1. id \notin Leaves /\ next \in StepIds /\ Position(next) > Position(id)
      BY <2>7, NextIsLater
    <3>2. id \notin again
      BY <3>1 DEF Listed
    <3>3. Follows(id, next, again)
      BY <3>1 DEF Follows
    <3> QED
      BY <3>1, <3>2, <3>3, FollowsIsLater
  <2>8. next # NoStep => id \notin again /\ Later(B, next, again)
    BY <2>6, <2>7, ReferenceIsLater
  <2> QED
    BY <2>4, <2>5, <2>8 DEF Onward
<1>3. CASE id \notin ForkIds /\ ~ Idle(forks)
  <2>1. PICK f \in ForkIds : \E n \in Nat : InBranch(forks, id, f, n)
    BY <1>3 DEF OnPath
  <2>2. PICK n \in Nat : InBranch(forks, id, f, n)
    BY <2>1
  <2>3. BranchesAt(forks, id) = {<<f, n>>}
    BY <2>2, OneRunning
  <2>4. branchForCurrentStep(forks, id) = <<f, n>>
    BY <2>3 DEF branchForCurrentStep
  <2>5. r = nextAfterBranchStep(forks, <<f, n>>, id, result)
    <3>1. StepByID(id).type # "fork" /\ BranchesAt(forks, id) # {}
      BY <1>3, <2>3, ForkTypes
    <3> QED
      BY <2>4, <3>1 DEF NextAfter
  <2>6. Remaining(forks[f], f, n, B, again)
    BY <2>2 DEF InOrder
  <2> QED
    BY <1>3, <2>2, <2>5, <2>6, BranchOrder
<1> QED
  BY <1>1, <1>2, <1>3

\* The step that the machine has arrived at begins.
LEMMA BeginsInOrder ==
  ASSUME NEW again, Listed(again), NEW B \in SUBSET StepIds, NEW id \in StepIds,
         NEW forks, Fit(forks), Arrived(B, id, again), InOrder(forks, id, B, again)
  PROVE  Arrived(B \cup {id}, id, again) /\ InOrder(forks, id, B \cup {id}, again)
<1>1. Arrived(B \cup {id}, id, again)
  BY DEF Arrived
<1>2. ASSUME NEW f \in ForkIds, NEW n \in Nat, InBranch(forks, id, f, n)
      PROVE  Remaining(forks[f], f, n, B \cup {id}, again)
  <2>1. Remaining(forks[f], f, n, B, again)
    BY <1>2 DEF InOrder
  <2>2. /\ n \in DOMAIN forks[f].branches /\ forks[f].status # ""
        /\ id \in BranchSteps(StepByID(f).branches[n], JoinOf(f))
    BY <1>2 DEF InBranch
  <2>3. DOMAIN forks[f].branches = DOMAIN StepByID(f).branches
    BY <2>2, StartedIsNew DEF Fit, Fits
  <2>4. ASSUME NEW t \in BranchExits(f, n), Later(B, t, again) PROVE Later(B \cup {id}, t, again)
    <3>1. id \in again \/ t \in again \/ Position(t) > Position(id)
      BY <2>2, <2>3 DEF Listed, ListedInOrder, Follows
    <3>2. t \in StepIds
      BY <2>4, BranchStarts, JoinIsStep DEF BranchExits
    <3>3. Position(t) \in Nat /\ Position(id) \in Nat
      BY <3>2, PositionIsNat
    <3>4. Position(t) > Position(id) => Position(id) < Position(t)
      BY <3>3
    <3> QED
      BY <2>4, <3>1, <3>4 DEF Later
  <2>5. Later(B \cup {id}, JoinOf(f), again)
    BY <2>1, <2>4 DEF Remaining, ToCome, BranchExits
  <2>6. ASSUME NEW m \in DOMAIN forks[f].branches, forks[f].branches[m].status = "pending"
        PROVE  m > n /\ Later(B \cup {id}, StepByID(f).branches[m], again)
    <3>1. m > n /\ Later(B, StepByID(f).branches[m], again)
      BY <2>1, <2>6 DEF Remaining, ToCome
    <3>2. StepByID(f).branches[m] \in BranchExits(f, n)
      BY <2>3, <3>1 DEF BranchExits
    <3> QED
      BY <2>4, <3>1, <3>2
  <2> QED
    BY <2>5, <2>6 DEF Remaining, ToCome
<1> QED
  BY <1>1, <1>2 DEF InOrder

\* While an instance goes forward, what its machine has begun is behind it.
OrderOK(c, again) ==
  ~ Undoing(c) /\ c.status # "completed" =>
    /\ c.cur = NoStep => Began(c.steps) = {}
    /\ c.cur # NoStep => /\ Arrived(Began(c.steps), c.cur, again)
                         /\ c.steps[c.cur].status = "completed" => c.cur \in again
    /\ InOrder(c.forks, c.cur, Began(c.steps), again)

\* The step that is run next has not been done.
LEMMA ToRunIsNew ==
  ASSUME ForksUnnested, NEW c, IsTyped(c), PathOK(c), ~ Undoing(c), c.status # "completed",
         NEW again, Listed(again), OrderOK(c, again), NEW r, r = StepToRun(c), r.next \in StepIds
  PROVE  /\ c.steps[r.next].status \notin {"completed", "failed"}
         /\ Arrived(Began(c.steps), r.next, again)
         /\ InOrder(r.forks, r.next, Began(c.steps), again)
<1>1. r = StepForCurrent(c)
  BY DEF StepToRun, Compensates, Undoing
<1>2. Fit(c.forks) /\ OnPath(c.forks, c.cur) /\ NamesOK(c) /\ NoneFailed(c.steps)
  BY DEF PathOK
<1>3. c.cur \in RefsOn(StepIds) /\ c.forks \in ForksOn(StepIds)
  BY DEF IsTyped
<1>4. PICK B : B = Began(c.steps) /\ B \in SUBSET StepIds
  BY DEF Began
<1>5. /\ c.cur = NoStep => B = {}
      /\ c.cur # NoStep => Arrived(B, c.cur, again) /\ (c.steps[c.cur].status = "completed" => c.cur \in again)
      /\ InOrder(c.forks, c.cur, B, again)
  BY <1>4 DEF OrderOK
<1>6. c.steps[r.next].status # "failed"
  BY <1>2 DEF NoneFailed
<1>7. CASE c.cur = NoStep
  <2>1. r = [next |-> FirstNormal, forks |-> c.forks]
    BY <1>1, <1>7 DEF StepForCurrent
  <2>2. r.forks = c.forks
    BY <2>1
  <2>3. Idle(c.forks)
    BY <1>2, <1>7, NoStepIsIdle
  <2>4. InOrder(r.forks, r.next, B, again)
    BY <2>2, <2>3, IdleInOrder
  <2>5. Arrived(B, r.next, again) /\ r.next \notin B
    BY <1>5, <1>7 DEF Arrived
  <2>6. c.steps[r.next].status = ""
    BY <1>4, <2>5 DEF Began
  <2> QED
    BY <1>4, <1>5, <2>2, <2>4, <2>5, <2>6
<1>8. CASE c.cur # NoStep /\ c.steps[c.cur].status = "completed"
  <2>1. c.cur \in StepIds /\ c.cur \in again /\ c.cur \notin ForkIds
    BY <1>3, <1>5, <1>8 DEF RefsOn, Listed, Leaves
  <2>2. PICK result : result = c.steps[c.cur].next
    OBVIOUS
  <2>3. r = NextAfter(c.forks, c.cur, result)
    BY <1>1, <1>8, <2>2 DEF StepForCurrent
  <2>4. result \in Names(c.cur)
    BY <1>2, <2>1, <2>2 DEF NamesOK
  <2>5. Onward(c.cur, r, B, again)
    BY <1>2, <1>3, <1>4, <1>5, <1>8, <2>1, <2>3, <2>4, MachineOrder
  <2>6. Later(B, r.next, again) /\ r.next \notin again /\ InOrder(r.forks, r.next, B, again)
    BY <2>1, <2>5, NoStepIsNone DEF Onward
  <2>7. Arrived(B, r.next, again) /\ r.next \notin B
    BY <1>4, <2>6, LaterIsNew
  <2>8. c.steps[r.next].status = ""
    BY <1>4, <2>7 DEF Began
  <2> QED
    BY <1>4, <2>6, <2>7, <2>8
<1>9. CASE c.cur # NoStep /\ c.steps[c.cur].status # "completed"
  <2>1. r = [next |-> c.cur, forks |-> c.forks]
    BY <1>1, <1>9 DEF StepForCurrent
  <2>2. r.next = c.cur /\ r.forks = c.forks
    BY <2>1
  <2> QED
    BY <1>4, <1>5, <1>6, <1>9, <2>2
<1> QED
  BY <1>7, <1>8, <1>9

LEMMA StartInOrder ==
  ASSUME ForksUnnested, NEW c, IsTyped(c), PathOK(c), ~ Undoing(c), c.status # "completed",
         NEW again, Listed(again), OrderOK(c, again), StepToRun(c).next \in StepIds,
         NEW newKey, NEW d, d = StartStep(c, newKey)
  PROVE  OrderOK(d, again)
<1>1. IsContent(c) /\ c.steps \in [StepIds -> StepState] /\ ~ Compensates(c)
  BY TypedIsShaped DEF IsTyped, Undoing, Compensates
<1>2. PICK run, id : run = StepToRun(c) /\ id = run.next /\ id \in StepIds
  OBVIOUS
<1>3. PICK state : state = RunningState(c.steps[id], KeyFor(c.steps[id], newKey), PreviousWait(c.steps[id], "running"))
  OBVIOUS
<1>4. state.status = "running"
  BY <1>3 DEF RunningState
<1>5. PICK steps : steps = [c.steps EXCEPT ![id] = state]
  OBVIOUS
<1>6. d = [status |-> "running", cur |-> id, steps |-> steps,
           completed |-> c.completed, queue |-> c.queue, forks |-> run.forks]
  BY <1>1, <1>2, <1>3, <1>5, StartForm
<1>7. d.cur = id /\ d.steps = steps /\ d.forks = run.forks
  BY <1>6
<1>8. Began(steps) = Began(c.steps) \cup {id} /\ steps[id] = state
  <2>1. PICK old : old = c.steps /\ old \in [StepIds -> StepState]
    BY <1>1
  <2>2. state.status # "" /\ steps = [old EXCEPT ![id] = state]
    BY <1>4, <1>5, <2>1
  <2>3. steps[id] = state /\ \A s \in StepIds \ {id} : steps[s] = old[s]
    BY <1>2, <2>1, <2>2
  <2> QED
    BY <1>2, <2>1, <2>2, <2>3 DEF Began
<1>9. Arrived(Began(c.steps), id, again) /\ InOrder(run.forks, id, Began(c.steps), again)
  BY <1>2, ToRunIsNew
<1>10. Fit(run.forks)
  BY <1>2, ToRunLeads DEF Leads
<1>11. Began(c.steps) \in SUBSET StepIds
  BY DEF Began
<1>12. Arrived(Began(steps), id, again) /\ InOrder(run.forks, id, Began(steps), again)
  BY <1>2, <1>8, <1>9, <1>10, <1>11, BeginsInOrder
<1>13. id # NoStep /\ steps[id].status # "completed"
  BY <1>2, <1>4, <1>8, NoStepIsNone
<1> QED
  BY <1>7, <1>12, <1>13 DEF OrderOK

\* The current step is running, so a result that changes its state begins nothing.
LEMMA ResultBeginsNothing ==
  ASSUME NEW c, IsTyped(c), Running(c), c.cur \in StepIds, NEW state, state.status # "",
         NEW steps, steps = [c.steps EXCEPT ![c.cur] = state]
  PROVE  Began(steps) = Began(c.steps) /\ steps[c.cur] = state
<1>1. c.cur \in Began(c.steps)
  BY DEF Running, Began
<1>2. PICK old, id : old = c.steps /\ id = c.cur /\ old \in [StepIds -> StepState] /\ id \in StepIds
  BY DEF IsTyped
<1>3. steps = [old EXCEPT ![id] = state]
  BY <1>2
<1>4. steps[id] = state /\ \A s \in StepIds \ {id} : steps[s] = old[s]
  BY <1>2, <1>3
<1> QED
  BY <1>1, <1>2, <1>4 DEF Began

LEMMA SuccessInOrder ==
  ASSUME ForksUnnested, NEW c, IsTyped(c), PathOK(c), Running(c), c.status = "running", c.cur \in StepIds,
         NEW again, Listed(again), OrderOK(c, again),
         NEW out, out.next \in RefsOn(StepIds), c.cur \notin ForkIds => out.next \in Names(c.cur), NEW d, d = handleStepSuccess(c, out)
  PROVE  OrderOK(d, again)
<1>1. IsContent(c) /\ c.forks \in ForksOn(StepIds)
  BY TypedIsShaped DEF IsTyped
<1>2. PICK after, state, steps :
        /\ after = NextAfter(c.forks, c.cur, out.next)
        /\ state = CompletedState(c.steps[c.cur], out.next)
        /\ steps = [c.steps EXCEPT ![c.cur] = state]
  OBVIOUS
<1>3. PICK status, completed :
        /\ status = IF after.next = NoStep THEN "completed" ELSE "running"
        /\ completed = IF HasCompleted(c, c.cur) THEN c.completed ELSE Append(c.completed, c.cur)
  OBVIOUS
<1>4. d = [status |-> status, cur |-> after.next, steps |-> steps, completed |-> completed,
           queue |-> c.queue, forks |-> after.forks]
  BY <1>1, <1>2, <1>3, SuccessForm
<1>5. d.status = status /\ d.cur = after.next /\ d.steps = steps /\ d.forks = after.forks
  BY <1>4
<1>6. ~ Undoing(c)
  BY DEF PathOK, Undoing
<1>7. Fit(c.forks) /\ OnPath(c.forks, c.cur) /\ c.cur # NoStep
  BY <1>6, NoStepIsNone DEF PathOK
<1>8. PICK B : B = Began(c.steps) /\ B \in SUBSET StepIds
  BY DEF Began
<1>9. Arrived(B, c.cur, again) /\ InOrder(c.forks, c.cur, B, again)
  BY <1>6, <1>7, <1>8 DEF OrderOK
<1>10. state.status = "completed"
  BY <1>2 DEF CompletedState
<1>11. Began(steps) = B
  <2>1. state.status # "" /\ steps = [c.steps EXCEPT ![c.cur] = state]
    BY <1>2, <1>10
  <2> QED
    BY <1>8, <2>1, ResultBeginsNothing
<1>12. Onward(c.cur, after, B, again)
  BY <1>1, <1>2, <1>7, <1>8, <1>9, MachineOrder
<1>13. CASE after.next = NoStep
  BY <1>3, <1>5, <1>13 DEF OrderOK
<1>14. CASE after.next # NoStep
  <2>1. Later(B, after.next, again) /\ InOrder(after.forks, after.next, B, again)
    BY <1>12, <1>14 DEF Onward
  <2>2. after.next \in StepIds
    <3>1. after.next \in RefsOn(StepIds)
      BY <1>1, <1>2, NextAfterOn, StepIdsAreClosed
    <3> QED
      BY <1>14, <3>1 DEF RefsOn
  <2>3. Arrived(B, after.next, again) /\ (after.next \in B => after.next \in again)
    BY <1>8, <2>1, <2>2, LaterIsNew
  <2>4. steps[after.next].status = "completed" => after.next \in again
    BY <1>11, <2>2, <2>3 DEF Began
  <2> QED
    BY <1>5, <1>11, <1>14, <2>1, <2>3, <2>4 DEF OrderOK
<1> QED
  BY <1>13, <1>14

LEMMA WaitInOrder ==
  ASSUME NEW c, IsTyped(c), QueueOK(c), Running(c), c.cur \in StepIds, NEW again, OrderOK(c, again),
         NEW out, NEW d, d = handleStepWaiting(c, out)
  PROVE  OrderOK(d, again)
<1>1. IsContent(c)
  BY TypedIsShaped
<1>2. PICK state, steps : state = WaitingState(c.steps[c.cur], out.fireAt) /\ steps = [c.steps EXCEPT ![c.cur] = state]
  OBVIOUS
<1>3. d = [status |-> "waiting_timer", cur |-> c.cur, steps |-> steps,
           completed |-> c.completed, queue |-> c.queue, forks |-> c.forks]
  BY <1>1, <1>2, WaitingForm
<1>4. /\ d.status = "waiting_timer" /\ d.cur = c.cur /\ d.steps = steps /\ d.queue = c.queue /\ d.forks = c.forks
  BY <1>3
<1>5. state.status = "waiting_timer"
  BY <1>2 DEF WaitingState
<1>6. Began(steps) = Began(c.steps) /\ steps[c.cur] = state
  BY <1>2, <1>5, ResultBeginsNothing
<1>7. ~ Undoing(d) => ~ Undoing(c) /\ c.status # "completed"
  BY <1>4 DEF Undoing, Running, QueueOK
<1>8. c.cur # NoStep
  BY NoStepIsNone
<1> QED
  BY <1>4, <1>5, <1>6, <1>7, <1>8 DEF OrderOK

LEMMA UndoingInOrder ==
  ASSUME NEW d, Undoing(d) \/ d.status = "completed", NEW again PROVE OrderOK(d, again)
BY DEF OrderOK

LEMMA ResultInOrder ==
  ASSUME ForksUnnested, NEW c, IsTyped(c), QueueOK(c), PathOK(c), Running(c), c.cur \in StepIds,
         NEW again, Listed(again), OrderOK(c, again),
         NEW reached, NEW out \in Execute(c, reached), NEW d, d = HandleResult(c, out)
  PROVE  OrderOK(d, again)
<1>1. out.kind \in {"success", "waiting", "error"}
  BY ExecuteKinds
<1>2. c.cur \notin ForkIds => out.next \in Names(c.cur)
  BY ExecuteNames
<1>3. c.status \in {"running", "compensating"}
  BY DEF Running
<1>4. CASE out.kind = "waiting"
  <2>1. d = handleStepWaiting(c, out)
    BY <1>4 DEF HandleResult
  <2> QED
    BY <2>1, WaitInOrder
<1>5. CASE out.kind = "success" /\ c.status = "running"
  <2>1. d = handleStepSuccess(c, out)
    BY <1>5 DEF HandleResult
  <2>2. out.next \in RefsOn(StepIds)
    BY StateTyped, ExecuteOn, StepIdsAreClosed
  <2> QED
    BY <1>2, <1>5, <2>1, <2>2, SuccessInOrder
<1>6. CASE out.kind = "error" /\ c.status = "running"
  <2>1. d = handleStepFailure(c, out)
    BY <1>6 DEF HandleResult
  <2>2. CASE RetriesLeft(c, c.cur)
    <3>1. d = handleStepWaiting(c, Waits(c.steps[c.cur].attempt))
      BY <2>1, <2>2, RetryIsWait
    <3> QED
      BY <3>1, WaitInOrder
  <2>3. CASE ~ RetriesLeft(c, c.cur)
    BY <1>6, <2>1, <2>3, FailureGoesOn, UndoingInOrder DEF Backwards
  <2> QED
    BY <2>2, <2>3
<1>7. CASE out.kind # "waiting" /\ c.status = "compensating"
  <2>1. d = CompensationSuccess(c, out) \/ d = CompensationFailure(c, out)
    BY <1>1, <1>7 DEF HandleResult
  <2> QED
    BY <1>2, <1>7, <2>1, CompensationGoesOn, UndoingInOrder DEF Backwards
<1> QED
  BY <1>1, <1>3, <1>4, <1>5, <1>6, <1>7

\* The order, for every set of steps that may be reached again.
InstanceOrder(c) ==
  /\ c.status = "absent" => Began(c.steps) = {}
  /\ \A again : Listed(again) => OrderOK(c, again)

\* What is done remains as it is.
DoneStays(c, d) ==
  \A s \in StepIds : c.steps[s].status \in {"completed", "failed"} => d.steps[s] = c.steps[s]

\* The step that Advance chooses is not done, forward or backward.
LEMMA RunsNew ==
  ASSUME ForksUnnested, StepsInOrder, NEW c, IsTyped(c), PathOK(c), SagaOK(c), InstanceOrder(c),
         c.status \notin Terminal, StepToRun(c).next \in StepIds
  PROVE  c.steps[StepToRun(c).next].status \notin {"completed", "failed"}
<1>1. CASE ~ Undoing(c)
  <2>1. PICK again : Listed(again)
    BY DEF StepsInOrder, Listed
  <2>2. OrderOK(c, again)
    BY <2>1 DEF InstanceOrder
  <2> QED
    BY <1>1, <2>1, <2>2, ToRunIsNew DEF Terminal
<1>2. CASE Undoing(c)
  <2>1. ~ Forward(c)
    BY <1>2 DEF Undoing, Forward
  <2>2. PICK plan \in Seq(StepIds), done \in Nat, undone \in Nat, failed \in NormalSteps :
          Backward(c, plan, done, undone, failed)
    BY <2>1 DEF SagaOK
  <2>3. c.queue # <<>>
    BY <2>2 DEF Backward, Terminal
  <2>4. StepToRun(c).next = Head(c.queue)
    BY <2>3 DEF StepToRun, Compensates
  <2>5. PICK id : id = Head(c.queue)
    OBVIOUS
  <2>6. undone + 1 \in 1 .. Len(plan) /\ id = plan[undone + 1] /\ id # failed /\ id \in StepIds
    BY <2>2, <2>3, <2>5, BackwardHead
  <2>7. \A p \in 1 .. Len(plan) : p > undone => c.steps[plan[p]].status # "completed"
    BY <2>2 DEF Backward
  <2>8. c.steps[id].status # "completed"
    BY <2>6, <2>7
  <2>9. c.steps[id].status # "failed"
    BY <2>2, <2>6 DEF Backward
  <2> QED
    BY <2>4, <2>5, <2>8, <2>9
<1> QED
  BY <1>1, <1>2

LEMMA StartOnce ==
  ASSUME ForksUnnested, StepsInOrder, NEW c, IsTyped(c), PathOK(c), SagaOK(c), InstanceOrder(c),
         c.status \notin Terminal, StepToRun(c).next \in StepIds, NEW newKey, NEW d, d = StartStep(c, newKey)
  PROVE  InstanceOrder(d) /\ DoneStays(c, d)
<1>1. IsContent(c)
  BY TypedIsShaped
<1>2. /\ d.status = IF Compensates(c) THEN "compensating" ELSE "running"
      /\ d.cur = StepToRun(c).next /\ SameOthers(d, c)
  BY <1>1, StartContent
<1>3. DoneStays(c, d)
  BY <1>2, RunsNew DEF DoneStays, SameOthers
<1>4. ASSUME NEW again, Listed(again) PROVE OrderOK(d, again)
  <2>1. OrderOK(c, again)
    BY <1>4 DEF InstanceOrder
  <2>2. CASE Compensates(c)
    BY <1>2, <2>2, UndoingInOrder DEF Undoing
  <2>3. CASE ~ Compensates(c)
    <3>1. ~ Undoing(c) /\ c.status # "completed"
      BY <2>3 DEF Compensates, Undoing, Terminal
    <3> QED
      BY <1>4, <2>1, <3>1, StartInOrder
  <2> QED
    BY <2>2, <2>3
<1>5. d.status # "absent"
  BY <1>2
<1> QED
  BY <1>3, <1>4, <1>5 DEF InstanceOrder

LEMMA FinishOnce ==
  ASSUME ForksUnnested, NEW c, IsTyped(c), QueueOK(c), PathOK(c), Running(c), c.cur \in StepIds, InstanceOrder(c),
         NEW reached, NEW out \in Execute(c, reached), NEW d, d = HandleResult(c, out)
  PROVE  InstanceOrder(d) /\ DoneStays(c, d)
<1>1. IsContent(c) /\ out.kind \in {"success", "waiting", "error"}
  BY TypedIsShaped, ExecuteKinds
<1>2. SameOthers(c, d) /\ d.status \in ResultStatuses
  BY <1>1, ResultContent
<1>3. c.steps[c.cur].status = "running"
  BY DEF Running
<1>4. DoneStays(c, d)
  BY <1>2, <1>3 DEF DoneStays, SameOthers
<1>5. ASSUME NEW again, Listed(again) PROVE OrderOK(d, again)
  BY <1>5, ResultInOrder DEF InstanceOrder
<1>6. d.status # "absent"
  BY <1>2 DEF ResultStatuses
<1> QED
  BY <1>4, <1>5, <1>6 DEF InstanceOrder

LEMMA EndOnce ==
  ASSUME NEW c, IsTyped(c), NEW d, d = FinishWithoutStep(c)
  PROVE  InstanceOrder(d) /\ DoneStays(c, d)
<1>1. IsContent(c)
  BY TypedIsShaped
<1>2. d.status \in Terminal /\ d.steps = c.steps
  BY <1>1, FinishWithoutStepContent
<1>3. ASSUME NEW again PROVE OrderOK(d, again)
  BY <1>2, UndoingInOrder DEF Terminal, Undoing
<1> QED
  BY <1>2, <1>3 DEF InstanceOrder, DoneStays, Terminal

LEMMA NewInOrder ==
  ASSUME NEW status \in {"absent", "pending"}, NEW c, c = NewRuntimeState(status)
  PROVE  InstanceOrder(c) /\ Began(c.steps) = {}
<1>1. c.cur = NoStep /\ c.forks = [f \in ForkIds |-> NoFork]
  BY DEF NewRuntimeState
<1>2. \A s \in StepIds : c.steps[s] = NoState
  BY NewContent
<1>3. NoState.status = ""
  BY DEF NoState
<1>4. Began(c.steps) = {}
  BY <1>2, <1>3 DEF Began
<1>5. PathOK(c) /\ ~ Undoing(c)
  <2>1. c.queue = <<>> /\ c.status = status
    BY NewContent
  <2> QED
    BY <2>1, NewOnPath DEF Undoing
<1>6. Idle(c.forks)
  BY <1>1, <1>5, NoStepIsIdle DEF PathOK
<1>7. ASSUME NEW again PROVE OrderOK(c, again)
  BY <1>1, <1>4, <1>6, IdleInOrder DEF OrderOK
<1> QED
  BY <1>4, <1>7 DEF InstanceOrder

OrderInv == \A i \in Instances : InstanceOrder(content[i])

\* A step of the specification keeps the order and what is done.
LEMMA OrderStep ==
  ASSUME ForksUnnested, StepsInOrder, TypeInv, PathInv, SagaInv, OrderInv, [ExecNext]_execVars
  PROVE  OrderInv' /\ \A i \in Instances : DoneStays(content[i], content'[i])
<1>1. ASSUME NEW i \in Instances, NEW d, InstanceOrder(d), DoneStays(content[i], d),
             content' = [content EXCEPT ![i] = d]
      PROVE  OrderInv' /\ \A j \in Instances : DoneStays(content[j], content'[j])
  <2>1. ASSUME NEW j \in Instances PROVE InstanceOrder(content'[j]) /\ DoneStays(content[j], content'[j])
    <3>1. CASE j = i
      <4>1. content'[j] = d
        BY <1>1, <3>1 DEF TypeInv
      <4> QED
        BY <1>1, <3>1, <4>1
    <3>2. CASE j # i
      <4>1. content'[j] = content[j]
        BY <1>1, <3>2 DEF TypeInv
      <4>2. DoneStays(content[j], content[j])
        BY DEF DoneStays
      <4>3. InstanceOrder(content[j])
        BY DEF OrderInv
      <4> QED
        BY <4>1, <4>2, <4>3
    <3> QED
      BY <3>1, <3>2
  <2> QED
    BY <2>1 DEF OrderInv
<1>2. CASE content' = content
  <2>1. \A i \in Instances : DoneStays(content[i], content'[i])
    BY <1>2 DEF DoneStays
  <2> QED
    BY <1>2, <2>1 DEF OrderInv
<1>3. ASSUME NEW i \in Instances, Create(i) \/ Start(i) \/ FinishEmpty(i) \/ Finish(i)
      PROVE  \E d : InstanceOrder(d) /\ DoneStays(content[i], d) /\ content' = [content EXCEPT ![i] = d]
  <2>1. PICK c : c = content[i]
    OBVIOUS
  <2>2. IsTyped(c) /\ QueueOK(c) /\ PathOK(c) /\ SagaOK(c) /\ InstanceOrder(c)
    BY <2>1, ContentTyped DEF PathInv, SagaInv, OrderInv
  <2>3. CASE Create(i)
    <3>1. PICK d : d = NewRuntimeState("pending")
      OBVIOUS
    <3>2. c.status = "absent" /\ content' = [content EXCEPT ![i] = d]
      BY <2>1, <2>3, <3>1 DEF Create
    <3>3. Began(c.steps) = {}
      BY <2>2, <3>2 DEF InstanceOrder
    <3>4. DoneStays(c, d)
      BY <3>3 DEF DoneStays, Began
    <3> QED
      BY <2>1, <3>1, <3>2, <3>4, NewInOrder
  <2>4. CASE Start(i)
    <3>1. PICK d : d = StartStep(c, keySeq + 1)
      OBVIOUS
    <3>2. c.status \notin Terminal /\ StepToRun(c).next \in StepIds /\ content' = [content EXCEPT ![i] = d]
      BY <2>1, <2>4, <3>1 DEF Start, Ready
    <3>3. InstanceOrder(d) /\ DoneStays(c, d)
      BY <2>2, <3>1, <3>2, StartOnce
    <3> QED
      BY <2>1, <3>2, <3>3
  <2>5. CASE FinishEmpty(i)
    <3>1. PICK d : d = FinishWithoutStep(c)
      OBVIOUS
    <3>2. content' = [content EXCEPT ![i] = d]
      BY <2>1, <2>5, <3>1 DEF FinishEmpty
    <3>3. InstanceOrder(d) /\ DoneStays(c, d)
      BY <2>2, <3>1, EndOnce
    <3> QED
      BY <2>1, <3>2, <3>3
  <2>6. CASE Finish(i)
    <3>1. Running(c)
      BY <2>1, <2>6 DEF Finish
    <3>2. PICK reached \in SUBSET past[i] : \E out \in Execute(c, reached) :
            content' = [content EXCEPT ![i] = HandleResult(c, out)]
      BY <2>1, <2>6 DEF Finish
    <3>3. PICK out \in Execute(c, reached) : content' = [content EXCEPT ![i] = HandleResult(c, out)]
      BY <3>2
    <3>4. c.cur \in StepIds
      BY <2>2, <3>1 DEF Running, IsTyped, RefsOn
    <3>5. PICK d : d = HandleResult(c, out)
      OBVIOUS
    <3>6. InstanceOrder(d) /\ DoneStays(c, d)
      BY <2>2, <3>1, <3>4, <3>5, FinishOnce
    <3> QED
      BY <2>1, <3>3, <3>5, <3>6
  <2> QED
    BY <1>3, <2>3, <2>4, <2>5, <2>6
<1>4. \/ content' = content
      \/ \E i \in Instances : Create(i) \/ Start(i) \/ FinishEmpty(i) \/ Finish(i)
  BY DEF ExecNext, execVars, Elapse
<1> QED
  BY <1>1, <1>2, <1>3, <1>4

LEMMA OrderIsInvariant ==
  ASSUME CompensationsApart, ForksUnnested, StepsInOrder
  PROVE  ExecSpec => [](TypeInv /\ PathInv /\ SagaInv /\ OrderInv)
<1>1. ExecInit => OrderInv
  BY NewInOrder DEF ExecInit, Absent, OrderInv
<1>2. TypeInv /\ PathInv /\ SagaInv /\ OrderInv /\ [ExecNext]_execVars => OrderInv'
  BY OrderStep
<1> QED
  BY <1>1, <1>2, PathIsInvariant, SagaIsInvariant, PTL DEF ExecSpec

\* For every definition without nested forks whose compensations stand apart and whose steps
\* are listed in order: a step that is completed or failed is not run again, although
\* branches share steps and conditions jump back.
THEOREM StepsAreDoneOnce ==
  ASSUME CompensationsApart, ForksUnnested, StepsInOrder PROVE ExecSpec => StepsRunOnce
<1>1. TypeInv /\ PathInv /\ SagaInv /\ OrderInv /\ [ExecNext]_execVars =>
        [\A i \in Instances : \A s \in StepIds :
           content[i].steps[s].status \in {"completed", "failed"} =>
             content'[i].steps[s] = content[i].steps[s]]_execVars
  BY OrderStep DEF DoneStays
<1> QED
  BY <1>1, OrderIsInvariant, PTL DEF ExecSpec, StepsRunOnce

=============================================================================
