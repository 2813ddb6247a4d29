--------------------------- MODULE ExecutionProofs ---------------------------
(***************************************************************************)
(* The machine follows references of the definition only, for every        *)
(* definition; and the saga keeps its order and forgets no compensation,   *)
(* for every definition whose compensations stand apart.                   *)
(***************************************************************************)
EXTENDS Execution, InstanceProofs, WellFoundedInduction

-----------------------------------------------------------------------------
(* Least elements *)

\* A set of natural numbers that is not empty has a least element.
LEMMA LeastNatural ==
  ASSUME NEW T \in SUBSET Nat, T # {}
  PROVE  Min(T) \in T /\ \A y \in T : Min(T) <= y
<1> DEFINE Less == {p \in Nat \X Nat : p[1] < p[2]}
<1>1. IsWellFoundedOn(Less, Nat)
  BY NatLessThanWellFounded DEF OpToRel
<1> HIDE DEF Less
<1>2. PICK x \in T : \A y \in T : <<y, x>> \notin Less
  BY <1>1, WFMin
<1>3. \A y \in T : ~ (y < x)
  BY <1>2 DEF Less
<1>4. \A y \in T : x <= y
  BY <1>3
<1> QED
  BY <1>4 DEF Min

-----------------------------------------------------------------------------
(* The compensation queue *)

Undo(id) == StepByID(id).onFailure

\* One turn of the loop of CompensationQueue.
Add(queue, id) ==
  IF Undo(id) = NoStep \/ Contains(queue, Undo(id)) THEN queue ELSE Append(queue, Undo(id))

\* queues[k] is the queue after the first k of the ids, up to n of them.
AreQueues(queues, ids, n) ==
  queues = [k \in 0 .. n |-> IF k = 0 THEN <<>> ELSE Add(queues[k - 1], ids[k])]

LEMMA QueuesExist ==
  ASSUME NEW ids
  PROVE  \A n \in Nat : \E queues : AreQueues(queues, ids, n)
<1> DEFINE T == {n \in Nat : ~ \E queues : AreQueues(queues, ids, n)}
<1>1. SUFFICES ASSUME T # {} PROVE FALSE
  OBVIOUS
<1>2. PICK n \in T : \A m \in T : n <= m
  BY <1>1, LeastNatural
<1>3. CASE n = 0
  <2>1. PICK queues : queues = [k \in 0 .. 0 |-> <<>>]
    OBVIOUS
  <2>2. AreQueues(queues, ids, 0)
    BY <2>1 DEF AreQueues
  <2> QED
    BY <1>3, <2>2
<1>4. CASE n # 0
  <2>1. n - 1 \in Nat /\ n - 1 \notin T
    BY <1>2, <1>4
  <2>2. PICK before : AreQueues(before, ids, n - 1)
    BY <2>1
  <2>3. PICK queues : queues = [k \in 0 .. n |-> IF k = n THEN Add(before[n - 1], ids[n]) ELSE before[k]]
    OBVIOUS
  <2>4. \A k \in 0 .. n - 1 : queues[k] = before[k]
    BY <2>1, <2>3
  <2>5. \A k \in 0 .. n - 1 : before[k] = IF k = 0 THEN <<>> ELSE Add(before[k - 1], ids[k])
    BY <2>2 DEF AreQueues
  <2>6. \A k \in 0 .. n : queues[k] = IF k = 0 THEN <<>> ELSE Add(queues[k - 1], ids[k])
    <3>1. TAKE k \in 0 .. n
    <3>2. CASE k = n
      BY <1>4, <2>1, <2>3, <2>4, <3>2
    <3>3. CASE k # n
      <4>1. k \in 0 .. n - 1 /\ (k # 0 => k - 1 \in 0 .. n - 1)
        BY <2>1, <3>3
      <4> QED
        BY <2>4, <2>5, <4>1
    <3> QED
      BY <3>2, <3>3
  <2>7. queues = [k \in 0 .. n |-> queues[k]]
    BY <2>3
  <2>8. AreQueues(queues, ids, n)
    BY <2>6, <2>7 DEF AreQueues
  <2> QED
    BY <2>8
<1> QED
  BY <1>3, <1>4

\* The ids of CompensationQueue: the failed step, and the completed ones, latest first.
UndoList(c, failed) == <<failed>> \o Reverse(c.completed)

LEMMA QueueIsLast ==
  ASSUME NEW c, NEW failed, Len(UndoList(c, failed)) \in Nat
  PROVE  \E queues : /\ AreQueues(queues, UndoList(c, failed), Len(UndoList(c, failed)))
                     /\ CompensationQueue(c, failed) = queues[Len(UndoList(c, failed))]
<1>1. PICK ids : ids = UndoList(c, failed)
  OBVIOUS
<1> DEFINE queue == CHOOSE queues : AreQueues(queues, ids, Len(ids))
<1>2. AreQueues(queue, ids, Len(ids))
  BY <1>1, QueuesExist
<1>3. CompensationQueue(c, failed) = queue[Len(ids)]
  BY <1>1 DEF CompensationQueue, AreQueues, Add, Undo, UndoList
<1> QED
  BY <1>1, <1>2, <1>3

\* queue has the compensations of the first n ids, each one once, in the order in which
\* they are first called for.
IsQueue(queue, ids, n) ==
  /\ queue \in Seq(StepIds)
  /\ \A p \in 1 .. Len(queue) : \E k \in 1 .. n : queue[p] = Undo(ids[k])
  /\ \A k \in 1 .. n : Undo(ids[k]) # NoStep => \E p \in 1 .. Len(queue) : queue[p] = Undo(ids[k])
  /\ \A p, q \in 1 .. Len(queue) :
       p < q => /\ queue[p] # queue[q]
                /\ \A k \in 1 .. n : queue[q] = Undo(ids[k]) => \E j \in 1 .. k - 1 : queue[p] = Undo(ids[j])

LEMMA UndoIsRef ==
  ASSUME NEW id \in StepIds PROVE Undo(id) \in Refs
BY StepIsOne, StepsAreTyped DEF Undo

LEMMA AddIsQueue ==
  ASSUME NEW ids, NEW n \in Nat \ {0}, ids[n] \in StepIds, NEW queue, IsQueue(queue, ids, n - 1)
  PROVE  IsQueue(Add(queue, ids[n]), ids, n)
<1>1. PICK ref : ref = Undo(ids[n])
  OBVIOUS
<1>2. ref \in Refs
  BY <1>1, UndoIsRef
<1>3. PICK len \in Nat : len = Len(queue)
  BY DEF IsQueue
<1>4. PICK after : after = Add(queue, ids[n])
  OBVIOUS
<1>5. /\ queue \in Seq(StepIds)
      /\ \A p \in 1 .. len : \E k \in 1 .. n - 1 : queue[p] = Undo(ids[k])
      /\ \A k \in 1 .. n - 1 : Undo(ids[k]) # NoStep => \E p \in 1 .. len : queue[p] = Undo(ids[k])
  BY <1>3 DEF IsQueue
<1>a. \A p, q \in 1 .. len : p < q => queue[p] # queue[q]
  BY <1>3 DEF IsQueue
<1>b. \A p, q \in 1 .. len : \A k \in 1 .. n - 1 :
        p < q /\ queue[q] = Undo(ids[k]) => \E j \in 1 .. k - 1 : queue[p] = Undo(ids[j])
  BY <1>3 DEF IsQueue
<1>6. CASE ref = NoStep \/ \E p \in 1 .. len : queue[p] = ref
  <2>1. after = queue
    BY <1>1, <1>3, <1>4, <1>6 DEF Add, Contains
  <2>2. \A p \in 1 .. len : \E k \in 1 .. n : queue[p] = Undo(ids[k])
    BY <1>5
  <2>3. \A k \in 1 .. n : Undo(ids[k]) # NoStep => \E p \in 1 .. len : queue[p] = Undo(ids[k])
    BY <1>1, <1>5, <1>6
  <2>4. ASSUME NEW p \in 1 .. len, NEW q \in 1 .. len, p < q, NEW k \in 1 .. n, queue[q] = Undo(ids[k])
        PROVE  \E j \in 1 .. k - 1 : queue[p] = Undo(ids[j])
    <3>1. CASE k = n
      BY <1>5, <3>1
    <3>2. CASE k # n
      <4>1. k \in 1 .. n - 1
        BY <3>2
      <4> QED
        BY <1>b, <2>4, <4>1
    <3> QED
      BY <3>1, <3>2
  <2> QED
    BY <1>3, <1>4, <1>5, <1>a, <2>1, <2>2, <2>3, <2>4 DEF IsQueue
<1>7. CASE ref # NoStep /\ \A p \in 1 .. len : queue[p] # ref
  <2>1. after = Append(queue, ref) /\ ref \in StepIds
    BY <1>1, <1>2, <1>3, <1>4, <1>7 DEF Add, Contains, Refs
  <2>2. /\ after \in Seq(StepIds) /\ Len(after) = len + 1 /\ after[len + 1] = ref
        /\ \A p \in 1 .. len : after[p] = queue[p]
    BY <1>3, <1>5, <2>1
  <2>3. \A p \in 1 .. len + 1 : \E k \in 1 .. n : after[p] = Undo(ids[k])
    BY <1>1, <1>5, <2>2
  <2>4. \A k \in 1 .. n : Undo(ids[k]) # NoStep => \E p \in 1 .. len + 1 : after[p] = Undo(ids[k])
    <3>1. TAKE k \in 1 .. n
    <3>2. CASE k = n
      BY <1>1, <2>2, <3>2
    <3>3. CASE k # n
      <4>1. k \in 1 .. n - 1
        BY <3>3
      <4> QED
        BY <1>5, <2>2, <4>1
    <3> QED
      BY <3>2, <3>3
  <2>5. ASSUME NEW p \in 1 .. len + 1, NEW q \in 1 .. len + 1, p < q
        PROVE  after[p] # after[q]
    <3>1. p \in 1 .. len /\ after[p] = queue[p]
      BY <2>2, <2>5
    <3>2. CASE q = len + 1
      BY <1>7, <2>2, <3>1, <3>2
    <3>3. CASE q # len + 1
      <4>1. q \in 1 .. len /\ after[q] = queue[q]
        BY <2>2, <3>3
      <4> QED
        BY <1>a, <2>5, <3>1, <4>1
    <3> QED
      BY <3>2, <3>3
  <2>6. ASSUME NEW p \in 1 .. len + 1, NEW q \in 1 .. len + 1, p < q, NEW k \in 1 .. n, after[q] = Undo(ids[k])
        PROVE  \E j \in 1 .. k - 1 : after[p] = Undo(ids[j])
    <3>1. p \in 1 .. len /\ after[p] = queue[p]
      BY <2>2, <2>6
    <3>2. CASE k = n
      BY <1>5, <3>1, <3>2
    <3>3. CASE k # n
      <4>1. k \in 1 .. n - 1
        BY <3>3
      <4>2. q # len + 1
        BY <1>5, <1>7, <2>2, <2>6, <4>1
      <4>3. q \in 1 .. len /\ after[q] = queue[q]
        BY <2>2, <4>2
      <4> QED
        BY <1>b, <2>6, <3>1, <4>1, <4>3
    <3> QED
      BY <3>2, <3>3
  <2>7. \A p, q \in 1 .. len + 1 :
          p < q => /\ after[p] # after[q]
                   /\ \A k \in 1 .. n : after[q] = Undo(ids[k]) => \E j \in 1 .. k - 1 : after[p] = Undo(ids[j])
    BY <2>5, <2>6
  <2>8. after \in Seq(StepIds) /\ 1 .. Len(after) = 1 .. len + 1
    BY <2>2
  <2>9. IsQueue(after, ids, n)
    BY <2>3, <2>4, <2>7, <2>8 DEF IsQueue
  <2> QED
    BY <1>4, <2>9
<1> QED
  BY <1>6, <1>7

\* What CompensationQueue computes.
LEMMA QueueIsQueue ==
  ASSUME NEW c, c.completed \in Seq(StepIds), NEW failed \in StepIds
  PROVE  IsQueue(CompensationQueue(c, failed), UndoList(c, failed), Len(c.completed) + 1)
<1>1. PICK ids : ids = UndoList(c, failed)
  OBVIOUS
<1>2. PICK len \in Nat : len = Len(c.completed) + 1
  OBVIOUS
<1>3. Reverse(c.completed) \in Seq(StepIds) /\ Len(Reverse(c.completed)) = len - 1
  BY <1>2 DEF Reverse
<1>4. ids \in Seq(StepIds) /\ Len(ids) = len
  BY <1>1, <1>2, <1>3 DEF UndoList
<1>5. PICK queues : AreQueues(queues, ids, len) /\ CompensationQueue(c, failed) = queues[len]
  BY <1>1, <1>4, QueueIsLast
<1>6. \A n \in 0 .. len : queues[n] = IF n = 0 THEN <<>> ELSE Add(queues[n - 1], ids[n])
  BY <1>5 DEF AreQueues
<1> DEFINE T == {n \in 0 .. len : ~ IsQueue(queues[n], ids, n)}
<1>7. T = {}
  <2>1. SUFFICES ASSUME T # {} PROVE FALSE
    OBVIOUS
  <2>2. T \in SUBSET Nat
    OBVIOUS
  <2> HIDE DEF T
  <2>3. PICK n \in T : \A m \in T : n <= m
    BY <2>1, <2>2, LeastNatural
  <2> USE DEF T
  <2>4. CASE n = 0
    <3>1. queues[0] = <<>> /\ ~ IsQueue(queues[0], ids, 0)
      BY <1>6, <2>3, <2>4
    <3>2. <<>> \in Seq(StepIds) /\ Len(<<>>) = 0
      OBVIOUS
    <3> QED
      BY <3>1, <3>2 DEF IsQueue
  <2>5. CASE n # 0
    <3>1. n \in Nat \ {0} /\ n - 1 \in 0 .. len /\ n - 1 \notin T /\ ids[n] \in StepIds
      BY <1>4, <2>3, <2>5
    <3>2. IsQueue(queues[n - 1], ids, n - 1)
      BY <3>1
    <3>3. IsQueue(Add(queues[n - 1], ids[n]), ids, n)
      BY <3>1, <3>2, AddIsQueue
    <3> QED
      BY <1>6, <2>5, <3>3
  <2> QED
    BY <2>4, <2>5
<1> QED
  BY <1>1, <1>2, <1>5, <1>7

-----------------------------------------------------------------------------
(* References and forks *)

\* The states of forks whose references are steps of V.
BranchStateOn(V) == [cur : RefsOn(V), status : {"pending", "running", "completed", "failed"}]

BranchesOn(V) == Seq(BranchStateOn(V))

ForkStatuses == {"", "running", "completed", "joined", "failed"}

ForkStateOn(V) == [status : ForkStatuses, join : RefsOn(V), branches : BranchesOn(V)]

ForksOn(V) == [ForkIds -> ForkStateOn(V)]

LEMMA NoStepIsNone == NoStep \notin StepIds
BY StepsAssumption DEF WellFormed

LEMMA StepsIsSeq == Len(Steps) \in Nat /\ DOMAIN Steps = 1 .. Len(Steps) /\ DOMAIN Steps \in SUBSET Nat
<1>1. Steps \in Seq([id : StepIds, type : StepTypes, next : Refs, then : Refs, else : Refs,
                    branches : Seq(StepIds), join : Refs, onFailure : Refs, maxRetries : Nat])
  BY StepsAssumption DEF WellFormed
<1> QED
  BY <1>1

LEMMA ForksAreSteps ==
  ASSUME NEW f \in ForkIds PROVE f \in StepIds /\ StepByID(f).type = "fork"
<1>1. PICK n \in DOMAIN Steps : Steps[n].id = f /\ Steps[n].type = "fork"
  BY DEF ForkIds
<1>2. f \in StepIds
  BY <1>1 DEF StepIds
<1>3. PICK m \in DOMAIN Steps : Steps[m].id = f /\ StepByID(f) = Steps[m]
  BY <1>2, StepIsOne
<1>4. m = n
  BY <1>1, <1>3, StepsAssumption DEF WellFormed
<1> QED
  BY <1>1, <1>2, <1>3, <1>4

LEMMA ForkTypes ==
  ASSUME NEW s \in StepIds, StepByID(s).type = "fork" PROVE s \in ForkIds
BY StepIsOne DEF ForkIds

\* Every fork has a join.
LEMMA JoinIsStep ==
  ASSUME NEW f \in ForkIds PROVE JoinOf(f) \in StepIds
<1>1. f \in StepIds /\ StepByID(f).type = "fork"
  BY ForksAreSteps
<1>2. PICK n \in DOMAIN Steps : Steps[n].id = f /\ StepByID(f) = Steps[n]
  BY <1>1, StepIsOne
<1>3. CASE StepByID(f).join # NoStep
  BY <1>2, <1>3, StepsAreTyped DEF JoinOf, Refs
<1>4. CASE StepByID(f).join = NoStep
  <2>1. PICK m \in DOMAIN Steps : m > n /\ Steps[m].type = "join"
    BY <1>1, <1>2, <1>4, StepsAssumption DEF WellFormed
  <2>2. Position(f) = n
    BY <1>2, StepsAssumption DEF Position, WellFormed
  <2> DEFINE later == {k \in DOMAIN Steps : k > Position(f) /\ Steps[k].type = "join"}
  <2>3. later # {} /\ later \in SUBSET Nat
    BY <2>1, <2>2, StepsIsSeq
  <2>4. Min(later) \in DOMAIN Steps
    <3> HIDE DEF later
    <3>1. Min(later) \in later
      BY <2>3, LeastNatural
    <3> QED
      BY <3>1 DEF later
  <2>5. JoinOf(f) = Steps[Min(later)].id
    BY <1>4, <2>3 DEF JoinOf, firstJoinAfter
  <2> QED
    BY <2>4, <2>5 DEF StepIds
<1> QED
  BY <1>3, <1>4

LEMMA StepIdsAreClosed == Closed(StepIds)
<1>1. \A n \in NormalPositions : Steps[n].id \in StepIds
  BY DEF NormalPositions, StepIds
<1>2. ASSUME NEW s \in StepIds
      PROVE  /\ StepByID(s).next \in Refs /\ StepByID(s).then \in Refs /\ StepByID(s).else \in Refs
             /\ StepByID(s).branches \in Seq(StepIds)
  BY StepIsOne, StepsAreTyped
<1> QED
  BY <1>1, <1>2, JoinIsStep DEF Closed, Refs, RefsOn

LEMMA NormalIsClosed ==
  ASSUME NEW V, Closed(V), NEW id
  PROVE  FirstNormal \in RefsOn(V) /\ NextNormal(id) \in RefsOn(V)
<1>1. NormalPositions \in SUBSET Nat
  BY StepsIsSeq DEF NormalPositions
<1>2. FirstNormal \in RefsOn(V)
  BY <1>1, LeastNatural DEF FirstNormal, Closed, RefsOn
<1>3. PICK later : later = {n \in NormalPositions : n > Position(id)}
  OBVIOUS
<1>4. later \in SUBSET Nat /\ later \subseteq NormalPositions
  BY <1>1, <1>3
<1>5. later # {} => Min(later) \in NormalPositions
  BY <1>4, LeastNatural
<1>6. NextNormal(id) = IF Position(id) \in NormalPositions /\ later # {} THEN Steps[Min(later)].id ELSE NoStep
  BY <1>3 DEF NextNormal
<1> QED
  BY <1>2, <1>5, <1>6 DEF Closed, RefsOn

\* The parts of a fork.
LEMMA ForkOn ==
  ASSUME NEW V, NEW forks \in ForksOn(V), NEW f \in ForkIds
  PROVE  /\ forks[f] = [status |-> forks[f].status, join |-> forks[f].join, branches |-> forks[f].branches]
         /\ forks[f].status \in ForkStatuses
         /\ forks[f].join \in RefsOn(V)
         /\ forks[f].branches \in BranchesOn(V)
<1>1. forks[f] \in ForkStateOn(V)
  BY DEF ForksOn
<1> QED
  BY <1>1 DEF ForkStateOn

LEMMA BranchOn ==
  ASSUME NEW V, NEW branches \in BranchesOn(V)
  PROVE  /\ DOMAIN branches \in SUBSET Nat
         /\ \A n \in DOMAIN branches : branches[n] \in BranchStateOn(V)
BY DEF BranchesOn

\* A fork, its status, or a branch of it may be replaced.
LEMMA SetFork ==
  ASSUME NEW V, NEW forks \in ForksOn(V), NEW f \in ForkIds,
         NEW status \in ForkStatuses, NEW branches \in BranchesOn(V)
  PROVE  [forks EXCEPT ![f] = [status |-> status, join |-> forks[f].join, branches |-> branches]] \in ForksOn(V)
<1>1. forks[f].join \in RefsOn(V)
  BY ForkOn
<1>2. [status |-> status, join |-> forks[f].join, branches |-> branches] \in ForkStateOn(V)
  BY <1>1 DEF ForkStateOn
<1> QED
  BY <1>2 DEF ForksOn

LEMMA SetStatus ==
  ASSUME NEW V, NEW forks \in ForksOn(V), NEW f \in ForkIds, NEW status \in ForkStatuses
  PROVE  [forks EXCEPT ![f].status = status] \in ForksOn(V)
<1>1. PICK fork : fork = forks[f]
  OBVIOUS
<1>2. fork = [status |-> fork.status, join |-> fork.join, branches |-> fork.branches]
  BY <1>1, ForkOn
<1>3. [fork EXCEPT !.status = status] = [status |-> status, join |-> fork.join, branches |-> fork.branches]
  BY <1>2
<1>4. [forks EXCEPT ![f].status = status] = [forks EXCEPT ![f] = [fork EXCEPT !.status = status]]
  BY <1>1
<1>5. fork.branches \in BranchesOn(V)
  BY <1>1, ForkOn
<1> QED
  BY <1>1, <1>3, <1>4, <1>5, SetFork

LEMMA SetBranch ==
  ASSUME NEW V, NEW forks \in ForksOn(V), NEW f \in ForkIds, NEW n \in DOMAIN forks[f].branches,
         NEW branch \in BranchStateOn(V)
  PROVE  [forks EXCEPT ![f].branches[n] = branch] \in ForksOn(V)
<1>1. PICK fork : fork = forks[f]
  OBVIOUS
<1>2. fork = [status |-> fork.status, join |-> fork.join, branches |-> fork.branches]
  BY <1>1, ForkOn
<1>3. PICK old, branches : old = fork.branches /\ branches = [old EXCEPT ![n] = branch]
  OBVIOUS
<1>4. old \in BranchesOn(V) /\ n \in DOMAIN old
  BY <1>1, <1>3, ForkOn
<1>5. branches \in BranchesOn(V)
  BY <1>3, <1>4 DEF BranchesOn
<1>6. [fork EXCEPT !.branches[n] = branch] = [status |-> fork.status, join |-> fork.join, branches |-> branches]
  BY <1>2, <1>3
<1>7. [forks EXCEPT ![f].branches[n] = branch] = [forks EXCEPT ![f] = [fork EXCEPT !.branches[n] = branch]]
  BY <1>1
<1>8. fork.status \in ForkStatuses
  BY <1>1, ForkOn
<1> QED
  BY <1>1, <1>5, <1>6, <1>7, <1>8, SetFork

LEMMA SetBranchStatus ==
  ASSUME NEW V, NEW forks \in ForksOn(V), NEW f \in ForkIds, NEW n \in DOMAIN forks[f].branches,
         NEW status \in {"pending", "running", "completed", "failed"}
  PROVE  [forks EXCEPT ![f].branches[n].status = status] \in ForksOn(V)
<1>1. PICK branch : branch = forks[f].branches[n]
  OBVIOUS
<1>2. branch \in BranchStateOn(V)
  BY <1>1, ForkOn, BranchOn
<1>3. [branch EXCEPT !.status = status] \in BranchStateOn(V)
  BY <1>2 DEF BranchStateOn
<1>4. [forks EXCEPT ![f].branches[n].status = status]
        = [forks EXCEPT ![f].branches[n] = [branch EXCEPT !.status = status]]
  BY <1>1
<1> QED
  BY <1>3, <1>4, SetBranch

-----------------------------------------------------------------------------
(* The machine *)

LEMMA StartForkOn ==
  ASSUME NEW V, Closed(V), NEW forks \in ForksOn(V), NEW id \in V \cap ForkIds
  PROVE  startFork(forks, id) \in ForksOn(V)
<1>1. CASE forks[id].status # ""
  BY <1>1 DEF startFork
<1>2. CASE forks[id].status = ""
  <2>1. PICK starts : starts = StepByID(id).branches
    OBVIOUS
  <2>2. starts \in Seq(V) /\ JoinOf(id) \in V
    BY <2>1 DEF Closed
  <2>3. PICK branches : branches = [n \in DOMAIN starts |-> [cur |-> starts[n], status |-> "pending"]]
    OBVIOUS
  <2>4. \A n \in DOMAIN starts : [cur |-> starts[n], status |-> "pending"] \in BranchStateOn(V)
    BY <2>2 DEF BranchStateOn, RefsOn
  <2>5. branches \in BranchesOn(V)
    BY <2>2, <2>3, <2>4 DEF BranchesOn
  <2>6. [status |-> "running", join |-> JoinOf(id), branches |-> branches] \in ForkStateOn(V)
    BY <2>2, <2>5 DEF ForkStateOn, ForkStatuses, RefsOn
  <2>7. startFork(forks, id)
          = [forks EXCEPT ![id] = [status |-> "running", join |-> JoinOf(id), branches |-> branches]]
    BY <1>2, <2>1, <2>3 DEF startFork
  <2> QED
    BY <2>6, <2>7 DEF ForksOn
<1> QED
  BY <1>1, <1>2

LEMMA NextForkStepOn ==
  ASSUME NEW V, NEW forks \in ForksOn(V), NEW id \in ForkIds
  PROVE  nextForkStep(forks, id).next \in RefsOn(V) /\ nextForkStep(forks, id).forks \in ForksOn(V)
<1>1. PICK branches : branches = forks[id].branches
  OBVIOUS
<1>2. PICK open : open = {n \in DOMAIN branches : branches[n].status \in {"pending", "running"}}
  OBVIOUS
<1>3. /\ DOMAIN branches \in SUBSET Nat
      /\ \A n \in DOMAIN branches : branches[n] \in BranchStateOn(V)
  BY <1>1, ForkOn, BranchOn
<1>4. CASE open # {}
  <2>1. Min(open) \in DOMAIN branches
    <3>1. open \in SUBSET Nat
      BY <1>2, <1>3
    <3>2. Min(open) \in open
      BY <1>4, <3>1, LeastNatural
    <3> QED
      BY <1>2, <3>2
  <2>2. PICK m : m = Min(open)
    OBVIOUS
  <2>3. branches[m].cur \in RefsOn(V)
    BY <1>3, <2>1, <2>2 DEF BranchStateOn
  <2>4. [forks EXCEPT ![id].branches[m].status = "running"] \in ForksOn(V)
    BY <1>1, <2>1, <2>2, SetBranchStatus
  <2>5. nextForkStep(forks, id)
          = [next |-> branches[m].cur, forks |-> [forks EXCEPT ![id].branches[m].status = "running"]]
    BY <1>1, <1>2, <1>4, <2>2 DEF nextForkStep
  <2> QED
    BY <2>3, <2>4, <2>5
<1>5. CASE open = {}
  <2>1. [forks EXCEPT ![id].status = "completed"] \in ForksOn(V)
    BY SetStatus DEF ForkStatuses
  <2>2. nextForkStep(forks, id) = [next |-> forks[id].join, forks |-> [forks EXCEPT ![id].status = "completed"]]
    BY <1>1, <1>2, <1>5 DEF nextForkStep
  <2>3. forks[id].join \in RefsOn(V)
    BY ForkOn
  <2> QED
    BY <2>1, <2>2, <2>3
<1> QED
  BY <1>4, <1>5

\* The branch that branchForCurrentStep finds.
LEMMA BranchAtIsBranch ==
  ASSUME NEW forks, NEW id, BranchesAt(forks, id) # {}, NEW b, b = branchForCurrentStep(forks, id)
  PROVE  b[1] \in ForkIds /\ b[2] \in DOMAIN forks[b[1]].branches
<1>1. b \in BranchesAt(forks, id)
  BY DEF branchForCurrentStep
<1> QED
  BY <1>1 DEF BranchesAt, RunningBranches

LEMMA NextAfterBranchOn ==
  ASSUME NEW V, Closed(V), NEW forks \in ForksOn(V), NEW b, b[1] \in ForkIds, b[2] \in DOMAIN forks[b[1]].branches,
         NEW id \in V, NEW result \in RefsOn(V)
  PROVE  /\ nextAfterBranchStep(forks, b, id, result).next \in RefsOn(V)
         /\ nextAfterBranchStep(forks, b, id, result).forks \in ForksOn(V)
<1>1. PICK f, n, next : f = b[1] /\ n = b[2] /\ next = IF result # NoStep THEN result ELSE StepByID(id).next
  OBVIOUS
<1>2. f \in ForkIds /\ n \in DOMAIN forks[f].branches
  BY <1>1
<1>3. next \in RefsOn(V)
  BY <1>1 DEF Closed
<1>4. CASE next \notin {NoStep, forks[f].join}
  <2>1. [cur |-> next, status |-> "running"] \in BranchStateOn(V)
    BY <1>3 DEF BranchStateOn
  <2>2. [forks EXCEPT ![f].branches[n] = [cur |-> next, status |-> "running"]] \in ForksOn(V)
    BY <1>2, <2>1, SetBranch
  <2>3. nextAfterBranchStep(forks, b, id, result)
          = [next |-> next, forks |-> [forks EXCEPT ![f].branches[n] = [cur |-> next, status |-> "running"]]]
    BY <1>1, <1>4 DEF nextAfterBranchStep
  <2> QED
    BY <1>3, <2>2, <2>3
<1>5. CASE next \in {NoStep, forks[f].join}
  <2>1. [cur |-> NoStep, status |-> "completed"] \in BranchStateOn(V)
    BY DEF BranchStateOn, RefsOn
  <2>2. PICK after : after = [forks EXCEPT ![f].branches[n] = [cur |-> NoStep, status |-> "completed"]]
    OBVIOUS
  <2>3. after \in ForksOn(V)
    BY <1>2, <2>1, <2>2, SetBranch
  <2>4. nextAfterBranchStep(forks, b, id, result) = nextForkStep(after, f)
    BY <1>1, <1>5, <2>2 DEF nextAfterBranchStep
  <2> QED
    BY <1>2, <2>3, <2>4, NextForkStepOn
<1> QED
  BY <1>4, <1>5

LEMMA MarkJoinedOn ==
  ASSUME NEW V, NEW forks \in ForksOn(V), NEW id
  PROVE  markJoined(forks, id) \in ForksOn(V)
<1>1. ASSUME NEW f \in ForkIds
      PROVE  [forks[f] EXCEPT !.status = "joined"] \in ForkStateOn(V) /\ forks[f] \in ForkStateOn(V)
  <2>1. PICK fork : fork = forks[f]
    OBVIOUS
  <2>2. fork \in ForkStateOn(V)
    BY <2>1 DEF ForksOn
  <2>3. [fork EXCEPT !.status = "joined"] \in ForkStateOn(V)
    BY <2>2 DEF ForkStateOn, ForkStatuses
  <2> QED
    BY <2>1, <2>2, <2>3
<1> QED
  BY <1>1 DEF markJoined, ForksOn

LEMMA MarkBranchFailedOn ==
  ASSUME NEW V, NEW forks \in ForksOn(V), NEW id
  PROVE  MarkBranchFailed(forks, id) \in ForksOn(V)
<1>1. CASE BranchesAt(forks, id) = {}
  BY <1>1 DEF MarkBranchFailed
<1>2. CASE BranchesAt(forks, id) # {}
  <2>1. PICK b : b = branchForCurrentStep(forks, id)
    OBVIOUS
  <2>2. b[1] \in ForkIds /\ b[2] \in DOMAIN forks[b[1]].branches
    BY <1>2, <2>1, BranchAtIsBranch
  <2>3. PICK f, n : f = b[1] /\ n = b[2]
    OBVIOUS
  <2>4. PICK stopped : stopped = [forks EXCEPT ![f].status = "failed"]
    OBVIOUS
  <2>5. stopped \in ForksOn(V)
    BY <2>2, <2>3, <2>4, SetStatus DEF ForkStatuses
  <2>6. forks[f] = [status |-> forks[f].status, join |-> forks[f].join, branches |-> forks[f].branches] /\ f \in DOMAIN forks
    BY <2>2, <2>3, ForkOn DEF ForksOn
  <2>7. stopped[f].branches = forks[f].branches
    BY <2>4, <2>6
  <2>8. [stopped EXCEPT ![f].branches[n].status = "failed"] \in ForksOn(V)
    BY <2>2, <2>3, <2>5, <2>7, SetBranchStatus
  <2>9. MarkBranchFailed(forks, id) = [stopped EXCEPT ![f].branches[n].status = "failed"]
    BY <1>2, <2>1, <2>3, <2>4 DEF MarkBranchFailed
  <2> QED
    BY <2>8, <2>9
<1> QED
  BY <1>1, <1>2

LEMMA NextAfterOn ==
  ASSUME NEW V, Closed(V), NEW forks \in ForksOn(V), NEW id \in V, NEW result \in RefsOn(V)
  PROVE  NextAfter(forks, id, result).next \in RefsOn(V) /\ NextAfter(forks, id, result).forks \in ForksOn(V)
<1>1. id \in StepIds
  BY DEF Closed
<1>2. CASE StepByID(id).type = "fork"
  <2>1. id \in ForkIds
    BY <1>1, <1>2, ForkTypes
  <2>2. startFork(forks, id) \in ForksOn(V)
    BY <2>1, StartForkOn
  <2>3. NextAfter(forks, id, result) = nextForkStep(startFork(forks, id), id)
    BY <1>2 DEF NextAfter
  <2> QED
    BY <2>1, <2>2, <2>3, NextForkStepOn
<1>3. CASE StepByID(id).type # "fork" /\ BranchesAt(forks, id) # {}
  <2>1. PICK b : b = branchForCurrentStep(forks, id)
    OBVIOUS
  <2>2. b[1] \in ForkIds /\ b[2] \in DOMAIN forks[b[1]].branches
    BY <1>3, <2>1, BranchAtIsBranch
  <2>3. NextAfter(forks, id, result) = nextAfterBranchStep(forks, b, id, result)
    BY <1>3, <2>1 DEF NextAfter
  <2> QED
    BY <2>2, <2>3, NextAfterBranchOn
<1>4. CASE StepByID(id).type # "fork" /\ BranchesAt(forks, id) = {}
  <2>1. PICK joined, next :
          /\ joined = IF StepByID(id).type = "join" THEN markJoined(forks, id) ELSE forks
          /\ next = LET named == IF result # NoStep THEN result ELSE StepByID(id).next
                    IN  IF named # NoStep THEN named
                        ELSE IF StepByID(id).type = "condition" THEN NoStep ELSE NextNormal(id)
    OBVIOUS
  <2>2. NextAfter(forks, id, result) = [forks |-> joined, next |-> next]
    BY <1>4, <2>1 DEF NextAfter
  <2>3. joined \in ForksOn(V)
    BY <2>1, MarkJoinedOn
  <2>4. StepByID(id).next \in RefsOn(V) /\ NoStep \in RefsOn(V) /\ NextNormal(id) \in RefsOn(V)
    BY NormalIsClosed DEF Closed, RefsOn
  <2>5. next \in RefsOn(V)
    BY <2>1, <2>4
  <2> QED
    BY <2>2, <2>3, <2>5
<1> QED
  BY <1>2, <1>3, <1>4

LEMMA StepForCurrentOn ==
  ASSUME NEW V, Closed(V), NEW c, c.forks \in ForksOn(V), c.cur \in RefsOn(V),
         \A s \in V : c.steps[s].next \in RefsOn(V)
  PROVE  StepForCurrent(c).next \in RefsOn(V) /\ StepForCurrent(c).forks \in ForksOn(V)
<1>1. CASE c.cur = NoStep
  BY <1>1, NormalIsClosed DEF StepForCurrent
<1>2. CASE c.cur # NoStep
  <2>1. c.cur \in V /\ c.steps[c.cur].next \in RefsOn(V)
    BY <1>2 DEF RefsOn
  <2> QED
    BY <1>2, <2>1, NextAfterOn DEF StepForCurrent
<1> QED
  BY <1>1, <1>2

-----------------------------------------------------------------------------
(* Types *)

LEMMA ForksOnSteps == ForksOn(StepIds) = [ForkIds -> ForkState] /\ RefsOn(StepIds) = Refs
BY DEF ForksOn, ForkStateOn, BranchesOn, BranchStateOn, ForkStatuses, RefsOn, ForkState, Refs

\* A content of its type, part by part.
IsTyped(c) ==
  /\ c = [status |-> c.status, cur |-> c.cur, steps |-> c.steps,
          completed |-> c.completed, queue |-> c.queue, forks |-> c.forks]
  /\ c.status \in InstanceStatuses \cup {"absent"}
  /\ c.cur \in RefsOn(StepIds)
  /\ c.steps \in [StepIds -> StepState]
  /\ c.completed \in Seq(StepIds)
  /\ c.queue \in Seq(StepIds)
  /\ c.forks \in ForksOn(StepIds)

LEMMA TypedIsContent ==
  ASSUME NEW c PROVE IsTyped(c) <=> c \in Content
<1>1. PICK S, F : S = Seq(StepIds) /\ F = ForksOn(StepIds)
  OBVIOUS
<1>2. Content = [status : InstanceStatuses \cup {"absent"}, cur : RefsOn(StepIds), steps : [StepIds -> StepState],
                 completed : S, queue : S, forks : F]
  BY <1>1, ForksOnSteps DEF Content
<1>3. IsTyped(c) => c \in Content
  BY <1>1, <1>2 DEF IsTyped
<1>4. c \in Content => IsTyped(c)
  BY <1>1, <1>2 DEF IsTyped
<1> QED
  BY <1>3, <1>4

LEMMA TypedIsShaped ==
  ASSUME NEW c, IsTyped(c) PROVE IsContent(c)
<1>1. \A s \in StepIds : c.steps[s] \in StepState
  BY DEF IsTyped
<1>2. ASSUME NEW s \in StepIds PROVE IsState(c.steps[s])
  BY <1>1 DEF StepState, IsState
<1>3. IsFun(c.steps, StepIds)
  BY DEF IsTyped, IsFun
<1> QED
  BY <1>2, <1>3 DEF IsTyped, IsContent

LEMMA StepToRunTyped ==
  ASSUME NEW c, IsTyped(c)
  PROVE  StepToRun(c).next \in RefsOn(StepIds) /\ StepToRun(c).forks \in ForksOn(StepIds)
<1>1. \A s \in StepIds : c.steps[s].next \in RefsOn(StepIds)
  <2>1. TAKE s \in StepIds
  <2>2. c.steps[s] \in StepState
    BY DEF IsTyped
  <2> QED
    BY <2>2, ForksOnSteps DEF StepState
<1>2. CASE ~ Compensates(c)
  <2>1. StepToRun(c) = StepForCurrent(c)
    BY <1>2 DEF StepToRun
  <2>2. c.forks \in ForksOn(StepIds) /\ c.cur \in RefsOn(StepIds)
    BY DEF IsTyped
  <2> QED
    BY <1>1, <2>1, <2>2, StepForCurrentOn, StepIdsAreClosed
<1>3. CASE Compensates(c) /\ c.queue = <<>>
  BY <1>3 DEF StepToRun, IsTyped, RefsOn
<1>4. CASE Compensates(c) /\ c.queue # <<>>
  <2>1. Head(c.queue) \in StepIds
    BY <1>4 DEF IsTyped
  <2> QED
    BY <1>4, <2>1 DEF StepToRun, IsTyped, RefsOn
<1> QED
  BY <1>2, <1>3, <1>4

\* The states that the handlers give to the step they are about.
RunningState(state, key, prev) ==
  [status |-> "running", attempt |-> state.attempt + 1, key |-> key, waiting |-> 0, prev |-> prev, next |-> NoStep]

WaitingState(state, fireAt) ==
  [status |-> "waiting_timer", attempt |-> state.attempt, key |-> state.key, waiting |-> fireAt, prev |-> 0,
   next |-> state.next]

CompletedState(state, next) ==
  [status |-> "completed", attempt |-> state.attempt, key |-> state.key, waiting |-> 0, prev |-> 0, next |-> next]

FailedState(state) ==
  [status |-> "failed", attempt |-> state.attempt, key |-> state.key, waiting |-> state.waiting, prev |-> 0,
   next |-> state.next]

\* The contents the handlers lead to, field by field.
LEMMA StartForm ==
  ASSUME NEW c, IsContent(c), NEW newKey, NEW run, run = StepToRun(c)
  PROVE  StartStep(c, newKey) =
           [status |-> IF Compensates(c) THEN "compensating" ELSE "running",
            cur |-> run.next,
            steps |-> [c.steps EXCEPT ![run.next] =
                         RunningState(c.steps[run.next], KeyFor(c.steps[run.next], newKey),
                                      PreviousWait(c.steps[run.next],
                                                   IF Compensates(c) THEN "compensating" ELSE "running"))],
            completed |-> c.completed, queue |-> c.queue, forks |-> run.forks]
<1>1. c = [status |-> c.status, cur |-> c.cur, steps |-> c.steps,
           completed |-> c.completed, queue |-> c.queue, forks |-> c.forks]
  BY DEF IsContent
<1>2. PICK b : b = [c EXCEPT !.forks = run.forks]
  OBVIOUS
<1>3. b = [status |-> c.status, cur |-> c.cur, steps |-> c.steps,
           completed |-> c.completed, queue |-> c.queue, forks |-> run.forks]
  BY <1>1, <1>2
<1>4. PICK status : status = IF Compensates(c) THEN "compensating" ELSE "running"
  OBVIOUS
<1>5. PICK state : state = RunningState(c.steps[run.next], KeyFor(c.steps[run.next], newKey),
                                        PreviousWait(c.steps[run.next], status))
  OBVIOUS
<1>6. StartStep(c, newKey) = [b EXCEPT !.status = status, !.cur = run.next, !.steps[run.next] = state]
  BY <1>2, <1>3, <1>4, <1>5 DEF StartStep, markStepRunning, RunningState
<1> QED
  BY <1>3, <1>4, <1>5, <1>6

LEMMA FinishForm ==
  ASSUME NEW c, IsContent(c), NEW status
  PROVE  finishInstance(c, status) =
           [status |-> status, cur |-> NoStep, steps |-> c.steps,
            completed |-> c.completed, queue |-> c.queue, forks |-> c.forks]
<1>1. PICK d : d = finishInstance(c, status)
  OBVIOUS
<1>2. d = [status |-> status, cur |-> NoStep, steps |-> c.steps,
           completed |-> c.completed, queue |-> c.queue, forks |-> c.forks]
  BY <1>1 DEF finishInstance, IsContent
<1> QED
  BY <1>1, <1>2

LEMMA FinishWithoutForm ==
  ASSUME NEW c, IsContent(c)
  PROVE  FinishWithoutStep(c) =
           [status |-> IF Compensates(c) THEN "failed" ELSE "completed", cur |-> NoStep, steps |-> c.steps,
            completed |-> c.completed, queue |-> c.queue, forks |-> StepToRun(c).forks]
<1>1. PICK b : b = [c EXCEPT !.forks = StepToRun(c).forks]
  OBVIOUS
<1>2. b = [status |-> c.status, cur |-> c.cur, steps |-> c.steps,
           completed |-> c.completed, queue |-> c.queue, forks |-> StepToRun(c).forks]
  BY <1>1 DEF IsContent
<1>3. IsContent(b)
  BY <1>2 DEF IsContent
<1>4. PICK status : status = IF Compensates(c) THEN "failed" ELSE "completed"
  OBVIOUS
<1>5. FinishWithoutStep(c) = finishInstance(b, status)
  BY <1>1, <1>4 DEF FinishWithoutStep
<1> QED
  BY <1>2, <1>3, <1>4, <1>5, FinishForm

LEMMA WaitingForm ==
  ASSUME NEW c, IsContent(c), c.cur \in StepIds, NEW out
  PROVE  handleStepWaiting(c, out) =
           [status |-> "waiting_timer", cur |-> c.cur,
            steps |-> [c.steps EXCEPT ![c.cur] = WaitingState(c.steps[c.cur], out.fireAt)],
            completed |-> c.completed, queue |-> c.queue, forks |-> c.forks]
<1>1. c = [status |-> c.status, cur |-> c.cur, steps |-> c.steps,
           completed |-> c.completed, queue |-> c.queue, forks |-> c.forks]
  BY DEF IsContent
<1>2. PICK state : state = [c.steps[c.cur] EXCEPT !.status = "waiting_timer", !.waiting = out.fireAt, !.prev = 0]
  OBVIOUS
<1>3. state = WaitingState(c.steps[c.cur], out.fireAt)
  <2>1. IsState(c.steps[c.cur])
    BY DEF IsContent
  <2> QED
    BY <1>2, <2>1 DEF IsState, WaitingState
<1>4. handleStepWaiting(c, out) = [c EXCEPT !.status = "waiting_timer", !.steps[c.cur] = state]
  BY <1>2 DEF handleStepWaiting
<1> QED
  BY <1>1, <1>3, <1>4

LEMMA CompletedForm ==
  ASSUME NEW c, IsContent(c), c.cur \in StepIds, NEW next
  PROVE  MarkCompleted(c, c.cur, next) =
           [status |-> c.status, cur |-> c.cur,
            steps |-> [c.steps EXCEPT ![c.cur] = CompletedState(c.steps[c.cur], next)],
            completed |-> IF HasCompleted(c, c.cur) THEN c.completed ELSE Append(c.completed, c.cur),
            queue |-> c.queue, forks |-> c.forks]
<1>1. c = [status |-> c.status, cur |-> c.cur, steps |-> c.steps,
           completed |-> c.completed, queue |-> c.queue, forks |-> c.forks]
  BY DEF IsContent
<1>2. PICK state : state = [c.steps[c.cur] EXCEPT !.status = "completed", !.waiting = 0, !.prev = 0, !.next = next]
  OBVIOUS
<1>3. state = CompletedState(c.steps[c.cur], next)
  <2>1. IsState(c.steps[c.cur])
    BY DEF IsContent
  <2> QED
    BY <1>2, <2>1 DEF IsState, CompletedState
<1>4. PICK completed : completed = IF HasCompleted(c, c.cur) THEN c.completed ELSE Append(c.completed, c.cur)
  OBVIOUS
<1>5. MarkCompleted(c, c.cur, next) = [c EXCEPT !.steps[c.cur] = state, !.completed = completed]
  BY <1>2, <1>4 DEF MarkCompleted
<1> QED
  BY <1>1, <1>3, <1>4, <1>5

LEMMA SuccessForm ==
  ASSUME NEW c, IsContent(c), c.cur \in StepIds, NEW out,
         NEW after, after = NextAfter(c.forks, c.cur, out.next)
  PROVE  handleStepSuccess(c, out) =
           [status |-> IF after.next = NoStep THEN "completed" ELSE "running", cur |-> after.next,
            steps |-> [c.steps EXCEPT ![c.cur] = CompletedState(c.steps[c.cur], out.next)],
            completed |-> IF HasCompleted(c, c.cur) THEN c.completed ELSE Append(c.completed, c.cur),
            queue |-> c.queue, forks |-> after.forks]
<1>1. PICK steps, completed :
        /\ steps = [c.steps EXCEPT ![c.cur] = CompletedState(c.steps[c.cur], out.next)]
        /\ completed = IF HasCompleted(c, c.cur) THEN c.completed ELSE Append(c.completed, c.cur)
  OBVIOUS
<1>2. MarkCompleted(c, c.cur, out.next) =
        [status |-> c.status, cur |-> c.cur, steps |-> steps, completed |-> completed,
         queue |-> c.queue, forks |-> c.forks]
  BY <1>1, CompletedForm
<1>3. PICK done : done = [MarkCompleted(c, c.cur, out.next) EXCEPT !.forks = after.forks]
  OBVIOUS
<1>4. done = [status |-> c.status, cur |-> c.cur, steps |-> steps, completed |-> completed,
              queue |-> c.queue, forks |-> after.forks]
  BY <1>2, <1>3
<1>5. handleStepSuccess(c, out) =
        IF after.next = NoStep THEN [done EXCEPT !.status = "completed", !.cur = NoStep]
        ELSE [done EXCEPT !.status = "running", !.cur = after.next]
  BY <1>3 DEF handleStepSuccess, finishInstance
<1> QED
  BY <1>1, <1>4, <1>5

LEMMA CompensationForm ==
  ASSUME NEW c, IsContent(c), c.cur \in StepIds, NEW out
  PROVE  CompensationSuccess(c, out) =
           [status |-> IF Tail(c.queue) = <<>> THEN "failed" ELSE c.status,
            cur |-> IF Tail(c.queue) = <<>> THEN NoStep ELSE Head(Tail(c.queue)),
            steps |-> [c.steps EXCEPT ![c.cur] = CompletedState(c.steps[c.cur], out.next)],
            completed |-> IF HasCompleted(c, c.cur) THEN c.completed ELSE Append(c.completed, c.cur),
            queue |-> Tail(c.queue), forks |-> c.forks]
<1>1. PICK steps, completed, queue :
        /\ steps = [c.steps EXCEPT ![c.cur] = CompletedState(c.steps[c.cur], out.next)]
        /\ completed = IF HasCompleted(c, c.cur) THEN c.completed ELSE Append(c.completed, c.cur)
        /\ queue = Tail(c.queue)
  OBVIOUS
<1>2. MarkCompleted(c, c.cur, out.next) =
        [status |-> c.status, cur |-> c.cur, steps |-> steps, completed |-> completed,
         queue |-> c.queue, forks |-> c.forks]
  BY <1>1, CompletedForm
<1>3. PICK done : done = [MarkCompleted(c, c.cur, out.next) EXCEPT !.queue = queue]
  OBVIOUS
<1>4. done = [status |-> c.status, cur |-> c.cur, steps |-> steps, completed |-> completed,
              queue |-> queue, forks |-> c.forks]
  BY <1>2, <1>3
<1>5. CompensationSuccess(c, out) =
        IF done.queue = <<>> THEN [done EXCEPT !.status = "failed", !.cur = NoStep]
        ELSE [done EXCEPT !.cur = Head(done.queue)]
  BY <1>1, <1>3 DEF CompensationSuccess, finishInstance
<1> QED
  BY <1>1, <1>4, <1>5

\* A failed step without retries left.
LEMMA FailureForm ==
  ASSUME NEW c, IsContent(c), c.cur \in StepIds, NEW out, ~ RetriesLeft(c, c.cur),
         NEW queue, queue = CompensationQueue(c, c.cur)
  PROVE  handleStepFailure(c, out) =
           [status |-> IF queue # <<>> THEN "compensating" ELSE "failed",
            cur |-> IF queue # <<>> THEN Head(queue) ELSE NoStep,
            steps |-> [c.steps EXCEPT ![c.cur] = FailedState(c.steps[c.cur])],
            completed |-> c.completed, queue |-> IF queue # <<>> THEN queue ELSE c.queue,
            forks |-> MarkBranchFailed(c.forks, c.cur)]
<1>1. c = [status |-> c.status, cur |-> c.cur, steps |-> c.steps,
           completed |-> c.completed, queue |-> c.queue, forks |-> c.forks]
  BY DEF IsContent
<1>2. PICK state : state = [c.steps[c.cur] EXCEPT !.status = "failed", !.prev = 0]
  OBVIOUS
<1>3. state = FailedState(c.steps[c.cur])
  <2>1. IsState(c.steps[c.cur])
    BY DEF IsContent
  <2> QED
    BY <1>2, <2>1 DEF IsState, FailedState
<1>4. PICK forks : forks = MarkBranchFailed(c.forks, c.cur)
  OBVIOUS
<1>5. PICK failed : failed = [c EXCEPT !.steps[c.cur] = state, !.forks = forks]
  OBVIOUS
<1>6. failed = [status |-> c.status, cur |-> c.cur, steps |-> [c.steps EXCEPT ![c.cur] = state],
                completed |-> c.completed, queue |-> c.queue, forks |-> forks]
  BY <1>1, <1>5
<1>7. failed.completed = c.completed
  BY <1>6
<1>8. CompensationQueue(failed, c.cur) = queue
  BY <1>7 DEF CompensationQueue
<1>9. handleStepFailure(c, out) =
        IF queue # <<>>
        THEN [failed EXCEPT !.queue = queue, !.status = "compensating", !.cur = Head(queue)]
        ELSE [failed EXCEPT !.status = "failed", !.cur = NoStep]
  BY <1>2, <1>4, <1>5, <1>8 DEF handleStepFailure, finishInstance
<1> QED
  BY <1>3, <1>4, <1>6, <1>9

LEMMA MakeTyped ==
  ASSUME NEW status \in InstanceStatuses \cup {"absent"}, NEW cur \in RefsOn(StepIds),
         NEW steps \in [StepIds -> StepState], NEW completed \in Seq(StepIds), NEW queue \in Seq(StepIds),
         NEW forks \in ForksOn(StepIds),
         NEW d, d = [status |-> status, cur |-> cur, steps |-> steps,
                     completed |-> completed, queue |-> queue, forks |-> forks]
  PROVE  IsTyped(d)
<1>1. PICK S : S = Seq(StepIds)
  OBVIOUS
<1>2. completed \in S /\ queue \in S
  BY <1>1
<1>3. IsTyped(d) <=> /\ d = [status |-> d.status, cur |-> d.cur, steps |-> d.steps,
                             completed |-> d.completed, queue |-> d.queue, forks |-> d.forks]
                     /\ d.status \in InstanceStatuses \cup {"absent"} /\ d.cur \in RefsOn(StepIds)
                     /\ d.steps \in [StepIds -> StepState] /\ d.completed \in S /\ d.queue \in S
                     /\ d.forks \in ForksOn(StepIds)
  BY <1>1 DEF IsTyped
<1> QED
  BY <1>2, <1>3

LEMMA StatesTyped ==
  ASSUME NEW state \in StepState
  PROVE  /\ \A key \in Nat, prev \in Nat : RunningState(state, key, prev) \in StepState
         /\ \A fireAt \in Nat : WaitingState(state, fireAt) \in StepState
         /\ \A next \in RefsOn(StepIds) : CompletedState(state, next) \in StepState
         /\ FailedState(state) \in StepState
         /\ state.attempt \in Nat /\ state.key \in Nat /\ state.waiting \in Nat /\ state.prev \in Nat
         /\ state.next \in RefsOn(StepIds) /\ state.status \in StepStatuses
<1>1. RefsOn(StepIds) = Refs /\ NoStep \in Refs
  BY ForksOnSteps DEF Refs
<1>2. /\ state.attempt \in Nat /\ state.key \in Nat /\ state.waiting \in Nat /\ state.prev \in Nat
      /\ state.next \in Refs /\ state.status \in StepStatuses
  BY DEF StepState
<1>3. \A key \in Nat, prev \in Nat : RunningState(state, key, prev) \in StepState
  <2>1. state.attempt + 1 \in Nat
    BY <1>2
  <2> QED
    BY <1>1, <2>1 DEF StepState, StepStatuses, RunningState
<1>4. \A fireAt \in Nat : WaitingState(state, fireAt) \in StepState
  BY <1>2 DEF StepState, StepStatuses, WaitingState
<1>5. \A next \in Refs : CompletedState(state, next) \in StepState
  BY <1>2 DEF StepState, StepStatuses, CompletedState
<1>6. FailedState(state) \in StepState
  BY <1>2 DEF StepState, StepStatuses, FailedState
<1> QED
  BY <1>1, <1>2, <1>3, <1>4, <1>5, <1>6

LEMMA SetState ==
  ASSUME NEW c, IsTyped(c), NEW id \in StepIds, NEW state \in StepState
  PROVE  [c.steps EXCEPT ![id] = state] \in [StepIds -> StepState]
BY DEF IsTyped

LEMMA StateTyped ==
  ASSUME NEW c, IsTyped(c), NEW id \in StepIds PROVE c.steps[id] \in StepState
BY DEF IsTyped

LEMMA AbsentTyped ==
  ASSUME NEW status \in {"absent", "pending"} PROVE IsTyped(NewRuntimeState(status))
<1>1. NoState \in StepState
  BY DEF NoState, StepState, StepStatuses, Refs
<1>2. [s \in StepIds |-> NoState] \in [StepIds -> StepState]
  BY <1>1
<1>3. <<>> \in BranchesOn(StepIds)
  BY DEF BranchesOn
<1>4. NoFork \in ForkStateOn(StepIds)
  BY <1>3 DEF NoFork, ForkStateOn, ForkStatuses, RefsOn
<1>5. [f \in ForkIds |-> NoFork] \in ForksOn(StepIds)
  BY <1>4 DEF ForksOn
<1>6. status \in InstanceStatuses \cup {"absent"} /\ NoStep \in RefsOn(StepIds) /\ <<>> \in Seq(StepIds)
  BY DEF InstanceStatuses, RefsOn
<1> QED
  BY <1>2, <1>5, <1>6, MakeTyped DEF NewRuntimeState

LEMMA StartTyped ==
  ASSUME NEW c, IsTyped(c), NEW newKey \in Nat, StepToRun(c).next \in StepIds
  PROVE  IsTyped(StartStep(c, newKey))
<1>1. IsContent(c)
  BY TypedIsShaped
<1>2. PICK run, status : run = StepToRun(c) /\ status = IF Compensates(c) THEN "compensating" ELSE "running"
  OBVIOUS
<1>3. run.next \in StepIds /\ run.next \in RefsOn(StepIds) /\ run.forks \in ForksOn(StepIds)
  BY <1>2, StepToRunTyped
<1>4. PICK old : old = c.steps[run.next]
  OBVIOUS
<1>5. old \in StepState
  BY <1>3, <1>4, StateTyped
<1>6. KeyFor(old, newKey) \in Nat /\ PreviousWait(old, status) \in Nat
  BY <1>5, StatesTyped DEF KeyFor, PreviousWait
<1>7. PICK state : state = RunningState(old, KeyFor(old, newKey), PreviousWait(old, status))
  OBVIOUS
<1>8. state \in StepState
  BY <1>5, <1>6, <1>7, StatesTyped
<1>9. [c.steps EXCEPT ![run.next] = state] \in [StepIds -> StepState]
  BY <1>3, <1>8, SetState
<1>10. StartStep(c, newKey) = [status |-> status, cur |-> run.next, steps |-> [c.steps EXCEPT ![run.next] = state],
                               completed |-> c.completed, queue |-> c.queue, forks |-> run.forks]
  BY <1>1, <1>2, <1>4, <1>7, StartForm
<1>11. status \in InstanceStatuses \cup {"absent"}
  BY <1>2 DEF InstanceStatuses
<1>12. c.completed \in Seq(StepIds) /\ c.queue \in Seq(StepIds)
  BY DEF IsTyped
<1> QED
  BY <1>3, <1>9, <1>10, <1>11, <1>12, MakeTyped

LEMMA FinishTyped ==
  ASSUME NEW c, IsTyped(c) PROVE IsTyped(FinishWithoutStep(c))
<1>1. IsContent(c)
  BY TypedIsShaped
<1>2. PICK forks, status : forks = StepToRun(c).forks /\ status = IF Compensates(c) THEN "failed" ELSE "completed"
  OBVIOUS
<1>3. forks \in ForksOn(StepIds)
  BY <1>2, StepToRunTyped
<1>4. status \in InstanceStatuses \cup {"absent"} /\ NoStep \in RefsOn(StepIds)
  BY <1>2 DEF InstanceStatuses, RefsOn
<1>5. c.completed \in Seq(StepIds) /\ c.queue \in Seq(StepIds) /\ c.steps \in [StepIds -> StepState]
  BY DEF IsTyped
<1>6. FinishWithoutStep(c) = [status |-> status, cur |-> NoStep, steps |-> c.steps,
                              completed |-> c.completed, queue |-> c.queue, forks |-> forks]
  BY <1>1, <1>2, FinishWithoutForm
<1> QED
  BY <1>3, <1>4, <1>5, <1>6, MakeTyped

\* A result refers to steps that the executed step refers to.
LEMMA ExecuteOn ==
  ASSUME NEW V, Closed(V), NEW c, c.cur \in V, c.steps[c.cur] \in StepState,
         NEW reached, NEW out \in Execute(c, reached)
  PROVE  out.next \in RefsOn(V) /\ out.fireAt \in Nat
<1>1. c.cur \in StepIds
  BY DEF Closed
<1>2. PICK step : step = StepByID(c.cur)
  OBVIOUS
<1>3. step.type \in StepTypes
  BY <1>1, <1>2, StepHasType
<1>4. /\ step.next \in RefsOn(V) /\ step.then \in RefsOn(V) /\ step.else \in RefsOn(V)
      /\ step.branches \in Seq(V) /\ NoStep \in RefsOn(V)
  BY <1>2 DEF Closed, RefsOn
<1>5. step.type = "fork" => Head(step.branches) \in RefsOn(V)
  <2>1. PICK n \in DOMAIN Steps : step = Steps[n]
    BY <1>1, <1>2, StepIsOne
  <2>2. step.type = "fork" => step.branches # <<>>
    BY <2>1, StepsAssumption DEF WellFormed
  <2>3. PICK branches : branches = step.branches
    OBVIOUS
  <2>4. branches # <<>> => Head(branches) \in V
    BY <1>4, <2>3
  <2> QED
    BY <2>2, <2>3, <2>4 DEF RefsOn
<1>6. c.steps[c.cur].attempt \in Nat /\ c.steps[c.cur].prev \in Nat
  BY StatesTyped
<1>7. \A next \in RefsOn(V) : Succeeds(next).next \in RefsOn(V) /\ Succeeds(next).fireAt = 0
  BY DEF Succeeds
<1>8. Fails.next \in RefsOn(V) /\ Fails.fireAt = 0
  BY <1>4 DEF Fails
<1>9. \A fireAt \in Nat : Waits(fireAt).next \in RefsOn(V) /\ Waits(fireAt).fireAt \in Nat
  BY <1>4 DEF Waits
<1>10. CASE step.type \in {"http_request", "transform"}
  BY <1>2, <1>4, <1>7, <1>8, <1>10 DEF Execute, executeHTTPRequest, executeTransform
<1>11. CASE step.type = "condition"
  BY <1>2, <1>4, <1>7, <1>8, <1>11 DEF Execute, executeCondition
<1>12. CASE step.type = "delay"
  <2>1. out = DelayResult(c.cur, c.steps[c.cur], reached)
    BY <1>2, <1>12 DEF Execute
  <2> QED
    BY <1>4, <1>6, <1>7, <1>9, <2>1 DEF DelayResult
<1>13. CASE step.type = "fork"
  BY <1>2, <1>5, <1>7, <1>13 DEF Execute, executeFork
<1>14. CASE step.type = "join"
  BY <1>2, <1>4, <1>7, <1>14 DEF Execute, executeJoin
<1> QED
  BY <1>3, <1>10, <1>11, <1>12, <1>13, <1>14 DEF StepTypes

LEMMA WaitingTyped ==
  ASSUME NEW c, IsTyped(c), c.cur \in StepIds, NEW out, out.fireAt \in Nat
  PROVE  IsTyped(handleStepWaiting(c, out))
<1>1. IsContent(c)
  BY TypedIsShaped
<1>2. c.steps[c.cur] \in StepState
  BY StateTyped
<1>3. PICK state : state = WaitingState(c.steps[c.cur], out.fireAt)
  OBVIOUS
<1>4. state \in StepState
  BY <1>2, <1>3, StatesTyped
<1>5. [c.steps EXCEPT ![c.cur] = state] \in [StepIds -> StepState]
  BY <1>4, SetState
<1>6. "waiting_timer" \in InstanceStatuses \cup {"absent"}
  BY DEF InstanceStatuses
<1>7. c.completed \in Seq(StepIds) /\ c.queue \in Seq(StepIds) /\ c.forks \in ForksOn(StepIds) /\ c.cur \in RefsOn(StepIds)
  BY DEF IsTyped
<1>8. handleStepWaiting(c, out) =
        [status |-> "waiting_timer", cur |-> c.cur, steps |-> [c.steps EXCEPT ![c.cur] = state],
         completed |-> c.completed, queue |-> c.queue, forks |-> c.forks]
  BY <1>1, <1>3, WaitingForm
<1> QED
  BY <1>5, <1>6, <1>7, <1>8, MakeTyped

LEMMA CompletedListTyped ==
  ASSUME NEW c, IsTyped(c), c.cur \in StepIds
  PROVE  (IF HasCompleted(c, c.cur) THEN c.completed ELSE Append(c.completed, c.cur)) \in Seq(StepIds)
<1>1. c.completed \in Seq(StepIds)
  BY DEF IsTyped
<1>2. Append(c.completed, c.cur) \in Seq(StepIds)
  BY <1>1
<1> QED
  BY <1>1, <1>2

LEMMA SuccessTyped ==
  ASSUME NEW c, IsTyped(c), c.cur \in StepIds, NEW out, out.next \in RefsOn(StepIds)
  PROVE  IsTyped(handleStepSuccess(c, out))
<1>1. IsContent(c)
  BY TypedIsShaped
<1>2. c.steps[c.cur] \in StepState
  BY StateTyped
<1>3. PICK state : state = CompletedState(c.steps[c.cur], out.next)
  OBVIOUS
<1>4. state \in StepState
  BY <1>2, <1>3, StatesTyped
<1>5. [c.steps EXCEPT ![c.cur] = state] \in [StepIds -> StepState]
  BY <1>4, SetState
<1>6. PICK after : after = NextAfter(c.forks, c.cur, out.next)
  OBVIOUS
<1>7. c.queue \in Seq(StepIds) /\ c.forks \in ForksOn(StepIds)
  BY DEF IsTyped
<1>8. after.next \in RefsOn(StepIds) /\ after.forks \in ForksOn(StepIds)
  BY <1>6, <1>7, NextAfterOn, StepIdsAreClosed
<1>9. PICK completed : completed = IF HasCompleted(c, c.cur) THEN c.completed ELSE Append(c.completed, c.cur)
  OBVIOUS
<1>10. completed \in Seq(StepIds)
  BY <1>9, CompletedListTyped
<1>11. PICK status : status = IF after.next = NoStep THEN "completed" ELSE "running"
  OBVIOUS
<1>12. status \in InstanceStatuses \cup {"absent"}
  BY <1>11 DEF InstanceStatuses
<1>13. handleStepSuccess(c, out) =
        [status |-> status, cur |-> after.next, steps |-> [c.steps EXCEPT ![c.cur] = state],
         completed |-> completed, queue |-> c.queue, forks |-> after.forks]
  BY <1>1, <1>3, <1>6, <1>9, <1>11, SuccessForm
<1> QED
  BY <1>5, <1>7, <1>8, <1>10, <1>12, <1>13, MakeTyped

LEMMA CompensationTyped ==
  ASSUME NEW c, IsTyped(c), c.cur \in StepIds, c.queue # <<>>, NEW out, out.next \in RefsOn(StepIds)
  PROVE  IsTyped(CompensationSuccess(c, out))
<1>1. IsContent(c)
  BY TypedIsShaped
<1>2. c.steps[c.cur] \in StepState
  BY StateTyped
<1>3. PICK state : state = CompletedState(c.steps[c.cur], out.next)
  OBVIOUS
<1>4. state \in StepState
  BY <1>2, <1>3, StatesTyped
<1>5. [c.steps EXCEPT ![c.cur] = state] \in [StepIds -> StepState]
  BY <1>4, SetState
<1>6. c.queue \in Seq(StepIds) /\ c.forks \in ForksOn(StepIds) /\ c.status \in InstanceStatuses \cup {"absent"}
  BY DEF IsTyped
<1>7. PICK rest : rest = Tail(c.queue)
  OBVIOUS
<1>8. rest \in Seq(StepIds) /\ (rest # <<>> => Head(rest) \in StepIds)
  BY <1>6, <1>7
<1>9. PICK completed : completed = IF HasCompleted(c, c.cur) THEN c.completed ELSE Append(c.completed, c.cur)
  OBVIOUS
<1>10. completed \in Seq(StepIds)
  BY <1>9, CompletedListTyped
<1>11. PICK status, cur : /\ status = IF rest = <<>> THEN "failed" ELSE c.status
                         /\ cur = IF rest = <<>> THEN NoStep ELSE Head(rest)
  OBVIOUS
<1>12. status \in InstanceStatuses \cup {"absent"} /\ cur \in RefsOn(StepIds)
  BY <1>6, <1>8, <1>11 DEF InstanceStatuses, RefsOn
<1>13. CompensationSuccess(c, out) =
        [status |-> status, cur |-> cur, steps |-> [c.steps EXCEPT ![c.cur] = state],
         completed |-> completed, queue |-> rest, forks |-> c.forks]
  BY <1>1, <1>3, <1>7, <1>9, <1>11, CompensationForm
<1> QED
  BY <1>5, <1>6, <1>8, <1>10, <1>12, <1>13, MakeTyped

LEMMA CompensationFailureTyped ==
  ASSUME NEW c, IsTyped(c), NEW out PROVE IsTyped(CompensationFailure(c, out))
<1>1. IsContent(c)
  BY TypedIsShaped
<1>2. CompensationFailure(c, out) =
        [status |-> "failed", cur |-> NoStep, steps |-> c.steps,
         completed |-> c.completed, queue |-> c.queue, forks |-> c.forks]
  BY <1>1, FinishForm DEF CompensationFailure
<1>3. "failed" \in InstanceStatuses \cup {"absent"} /\ NoStep \in RefsOn(StepIds)
  BY DEF InstanceStatuses, RefsOn
<1>4. /\ c.completed \in Seq(StepIds) /\ c.queue \in Seq(StepIds) /\ c.forks \in ForksOn(StepIds)
      /\ c.steps \in [StepIds -> StepState]
  BY DEF IsTyped
<1> QED
  BY <1>2, <1>3, <1>4, MakeTyped

\* The fire time of a retry.
LEMMA RetryIsWait ==
  ASSUME NEW c, RetriesLeft(c, c.cur), NEW out
  PROVE  handleStepFailure(c, out) = handleStepWaiting(c, Waits(c.steps[c.cur].attempt))
BY DEF handleStepFailure

LEMMA FailureTyped ==
  ASSUME NEW c, IsTyped(c), c.cur \in StepIds, NEW out PROVE IsTyped(handleStepFailure(c, out))
<1>1. IsContent(c)
  BY TypedIsShaped
<1>2. c.steps[c.cur] \in StepState
  BY StateTyped
<1>3. CASE RetriesLeft(c, c.cur)
  <2>1. Waits(c.steps[c.cur].attempt).fireAt \in Nat
    BY <1>2, StatesTyped DEF Waits
  <2> QED
    BY <1>3, <2>1, RetryIsWait, WaitingTyped
<1>4. CASE ~ RetriesLeft(c, c.cur)
  <2>1. PICK state : state = FailedState(c.steps[c.cur])
    OBVIOUS
  <2>2. state \in StepState
    BY <1>2, <2>1, StatesTyped
  <2>3. [c.steps EXCEPT ![c.cur] = state] \in [StepIds -> StepState]
    BY <2>2, SetState
  <2>4. PICK queue, forks : queue = CompensationQueue(c, c.cur) /\ forks = MarkBranchFailed(c.forks, c.cur)
    OBVIOUS
  <2>5. c.completed \in Seq(StepIds) /\ c.queue \in Seq(StepIds) /\ c.forks \in ForksOn(StepIds)
    BY DEF IsTyped
  <2>6. queue \in Seq(StepIds)
    BY <2>4, <2>5, QueueIsQueue DEF IsQueue
  <2>7. forks \in ForksOn(StepIds)
    BY <2>4, <2>5, MarkBranchFailedOn
  <2>8. "compensating" \in InstanceStatuses \cup {"absent"} /\ "failed" \in InstanceStatuses \cup {"absent"}
    BY DEF InstanceStatuses
  <2>9. CASE queue # <<>>
    <3>1. Head(queue) \in StepIds
      BY <2>6, <2>9
    <3>2. PICK cur : cur = Head(queue)
      OBVIOUS
    <3>3. cur \in RefsOn(StepIds)
      BY <3>1, <3>2 DEF RefsOn
    <3>4. handleStepFailure(c, out) =
            [status |-> "compensating", cur |-> cur, steps |-> [c.steps EXCEPT ![c.cur] = state],
             completed |-> c.completed, queue |-> queue, forks |-> forks]
      BY <1>1, <1>4, <2>1, <2>4, <2>9, <3>2, FailureForm
    <3> QED
      BY <2>3, <2>5, <2>6, <2>7, <2>8, <3>3, <3>4, MakeTyped
  <2>10. CASE queue = <<>>
    <3>1. handleStepFailure(c, out) =
            [status |-> "failed", cur |-> NoStep, steps |-> [c.steps EXCEPT ![c.cur] = state],
             completed |-> c.completed, queue |-> c.queue, forks |-> forks]
      BY <1>1, <1>4, <2>1, <2>4, <2>10, FailureForm
    <3>2. NoStep \in RefsOn(StepIds)
      BY DEF RefsOn
    <3> QED
      BY <2>3, <2>5, <2>7, <2>8, <3>1, <3>2, MakeTyped
  <2> QED
    BY <2>9, <2>10
<1> QED
  BY <1>3, <1>4

\* Compensations run only while there are some in the queue.
QueueOK(c) == c.status = "compensating" => c.queue # <<>>

LEMMA ResultTyped ==
  ASSUME NEW c, IsTyped(c), QueueOK(c), c.cur \in StepIds, NEW reached, NEW out \in Execute(c, reached)
  PROVE  IsTyped(HandleResult(c, out)) /\ QueueOK(HandleResult(c, out))
<1>1. out.next \in RefsOn(StepIds) /\ out.fireAt \in Nat
  BY ExecuteOn, StepIdsAreClosed, StateTyped
<1>2. out.kind \in {"success", "waiting", "error"}
  BY ExecuteKinds
<1>3. IsContent(c)
  BY TypedIsShaped
<1>4. CASE out.kind = "waiting"
  <2>1. HandleResult(c, out) = handleStepWaiting(c, out)
    BY <1>4 DEF HandleResult
  <2> QED
    BY <1>1, <1>3, <2>1, WaitingTyped, WaitingContent DEF QueueOK
<1>5. CASE out.kind = "success" /\ c.status # "compensating"
  <2>1. HandleResult(c, out) = handleStepSuccess(c, out)
    BY <1>5 DEF HandleResult
  <2> QED
    BY <1>1, <1>3, <2>1, SuccessTyped, SuccessContent DEF QueueOK
<1>6. CASE out.kind = "success" /\ c.status = "compensating"
  <2>1. HandleResult(c, out) = CompensationSuccess(c, out)
    BY <1>6 DEF HandleResult
  <2> QED
    BY <1>1, <1>3, <1>6, <2>1, CompensationTyped, CompensationContent DEF QueueOK
<1>7. CASE out.kind = "error" /\ c.status # "compensating"
  <2>1. HandleResult(c, out) = handleStepFailure(c, out)
    BY <1>7 DEF HandleResult
  <2> QED
    BY <1>3, <2>1, FailureTyped, FailureContent DEF QueueOK
<1>8. CASE out.kind = "error" /\ c.status = "compensating"
  <2>1. HandleResult(c, out) = CompensationFailure(c, out)
    BY <1>8 DEF HandleResult
  <2> QED
    BY <1>3, <2>1, CompensationFailureTyped, CompensationFailureContent DEF QueueOK
<1> QED
  BY <1>2, <1>4, <1>5, <1>6, <1>7, <1>8

-----------------------------------------------------------------------------
(* Every action keeps the types *)

TypeInv ==
  /\ content \in [Instances -> Content]
  /\ \A i \in Instances : QueueOK(content[i])
  /\ past \in [Instances -> SUBSET (StepIds \X Nat)]
  /\ keySeq \in Nat

LEMMA ContentTyped ==
  ASSUME TypeInv, NEW i \in Instances
  PROVE  IsTyped(content[i]) /\ QueueOK(content[i])
BY TypedIsContent DEF TypeInv

\* A step gives one instance a new content.
LEMMA NewContentTyped ==
  ASSUME TypeInv, NEW i \in Instances, NEW c, IsTyped(c), QueueOK(c), content' = [content EXCEPT ![i] = c],
         past' = past, keySeq' \in Nat
  PROVE  TypeInv'
<1>1. c \in Content
  BY TypedIsContent
<1> QED
  BY <1>1 DEF TypeInv

LEMMA StepTyped ==
  ASSUME TypeInv, [ExecNext]_execVars PROVE TypeInv'
<1>1. ASSUME NEW i \in Instances, Create(i) PROVE TypeInv'
  <2>1. PICK c : c = NewRuntimeState("pending")
    OBVIOUS
  <2>2. IsTyped(c) /\ c.status = "pending"
    BY <2>1, AbsentTyped, NewContent
  <2>3. QueueOK(c)
    BY <2>2 DEF QueueOK
  <2>4. content' = [content EXCEPT ![i] = c] /\ past' = past /\ keySeq' \in Nat
    BY <1>1, <2>1 DEF Create, TypeInv
  <2> QED
    BY <2>2, <2>3, <2>4, NewContentTyped
<1>2. ASSUME NEW i \in Instances, Start(i) PROVE TypeInv'
  <2>1. IsTyped(content[i]) /\ IsContent(content[i]) /\ StepToRun(content[i]).next \in StepIds
    BY <1>2, ContentTyped, TypedIsShaped DEF Start
  <2>2. PICK c : c = StartStep(content[i], keySeq + 1)
    OBVIOUS
  <2>3. keySeq + 1 \in Nat
    BY DEF TypeInv
  <2>4. IsTyped(c)
    BY <2>1, <2>2, <2>3, StartTyped
  <2>5. c.status = "compensating" => Compensates(content[i]) /\ c.queue = content[i].queue
    BY <2>1, <2>2, StartContent
  <2>6. Compensates(content[i]) => content[i].queue # <<>>
    BY <2>1, NoStepIsNone DEF StepToRun
  <2>7. QueueOK(c)
    BY <2>5, <2>6 DEF QueueOK
  <2>8. content' = [content EXCEPT ![i] = c] /\ past' = past /\ keySeq' \in Nat
    BY <1>2, <2>2, <2>3 DEF Start, TypeInv
  <2> QED
    BY <2>4, <2>7, <2>8, NewContentTyped
<1>3. ASSUME NEW i \in Instances, FinishEmpty(i) PROVE TypeInv'
  <2>1. IsTyped(content[i]) /\ IsContent(content[i])
    BY ContentTyped, TypedIsShaped
  <2>2. PICK c : c = FinishWithoutStep(content[i])
    OBVIOUS
  <2>3. IsTyped(c) /\ c.status \in Terminal
    BY <2>1, <2>2, FinishTyped, FinishWithoutStepContent
  <2>4. QueueOK(c)
    BY <2>3 DEF QueueOK, Terminal
  <2>5. content' = [content EXCEPT ![i] = c] /\ past' = past /\ keySeq' \in Nat
    BY <1>3, <2>2 DEF FinishEmpty, TypeInv
  <2> QED
    BY <2>3, <2>4, <2>5, NewContentTyped
<1>4. ASSUME NEW i \in Instances, Finish(i) PROVE TypeInv'
  <2>1. IsTyped(content[i]) /\ QueueOK(content[i])
    BY ContentTyped
  <2>2. PICK reached \in SUBSET past[i] : \E out \in Execute(content[i], reached) :
          content' = [content EXCEPT ![i] = HandleResult(content[i], out)]
    BY <1>4 DEF Finish
  <2>3. PICK out \in Execute(content[i], reached) :
          content' = [content EXCEPT ![i] = HandleResult(content[i], out)]
    BY <2>2
  <2>4. content[i].cur \in StepIds
    BY <1>4, <2>1 DEF Finish, Running, IsTyped, RefsOn
  <2>5. PICK c : c = HandleResult(content[i], out)
    OBVIOUS
  <2>6. IsTyped(c) /\ QueueOK(c)
    BY <2>1, <2>4, <2>5, ResultTyped
  <2>7. content' = [content EXCEPT ![i] = c] /\ past' = past /\ keySeq' \in Nat
    BY <1>4, <2>3, <2>5 DEF Finish, TypeInv
  <2> QED
    BY <2>6, <2>7, NewContentTyped
<1>5. ASSUME NEW i \in Instances, Elapse(i) PROVE TypeInv'
  <2>1. PICK time \in FireTimes(content[i]) : past' = [past EXCEPT ![i] = past[i] \cup {time}]
    BY <1>5 DEF Elapse
  <2>2. PICK s \in StepIds : time = <<s, content[i].steps[s].attempt>>
    BY <2>1 DEF FireTimes
  <2>3. content[i].steps[s].attempt \in Nat
    BY ContentTyped, StateTyped, StatesTyped
  <2>4. time \in StepIds \X Nat
    BY <2>2, <2>3
  <2>5. past' \in [Instances -> SUBSET (StepIds \X Nat)]
    BY <2>1, <2>4 DEF TypeInv
  <2> QED
    BY <1>5, <2>5 DEF Elapse, TypeInv
<1>6. ASSUME UNCHANGED execVars PROVE TypeInv'
  BY <1>6 DEF TypeInv, execVars
<1> QED
  BY <1>1, <1>2, <1>3, <1>4, <1>5, <1>6 DEF ExecNext

LEMMA InitTyped ==
  ASSUME ExecInit PROVE TypeInv
<1>1. IsTyped(Absent) /\ Absent.status = "absent"
  BY AbsentTyped, NewContent DEF Absent
<1>2. Absent \in Content /\ QueueOK(Absent)
  BY <1>1, TypedIsContent DEF QueueOK
<1> QED
  BY <1>2 DEF ExecInit, TypeInv

LEMMA TypeIsInvariant == ExecSpec => []TypeInv
<1>1. ExecInit => TypeInv
  BY InitTyped
<1>2. TypeInv /\ [ExecNext]_execVars => TypeInv'
  BY StepTyped
<1> QED
  BY <1>1, <1>2, PTL DEF ExecSpec

\* For every definition: whatever the machine follows (the current step, the queue, a
\* branch, a join, a stored result) is a step of the definition.
THEOREM ReferencesAreSteps == ExecSpec => []ExecTypeOK
<1>1. TypeInv => ExecTypeOK
  BY DEF TypeInv, ExecTypeOK
<1> QED
  BY <1>1, TypeIsInvariant, PTL

-----------------------------------------------------------------------------
(* The saga *)

\* plan has the compensations of the failed step and of the first done completed steps,
\* latest first, each one once.
IsPlan(plan, completed, done, failed) ==
  /\ Undo(failed) # NoStep => \E p \in 1 .. Len(plan) : plan[p] = Undo(failed)
  /\ \A n \in 1 .. done :
       Undo(completed[n]) # NoStep => \E p \in 1 .. Len(plan) : plan[p] = Undo(completed[n])
  /\ \A p, q \in 1 .. Len(plan) : p < q => plan[p] # plan[q] /\ plan[q] # Undo(failed)
  /\ \A p, q \in 1 .. Len(plan) : \A n \in 1 .. done :
       p < q /\ plan[q] = Undo(completed[n]) =>
         plan[p] = Undo(failed) \/ \E m \in n + 1 .. done : plan[p] = Undo(completed[m])

\* Before a step has failed, no compensation is touched.
Forward(c) ==
  /\ c.status \in {"absent", "pending", "running", "waiting_timer", "completed"}
  /\ c.queue = <<>>
  /\ c.cur \in RefsOn(NormalSteps)
  /\ c.forks \in ForksOn(NormalSteps)
  /\ \A s \in NormalSteps : c.steps[s].status # "failed" /\ c.steps[s].next \in RefsOn(NormalSteps)
  /\ \A s \in CompensationRefs : c.steps[s].status = ""
  /\ \A n \in 1 .. Len(c.completed) : c.completed[n] \in NormalSteps

\* After that, the plan is carried out: its first part, of length undone, has been
\* completed after the done steps, the rest, which is not completed, is the queue.
Backward(c, plan, done, undone, failed) ==
  /\ Len(c.completed) = done + undone
  /\ Len(plan) = undone + Len(c.queue)
  /\ \A n \in 1 .. done : c.completed[n] \in NormalSteps
  /\ \A n \in 1 .. undone : c.completed[done + n] = plan[n]
  /\ \A n \in 1 .. Len(c.queue) : c.queue[n] = plan[undone + n]
  /\ \A p \in 1 .. Len(plan) :
       /\ plan[p] \in CompensationRefs
       /\ p <= undone => c.steps[plan[p]].status = "completed"
       /\ p > undone => c.steps[plan[p]].status # "completed"
       /\ p > undone + 1 => c.steps[plan[p]].status = ""
  /\ \A s \in StepIds : c.steps[s].status = "failed" <=> s = failed
  /\ c.status \in {"compensating", "waiting_timer", "failed"}
  /\ c.status # "failed" => c.queue # <<>> /\ c.cur = Head(c.queue)
  /\ c.status = "failed" /\ c.queue # <<>> => c.steps[Head(c.queue)].status = "running"
  /\ IsPlan(plan, c.completed, done, failed)

SagaOK(c) ==
  \/ Forward(c)
  \/ \E plan \in Seq(StepIds), done \in Nat, undone \in Nat, failed \in NormalSteps :
       Backward(c, plan, done, undone, failed)

\* What CompensationQueue computes is the plan.
LEMMA QueueIsPlan ==
  ASSUME NEW c, c.completed \in Seq(StepIds), NEW failed \in StepIds,
         NEW queue, queue = CompensationQueue(c, failed)
  PROVE  /\ queue \in Seq(StepIds)
         /\ \A p \in 1 .. Len(queue) : queue[p] \in CompensationRefs
         /\ IsPlan(queue, c.completed, Len(c.completed), failed)
<1>1. PICK completed, done : completed = c.completed /\ done = Len(c.completed)
  OBVIOUS
<1>2. completed \in Seq(StepIds) /\ done = Len(completed) /\ done \in Nat
  BY <1>1
<1>3. PICK ids : ids = UndoList(c, failed)
  OBVIOUS
<1>4. PICK reverse : reverse = Reverse(completed)
  OBVIOUS
<1>5. /\ reverse \in Seq(StepIds) /\ Len(reverse) = done
      /\ \A k \in 1 .. done : reverse[k] = completed[(done - k) + 1]
  BY <1>2, <1>4 DEF Reverse
<1>6. ids = <<failed>> \o reverse
  BY <1>1, <1>3, <1>4 DEF UndoList
<1>7. ids[1] = failed /\ \A k \in 2 .. done + 1 : ids[k] = reverse[k - 1]
  BY <1>2, <1>5, <1>6
<1>8. \A k \in 2 .. done + 1 : ids[k] = completed[(done + 2) - k]
  <2>1. TAKE k \in 2 .. done + 1
  <2>2. k - 1 \in 1 .. done /\ (done - (k - 1)) + 1 = (done + 2) - k
    BY <1>2
  <2> QED
    BY <1>5, <1>7, <2>2
<1>9. IsQueue(queue, ids, done + 1)
  BY <1>1, <1>3, QueueIsQueue
<1>10. PICK len \in Nat : len = Len(queue)
  BY <1>9 DEF IsQueue
<1>11. /\ queue \in Seq(StepIds)
       /\ \A p \in 1 .. len : \E k \in 1 .. done + 1 : queue[p] = Undo(ids[k])
       /\ \A k \in 1 .. done + 1 : Undo(ids[k]) # NoStep => \E p \in 1 .. len : queue[p] = Undo(ids[k])
  BY <1>9, <1>10 DEF IsQueue
<1>12. \A p, q \in 1 .. len : p < q => queue[p] # queue[q]
  BY <1>9, <1>10 DEF IsQueue
<1>13. \A p, q \in 1 .. len : \A k \in 1 .. done + 1 :
         p < q /\ queue[q] = Undo(ids[k]) => \E j \in 1 .. k - 1 : queue[p] = Undo(ids[j])
  BY <1>9, <1>10 DEF IsQueue
<1>14. \A k \in 1 .. done + 1 : ids[k] \in StepIds
  BY <1>2, <1>5, <1>6
<1>15. ASSUME NEW p \in 1 .. len PROVE queue[p] \in CompensationRefs
  <2>1. PICK k \in 1 .. done + 1 : queue[p] = Undo(ids[k])
    BY <1>11
  <2>2. PICK n \in DOMAIN Steps : StepByID(ids[k]) = Steps[n]
    BY <1>14, StepIsOne
  <2>3. queue[p] \in StepIds
    BY <1>10, <1>11
  <2> QED
    BY <2>1, <2>2, <2>3, NoStepIsNone DEF Undo, CompensationRefs
<1>16. Undo(failed) # NoStep => \E p \in 1 .. len : queue[p] = Undo(failed)
  <2>1. 1 \in 1 .. done + 1
    BY <1>2
  <2> QED
    BY <1>7, <1>11, <2>1
<1>17. ASSUME NEW n \in 1 .. done
       PROVE  /\ (done + 2) - n \in 2 .. done + 1
              /\ ids[(done + 2) - n] = completed[n]
  <2>1. (done + 2) - n \in 2 .. done + 1 /\ (done + 2) - ((done + 2) - n) = n
    BY <1>2
  <2> QED
    BY <1>8, <2>1
<1>18. \A n \in 1 .. done : Undo(completed[n]) # NoStep => \E p \in 1 .. len : queue[p] = Undo(completed[n])
  <2>1. TAKE n \in 1 .. done
  <2>2. PICK k \in 1 .. done + 1 : ids[k] = completed[n]
    BY <1>2, <1>17
  <2> QED
    BY <1>11, <2>2
<1>19. ASSUME NEW p \in 1 .. len, NEW q \in 1 .. len, p < q PROVE queue[q] # Undo(failed)
  <2>1. 1 \in 1 .. done + 1 /\ 1 .. 1 - 1 = {}
    BY <1>2
  <2> QED
    BY <1>7, <1>13, <1>19, <2>1
<1>20. ASSUME NEW p \in 1 .. len, NEW q \in 1 .. len, NEW n \in 1 .. done, p < q, queue[q] = Undo(completed[n])
       PROVE  queue[p] = Undo(failed) \/ \E m \in n + 1 .. done : queue[p] = Undo(completed[m])
  <2>1. PICK k \in 2 .. done + 1 : k = (done + 2) - n /\ ids[k] = completed[n]
    BY <1>17
  <2>2. k \in 1 .. done + 1
    BY <2>1
  <2>3. PICK j \in 1 .. k - 1 : queue[p] = Undo(ids[j])
    BY <1>13, <1>20, <2>1, <2>2
  <2>4. CASE j = 1
    BY <1>7, <2>3, <2>4
  <2>5. CASE j # 1
    <3>1. j \in 2 .. done + 1 /\ (done + 2) - j \in n + 1 .. done
      BY <1>2, <2>1, <2>5
    <3> QED
      BY <1>8, <2>3, <3>1
  <2> QED
    BY <2>4, <2>5
<1>21. IsPlan(queue, completed, done, failed)
  BY <1>10, <1>12, <1>16, <1>18, <1>19, <1>20 DEF IsPlan
<1> QED
  BY <1>1, <1>10, <1>11, <1>15, <1>21

LEMMA NormalsApart ==
  /\ \A s \in StepIds : s \in NormalSteps <=> s \notin CompensationRefs
  /\ NormalSteps \subseteq StepIds /\ CompensationRefs \subseteq StepIds
  /\ NoStep \notin NormalSteps /\ NoStep \notin CompensationRefs
<1>1. ASSUME NEW s \in CompensationRefs PROVE s \in StepIds
  <2>1. s # NoStep /\ \E n \in DOMAIN Steps : s = Steps[n].onFailure
    BY DEF CompensationRefs
  <2>2. PICK n \in DOMAIN Steps : s = Steps[n].onFailure
    BY <2>1
  <2> QED
    BY <2>1, <2>2, StepsAreTyped DEF Refs
<1> QED
  BY <1>1, NoStepIsNone DEF NormalSteps

LEMMA NewForward ==
  ASSUME NEW status \in {"absent", "pending"}, NEW c, c = NewRuntimeState(status) PROVE Forward(c)
<1>1. c = [status |-> status, cur |-> NoStep, steps |-> [s \in StepIds |-> NoState],
           completed |-> <<>>, queue |-> <<>>, forks |-> [f \in ForkIds |-> NoFork]]
  BY DEF NewRuntimeState
<1>2. \A s \in StepIds : c.steps[s].status = "" /\ c.steps[s].next = NoStep
  <2>1. \A s \in StepIds : c.steps[s] = NoState
    BY <1>1
  <2>2. NoState.status = "" /\ NoState.next = NoStep
    BY DEF NoState
  <2> QED
    BY <2>1, <2>2
<1>3. <<>> \in BranchesOn(NormalSteps)
  BY DEF BranchesOn
<1>4. NoFork \in ForkStateOn(NormalSteps)
  BY <1>3 DEF NoFork, ForkStateOn, ForkStatuses, RefsOn
<1>5. c.forks \in ForksOn(NormalSteps)
  BY <1>1, <1>4 DEF ForksOn
<1>6. Len(c.completed) = 0 /\ c.status = status /\ c.queue = <<>> /\ c.cur = NoStep
  BY <1>1
<1>7. NoStep \in RefsOn(NormalSteps)
  BY DEF RefsOn
<1>8. /\ \A s \in NormalSteps : c.steps[s].status # "failed" /\ c.steps[s].next \in RefsOn(NormalSteps)
      /\ \A s \in CompensationRefs : c.steps[s].status = ""
  BY <1>2, <1>7, NormalsApart
<1>9. \A n \in 1 .. Len(c.completed) : c.completed[n] \in NormalSteps
  BY <1>6
<1> QED
  BY <1>5, <1>6, <1>7, <1>8, <1>9 DEF Forward

\* Forward, a step stays on the normal steps.
LEMMA ForwardToRun ==
  ASSUME CompensationsApart, NEW c, IsTyped(c), Forward(c)
  PROVE  /\ ~ Compensates(c)
         /\ StepToRun(c).next \in RefsOn(NormalSteps) /\ StepToRun(c).forks \in ForksOn(NormalSteps)
<1>1. c.queue = <<>> /\ c.status # "compensating"
  BY DEF Forward
<1>2. ~ Compensates(c)
  BY <1>1 DEF Compensates
<1>3. StepToRun(c) = StepForCurrent(c)
  BY <1>2 DEF StepToRun
<1>4. /\ c.cur \in RefsOn(NormalSteps) /\ c.forks \in ForksOn(NormalSteps)
      /\ \A s \in NormalSteps : c.steps[s].next \in RefsOn(NormalSteps)
  BY DEF Forward
<1>5. Closed(NormalSteps)
  BY DEF CompensationsApart
<1> QED
  BY <1>2, <1>3, <1>4, <1>5, StepForCurrentOn

\* The state of one normal step changes.
LEMMA ForwardKept ==
  ASSUME NEW c, IsTyped(c), Forward(c), NEW id \in NormalSteps, NEW state, state.status # "failed",
         state.next \in RefsOn(NormalSteps), NEW steps, steps = [c.steps EXCEPT ![id] = state],
         NEW status \in {"running", "waiting_timer", "completed"},
         NEW cur \in RefsOn(NormalSteps), NEW forks \in ForksOn(NormalSteps),
         NEW completed, completed = c.completed \/ completed = Append(c.completed, id),
         NEW d, d = [status |-> status, cur |-> cur, steps |-> steps,
                     completed |-> completed, queue |-> c.queue, forks |-> forks]
  PROVE  Forward(d)
<1>1. c.steps \in [StepIds -> StepState] /\ c.completed \in Seq(StepIds)
  BY DEF IsTyped
<1>2. id \in StepIds /\ id \notin CompensationRefs
  BY NormalsApart
<1>3. /\ steps[id] = state
      /\ \A s \in StepIds \ {id} : steps[s] = c.steps[s]
  BY <1>1, <1>2
<1>4. \A s \in NormalSteps : steps[s].status # "failed" /\ steps[s].next \in RefsOn(NormalSteps)
  BY <1>3, NormalsApart DEF Forward
<1>5. \A s \in CompensationRefs : steps[s].status = ""
  BY <1>2, <1>3, NormalsApart DEF Forward
<1>6. \A n \in 1 .. Len(c.completed) : c.completed[n] \in NormalSteps
  BY DEF Forward
<1>7. \A n \in 1 .. Len(completed) : completed[n] \in NormalSteps
  <2>1. CASE completed = c.completed
    BY <1>6, <2>1
  <2>2. CASE completed = Append(c.completed, id)
    BY <1>1, <1>2, <1>6, <2>2
  <2> QED
    BY <2>1, <2>2
<1>8. c.queue = <<>>
  BY DEF Forward
<1>9. /\ d.status = status /\ d.cur = cur /\ d.steps = steps /\ d.completed = completed
      /\ d.queue = c.queue /\ d.forks = forks
  OBVIOUS
<1> QED
  BY <1>4, <1>5, <1>7, <1>8, <1>9 DEF Forward

LEMMA ForwardStart ==
  ASSUME CompensationsApart, NEW c, IsTyped(c), Forward(c), StepToRun(c).next \in StepIds,
         NEW newKey, NEW d, d = StartStep(c, newKey)
  PROVE  Forward(d)
<1>1. IsContent(c)
  BY TypedIsShaped
<1>2. PICK run : run = StepToRun(c)
  OBVIOUS
<1>3. run.next \in NormalSteps /\ run.next \in RefsOn(NormalSteps) /\ run.forks \in ForksOn(NormalSteps)
  BY <1>2, ForwardToRun, NoStepIsNone DEF RefsOn
<1>4. ~ Compensates(c)
  BY ForwardToRun
<1>5. PICK state : state = RunningState(c.steps[run.next], KeyFor(c.steps[run.next], newKey),
                                        PreviousWait(c.steps[run.next], "running"))
  OBVIOUS
<1>6. state.status # "failed" /\ state.next \in RefsOn(NormalSteps)
  BY <1>5 DEF RunningState, RefsOn
<1>7. PICK steps : steps = [c.steps EXCEPT ![run.next] = state]
  OBVIOUS
<1>8. d = [status |-> "running", cur |-> run.next, steps |-> steps,
           completed |-> c.completed, queue |-> c.queue, forks |-> run.forks]
  BY <1>1, <1>2, <1>4, <1>5, <1>7, StartForm
<1> QED
  BY <1>3, <1>6, <1>7, <1>8, ForwardKept

LEMMA ForwardFinish ==
  ASSUME CompensationsApart, NEW c, IsTyped(c), Forward(c), NEW d, d = FinishWithoutStep(c)
  PROVE  Forward(d)
<1>1. IsContent(c)
  BY TypedIsShaped
<1>2. PICK forks : forks = StepToRun(c).forks
  OBVIOUS
<1>3. forks \in ForksOn(NormalSteps) /\ ~ Compensates(c)
  BY <1>2, ForwardToRun
<1>4. d = [status |-> "completed", cur |-> NoStep, steps |-> c.steps,
           completed |-> c.completed, queue |-> c.queue, forks |-> forks]
  BY <1>1, <1>2, <1>3, FinishWithoutForm
<1>5. /\ d.status = "completed" /\ d.cur = NoStep /\ d.steps = c.steps /\ d.completed = c.completed
      /\ d.queue = c.queue /\ d.forks = forks
  BY <1>4
<1> QED
  BY <1>3, <1>5 DEF Forward, RefsOn

LEMMA ForwardWaits ==
  ASSUME NEW c, IsTyped(c), Forward(c), c.cur \in NormalSteps, NEW out, NEW d, d = handleStepWaiting(c, out)
  PROVE  Forward(d)
<1>1. IsContent(c) /\ c.cur \in StepIds
  BY TypedIsShaped, NormalsApart
<1>2. PICK state : state = WaitingState(c.steps[c.cur], out.fireAt)
  OBVIOUS
<1>3. state.status # "failed" /\ state.next \in RefsOn(NormalSteps)
  BY <1>2 DEF WaitingState, Forward
<1>4. PICK steps : steps = [c.steps EXCEPT ![c.cur] = state]
  OBVIOUS
<1>5. d = [status |-> "waiting_timer", cur |-> c.cur, steps |-> steps,
           completed |-> c.completed, queue |-> c.queue, forks |-> c.forks]
  BY <1>1, <1>2, <1>4, WaitingForm
<1>6. c.cur \in RefsOn(NormalSteps) /\ c.forks \in ForksOn(NormalSteps)
  BY DEF Forward
<1> QED
  BY <1>3, <1>4, <1>5, <1>6, ForwardKept

LEMMA ForwardSucceeds ==
  ASSUME CompensationsApart, NEW c, IsTyped(c), Forward(c), c.cur \in NormalSteps,
         NEW out, out.next \in RefsOn(NormalSteps), NEW d, d = handleStepSuccess(c, out)
  PROVE  Forward(d)
<1>1. IsContent(c) /\ c.cur \in StepIds
  BY TypedIsShaped, NormalsApart
<1>2. PICK state : state = CompletedState(c.steps[c.cur], out.next)
  OBVIOUS
<1>3. state.status # "failed" /\ state.next \in RefsOn(NormalSteps)
  BY <1>2 DEF CompletedState
<1>4. PICK steps : steps = [c.steps EXCEPT ![c.cur] = state]
  OBVIOUS
<1>5. PICK after : after = NextAfter(c.forks, c.cur, out.next)
  OBVIOUS
<1>6. c.forks \in ForksOn(NormalSteps) /\ Closed(NormalSteps)
  BY DEF Forward, CompensationsApart
<1>7. after.next \in RefsOn(NormalSteps) /\ after.forks \in ForksOn(NormalSteps)
  BY <1>5, <1>6, NextAfterOn
<1>8. PICK completed : completed = IF HasCompleted(c, c.cur) THEN c.completed ELSE Append(c.completed, c.cur)
  OBVIOUS
<1>9. completed = c.completed \/ completed = Append(c.completed, c.cur)
  BY <1>8
<1>10. PICK status : status = IF after.next = NoStep THEN "completed" ELSE "running"
  OBVIOUS
<1>11. status \in {"running", "waiting_timer", "completed"}
  BY <1>10
<1>12. d = [status |-> status, cur |-> after.next, steps |-> steps,
            completed |-> completed, queue |-> c.queue, forks |-> after.forks]
  BY <1>1, <1>2, <1>4, <1>5, <1>8, <1>10, SuccessForm
<1> QED
  BY <1>3, <1>4, <1>7, <1>9, <1>11, <1>12, ForwardKept

\* The first step that fails turns the instance round.
LEMMA ForwardFails ==
  ASSUME NEW c, IsTyped(c), Forward(c), c.cur \in NormalSteps, ~ RetriesLeft(c, c.cur),
         NEW out, NEW d, d = handleStepFailure(c, out)
  PROVE  Backward(d, CompensationQueue(c, c.cur), Len(c.completed), 0, c.cur)
<1>1. IsContent(c) /\ c.cur \in StepIds /\ c.cur \notin CompensationRefs
  BY TypedIsShaped, NormalsApart
<1>2. c.steps \in [StepIds -> StepState] /\ c.completed \in Seq(StepIds)
  BY DEF IsTyped
<1>3. PICK plan, done : plan = CompensationQueue(c, c.cur) /\ done = Len(c.completed)
  OBVIOUS
<1>4. /\ plan \in Seq(StepIds) /\ \A p \in 1 .. Len(plan) : plan[p] \in CompensationRefs
      /\ IsPlan(plan, c.completed, done, c.cur)
  BY <1>1, <1>2, <1>3, QueueIsPlan
<1>5. PICK state, steps : state = FailedState(c.steps[c.cur]) /\ steps = [c.steps EXCEPT ![c.cur] = state]
  OBVIOUS
<1>6. steps[c.cur].status = "failed" /\ \A s \in StepIds \ {c.cur} : steps[s] = c.steps[s]
  BY <1>1, <1>2, <1>5 DEF FailedState
<1>7. /\ \A s \in NormalSteps : c.steps[s].status # "failed"
      /\ \A s \in CompensationRefs : c.steps[s].status = ""
      /\ \A n \in 1 .. done : c.completed[n] \in NormalSteps
      /\ c.queue = <<>>
  BY <1>3 DEF Forward
<1>8. \A s \in CompensationRefs : s \in StepIds /\ steps[s].status = ""
  BY <1>1, <1>6, <1>7, NormalsApart
<1>9. \A s \in StepIds : steps[s].status = "failed" <=> s = c.cur
  BY <1>6, <1>7, <1>8, NormalsApart
<1>10. done \in Nat /\ done = done + 0
  BY <1>2, <1>3
<1>11. CASE plan # <<>>
  <2>1. d = [status |-> "compensating", cur |-> Head(plan), steps |-> steps,
             completed |-> c.completed, queue |-> plan, forks |-> MarkBranchFailed(c.forks, c.cur)]
    BY <1>1, <1>3, <1>5, <1>11, FailureForm
  <2>2. d.status = "compensating" /\ d.cur = Head(plan) /\ d.steps = steps /\ d.completed = c.completed /\ d.queue = plan
    BY <2>1
  <2>3. Len(plan) \in Nat
    BY <1>4
  <2>4. /\ Len(plan) = 0 + Len(plan)
        /\ \A n \in 1 .. 0 : FALSE
        /\ \A n \in 1 .. Len(plan) : plan[n] = plan[0 + n] /\ ~ (n <= 0)
    BY <2>3
  <2> QED
    BY <1>3, <1>4, <1>7, <1>8, <1>9, <1>10, <1>11, <2>2, <2>4 DEF Backward
<1>12. CASE plan = <<>>
  <2>1. d = [status |-> "failed", cur |-> NoStep, steps |-> steps,
             completed |-> c.completed, queue |-> c.queue, forks |-> MarkBranchFailed(c.forks, c.cur)]
    BY <1>1, <1>3, <1>5, <1>12, FailureForm
  <2>2. d.status = "failed" /\ d.steps = steps /\ d.completed = c.completed /\ d.queue = <<>>
    <3>1. c.queue = <<>>
      BY <1>7
    <3> QED
      BY <2>1, <3>1
  <2>3. Len(plan) = 0 + Len(d.queue) /\ 1 .. 0 = {} /\ 1 .. Len(plan) = {} /\ 1 .. Len(d.queue) = {}
    BY <1>12, <2>2
  <2> QED
    BY <1>3, <1>4, <1>7, <1>9, <1>10, <2>2, <2>3 DEF Backward
<1> QED
  BY <1>11, <1>12

LEMMA BackwardHead ==
  ASSUME NEW c, IsTyped(c), NEW plan, NEW done, NEW undone \in Nat, NEW failed \in NormalSteps,
         Backward(c, plan, done, undone, failed), c.queue # <<>>
  PROVE  /\ Len(c.queue) \in Nat \ {0}
         /\ undone + 1 \in 1 .. Len(plan) /\ Head(c.queue) = plan[undone + 1]
         /\ Head(c.queue) \in CompensationRefs /\ Head(c.queue) \in StepIds /\ Head(c.queue) # failed
         /\ \A p \in 1 .. Len(plan) : p # undone + 1 => plan[p] # Head(c.queue)
<1>1. PICK queue : queue = c.queue
  OBVIOUS
<1>2. queue \in Seq(StepIds) /\ queue # <<>>
  BY <1>1 DEF IsTyped
<1>3. Len(queue) \in Nat \ {0} /\ Head(queue) = queue[1]
  BY <1>2
<1>4. /\ Len(plan) = undone + Len(queue) /\ queue[1] = plan[undone + 1]
      /\ \A p \in 1 .. Len(plan) : plan[p] \in CompensationRefs
  <2>1. /\ Len(plan) = undone + Len(queue)
        /\ \A n \in 1 .. Len(queue) : queue[n] = plan[undone + n]
        /\ \A p \in 1 .. Len(plan) : plan[p] \in CompensationRefs
    BY <1>1 DEF Backward
  <2>2. 1 \in 1 .. Len(queue)
    BY <1>3
  <2> QED
    BY <2>1, <2>2
<1>5. undone + 1 \in 1 .. Len(plan)
  BY <1>3, <1>4
<1>6. \A p, q \in 1 .. Len(plan) : p < q => plan[p] # plan[q]
  BY DEF Backward, IsPlan
<1>7. \A p \in 1 .. Len(plan) : p # undone + 1 => plan[p] # plan[undone + 1]
  BY <1>3, <1>4, <1>5, <1>6
<1> QED
  BY <1>1, <1>3, <1>4, <1>5, <1>7, NormalsApart

\* The compensation at the head of the queue starts or waits.
LEMMA BackwardKept ==
  ASSUME NEW c, IsTyped(c), NEW plan, NEW done, NEW undone \in Nat, NEW failed \in NormalSteps,
         Backward(c, plan, done, undone, failed), c.queue # <<>>,
         NEW id, id = Head(c.queue), NEW state, state.status \notin {"completed", "failed"},
         NEW status \in {"compensating", "waiting_timer"}, NEW steps, steps = [c.steps EXCEPT ![id] = state],
         NEW forks, NEW d, d = [status |-> status, cur |-> id, steps |-> steps,
                                completed |-> c.completed, queue |-> c.queue, forks |-> forks]
  PROVE  Backward(d, plan, done, undone, failed)
<1>1. /\ undone + 1 \in 1 .. Len(plan) /\ id = plan[undone + 1]
      /\ id \in CompensationRefs /\ id \in StepIds /\ id # failed
      /\ \A p \in 1 .. Len(plan) : p # undone + 1 => plan[p] # id
  BY BackwardHead
<1>2. c.steps \in [StepIds -> StepState]
  BY DEF IsTyped
<1>3. steps[id] = state /\ \A s \in StepIds \ {id} : steps[s] = c.steps[s]
  BY <1>1, <1>2
<1>4. /\ d.status = status /\ d.cur = id /\ d.steps = steps /\ d.completed = c.completed /\ d.queue = c.queue
  OBVIOUS
<1>5. \A s \in StepIds : steps[s].status = "failed" <=> s = failed
  <2>1. \A s \in StepIds : c.steps[s].status = "failed" <=> s = failed
    BY DEF Backward
  <2> QED
    BY <1>1, <1>3, <2>1
<1>6. ASSUME NEW p \in 1 .. Len(plan)
      PROVE  /\ plan[p] \in CompensationRefs
             /\ p <= undone => steps[plan[p]].status = "completed"
             /\ p > undone => steps[plan[p]].status # "completed"
             /\ p > undone + 1 => steps[plan[p]].status = ""
  <2>1. /\ plan[p] \in CompensationRefs /\ plan[p] \in StepIds
        /\ p <= undone => c.steps[plan[p]].status = "completed"
        /\ p > undone + 1 => c.steps[plan[p]].status = ""
    BY NormalsApart DEF Backward
  <2>2. p # undone + 1 => steps[plan[p]] = c.steps[plan[p]]
    BY <1>1, <1>3, <2>1
  <2>3. p = undone + 1 => steps[plan[p]].status # "completed"
    BY <1>1, <1>3
  <2>4. /\ p <= undone \/ p > undone + 1 => p # undone + 1
        /\ p > undone => p = undone + 1 \/ p > undone + 1
    OBVIOUS
  <2> QED
    BY <2>1, <2>2, <2>3, <2>4
<1> QED
  BY <1>4, <1>5, <1>6 DEF Backward

\* A compensation that completes moves from the queue to the completed steps.
LEMMA BackwardNext ==
  ASSUME NEW c, IsTyped(c), NEW plan, NEW done \in Nat, NEW undone \in Nat, NEW failed \in NormalSteps,
         Backward(c, plan, done, undone, failed), c.status = "compensating", c.queue # <<>>,
         NEW out, NEW d, d = CompensationSuccess(c, out)
  PROVE  Backward(d, plan, done, undone + 1, failed)
<1>1. PICK id : id = c.cur
  OBVIOUS
<1>2. id = Head(c.queue)
  BY <1>1 DEF Backward
<1>3. /\ Len(c.queue) \in Nat \ {0} /\ undone + 1 \in 1 .. Len(plan) /\ id = plan[undone + 1]
      /\ id \in CompensationRefs /\ id \in StepIds /\ id # failed
      /\ \A p \in 1 .. Len(plan) : p # undone + 1 => plan[p] # id
  BY <1>2, BackwardHead
<1>4. PICK queue, rest, old, completed :
        queue = c.queue /\ rest = Tail(c.queue) /\ old = c.completed /\ completed = Append(c.completed, id)
  OBVIOUS
<1>5. queue \in Seq(StepIds) /\ old \in Seq(StepIds) /\ queue # <<>>
  BY <1>4 DEF IsTyped
<1>6. /\ rest \in Seq(StepIds) /\ Len(rest) = Len(queue) - 1
      /\ \A n \in 1 .. Len(rest) : rest[n] = queue[n + 1]
  BY <1>4, <1>5
<1>7. /\ Len(old) = done + undone /\ Len(plan) = undone + Len(queue)
      /\ \A n \in 1 .. done : old[n] \in NormalSteps
      /\ \A n \in 1 .. undone : old[done + n] = plan[n]
      /\ \A n \in 1 .. Len(queue) : queue[n] = plan[undone + n]
  BY <1>4 DEF Backward
<1>8. ~ HasCompleted(c, id)
  <2>1. ASSUME NEW n \in 1 .. done + undone PROVE old[n] # id
    <3>1. CASE n <= done
      <4>1. old[n] \in NormalSteps
        BY <1>7, <3>1
      <4> QED
        BY <1>3, <4>1, NormalsApart
    <3>2. CASE n > done
      <4>1. n - done \in 1 .. undone /\ done + (n - done) = n
        BY <3>2
      <4>2. old[n] = plan[n - done]
        BY <1>7, <4>1
      <4>3. n - done \in 1 .. Len(plan) /\ n - done # undone + 1
        BY <1>3, <4>1
      <4> QED
        BY <1>3, <4>2, <4>3
    <3> QED
      BY <3>1, <3>2
  <2> QED
    BY <1>4, <1>7, <2>1 DEF HasCompleted, Contains
<1>9. /\ completed \in Seq(StepIds) /\ Len(completed) = (done + undone) + 1 /\ completed[(done + undone) + 1] = id
      /\ \A n \in 1 .. done + undone : completed[n] = old[n]
  <2>1. completed = Append(old, id) /\ id \in StepIds /\ Len(old) = done + undone
    BY <1>3, <1>4, <1>7
  <2>2. /\ completed \in Seq(StepIds) /\ Len(completed) = Len(old) + 1 /\ completed[Len(old) + 1] = id
        /\ \A n \in 1 .. Len(old) : completed[n] = old[n]
    BY <1>5, <2>1
  <2> QED
    BY <2>1, <2>2
<1>10. PICK state, steps : state = CompletedState(c.steps[id], out.next) /\ steps = [c.steps EXCEPT ![id] = state]
  OBVIOUS
<1>11. IsContent(c)
  BY TypedIsShaped
<1>12. d = [status |-> IF rest = <<>> THEN "failed" ELSE "compensating",
            cur |-> IF rest = <<>> THEN NoStep ELSE Head(rest),
            steps |-> steps, completed |-> completed, queue |-> rest, forks |-> c.forks]
  BY <1>1, <1>3, <1>4, <1>8, <1>10, <1>11, CompensationForm
<1>13. /\ d.steps = steps /\ d.completed = completed /\ d.queue = rest
       /\ d.status \in {"compensating", "waiting_timer", "failed"}
       /\ d.status # "failed" => rest # <<>> /\ d.cur = Head(rest)
       /\ d.status = "failed" => rest = <<>>
  BY <1>12
<1>14. c.steps \in [StepIds -> StepState]
  BY DEF IsTyped
<1>15. steps[id].status = "completed" /\ \A s \in StepIds \ {id} : steps[s] = c.steps[s]
  BY <1>3, <1>10, <1>14 DEF CompletedState
<1>16. \A s \in StepIds : steps[s].status = "failed" <=> s = failed
  BY <1>3, <1>15 DEF Backward
<1>17. ASSUME NEW p \in 1 .. Len(plan)
       PROVE  /\ plan[p] \in CompensationRefs
              /\ p <= undone + 1 => steps[plan[p]].status = "completed"
              /\ p > undone + 1 => steps[plan[p]].status # "completed"
              /\ p > (undone + 1) + 1 => steps[plan[p]].status = ""
  <2>1. /\ plan[p] \in CompensationRefs /\ plan[p] \in StepIds
        /\ p <= undone => c.steps[plan[p]].status = "completed"
        /\ p > undone + 1 => c.steps[plan[p]].status = ""
    BY NormalsApart DEF Backward
  <2>2. p # undone + 1 => steps[plan[p]] = c.steps[plan[p]]
    BY <1>3, <1>15, <2>1
  <2>3. p = undone + 1 => steps[plan[p]].status = "completed"
    BY <1>3, <1>15
  <2>4. /\ p <= undone + 1 => p <= undone \/ p = undone + 1
        /\ p > (undone + 1) + 1 => p > undone + 1
        /\ p > undone + 1 => p # undone + 1
        /\ p <= undone => p # undone + 1
    OBVIOUS
  <2> QED
    BY <2>1, <2>2, <2>3, <2>4
<1>18. Len(completed) = done + (undone + 1) /\ Len(plan) = (undone + 1) + Len(rest)
  <2>1. PICK len \in Nat \ {0} : len = Len(queue)
    BY <1>3, <1>4
  <2>2. Len(completed) = (done + undone) + 1 /\ Len(plan) = undone + len /\ Len(rest) = len - 1
    BY <1>6, <1>7, <1>9, <2>1
  <2> QED
    BY <2>2
<1>19. \A n \in 1 .. done : completed[n] = old[n] /\ completed[n] \in NormalSteps
  BY <1>7, <1>9
<1>20. \A n \in 1 .. undone + 1 : completed[done + n] = plan[n]
  <2>1. TAKE n \in 1 .. undone + 1
  <2>2. CASE n = undone + 1
    BY <1>3, <1>9, <2>2
  <2>3. CASE n # undone + 1
    <3>1. n \in 1 .. undone /\ done + n \in 1 .. done + undone
      BY <2>3
    <3> QED
      BY <1>7, <1>9, <3>1
  <2> QED
    BY <2>2, <2>3
<1>21. \A n \in 1 .. Len(rest) : rest[n] = plan[(undone + 1) + n]
  <2>1. TAKE n \in 1 .. Len(rest)
  <2>2. PICK len \in Nat \ {0} : len = Len(queue) /\ Len(rest) = len - 1
    BY <1>3, <1>4, <1>6
  <2>3. n + 1 \in 1 .. len /\ undone + (n + 1) = (undone + 1) + n
    BY <2>2
  <2> QED
    BY <1>6, <1>7, <2>2, <2>3
<1>22. IsPlan(plan, completed, done, failed)
  <2>1. IsPlan(plan, old, done, failed)
    BY <1>4 DEF Backward
  <2>2. ASSUME NEW n \in 1 .. done, NEW m \in n + 1 .. done PROVE m \in 1 .. done
    OBVIOUS
  <2> QED
    BY <1>19, <2>1, <2>2 DEF IsPlan
<1> QED
  BY <1>13, <1>16, <1>17, <1>18, <1>19, <1>20, <1>21, <1>22 DEF Backward

LEMMA BackwardStart ==
  ASSUME NEW c, IsTyped(c), NEW plan, NEW done, NEW undone \in Nat, NEW failed \in NormalSteps,
         Backward(c, plan, done, undone, failed), c.status # "failed", NEW newKey, NEW d, d = StartStep(c, newKey)
  PROVE  Backward(d, plan, done, undone, failed)
<1>1. IsContent(c) /\ c.queue # <<>>
  BY TypedIsShaped DEF Backward
<1>2. Compensates(c)
  BY <1>1 DEF Compensates
<1>3. PICK id, run : id = Head(c.queue) /\ run = StepToRun(c)
  OBVIOUS
<1>4. run.next = id /\ run.forks = c.forks
  BY <1>1, <1>2, <1>3 DEF StepToRun
<1>5. PICK state : state = RunningState(c.steps[id], KeyFor(c.steps[id], newKey),
                                        PreviousWait(c.steps[id], "compensating"))
  OBVIOUS
<1>6. state.status \notin {"completed", "failed"}
  BY <1>5 DEF RunningState
<1>7. PICK steps : steps = [c.steps EXCEPT ![id] = state]
  OBVIOUS
<1>8. d = [status |-> "compensating", cur |-> id, steps |-> steps,
           completed |-> c.completed, queue |-> c.queue, forks |-> c.forks]
  BY <1>1, <1>2, <1>3, <1>4, <1>5, <1>7, StartForm
<1> QED
  BY <1>1, <1>3, <1>6, <1>7, <1>8, BackwardKept

LEMMA BackwardWaits ==
  ASSUME NEW c, IsTyped(c), NEW plan, NEW done, NEW undone \in Nat, NEW failed \in NormalSteps,
         Backward(c, plan, done, undone, failed), c.status # "failed", NEW out, NEW d, d = handleStepWaiting(c, out)
  PROVE  Backward(d, plan, done, undone, failed)
<1>1. IsContent(c) /\ c.queue # <<>> /\ c.cur = Head(c.queue)
  BY TypedIsShaped DEF Backward
<1>2. PICK id : id = Head(c.queue) /\ id = c.cur
  BY <1>1
<1>3. id \in StepIds
  BY <1>1, <1>2, BackwardHead
<1>4. PICK state, steps : state = WaitingState(c.steps[id], out.fireAt) /\ steps = [c.steps EXCEPT ![id] = state]
  OBVIOUS
<1>5. state.status \notin {"completed", "failed"}
  BY <1>4 DEF WaitingState
<1>6. d = [status |-> "waiting_timer", cur |-> id, steps |-> steps,
           completed |-> c.completed, queue |-> c.queue, forks |-> c.forks]
  BY <1>1, <1>2, <1>3, <1>4, WaitingForm
<1> QED
  BY <1>1, <1>2, <1>4, <1>5, <1>6, BackwardKept

\* A compensation that fails ends the instance; the queue keeps it and what is behind it.
LEMMA BackwardStops ==
  ASSUME NEW c, IsTyped(c), NEW plan, NEW done, NEW undone, NEW failed,
         Backward(c, plan, done, undone, failed), c.status = "compensating", c.steps[c.cur].status = "running",
         NEW out, NEW d, d = CompensationFailure(c, out)
  PROVE  Backward(d, plan, done, undone, failed)
<1>1. IsContent(c) /\ c.cur = Head(c.queue)
  BY TypedIsShaped DEF Backward
<1>2. d = [status |-> "failed", cur |-> NoStep, steps |-> c.steps,
           completed |-> c.completed, queue |-> c.queue, forks |-> c.forks]
  BY <1>1, FinishForm DEF CompensationFailure
<1>3. d.status = "failed" /\ d.steps = c.steps /\ d.completed = c.completed /\ d.queue = c.queue
  BY <1>2
<1> QED
  BY <1>1, <1>3 DEF Backward

-----------------------------------------------------------------------------
(* Every action keeps the saga *)

LEMMA SagaStarts ==
  ASSUME CompensationsApart, NEW c, IsTyped(c), SagaOK(c), c.status \notin Terminal, StepToRun(c).next \in StepIds,
         NEW newKey
  PROVE  SagaOK(StartStep(c, newKey))
<1>1. PICK d : d = StartStep(c, newKey)
  OBVIOUS
<1>2. CASE Forward(c)
  BY <1>1, <1>2, ForwardStart DEF SagaOK
<1>3. CASE ~ Forward(c)
  <2>1. PICK plan \in Seq(StepIds), done \in Nat, undone \in Nat, failed \in NormalSteps :
          Backward(c, plan, done, undone, failed)
    BY <1>3 DEF SagaOK
  <2>2. c.status # "failed"
    BY DEF Terminal
  <2>3. Backward(d, plan, done, undone, failed)
    BY <1>1, <2>1, <2>2, BackwardStart
  <2> QED
    BY <1>1, <2>3 DEF SagaOK
<1> QED
  BY <1>2, <1>3

LEMMA SagaEnds ==
  ASSUME CompensationsApart, NEW c, IsTyped(c), SagaOK(c), c.status \notin Terminal, StepToRun(c).next \notin StepIds
  PROVE  SagaOK(FinishWithoutStep(c))
<1>1. CASE Forward(c)
  BY <1>1, ForwardFinish DEF SagaOK
<1>2. CASE ~ Forward(c)
  <2>1. PICK plan \in Seq(StepIds), done \in Nat, undone \in Nat, failed \in NormalSteps :
          Backward(c, plan, done, undone, failed)
    BY <1>2 DEF SagaOK
  <2>2. c.queue # <<>>
    BY <2>1 DEF Terminal, Backward
  <2>3. Head(c.queue) \in StepIds
    BY <2>1, <2>2, BackwardHead
  <2>4. StepToRun(c).next = Head(c.queue)
    BY <2>2 DEF StepToRun, Compensates
  <2> QED
    BY <2>3, <2>4
<1> QED
  BY <1>1, <1>2

LEMMA SagaGoesOn ==
  ASSUME CompensationsApart, NEW c, IsTyped(c), SagaOK(c), Running(c), c.cur \in StepIds,
         NEW reached, NEW out \in Execute(c, reached)
  PROVE  SagaOK(HandleResult(c, out))
<1>1. out.kind \in {"success", "waiting", "error"}
  BY ExecuteKinds
<1>2. PICK d : d = HandleResult(c, out)
  OBVIOUS
<1>3. CASE Forward(c)
  <2>1. c.status = "running"
    BY <1>3 DEF Running, Forward
  <2>2. c.cur \in NormalSteps
    BY <1>3, NoStepIsNone DEF Forward, RefsOn
  <2>3. out.next \in RefsOn(NormalSteps)
    BY <2>2, ExecuteOn, StateTyped DEF CompensationsApart
  <2>4. CASE out.kind = "waiting"
    <3>1. d = handleStepWaiting(c, out)
      BY <1>2, <2>4 DEF HandleResult
    <3> QED
      BY <1>2, <1>3, <2>2, <3>1, ForwardWaits DEF SagaOK
  <2>5. CASE out.kind = "success"
    <3>1. d = handleStepSuccess(c, out)
      BY <1>2, <2>1, <2>5 DEF HandleResult
    <3> QED
      BY <1>2, <1>3, <2>2, <2>3, <3>1, ForwardSucceeds DEF SagaOK
  <2>6. CASE out.kind = "error"
    <3>1. d = handleStepFailure(c, out)
      BY <1>2, <2>1, <2>6 DEF HandleResult
    <3>2. CASE RetriesLeft(c, c.cur)
      <4>1. d = handleStepWaiting(c, Waits(c.steps[c.cur].attempt))
        BY <3>1, <3>2, RetryIsWait
      <4> QED
        BY <1>2, <1>3, <2>2, <4>1, ForwardWaits DEF SagaOK
    <3>3. CASE ~ RetriesLeft(c, c.cur)
      <4>1. PICK plan, done : plan = CompensationQueue(c, c.cur) /\ done = Len(c.completed)
        OBVIOUS
      <4>2. c.completed \in Seq(StepIds)
        BY DEF IsTyped
      <4>3. plan \in Seq(StepIds) /\ done \in Nat
        BY <4>1, <4>2, QueueIsPlan
      <4>4. Backward(d, plan, done, 0, c.cur)
        BY <1>3, <2>2, <3>1, <3>3, <4>1, ForwardFails
      <4> QED
        BY <1>2, <2>2, <4>3, <4>4 DEF SagaOK
    <3> QED
      BY <3>2, <3>3
  <2> QED
    BY <1>1, <2>4, <2>5, <2>6
<1>4. CASE ~ Forward(c)
  <2>1. PICK plan \in Seq(StepIds), done \in Nat, undone \in Nat, failed \in NormalSteps :
          Backward(c, plan, done, undone, failed)
    BY <1>4 DEF SagaOK
  <2>2. c.status = "compensating" /\ c.queue # <<>> /\ c.steps[c.cur].status = "running"
    BY <2>1 DEF Running, Backward
  <2>3. CASE out.kind = "waiting"
    <3>1. d = handleStepWaiting(c, out)
      BY <1>2, <2>3 DEF HandleResult
    <3>2. Backward(d, plan, done, undone, failed)
      BY <2>1, <2>2, <3>1, BackwardWaits
    <3> QED
      BY <1>2, <3>2 DEF SagaOK
  <2>4. CASE out.kind = "success"
    <3>1. d = CompensationSuccess(c, out)
      BY <1>2, <2>2, <2>4 DEF HandleResult
    <3>2. Backward(d, plan, done, undone + 1, failed)
      BY <2>1, <2>2, <3>1, BackwardNext
    <3>3. undone + 1 \in Nat
      OBVIOUS
    <3> QED
      BY <1>2, <3>2, <3>3 DEF SagaOK
  <2>5. CASE out.kind = "error"
    <3>1. d = CompensationFailure(c, out)
      BY <1>2, <2>2, <2>5 DEF HandleResult
    <3>2. Backward(d, plan, done, undone, failed)
      BY <2>1, <2>2, <3>1, BackwardStops
    <3> QED
      BY <1>2, <3>2 DEF SagaOK
  <2> QED
    BY <1>1, <2>3, <2>4, <2>5
<1> QED
  BY <1>3, <1>4

SagaInv == \A i \in Instances : SagaOK(content[i])

LEMMA NewContentSaga ==
  ASSUME TypeInv, SagaInv, NEW i \in Instances, NEW c, SagaOK(c), content' = [content EXCEPT ![i] = c]
  PROVE  SagaInv'
<1>1. ASSUME NEW j \in Instances PROVE content'[j] = c \/ content'[j] = content[j]
  BY DEF TypeInv
<1>2. ASSUME NEW j \in Instances PROVE SagaOK(content'[j])
  BY <1>1 DEF SagaInv
<1> QED
  BY <1>2 DEF SagaInv

LEMMA SagaStep ==
  ASSUME CompensationsApart, TypeInv, SagaInv, [ExecNext]_execVars PROVE SagaInv'
<1>1. ASSUME NEW i \in Instances, Create(i) PROVE SagaInv'
  <2>1. PICK c : c = NewRuntimeState("pending")
    OBVIOUS
  <2>2. SagaOK(c)
    BY <2>1, NewForward DEF SagaOK
  <2>3. content' = [content EXCEPT ![i] = c]
    BY <1>1, <2>1 DEF Create
  <2> QED
    BY <2>2, <2>3, NewContentSaga
<1>2. ASSUME NEW i \in Instances, Start(i) PROVE SagaInv'
  <2>1. PICK c : c = StartStep(content[i], keySeq + 1)
    OBVIOUS
  <2>2. /\ IsTyped(content[i]) /\ SagaOK(content[i])
        /\ content[i].status \notin Terminal /\ StepToRun(content[i]).next \in StepIds
    BY <1>2, ContentTyped DEF SagaInv, Start, Ready
  <2>3. SagaOK(c)
    BY <2>1, <2>2, SagaStarts
  <2>4. content' = [content EXCEPT ![i] = c]
    BY <1>2, <2>1 DEF Start
  <2> QED
    BY <2>3, <2>4, NewContentSaga
<1>3. ASSUME NEW i \in Instances, FinishEmpty(i) PROVE SagaInv'
  <2>1. PICK c : c = FinishWithoutStep(content[i])
    OBVIOUS
  <2>2. /\ IsTyped(content[i]) /\ SagaOK(content[i])
        /\ content[i].status \notin Terminal /\ StepToRun(content[i]).next \notin StepIds
    BY <1>3, ContentTyped DEF SagaInv, FinishEmpty, Ready
  <2>3. SagaOK(c)
    BY <2>1, <2>2, SagaEnds
  <2>4. content' = [content EXCEPT ![i] = c]
    BY <1>3, <2>1 DEF FinishEmpty
  <2> QED
    BY <2>3, <2>4, NewContentSaga
<1>4. ASSUME NEW i \in Instances, Finish(i) PROVE SagaInv'
  <2>1. IsTyped(content[i]) /\ SagaOK(content[i]) /\ Running(content[i])
    BY <1>4, ContentTyped DEF SagaInv, Finish
  <2>2. PICK reached \in SUBSET past[i] : \E out \in Execute(content[i], reached) :
          content' = [content EXCEPT ![i] = HandleResult(content[i], out)]
    BY <1>4 DEF Finish
  <2>3. PICK out \in Execute(content[i], reached) :
          content' = [content EXCEPT ![i] = HandleResult(content[i], out)]
    BY <2>2
  <2>4. content[i].cur \in StepIds
    BY <2>1 DEF Running, IsTyped, RefsOn
  <2>5. PICK c : c = HandleResult(content[i], out)
    OBVIOUS
  <2>6. SagaOK(c)
    BY <2>1, <2>4, <2>5, SagaGoesOn
  <2> QED
    BY <2>3, <2>5, <2>6, NewContentSaga
<1>5. ASSUME NEW i \in Instances, Elapse(i) PROVE SagaInv'
  <2>1. content' = content
    BY <1>5 DEF Elapse
  <2> QED
    BY <2>1 DEF SagaInv
<1>6. ASSUME UNCHANGED execVars PROVE SagaInv'
  <2>1. content' = content
    BY <1>6 DEF execVars
  <2> QED
    BY <2>1 DEF SagaInv
<1> QED
  BY <1>1, <1>2, <1>3, <1>4, <1>5, <1>6 DEF ExecNext

LEMMA SagaIsInvariant ==
  ASSUME CompensationsApart PROVE ExecSpec => [](TypeInv /\ SagaInv)
<1>1. ExecInit => SagaInv
  <2>1. SagaOK(Absent)
    BY NewForward DEF Absent, SagaOK
  <2> QED
    BY <2>1 DEF ExecInit, SagaInv
<1>2. TypeInv /\ SagaInv /\ [ExecNext]_execVars => SagaInv'
  BY SagaStep
<1> QED
  BY <1>1, <1>2, TypeIsInvariant, PTL DEF ExecSpec

-----------------------------------------------------------------------------
(* What the plan says of a saga *)

\* A step with a compensation that completed is one of the first done, and its
\* compensation is in the plan.
LEMMA CompletedPlace ==
  ASSUME CompensationsApart, NEW c, IsTyped(c), NEW plan, NEW done \in Nat, NEW undone \in Nat, NEW failed,
         Backward(c, plan, done, undone, failed),
         NEW n \in 1 .. Len(c.completed), Undo(c.completed[n]) # NoStep
  PROVE  n \in 1 .. done
<1>1. PICK len \in Nat : len = Len(c.queue)
  BY DEF IsTyped
<1>2. /\ Len(c.completed) = done + undone /\ Len(plan) = undone + len
      /\ \A m \in 1 .. undone : c.completed[done + m] = plan[m]
      /\ \A m \in 1 .. Len(plan) : plan[m] \in CompensationRefs
  BY <1>1 DEF Backward
<1>3. SUFFICES ASSUME n \notin 1 .. done PROVE FALSE
  OBVIOUS
<1>4. PICK m \in 1 .. undone : m = n - done /\ done + m = n /\ m \in 1 .. undone + len
  BY <1>2, <1>3
<1>5. c.completed[n] = plan[m] /\ plan[m] \in CompensationRefs
  BY <1>2, <1>4
<1> QED
  BY <1>5 DEF CompensationsApart, Undo

LEMMA FailedIsComplete ==
  ASSUME CompensationsApart, NEW c, IsTyped(c), NEW plan, NEW done \in Nat, NEW undone \in Nat, NEW failed,
         Backward(c, plan, done, undone, failed), c.status = "failed"
  PROVE  /\ \A s \in StepIds : (HasCompleted(c, s) \/ c.steps[s].status = "failed") /\ Undo(s) # NoStep =>
              HasCompleted(c, Undo(s)) \/ Contains(c.queue, Undo(s))
         /\ \A n \in DOMAIN c.queue : c.steps[c.queue[n]].status = IF n = 1 THEN "running" ELSE ""
<1>1. PICK queue, completed : queue = c.queue /\ completed = c.completed
  OBVIOUS
<1>2. queue \in Seq(StepIds) /\ completed \in Seq(StepIds)
  BY <1>1 DEF IsTyped
<1>3. PICK len \in Nat : len = Len(queue) /\ DOMAIN queue = 1 .. len
  BY <1>2
<1>4. /\ Len(completed) = done + undone /\ Len(plan) = undone + len
      /\ \A n \in 1 .. undone : completed[done + n] = plan[n]
      /\ \A n \in 1 .. len : queue[n] = plan[undone + n]
  BY <1>1, <1>3 DEF Backward
<1>5. ASSUME NEW s \in StepIds, HasCompleted(c, s) \/ c.steps[s].status = "failed", Undo(s) # NoStep
      PROVE  HasCompleted(c, Undo(s)) \/ Contains(c.queue, Undo(s))
  <2>1. \E p \in 1 .. undone + len : plan[p] = Undo(s)
    <3>1. CASE c.steps[s].status = "failed"
      <4>1. s = failed
        BY <3>1 DEF Backward
      <4> QED
        BY <1>4, <1>5, <4>1 DEF Backward, IsPlan
    <3>2. CASE HasCompleted(c, s)
      <4>1. PICK n \in 1 .. Len(completed) : completed[n] = s
        BY <1>1, <3>2 DEF HasCompleted, Contains
      <4>2. n \in 1 .. done
        BY <1>1, <1>5, <4>1, CompletedPlace
      <4> QED
        BY <1>1, <1>4, <1>5, <4>1, <4>2 DEF Backward, IsPlan
    <3> QED
      BY <1>5, <3>1, <3>2
  <2>2. PICK p \in 1 .. undone + len : plan[p] = Undo(s)
    BY <2>1
  <2>3. CASE p <= undone
    <3>1. p \in 1 .. undone /\ done + p \in 1 .. done + undone
      BY <2>3
    <3>2. completed[done + p] = Undo(s)
      BY <1>4, <2>2, <3>1
    <3> QED
      BY <1>1, <1>4, <3>1, <3>2 DEF HasCompleted, Contains
  <2>4. CASE p > undone
    <3>1. p - undone \in 1 .. len /\ undone + (p - undone) = p
      BY <2>4
    <3>2. queue[p - undone] = Undo(s)
      BY <1>4, <2>2, <3>1
    <3> QED
      BY <1>1, <1>3, <3>1, <3>2 DEF Contains
  <2> QED
    BY <2>3, <2>4
<1>6. ASSUME NEW n \in 1 .. len PROVE c.steps[queue[n]].status = IF n = 1 THEN "running" ELSE ""
  <2>1. CASE n = 1
    <3>1. queue # <<>> /\ Head(queue) = queue[1]
      BY <1>2, <1>3, <2>1
    <3> QED
      BY <1>1, <2>1, <3>1 DEF Backward
  <2>2. CASE n # 1
    <3>1. undone + n \in 1 .. Len(plan) /\ undone + n > undone + 1
      BY <1>4, <2>2
    <3>2. queue[n] = plan[undone + n]
      BY <1>4
    <3> QED
      BY <2>2, <3>1, <3>2 DEF Backward
  <2> QED
    BY <2>1, <2>2
<1> QED
  BY <1>1, <1>3, <1>5, <1>6

\* The compensation of s has been started, and t has one that must be over.
MustPrecede(c, s, t) ==
  /\ Undo(s) # NoStep /\ Undo(t) # NoStep /\ CompletedBefore(c, s, t)
  /\ ~ \E u \in StepIds : Undo(u) = Undo(s) /\ CompletedBefore(c, s, u)
  /\ c.steps[Undo(s)].status # ""

LEMMA BackwardOrder ==
  ASSUME CompensationsApart, NEW c, IsTyped(c), NEW plan, NEW done \in Nat, NEW undone \in Nat,
         NEW failed \in NormalSteps, Backward(c, plan, done, undone, failed),
         NEW s \in StepIds, NEW t \in StepIds, MustPrecede(c, s, t)
  PROVE  c.steps[Undo(t)].status = "completed"
<1>1. PICK completed : completed = c.completed
  OBVIOUS
<1>2. completed \in Seq(StepIds) /\ DOMAIN completed = 1 .. Len(completed) /\ failed \in StepIds
  <2>1. completed \in Seq(StepIds)
    BY <1>1 DEF IsTyped
  <2> QED
    BY <2>1, NormalsApart
<1>3. PICK len \in Nat : Len(plan) = len
  <2>1. PICK n \in Nat : n = Len(c.queue)
    BY DEF IsTyped
  <2>2. Len(plan) = undone + n
    BY <2>1 DEF Backward
  <2> QED
    BY <2>2
<1>4. Undo(s) # Undo(t)
  BY DEF MustPrecede
<1>5. ASSUME NEW n \in 1 .. Len(completed), completed[n] = s \/ completed[n] = t PROVE n \in 1 .. done
  BY <1>1, <1>5, CompletedPlace DEF MustPrecede
<1>6. /\ \A n \in 1 .. done : Undo(completed[n]) # NoStep => \E p \in 1 .. len : plan[p] = Undo(completed[n])
      /\ Undo(failed) # NoStep => \E p \in 1 .. len : plan[p] = Undo(failed)
  BY <1>1, <1>3 DEF Backward, IsPlan
<1>7. \A p, q \in 1 .. len : p < q => plan[q] # Undo(failed)
  BY <1>3 DEF Backward, IsPlan
<1>8. \A p, q \in 1 .. len : \A n \in 1 .. done :
        p < q /\ plan[q] = Undo(completed[n]) =>
          plan[p] = Undo(failed) \/ \E m \in n + 1 .. done : plan[p] = Undo(completed[m])
  <2>1. IsPlan(plan, completed, done, failed)
    BY <1>1 DEF Backward
  <2> QED
    BY <1>3, <2>1 DEF IsPlan
<1>9. HasCompleted(c, s)
  <2>1. ASSUME NEW m \in DOMAIN c.completed, c.completed[m] = s PROVE HasCompleted(c, s)
    BY <1>1, <1>2, <2>1 DEF HasCompleted, Contains
  <2> QED
    BY <2>1 DEF CompletedBefore, MustPrecede
<1>10. Undo(s) # Undo(failed)
  <2>1. c.steps[failed].status = "failed"
    BY <1>2 DEF Backward
  <2>2. CompletedBefore(c, s, failed)
    BY <1>9, <2>1 DEF CompletedBefore
  <2> QED
    BY <1>2, <2>2 DEF MustPrecede
<1>11. PICK k \in 1 .. Len(completed) : completed[k] = s
  BY <1>1, <1>9 DEF HasCompleted, Contains
<1>12. PICK p \in 1 .. len : plan[p] = Undo(s)
  BY <1>5, <1>6, <1>11 DEF MustPrecede
<1>13. \E q \in 1 .. len : plan[q] = Undo(t) /\ ~ p < q
  <2>1. CASE t = failed
    <3>1. PICK q \in 1 .. len : plan[q] = Undo(t)
      BY <1>6, <2>1 DEF MustPrecede
    <3> QED
      BY <1>7, <2>1, <3>1
  <2>2. CASE t # failed
    <3>1. \E m, n \in DOMAIN completed : m < n /\ completed[m] = s /\ completed[n] = t
      BY <1>1, <2>2 DEF CompletedBefore, Backward, MustPrecede
    <3>2. PICK m \in DOMAIN completed, n \in DOMAIN completed : m < n /\ completed[m] = s /\ completed[n] = t
      BY <3>1
    <3>3. n \in 1 .. done /\ m \in 1 .. done
      BY <1>2, <1>5, <3>2
    <3>4. PICK q \in 1 .. len : plan[q] = Undo(t)
      BY <1>6, <3>2, <3>3 DEF MustPrecede
    <3>5. ASSUME p < q PROVE FALSE
      <4>1. plan[p] = Undo(failed) \/ \E l \in n + 1 .. done : plan[p] = Undo(completed[l])
        BY <1>8, <3>2, <3>3, <3>4, <3>5
      <4>2. PICK l \in n + 1 .. done : Undo(s) = Undo(completed[l])
        BY <1>10, <1>12, <4>1
      <4>3. Len(completed) = done + undone
        BY <1>1 DEF Backward
      <4>4. l \in DOMAIN completed /\ m < l
        <5>1. l \in 1 .. done + undone /\ m < l
          BY <3>2, <3>3
        <5> QED
          BY <1>2, <4>3, <5>1
      <4>5. completed[l] \in StepIds
        BY <1>2, <4>4
      <4>6. CompletedBefore(c, s, completed[l])
        BY <1>1, <3>2, <4>4 DEF CompletedBefore
      <4> QED
        BY <4>2, <4>5, <4>6 DEF MustPrecede
    <3> QED
      BY <3>4, <3>5
  <2> QED
    BY <2>1, <2>2
<1>14. PICK q \in 1 .. len : plan[q] = Undo(t) /\ ~ p < q
  BY <1>13
<1>15. p # q
  BY <1>4, <1>12, <1>14
<1>16. ~ p > undone + 1
  BY <1>3, <1>12 DEF Backward, MustPrecede
<1>17. q <= undone
  <2>1. ~ p < q
    BY <1>14
  <2> QED
    BY <1>15, <1>16, <2>1
<1> QED
  BY <1>3, <1>14, <1>17 DEF Backward

\* Whatever the definition, if its compensations stand apart: the compensations run in
\* reverse completion order, the failed step's own first (CompensationQueue and
\* advanceCompensation).
THEOREM CompensationsKeepOrder ==
  ASSUME CompensationsApart PROVE ExecSpec => []CompensationOrder
<1>1. TypeInv /\ SagaInv => CompensationOrder
  <2>1. SUFFICES ASSUME TypeInv, SagaInv PROVE CompensationOrder
    OBVIOUS
  <2>2. ASSUME NEW i \in Instances, NEW s \in StepIds, NEW t \in StepIds, MustPrecede(content[i], s, t)
        PROVE  content[i].steps[Undo(t)].status = "completed"
    <3>1. PICK c : c = content[i]
      OBVIOUS
    <3>2. IsTyped(c) /\ SagaOK(c)
      BY <2>1, <3>1, ContentTyped DEF SagaInv
    <3>3. ~ Forward(c)
      <4>1. Undo(s) \in CompensationRefs
        BY <2>2, StepIsOne, NoStepIsNone DEF CompensationRefs, Undo, MustPrecede
      <4> QED
        BY <2>2, <3>1, <4>1 DEF Forward, MustPrecede
    <3>4. PICK plan \in Seq(StepIds), done \in Nat, undone \in Nat, failed \in NormalSteps :
            Backward(c, plan, done, undone, failed)
      BY <3>2, <3>3 DEF SagaOK
    <3> QED
      BY <2>2, <3>1, <3>2, <3>4, BackwardOrder
  <2> QED
    BY <2>2 DEF CompensationOrder, MustPrecede, Undo
<1> QED
  BY <1>1, SagaIsInvariant, PTL

\* Under the same condition: a failed instance has undone every step that completed or
\* failed, or says in its queue which compensation failed and which were not tried
\* (handleStepFailure and advanceCompensation).
THEOREM SagasAreComplete ==
  ASSUME CompensationsApart PROVE ExecSpec => []SagaComplete
<1>1. TypeInv /\ SagaInv => SagaComplete
  <2>1. SUFFICES ASSUME TypeInv, SagaInv PROVE SagaComplete
    OBVIOUS
  <2>2. ASSUME NEW i \in Instances, NEW c, c = content[i], c.status = "failed"
        PROVE  /\ \A s \in StepIds : (HasCompleted(c, s) \/ c.steps[s].status = "failed") /\ Undo(s) # NoStep =>
                    HasCompleted(c, Undo(s)) \/ Contains(c.queue, Undo(s))
               /\ \A n \in DOMAIN c.queue : c.steps[c.queue[n]].status = IF n = 1 THEN "running" ELSE ""
    <3>1. IsTyped(c) /\ SagaOK(c)
      BY <2>1, <2>2, ContentTyped DEF SagaInv
    <3>2. ~ Forward(c)
      BY <2>2 DEF Forward
    <3>3. PICK plan \in Seq(StepIds), done \in Nat, undone \in Nat, failed \in NormalSteps :
            Backward(c, plan, done, undone, failed)
      BY <3>1, <3>2 DEF SagaOK
    <3> QED
      BY <2>2, <3>1, <3>3, FailedIsComplete
  <2> QED
    BY <2>2 DEF SagaComplete, Undo
<1> QED
  BY <1>1, SagaIsInvariant, PTL
=============================================================================
