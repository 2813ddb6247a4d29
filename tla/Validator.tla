----------------------------- MODULE Validator -----------------------------
(***************************************************************************)
(* The validation of a workflow definition (internal/dsl/validator.go),    *)
(* and the walk of the machine over a definition it has accepted.          *)
(*                                                                         *)
(* Here the definition is a variable: a request may carry any text.  A     *)
(* step has the references of module Workflow and its retry policy; config *)
(* says whether the rest of its config passes the checks of its type (URL, *)
(* method, timeout, expression, duration), header whether name and version *)
(* do.  The checks before the cycle search change nothing and are one      *)
(* step; the search is the code's, call by call.  In the walk every step   *)
(* succeeds, so a step that is run again is run again by the references.   *)
(***************************************************************************)
EXTENDS Backoff, SequencesExt

CONSTANTS
  Requests,      \* the definitions that may be sent: [header, steps]
  MaxWalk,       \* bound on the steps of a walk
  MaxAttempts    \* bound on the attempts whose backoff is compared with the next

ASSUME BoundsAssumption == MaxWalk \in Nat /\ MaxAttempts \in Nat

\* A step as it is sent.  Every reference is a text, "" for one that is absent.
StepRequest ==
  [id : STRING, type : STRING, next : STRING, then : STRING, else : STRING,
   branches : Seq(STRING), join : STRING, onFailure : STRING, config : BOOLEAN,
   retry : [maxRetries : Int, initial : Intervals, max : Intervals, multiplier : Int]]

\* Of the references only those are kept that the step's type reads: then and else are
\* a condition's, branches and join a fork's.
ASSUME RequestsAssumption ==
  \A request \in Requests :
    /\ request \in [header : BOOLEAN, steps : Seq(StepRequest)]
    /\ \A n \in DOMAIN request.steps :
         LET step == request.steps[n] IN
         /\ step.type # "condition" => step.then = "" /\ step.else = ""
         /\ step.type # "fork" => step.branches = <<>> /\ step.join = ""

VARIABLES
  def,        \* the definition
  verdict,    \* "new", "search" (for cycles), "rejected" or "accepted"
  stack,      \* the active calls of visit: [id, next], next is the edge to follow
  visiting,
  visited,
  content,    \* the instance the machine walks
  trail       \* the steps it has run

validatorVars == <<def, verdict, stack, visiting, visited, content, trail>>

NoRetry == [maxRetries |-> 0, initial |-> Unset, max |-> Unset, multiplier |-> 0]

steps == def.steps

ids == {steps[n].id : n \in DOMAIN steps}

\* The definition as the engine sees it.  A negative max_retries, which only a join may
\* carry, is compared like 0.
Stored ==
  [n \in DOMAIN steps |->
     [id |-> steps[n].id, type |-> steps[n].type, next |-> steps[n].next, then |-> steps[n].then,
      else |-> steps[n].else, branches |-> steps[n].branches, join |-> steps[n].join,
      onFailure |-> steps[n].onFailure,
      maxRetries |-> IF steps[n].retry.maxRetries < 0 THEN 0 ELSE steps[n].retry.maxRetries]]

M == INSTANCE Instance WITH Steps <- Stored

-----------------------------------------------------------------------------
(* Validate, up to the cycle search *)

validateRetry(r) ==
  r.maxRetries >= 0 /\ r.initial # Invalid /\ r.max # Invalid /\ r.multiplier >= 0

\* A join is accepted as it is.
validateStep(step) ==
  \/ step.type = "join"
  \/ /\ step.type \in M!StepTypes
     /\ step.config
     /\ step.type = "fork" => step.branches # <<>> /\ IsInjective(step.branches)
     /\ validateRetry(step.retry)

UniqueIds ==
  /\ M!NoStep \notin ids
  /\ \A m, n \in DOMAIN steps : steps[m].id = steps[n].id => m = n

firstJoinAfter(n) ==
  LET later == {m \in DOMAIN steps : m > n /\ steps[m].type = "join"}
  IN  IF later = {} THEN M!NoStep ELSE steps[Min(later)].id

joinStepID(n) == IF steps[n].join # M!NoStep THEN steps[n].join ELSE firstJoinAfter(n)

\* A reference that the config has is appended.
appended(ref) == IF ref = M!NoStep THEN <<>> ELSE <<ref>>

explicitRefs(step) ==
  appended(step.next) \o
    CASE step.type = "condition" -> appended(step.then) \o appended(step.else)
      [] step.type = "fork"      -> step.branches \o appended(step.join)
      [] OTHER                   -> <<>>

\* Mutant: a fork without a join is accepted.
ReferencesValidWithoutJoin ==
  \A n \in DOMAIN steps : ToSet(explicitRefs(steps[n])) \cup {steps[n].onFailure} \subseteq ids \cup {M!NoStep}

ReferencesValid ==
  \A n \in DOMAIN steps :
    /\ steps[n].onFailure \in ids \cup {M!NoStep}
    /\ steps[n].type = "fork" => joinStepID(n) # M!NoStep
    /\ ToSet(explicitRefs(steps[n])) \subseteq ids

ChecksPass ==
  /\ def.header
  /\ steps # <<>>
  /\ UniqueIds
  /\ \A n \in DOMAIN steps : validateStep(steps[n])
  /\ ReferencesValid

-----------------------------------------------------------------------------
(* validateAcyclic *)

compensation == {steps[n].onFailure : n \in DOMAIN steps} \ {M!NoStep}

\* collectBranchStep: follow next, then and else from the branch's start, up to the join.
collectBranchStep(start, join) ==
  LET refs(n)  == {steps[n].next} \cup
                  IF steps[n].type = "condition" THEN {steps[n].then, steps[n].else} ELSE {}
      grow(S)  == S \cup UNION {refs(n) \ {join, M!NoStep} : n \in {m \in DOMAIN steps : steps[m].id \in S}}
      follow[k \in 0 .. Len(steps)] == IF k = 0 THEN {start} \ {join} ELSE grow(follow[k - 1])
  IN  follow[Len(steps)]

collectForkBranchSteps ==
  UNION {UNION {collectBranchStep(b, joinStepID(n)) : b \in ToSet(steps[n].branches)} :
         n \in {m \in DOMAIN steps : steps[m].type = "fork"}}

normalSteps == {n \in DOMAIN steps : steps[n].id \notin compensation \cup collectForkBranchSteps}

\* Mutant: the step that follows in the list is left out.
edgesWithoutSuccessor(id) ==
  LET own == {n \in normalSteps : steps[n].id = id}
  IN  IF own = {} THEN <<>>
      ELSE explicitRefs(steps[Min(own)]) \o appended(steps[Min(own)].onFailure)

\* The edges of a normal step; all other steps have none.
edges(id) ==
  LET own   == {n \in normalSteps : steps[n].id = id}
      n     == Min(own)
      later == {m \in normalSteps : m > n}
  IN  IF own = {} THEN <<>>
      ELSE (IF later = {} THEN <<>> ELSE <<steps[Min(later)].id>>)
           \o explicitRefs(steps[n])
           \o appended(steps[n].onFailure)

Init ==
  /\ def \in Requests
  /\ verdict = "new"
  /\ stack = <<>>
  /\ visiting = {}
  /\ visited = {}
  /\ content = M!NewRuntimeState("pending")
  /\ trail = <<>>

Check ==
  /\ verdict = "new"
  /\ verdict' = IF ChecksPass THEN "search" ELSE "rejected"
  /\ UNCHANGED <<def, stack, visiting, visited, content, trail>>

\* visit(id) that neither returns at once nor finds a cycle.
Push(calls, id) ==
  /\ stack' = Append(calls, [id |-> id, next |-> 1])
  /\ visiting' = visiting \cup {id}

\* The loop over ids, a map: in any order.
VisitRoot ==
  /\ verdict = "search" /\ stack = <<>>
  /\ \E id \in ids \ visited : Push(<<>>, id)
  /\ UNCHANGED <<def, verdict, visited, content, trail>>

\* The loop over edges[id]: the next call of visit.
VisitNext ==
  LET top  == Last(stack)
      next == edges(top.id)[top.next]
      rest == [stack EXCEPT ![Len(stack)].next = @ + 1]
  IN  /\ verdict = "search" /\ stack # <<>>
      /\ top.next <= Len(edges(top.id))
      /\ \/ /\ next \in visiting
            /\ verdict' = "rejected"
            /\ UNCHANGED <<stack, visiting>>
         \/ /\ next \in visited \ visiting
            /\ stack' = rest
            /\ UNCHANGED <<verdict, visiting>>
         \/ /\ next \notin visited \cup visiting
            /\ Push(rest, next)
            /\ UNCHANGED verdict
      /\ UNCHANGED <<def, visited, content, trail>>

\* Mutant: visiting is not reset.
ReturnStillVisiting ==
  /\ verdict = "search" /\ stack # <<>>
  /\ Last(stack).next > Len(edges(Last(stack).id))
  /\ stack' = Front(stack)
  /\ visited' = visited \cup {Last(stack).id}
  /\ UNCHANGED <<def, verdict, visiting, content, trail>>

Return ==
  /\ verdict = "search" /\ stack # <<>>
  /\ Last(stack).next > Len(edges(Last(stack).id))
  /\ stack' = Front(stack)
  /\ visiting' = visiting \ {Last(stack).id}
  /\ visited' = visited \cup {Last(stack).id}
  /\ UNCHANGED <<def, verdict, content, trail>>

Accept ==
  /\ verdict = "search" /\ stack = <<>> /\ visited = ids
  /\ verdict' = "accepted"
  /\ UNCHANGED <<def, stack, visiting, visited, content, trail>>

-----------------------------------------------------------------------------
(* The walk: Advance of the engine, where every step succeeds *)

Unfinished == verdict = "accepted" /\ content.status \notin M!Terminal

\* What a step may return when it succeeds; a delay does so once its time has come.
Successes(c) ==
  IF M!StepByID(c.cur).type = "delay" THEN {M!Succeeds(M!NoStep)}
  ELSE {out \in M!Execute(c, {}) : out.kind = "success"}

WalkStep ==
  LET started == M!StartStep(content, 1) IN
  /\ Unfinished
  /\ M!StepToRun(content).next # M!NoStep
  /\ Len(trail) < MaxWalk
  /\ \E out \in Successes(started) : content' = M!HandleResult(started, out)
  /\ trail' = Append(trail, started.cur)
  /\ UNCHANGED <<def, verdict, stack, visiting, visited>>

WalkEnds ==
  /\ Unfinished
  /\ M!StepToRun(content).next = M!NoStep
  /\ content' = M!FinishWithoutStep(content)
  /\ UNCHANGED <<def, verdict, stack, visiting, visited, trail>>

Next == Check \/ VisitRoot \/ VisitNext \/ Return \/ Accept \/ WalkStep \/ WalkEnds

Spec == Init /\ [][Next]_validatorVars

-----------------------------------------------------------------------------
\* What the engine assumes of a stored definition (Workflow's StepsAssumption) holds of
\* every definition that Validate accepts.
AcceptedIsWellFormed == verdict = "accepted" => M!WellFormed

\* The search finds a cycle of the edges exactly if there is one, whatever the order in
\* which Go ranges over ids: a set of steps with an edge from each of them back into it.
SearchIsExact ==
  ChecksPass /\ verdict \in {"accepted", "rejected"} =>
    LET successors == [id \in ids |-> ToSet(edges(id))]
        isCyclic   == \E S \in (SUBSET ids) \ {{}} : \A id \in S : successors[id] \cap S # {}
    IN  verdict = "rejected" <=> isCyclic

\* The steps off the normal path: compensations, and the starts and steps of branches (a
\* branch may start at the join of its fork, which collectForkBranchSteps leaves out).
OffPath ==
  M!CompensationRefs \cup M!collectForkBranchSteps
    \cup UNION {ToSet(M!StepByID(f).branches) : f \in M!ForkIds}

\* The machine runs no step of an accepted definition twice as long as it keeps to the
\* normal path, that is before it has run a step of a branch or a compensation.  The
\* validator and machine.go compute the normal path each with code of its own.
RoundsLeaveNormalPath ==
  \A n \in DOMAIN trail :
    (\E m \in 1 .. n - 1 : trail[m] = trail[n]) => \E k \in 1 .. n : trail[k] \in OffPath

\* The first backoff of an accepted policy is positive and at most the policy's maximum.
\* From there every backoff is longer than the one before, until the maximum is reached and
\* kept: as long as the initial interval and the backoff can be doubled in a time.Duration,
\* however large the maximum is and whatever the processor makes of a product out of range.
BackoffGrows ==
  verdict = "accepted" =>
    \A n \in DOMAIN steps : \A outOfRange \in OutOfRange :
      LET r == steps[n].retry
          backoff(k) == BackoffOf(r, k, outOfRange)
      IN  steps[n].type # "join" =>
            /\ backoff(1) \in 1 .. MaxBackoff(r)
            /\ InitialBackoff(r) <= HalfRange =>
                 \A k \in 1 .. MaxAttempts :
                   /\ backoff(k) = MaxBackoff(r) => backoff(k + 1) = MaxBackoff(r)
                   /\ backoff(k) # MaxBackoff(r) /\ backoff(k) \in 1 .. HalfRange =>
                        backoff(k + 1) \in backoff(k) + 1 .. MaxBackoff(r)

\* Every cycle is rejected: in the walk of an accepted definition a step is run at most
\* once by each branch and once outside of the branches.
CyclesAreRejected ==
  LET branches == UNION {{n} \X DOMAIN (steps[n].branches) : n \in DOMAIN steps} IN
    \A id \in ids : Cardinality({n \in DOMAIN trail : trail[n] = id}) <= 1 + Cardinality(branches)

=============================================================================
