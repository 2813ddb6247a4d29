------------------------------ MODULE Workflow ------------------------------
(***************************************************************************)
(* The workflow definition and the runtime state of an instance            *)
(* (internal/workflow/types.go).                                           *)
(*                                                                         *)
(* A definition is the sequence Steps.  Of a step's config only the        *)
(* references that drive the control flow are kept: next, then, else,      *)
(* branches and join.  An absent reference is NoStep, an absent retry      *)
(* policy is maxRetries = 0 (both never retry: attempts start at 1).       *)
(* Outputs, bodies, error texts and timestamps are left out, except for    *)
(* the output field "next_step", which the state machine reads back.       *)
(***************************************************************************)
EXTENDS Integers, SequencesExt

CONSTANT Steps

NoStep == ""

StepTypes == {"http_request", "transform", "delay", "condition", "fork", "join"}

StepIds == {Steps[n].id : n \in DOMAIN Steps}

Refs == StepIds \cup {NoStep}

\* A definition that the machine can walk: unique names, references to steps, forks with
\* branches and a join.
WellFormed ==
  /\ Steps \in Seq([id : StepIds, type : StepTypes, next : Refs, then : Refs, else : Refs,
                    branches : Seq(StepIds), join : Refs, onFailure : Refs, maxRetries : Nat])
  /\ Steps # <<>>
  /\ NoStep \notin StepIds
  /\ \A m, n \in DOMAIN Steps : Steps[m].id = Steps[n].id => m = n
  /\ \A n \in DOMAIN Steps :
       Steps[n].type = "fork" =>
         /\ Steps[n].branches # <<>>
         /\ \/ Steps[n].join # NoStep
            \/ \E m \in DOMAIN Steps : m > n /\ Steps[m].type = "join"

\* Every stored definition was accepted by dsl.Validator; module Validator checks that the
\* definitions it accepts are well formed.
ASSUME StepsAssumption == WellFormed

InstanceStatuses ==
  {"pending", "running", "waiting_timer", "compensating", "completed", "failed"}

Terminal == {"completed", "failed"}

StepByID(id) == Steps[CHOOSE n \in DOMAIN Steps : Steps[n].id = id]

CompensationRefs == {Steps[n].onFailure : n \in DOMAIN Steps} \ {NoStep}

-----------------------------------------------------------------------------
(***************************************************************************)
(* StepState.  A fire time is named by the attempt that computed it, so    *)
(* waiting = 0 is a nil WaitingTime; key = 0 is an empty IdempotencyKey.   *)
(* prev is not stored by the code: it is the WaitingTime that the engine   *)
(* keeps in a local variable (previousStepState) while the step it has     *)
(* just marked running is executed.                                        *)
(***************************************************************************)
StepStatuses == {"", "running", "waiting_timer", "completed", "failed"}

StepState == [status : StepStatuses, attempt : Nat, key : Nat,
              waiting : Nat, prev : Nat, next : Refs]

NoState == [status |-> "", attempt |-> 0, key |-> 0, waiting |-> 0, prev |-> 0, next |-> NoStep]

\* ForkState and BranchState; status "" is a fork that is not in state.Forks.
ForkIds == {Steps[n].id : n \in {m \in DOMAIN Steps : Steps[m].type = "fork"}}

NoFork == [status |-> "", join |-> NoStep, branches |-> <<>>]

ForkState == [status : {"", "running", "completed", "joined", "failed"}, join : Refs,
              branches : Seq([cur : Refs, status : {"pending", "running", "completed", "failed"}])]

\* The columns status and current_step_id of an instance row, and its RuntimeState.
Content == [status : InstanceStatuses \cup {"absent"}, cur : Refs, steps : [StepIds -> StepState],
            completed : Seq(StepIds), queue : Seq(StepIds), forks : [ForkIds -> ForkState]]

\* NewRuntimeState, for an instance with the given status.
NewRuntimeState(status) ==
  [status |-> status, cur |-> NoStep, steps |-> [s \in StepIds |-> NoState],
   completed |-> <<>>, queue |-> <<>>, forks |-> [f \in ForkIds |-> NoFork]]

HasCompleted(c, id) == Contains(c.completed, id)

\* MarkCompleted: the attempt and the key of the running step are kept.
MarkCompleted(c, id, next) ==
  [c EXCEPT !.steps[id] = [@ EXCEPT !.status = "completed", !.waiting = 0, !.prev = 0, !.next = next],
            !.completed = IF HasCompleted(c, id) THEN @ ELSE Append(@, id)]

=============================================================================
