----------------------------- MODULE Definitions -----------------------------
(***************************************************************************)
(* Workflow definitions for the model-checking runs, after the examples of *)
(* the repository's README and tests.                                      *)
(***************************************************************************)
EXTENDS Sequences

Plain(id, type) ==
  [id |-> id, type |-> type, next |-> "", then |-> "", else |-> "",
   branches |-> <<>>, join |-> "", onFailure |-> "", maxRetries |-> 0]

\* The README's saga, a call with a retry and a compensation, and then a fork: its two
\* branches end in the same step, one of them by a condition, and share compensations
\* with the call.  After the join a condition may jump back to that step, which is then
\* already completed.
SagaSteps == <<
  [Plain("reserve", "http_request") EXCEPT !.onFailure = "release", !.maxRetries = 1],
  [Plain("fanout", "fork") EXCEPT !.branches = <<"left", "right">>],
  [Plain("left", "condition") EXCEPT !.then = "audit", !.else = "gather"],
  [Plain("right", "http_request") EXCEPT !.next = "audit", !.onFailure = "refund"],
  [Plain("audit", "http_request") EXCEPT !.onFailure = "release"],
  Plain("release", "http_request"),
  Plain("refund", "http_request"),
  [Plain("gather", "join") EXCEPT !.next = "check"],
  [Plain("check", "condition") EXCEPT !.then = "audit"] >>

\* A fork of one branch, whose call is retried once and has a compensation, and a
\* condition that may jump back to the call.
JumpBackSteps == <<
  [Plain("fanout", "fork") EXCEPT !.branches = <<"call">>],
  [Plain("call", "http_request") EXCEPT !.onFailure = "undo", !.maxRetries = 1],
  Plain("undo", "http_request"),
  Plain("gather", "join"),
  [Plain("check", "condition") EXCEPT !.then = "call"] >>

\* A fork inside a branch of another one.
NestedForkSteps == <<
  [Plain("outer", "fork") EXCEPT !.branches = <<"inner", "second">>, !.join = "joinOuter"],
  [Plain("inner", "fork") EXCEPT !.branches = <<"first">>, !.join = "joinInner"],
  Plain("first", "transform"),
  Plain("joinInner", "join"),
  Plain("second", "transform"),
  Plain("joinOuter", "join") >>

\* Two calls, one after the other.
TwoCallSteps == << Plain("first", "http_request"), Plain("second", "http_request") >>

\* A delay.
PauseSteps == << Plain("pause", "delay") >>

\* A call whose compensation is a delay.
DelayedUndoSteps == <<
  [Plain("call", "http_request") EXCEPT !.onFailure = "pause"],
  Plain("pause", "delay") >>

=============================================================================
