---------------------------- MODULE MCValidator ----------------------------
(***************************************************************************)
(* Definitions to validate: all those of three steps over small sets of    *)
(* references, the ones of a fork with two branches and a join, one of     *)
(* every kind of error, and single steps with the retry policies whose     *)
(* backoff rounds, overflows or is at its limit.                           *)
(***************************************************************************)
EXTENDS Validator

Plain(id, type) ==
  [id |-> id, type |-> type, next |-> "", then |-> "", else |-> "", branches |-> <<>>,
   join |-> "", onFailure |-> "", config |-> TRUE, retry |-> NoRetry]

Request(list) == [header |-> TRUE, steps |-> list]

\* The steps named id that may occur in a definition of the steps a, b and c.
Variants(id) ==
  LET any == {"", "a", "b", "c"} IN
    {[Plain(id, "transform") EXCEPT !.next = n, !.onFailure = f] : n \in any, f \in {"", "c"}}
    \cup {[Plain(id, "condition") EXCEPT !.then = t, !.else = e] : t \in any, e \in {"", "c"}}
    \cup {[Plain(id, "fork") EXCEPT !.branches = b, !.join = j] :
            b \in {<<"a">>, <<"b">>, <<"b", "c">>}, j \in {"", "c"}}
    \cup {[Plain(id, "join") EXCEPT !.next = n] : n \in {"", "a", "c"}}

ThreeSteps == {Request(<<s, t, u>>) : s \in Variants("a"), t \in Variants("b"), u \in Variants("c")}

\* The branches a and b may share steps, nest, and leave the fork by d or by the join j.
Forked ==
  LET branch(id) == {[Plain(id, "transform") EXCEPT !.next = n] : n \in {"", "a", "b", "d", "j"}}
                    \cup {[Plain(id, "condition") EXCEPT !.then = "d", !.else = e] : e \in {"", "j"}}
  IN  {Request(<<[Plain("f", "fork") EXCEPT !.branches = <<"a", "b">>], s, t, Plain("j", "join"), u>>) :
         s \in branch("a"), t \in branch("b"),
         u \in {Plain("d", "transform"), Plain("d", "delay"), [Plain("d", "condition") EXCEPT !.then = "a"],
                [Plain("d", "transform") EXCEPT !.onFailure = "b"]}}

Erroneous ==
  LET good == Plain("a", "transform") IN
  { [header |-> FALSE, steps |-> <<good>>],
    Request(<<>>),
    Request(<<Plain("", "transform")>>),
    Request(<<good, Plain("a", "join")>>),
    Request(<<Plain("a", "script")>>),
    Request(<<[good EXCEPT !.config = FALSE]>>),
    Request(<<[good EXCEPT !.next = "x"]>>),
    Request(<<[good EXCEPT !.onFailure = "x"]>>),
    Request(<<[Plain("f", "fork") EXCEPT !.branches = <<"a">>], good>>),
    Request(<<Plain("f", "fork"), Plain("j", "join")>>),
    Request(<<[Plain("f", "fork") EXCEPT !.branches = <<"a", "a">>], good, Plain("j", "join")>>),
    Request(<<[Plain("j", "join") EXCEPT !.retry.maxRetries = -1]>>) }

Policies ==
  [maxRetries : {-1, 0, 3}, initial : {Invalid, Unset, 1, 3, HalfRange, MaxDuration},
   max : {Invalid, Unset, 2, 7, HalfRange, MaxDuration}, multiplier : {-2, 0, 1, 2, 3, 5, 2^Width}]

Retried == {Request(<<[Plain("a", "http_request") EXCEPT !.retry = r]>>) : r \in Policies}

MCRequests == ThreeSteps \cup Forked \cup Erroneous \cup Retried

=============================================================================
