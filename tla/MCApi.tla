------------------------------- MODULE MCApi -------------------------------
(* An instance of Api for TLC. *)
EXTENDS Api, Definitions

CONSTANTS i1, w1, m1, r1

\* An administrator, an operator of another tenant, a second entry for the same token,
\* which is never reached, and an entry without a token, which is ignored.
MCKeys == <<
  [token |-> "k1", tenant |-> "blue", role |-> ""],
  [token |-> "k2", tenant |-> "red", role |-> "operator"],
  [token |-> "k2", tenant |-> "red", role |-> "admin"],
  [token |-> "", tenant |-> "red", role |-> "admin"] >>

=============================================================================
