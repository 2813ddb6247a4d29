----------------------------- MODULE MCExecution -----------------------------
(* Instances of Execution for TLC. *)
EXTENDS Execution, Definitions

\* The definitions of these runs meet the hypotheses of the theorems about sagas, forks and
\* repetitions, except for the one whose forks are nested, which ExecutionNestedFork is about.
ASSUME ApartAssumption == CompensationsApart
ASSUME ForksAssumption == Steps # NestedForkSteps => ForksUnnested /\ JoinsGuarded /\ StepsInOrder
=============================================================================
