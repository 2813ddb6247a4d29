------------------------------ MODULE Postgres ------------------------------
(***************************************************************************)
(* The PostgreSQL repository (internal/store/postgres.go): the tables      *)
(* instances, execution_history and timers, and one operator per statement *)
(* the engine and the timer service execute.  A statement is atomic.       *)
(***************************************************************************)
EXTENDS Instance

CONSTANTS
  Instances,   \* rows of table instances that may be created
  Workers      \* consumer goroutines, over all processes

VARIABLES
  rows,      \* rows[i] = [inst, version, lockedBy, live]
  history,   \* the rows of execution_history
  timers     \* timers[i]: the timer row of instance i (its primary key), or NoTimer

dbVars == <<rows, history, timers>>

Absent == NewRuntimeState("absent")

(***************************************************************************)
(* locked_by holds an owner name that is new for every claim.  lockedBy    *)
(* names the worker while that worker still uses the name, and is Orphan   *)
(* once it no longer does but the lease was not given back (the worker     *)
(* crashed, the release failed, or the claim's reply was lost).            *)
(* live is locked_until > now().                                           *)
(***************************************************************************)
Nobody == "nobody"
Orphan == "orphan"

ASSUME WorkersAssumption == Nobody \notin Workers /\ Orphan \notin Workers

NoTimer == [step |-> NoStep, fireAt |-> 0]

HistoryRow == [inst : Instances, step : StepIds, attempt : Nat,
               status : {"running", "success", "waiting_timer", "failed", "compensated"}]

DBInit ==
  /\ rows = [i \in Instances |-> [inst |-> Absent, version |-> 0, lockedBy |-> Nobody, live |-> FALSE]]
  /\ history = {}
  /\ timers = [i \in Instances |-> NoTimer]

DBTypeOK ==
  /\ rows \in [Instances -> [inst : Content, version : Nat,
                             lockedBy : Workers \cup {Nobody, Orphan}, live : BOOLEAN]]
  /\ history \subseteq HistoryRow
  /\ timers \in [Instances -> [step : Refs, fireAt : Nat]]

-----------------------------------------------------------------------------
\* The column version starts at 0; it is counted from 1 here, so that 0 is "no row".
Exists(i) == rows[i].version # 0

Active(i) == Exists(i) /\ rows[i].inst.status \notin Terminal

CreateInstance(i) ==
  /\ ~ Exists(i)
  /\ rows' = [rows EXCEPT ![i].inst = NewRuntimeState("pending"), ![i].version = 1]

\* The claim's WHERE clause.  An orphaned lease is also granted to a restarted process
\* that draws the same owner name again (host, pid and a sequence that restarts at 1).
Claimable(i) == Active(i) /\ (~ rows[i].live \/ rows[i].lockedBy = Orphan)

\* ErrInstanceBusy: the instance is over, or its lease is held under another name.
InstanceBusy(i) == ~ Active(i) \/ rows[i].live

ClaimInstance(i, owner) ==
  /\ Claimable(i)
  /\ rows' = [rows EXCEPT ![i].lockedBy = owner, ![i].live = TRUE]

\* Mutant: the owner is not checked.
ReleaseAnyInstance(i, owner) == rows' = [rows EXCEPT ![i].lockedBy = Nobody, ![i].live = FALSE]

ReleaseInstance(i, owner) ==
  rows' = IF rows[i].lockedBy = owner
          THEN [rows EXCEPT ![i].lockedBy = Nobody, ![i].live = FALSE]
          ELSE rows

\* owner is no longer in use: what it still locks becomes an orphan.
Abandoned(owner) ==
  [i \in Instances |-> IF rows[i].lockedBy = owner THEN [rows[i] EXCEPT !.lockedBy = Orphan]
                       ELSE rows[i]]

\* The clock passes locked_until.
LeaseExpires(i) ==
  /\ rows[i].live
  /\ rows' = [rows EXCEPT ![i].live = FALSE]

\* Mutant: the version is not checked.
AnyVersionMatches(i, expectedVersion) == TRUE

\* The statement matches a row: WHERE id = i AND version = expectedVersion.
VersionMatches(i, expectedVersion) == rows[i].version = expectedVersion

\* Mutant: the version is not incremented.
UpdateInstanceSameVersion(i, inst, expectedVersion) ==
  /\ VersionMatches(i, expectedVersion)
  /\ rows' = [rows EXCEPT ![i].inst = inst]

UpdateInstance(i, inst, expectedVersion) ==
  /\ VersionMatches(i, expectedVersion)
  /\ rows' = [rows EXCEPT ![i].inst = inst, ![i].version = rows[i].version + 1]

\* Mutants: what README.md says of the recovery loop; and without the waiting instances.
ListRunningAndWaiting ==
  {i \in Instances : rows[i].inst.status \in {"running", "waiting_timer"} /\ ~ rows[i].live}

ListNotWaiting ==
  {i \in Instances : rows[i].inst.status \in {"pending", "running", "compensating"} /\ ~ rows[i].live}

\* The LIMIT (500) is taken to exceed the number of instances.
ListRecoverableInstances ==
  {i \in Instances : /\ rows[i].inst.status \in {"pending", "running", "waiting_timer", "compensating"}
                     /\ ~ rows[i].live}

\* A history row is identified by the attempt it records.
AppendHistory(i, step, attempt) ==
  history' = history \cup {[inst |-> i, step |-> step, attempt |-> attempt, status |-> "running"]}

\* The row AppendHistory has inserted; no such row would be an error (RowsAffected).
CompleteHistory(i, step, attempt, status) ==
  LET row == [inst |-> i, step |-> step, attempt |-> attempt, status |-> "running"]
  IN  /\ row \in history
      /\ history' = (history \ {row}) \cup {[row EXCEPT !.status = status]}

-----------------------------------------------------------------------------
UpsertTimer(i, step, fireAt) == timers' = [timers EXCEPT ![i] = [step |-> step, fireAt |-> fireAt]]

DeleteTimer(i) == timers' = [timers EXCEPT ![i] = NoTimer]

\* FireTimer deletes the row whatever its fire_at; ok tells whether there was one.
FireTimer(i, ok) ==
  /\ ok = (timers[i] # NoTimer)
  /\ timers' = [timers EXCEPT ![i] = NoTimer]

DueTimers(past) ==
  {i \in Instances : timers[i] # NoTimer /\ <<timers[i].step, timers[i].fireAt>> \in past[i]}

\* The LIMIT (100) may leave some of the due timers for the next poll.
ClaimDueTimers(claimed, past) ==
  /\ claimed # {} /\ claimed \subseteq DueTimers(past)
  /\ timers' = [i \in Instances |-> IF i \in claimed THEN NoTimer ELSE timers[i]]

=============================================================================
