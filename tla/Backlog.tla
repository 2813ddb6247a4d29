------------------------------ MODULE Backlog ------------------------------
(***************************************************************************)
(* The queries with a LIMIT: recovery lists the instances with the oldest  *)
(* updated_at, the timer service claims the timers with the oldest         *)
(* fire_at.  The question is whether a backlog can starve an instance that *)
(* has lost its wake-up, however many others there are and come.           *)
(*                                                                         *)
(* Of an instance only its readiness is kept, and a pass of Advance is one *)
(* step, unless its worker loses the lease meanwhile: then the worker      *)
(* comes back later and deletes a timer row that is no longer its own      *)
(* (engine.go:369).  Module Engine has the details.  A finished instance   *)
(* frees its name for another one.                                         *)
(***************************************************************************)
EXTENDS Integers, SequencesExt

CONSTANTS
  Instances,      \* bound on the unfinished instances
  RecoverLimit,   \* rows per recovery (500 in the code)
  PollLimit,      \* timers per poll (100 in the code)
  MaxLosses       \* bound on the wake-ups and leases lost to faults

ASSUME BacklogAssumption == RecoverLimit \in Nat \ {0} /\ PollLimit \in Nat \ {0} /\ MaxLosses \in Nat

VARIABLES
  state,     \* "absent" (or finished), "ready", "waiting" or "overdue" (its time has come)
  updated,   \* the unfinished instances, in the order of updated_at
  timed,     \* the instances with a timer row that is not due
  due,       \* the instances with a due timer row, in the order of fire_at
  woken,     \* the instances with a message in the stream
  listed,    \* what recovery has listed and not yet enqueued
  leased,    \* the instances whose lease has not been released
  late,      \* the instances that a worker without a lease is still executing a step of
  losses

backlogVars == <<state, updated, timed, due, woken, listed, leased, late, losses>>

Init ==
  /\ state = [i \in Instances |-> "absent"]
  /\ updated = <<>>
  /\ timed = {}
  /\ due = <<>>
  /\ woken = {}
  /\ listed = <<>>
  /\ leased = {}
  /\ late = {}
  /\ losses = 0

\* The wake-ups in S reach the stream, or some are lost on the way to it.
Wake(S) ==
  \/ woken' = woken \cup S /\ UNCHANGED losses
  \/ /\ losses < MaxLosses
     /\ losses' = losses + 1
     /\ \E T \in SUBSET S : T # S /\ woken' = woken \cup T

\* An id is used once: its name is free when nothing refers to the finished instance.
Create(i) ==
  /\ state[i] = "absent"
  /\ i \notin woken \cup leased \cup late \cup ToSet(listed) \cup ToSet(due)
  /\ state' = [state EXCEPT ![i] = "ready"]
  /\ updated' = Append(updated, i)
  /\ Wake({i})
  /\ UNCHANGED <<timed, due, listed, leased, late>>

\* Woken before its time: the timer row is stored again; updated_at is not changed.
ensureWaitingTimer(i) ==
  /\ state[i] = "waiting"
  /\ timed' = timed \cup {i}
  /\ due' = Remove(due, i)
  /\ woken' = woken \ {i}
  /\ UNCHANGED <<state, updated, leased, losses>>

\* The timer row of i is cleared if its step succeeded; a failure leaves it.
ClearTimer(i) ==
  /\ timed' = timed \ {i}
  /\ due' \in {Remove(due, i), due}

\* The instance is updated, but the next wake-up finds its lease still there: the process
\* has ended, the release has failed or it comes later.  The message stays in the stream.
KeepLease(i) ==
  /\ losses < MaxLosses
  /\ losses' = losses + 1
  /\ leased' = leased \cup {i}
  /\ UNCHANGED woken

\* A step is executed and the instance updated; the next wake-up is a message.
AdvanceOn(i) ==
  /\ state' = [state EXCEPT ![i] = "ready"]
  /\ updated' = Append(Remove(updated, i), i)
  /\ ClearTimer(i)
  /\ KeepLease(i) \/ UNCHANGED <<woken, leased, losses>>

\* The step waits: the next wake-up is a timer, the row of which a process that ends does
\* not store.
AdvanceToWait(i) ==
  /\ state' = [state EXCEPT ![i] = "waiting"]
  /\ updated' = Append(Remove(updated, i), i)
  /\ \/ /\ timed' = timed \cup {i} /\ due' = Remove(due, i)
        /\ woken' = woken \ {i}
        /\ UNCHANGED <<leased, losses>>
     \/ KeepLease(i) /\ UNCHANGED <<timed, due>>

AdvanceToEnd(i) ==
  /\ state' = [state EXCEPT ![i] = "absent"]
  /\ updated' = Remove(updated, i)
  /\ ClearTimer(i)
  /\ woken' = woken \ {i}
  /\ UNCHANGED <<leased, losses>>

CanRun(i) == i \in woken \ leased /\ state[i] \in {"ready", "overdue"}

Advance(i) ==
  /\ i \in woken \ leased
  /\ \/ ensureWaitingTimer(i)
     \/ CanRun(i) /\ (AdvanceOn(i) \/ AdvanceToWait(i) \/ AdvanceToEnd(i))
  /\ UNCHANGED <<listed, late>>

\* A worker executes a step for longer than its lease; the message is another worker's now.
Overrun(i) ==
  /\ CanRun(i)
  /\ losses < MaxLosses
  /\ losses' = losses + 1
  /\ late' = late \cup {i}
  /\ UNCHANGED <<state, updated, timed, due, woken, listed, leased>>

\* It clears the timer of the instance, whoever has stored it, and its update conflicts.
LateClear(i) ==
  /\ i \in late
  /\ timed' = timed \ {i}
  /\ due' = Remove(due, i)
  /\ late' = late \ {i}
  /\ UNCHANGED <<state, updated, woken, listed, leased, losses>>

\* A message for an instance that is over, or busy, is acknowledged.
Discard(i) ==
  /\ i \in woken
  /\ state[i] = "absent" \/ i \in leased
  /\ woken' = woken \ {i}
  /\ UNCHANGED <<state, updated, timed, due, listed, leased, late, losses>>

\* A lease is released late, or expires.
Expire(i) ==
  /\ i \in leased
  /\ leased' = leased \ {i}
  /\ UNCHANGED <<state, updated, timed, due, woken, listed, late, losses>>

\* The fire time of i comes.
Elapse(i) ==
  /\ state[i] = "waiting"
  /\ state' = [state EXCEPT ![i] = "overdue"]
  /\ timed' = timed \ {i}
  /\ due' = IF i \in timed THEN Append(due, i) ELSE due
  /\ UNCHANGED <<updated, woken, listed, leased, late, losses>>

Take(queue, n) == SubSeq(queue, 1, IF n < Len(queue) THEN n ELSE Len(queue))

\* poll: the rows are deleted, and then enqueued.
Poll ==
  LET claimed == ToSet(Take(due, PollLimit)) IN
  /\ due # <<>>
  /\ due' = SelectSeq(due, LAMBDA i : i \notin claimed)
  /\ Wake(claimed)
  /\ UNCHANGED <<state, updated, timed, listed, leased, late>>

\* The instances that are over are not in updated, those with a lease are left out.
recoverable == SelectSeq(updated, LAMBDA i : i \notin leased)

\* Mutant: newest first.
ListNewest == Take(Reverse(recoverable), RecoverLimit)

ListRecoverableInstances == Take(recoverable, RecoverLimit)

RecoverList ==
  /\ listed = <<>>
  /\ listed' = ListRecoverableInstances
  /\ listed' # <<>>
  /\ UNCHANGED <<state, updated, timed, due, woken, leased, late, losses>>

\* Enqueue the next of the list, or give the list up.
RecoverEnqueue ==
  /\ listed # <<>>
  /\ \/ /\ woken' = woken \cup {Head(listed)}
        /\ listed' = Tail(listed)
        /\ UNCHANGED losses
     \/ /\ losses < MaxLosses
        /\ losses' = losses + 1
        /\ listed' = <<>>
        /\ UNCHANGED woken
  /\ UNCHANGED <<state, updated, timed, due, leased, late>>

Next ==
  \/ \E i \in Instances : \/ Create(i) \/ Advance(i) \/ Discard(i) \/ Elapse(i)
                          \/ Overrun(i) \/ LateClear(i) \/ Expire(i)
  \/ Poll \/ RecoverList \/ RecoverEnqueue

\* Workers and loops keep running, leases expire and time passes; clients owe nothing.
Spec ==
  /\ Init /\ [][Next]_backlogVars
  /\ \A i \in Instances : /\ WF_backlogVars(Advance(i) \/ Discard(i))
                          /\ WF_backlogVars(Elapse(i)) /\ WF_backlogVars(Expire(i))
  /\ WF_backlogVars(Poll) /\ WF_backlogVars(RecoverList) /\ WF_backlogVars(RecoverEnqueue)

-----------------------------------------------------------------------------
\* No instance starves: one that is not over comes to a message with which a worker can run
\* its next step, again and again until it is over, even if its own wake-up was lost, a
\* worker without a lease has deleted its timer, its lease was left behind, and the limits
\* are smaller than the backlog.
NoStarvation == \A i \in Instances : state[i] # "absent" ~> CanRun(i) \/ state[i] = "absent"

=============================================================================
