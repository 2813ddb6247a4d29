---------------------------- MODULE TimerService ----------------------------
(***************************************************************************)
(* The durable timers (internal/timer/timer.go): a row in table timers and *)
(* a Redis key whose expiry is published to every process.  Each process   *)
(* runs one agent: Run's loop, which fires a timer on a notification, and  *)
(* polls the table for due timers.  Schedule and Clear are called by the   *)
(* engine's workers, one store call at a time, in module Engine.           *)
(***************************************************************************)
EXTENDS Postgres, Stream

CONSTANT Agents

VARIABLES
  past,    \* past[i]: the fire times <<step, attempt>> of i that the clock has reached
  rkey,    \* the instances with a Redis timer key
  notif,   \* expiry notifications not yet delivered: pairs <<agent, instance>>
  agent    \* agent[a] = [stage, cur, todo]

timerVars == <<rkey, notif, agent>>

IdleAgent == [stage |-> "idle", cur |-> NoInst, todo |-> {}]

TimerInit ==
  /\ past = [i \in Instances |-> {}]
  /\ rkey = {}
  /\ notif = {}
  /\ agent = [a \in Agents |-> IdleAgent]

TimerTypeOK ==
  /\ past \in [Instances -> SUBSET (StepIds \X Nat)]
  /\ rkey \subseteq Instances
  /\ notif \subseteq Agents \X Instances
  /\ agent \in [Agents -> [stage : {"idle", "clear", "clearOnly", "enqueue"},
                           cur : Instances \cup {NoInst}, todo : SUBSET Instances]]

\* The two Redis commands of Schedule, Clear and fire.
SetKey(i) == rkey' = rkey \cup {i}

ClearKey(i) == rkey' = rkey \ {i}

\* The key of i expires.  Redis counts the time to live in milliseconds of its own clock,
\* so this may come before the row's fire_at; publication is fire-and-forget, so any
\* agent may miss it.
KeyExpires(i) ==
  /\ i \in rkey
  /\ rkey' = rkey \ {i}
  /\ \E told \in SUBSET Agents : notif' = notif \cup (told \X {i})
  /\ UNCHANGED <<dbVars, past, agent, stream, batch>>

-----------------------------------------------------------------------------
\* poll: claim the due timers; each is then cleared and enqueued in turn.
Poll(a) ==
  /\ agent[a].stage = "idle"
  /\ \E claimed \in SUBSET DueTimers(past) : \E i \in claimed :
       /\ ClaimDueTimers(claimed, past)
       /\ agent' = [agent EXCEPT ![a] = [stage |-> "clear", cur |-> i, todo |-> claimed \ {i}]]
  /\ UNCHANGED <<rows, history, past, rkey, notif, stream, batch>>

\* A notification reaches fire: the row is deleted, due or not.
Notified(a) ==
  /\ agent[a].stage = "idle"
  /\ \E i \in Instances : \E ok \in BOOLEAN :
       /\ <<a, i>> \in notif
       /\ notif' = notif \ {<<a, i>>}
       /\ FireTimer(i, ok)
       /\ agent' = [agent EXCEPT ![a] = [stage |-> IF ok THEN "clear" ELSE "clearOnly",
                                         cur |-> i, todo |-> {}]]
  /\ UNCHANGED <<rows, history, past, rkey, stream, batch>>

\* clearRedisKey, in poll and in fire.
AgentClearKey(a) ==
  /\ agent[a].stage \in {"clear", "clearOnly"}
  /\ ClearKey(agent[a].cur)
  /\ agent' = [agent EXCEPT ![a] = IF @.stage = "clear" THEN [@ EXCEPT !.stage = "enqueue"]
                                   ELSE IdleAgent]
  /\ UNCHANGED <<dbVars, past, notif, stream, batch>>

\* enqueue, then the next of the claimed timers.
AgentEnqueue(a) ==
  /\ agent[a].stage = "enqueue"
  /\ XAdd(agent[a].cur)
  /\ IF agent[a].todo = {}
     THEN agent' = [agent EXCEPT ![a] = IdleAgent]
     ELSE \E i \in agent[a].todo :
            agent' = [agent EXCEPT ![a] = [stage |-> "clear", cur |-> i, todo |-> @.todo \ {i}]]
  /\ UNCHANGED <<dbVars, past, rkey, notif, batch>>

\* A store call fails, or the process dies: the timers claimed and not yet enqueued are dropped.
AgentFails(a) ==
  /\ agent[a].stage # "idle"
  /\ agent' = [agent EXCEPT ![a] = IdleAgent]
  /\ UNCHANGED <<dbVars, past, rkey, notif, stream, batch>>

=============================================================================
