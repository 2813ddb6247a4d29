-------------------------------- MODULE Api --------------------------------
(***************************************************************************)
(* One process of the service: the HTTP API (internal/api) with its keys,  *)
(* tenants and definitions, on top of the engine, from start to shutdown   *)
(* (cmd/api/main.go).                                                      *)
(*                                                                         *)
(* Clients send requests in slots.  A request that is refused (no key,     *)
(* role, body or definition) changes nothing and is left out; one that is  *)
(* let in makes its store calls one by one.  All definitions have the      *)
(* steps of the model: a definition is named by its unique index (tenant,  *)
(* name with version).  The workers and agents of module Engine are the    *)
(* goroutines of this process; here they fail together with it, single     *)
(* faults are those of module Engine's own specification.                  *)
(***************************************************************************)
EXTENDS Engine

CONSTANTS
  RawKeys,      \* API_KEYS: [token, tenant, role], "" for a part that is absent
  Names,        \* names (with versions) of definitions
  Slots,        \* bound on concurrent requests
  MaxRestarts   \* bound on the starts of the process after the first

ASSUME RestartsAssumption == MaxRestarts \in Nat

VARIABLES
  defs,      \* table definitions: [tenant, name]
  owner,     \* owner[i]: the columns tenant_id and definition_id of instance i
  req,       \* req[r]: the request in slot r
  proc,      \* "serving", "draining" (after a signal) or "down"
  restarts

apiVars == <<defs, owner, req, proc, restarts>>

serviceVars == <<rows, history, timers, past, rkey, notif, agent, stream, batch,
                 pc, job, recov, api, keySeq, faults, effects,
                 defs, owner, req, proc, restarts>>

-----------------------------------------------------------------------------
(* Keys, tenants and roles *)

\* A role that is absent or unknown is that of an administrator.
normalizeRole(role) == IF role \in {"reader", "operator"} THEN role ELSE "admin"

ParseAPIKeys ==
  LET parse(raw) == [token  |-> raw.token,
                     tenant |-> IF raw.tenant = "" THEN "default" ELSE raw.tenant,
                     role   |-> normalizeRole(raw.role)]
      all        == [n \in DOMAIN RawKeys |-> parse(RawKeys[n])]
  IN  SelectSeq(all, LAMBDA key : key.token # "")

\* The principals a request may act as: that of the first key with its token.
Principals ==
  LET keys     == ParseAPIKeys
      isFirst(n) == \A m \in 1 .. n - 1 : keys[m].token # keys[n].token
  IN  IF keys = <<>> THEN {[tenant |-> "default", role |-> "admin"]}
      ELSE {[tenant |-> keys[n].tenant, role |-> keys[n].role] : n \in {m \in DOMAIN keys : isFirst(m)}}

requireRole(op) ==
  CASE op = "createDefinition" -> {"admin"}
    [] op = "createInstance"   -> {"admin", "operator"}
    [] op = "getInstance"      -> {"admin", "operator", "reader"}

Tenants == {p.tenant : p \in Principals}

Definition == [tenant : Tenants, name : Names]

NoDefinition == [tenant |-> "", name |-> ""]

\* A request: who sent it, its stage, the definition or the instance it is about, and what
\* getInstance has read: the completed steps of the row, and those of the history.
Request(stage, tenant, def, inst) ==
  [stage |-> stage, tenant |-> tenant, def |-> def, inst |-> inst,
   reads |-> 0, completed |-> {}, recorded |-> {}]

Idle == Request("idle", "", NoDefinition, NoInst)

ServiceInit ==
  /\ Init
  /\ defs = {}
  /\ owner = [i \in Instances |-> [tenant |-> "", def |-> NoDefinition]]
  /\ req = [r \in Slots |-> Idle]
  /\ proc = "serving"
  /\ restarts = 0

ServiceTypeOK ==
  /\ TypeOK
  /\ defs \subseteq Definition
  /\ owner \in [Instances -> [tenant : Tenants \cup {""}, def : Definition \cup {NoDefinition}]]
  /\ req \in [Slots -> [stage : {"idle", "define", "load", "insert", "enqueue", "read", "answered"},
                        tenant : Tenants \cup {""}, def : Definition \cup {NoDefinition},
                        inst : Instances \cup {NoInst}, reads : 0 .. 2,
                        completed : SUBSET StepIds, recorded : SUBSET StepIds]]
  /\ proc \in {"serving", "draining", "down"}
  /\ restarts \in 0 .. MaxRestarts

-----------------------------------------------------------------------------
(* The handlers *)

Admit(r, op, tenant, request) ==
  /\ proc = "serving"
  /\ req[r].stage \in {"idle", "answered"}
  /\ \E p \in Principals : p.tenant = tenant /\ p.role \in requireRole(op)
  /\ req' = [req EXCEPT ![r] = request]
  /\ UNCHANGED <<vars, defs, owner, proc, restarts>>

\* Decoded and valid (module Validator); the tenant is the principal's, not the client's.
AdmitDefinition(r) ==
  \E d \in Definition :
    Admit(r, "createDefinition", d.tenant, Request("define", d.tenant, d, NoInst))

AdmitInstance(r) ==
  \E t \in Tenants : \E d \in defs :
    Admit(r, "createInstance", t, Request("load", t, d, NoInst))

AdmitRead(r) ==
  \E t \in Tenants : \E i \in Instances :
    /\ Exists(i)
    /\ Admit(r, "getInstance", t, Request("read", t, NoDefinition, i))

\* The insert fails on the unique index if the tenant has the name already.
CreateDefinition(r) ==
  /\ req[r].stage = "define"
  /\ defs' = defs \cup {req[r].def}
  /\ req' = [req EXCEPT ![r] = Idle]
  /\ UNCHANGED <<vars, owner, proc, restarts>>

\* Mutant: by the identifier alone, as the query that is not for a tenant does.
GetDefinition(tenant, d) == d \in defs

GetDefinitionForTenant(tenant, d) == d \in defs /\ d.tenant = tenant

GetInstanceForTenant(tenant, i) == Exists(i) /\ owner[i].tenant = tenant

\* Not found: the request is answered and leaves no trace.
LoadDefinition(r) ==
  /\ req[r].stage = "load"
  /\ req' = [req EXCEPT ![r] = IF GetDefinitionForTenant(@.tenant, @.def) THEN [@ EXCEPT !.stage = "insert"]
                               ELSE Idle]
  /\ UNCHANGED <<vars, defs, owner, proc, restarts>>

InsertInstance(r) ==
  /\ req[r].stage = "insert"
  /\ \E i \in Instances :
       /\ ApiCreate(i)
       /\ owner' = [owner EXCEPT ![i] = [tenant |-> req[r].tenant, def |-> req[r].def]]
       /\ req' = [req EXCEPT ![r].stage = "enqueue", ![r].inst = i]
  /\ UNCHANGED <<defs, proc, restarts>>

\* The model has no identifier left for another instance.
InsertRefused(r) ==
  /\ req[r].stage = "insert"
  /\ \A i \in Instances : Exists(i)
  /\ req' = [req EXCEPT ![r] = Idle]
  /\ UNCHANGED <<vars, defs, owner, proc, restarts>>

\* The client gets an error if the stream refuses the message; the row stays.
EnqueueInstance(r) ==
  /\ req[r].stage = "enqueue"
  /\ \/ ApiEnqueue(req[r].inst)
     \/ /\ FreeSlots = {}
        /\ api' = api \ {req[r].inst}
        /\ UNCHANGED <<dbVars, past, timerVars, stream, batch, pc, job, recov, keySeq, faults, effects>>
  /\ req' = [req EXCEPT ![r] = Idle]
  /\ UNCHANGED <<defs, owner, proc, restarts>>

\* Mutant: the history first.
ReadsSwapped == <<"history", "row">>

\* The two queries of getInstance, in the order in which they are made.
Reads == <<"row", "history">>

\* Mutant: the wrong column is read.
RecordedStatuses(i) == {h.status : h \in {g \in history : g.inst = i /\ g.status \in {"success", "compensated"}}}

RecordedSteps(i) == {h.step : h \in {g \in history : g.inst = i /\ g.status \in {"success", "compensated"}}}

ReadInstance(r) ==
  LET q    == req[r]
      step == Reads[q.reads + 1]
  IN  /\ q.stage = "read"
      /\ req' = [req EXCEPT ![r] =
                   IF ~ GetInstanceForTenant(q.tenant, q.inst) THEN Idle
                   ELSE [q EXCEPT !.reads = q.reads + 1,
                                  !.stage = IF q.reads + 1 = Len(Reads) THEN "answered" ELSE "read",
                                  !.completed = IF step = "row" THEN ToSet(rows[q.inst].inst.completed)
                                                ELSE q.completed,
                                  !.recorded = IF step = "history" THEN RecordedSteps(q.inst)
                                               ELSE q.recorded]]
      /\ UNCHANGED <<vars, defs, owner, proc, restarts>>

Handle(r) ==
  \/ CreateDefinition(r) \/ LoadDefinition(r) \/ InsertInstance(r) \/ InsertRefused(r)
  \/ EnqueueInstance(r) \/ ReadInstance(r)

-----------------------------------------------------------------------------
(* The process *)

\* A signal cancels rootCtx: the server admits no more requests, the agents and the
\* recovery loop stop, and every further store call of a worker fails.
Signal ==
  /\ proc = "serving" /\ restarts < MaxRestarts
  /\ proc' = "draining"
  /\ agent' = [a \in Agents |-> IdleAgent]
  /\ notif' = {}
  /\ recov' = {}
  /\ UNCHANGED <<dbVars, past, rkey, stream, batch, pc, job, api, keySeq, faults, effects,
                 defs, owner, req, restarts>>

\* Advance returns the error, and its deferred release, which has a context of its own,
\* gives the lease back.
Unwind(w) ==
  /\ proc = "draining"
  /\ w \in Holding
  /\ ReleaseInstance(Id(w), w)
  /\ NextMessage(w)
  /\ UNCHANGED <<history, timers, past, timerVars, stream, recov, api, keySeq, faults, effects, apiVars>>

\* run returns: the server has been shut down, or gave up waiting for its requests, or one
\* of its parts failed.  It does not wait for the engine: what is in flight is cut off.
Exit ==
  /\ proc = "draining" \/ (proc = "serving" /\ restarts < MaxRestarts)
  /\ proc' = "down"
  /\ rows' = [i \in Instances |-> IF rows[i].lockedBy \in Workers THEN [rows[i] EXCEPT !.lockedBy = Orphan]
                                  ELSE rows[i]]
  /\ pc' = [w \in Workers |-> "idle"]
  /\ job' = [w \in Workers |-> NoJob]
  /\ batch' = [w \in Workers |-> {}]
  /\ agent' = [a \in Agents |-> IdleAgent]
  /\ notif' = {}
  /\ recov' = {}
  /\ api' = {}
  /\ req' = [r \in Slots |-> IF req[r].stage = "answered" THEN req[r] ELSE Idle]
  /\ UNCHANGED <<history, timers, past, rkey, stream, keySeq, faults, effects, defs, owner, restarts>>

Start ==
  /\ proc = "down"
  /\ proc' = "serving"
  /\ restarts' = restarts + 1
  /\ UNCHANGED <<vars, defs, owner, req>>

-----------------------------------------------------------------------------
Work(w) == proc = "serving" /\ WorkerStep(w) /\ UNCHANGED apiVars

Receive(w) == proc = "serving" /\ (Consume(w) \/ ReclaimPending(w)) /\ UNCHANGED apiVars

Tick(a) == proc = "serving" /\ AgentStep(a) /\ UNCHANGED apiVars

Recover == proc = "serving" /\ (RecoverList \/ RecoverEnqueue) /\ UNCHANGED apiVars

\* The clock, Redis and the leases do not depend on the process, but nobody hears of a key
\* that expires while it is down.
Time(i) ==
  /\ \/ Elapse(i) \/ OrphanExpires(i)
     \/ KeyExpiry(i) /\ (proc # "serving" => notif' = notif)
  /\ UNCHANGED apiVars

\* Clients are gone and every instance is over.
Rest == Done /\ UNCHANGED apiVars

ServiceNext ==
  \/ \E r \in Slots : AdmitDefinition(r) \/ AdmitInstance(r) \/ AdmitRead(r) \/ Handle(r)
  \/ \E w \in Workers : Work(w) \/ Receive(w) \/ Unwind(w)
  \/ \E a \in Agents : Tick(a)
  \/ Recover
  \/ \E i \in Instances : Time(i)
  \/ Signal \/ Exit \/ Start \/ Rest

ServiceFairness ==
  /\ \A w \in Workers : WF_serviceVars(Work(w)) /\ WF_serviceVars(Receive(w))
  /\ \A a \in Agents : WF_serviceVars(Tick(a))
  /\ WF_serviceVars(proc = "serving" /\ RecoverList /\ UNCHANGED apiVars)
  /\ WF_serviceVars(proc = "serving" /\ RecoverEnqueue /\ UNCHANGED apiVars)
  /\ \A r \in Slots : WF_serviceVars(Handle(r))
  /\ \A i \in Instances : /\ WF_serviceVars(Elapse(i) /\ UNCHANGED apiVars)
                          /\ WF_serviceVars(OrphanExpires(i) /\ UNCHANGED apiVars)

ServiceSpec == ServiceInit /\ [][ServiceNext]_serviceVars /\ ServiceFairness

-----------------------------------------------------------------------------
(* Properties *)

\* Tenants are separate: an instance runs a stored definition of its own tenant (Advance
\* could not load another, and the schema's foreign key is never violated), and what
\* getInstance has read is answered to the tenant it belongs to.
TenantIsolation ==
  /\ \A i \in Instances : Exists(i) => owner[i].def \in defs /\ owner[i].def.tenant = owner[i].tenant
  /\ \A r \in Slots : req[r].reads > 0 => owner[req[r].inst].tenant = req[r].tenant

\* An answer of getInstance is consistent although it is read in two queries while workers
\* go on: every step it shows as completed has its result in the history it shows.
HistoryCoversState ==
  \A r \in Slots : req[r].stage = "answered" => req[r].completed \subseteq req[r].recorded

\* Whenever and however the process stops, and all its workers, agents and requests with
\* it, no instance is lost: if the process is up again for good, each is finished.
RestartLosesNothing ==
  <>[](proc = "serving") => \A i \in Instances : Exists(i) ~> rows[i].inst.status \in Terminal

=============================================================================
