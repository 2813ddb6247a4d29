------------------------------- MODULE Stream -------------------------------
(***************************************************************************)
(* External: the Redis stream with its consumer group, as the engine uses  *)
(* it (XADD, XREADGROUP >, XAUTOCLAIM, XACK).  Delivered messages stay     *)
(* pending until they are acknowledged, and a pending message may be       *)
(* claimed by any consumer: the minimum idle time is real time, which a    *)
(* slow consumer exceeds.  The stream is never trimmed, but an             *)
(* acknowledged message is never seen again: its slot is reused.           *)
(***************************************************************************)
EXTENDS Integers, FiniteSets

CONSTANTS
  MsgIds,      \* bound on the messages in the stream that are not acknowledged
  BatchCount   \* the Count argument of XREADGROUP and XAUTOCLAIM (10 in the code)

ASSUME BatchCountAssumption == BatchCount \in Nat \ {0}

VARIABLES
  stream,   \* stream[m] = [inst, st]: the instance_id of message m, and its state
  batch     \* batch[w]: the messages [id, inst] consumer w has read and not yet processed

NoInst == "none"

NoMessage == [inst |-> NoInst, st |-> "free"]

StreamInit(consumers) ==
  /\ stream = [m \in MsgIds |-> NoMessage]
  /\ batch = [w \in consumers |-> {}]

StreamTypeOK(instances, consumers) ==
  /\ stream \in [MsgIds -> [inst : instances \cup {NoInst}, st : {"free", "new", "pending"}]]
  /\ batch \in [consumers -> SUBSET [id : MsgIds, inst : instances]]

InState(st) == {m \in MsgIds : stream[m].st = st}

\* A slot is free for a new message once nobody holds the old one.
FreeSlots ==
  {m \in InState("free") : \A w \in DOMAIN batch : \A x \in batch[w] : x.id # m}

XAdd(i) ==
  \E m \in FreeSlots : stream' = [stream EXCEPT ![m] = [inst |-> i, st |-> "new"]]

\* Up to BatchCount of the messages in state st are delivered to w, and are then pending.
Deliver(w, st) ==
  \E ms \in SUBSET InState(st) :
    /\ ms # {} /\ Cardinality(ms) <= BatchCount
    /\ batch' = [batch EXCEPT ![w] = {[id |-> m, inst |-> stream[m].inst] : m \in ms}]
    /\ stream' = [m \in MsgIds |-> IF m \in ms THEN [stream[m] EXCEPT !.st = "pending"] ELSE stream[m]]

XReadGroup(w) == Deliver(w, "new")

XAutoClaim(w) == Deliver(w, "pending")

XAck(m) ==
  stream' = IF stream[m].st = "pending" THEN [stream EXCEPT ![m] = NoMessage] ELSE stream

=============================================================================
