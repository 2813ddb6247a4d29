--------------------------- MODULE ValidatorProofs ---------------------------
(***************************************************************************)
(* Every definition that Validate accepts is what the engine assumes of a  *)
(* stored one, and its cycle search is exact, for every set of requests    *)
(* and every order in which Go ranges over the map of the ids.  And the    *)
(* walk of the machine over such a definition runs no step twice on the    *)
(* normal path: validator.go and machine.go compute the same path, the     *)
(* walk follows the edges of the search, and they have no cycle.  Last,    *)
(* the backoff of its retries never shrinks, however wide the integers.    *)
(***************************************************************************)
EXTENDS Validator, WellFoundedInduction, FiniteSetTheorems, TLAPS

-----------------------------------------------------------------------------
(* Sequences and least elements *)

\* A set of natural numbers that is not empty has a least element.
LEMMA LeastNatural ==
  ASSUME NEW T \in SUBSET Nat, T # {}
  PROVE  Min(T) \in T
<1> DEFINE Less == {p \in Nat \X Nat : p[1] < p[2]}
<1>1. IsWellFoundedOn(Less, Nat)
  BY NatLessThanWellFounded DEF OpToRel
<1> HIDE DEF Less
<1>2. PICK x \in T : \A y \in T : <<y, x>> \notin Less
  BY <1>1, WFMin
<1>3. \A y \in T : ~ (y < x)
  BY <1>2 DEF Less
<1>4. \A y \in T : x <= y
  BY <1>3
<1> QED
  BY <1>4 DEF Min

\* The least of them, as a number.
LEMMA LeastNumber ==
  ASSUME NEW T \in SUBSET Nat, T # {}
  PROVE  \E n \in T : \A m \in T : n <= m
<1> DEFINE Less == {p \in Nat \X Nat : p[1] < p[2]}
<1>1. IsWellFoundedOn(Less, Nat)
  BY NatLessThanWellFounded DEF OpToRel
<1> HIDE DEF Less
<1>2. PICK x \in T : \A y \in T : <<y, x>> \notin Less
  BY <1>1, WFMin
<1>3. \A y \in T : ~ (y < x)
  BY <1>2 DEF Less
<1> QED
  BY <1>3

LEMMA EmptyIsEmpty ==
  ASSUME NEW S, NEW s \in Seq(S), Len(s) = 0
  PROVE  s = <<>>
OBVIOUS

LEMMA SeqIsFunction ==
  ASSUME NEW S, NEW s \in Seq(S)
  PROVE  /\ Len(s) \in Nat /\ DOMAIN s = 1 .. Len(s)
         /\ s \in [1 .. Len(s) -> S]
         /\ \A n \in 1 .. Len(s) : s[n] \in S
OBVIOUS

LEMMA FunctionIsSeq ==
  ASSUME NEW S, NEW m \in Nat, NEW s \in [1 .. m -> S]
  PROVE  s \in Seq(S) /\ Len(s) = m
OBVIOUS

LEMMA AppendHolds ==
  ASSUME NEW S, NEW s \in Seq(S), NEW x \in S, NEW n, n = Len(s)
  PROVE  /\ Append(s, x) \in Seq(S) /\ Len(Append(s, x)) = n + 1
         /\ DOMAIN Append(s, x) = 1 .. n + 1
         /\ \A k \in 1 .. n : Append(s, x)[k] = s[k]
         /\ Append(s, x)[n + 1] = x
OBVIOUS

LEMMA FrontHolds ==
  ASSUME NEW S, NEW s \in Seq(S), NEW n \in Nat \ {0}, n = Len(s)
  PROVE  /\ SubSeq(s, 1, n - 1) \in Seq(S) /\ Len(SubSeq(s, 1, n - 1)) = n - 1
         /\ DOMAIN SubSeq(s, 1, n - 1) = 1 .. n - 1
         /\ \A k \in 1 .. n - 1 : SubSeq(s, 1, n - 1)[k] = s[k]
OBVIOUS

LEMMA Singleton ==
  ASSUME NEW S, NEW x \in S
  PROVE  <<x>> \in Seq(S) /\ ToSet(<<x>>) = {x}
<1>1. <<x>> \in Seq(S)
  OBVIOUS
<1>2. Len(<<x>>) = 1 /\ <<x>>[1] = x
  OBVIOUS
<1>3. \A n : n \in DOMAIN <<x>> <=> n = 1
  BY <1>1, <1>2
<1> QED
  BY <1>1, <1>2, <1>3 DEF ToSet

\* What a concatenation of lists of texts holds.
LEMMA ConcatHolds ==
  ASSUME NEW s \in Seq(STRING), NEW t \in Seq(STRING)
  PROVE  /\ s \o t \in Seq(STRING)
         /\ ToSet(s \o t) = ToSet(s) \cup ToSet(t)
<1>1. s \o t \in Seq(STRING) /\ Len(s \o t) = Len(s) + Len(t)
  OBVIOUS
<1>2. ASSUME NEW n \in 1 .. Len(s) + Len(t)
      PROVE  (s \o t)[n] \in ToSet(s) \cup ToSet(t)
  BY DEF ToSet
<1>3. ASSUME NEW n \in 1 .. Len(s)
      PROVE  s[n] \in ToSet(s \o t)
  <2>1. n \in 1 .. Len(s \o t) /\ (s \o t)[n] = s[n]
    BY <1>1
  <2> QED
    BY <1>1, <2>1 DEF ToSet
<1>4. ASSUME NEW n \in 1 .. Len(t)
      PROVE  t[n] \in ToSet(s \o t)
  <2>1. Len(s) + n \in 1 .. Len(s \o t) /\ (s \o t)[Len(s) + n] = t[n]
    BY <1>1
  <2> QED
    BY <1>1, <2>1 DEF ToSet
<1>5. DOMAIN s = 1 .. Len(s) /\ DOMAIN t = 1 .. Len(t) /\ DOMAIN (s \o t) = 1 .. Len(s) + Len(t)
  BY <1>1
<1>6. ToSet(s \o t) \subseteq ToSet(s) \cup ToSet(t)
  BY <1>2, <1>5 DEF ToSet
<1>7. ToSet(s) \subseteq ToSet(s \o t)
  BY <1>3, <1>5 DEF ToSet
<1>8. ToSet(t) \subseteq ToSet(s \o t)
  BY <1>4, <1>5 DEF ToSet
<1> QED
  BY <1>1, <1>6, <1>7, <1>8

\* A list of texts whose members are in T is a sequence over T.
LEMMA SeqOver ==
  ASSUME NEW T, NEW s \in Seq(STRING), ToSet(s) \subseteq T
  PROVE  s \in Seq(T)
<1>1. \A n \in 1 .. Len(s) : s[n] \in T
  BY DEF ToSet
<1> QED
  BY <1>1

-----------------------------------------------------------------------------
(* The references of a step *)

LEMMA AppendedHolds ==
  ASSUME NEW ref \in STRING
  PROVE  /\ appended(ref) \in Seq(STRING)
         /\ ToSet(appended(ref)) = {ref} \ {M!NoStep}
<1>1. CASE ref = ""
  <2>1. appended(ref) = <<>>
    BY <1>1, Zenon DEF appended, M!NoStep
  <2>b. <<>> \in Seq(STRING)
    OBVIOUS
  <2>2. ToSet(<<>>) = {}
    BY DEF ToSet
  <2> QED
    BY <1>1, <2>1, <2>b, <2>2 DEF M!NoStep
<1>2. CASE ref # ""
  <2>1. appended(ref) = <<ref>>
    BY <1>2 DEF appended, M!NoStep
  <2>2. <<ref>> \in Seq(STRING) /\ ToSet(<<ref>>) = {ref}
    BY Singleton, Zenon
  <2> QED
    BY <1>2, <2>1, <2>2, Zenon DEF M!NoStep
<1> QED
  BY <1>1, <1>2

\* What explicitRefs lists.
LEMMA ExplicitRefsHold ==
  ASSUME NEW step \in StepRequest
  PROVE  /\ explicitRefs(step) \in Seq(STRING)
         /\ {step.next} \ {M!NoStep} \subseteq ToSet(explicitRefs(step))
         /\ step.type = "condition" =>
              {step.then, step.else} \ {M!NoStep} \subseteq ToSet(explicitRefs(step))
         /\ step.type = "fork" =>
              ToSet(step.branches) \cup ({step.join} \ {M!NoStep}) \subseteq ToSet(explicitRefs(step))
<1>1. /\ step.next \in STRING /\ step.then \in STRING /\ step.else \in STRING
      /\ step.join \in STRING /\ step.branches \in Seq(STRING)
  BY DEF StepRequest
<1>2. <<>> \in Seq(STRING) /\ ToSet(<<>>) = {}
  BY DEF ToSet
<1>a. /\ ToSet(appended(step.next)) = {step.next} \ {M!NoStep}
      /\ ToSet(appended(step.then)) = {step.then} \ {M!NoStep}
      /\ ToSet(appended(step.else)) = {step.else} \ {M!NoStep}
      /\ ToSet(appended(step.join)) = {step.join} \ {M!NoStep}
  BY <1>1, AppendedHolds
<1>3. CASE step.type = "condition"
  <2>1. explicitRefs(step) = appended(step.next) \o (appended(step.then) \o appended(step.else))
    BY <1>3 DEF explicitRefs
  <2>2. appended(step.then) \o appended(step.else) \in Seq(STRING)
    BY <1>1, AppendedHolds, ConcatHolds
  <2>3. ToSet(appended(step.then) \o appended(step.else)) = {step.then, step.else} \ {M!NoStep}
    <3>1. ToSet(appended(step.then) \o appended(step.else))
            = ToSet(appended(step.then)) \cup ToSet(appended(step.else))
      BY <1>1, AppendedHolds, ConcatHolds
    <3> QED
      BY <1>a, <3>1
  <2>4. /\ explicitRefs(step) \in Seq(STRING)
        /\ ToSet(explicitRefs(step))
             = ToSet(appended(step.next)) \cup ToSet(appended(step.then) \o appended(step.else))
    <3>1. appended(step.next) \in Seq(STRING)
      BY <1>1, AppendedHolds
    <3> QED
      BY <2>1, <2>2, <3>1, ConcatHolds
  <2> QED
    BY <1>a, <1>3, <2>3, <2>4
<1>4. CASE step.type = "fork"
  <2>1. explicitRefs(step) = appended(step.next) \o (step.branches \o appended(step.join))
    BY <1>4 DEF explicitRefs
  <2>2. step.branches \o appended(step.join) \in Seq(STRING)
    BY <1>1, AppendedHolds, ConcatHolds
  <2>3. ToSet(step.branches \o appended(step.join)) = ToSet(step.branches) \cup ({step.join} \ {M!NoStep})
    <3>1. ToSet(step.branches \o appended(step.join)) = ToSet(step.branches) \cup ToSet(appended(step.join))
      BY <1>1, AppendedHolds, ConcatHolds
    <3> QED
      BY <1>a, <3>1
  <2>4. /\ explicitRefs(step) \in Seq(STRING)
        /\ ToSet(explicitRefs(step))
             = ToSet(appended(step.next)) \cup ToSet(step.branches \o appended(step.join))
    <3>1. appended(step.next) \in Seq(STRING)
      BY <1>1, AppendedHolds
    <3> QED
      BY <2>1, <2>2, <3>1, ConcatHolds
  <2> QED
    BY <1>a, <1>4, <2>3, <2>4
<1>5. CASE step.type \notin {"condition", "fork"}
  <2>1. explicitRefs(step) = appended(step.next) \o <<>>
    BY <1>5 DEF explicitRefs
  <2>2. /\ explicitRefs(step) \in Seq(STRING)
        /\ ToSet(explicitRefs(step)) = ToSet(appended(step.next)) \cup ToSet(<<>>)
    <3>1. appended(step.next) \in Seq(STRING)
      BY <1>1, AppendedHolds
    <3> QED
      BY <1>2, <2>1, <3>1, ConcatHolds
  <2> QED
    BY <1>2, <1>a, <1>5, <2>2
<1> QED
  BY <1>3, <1>4, <1>5

-----------------------------------------------------------------------------
(* A definition that passes the checks *)

\* A request as it is sent.
LEMMA RequestIsTyped ==
  ASSUME def \in Requests
  PROVE  /\ steps \in Seq(StepRequest)
         /\ ids \subseteq STRING
         /\ \A n \in DOMAIN steps :
              /\ steps[n] \in StepRequest
              /\ steps[n].type # "condition" => steps[n].then = "" /\ steps[n].else = ""
              /\ steps[n].type # "fork" => steps[n].branches = <<>> /\ steps[n].join = ""
<1>1. steps \in Seq(StepRequest)
  BY RequestsAssumption DEF steps
<1>2. \A n \in DOMAIN steps : steps[n] \in StepRequest
  BY <1>1
<1>3. \A n \in DOMAIN steps :
        /\ steps[n].type # "condition" => steps[n].then = "" /\ steps[n].else = ""
        /\ steps[n].type # "fork" => steps[n].branches = <<>> /\ steps[n].join = ""
  BY RequestsAssumption DEF steps
<1>4. \A step \in StepRequest : step.id \in STRING
  BY DEF StepRequest
<1> QED
  BY <1>1, <1>2, <1>3, <1>4 DEF ids

\* The first join after a step, where there is one.
LEMMA FirstJoinIsLater ==
  ASSUME NEW n \in DOMAIN steps, firstJoinAfter(n) # ""
  PROVE  \E m \in DOMAIN steps : m > n /\ steps[m].type = "join"
BY DEF firstJoinAfter, M!NoStep

\* A definition that passes the checks refers to its own steps only.
LEMMA CheckedRefs ==
  ASSUME def \in Requests, ChecksPass, NEW n \in DOMAIN steps
  PROVE  /\ steps[n].onFailure \in ids \cup {""}
         /\ explicitRefs(steps[n]) \in Seq(STRING)
         /\ ToSet(explicitRefs(steps[n])) \subseteq ids
         /\ {steps[n].next, steps[n].then, steps[n].else, steps[n].join} \subseteq ids \cup {""}
         /\ steps[n].branches \in Seq(ids)
<1>1. /\ steps[n] \in StepRequest
      /\ steps[n].type # "condition" => steps[n].then = "" /\ steps[n].else = ""
      /\ steps[n].type # "fork" => steps[n].branches = <<>> /\ steps[n].join = ""
  BY RequestIsTyped
<1>2. /\ steps[n].onFailure \in ids \cup {""}
      /\ ToSet(explicitRefs(steps[n])) \subseteq ids
  BY DEF ChecksPass, ReferencesValid, M!NoStep
<1>3. explicitRefs(steps[n]) \in Seq(STRING)
  BY <1>1, ExplicitRefsHold
<1>4. {steps[n].next} \ {""} \subseteq ids
  BY <1>1, <1>2, ExplicitRefsHold DEF M!NoStep
<1>5. {steps[n].then, steps[n].else} \ {""} \subseteq ids
  <2>1. CASE steps[n].type = "condition"
    BY <1>1, <1>2, <2>1, ExplicitRefsHold DEF M!NoStep
  <2>2. CASE steps[n].type # "condition"
    BY <1>1, <2>2
  <2> QED
    BY <2>1, <2>2
<1>6. {steps[n].join} \ {""} \subseteq ids /\ steps[n].branches \in Seq(ids)
  <2>1. CASE steps[n].type = "fork"
    <3>1. ToSet(steps[n].branches) \subseteq ids /\ {steps[n].join} \ {""} \subseteq ids
      BY <1>1, <1>2, <2>1, ExplicitRefsHold DEF M!NoStep
    <3>2. steps[n].branches \in Seq(STRING)
      BY <1>1 DEF StepRequest
    <3> QED
      BY <3>1, <3>2, SeqOver
  <2>2. CASE steps[n].type # "fork"
    <3>1. <<>> \in Seq(ids)
      OBVIOUS
    <3> QED
      BY <1>1, <2>2, <3>1
  <2> QED
    BY <2>1, <2>2
<1> QED
  BY <1>2, <1>3, <1>4, <1>5, <1>6

\* The record of a step of the stored definition.
LEMMA StepRecord ==
  ASSUME NEW I, NEW T, NEW R, NEW B, NEW i \in I, NEW t \in T, NEW n \in R, NEW y \in R,
         NEW e \in R, NEW b \in B, NEW j \in R, NEW f \in R, NEW r \in Nat
  PROVE  [id |-> i, type |-> t, next |-> n, then |-> y, else |-> e, branches |-> b, join |-> j,
          onFailure |-> f, maxRetries |-> r]
           \in [id : I, type : T, next : R, then : R, else : R, branches : B, join : R,
                onFailure : R, maxRetries : Nat]
OBVIOUS

\* What the engine assumes of a stored definition follows from the checks.
LEMMA CheckedIsWellFormed ==
  ASSUME def \in Requests, ChecksPass
  PROVE  M!WellFormed
<1>1. /\ steps \in Seq(StepRequest)
      /\ \A n \in DOMAIN steps : steps[n] \in StepRequest
  BY RequestIsTyped
<1>2. DOMAIN Stored = DOMAIN steps /\ DOMAIN steps = 1 .. Len(steps) /\ Len(steps) \in Nat
  BY <1>1 DEF Stored
<1>3. \A n \in DOMAIN steps : Stored[n].id = steps[n].id
  BY DEF Stored
<1>4. M!StepIds = ids
  BY <1>2, <1>3 DEF ids, M!StepIds
<1>5. M!Refs = ids \cup {""}
  BY <1>4 DEF M!Refs, M!NoStep
<1> DEFINE Step == [id : ids, type : M!StepTypes, next : ids \cup {""}, then : ids \cup {""},
                    else : ids \cup {""}, branches : Seq(ids), join : ids \cup {""},
                    onFailure : ids \cup {""}, maxRetries : Nat]
<1>6. ASSUME NEW n \in DOMAIN steps
      PROVE  Stored[n] \in Step
  <2>1. steps[n].id \in ids
    BY DEF ids
  <2>2. steps[n].type \in M!StepTypes
    BY DEF ChecksPass, validateStep, M!StepTypes
  <2>3. /\ steps[n].next \in ids \cup {""}
        /\ steps[n].then \in ids \cup {""}
        /\ steps[n].else \in ids \cup {""}
        /\ steps[n].join \in ids \cup {""}
        /\ steps[n].onFailure \in ids \cup {""}
        /\ steps[n].branches \in Seq(ids)
    BY CheckedRefs
  <2>4. PICK r \in Nat : r = IF steps[n].retry.maxRetries < 0 THEN 0 ELSE steps[n].retry.maxRetries
    <3>1. steps[n].retry.maxRetries \in Int
      BY <1>1 DEF StepRequest
    <3> QED
      BY <3>1
  <2>5. Stored[n] = [id |-> steps[n].id, type |-> steps[n].type, next |-> steps[n].next,
                     then |-> steps[n].then, else |-> steps[n].else,
                     branches |-> steps[n].branches, join |-> steps[n].join,
                     onFailure |-> steps[n].onFailure, maxRetries |-> r]
    BY <2>4 DEF Stored
  <2>6. [id |-> steps[n].id, type |-> steps[n].type, next |-> steps[n].next,
         then |-> steps[n].then, else |-> steps[n].else,
         branches |-> steps[n].branches, join |-> steps[n].join,
         onFailure |-> steps[n].onFailure, maxRetries |-> r] \in Step
    BY <2>1, <2>2, <2>3, <2>4, StepRecord, ZenonT(60)
  <2> QED
    BY <2>5, <2>6, Zenon
<1> HIDE DEF Step
<1>7. Stored \in Seq(Step)
  <2>1. Stored = [n \in 1 .. Len(steps) |-> Stored[n]]
    BY <1>2 DEF Stored
  <2>2. Stored \in [1 .. Len(steps) -> Step]
    BY <1>2, <1>6, <2>1
  <2> QED
    BY <1>2, <2>2
<1>8. Stored # <<>> /\ "" \notin ids
  <2>1. steps # <<>> /\ "" \notin ids
    BY DEF ChecksPass, UniqueIds, M!NoStep
  <2>2. Len(steps) # 0
    BY <1>1, <2>1, EmptyIsEmpty
  <2>3. 1 \in 1 .. Len(steps)
    BY <1>2, <2>2
  <2>4. 1 \in DOMAIN Stored
    BY <1>2, <2>3
  <2>5. DOMAIN <<>> = {}
    OBVIOUS
  <2> QED
    BY <2>1, <2>4, <2>5
<1>9. \A m, n \in DOMAIN Stored : Stored[m].id = Stored[n].id => m = n
  BY <1>2, <1>3 DEF ChecksPass, UniqueIds
<1>10. ASSUME NEW n \in DOMAIN Stored, Stored[n].type = "fork"
       PROVE  /\ Stored[n].branches # <<>>
              /\ \/ Stored[n].join # ""
                 \/ \E m \in DOMAIN Stored : m > n /\ Stored[m].type = "join"
  <2>1. /\ steps[n].type = "fork"
        /\ Stored[n].branches = steps[n].branches /\ Stored[n].join = steps[n].join
        /\ \A m \in DOMAIN steps : Stored[m].type = steps[m].type
    BY <1>2, <1>10 DEF Stored
  <2>2. steps[n].branches # <<>>
    BY <1>2, <2>1 DEF ChecksPass, validateStep
  <2>3. joinStepID(n) # ""
    BY <1>2, <2>1 DEF ChecksPass, ReferencesValid, M!NoStep
  <2>4. steps[n].join = "" => \E m \in DOMAIN steps : m > n /\ steps[m].type = "join"
    BY <1>2, <2>3, FirstJoinIsLater DEF joinStepID, M!NoStep
  <2> QED
    BY <1>2, <2>1, <2>2, <2>4
<1>11. Stored \in Seq([id : M!StepIds, type : M!StepTypes, next : M!Refs, then : M!Refs,
                       else : M!Refs, branches : Seq(M!StepIds), join : M!Refs,
                       onFailure : M!Refs, maxRetries : Nat])
  BY <1>4, <1>5, <1>7 DEF Step
<1>12. M!NoStep = ""
  BY DEF M!NoStep
<1> QED
  BY <1>4, <1>8, <1>9, <1>10, <1>11, <1>12, Zenon DEF M!WellFormed

-----------------------------------------------------------------------------
(* The graph that is searched *)

\* The edges of a definition that passes the checks lead to its steps.
LEMMA EdgesLeadToSteps ==
  ASSUME def \in Requests, ChecksPass, NEW id
  PROVE  edges(id) \in Seq(ids)
<1> DEFINE own   == {n \in normalSteps : steps[n].id = id}
           later == {m \in normalSteps : m > Min(own)}
<1>1. CASE own = {}
  <2>1. <<>> \in Seq(ids) /\ edges(id) = <<>>
    BY <1>1 DEF edges
  <2> QED
    BY <2>1
<1>2. CASE own # {}
  <2>1. /\ steps \in Seq(StepRequest) /\ ids \subseteq STRING
        /\ \A n \in DOMAIN steps : steps[n].id \in ids
    BY RequestIsTyped DEF ids
  <2>2. normalSteps \subseteq DOMAIN steps /\ DOMAIN steps \subseteq Nat
    BY <2>1 DEF normalSteps
  <2>3. Min(own) \in DOMAIN steps
    BY <1>2, <2>2, LeastNatural
  <2>4. PICK n \in DOMAIN steps : n = Min(own)
    BY <2>3
  <2>5. PICK first \in Seq(STRING) :
          /\ first = IF later = {} THEN <<>> ELSE <<steps[Min(later)].id>>
          /\ ToSet(first) \subseteq ids
    <3>1. CASE later = {}
      <4>1. <<>> \in Seq(STRING) /\ ToSet(<<>>) = {}
        BY DEF ToSet
      <4> QED
        BY <3>1, <4>1
    <3>2. CASE later # {}
      <4>1. Min(later) \in DOMAIN steps
        BY <2>2, <3>2, LeastNatural
      <4>2. PICK s \in ids : s = steps[Min(later)].id
        BY <2>1, <4>1
      <4>3. s \in STRING
        BY <2>1
      <4>4. <<s>> \in Seq(STRING) /\ ToSet(<<s>>) = {s}
        BY <4>3, Singleton, Zenon
      <4> QED
        BY <3>2, <4>2, <4>4
    <3> QED
      BY <3>1, <3>2
  <2>6. PICK last \in Seq(STRING) : last = appended(steps[n].onFailure) /\ ToSet(last) \subseteq ids
    <3>1. steps[n].onFailure \in STRING /\ steps[n].onFailure \in ids \cup {""}
      <4>1. steps[n] \in StepRequest
        BY RequestIsTyped
      <4> QED
        BY <4>1, CheckedRefs DEF StepRequest
    <3>2. /\ appended(steps[n].onFailure) \in Seq(STRING)
          /\ ToSet(appended(steps[n].onFailure)) = {steps[n].onFailure} \ {M!NoStep}
      BY <3>1, AppendedHolds
    <3> QED
      BY <3>1, <3>2 DEF M!NoStep
  <2>7. PICK refs \in Seq(STRING) : refs = explicitRefs(steps[n]) /\ ToSet(refs) \subseteq ids
    BY CheckedRefs
  <2>8. edges(id) = (first \o refs) \o last
    <3>1. edges(id) = (IF later = {} THEN <<>> ELSE <<steps[Min(later)].id>>)
                        \o explicitRefs(steps[Min(own)]) \o appended(steps[Min(own)].onFailure)
      BY <1>2, Zenon DEF edges
    <3> HIDE DEF own, later
    <3> QED
      BY <2>4, <2>5, <2>6, <2>7, <3>1
  <2>9. first \o refs \in Seq(STRING) /\ ToSet(first \o refs) \subseteq ids
    <3>1. ToSet(first) \subseteq ids /\ ToSet(refs) \subseteq ids
      BY <2>5, <2>7
    <3> HIDE DEF own, later
    <3> QED
      BY <3>1, ConcatHolds
  <2>10. (first \o refs) \o last \in Seq(STRING) /\ ToSet((first \o refs) \o last) \subseteq ids
    BY <2>6, <2>9, ConcatHolds
  <2> QED
    BY <2>8, <2>10, SeqOver
<1> QED
  BY <1>1, <1>2

\* The edges as one function, which changes with the definition only.
graph == [id \in ids |-> edges(id)]

LEMMA GraphIsTyped ==
  ASSUME def \in Requests, ChecksPass
  PROVE  /\ graph \in [ids -> Seq(ids)]
         /\ \A id \in ids : graph[id] = edges(id)
<1>1. \A id \in ids : edges(id) \in Seq(ids)
  BY EdgesLeadToSteps
<1> QED
  BY <1>1 DEF graph

LEMMA SameGraph ==
  ASSUME def' = def
  PROVE  ids' = ids /\ ChecksPass' = ChecksPass /\ graph' = graph
<1>1. ids' = ids
  BY DEF ids, steps
<1>2. ChecksPass' = ChecksPass
  BY DEF ChecksPass, UniqueIds, validateStep, validateRetry, ReferencesValid, joinStepID, firstJoinAfter,
         explicitRefs, appended, ids, steps, M!NoStep, M!StepTypes
<1>3. graph' = graph
  BY DEF graph, ids, edges, normalSteps, compensation, collectForkBranchSteps, collectBranchStep, joinStepID,
         firstJoinAfter, explicitRefs, appended, steps, M!NoStep
<1> QED
  BY <1>1, <1>2, <1>3

-----------------------------------------------------------------------------
(* The search *)

\* The active calls are of different steps, the ones in visiting, and each was made by
\* the call before it along an edge.
StackOK ==
  /\ stack \in Seq([id : ids, next : Nat])
  /\ \A k \in DOMAIN stack : stack[k].next > 0
  /\ \A j, k \in DOMAIN stack : stack[j].id = stack[k].id => j = k
  /\ visiting = {stack[k].id : k \in DOMAIN stack}
  /\ \A k \in DOMAIN stack :
       k < Len(stack) => \E e \in DOMAIN graph[stack[k].id] : graph[stack[k].id][e] = stack[k + 1].id

\* The edges that a call has followed lead to visited steps, but for the last one of a call
\* that waits for the next.
FollowedOK ==
  \A k \in DOMAIN stack :
    \A e \in DOMAIN graph[stack[k].id] :
      e < stack[k].next =>
        \/ graph[stack[k].id][e] \in visited
        \/ k < Len(stack) /\ graph[stack[k].id][e] = stack[k + 1].id

\* A set of steps with an edge from each of them back into it.
CyclicSet(S) == S # {} /\ \A id \in S : ToSet(graph[id]) \cap S # {}

\* No edge leads out of the visited steps, and there is no cycle among them.
VisitedOK ==
  /\ visited \subseteq ids
  /\ \A id \in visited : ToSet(graph[id]) \subseteq visited
  /\ \A S \in SUBSET visited : ~ CyclicSet(S)

SearchOK ==
  /\ def \in Requests
  /\ verdict \in {"new", "search", "accepted", "rejected"}
  /\ verdict = "new" => stack = <<>> /\ visiting = {} /\ visited = {}
  /\ verdict \in {"search", "accepted"} => ChecksPass
  /\ verdict = "search" => StackOK /\ FollowedOK /\ VisitedOK
  /\ verdict = "accepted" => \A S \in SUBSET ids : ~ CyclicSet(S)
  /\ verdict = "rejected" /\ ChecksPass => \E S \in SUBSET ids : CyclicSet(S)

LEMMA InitSearch ==
  ASSUME Init
  PROVE  SearchOK
BY DEF Init, SearchOK

\* A step of the stack that does not touch the definition: what has to be shown in the
\* terms of the graph before the step.
LEMMA NextSearch ==
  ASSUME SearchOK, def' = def, verdict = "search", verdict' = "search",
         /\ stack' \in Seq([id : ids, next : Nat])
         /\ \A k \in DOMAIN stack' : stack'[k].next > 0
         /\ \A j, k \in DOMAIN stack' : stack'[j].id = stack'[k].id => j = k
         /\ visiting' = {stack'[k].id : k \in DOMAIN stack'}
         /\ \A k \in DOMAIN stack' :
              k < Len(stack') => \E e \in DOMAIN graph[stack'[k].id] :
                                   graph[stack'[k].id][e] = stack'[k + 1].id,
         \A k \in DOMAIN stack' :
           \A e \in DOMAIN graph[stack'[k].id] :
             e < stack'[k].next =>
               \/ graph[stack'[k].id][e] \in visited'
               \/ k < Len(stack') /\ graph[stack'[k].id][e] = stack'[k + 1].id,
         /\ visited' \subseteq ids
         /\ \A id \in visited' : ToSet(graph[id]) \subseteq visited'
         /\ \A S \in SUBSET visited' : ~ CyclicSet(S)
  PROVE  SearchOK'
<1>1. ids' = ids /\ ChecksPass' = ChecksPass /\ graph' = graph
  BY SameGraph
<1>2. StackOK'
  BY <1>1 DEF StackOK
<1>3. FollowedOK'
  BY <1>1 DEF FollowedOK
<1>4. VisitedOK'
  BY <1>1 DEF VisitedOK, CyclicSet
<1> QED
  BY <1>1, <1>2, <1>3, <1>4 DEF SearchOK

LEMMA CheckSearch ==
  ASSUME SearchOK, Check
  PROVE  SearchOK'
<1>1. def' = def /\ stack' = <<>> /\ visiting' = {} /\ visited' = {} /\ verdict = "new"
  BY DEF Check, SearchOK
<1>2. ids' = ids /\ ChecksPass' = ChecksPass /\ graph' = graph
  BY <1>1, SameGraph
<1>3. CASE ~ ChecksPass
  BY <1>1, <1>2, <1>3 DEF Check, SearchOK
<1>4. CASE ChecksPass
  <2>1. DOMAIN stack' = {} /\ stack' \in Seq([id : ids, next : Nat])
    BY <1>1
  <2>2. StackOK' /\ FollowedOK'
    BY <1>1, <1>2, <2>1 DEF StackOK, FollowedOK
  <2>3. VisitedOK'
    BY <1>1, <1>2 DEF VisitedOK, CyclicSet
  <2>4. verdict' = "search"
    BY <1>4 DEF Check
  <2> QED
    BY <1>1, <1>2, <1>4, <2>2, <2>3, <2>4 DEF SearchOK
<1> QED
  BY <1>3, <1>4

LEMMA RootSearch ==
  ASSUME SearchOK, VisitRoot
  PROVE  SearchOK'
<1>1. PICK id \in ids \ visited : Push(<<>>, id)
  BY DEF VisitRoot
<1>2. /\ def' = def /\ verdict = "search" /\ verdict' = "search" /\ visited' = visited
      /\ stack = <<>> /\ StackOK /\ VisitedOK
  BY DEF VisitRoot, SearchOK
<1>3. visiting = {}
  BY <1>2 DEF StackOK
<1>4. /\ stack' \in Seq([id : ids, next : Nat]) /\ Len(stack') = 1
      /\ stack'[1].id = id /\ stack'[1].next = 1 /\ visiting' = {id}
  BY <1>1, <1>3 DEF Push
<1>5. \A k \in DOMAIN stack' : k = 1
  BY <1>4
<1>6. 1 \in DOMAIN stack'
  BY <1>4
<1>7. visiting' = {stack'[k].id : k \in DOMAIN stack'}
  BY <1>4, <1>5, <1>6
<1>8. graph[id] \in Seq(ids)
  BY GraphIsTyped DEF SearchOK, VisitRoot
<1>9. \A k \in DOMAIN stack' : \A e \in DOMAIN graph[stack'[k].id] : ~ (e < stack'[k].next)
  BY <1>4, <1>5, <1>8
<1>10. \A k \in DOMAIN stack' : ~ (k < Len(stack'))
  BY <1>4, <1>5
<1> QED
  BY <1>2, <1>4, <1>5, <1>7, <1>9, <1>10, NextSearch DEF VisitedOK

\* The top of the stack, and the stack after the next edge has been followed.
LEMMA TopCall ==
  ASSUME SearchOK, verdict = "search", stack # <<>>
  PROVE  /\ Len(stack) \in Nat \ {0} /\ DOMAIN stack = 1 .. Len(stack)
         /\ Last(stack) = stack[Len(stack)]
         /\ \A k \in 1 .. Len(stack) :
              /\ stack[k].id \in ids /\ stack[k].next \in Nat \ {0}
              /\ graph[stack[k].id] = edges(stack[k].id)
              /\ graph[stack[k].id] \in Seq(ids)
<1>1. StackOK /\ ChecksPass /\ def \in Requests
  BY DEF SearchOK
<1>2. stack \in Seq([id : ids, next : Nat])
  BY <1>1 DEF StackOK
<1>3. Len(stack) \in Nat \ {0} /\ DOMAIN stack = 1 .. Len(stack)
  <2>1. Len(stack) \in Nat /\ DOMAIN stack = 1 .. Len(stack)
    BY <1>2
  <2>2. Len(stack) # 0
    BY <1>2, EmptyIsEmpty, Zenon
  <2> QED
    BY <2>1, <2>2
<1>4. \A k \in 1 .. Len(stack) : stack[k].id \in ids /\ stack[k].next \in Nat \ {0}
  <2>1. \A k \in 1 .. Len(stack) : stack[k] \in [id : ids, next : Nat]
    BY <1>2, SeqIsFunction, Zenon
  <2>2. \A k \in 1 .. Len(stack) : stack[k].next > 0
    BY <1>1, <1>3 DEF StackOK
  <2> QED
    BY <2>1, <2>2
<1>5. /\ graph \in [ids -> Seq(ids)]
      /\ \A id \in ids : graph[id] = edges(id)
  BY <1>1, GraphIsTyped
<1> QED
  BY <1>3, <1>4, <1>5 DEF Last

LEMMA RestOfCalls ==
  ASSUME stack \in Seq([id : ids, next : Nat]), stack # <<>>
  PROVE  \E r \in Seq([id : ids, next : Nat]) :
           /\ r = [stack EXCEPT ![Len(stack)].next = @ + 1]
           /\ Len(r) = Len(stack)
           /\ \A k \in 1 .. Len(stack) :
                /\ r[k].id = stack[k].id
                /\ r[k].next = IF k = Len(stack) THEN stack[k].next + 1 ELSE stack[k].next
<1>1. Len(stack) \in Nat /\ Len(stack) # 0
  <2>1. Len(stack) # 0
    BY EmptyIsEmpty, Zenon
  <2>2. Len(stack) \in Nat
    OBVIOUS
  <2> QED
    BY <2>1, <2>2
<1>2. PICK m \in Nat : m = Len(stack) /\ m # 0
  BY <1>1
<1>3. stack \in [1 .. m -> [id : ids, next : Nat]] /\ \A k \in 1 .. m : stack[k] \in [id : ids, next : Nat]
  BY <1>2, SeqIsFunction, Zenon
<1> DEFINE r == [stack EXCEPT ![Len(stack)].next = @ + 1]
<1>4. r = [k \in 1 .. m |-> IF k = m THEN [stack[k] EXCEPT !.next = @ + 1] ELSE stack[k]]
  BY <1>2, <1>3
<1> HIDE DEF r
<1>5. ASSUME NEW c \in [id : ids, next : Nat]
      PROVE  /\ [c EXCEPT !.next = @ + 1] \in [id : ids, next : Nat]
             /\ [c EXCEPT !.next = @ + 1].id = c.id
             /\ [c EXCEPT !.next = @ + 1].next = c.next + 1
  <2>1. c.id \in ids /\ c.next \in Nat /\ c = [id |-> c.id, next |-> c.next]
    OBVIOUS
  <2>2. [c EXCEPT !.next = @ + 1] = [id |-> c.id, next |-> c.next + 1]
    BY <2>1
  <2> QED
    BY <2>1, <2>2
<1>6. r \in [1 .. m -> [id : ids, next : Nat]]
  <2>1. PICK C : C = [id : ids, next : Nat]
    OBVIOUS
  <2>2. ASSUME NEW k \in 1 .. m
        PROVE  (IF k = m THEN [stack[k] EXCEPT !.next = @ + 1] ELSE stack[k]) \in C
    BY <1>3, <1>5, <2>1, Zenon
  <2>3. r \in [1 .. m -> C]
    BY <1>4, <2>2, Zenon
  <2> QED
    BY <2>1, <2>3
<1>7. r \in Seq([id : ids, next : Nat]) /\ Len(r) = m
  BY <1>6, FunctionIsSeq, Zenon
<1>8. ASSUME NEW k \in 1 .. m
      PROVE  /\ r[k].id = stack[k].id
             /\ r[k].next = IF k = m THEN stack[k].next + 1 ELSE stack[k].next
  <2>1. CASE k = m
    BY <1>3, <1>4, <1>5, <2>1
  <2>2. CASE k # m
    BY <1>4, <2>2
  <2> QED
    BY <2>1, <2>2
<1>9. r = [stack EXCEPT ![Len(stack)].next = @ + 1]
  BY DEF r
<1> QED
  BY <1>2, <1>7, <1>8, <1>9, Zenon

\* An edge back to an active call closes a cycle: the steps from that call to the top.
LEMMA CycleSearch ==
  ASSUME SearchOK, VisitNext, edges(Last(stack).id)[Last(stack).next] \in visiting
  PROVE  SearchOK'
<1>1. /\ verdict = "search" /\ stack # <<>> /\ def' = def
      /\ Last(stack).next <= Len(edges(Last(stack).id))
  BY DEF VisitNext
<1>2. PICK n \in Nat \ {0} : n = Len(stack)
  BY <1>1, TopCall
<1>3. /\ DOMAIN stack = 1 .. n /\ n \in 1 .. n /\ Last(stack) = stack[n]
      /\ \A k \in 1 .. n : /\ stack[k].id \in ids /\ stack[k].next \in Nat \ {0}
                           /\ graph[stack[k].id] = edges(stack[k].id)
                           /\ graph[stack[k].id] \in Seq(ids)
  BY <1>1, <1>2, TopCall
<1>4. StackOK /\ ChecksPass
  BY <1>1 DEF SearchOK
<1>5. PICK j \in 1 .. n : graph[stack[n].id][stack[n].next] = stack[j].id
  BY <1>3, <1>4 DEF StackOK
<1> DEFINE S == {stack[k].id : k \in j .. n}
<1>6. S \in SUBSET ids /\ S # {}
  <2>1. j \in j .. n /\ j .. n \subseteq 1 .. n
    BY <1>5
  <2> QED
    BY <1>3, <2>1
<1>7. ASSUME NEW k \in j .. n
      PROVE  \E e \in DOMAIN graph[stack[k].id] : graph[stack[k].id][e] \in S
  <2>1. k \in 1 .. n
    BY <1>5
  <2>2. CASE k = n
    <3>1. stack[n].next \in DOMAIN graph[stack[n].id]
      BY <1>1, <1>3
    <3>2. stack[j].id \in S
      BY <1>5
    <3> QED
      BY <1>5, <2>2, <3>1, <3>2
  <2>3. CASE k # n
    <3>1. k < Len(stack) /\ k + 1 \in j .. n
      BY <1>2, <2>1, <2>3
    <3>2. PICK e \in DOMAIN graph[stack[k].id] : graph[stack[k].id][e] = stack[k + 1].id
      BY <1>3, <1>4, <2>1, <3>1 DEF StackOK
    <3>3. stack[k + 1].id \in S
      BY <3>1
    <3> QED
      BY <3>2, <3>3
  <2> QED
    BY <2>2, <2>3
<1>8. CyclicSet(S)
  BY <1>6, <1>7 DEF CyclicSet, ToSet
<1>9. ids' = ids /\ ChecksPass' = ChecksPass /\ graph' = graph
  BY <1>1, SameGraph
<1> HIDE DEF S
<1>10. (\E T \in SUBSET ids : CyclicSet(T))'
  BY <1>6, <1>8, <1>9 DEF CyclicSet
<1>11. CASE verdict' = "rejected"
  BY <1>1, <1>10, <1>11 DEF SearchOK
<1> QED
  BY <1>11 DEF VisitNext

\* An edge to a visited step is passed over.
LEMMA PassSearch ==
  ASSUME SearchOK, verdict = "search", stack # <<>>, def' = def, verdict' = verdict,
         Last(stack).next <= Len(edges(Last(stack).id)),
         edges(Last(stack).id)[Last(stack).next] \in visited,
         stack' = [stack EXCEPT ![Len(stack)].next = @ + 1], visiting' = visiting, visited' = visited
  PROVE  SearchOK'
<1>1. StackOK /\ FollowedOK /\ VisitedOK
  BY DEF SearchOK
<1>2. PICK n \in Nat \ {0} : n = Len(stack)
  BY TopCall
<1>3. /\ DOMAIN stack = 1 .. n /\ n \in 1 .. n /\ Last(stack) = stack[n]
      /\ \A k \in 1 .. n : /\ stack[k].id \in ids /\ stack[k].next \in Nat \ {0}
                           /\ graph[stack[k].id] = edges(stack[k].id)
                           /\ graph[stack[k].id] \in Seq(ids)
  BY <1>2, TopCall
<1>4. stack \in Seq([id : ids, next : Nat])
  BY <1>1 DEF StackOK
<1>5. PICK r \in Seq([id : ids, next : Nat]) :
        /\ r = [stack EXCEPT ![Len(stack)].next = @ + 1]
        /\ Len(r) = Len(stack)
        /\ \A k \in 1 .. Len(stack) :
             /\ r[k].id = stack[k].id
             /\ r[k].next = IF k = Len(stack) THEN stack[k].next + 1 ELSE stack[k].next
  BY <1>4, RestOfCalls
<1>6. /\ stack' \in Seq([id : ids, next : Nat]) /\ Len(stack') = n /\ DOMAIN stack' = 1 .. n
      /\ \A k \in 1 .. n :
           /\ stack'[k].id = stack[k].id
           /\ stack'[k].next = IF k = n THEN stack[k].next + 1 ELSE stack[k].next
  <2>1. stack' = r
    BY <1>5
  <2>2. DOMAIN r = 1 .. Len(r)
    BY SeqIsFunction, Zenon
  <2>3. stack' \in Seq([id : ids, next : Nat])
    BY <2>1, Zenon
  <2> QED
    BY <1>2, <1>5, <2>1, <2>2, <2>3, Zenon
<1>7. /\ \A k \in 1 .. n : stack'[k].next > 0
      /\ \A j, k \in 1 .. n : stack'[j].id = stack'[k].id => j = k
      /\ visiting' = {stack'[k].id : k \in 1 .. n}
  <2>1. \A k \in 1 .. n : stack'[k].next > 0
    BY <1>3, <1>6
  <2>2. \A j, k \in 1 .. n : stack'[j].id = stack'[k].id => j = k
    BY <1>1, <1>3, <1>6 DEF StackOK
  <2>3. visiting' = {stack'[k].id : k \in 1 .. n}
    BY <1>1, <1>3, <1>6 DEF StackOK
  <2> QED
    BY <2>1, <2>2, <2>3
<1>8. ASSUME NEW k \in 1 .. n, k < n
      PROVE  \E e \in DOMAIN graph[stack'[k].id] : graph[stack'[k].id][e] = stack'[k + 1].id
  <2>1. k + 1 \in 1 .. n
    BY <1>8
  <2>2. \E e \in DOMAIN graph[stack[k].id] : graph[stack[k].id][e] = stack[k + 1].id
    BY <1>1, <1>2, <1>3, <1>8 DEF StackOK
  <2> QED
    BY <1>6, <2>1, <2>2
<1>9. ASSUME NEW k \in 1 .. n, NEW e \in DOMAIN graph[stack'[k].id], e < stack'[k].next
      PROVE  \/ graph[stack'[k].id][e] \in visited'
             \/ k < n /\ graph[stack'[k].id][e] = stack'[k + 1].id
  <2>1. stack'[k].id = stack[k].id /\ e \in DOMAIN graph[stack[k].id]
    BY <1>6, <1>9
  <2>2. e \in Nat /\ stack[k].next \in Nat
    BY <1>3, <2>1
  <2>3. CASE e < stack[k].next
    <3>1. \/ graph[stack[k].id][e] \in visited
          \/ k < n /\ graph[stack[k].id][e] = stack[k + 1].id
      BY <1>1, <1>2, <1>3, <2>1, <2>3 DEF FollowedOK
    <3>2. k < n => k + 1 \in 1 .. n
      OBVIOUS
    <3> QED
      BY <1>6, <2>1, <3>1, <3>2
  <2>4. CASE ~ (e < stack[k].next)
    <3>1. k = n /\ e = stack[k].next
      BY <1>6, <1>9, <2>2, <2>4
    <3> QED
      BY <1>3, <2>1, <3>1
  <2> QED
    BY <2>3, <2>4
<1>10. /\ \A k \in DOMAIN stack' : stack'[k].next > 0
       /\ \A j, k \in DOMAIN stack' : stack'[j].id = stack'[k].id => j = k
       /\ visiting' = {stack'[k].id : k \in DOMAIN stack'}
  BY <1>6, <1>7
<1>11. \A k \in DOMAIN stack' :
         k < Len(stack') => \E e \in DOMAIN graph[stack'[k].id] :
                              graph[stack'[k].id][e] = stack'[k + 1].id
  BY <1>6, <1>8
<1>12. \A k \in DOMAIN stack' :
         \A e \in DOMAIN graph[stack'[k].id] :
           e < stack'[k].next =>
             \/ graph[stack'[k].id][e] \in visited'
             \/ k < Len(stack') /\ graph[stack'[k].id][e] = stack'[k + 1].id
  BY <1>6, <1>9
<1>13. /\ visited' \subseteq ids
       /\ \A id \in visited' : ToSet(graph[id]) \subseteq visited'
       /\ \A S \in SUBSET visited' : ~ CyclicSet(S)
  BY <1>1 DEF VisitedOK
<1>14. stack' \in Seq([id : ids, next : Nat])
  BY <1>6, Zenon
<1> QED
  BY <1>10, <1>11, <1>12, <1>13, <1>14, NextSearch, Zenon

\* A call of a step that is neither visited nor active.
LEMMA CallSearch ==
  ASSUME SearchOK, verdict = "search", stack # <<>>, def' = def, verdict' = verdict,
         Last(stack).next <= Len(edges(Last(stack).id)),
         NEW next, next = edges(Last(stack).id)[Last(stack).next],
         next \notin visited \cup visiting,
         stack' = Append([stack EXCEPT ![Len(stack)].next = @ + 1], [id |-> next, next |-> 1]),
         visiting' = visiting \cup {next}, visited' = visited
  PROVE  SearchOK'
<1>1. StackOK /\ FollowedOK /\ VisitedOK
  BY DEF SearchOK
<1>2. PICK n \in Nat \ {0} : n = Len(stack)
  BY TopCall
<1>3. /\ DOMAIN stack = 1 .. n /\ n \in 1 .. n /\ Last(stack) = stack[n]
      /\ \A k \in 1 .. n : /\ stack[k].id \in ids /\ stack[k].next \in Nat \ {0}
                           /\ graph[stack[k].id] = edges(stack[k].id)
                           /\ graph[stack[k].id] \in Seq(ids)
  BY <1>2, TopCall
<1>4. stack \in Seq([id : ids, next : Nat])
  BY <1>1 DEF StackOK
<1>5. PICK r \in Seq([id : ids, next : Nat]) :
        /\ r = [stack EXCEPT ![Len(stack)].next = @ + 1]
        /\ Len(r) = Len(stack)
        /\ \A k \in 1 .. Len(stack) :
             /\ r[k].id = stack[k].id
             /\ r[k].next = IF k = Len(stack) THEN stack[k].next + 1 ELSE stack[k].next
  BY <1>4, RestOfCalls
<1>a. /\ stack[n].next \in DOMAIN graph[stack[n].id]
      /\ next = graph[stack[n].id][stack[n].next] /\ next \in ids
  BY <1>3
<1>6. /\ stack' \in Seq([id : ids, next : Nat]) /\ Len(stack') = n + 1 /\ DOMAIN stack' = 1 .. n + 1
      /\ \A k \in 1 .. n :
           /\ stack'[k].id = stack[k].id
           /\ stack'[k].next = IF k = n THEN stack[k].next + 1 ELSE stack[k].next
      /\ stack'[n + 1].id = next /\ stack'[n + 1].next = 1
  <2>1. PICK C : C = [id : ids, next : Nat]
    OBVIOUS
  <2>2. PICK c \in C : c = [id |-> next, next |-> 1]
    BY <1>a, <2>1
  <2>3. stack' = Append(r, c)
    BY <1>5, <2>2, Zenon
  <2>4. r \in Seq(C) /\ Len(r) = n
    BY <1>2, <1>5, <2>1
  <2>5. /\ Append(r, c) \in Seq(C) /\ Len(Append(r, c)) = n + 1 /\ DOMAIN Append(r, c) = 1 .. n + 1
        /\ \A k \in 1 .. n : Append(r, c)[k] = r[k]
        /\ Append(r, c)[n + 1] = c
    BY <2>4, AppendHolds
  <2>6. c.id = next /\ c.next = 1
    BY <2>2
  <2>7. \A k \in 1 .. n : /\ r[k].id = stack[k].id
                           /\ r[k].next = IF k = n THEN stack[k].next + 1 ELSE stack[k].next
    BY <1>2, <1>5, Zenon
  <2> QED
    BY <2>1, <2>3, <2>5, <2>6, <2>7, Zenon
<1>7. /\ \A k \in 1 .. n + 1 : stack'[k].next > 0
      /\ \A j, k \in 1 .. n + 1 : stack'[j].id = stack'[k].id => j = k
      /\ visiting' = {stack'[k].id : k \in 1 .. n + 1}
  <2>1. \A k \in 1 .. n + 1 : k \in 1 .. n \/ k = n + 1
    OBVIOUS
  <2>2. visiting = {stack[k].id : k \in 1 .. n}
    BY <1>1, <1>3 DEF StackOK
  <2>3. \A k \in 1 .. n + 1 : stack'[k].next > 0
    BY <1>3, <1>6, <2>1
  <2>4. \A j, k \in 1 .. n : stack[j].id = stack[k].id => j = k
    BY <1>1, <1>3 DEF StackOK
  <2>5. \A j, k \in 1 .. n + 1 : stack'[j].id = stack'[k].id => j = k
    BY <1>6, <2>1, <2>2, <2>4
  <2>6. visiting' = {stack'[k].id : k \in 1 .. n + 1}
    BY <1>6, <2>1, <2>2
  <2> QED
    BY <2>3, <2>5, <2>6
<1>8. ASSUME NEW k \in 1 .. n + 1, k < n + 1
      PROVE  \E e \in DOMAIN graph[stack'[k].id] : graph[stack'[k].id][e] = stack'[k + 1].id
  <2>1. CASE k = n
    <3>1. stack[n].next \in DOMAIN graph[stack'[n].id] /\ graph[stack'[n].id][stack[n].next] = next
      BY <1>3, <1>6, <1>a
    <3> QED
      BY <1>6, <2>1, <3>1
  <2>2. CASE k # n
    <3>1. k \in 1 .. n /\ k + 1 \in 1 .. n /\ k < n
      BY <1>8, <2>2
    <3>2. \E e \in DOMAIN graph[stack[k].id] : graph[stack[k].id][e] = stack[k + 1].id
      BY <1>1, <1>2, <1>3, <3>1 DEF StackOK
    <3> QED
      BY <1>6, <3>1, <3>2
  <2> QED
    BY <2>1, <2>2
<1>9. ASSUME NEW k \in 1 .. n + 1, NEW e \in DOMAIN graph[stack'[k].id], e < stack'[k].next
      PROVE  \/ graph[stack'[k].id][e] \in visited'
             \/ k < n + 1 /\ graph[stack'[k].id][e] = stack'[k + 1].id
  <2>1. CASE k = n + 1
    <3>1. graph[next] \in Seq(ids)
      BY <1>a, GraphIsTyped DEF SearchOK
    <3>2. e \in Nat /\ e >= 1
      BY <1>6, <2>1, <3>1
    <3> QED
      BY <1>6, <1>9, <2>1, <3>2
  <2>2. CASE k # n + 1
    <3>1. k \in 1 .. n /\ k < n + 1
      BY <2>2
    <3>2. stack'[k].id = stack[k].id /\ e \in DOMAIN graph[stack[k].id]
      BY <1>6, <1>9, <3>1
    <3>3. e \in Nat /\ stack[k].next \in Nat
      BY <1>3, <3>1, <3>2
    <3>4. CASE e < stack[k].next
      <4>1. \/ graph[stack[k].id][e] \in visited
            \/ k < n /\ graph[stack[k].id][e] = stack[k + 1].id
        BY <1>1, <1>2, <1>3, <3>1, <3>2, <3>4 DEF FollowedOK
      <4>2. k < n => k + 1 \in 1 .. n
        BY <3>1
      <4> QED
        BY <1>6, <3>1, <3>2, <4>1, <4>2
    <3>5. CASE ~ (e < stack[k].next)
      <4>1. k = n /\ e = stack[k].next
        BY <1>6, <1>9, <3>1, <3>3, <3>5
      <4> QED
        BY <1>6, <1>a, <3>1, <3>2, <4>1
    <3> QED
      BY <3>4, <3>5
  <2> QED
    BY <2>1, <2>2
<1>10. /\ \A k \in DOMAIN stack' : stack'[k].next > 0
       /\ \A j, k \in DOMAIN stack' : stack'[j].id = stack'[k].id => j = k
       /\ visiting' = {stack'[k].id : k \in DOMAIN stack'}
  BY <1>6, <1>7
<1>11. \A k \in DOMAIN stack' :
         k < Len(stack') => \E e \in DOMAIN graph[stack'[k].id] :
                              graph[stack'[k].id][e] = stack'[k + 1].id
  BY <1>6, <1>8
<1>12. \A k \in DOMAIN stack' :
         \A e \in DOMAIN graph[stack'[k].id] :
           e < stack'[k].next =>
             \/ graph[stack'[k].id][e] \in visited'
             \/ k < Len(stack') /\ graph[stack'[k].id][e] = stack'[k + 1].id
  <2>1. DOMAIN stack' = 1 .. n + 1 /\ Len(stack') = n + 1
    BY <1>6, Zenon
  <2> QED
    BY <1>9, <2>1, Zenon
<1>13. /\ visited' \subseteq ids
       /\ \A id \in visited' : ToSet(graph[id]) \subseteq visited'
       /\ \A S \in SUBSET visited' : ~ CyclicSet(S)
  BY <1>1 DEF VisitedOK
<1>14. stack' \in Seq([id : ids, next : Nat])
  BY <1>6, Zenon
<1> QED
  BY <1>10, <1>11, <1>12, <1>13, <1>14, NextSearch, Zenon

\* A call that is over: its step is visited, and closes no cycle.
LEMMA ReturnSearch ==
  ASSUME SearchOK, Return
  PROVE  SearchOK'
<1>1. /\ verdict = "search" /\ stack # <<>> /\ def' = def /\ verdict' = verdict
      /\ Last(stack).next > Len(edges(Last(stack).id))
      /\ stack' = Front(stack)
      /\ visiting' = visiting \ {Last(stack).id}
      /\ visited' = visited \cup {Last(stack).id}
  BY DEF Return
<1>2. StackOK /\ FollowedOK /\ VisitedOK
  BY <1>1 DEF SearchOK
<1>3. PICK n \in Nat \ {0} : n = Len(stack)
  BY <1>1, TopCall
<1>4. /\ DOMAIN stack = 1 .. n /\ n \in 1 .. n /\ Last(stack) = stack[n]
      /\ \A k \in 1 .. n : /\ stack[k].id \in ids /\ stack[k].next \in Nat \ {0}
                           /\ graph[stack[k].id] = edges(stack[k].id)
                           /\ graph[stack[k].id] \in Seq(ids)
  BY <1>1, <1>3, TopCall
<1>5. PICK x \in ids : x = stack[n].id /\ x = Last(stack).id
  BY <1>4
<1>6. /\ stack' \in Seq([id : ids, next : Nat]) /\ Len(stack') = n - 1 /\ DOMAIN stack' = 1 .. n - 1
      /\ \A k \in 1 .. n - 1 : stack'[k] = stack[k]
  <2>1. PICK C : C = [id : ids, next : Nat]
    OBVIOUS
  <2>2. stack \in Seq(C)
    BY <1>2, <2>1 DEF StackOK
  <2>3. stack' = SubSeq(stack, 1, n - 1)
    BY <1>1, <1>3 DEF Front
  <2>4. /\ SubSeq(stack, 1, n - 1) \in Seq(C) /\ Len(SubSeq(stack, 1, n - 1)) = n - 1
        /\ DOMAIN SubSeq(stack, 1, n - 1) = 1 .. n - 1
        /\ \A k \in 1 .. n - 1 : SubSeq(stack, 1, n - 1)[k] = stack[k]
    BY <1>3, <2>2, FrontHolds
  <2> QED
    BY <2>1, <2>3, <2>4, Zenon
<1>7. ToSet(graph[x]) \subseteq visited
  <2>1. ASSUME NEW e \in DOMAIN graph[x]
        PROVE  graph[x][e] \in visited
    <3>1. e < stack[n].next
      BY <1>1, <1>4, <1>5
    <3>2. \/ graph[stack[n].id][e] \in visited
          \/ n < Len(stack) /\ graph[stack[n].id][e] = stack[n + 1].id
      BY <1>2, <1>4, <1>5, <3>1 DEF FollowedOK
    <3> QED
      BY <1>3, <1>5, <3>2
  <2> QED
    BY <2>1 DEF ToSet
<1>8. /\ visited' \subseteq ids
      /\ \A id \in visited' : ToSet(graph[id]) \subseteq visited'
  BY <1>1, <1>2, <1>5, <1>7 DEF VisitedOK
<1>9. ASSUME NEW S \in SUBSET visited', CyclicSet(S)
      PROVE  FALSE
  <2>1. S \subseteq visited \cup {x}
    BY <1>1, <1>5
  <2>2. S # {} /\ \A id \in S : ToSet(graph[id]) \cap S # {}
    BY <1>9 DEF CyclicSet
  <2>3. \A T \in SUBSET visited : T # {} => \E id \in T : ToSet(graph[id]) \cap T = {}
    BY <1>2 DEF VisitedOK, CyclicSet
  <2>4. x \in S /\ x \notin visited
    BY <2>1, <2>2, <2>3
  <2>5. ToSet(graph[x]) \cap S \subseteq S \ {x}
    BY <1>7, <2>4
  <2>6. S \ {x} # {} /\ S \ {x} \in SUBSET visited
    BY <2>1, <2>2, <2>4, <2>5
  <2>7. PICK id \in S \ {x} : ToSet(graph[id]) \cap (S \ {x}) = {}
    BY <2>3, <2>6
  <2>8. ToSet(graph[id]) \subseteq visited
    BY <1>2, <2>6 DEF VisitedOK
  <2> QED
    BY <2>2, <2>4, <2>7, <2>8
<1>10. /\ \A k \in DOMAIN stack' : stack'[k].next > 0
       /\ \A j, k \in DOMAIN stack' : stack'[j].id = stack'[k].id => j = k
       /\ visiting' = {stack'[k].id : k \in DOMAIN stack'}
  <2>1. \A k \in 1 .. n : k \in 1 .. n - 1 \/ k = n
    OBVIOUS
  <2>2. \A k \in 1 .. n - 1 : k \in 1 .. n /\ k # n
    OBVIOUS
  <2>3. /\ \A j, k \in 1 .. n : stack[j].id = stack[k].id => j = k
        /\ visiting = {stack[k].id : k \in 1 .. n}
        /\ \A k \in 1 .. n : stack[k].next > 0
    BY <1>2, <1>4 DEF StackOK
  <2>4. \A k \in 1 .. n - 1 : stack[k].id # x
    BY <1>4, <1>5, <2>2, <2>3
  <2>5. visiting' = {stack[k].id : k \in 1 .. n - 1}
    BY <1>1, <1>5, <2>1, <2>2, <2>3, <2>4
  <2> QED
    BY <1>6, <2>2, <2>3, <2>5
<1>11. \A k \in DOMAIN stack' :
         k < Len(stack') => \E e \in DOMAIN graph[stack'[k].id] :
                              graph[stack'[k].id][e] = stack'[k + 1].id
  <2>1. SUFFICES ASSUME NEW k \in 1 .. n - 1, k < n - 1
                 PROVE  \E e \in DOMAIN graph[stack'[k].id] : graph[stack'[k].id][e] = stack'[k + 1].id
    BY <1>6
  <2>2. k \in 1 .. n /\ k < n /\ k + 1 \in 1 .. n - 1
    BY <2>1
  <2>3. \E e \in DOMAIN graph[stack[k].id] : graph[stack[k].id][e] = stack[k + 1].id
    BY <1>2, <1>3, <1>4, <2>2 DEF StackOK
  <2> QED
    BY <1>6, <2>2, <2>3
<1>12. \A k \in DOMAIN stack' :
         \A e \in DOMAIN graph[stack'[k].id] :
           e < stack'[k].next =>
             \/ graph[stack'[k].id][e] \in visited'
             \/ k < Len(stack') /\ graph[stack'[k].id][e] = stack'[k + 1].id
  <2>1. SUFFICES ASSUME NEW k \in 1 .. n - 1, NEW e \in DOMAIN graph[stack'[k].id], e < stack'[k].next
                 PROVE  \/ graph[stack'[k].id][e] \in visited'
                        \/ k < n - 1 /\ graph[stack'[k].id][e] = stack'[k + 1].id
    BY <1>6
  <2>2. k \in 1 .. n /\ k < n /\ stack'[k] = stack[k]
    BY <1>6
  <2>3. \/ graph[stack[k].id][e] \in visited
        \/ graph[stack[k].id][e] = stack[k + 1].id
    BY <1>2, <1>4, <2>1, <2>2 DEF FollowedOK
  <2>4. CASE k = n - 1
    <3>1. stack[k + 1].id = x
      <4>1. k + 1 = n
        BY <2>4
      <4> QED
        BY <1>5, <4>1
    <3> QED
      BY <1>1, <1>5, <2>2, <2>3, <3>1
  <2>5. CASE k # n - 1
    <3>1. k + 1 \in 1 .. n - 1 /\ k < n - 1
      BY <2>2, <2>5
    <3>2. stack'[k + 1] = stack[k + 1]
      BY <1>6, <3>1
    <3> QED
      BY <1>1, <2>2, <2>3, <3>1, <3>2
  <2> QED
    BY <2>4, <2>5
<1>13. stack' \in Seq([id : ids, next : Nat])
  BY <1>6, Zenon
<1>14. \A S \in SUBSET visited' : ~ CyclicSet(S)
  BY <1>9
<1> QED
  BY <1>1, <1>8, <1>10, <1>11, <1>12, <1>13, <1>14, NextSearch, Zenon

LEMMA AcceptSearch ==
  ASSUME SearchOK, Accept
  PROVE  SearchOK'
<1>1. verdict = "search" /\ visited = ids /\ def' = def /\ verdict' = "accepted"
  BY DEF Accept
<1>2. ids' = ids /\ ChecksPass' = ChecksPass /\ graph' = graph
  BY <1>1, SameGraph
<1>3. ChecksPass /\ \A S \in SUBSET ids : ~ CyclicSet(S)
  BY <1>1 DEF SearchOK, VisitedOK
<1>4. (\A S \in SUBSET ids : ~ CyclicSet(S))'
  BY <1>2, <1>3 DEF CyclicSet
<1> QED
  BY <1>1, <1>2, <1>3, <1>4 DEF SearchOK

\* The walk leaves the search alone.
LEMMA OtherSearch ==
  ASSUME SearchOK, UNCHANGED <<def, verdict, stack, visiting, visited>>
  PROVE  SearchOK'
<1>1. ids' = ids /\ ChecksPass' = ChecksPass /\ graph' = graph
  BY SameGraph
<1> QED
  BY <1>1 DEF SearchOK, StackOK, FollowedOK, VisitedOK, CyclicSet

LEMMA VisitSearch ==
  ASSUME SearchOK, VisitNext
  PROVE  SearchOK'
<1> DEFINE next == edges(Last(stack).id)[Last(stack).next]
<1>1. /\ verdict = "search" /\ stack # <<>> /\ def' = def /\ visited' = visited
      /\ Last(stack).next <= Len(edges(Last(stack).id))
  BY DEF VisitNext
<1>2. CASE next \in visiting
  BY <1>2, CycleSearch
<1>3. CASE next \notin visiting /\ next \in visited
  <2>1. /\ verdict' = verdict /\ visiting' = visiting
        /\ stack' = [stack EXCEPT ![Len(stack)].next = @ + 1]
    BY <1>3 DEF VisitNext
  <2> QED
    BY <1>1, <1>3, <2>1, PassSearch
<1>4. CASE next \notin visited \cup visiting
  <2>1. /\ verdict' = verdict /\ visiting' = visiting \cup {next}
        /\ stack' = Append([stack EXCEPT ![Len(stack)].next = @ + 1], [id |-> next, next |-> 1])
    BY <1>4 DEF VisitNext, Push
  <2> QED
    BY <1>1, <1>4, <2>1, CallSearch
<1> QED
  BY <1>2, <1>3, <1>4

LEMMA StepSearch ==
  ASSUME SearchOK, [Next]_validatorVars
  PROVE  SearchOK'
<1>1. CASE Check
  BY <1>1, CheckSearch
<1>2. CASE VisitRoot
  BY <1>2, RootSearch
<1>3. CASE VisitNext
  BY <1>3, VisitSearch
<1>4. CASE Return
  BY <1>4, ReturnSearch
<1>5. CASE Accept
  BY <1>5, AcceptSearch
<1>6. CASE WalkStep
  BY <1>6, OtherSearch DEF WalkStep
<1>7. CASE WalkEnds
  BY <1>7, OtherSearch DEF WalkEnds
<1>8. CASE UNCHANGED validatorVars
  BY <1>8, OtherSearch DEF validatorVars
<1> QED
  BY <1>1, <1>2, <1>3, <1>4, <1>5, <1>6, <1>7, <1>8 DEF Next

LEMMA SearchInvariant == Spec => []SearchOK
<1>1. Init => SearchOK
  BY InitSearch
<1>2. SearchOK /\ [Next]_validatorVars => SearchOK'
  BY StepSearch
<1> QED
  BY <1>1, <1>2, PTL DEF Spec

\* What the engine assumes of a stored definition holds of every definition that Validate
\* accepts: the checks before the cycle search imply it.
THEOREM AcceptedDefinitions == Spec => []AcceptedIsWellFormed
<1>1. SearchOK => AcceptedIsWellFormed
  BY CheckedIsWellFormed DEF SearchOK, AcceptedIsWellFormed
<1> QED
  BY <1>1, SearchInvariant, PTL

\* validateAcyclic rejects a definition that passes the other checks exactly if the edges
\* have a cycle, whatever the order in which Go ranges over ids.
THEOREM SearchDecides == Spec => []SearchIsExact
<1>1. SearchOK => SearchIsExact
  <2>1. SUFFICES ASSUME SearchOK, ChecksPass, verdict \in {"accepted", "rejected"}
                 PROVE  verdict = "rejected" <=>
                          \E S \in (SUBSET ids) \ {{}} :
                            \A id \in S : [i \in ids |-> ToSet(edges(i))][id] \cap S # {}
    BY DEF SearchIsExact
  <2>2. \A id \in ids : [i \in ids |-> ToSet(edges(i))][id] = ToSet(graph[id])
    BY DEF graph
  <2>3. (\E S \in (SUBSET ids) \ {{}} :
           \A id \in S : [i \in ids |-> ToSet(edges(i))][id] \cap S # {})
          <=> \E S \in SUBSET ids : CyclicSet(S)
    BY <2>2 DEF CyclicSet
  <2> QED
    BY <2>1, <2>3 DEF SearchOK
<1> QED
  BY <1>1, SearchInvariant, PTL

-----------------------------------------------------------------------------
(* The steps of a branch, as the validator and as the machine collect them *)

\* What collectBranchStep follows from the step at position n.
RefsAt(n) == {steps[n].next} \cup IF steps[n].type = "condition" THEN {steps[n].then, steps[n].else} ELSE {}

\* One turn of it: the steps in S and what they refer to, up to the join.
Grown(S, join) ==
  S \cup UNION {RefsAt(n) \ {join, M!NoStep} : n \in {m \in DOMAIN steps : steps[m].id \in S}}

AreFollowed(follow, start, join, n) ==
  follow = [k \in 0 .. n |-> IF k = 0 THEN {start} \ {join} ELSE Grown(follow[k - 1], join)]

LEMMA FollowExists ==
  ASSUME NEW start, NEW join
  PROVE  \A n \in Nat : \E follow : AreFollowed(follow, start, join, n)
<1> DEFINE T == {n \in Nat : ~ \E follow : AreFollowed(follow, start, join, n)}
<1>1. SUFFICES ASSUME T # {} PROVE FALSE
  OBVIOUS
<1>2. PICK n \in T : \A m \in T : n <= m
  BY <1>1, LeastNumber
<1>3. CASE n = 0
  <2>1. PICK follow : follow = [k \in 0 .. 0 |-> {start} \ {join}]
    OBVIOUS
  <2>2. AreFollowed(follow, start, join, 0)
    BY <2>1 DEF AreFollowed
  <2> QED
    BY <1>3, <2>2
<1>4. CASE n # 0
  <2>1. n - 1 \in Nat /\ n - 1 \notin T
    BY <1>2, <1>4
  <2>2. PICK before : AreFollowed(before, start, join, n - 1)
    BY <2>1
  <2>3. PICK follow : follow = [k \in 0 .. n |-> IF k = n THEN Grown(before[n - 1], join) ELSE before[k]]
    OBVIOUS
  <2>4. \A k \in 0 .. n - 1 : follow[k] = before[k]
    BY <2>1, <2>3
  <2>5. \A k \in 0 .. n - 1 : before[k] = IF k = 0 THEN {start} \ {join} ELSE Grown(before[k - 1], join)
    BY <2>2 DEF AreFollowed
  <2>6. \A k \in 0 .. n : follow[k] = IF k = 0 THEN {start} \ {join} ELSE Grown(follow[k - 1], join)
    <3>1. TAKE k \in 0 .. n
    <3>2. CASE k = n
      BY <1>4, <2>1, <2>3, <2>4, <3>2
    <3>3. CASE k # n
      <4>1. k \in 0 .. n - 1 /\ (k # 0 => k - 1 \in 0 .. n - 1)
        BY <2>1, <3>3
      <4> QED
        BY <2>4, <2>5, <4>1
    <3> QED
      BY <3>2, <3>3
  <2>7. follow = [k \in 0 .. n |-> follow[k]]
    BY <2>3
  <2>8. AreFollowed(follow, start, join, n)
    BY <2>6, <2>7 DEF AreFollowed
  <2> QED
    BY <2>8
<1> QED
  BY <1>3, <1>4

LEMMA CollectIsLast ==
  ASSUME NEW start, NEW join, Len(steps) \in Nat
  PROVE  \E follow : /\ AreFollowed(follow, start, join, Len(steps))
                     /\ collectBranchStep(start, join) = follow[Len(steps)]
<1> DEFINE last == CHOOSE follow : AreFollowed(follow, start, join, Len(steps))
<1>1. AreFollowed(last, start, join, Len(steps))
  BY FollowExists
<1>2. collectBranchStep(start, join) = last[Len(steps)]
  BY DEF collectBranchStep, AreFollowed, Grown, RefsAt
<1> QED
  BY <1>1, <1>2

\* A set with the start of a branch and what its steps refer to holds all that is followed.
Follows(S, start, join) ==
  /\ start # join => start \in S
  /\ \A n \in DOMAIN steps : steps[n].id \in S => RefsAt(n) \ {join, M!NoStep} \subseteq S

LEMMA FollowedIsLeast ==
  ASSUME NEW start, NEW join, NEW n \in Nat, NEW follow, AreFollowed(follow, start, join, n),
         NEW S, Follows(S, start, join)
  PROVE  \A k \in 0 .. n : follow[k] \subseteq S
<1> DEFINE T == {k \in 0 .. n : ~ (follow[k] \subseteq S)}
<1>1. SUFFICES ASSUME T # {} PROVE FALSE
  OBVIOUS
<1>2. T \subseteq Nat
  OBVIOUS
<1>3. PICK k \in T : \A m \in T : k <= m
  BY <1>1, <1>2, LeastNumber
<1>4. follow[k] = IF k = 0 THEN {start} \ {join} ELSE Grown(follow[k - 1], join)
  BY DEF AreFollowed
<1>5. CASE k = 0
  BY <1>4, <1>5 DEF Follows
<1>6. CASE k # 0
  <2>1. k - 1 \in 0 .. n /\ k - 1 \notin T
    BY <1>3, <1>6
  <2>2. follow[k - 1] \subseteq S
    BY <2>1
  <2>3. Grown(follow[k - 1], join) \subseteq S
    BY <2>2 DEF Grown, Follows
  <2> QED
    BY <1>4, <1>6, <2>3
<1> QED
  BY <1>5, <1>6

\* Once a turn adds nothing, no later one does.
LEMMA FollowedIsStable ==
  ASSUME NEW start, NEW join, NEW n \in Nat, NEW follow, AreFollowed(follow, start, join, n),
         NEW k \in 0 .. n, Grown(follow[k], join) = follow[k]
  PROVE  Grown(follow[n], join) = follow[n]
<1> DEFINE T == {m \in 0 .. n : k <= m /\ follow[m] # follow[k]}
<1>1. T = {}
  <2>1. SUFFICES ASSUME T # {} PROVE FALSE
    OBVIOUS
  <2>2. T \subseteq Nat
    OBVIOUS
  <2>3. PICK m \in T : \A j \in T : m <= j
    BY <2>1, <2>2, LeastNumber
  <2>4. m # k /\ m # 0 /\ m - 1 \in 0 .. n /\ k <= m - 1 /\ m - 1 \notin T
    BY <2>3
  <2>5. follow[m] = Grown(follow[m - 1], join)
    BY <2>4 DEF AreFollowed
  <2> QED
    BY <2>4, <2>5
<1> QED
  BY <1>1

LEMMA FollowedGrows ==
  ASSUME NEW start, NEW join, NEW n \in Nat, NEW follow, AreFollowed(follow, start, join, n),
         NEW k \in 1 .. n
  PROVE  follow[k] = Grown(follow[k - 1], join) /\ follow[k - 1] \subseteq follow[k]
<1>1. follow[k] = Grown(follow[k - 1], join)
  BY DEF AreFollowed
<1> QED
  BY <1>1 DEF Grown

LEMMA StepsAreSeq ==
  ASSUME def \in Requests
  PROVE  Len(steps) \in Nat /\ DOMAIN steps = 1 .. Len(steps)
<1>1. steps \in Seq(StepRequest)
  BY RequestIsTyped
<1> QED
  BY <1>1, SeqIsFunction

LEMMA IdsAreFinite ==
  ASSUME def \in Requests
  PROVE  IsFiniteSet(ids) /\ Cardinality(ids) \in Nat /\ Cardinality(ids) <= Len(steps)
<1>1. Len(steps) \in Nat /\ DOMAIN steps = 1 .. Len(steps)
  BY StepsAreSeq
<1> DEFINE f == [n \in 1 .. Len(steps) |-> steps[n].id]
<1>2. f \in Surjection(1 .. Len(steps), ids)
  BY <1>1 DEF Surjection, ids
<1>3. IsFiniteSet(1 .. Len(steps)) /\ Cardinality(1 .. Len(steps)) = Len(steps)
  <2>1. PICK n \in Nat : n = Len(steps)
    BY <1>1
  <2>2. IsFiniteSet(1 .. n) /\ Cardinality(1 .. n) = IF 1 > n THEN 0 ELSE n - 1 + 1
    BY FS_Interval
  <2> QED
    BY <2>1, <2>2
<1>4. IsFiniteSet(ids) /\ Cardinality(ids) <= Len(steps)
  BY <1>2, <1>3, FS_Surjection
<1> QED
  BY <1>4, FS_CardinalityType

\* As many turns as there are steps suffice: each one that adds a step takes it from those left.
LEMMA FollowedStops ==
  ASSUME def \in Requests, NEW start, NEW join, NEW follow,
         AreFollowed(follow, start, join, Len(steps)), Follows(ids, start, join)
  PROVE  Grown(follow[Len(steps)], join) = follow[Len(steps)]
<1>1. PICK n \in Nat : n = Len(steps)
  BY StepsAreSeq
<1>2. \A k \in 0 .. n : follow[k] \subseteq ids
  BY <1>1, FollowedIsLeast
<1>3. \A k \in 0 .. n : /\ IsFiniteSet(follow[k]) /\ Cardinality(follow[k]) \in Nat
                        /\ Cardinality(follow[k]) <= n
  <2>1. TAKE k \in 0 .. n
  <2>2. IsFiniteSet(follow[k]) /\ Cardinality(follow[k]) <= Cardinality(ids)
    BY <1>2, IdsAreFinite, FS_Subset
  <2>3. Cardinality(follow[k]) \in Nat
    BY <2>2, FS_CardinalityType
  <2> QED
    BY <1>1, <2>2, <2>3, IdsAreFinite
<1>4. follow[0] = {start} \ {join}
  BY <1>1 DEF AreFollowed
<1>5. CASE start = join
  <2>1. follow[0] = {}
    BY <1>4, <1>5
  <2>2. Grown({}, join) = {}
    BY DEF Grown
  <2>3. Grown(follow[0], join) = follow[0] /\ 0 \in 0 .. n
    BY <2>1, <2>2
  <2> QED
    BY <1>1, <2>3, FollowedIsStable
<1>6. CASE start # join
  <2> DEFINE T == {k \in 0 .. n : Cardinality(follow[k]) <= k}
  <2>1. T \subseteq Nat /\ n \in T
    BY <1>3
  <2>2. PICK k \in T : \A m \in T : k <= m
    BY <2>1, LeastNumber
  <2>3. follow[0] = {start}
    BY <1>4, <1>6
  <2>4. Cardinality(follow[0]) = 1
    BY <2>3, FS_Singleton
  <2>5. k # 0
    BY <2>2, <2>4
  <2>6. k - 1 \in 0 .. n /\ k - 1 \notin T /\ k \in 1 .. n
    BY <2>2, <2>5
  <2>7. PICK p, q : p = Cardinality(follow[k - 1]) /\ q = Cardinality(follow[k])
    OBVIOUS
  <2>8. p \in Nat /\ q \in Nat /\ p > k - 1 /\ q <= k
    BY <1>3, <2>2, <2>6, <2>7
  <2>9. follow[k] = Grown(follow[k - 1], join) /\ follow[k - 1] \subseteq follow[k]
    BY <1>1, <2>6, FollowedGrows
  <2>10. p <= q /\ (p = q => follow[k - 1] = follow[k])
    BY <1>3, <2>6, <2>7, <2>9, FS_Subset
  <2>11. Grown(follow[k - 1], join) = follow[k - 1]
    BY <2>8, <2>9, <2>10
  <2> QED
    BY <1>1, <2>6, <2>11, FollowedIsStable
<1> QED
  BY <1>5, <1>6

\* The machine finds the step at a position by its name.
LEMMA StoredStep ==
  ASSUME def \in Requests, ChecksPass, NEW n \in DOMAIN steps
  PROVE  /\ DOMAIN Stored = DOMAIN steps
         /\ M!Position(steps[n].id) = n
         /\ M!StepByID(steps[n].id) = Stored[n]
         /\ Stored[n].id = steps[n].id /\ Stored[n].type = steps[n].type
         /\ Stored[n].next = steps[n].next /\ Stored[n].then = steps[n].then
         /\ Stored[n].else = steps[n].else /\ Stored[n].branches = steps[n].branches
         /\ Stored[n].join = steps[n].join /\ Stored[n].onFailure = steps[n].onFailure
<1>1. DOMAIN Stored = DOMAIN steps /\ \A m \in DOMAIN steps : Stored[m].id = steps[m].id
  BY DEF Stored
<1>2. \A m \in DOMAIN steps : steps[m].id = steps[n].id => m = n
  BY DEF ChecksPass, UniqueIds
<1>3. PICK id : id = steps[n].id
  OBVIOUS
<1>4. (CHOOSE m \in DOMAIN Stored : Stored[m].id = id) = n
  BY <1>1, <1>2, <1>3
<1>5. M!Position(id) = n /\ M!StepByID(id) = Stored[n]
  BY <1>4 DEF M!Position, M!StepByID
<1> QED
  BY <1>1, <1>3, <1>5 DEF Stored

LEMMA StoredIds ==
  ASSUME def \in Requests
  PROVE  M!StepIds = ids /\ M!CompensationRefs = compensation
<1>1. DOMAIN Stored = DOMAIN steps
  BY DEF Stored
<1>2. \A m \in DOMAIN steps : Stored[m].id = steps[m].id /\ Stored[m].onFailure = steps[m].onFailure
  BY DEF Stored
<1> QED
  BY <1>1, <1>2 DEF M!StepIds, ids, M!CompensationRefs, compensation

LEMMA StoredRefs ==
  ASSUME def \in Requests, ChecksPass, NEW n \in DOMAIN steps
  PROVE  M!branchRefs(steps[n].id) = RefsAt(n) \ {M!NoStep}
BY StoredStep DEF M!branchRefs, RefsAt

\* The validator's branch steps are the machine's.
LEMMA CollectIsBranchSteps ==
  ASSUME def \in Requests, ChecksPass, NEW start \in ids, NEW join
  PROVE  collectBranchStep(start, join) = M!BranchSteps(start, join)
<1>1. PICK follow : /\ AreFollowed(follow, start, join, Len(steps))
                    /\ collectBranchStep(start, join) = follow[Len(steps)]
  BY StepsAreSeq, CollectIsLast
<1>2. PICK C : C = collectBranchStep(start, join)
  OBVIOUS
<1>3. \A S : Follows(S, start, join) => C \subseteq S
  <2>1. SUFFICES ASSUME NEW S, Follows(S, start, join) PROVE C \subseteq S
    OBVIOUS
  <2>2. PICK n \in Nat : n = Len(steps)
    BY StepsAreSeq
  <2>3. \A k \in 0 .. n : follow[k] \subseteq S
    BY <1>1, <2>1, <2>2, FollowedIsLeast
  <2> QED
    BY <1>1, <1>2, <2>2, <2>3
<1>4. Follows(ids, start, join)
  <2>1. \A n \in DOMAIN steps : RefsAt(n) \subseteq ids \cup {M!NoStep}
    BY CheckedRefs DEF RefsAt, M!NoStep
  <2> QED
    BY <2>1 DEF Follows
<1>5. Grown(C, join) = C
  BY <1>1, <1>2, <1>4, FollowedStops
<1>6. start # join => start \in C
  <2>1. PICK n \in Nat : n = Len(steps)
    BY StepsAreSeq
  <2>2. \A k \in 1 .. n : follow[k] = Grown(follow[k - 1], join) /\ follow[k - 1] \subseteq follow[k]
    BY <1>1, <2>1, FollowedGrows
  <2>3. follow[0] = {start} \ {join}
    BY <1>1, <2>1 DEF AreFollowed
  <2>4. SUFFICES ASSUME start # join PROVE start \in C
    OBVIOUS
  <2> DEFINE T == {k \in 0 .. n : start \notin follow[k]}
  <2>5. T = {}
    <3>1. SUFFICES ASSUME T # {} PROVE FALSE
      OBVIOUS
    <3>2. T \subseteq Nat
      OBVIOUS
    <3>3. PICK k \in T : \A m \in T : k <= m
      BY <3>1, <3>2, LeastNumber
    <3>4. k # 0
      BY <2>3, <2>4
    <3>5. k - 1 \in 0 .. n /\ k - 1 \notin T /\ k \in 1 .. n
      BY <3>3, <3>4
    <3> QED
      BY <2>2, <3>5
  <2> QED
    BY <1>1, <1>2, <2>1, <2>5
<1>7. Follows(C, start, join)
  BY <1>5, <1>6 DEF Follows, Grown
<1>8. C \subseteq ids
  BY <1>3, <1>4
<1>9. \A S \in SUBSET ids :
        Follows(S, start, join) <=> /\ start # join => start \in S
                                    /\ \A s \in S : M!branchRefs(s) \ {join} \subseteq S
  <2>1. TAKE S \in SUBSET ids
  <2>2. \A s \in S : \E n \in DOMAIN steps : s = steps[n].id
    BY DEF ids
  <2>3. \A n \in DOMAIN steps : M!branchRefs(steps[n].id) \ {join} = RefsAt(n) \ {join, M!NoStep}
    BY StoredRefs
  <2> QED
    BY <2>2, <2>3 DEF Follows
<1>10. M!BranchSteps(start, join) = {s \in ids : \A S \in SUBSET ids : Follows(S, start, join) => s \in S}
  BY <1>9, StoredIds DEF M!BranchSteps
<1> QED
  BY <1>2, <1>3, <1>7, <1>8, <1>10

LEMMA SameMin == ASSUME NEW S PROVE M!Min(S) = Min(S)
BY DEF Min, M!Min

LEMMA StoredJoin ==
  ASSUME def \in Requests, ChecksPass, NEW n \in DOMAIN steps
  PROVE  M!JoinOf(steps[n].id) = joinStepID(n)
<1>1. PICK id : id = steps[n].id
  OBVIOUS
<1>2. M!Position(id) = n /\ DOMAIN Stored = DOMAIN steps /\ M!StepByID(id).join = steps[n].join
  BY <1>1, StoredStep
<1>3. \A m \in DOMAIN steps : Stored[m].type = steps[m].type /\ Stored[m].id = steps[m].id
  BY DEF Stored
<1>4. {m \in DOMAIN Stored : m > M!Position(id) /\ Stored[m].type = "join"}
        = {m \in DOMAIN steps : m > n /\ steps[m].type = "join"}
  BY <1>2, <1>3
<1>5. PICK later : later = {m \in DOMAIN steps : m > n /\ steps[m].type = "join"}
  OBVIOUS
<1>6. later # {} => Min(later) \in DOMAIN steps
  <2>1. later \subseteq Nat
    BY <1>5, StepsAreSeq
  <2> QED
    BY <1>5, <2>1, LeastNatural
<1>7. M!firstJoinAfter(id) = IF later = {} THEN M!NoStep ELSE Stored[Min(later)].id
  BY <1>4, <1>5, SameMin DEF M!firstJoinAfter
<1>8. firstJoinAfter(n) = IF later = {} THEN M!NoStep ELSE steps[Min(later)].id
  BY <1>5 DEF firstJoinAfter
<1>9. M!firstJoinAfter(id) = firstJoinAfter(n)
  BY <1>3, <1>6, <1>7, <1>8
<1> QED
  BY <1>1, <1>2, <1>9 DEF M!JoinOf, joinStepID

LEMMA StoredForks ==
  ASSUME def \in Requests
  PROVE  M!ForkIds = {steps[n].id : n \in {m \in DOMAIN steps : steps[m].type = "fork"}}
<1>1. DOMAIN Stored = DOMAIN steps
  BY DEF Stored
<1>2. \A m \in DOMAIN steps : Stored[m].id = steps[m].id /\ Stored[m].type = steps[m].type
  BY DEF Stored
<1> QED
  BY <1>1, <1>2 DEF M!ForkIds

\* validateAcyclic and NewMachine leave the same steps out of the normal path.
LEMMA SameNormalPath ==
  ASSUME def \in Requests, ChecksPass
  PROVE  /\ collectForkBranchSteps = M!collectForkBranchSteps
         /\ normalSteps = M!NormalPositions
<1>1. \A n \in DOMAIN steps : \A b \in ToSet(steps[n].branches) :
        collectBranchStep(b, joinStepID(n)) = M!BranchSteps(b, M!JoinOf(steps[n].id))
  <2>1. TAKE n \in DOMAIN steps
  <2>2. TAKE b \in ToSet(steps[n].branches)
  <2>3. b \in ids
    <3>1. PICK s \in Seq(ids) : s = steps[n].branches
      BY CheckedRefs
    <3> QED
      BY <2>2, <3>1 DEF ToSet
  <2> QED
    BY <2>3, CollectIsBranchSteps, StoredJoin
<1>2. \A n \in DOMAIN steps : M!StepByID(steps[n].id).branches = steps[n].branches
  BY StoredStep
<1>3. \A s : M!ToSet(s) = ToSet(s)
  BY DEF ToSet, M!ToSet
<1>4. \A x : x \in collectForkBranchSteps <=>
        \E n \in DOMAIN steps : /\ steps[n].type = "fork"
                                /\ \E b \in ToSet(steps[n].branches) : x \in collectBranchStep(b, joinStepID(n))
  BY DEF collectForkBranchSteps
<1>5. \A x : x \in M!collectForkBranchSteps <=>
        \E f \in M!ForkIds : \E b \in ToSet(M!StepByID(f).branches) : x \in M!BranchSteps(b, M!JoinOf(f))
  BY <1>3 DEF M!collectForkBranchSteps
<1>6. \A x : x \in M!collectForkBranchSteps <=>
        \E n \in DOMAIN steps : /\ steps[n].type = "fork"
                                /\ \E b \in ToSet(steps[n].branches) : x \in M!BranchSteps(b, M!JoinOf(steps[n].id))
  BY <1>2, <1>5, StoredForks
<1>7. collectForkBranchSteps = M!collectForkBranchSteps
  <2>1. ASSUME NEW x PROVE x \in collectForkBranchSteps <=> x \in M!collectForkBranchSteps
    BY <1>1, <1>4, <1>6
  <2> QED
    BY <2>1
<1>8. DOMAIN Stored = DOMAIN steps /\ \A n \in DOMAIN steps : Stored[n].id = steps[n].id
  BY DEF Stored
<1> QED
  BY <1>7, <1>8, StoredIds DEF normalSteps, M!NormalPositions

\* From a step on the normal path, edges lead to all that the machine may choose next.
LEMMA NormalEdges ==
  ASSUME def \in Requests, ChecksPass, NEW n \in normalSteps
  PROVE  /\ n \in DOMAIN steps
         /\ {steps[n].next, steps[n].then, steps[n].else, M!NextNormal(steps[n].id)} \ {M!NoStep}
              \subseteq ToSet(edges(steps[n].id))
<1> DEFINE own   == {m \in normalSteps : steps[m].id = steps[n].id}
           later == {m \in normalSteps : m > n}
<1>1. /\ ids \subseteq STRING
      /\ \A m \in DOMAIN steps : steps[m].id \in ids
      /\ n \in DOMAIN steps /\ normalSteps \subseteq DOMAIN steps /\ DOMAIN steps \subseteq Nat
  <2>1. ids \subseteq STRING
    BY RequestIsTyped
  <2>2. normalSteps \subseteq DOMAIN steps
    BY DEF normalSteps
  <2>3. DOMAIN steps \subseteq Nat
    BY StepsAreSeq
  <2> QED
    BY <2>1, <2>2, <2>3 DEF ids
<1>2. own = {n}
  BY <1>1 DEF ChecksPass, UniqueIds
<1>3. Min(own) = n
  <2>1. Min({n}) \in {n}
    BY <1>1, LeastNatural
  <2> QED
    BY <1>2, <2>1
<1>4. edges(steps[n].id) = (IF later = {} THEN <<>> ELSE <<steps[Min(later)].id>>)
                             \o explicitRefs(steps[n]) \o appended(steps[n].onFailure)
  <2>1. PICK i : i = steps[n].id
    OBVIOUS
  <2>2. own = {m \in normalSteps : steps[m].id = i} /\ own # {}
    BY <1>2, <2>1
  <2>3. edges(i) = (IF {m \in normalSteps : m > Min(own)} = {} THEN <<>>
                    ELSE <<steps[Min({m \in normalSteps : m > Min(own)})].id>>)
                     \o explicitRefs(steps[Min(own)]) \o appended(steps[Min(own)].onFailure)
    BY <2>2, Zenon DEF edges
  <2> HIDE DEF own
  <2> QED
    BY <1>3, <2>1, <2>3
<1>5. PICK first \in Seq(STRING) :
        /\ first = IF later = {} THEN <<>> ELSE <<steps[Min(later)].id>>
        /\ later # {} => ToSet(first) = {steps[Min(later)].id}
  <2>1. CASE later = {}
    <3>1. <<>> \in Seq(STRING)
      OBVIOUS
    <3> QED
      BY <2>1, <3>1
  <2>2. CASE later # {}
    <3>1. Min(later) \in DOMAIN steps
      BY <1>1, <2>2, LeastNatural
    <3>2. PICK s \in ids : s = steps[Min(later)].id
      BY <1>1, <3>1
    <3>3. s \in STRING
      BY <1>1
    <3>4. <<s>> \in Seq(STRING) /\ ToSet(<<s>>) = {s}
      BY <3>3, Singleton, Zenon
    <3> QED
      BY <2>2, <3>2, <3>4
  <2> QED
    BY <2>1, <2>2
<1>6. steps[n] \in StepRequest
  BY <1>1, RequestIsTyped
<1>7. PICK middle \in Seq(STRING) : middle = explicitRefs(steps[n])
  BY <1>6, ExplicitRefsHold
<1>8. PICK last \in Seq(STRING) : last = appended(steps[n].onFailure)
  <2>1. steps[n].onFailure \in STRING
    BY <1>6 DEF StepRequest
  <2> QED
    BY <2>1, AppendedHolds
<1>9. PICK e : e = edges(steps[n].id) /\ e = (first \o middle) \o last
  <2> HIDE DEF later
  <2> QED
    BY <1>4, <1>5, <1>7, <1>8
<1>10. ToSet(first) \subseteq ToSet(e) /\ ToSet(middle) \subseteq ToSet(e)
  <2>1. first \o middle \in Seq(STRING) /\ ToSet(first \o middle) = ToSet(first) \cup ToSet(middle)
    BY ConcatHolds
  <2>2. ToSet((first \o middle) \o last) = ToSet(first \o middle) \cup ToSet(last)
    BY <2>1, ConcatHolds
  <2> QED
    BY <1>9, <2>1, <2>2
<1>11. {steps[n].next} \ {M!NoStep} \subseteq ToSet(middle)
  BY <1>6, <1>7, ExplicitRefsHold
<1>12. {steps[n].then, steps[n].else} \ {M!NoStep} \subseteq ToSet(middle)
  <2>1. CASE steps[n].type = "condition"
    BY <1>6, <1>7, <2>1, ExplicitRefsHold
  <2>2. CASE steps[n].type # "condition"
    BY <1>1, <2>2, RequestIsTyped DEF M!NoStep
  <2> QED
    BY <2>1, <2>2
<1>13. {M!NextNormal(steps[n].id)} \ {M!NoStep} \subseteq ToSet(first)
  <2>1. PICK i : i = steps[n].id
    OBVIOUS
  <2>2. M!Position(i) = n /\ M!NormalPositions = normalSteps
    BY <1>1, <2>1, StoredStep, SameNormalPath
  <2>3. M!NextNormal(i) = IF n \in normalSteps /\ later # {} THEN Stored[Min(later)].id ELSE M!NoStep
    BY <2>2, SameMin DEF M!NextNormal
  <2>4. later # {} => Stored[Min(later)].id = steps[Min(later)].id
    <3>1. later # {} => Min(later) \in DOMAIN steps
      BY <1>1, LeastNatural
    <3>2. \A m \in DOMAIN steps : Stored[m].id = steps[m].id
      BY DEF Stored
    <3> HIDE DEF later
    <3> QED
      BY <3>1, <3>2
  <2> HIDE DEF later
  <2> QED
    BY <1>5, <2>1, <2>3, <2>4
<1> QED
  BY <1>1, <1>9, <1>10, <1>11, <1>12, <1>13

-----------------------------------------------------------------------------
(* The walk on the normal path *)

\* The steps it has run lie along the edges, and no two are the same.
TrailOK ==
  /\ trail \in Seq(ids)
  /\ \A j, k \in DOMAIN trail : trail[j] = trail[k] => j = k
  /\ \A k \in DOMAIN trail : k < Len(trail) => trail[k + 1] \in ToSet(graph[trail[k]])

NoForks == [f \in M!ForkIds |-> M!NoFork]

Record(c) ==
  c = [status |-> c.status, cur |-> c.cur, steps |-> c.steps, completed |-> c.completed,
       queue |-> c.queue, forks |-> c.forks]

Fields(s, u, t, p, q, f) ==
  [status |-> s, cur |-> u, steps |-> t, completed |-> p, queue |-> q, forks |-> f]

LEMMA RecordOf ==
  ASSUME NEW s, NEW u, NEW t, NEW p, NEW q, NEW f, NEW c, c = Fields(s, u, t, p, q, f)
  PROVE  /\ Record(c) /\ c.status = s /\ c.cur = u /\ c.steps = t /\ c.completed = p
         /\ c.queue = q /\ c.forks = f
BY DEF Record, Fields

LEMMA RecordHas ==
  ASSUME NEW c, Record(c)
  PROVE  c = Fields(c.status, c.cur, c.steps, c.completed, c.queue, c.forks)
BY DEF Record, Fields

AtStart == trail = <<>> /\ content = M!NewRuntimeState("pending")

\* It goes on with a step off the normal path, or along an edge with no fork started.
Underway ==
  /\ trail # <<>>
  /\ Record(content)
  /\ content.status = "running" /\ content.queue = <<>>
  /\ content.steps = [s \in ids |-> content.steps[s]]
  /\ \A s \in ids : content.steps[s].status = "completed" => s \in ToSet(trail)
  /\ content.cur \in ids
  /\ \/ content.cur \in OffPath
     \/ content.forks = NoForks /\ content.cur \in ToSet(graph[trail[Len(trail)]])

OnPath == \A k \in DOMAIN trail : trail[k] \notin OffPath

WalkOK ==
  /\ \E S : trail \in Seq(S)
  /\ verdict # "accepted" => AtStart
  /\ verdict = "accepted" /\ OnPath =>
       TrailOK /\ (content.status \in M!Terminal \/ AtStart \/ Underway)

\* An accepted definition has no edge from the end of the walk back to one of its steps.
LEMMA NoWayBack ==
  ASSUME SearchOK, verdict = "accepted", TrailOK, trail # <<>>,
         NEW x \in ToSet(graph[trail[Len(trail)]])
  PROVE  x \notin ToSet(trail)
<1>1. PICK n \in Nat : n = Len(trail) /\ n # 0 /\ DOMAIN trail = 1 .. n
  <2>1. Len(trail) \in Nat /\ DOMAIN trail = 1 .. Len(trail)
    BY SeqIsFunction DEF TrailOK
  <2>2. Len(trail) # 0
    BY EmptyIsEmpty DEF TrailOK
  <2> QED
    BY <2>1, <2>2
<1>2. SUFFICES ASSUME NEW j \in 1 .. n, x = trail[j] PROVE FALSE
  BY <1>1 DEF ToSet
<1>3. PICK S : S = {trail[k] : k \in j .. n}
  OBVIOUS
<1>4. S \subseteq ids
  BY <1>1, <1>3 DEF TrailOK
<1>5. ASSUME NEW id \in S PROVE ToSet(graph[id]) \cap S # {}
  <2>1. PICK k \in j .. n : id = trail[k]
    BY <1>3, <1>5
  <2>2. CASE k < n
    <3>1. trail[k + 1] \in ToSet(graph[trail[k]])
      BY <1>1, <2>1, <2>2 DEF TrailOK
    <3>2. k + 1 \in j .. n
      BY <2>1, <2>2
    <3> QED
      BY <1>3, <2>1, <3>1, <3>2
  <2>3. CASE k = n
    <3>1. x \in ToSet(graph[id]) /\ x \in S
      BY <1>1, <1>2, <1>3, <2>1, <2>3
    <3> QED
      BY <3>1
  <2> QED
    BY <2>1, <2>2, <2>3
<1>6. CyclicSet(S)
  <2>1. trail[j] \in S
    BY <1>2, <1>3
  <2> QED
    BY <1>5, <2>1 DEF CyclicSet
<1> QED
  BY <1>4, <1>6 DEF SearchOK

\* The first step of the normal path.
LEMMA FirstIsStep ==
  ASSUME def \in Requests, ChecksPass, M!FirstNormal # M!NoStep
  PROVE  M!FirstNormal \in ids
<1>1. PICK N \in SUBSET Nat : N = M!NormalPositions /\ N \subseteq DOMAIN steps
  <2>1. normalSteps \subseteq DOMAIN steps
    BY DEF normalSteps
  <2> QED
    BY <2>1, SameNormalPath, StepsAreSeq
<1>2. N # {}
  BY <1>1 DEF M!FirstNormal
<1>3. Min(N) \in DOMAIN steps
  BY <1>1, <1>2, LeastNatural
<1>4. M!FirstNormal = Stored[Min(N)].id
  BY <1>1, <1>2, SameMin DEF M!FirstNormal
<1>5. Stored[Min(N)].id = steps[Min(N)].id
  BY <1>3 DEF Stored
<1> QED
  BY <1>3, <1>4, <1>5 DEF ids

\* The step that is run next on the normal path.
LEMMA NextOnPath ==
  ASSUME SearchOK, verdict = "accepted", TrailOK, OnPath, AtStart \/ Underway,
         NEW x, x = M!StepToRun(content).next, x # M!NoStep, x \notin OffPath
  PROVE  /\ x \in ids /\ x \notin ToSet(trail)
         /\ trail # <<>> => x \in ToSet(graph[trail[Len(trail)]])
         /\ M!StepToRun(content) = [next |-> x, forks |-> content.forks]
         /\ content.forks = NoForks /\ Record(content)
         /\ content.queue = <<>> /\ content.status # "compensating"
         /\ content.steps = [s \in ids |-> content.steps[s]]
         /\ \A s \in ids : content.steps[s].status = "completed" => s \in ToSet(trail)
<1>0. def \in Requests /\ ChecksPass
  BY DEF SearchOK
<1>1. CASE AtStart
  <2>1. PICK c : /\ c = content
                 /\ c = [status |-> "pending", cur |-> M!NoStep, steps |-> [s \in ids |-> M!NoState],
                         completed |-> <<>>, queue |-> <<>>, forks |-> NoForks]
    BY <1>0, <1>1, StoredIds DEF AtStart, M!NewRuntimeState, NoForks
  <2>2. /\ c.status = "pending" /\ c.cur = M!NoStep /\ c.steps = [s \in ids |-> M!NoState]
        /\ c.queue = <<>> /\ c.forks = NoForks /\ Record(c)
    BY <2>1 DEF Record
  <2>3. M!StepToRun(c) = [next |-> M!FirstNormal, forks |-> c.forks]
    BY <2>2 DEF M!StepToRun, M!Compensates, M!StepForCurrent
  <2>4. x = M!FirstNormal
    BY <2>1, <2>3
  <2>5. x \in ids
    BY <1>0, <2>4, FirstIsStep
  <2>6. ToSet(trail) = {}
    BY <1>1 DEF AtStart, ToSet
  <2>7. \A s \in ids : c.steps[s].status # "completed"
    <3>1. M!NoState.status = ""
      BY DEF M!NoState
    <3>2. \A s \in ids : c.steps[s] = M!NoState
      BY <2>2
    <3> QED
      BY <3>1, <3>2
  <2> QED
    BY <1>1, <2>1, <2>2, <2>3, <2>4, <2>5, <2>6, <2>7 DEF AtStart
<1>2. CASE Underway
  <2>1. PICK c : c = content
    OBVIOUS
  <2>2. /\ c.status = "running" /\ c.queue = <<>> /\ c.cur \in ids
        /\ c.steps[c.cur].status = "completed" => c.cur \in ToSet(trail)
    BY <1>2, <2>1 DEF Underway
  <2>3. c.cur # M!NoStep
    BY <1>0, <2>2 DEF ChecksPass, UniqueIds
  <2>4. c.cur \notin ToSet(trail)
    <3>1. CASE c.cur \in OffPath
      BY <3>1 DEF OnPath, ToSet
    <3>2. CASE c.cur \in ToSet(graph[trail[Len(trail)]])
      BY <1>2, <3>2, NoWayBack DEF Underway
    <3> QED
      BY <1>2, <2>1, <3>1, <3>2 DEF Underway
  <2>5. M!StepToRun(c) = [next |-> c.cur, forks |-> c.forks]
    BY <2>2, <2>3, <2>4 DEF M!StepToRun, M!Compensates, M!StepForCurrent
  <2>6. x = c.cur
    BY <2>1, <2>5
  <2> QED
    BY <1>2, <2>1, <2>2, <2>4, <2>5, <2>6 DEF Underway
<1> QED
  BY <1>1, <1>2

\* Where the machine goes from a step of the normal path.
LEMMA AfterOnPath ==
  ASSUME def \in Requests, ChecksPass, NEW x \in ids, x \notin OffPath, NEW result,
         result \in {M!NoStep, M!StepByID(x).next, M!StepByID(x).then, M!StepByID(x).else}
           \/ M!StepByID(x).type = "fork",
         NEW after, after = M!NextAfter(NoForks, x, result), after.next # M!NoStep
  PROVE  /\ after.next \in ids
         /\ \/ after.next \in OffPath
            \/ after.forks = NoForks /\ after.next \in ToSet(graph[x])
<1>1. PICK n \in DOMAIN steps : x = steps[n].id
  BY DEF ids
<1>2. PICK step : step = M!StepByID(x)
  OBVIOUS
<1>3. /\ step.type = steps[n].type /\ step.next = steps[n].next /\ step.then = steps[n].then
      /\ step.else = steps[n].else /\ step.branches = steps[n].branches
  BY <1>1, <1>2, StoredStep
<1>4. CASE step.type = "fork"
  <2>1. x \in M!ForkIds
    BY <1>1, <1>3, <1>4, StoredForks
  <2>2. PICK branches \in Seq(ids) : branches = step.branches /\ branches # <<>>
    <3>1. steps[n].branches \in Seq(ids)
      BY CheckedRefs
    <3>2. steps[n].branches # <<>>
      BY <1>3, <1>4 DEF ChecksPass, validateStep
    <3> QED
      BY <1>3, <3>1, <3>2
  <2>3. PICK list : list = [m \in DOMAIN branches |-> [cur |-> branches[m], status |-> "pending"]]
    OBVIOUS
  <2>4. PICK forks : /\ forks = M!startFork(NoForks, x)
                     /\ forks = [NoForks EXCEPT ![x] = [status |-> "running", join |-> M!JoinOf(x),
                                                        branches |-> list]]
    <3>1. NoForks[x].status = ""
      BY <2>1 DEF NoForks, M!NoFork
    <3> QED
      BY <1>2, <2>2, <2>3, <3>1 DEF M!startFork
  <2>5. PICK fork : fork = forks[x] /\ fork.branches = list
    BY <2>1, <2>4 DEF NoForks
  <2>6. DOMAIN list = DOMAIN branches /\ \A m \in DOMAIN list : list[m].status = "pending" /\ list[m].cur = branches[m]
    BY <2>3
  <2>7. {m \in DOMAIN list : list[m].status \in {"pending", "running"}} = DOMAIN branches
    BY <2>6
  <2>8. DOMAIN branches # {} /\ DOMAIN branches \subseteq Nat
    <3>1. Len(branches) \in Nat /\ DOMAIN branches = 1 .. Len(branches)
      BY SeqIsFunction
    <3>2. Len(branches) # 0
      BY <2>2, EmptyIsEmpty
    <3>3. 1 \in DOMAIN branches
      BY <3>1, <3>2
    <3> QED
      BY <3>1, <3>3
  <2>9. Min(DOMAIN branches) \in DOMAIN branches
    BY <2>8, LeastNatural
  <2>10. M!NextAfter(NoForks, x, result) = M!nextForkStep(forks, x)
    BY <1>2, <1>4, <2>4 DEF M!NextAfter
  <2>11. M!nextForkStep(forks, x).next = list[Min(DOMAIN branches)].cur
    BY <2>5, <2>7, <2>8, SameMin DEF M!nextForkStep
  <2>12. after.next = branches[Min(DOMAIN branches)]
    BY <2>6, <2>9, <2>10, <2>11
  <2>13. after.next \in ids /\ after.next \in ToSet(branches)
    BY <2>9, <2>12 DEF ToSet
  <2>14. after.next \in OffPath
    BY <1>2, <2>1, <2>2, <2>13 DEF OffPath
  <2> QED
    BY <2>13, <2>14
<1>5. CASE step.type # "fork"
  <2>1. M!BranchesAt(NoForks, x) = {}
    <3>1. \A f \in M!ForkIds : DOMAIN (NoForks[f].branches) = {}
      <4>1. M!NoFork.branches = <<>> /\ DOMAIN <<>> = {}
        BY DEF M!NoFork
      <4>2. \A f \in M!ForkIds : NoForks[f] = M!NoFork
        BY DEF NoForks
      <4> QED
        BY <4>1, <4>2
    <3> QED
      BY <3>1 DEF M!BranchesAt, M!RunningBranches
  <2>2. x # M!NoStep
    BY DEF ChecksPass, UniqueIds
  <2>3. M!markJoined(NoForks, x) = NoForks
    <3>1. \A f \in M!ForkIds : NoForks[f] = M!NoFork
      BY DEF NoForks
    <3>2. M!NoFork.join = M!NoStep
      BY DEF M!NoFork
    <3>3. M!markJoined(NoForks, x) = [f \in M!ForkIds |-> NoForks[f]]
      BY <2>2, <3>1, <3>2 DEF M!markJoined
    <3> QED
      BY <3>1, <3>3 DEF NoForks
  <2>4. PICK named : named = IF result # M!NoStep THEN result ELSE step.next
    OBVIOUS
  <2>5. after = [forks |-> NoForks,
                 next  |-> IF named # M!NoStep THEN named
                           ELSE IF step.type = "condition" THEN M!NoStep ELSE M!NextNormal(x)]
    BY <1>2, <1>5, <2>1, <2>3, <2>4 DEF M!NextAfter
  <2>6. after.forks = NoForks /\ after.next \in {step.next, step.then, step.else, M!NextNormal(x)} \ {M!NoStep}
    BY <1>2, <1>5, <2>4, <2>5
  <2>7. n \in normalSteps
    BY <1>1, SameNormalPath, StoredIds DEF OffPath, normalSteps
  <2>8. after.next \in ToSet(edges(x))
    BY <1>1, <1>3, <2>6, <2>7, NormalEdges
  <2>9. edges(x) \in Seq(ids) /\ graph[x] = edges(x)
    BY EdgesLeadToSteps, GraphIsTyped
  <2>10. ToSet(edges(x)) \subseteq ids
    <3>1. PICK e \in Seq(ids) : e = edges(x)
      BY <2>9
    <3> QED
      BY <3>1 DEF ToSet
  <2> QED
    BY <2>6, <2>8, <2>9, <2>10
<1> QED
  BY <1>4, <1>5

\* What a step of the normal path makes of the content.
LEMMA RunOnPath ==
  ASSUME def \in Requests, ChecksPass, NEW x \in ids, x \notin OffPath, NEW c, Record(c),
         M!StepToRun(c) = [next |-> x, forks |-> c.forks],
         c.forks = NoForks, c.queue = <<>>, c.status # "compensating",
         c.steps = [s \in ids |-> c.steps[s]],
         NEW out \in Successes(M!StartStep(c, 1)), NEW d, d = M!HandleResult(M!StartStep(c, 1), out)
  PROVE  /\ M!StartStep(c, 1).cur = x
         /\ d.status \in M!Terminal
            \/ /\ Record(d) /\ d.status = "running" /\ d.queue = <<>>
               /\ d.steps = [s \in ids |-> d.steps[s]]
               /\ \A s \in ids : d.steps[s].status = "completed" =>
                    s = x \/ c.steps[s].status = "completed"
               /\ d.cur \in ids
               /\ \/ d.cur \in OffPath
                  \/ d.forks = NoForks /\ d.cur \in ToSet(graph[x])
<1>1. ~ M!Compensates(c)
  BY DEF M!Compensates
<1>2. PICK state : M!StartStep(c, 1)
         = Fields("running", x, [c.steps EXCEPT ![x] = state], c.completed, c.queue, c.forks)
  <2>1. PICK c1 : c1 = [c EXCEPT !.forks = c.forks]
    OBVIOUS
  <2>2. c1 = c
    BY <2>1 DEF Record
  <2>3. M!StartStep(c, 1) = M!markStepRunning(c, x, "running", 1)
    BY <1>1, <2>1, <2>2 DEF M!StartStep
  <2>4. PICK state : M!markStepRunning(c, x, "running", 1)
                       = [c EXCEPT !.status = "running", !.cur = x, !.steps[x] = state]
    BY DEF M!markStepRunning
  <2>5. PICK s, u, t, p, q, f : c = Fields(s, u, t, p, q, f)
    BY RecordHas
  <2>6. M!StartStep(c, 1) = Fields("running", x, [t EXCEPT ![x] = state], p, q, f)
    <3>1. PICK b : b = M!StartStep(c, 1)
      OBVIOUS
    <3>2. b = [c EXCEPT !.status = "running", !.cur = x, !.steps[x] = state]
      BY <2>3, <2>4, <3>1
    <3> QED
      <4>1. b = Fields("running", x, [t EXCEPT ![x] = state], p, q, f)
        BY <2>5, <3>2 DEF Fields
      <4> QED
        BY <3>1, <4>1
  <2>7. c.steps = t /\ c.completed = p /\ c.queue = q /\ c.forks = f
    BY <2>5 DEF Fields
  <2> QED
    BY <2>6, <2>7
<1>3. PICK b : /\ b = M!StartStep(c, 1) /\ Record(b)
               /\ b.status = "running" /\ b.cur = x /\ b.queue = <<>> /\ b.forks = NoForks
               /\ b.steps = [c.steps EXCEPT ![x] = state]
  <2>1. PICK b, t, p, q, f : /\ b = M!StartStep(c, 1) /\ b = Fields("running", x, t, p, q, f)
                             /\ t = [c.steps EXCEPT ![x] = state] /\ q = c.queue /\ f = c.forks
    BY <1>2
  <2>2. /\ Record(b) /\ b.status = "running" /\ b.cur = x /\ b.steps = t /\ b.completed = p
        /\ b.queue = q /\ b.forks = f
    BY <2>1, RecordOf
  <2> QED
    BY <2>1, <2>2
<1>4. PICK step : step = M!StepByID(x)
  OBVIOUS
<1>5. /\ out.kind = "success"
      /\ out.next \in {M!NoStep, step.next, step.then, step.else} \/ step.type = "fork"
  <2>1. CASE step.type = "delay"
    BY <1>3, <1>4, <2>1 DEF Successes, M!Succeeds
  <2>2. CASE step.type # "delay"
    <3>1. out \in M!Execute(b, {}) /\ out.kind = "success"
      BY <1>3, <1>4, <2>2 DEF Successes
    <3>2. step.type \in M!StepTypes
      <4>1. PICK n \in DOMAIN steps : x = steps[n].id
        BY DEF ids
      <4>2. step.type = steps[n].type
        BY <1>4, <4>1, StoredStep
      <4> QED
        BY <4>2 DEF ChecksPass, validateStep, M!StepTypes
    <3>3. CASE step.type \in {"http_request", "transform"}
      BY <1>3, <1>4, <3>1, <3>3 DEF M!Execute, M!executeHTTPRequest, M!executeTransform, M!Succeeds, M!Fails
    <3>4. CASE step.type = "condition"
      BY <1>3, <1>4, <3>1, <3>4 DEF M!Execute, M!executeCondition, M!Succeeds, M!Fails
    <3>5. CASE step.type = "join"
      BY <1>3, <1>4, <3>1, <3>5 DEF M!Execute, M!executeJoin, M!Succeeds
    <3> QED
      BY <2>2, <3>1, <3>2, <3>3, <3>4, <3>5 DEF M!StepTypes
  <2> QED
    BY <2>1, <2>2
<1>6. PICK after : after = M!NextAfter(NoForks, x, out.next)
  OBVIOUS
<1>7. d = M!handleStepSuccess(b, out)
  BY <1>3, <1>5 DEF M!HandleResult
<1>8. PICK final, list : M!MarkCompleted(b, x, out.next)
         = [b EXCEPT !.steps[x] = final, !.completed = list]
  BY DEF M!MarkCompleted
<1>9. PICK e : e = Fields(b.status, b.cur, [b.steps EXCEPT ![x] = final], list, b.queue, after.forks)
  OBVIOUS
<1>10. e = [M!MarkCompleted(b, x, out.next) EXCEPT !.forks = after.forks]
  <2>1. PICK s, u, t, p, q, f : b = Fields(s, u, t, p, q, f)
    BY <1>3, RecordHas
  <2>2. M!MarkCompleted(b, x, out.next) = Fields(s, u, [t EXCEPT ![x] = final], list, q, f)
    BY <1>8, <2>1 DEF Fields
  <2>3. b.status = s /\ b.cur = u /\ b.steps = t /\ b.queue = q
    BY <2>1 DEF Fields
  <2> QED
    BY <1>9, <2>2, <2>3 DEF Fields
<1>11. d = IF after.next = M!NoStep THEN M!finishInstance(e, "completed")
           ELSE [e EXCEPT !.status = "running", !.cur = after.next]
  BY <1>3, <1>6, <1>7, <1>10 DEF M!handleStepSuccess
<1>12. CASE after.next = M!NoStep
  BY <1>3, <1>9, <1>11, <1>12 DEF M!finishInstance, M!Terminal, Fields
<1>13. CASE after.next # M!NoStep
  <2>1. /\ after.next \in ids
        /\ \/ after.next \in OffPath
           \/ after.forks = NoForks /\ after.next \in ToSet(graph[x])
    BY <1>4, <1>5, <1>6, <1>13, AfterOnPath
  <2>2. d = Fields("running", after.next, [b.steps EXCEPT ![x] = final], list, b.queue, after.forks)
    BY <1>9, <1>11, <1>13 DEF Fields
  <2>3. /\ Record(d) /\ d.status = "running" /\ d.queue = <<>> /\ d.cur = after.next
        /\ d.forks = after.forks /\ d.steps = [[c.steps EXCEPT ![x] = state] EXCEPT ![x] = final]
    <3>1. PICK t, q, f : /\ d = Fields("running", after.next, t, list, q, f)
                         /\ t = [b.steps EXCEPT ![x] = final] /\ q = b.queue /\ f = after.forks
      BY <2>2
    <3>2. /\ Record(d) /\ d.status = "running" /\ d.cur = after.next /\ d.steps = t
          /\ d.completed = list /\ d.queue = q /\ d.forks = f
      BY <3>1, RecordOf
    <3> QED
      BY <1>3, <3>1, <3>2
  <2>4. /\ d.steps = [s \in ids |-> d.steps[s]]
        /\ \A s \in ids : s # x => d.steps[s] = c.steps[s]
    BY <2>3
  <2> QED
    BY <1>3, <2>1, <2>3, <2>4
<1> QED
  BY <1>3, <1>12, <1>13

LEMMA SameOffPath ==
  ASSUME def' = def
  PROVE  /\ OffPath' = OffPath /\ NoForks' = NoForks
         /\ M!NewRuntimeState("pending")' = M!NewRuntimeState("pending")
<1>1. Stored' = Stored
  BY DEF Stored, steps
<1>2. OffPath' = OffPath
  BY <1>1 DEF OffPath, M!CompensationRefs, M!NoStep, M!collectForkBranchSteps, M!BranchSteps, M!branchRefs,
     M!StepByID, M!StepIds, M!JoinOf, M!firstJoinAfter, M!Position, M!ForkIds, M!ToSet, M!Min, ToSet
<1>3. NoForks' = NoForks
  BY <1>1 DEF NoForks, M!ForkIds, M!NoFork, M!NoStep
<1> QED
  BY <1>1, <1>2, <1>3 DEF M!NewRuntimeState, M!StepIds, M!ForkIds, M!NoFork, M!NoStep, M!NoState

LEMMA InitWalk == ASSUME Init PROVE WalkOK /\ RoundsLeaveNormalPath
<1>1. trail = <<>> /\ verdict = "new" /\ AtStart
  BY DEF Init, AtStart
<1>2. \E S : trail \in Seq(S)
  <2>1. <<>> \in Seq({})
    OBVIOUS
  <2> QED
    BY <1>1, <2>1
<1>3. DOMAIN trail = {}
  BY <1>1
<1> QED
  BY <1>1, <1>2, <1>3 DEF WalkOK, RoundsLeaveNormalPath

\* The search leaves the walk alone.
LEMMA OtherWalk ==
  ASSUME SearchOK, WalkOK, RoundsLeaveNormalPath, UNCHANGED <<def, content, trail>>,
         verdict = "accepted" => verdict' = "accepted"
  PROVE  WalkOK' /\ RoundsLeaveNormalPath'
<1>1. /\ ids' = ids /\ graph' = graph /\ OffPath' = OffPath /\ NoForks' = NoForks
      /\ M!NewRuntimeState("pending")' = M!NewRuntimeState("pending")
  BY SameGraph, SameOffPath
<1>2. /\ AtStart' <=> AtStart
      /\ OnPath' <=> OnPath
      /\ TrailOK' <=> TrailOK
      /\ Underway' <=> Underway
      /\ RoundsLeaveNormalPath' <=> RoundsLeaveNormalPath
  BY <1>1 DEF AtStart, OnPath, TrailOK, Underway, Record, RoundsLeaveNormalPath
<1>3. AtStart => TrailOK
  <2>1. <<>> \in Seq(ids) /\ DOMAIN <<>> = {}
    OBVIOUS
  <2> QED
    BY <2>1 DEF AtStart, TrailOK
<1>4. (\E S : trail \in Seq(S))'
  BY DEF WalkOK
<1>5. M!Terminal' = M!Terminal
  BY DEF M!Terminal
<1> QED
  BY <1>2, <1>3, <1>4, <1>5 DEF WalkOK

\* One step on, or off, the normal path.
LEMMA StepWalk ==
  ASSUME SearchOK, WalkOK, RoundsLeaveNormalPath, WalkStep
  PROVE  WalkOK' /\ RoundsLeaveNormalPath'
<1>0. def \in Requests /\ ChecksPass /\ verdict = "accepted" /\ verdict' = "accepted" /\ def' = def
  BY DEF WalkStep, Unfinished, SearchOK
<1>1. /\ ids' = ids /\ graph' = graph /\ OffPath' = OffPath /\ NoForks' = NoForks
  BY <1>0, SameGraph, SameOffPath
<1>2. PICK S, n : trail \in Seq(S) /\ n = Len(trail)
  BY DEF WalkOK
<1>3. PICK x : x = M!StartStep(content, 1).cur
  OBVIOUS
<1>4. trail' = Append(trail, x)
  BY <1>3 DEF WalkStep
<1>5. /\ trail' \in Seq(S \cup {x}) /\ n \in Nat /\ Len(trail') = n + 1
      /\ DOMAIN trail = 1 .. n /\ DOMAIN trail' = 1 .. n + 1
      /\ \A k \in 1 .. n : trail'[k] = trail[k]
      /\ trail'[n + 1] = x
  <2>1. trail \in Seq(S \cup {x}) /\ x \in S \cup {x}
    BY <1>2
  <2>2. n \in Nat /\ DOMAIN trail = 1 .. n
    BY <1>2, SeqIsFunction
  <2> QED
    BY <1>2, <1>4, <2>1, <2>2, AppendHolds
<1>6. ASSUME OnPath'
      PROVE  /\ x \notin ToSet(trail)
             /\ TrailOK' /\ (content'.status \in M!Terminal \/ Underway')
  <2>1. OnPath
    BY <1>1, <1>5, <1>6 DEF OnPath
  <2>2. x \notin OffPath
    BY <1>1, <1>5, <1>6 DEF OnPath
  <2>3. TrailOK /\ (AtStart \/ Underway)
    BY <1>0, <2>1 DEF WalkOK, WalkStep, Unfinished
  <2>4. PICK c : c = content
    OBVIOUS
  <2>5. PICK y : y = M!StepToRun(c).next /\ y # M!NoStep
    BY <2>4 DEF WalkStep
  <2>6. x = y
    BY <1>3, <2>4, <2>5 DEF M!StartStep, M!markStepRunning
  <2>7. /\ x \in ids /\ x \notin ToSet(trail)
        /\ trail # <<>> => x \in ToSet(graph[trail[Len(trail)]])
        /\ M!StepToRun(c) = [next |-> x, forks |-> c.forks]
        /\ c.forks = NoForks /\ Record(c)
        /\ c.queue = <<>> /\ c.status # "compensating"
        /\ c.steps = [s \in ids |-> c.steps[s]]
        /\ \A s \in ids : c.steps[s].status = "completed" => s \in ToSet(trail)
    BY <1>0, <2>1, <2>2, <2>3, <2>4, <2>5, <2>6, NextOnPath
  <2>8. PICK out \in Successes(M!StartStep(c, 1)) : content' = M!HandleResult(M!StartStep(c, 1), out)
    BY <2>4 DEF WalkStep
  <2>9. PICK d : d = content' /\ d = M!HandleResult(M!StartStep(c, 1), out)
    BY <2>8
  <2>10. d.status \in M!Terminal
         \/ /\ Record(d) /\ d.status = "running" /\ d.queue = <<>>
            /\ d.steps = [s \in ids |-> d.steps[s]]
            /\ \A s \in ids : d.steps[s].status = "completed" =>
                 s = x \/ c.steps[s].status = "completed"
            /\ d.cur \in ids
            /\ \/ d.cur \in OffPath
               \/ d.forks = NoForks /\ d.cur \in ToSet(graph[x])
    BY <1>0, <2>2, <2>7, <2>8, <2>9, RunOnPath
  <2>11. ToSet(trail') = ToSet(trail) \cup {x}
    BY <1>5 DEF ToSet
  <2>12. trail' \in Seq(ids)
    BY <1>4, <2>3, <2>7, AppendHolds DEF TrailOK
  <2>13. ASSUME NEW j \in 1 .. n + 1, NEW k \in 1 .. n + 1, trail'[j] = trail'[k] PROVE j = k
    <3>1. \A m \in 1 .. n : trail[m] # x
      BY <1>5, <2>7 DEF ToSet
    <3>2. j \in 1 .. n \/ j = n + 1
      BY <1>5
    <3>3. k \in 1 .. n \/ k = n + 1
      BY <1>5
    <3>4. CASE j \in 1 .. n /\ k \in 1 .. n
      BY <1>5, <2>3, <2>13, <3>4 DEF TrailOK
    <3> QED
      BY <1>5, <2>13, <3>1, <3>2, <3>3, <3>4
  <2>14. ASSUME NEW k \in 1 .. n PROVE trail'[k + 1] \in ToSet(graph[trail'[k]])
    <3>1. CASE k = n
      <4>1. trail # <<>>
        <5>1. n # 0
          BY <1>5, <3>1
        <5> QED
          BY <1>2, <5>1
      <4> QED
        BY <1>2, <1>5, <2>7, <3>1, <4>1
    <3>2. CASE k # n
      <4>1. k + 1 \in 1 .. n /\ k < n
        BY <1>5, <3>2
      <4> QED
        BY <1>2, <1>5, <2>3, <4>1 DEF TrailOK
    <3> QED
      BY <3>1, <3>2
  <2>15. TrailOK'
    <3>1. \A j, k \in DOMAIN trail' : trail'[j] = trail'[k] => j = k
      BY <1>5, <2>13
    <3>2. \A k \in DOMAIN trail' : k < Len(trail') => trail'[k + 1] \in ToSet(graph'[trail'[k]])
      <4>1. \A k \in DOMAIN trail' : k < Len(trail') => k \in 1 .. n
        BY <1>5
      <4> QED
        BY <1>1, <2>14, <4>1
    <3> QED
      BY <1>1, <2>12, <3>1, <3>2 DEF TrailOK
  <2>16. CASE d.status \notin M!Terminal
    <3>1. trail' # <<>>
      <4>1. Len(trail') # 0
        BY <1>5
      <4> QED
        BY <4>1
    <3>2. \A s \in ids : d.steps[s].status = "completed" => s \in ToSet(trail')
      BY <2>7, <2>10, <2>11, <2>16
    <3>3. trail'[Len(trail')] = x
      BY <1>5
    <3>4. Record(content)'
      BY <2>9, <2>10, <2>16 DEF Record
    <3>5. /\ d.status = "running" /\ d.queue = <<>>
          /\ d.steps = [s \in ids |-> d.steps[s]]
          /\ d.cur \in ids
          /\ d.cur \in OffPath \/ (d.forks = NoForks /\ d.cur \in ToSet(graph[trail'[Len(trail')]]))
      BY <2>10, <2>16, <3>3
    <3>6. /\ content'.status = "running" /\ content'.queue = <<>>
          /\ content'.steps = [s \in ids' |-> content'.steps[s]]
          /\ content'.cur \in ids'
      BY <1>1, <2>9, <3>5
    <3>7. content'.cur \in OffPath' \/ (content'.forks = NoForks' /\ content'.cur \in ToSet(graph'[trail'[Len(trail')]]))
      BY <1>1, <2>9, <3>5
    <3>8. \A s \in ids' : content'.steps[s].status = "completed" => s \in ToSet(trail')
      BY <1>1, <2>9, <3>2
    <3> QED
      BY <2>7, <2>15, <3>1, <3>4, <3>6, <3>7, <3>8 DEF Underway
  <2> QED
    BY <2>7, <2>9, <2>15, <2>16
<1>7. WalkOK'
  <2>1. M!Terminal' = M!Terminal
    BY DEF M!Terminal
  <2>2. (\E T : trail \in Seq(T))'
    BY <1>5
  <2> QED
    BY <1>0, <1>6, <2>1, <2>2 DEF WalkOK
<1>8. RoundsLeaveNormalPath'
  <2>1. SUFFICES ASSUME NEW k \in 1 .. n + 1, NEW m \in 1 .. k - 1, trail'[m] = trail'[k],
                        \A j \in 1 .. k : trail'[j] \notin OffPath
                 PROVE  FALSE
    BY <1>1, <1>5 DEF RoundsLeaveNormalPath
  <2>2. k \in 1 .. n \/ k = n + 1
    BY <1>5
  <2>3. CASE k \in 1 .. n
    <3>1. \A j \in 1 .. k : j \in 1 .. n
      BY <1>5, <2>3
    <3>2. m \in 1 .. n
      BY <1>5, <2>3
    <3>3. trail[m] = trail[k] /\ \A j \in 1 .. k : trail[j] \notin OffPath
      BY <1>5, <2>1, <2>3, <3>1, <3>2
    <3> QED
      BY <1>5, <2>1, <2>3, <3>3 DEF RoundsLeaveNormalPath
  <2>4. CASE k = n + 1
    <3>1. OnPath'
      BY <1>1, <1>5, <2>1, <2>4 DEF OnPath
    <3>2. m \in 1 .. n
      BY <1>5, <2>4
    <3>3. trail[m] = x
      BY <1>5, <2>1, <2>4, <3>2
    <3> QED
      BY <1>5, <1>6, <3>1, <3>2, <3>3 DEF ToSet
  <2> QED
    BY <2>2, <2>3, <2>4
<1> QED
  BY <1>7, <1>8

LEMMA EndWalk ==
  ASSUME SearchOK, WalkOK, RoundsLeaveNormalPath, WalkEnds
  PROVE  WalkOK' /\ RoundsLeaveNormalPath'
<1>0. def \in Requests /\ ChecksPass /\ verdict = "accepted" /\ verdict' = "accepted" /\ def' = def
      /\ trail' = trail
  BY DEF WalkEnds, Unfinished, SearchOK
<1>1. /\ ids' = ids /\ graph' = graph /\ OffPath' = OffPath
  BY <1>0, SameGraph, SameOffPath
<1>2. /\ OnPath' <=> OnPath
      /\ TrailOK' <=> TrailOK
      /\ RoundsLeaveNormalPath' <=> RoundsLeaveNormalPath
  BY <1>0, <1>1 DEF OnPath, TrailOK, RoundsLeaveNormalPath
<1>3. ASSUME OnPath PROVE content'.status \in M!Terminal
  <2>1. PICK c : c = content
    OBVIOUS
  <2>2. AtStart \/ Underway
    BY <1>0, <1>3 DEF WalkOK, WalkEnds, Unfinished
  <2>3. PICK s, u, t, p, q, f : c = Fields(s, u, t, p, q, f)
    <3>1. CASE AtStart
      BY <2>1, <3>1 DEF AtStart, M!NewRuntimeState, Fields
    <3>2. CASE Underway
      BY <2>1, <3>2, RecordHas DEF Underway
    <3> QED
      BY <2>2, <3>1, <3>2
  <2>4. content' = M!FinishWithoutStep(c)
    BY <2>1 DEF WalkEnds
  <2> QED
    BY <2>3, <2>4 DEF M!FinishWithoutStep, M!finishInstance, M!Terminal, Fields
<1>4. M!Terminal' = M!Terminal
  BY DEF M!Terminal
<1>5. (\E T : trail \in Seq(T))'
  BY <1>0 DEF WalkOK
<1> QED
  BY <1>0, <1>2, <1>3, <1>4, <1>5 DEF WalkOK

LEMMA StepRounds ==
  ASSUME SearchOK, WalkOK, RoundsLeaveNormalPath, [Next]_validatorVars
  PROVE  WalkOK' /\ RoundsLeaveNormalPath'
<1>1. CASE Check
  BY <1>1, OtherWalk DEF Check
<1>2. CASE VisitRoot
  BY <1>2, OtherWalk DEF VisitRoot
<1>3. CASE VisitNext
  <2>1. verdict # "accepted" /\ UNCHANGED <<def, content, trail>>
    BY <1>3 DEF VisitNext
  <2> QED
    BY <2>1, OtherWalk
<1>4. CASE Return
  BY <1>4, OtherWalk DEF Return
<1>5. CASE Accept
  BY <1>5, OtherWalk DEF Accept
<1>6. CASE WalkStep
  BY <1>6, StepWalk
<1>7. CASE WalkEnds
  BY <1>7, EndWalk
<1>8. CASE UNCHANGED validatorVars
  BY <1>8, OtherWalk DEF validatorVars
<1> QED
  BY <1>1, <1>2, <1>3, <1>4, <1>5, <1>6, <1>7, <1>8 DEF Next

\* In the walk over an accepted definition, whatever its steps are, no step is run twice
\* before the machine has left the normal path for a branch or a compensation.
THEOREM NormalPathHasNoRounds == Spec => []RoundsLeaveNormalPath
<1>1. Init => SearchOK /\ WalkOK /\ RoundsLeaveNormalPath
  BY InitSearch, InitWalk
<1>2. SearchOK /\ WalkOK /\ RoundsLeaveNormalPath /\ [Next]_validatorVars
        => (SearchOK /\ WalkOK /\ RoundsLeaveNormalPath)'
  BY StepSearch, StepRounds
<1> QED
  BY <1>1, <1>2, PTL DEF Spec

-----------------------------------------------------------------------------
(* The backoff *)

\* Powers of two, counted as sets of subsets.
LEMMA PowerOfTwo ==
  ASSUME NEW n \in Nat
  PROVE  2^n \in Nat /\ 2^n > 0 /\ 2^(n + 1) = 2 * 2^n
<1>1. PICK S, T : S = 1 .. n /\ T = 1 .. n + 1
  OBVIOUS
<1>2. IsFiniteSet(S) /\ Cardinality(S) = n
  BY <1>1, FS_Interval
<1>3. IsFiniteSet(T) /\ Cardinality(T) = n + 1
  BY <1>1, FS_Interval
<1>4. PICK A : A = SUBSET S /\ IsFiniteSet(A) /\ Cardinality(A) = 2^n
  BY <1>2, FS_SUBSET
<1>5. PICK All : All = SUBSET T /\ IsFiniteSet(All) /\ Cardinality(All) = 2^(n + 1)
  BY <1>3, FS_SUBSET
<1>6. PICK B : B = All \ A
  OBVIOUS
<1>7. PICK f : f = [X \in A |-> X \cup {n + 1}]
  OBVIOUS
<1>8. f \in Bijection(A, B)
  <2>1. n + 1 \notin S /\ T = S \cup {n + 1}
    BY <1>1
  <2>2. \A X \in A : n + 1 \notin X /\ X \subseteq S
    BY <1>4, <2>1
  <2>3. \A X \in A : X \cup {n + 1} \in B
    BY <1>4, <1>5, <1>6, <2>1
  <2>4. f \in [A -> B]
    BY <1>7, <2>3
  <2>5. ASSUME NEW X \in A, NEW Y \in A, f[X] = f[Y] PROVE X = Y
    <3>1. X \cup {n + 1} = Y \cup {n + 1}
      BY <1>7, <2>5
    <3>2. X = (X \cup {n + 1}) \ {n + 1} /\ Y = (Y \cup {n + 1}) \ {n + 1}
      BY <2>2
    <3> QED
      BY <3>1, <3>2, Zenon
  <2>6. ASSUME NEW Z \in B PROVE \E X \in A : f[X] = Z
    <3>1. Z \subseteq S \cup {n + 1} /\ n + 1 \in Z
      BY <1>4, <1>5, <1>6, <2>1
    <3>2. Z \ {n + 1} \in A
      BY <1>4, <3>1
    <3>3. (Z \ {n + 1}) \cup {n + 1} = Z
      BY <3>1
    <3> QED
      BY <1>7, <3>2, <3>3
  <2> QED
    BY <2>4, <2>5, <2>6 DEF Bijection, Injection, Surjection, IsInjective
<1>9. A \subseteq All
  BY <1>1, <1>4, <1>5
<1>10. IsFiniteSet(B) /\ Cardinality(B) = Cardinality(All) - Cardinality(A)
  <2>1. All \cap A = A
    BY <1>9
  <2> QED
    <3>1. IsFiniteSet(All \ A) /\ Cardinality(All \ A) = Cardinality(All) - Cardinality(All \cap A)
      BY <1>5, FS_Difference
    <3> QED
      BY <1>6, <2>1, <3>1
<1>11. Cardinality(A) = Cardinality(B)
  BY <1>4, <1>8, <1>10, FS_Bijection DEF ExistsBijection
<1>12. Cardinality(A) \in Nat /\ Cardinality(All) \in Nat
  BY <1>4, <1>5, FS_CardinalityType
<1>13. Cardinality(A) # 0
  <2>1. {} \in A
    BY <1>4
  <2> QED
    BY <1>4, <2>1, FS_EmptySet
<1> QED
  BY <1>4, <1>5, <1>10, <1>11, <1>12, <1>13

LEMMA BelowModulus == ASSUME NEW m \in Nat, NEW a \in Nat, a < m PROVE a % m = a
OBVIOUS

LEMMA Product == ASSUME NEW a \in Nat, a > 0, NEW b \in Int, b >= 3 PROVE a * b \in Int /\ a * b >= 3 * a
OBVIOUS

LEMMA Durations ==
  \E p \in Nat : /\ p > 1 /\ HalfRange = p - 1 /\ MaxDuration = 2 * p - 1 /\ MinDuration = - (2 * p)
                 /\ 2^Width = 4 * p
<1>1. PICK n \in Nat : n + 2 = Width /\ n + 1 = Width - 1 /\ n = Width - 2
  <2>1. Width - 2 \in Nat
    BY BackoffAssumption
  <2> QED
    BY <2>1, BackoffAssumption
<1>2. 2^n \in Nat /\ 2^(n + 1) = 2 * 2^n /\ 2^(n + 1) \in Nat
  <2>1. n + 1 \in Nat
    OBVIOUS
  <2> QED
    BY <2>1, PowerOfTwo
<1>3. 2^((n + 1) + 1) = 2 * 2^(n + 1)
  <2>1. n + 1 \in Nat
    OBVIOUS
  <2> QED
    BY <2>1, PowerOfTwo
<1>4. (n + 1) + 1 = n + 2
  OBVIOUS
<1>5. HalfRange = 2^n - 1 /\ MaxDuration = 2^(n + 1) - 1 /\ MinDuration = - (2^(n + 1))
  BY <1>1 DEF HalfRange, MaxDuration, MinDuration
<1>6. 2^Width = 2 * 2^(n + 1)
  BY <1>1, <1>3, <1>4
<1>7. HalfRange >= 1
  <2>1. PICK h \in Int : h = HalfRange
    BY <1>2, <1>5
  <2>2. PICK k \in Int : k = DefaultMax /\ k >= 1 /\ k <= h
    BY <2>1, BackoffAssumption
  <2> QED
    BY <2>1, <2>2
<1> QED
  BY <1>2, <1>5, <1>6, <1>7

\* One pass of the loop makes a backoff that can be doubled longer.
LEMMA GrowGrows ==
  ASSUME NEW r, r.multiplier \in Int, NEW b \in 1 .. HalfRange, NEW outOfRange \in OutOfRange
  PROVE  Grow(r, b, outOfRange) \in b + 1 .. MaxDuration
<1>1. PICK p \in Nat : /\ p > 1 /\ HalfRange = p - 1 /\ MaxDuration = 2 * p - 1 /\ MinDuration = - (2 * p)
                       /\ 2^Width = 4 * p
  BY Durations
<1>2. PICK h \in Int : h = Halves(r) /\ h >= 3
  BY DEF Halves
<1>3. b \in Nat /\ b > 0 /\ b < p
  BY <1>1
<1>4. PICK x \in Int : x = (b * h) \div 2 /\ x >= b
  <2>1. PICK y \in Int : y = b * h /\ y >= 3 * b
    BY <1>2, <1>3, Product
  <2> QED
    BY <1>3, <2>1
<1>5. Wrap(b * 2) = 2 * b
  <2>1. (b * 2 - MinDuration) % 2^Width = 2 * b + 2 * p
    <3>1. PICK a, m \in Nat : a = 2 * b + 2 * p /\ m = 4 * p /\ a < m
      BY <1>3
    <3>2. b * 2 - MinDuration = a /\ 2^Width = m
      BY <1>1, <1>3, <3>1
    <3> QED
      BY <3>1, <3>2, BelowModulus
  <2> QED
    BY <1>1, <1>3, <2>1 DEF Wrap
<1>6. PICK next \in Int : /\ next = FromFloat((b * h) \div 2, outOfRange)
                          /\ next <= MaxDuration
  BY <1>1, <1>4 DEF FromFloat, OutOfRange
<1>7. Grow(r, b, outOfRange) = IF next <= b THEN 2 * b ELSE next
  BY <1>2, <1>5, <1>6 DEF Grow
<1> QED
  BY <1>1, <1>3, <1>6, <1>7

\* A pass of the loop, the kth, after which the backoff was b.
Pass(r, outOfRange, k, b) ==
  IF k > 1 /\ b >= MaxBackoff(r) THEN b ELSE Grow(r, b, outOfRange)

Passed(after, r, outOfRange, n) ==
  after = [k \in 0 .. n |-> IF k = 0 THEN InitialBackoff(r) ELSE Pass(r, outOfRange, k, after[k - 1])]

LEMMA PassedExists ==
  ASSUME NEW r, NEW outOfRange
  PROVE  \A n \in Nat : \E after : Passed(after, r, outOfRange, n)
<1> DEFINE T == {n \in Nat : ~ \E after : Passed(after, r, outOfRange, n)}
<1>1. SUFFICES ASSUME T # {} PROVE FALSE
  OBVIOUS
<1>2. PICK n \in T : \A m \in T : n <= m
  BY <1>1, LeastNumber
<1>3. CASE n = 0
  <2>1. PICK after : after = [k \in 0 .. 0 |-> InitialBackoff(r)]
    OBVIOUS
  <2>2. Passed(after, r, outOfRange, 0)
    BY <2>1 DEF Passed
  <2> QED
    BY <1>3, <2>2
<1>4. CASE n # 0
  <2>1. n - 1 \in Nat /\ n - 1 \notin T
    BY <1>2, <1>4
  <2>2. PICK before : Passed(before, r, outOfRange, n - 1)
    BY <2>1
  <2>3. PICK after : after = [k \in 0 .. n |-> IF k = n THEN Pass(r, outOfRange, n, before[n - 1]) ELSE before[k]]
    OBVIOUS
  <2>4. \A k \in 0 .. n - 1 : after[k] = before[k]
    BY <2>1, <2>3
  <2>5. \A k \in 0 .. n - 1 :
          before[k] = IF k = 0 THEN InitialBackoff(r) ELSE Pass(r, outOfRange, k, before[k - 1])
    BY <2>2 DEF Passed
  <2>6. \A k \in 0 .. n :
          after[k] = IF k = 0 THEN InitialBackoff(r) ELSE Pass(r, outOfRange, k, after[k - 1])
    <3>1. TAKE k \in 0 .. n
    <3>2. CASE k = n
      BY <1>4, <2>1, <2>3, <2>4, <3>2
    <3>3. CASE k # n
      <4>1. k \in 0 .. n - 1 /\ (k # 0 => k - 1 \in 0 .. n - 1)
        BY <2>1, <3>3
      <4> QED
        BY <2>4, <2>5, <4>1
    <3> QED
      BY <3>2, <3>3
  <2>7. after = [k \in 0 .. n |-> after[k]]
    BY <2>3
  <2>8. Passed(after, r, outOfRange, n)
    BY <2>6, <2>7 DEF Passed
  <2> QED
    BY <2>8
<1> QED
  BY <1>3, <1>4

LEMMA PassedAt ==
  ASSUME NEW r, NEW outOfRange, NEW n \in Nat, NEW after, Passed(after, r, outOfRange, n)
  PROVE  /\ after[0] = InitialBackoff(r)
         /\ \A k \in 0 .. n : k # 0 => after[k] = Pass(r, outOfRange, k, after[k - 1])
<1>1. \A k \in 0 .. n :
        after[k] = IF k = 0 THEN InitialBackoff(r) ELSE Pass(r, outOfRange, k, after[k - 1])
  BY DEF Passed
<1>2. 0 \in 0 .. n
  OBVIOUS
<1> QED
  BY <1>1, <1>2

\* However many passes there are, the first ones are the same.
LEMMA PassedAgree ==
  ASSUME NEW r, NEW outOfRange, NEW n \in Nat, NEW m \in Nat, NEW f, NEW g,
         Passed(f, r, outOfRange, n), Passed(g, r, outOfRange, m)
  PROVE  \A k \in Nat : k <= n /\ k <= m => f[k] = g[k]
<1> DEFINE T == {k \in Nat : k <= n /\ k <= m /\ f[k] # g[k]}
<1>1. SUFFICES ASSUME T # {} PROVE FALSE
  OBVIOUS
<1>2. PICK k \in T : \A j \in T : k <= j
  BY <1>1, LeastNumber
<1>3. k \in Nat /\ k <= n /\ k <= m /\ f[k] # g[k]
  BY <1>2
<1>4. k # 0
  <2>1. f[0] = InitialBackoff(r)
    BY PassedAt
  <2>2. g[0] = InitialBackoff(r)
    BY PassedAt
  <2> QED
    BY <1>3, <2>1, <2>2
<1>5. f[k - 1] = g[k - 1]
  <2>1. k - 1 \in Nat /\ k - 1 <= n /\ k - 1 <= m /\ k - 1 \notin T
    BY <1>2, <1>3, <1>4
  <2> QED
    BY <2>1
<1>6. f[k] = Pass(r, outOfRange, k, f[k - 1])
  BY <1>3, <1>4, PassedAt
<1>7. g[k] = Pass(r, outOfRange, k, g[k - 1])
  BY <1>3, <1>4, PassedAt
<1> QED
  BY <1>3, <1>5, <1>6, <1>7

Capped(r, b) == IF b > MaxBackoff(r) THEN MaxBackoff(r) ELSE b

LEMMA BackoffIsLast ==
  ASSUME NEW r, NEW outOfRange, NEW attempt \in Nat, NEW n \in Nat,
         n = IF attempt < 1 THEN 0 ELSE attempt - 1
  PROVE  \E after : /\ Passed(after, r, outOfRange, n)
                    /\ BackoffOf(r, attempt, outOfRange) = Capped(r, after[n])
<1> DEFINE last == CHOOSE after : Passed(after, r, outOfRange, n)
<1>1. Passed(last, r, outOfRange, n)
  BY PassedExists
<1>2. BackoffOf(r, attempt, outOfRange) = Capped(r, last[n])
  BY DEF BackoffOf, Passed, Pass, Capped
<1> QED
  BY <1>1, <1>2

\* A pass of the loop yields an integer, whatever the product is.
LEMMA GrowIsInt ==
  ASSUME NEW r, r.multiplier \in Int, NEW b \in Int, NEW outOfRange \in OutOfRange
  PROVE  Grow(r, b, outOfRange) \in Int
<1>1. PICK p \in Nat : /\ p > 1 /\ MaxDuration = 2 * p - 1 /\ MinDuration = - (2 * p)
                       /\ 2^Width = 4 * p
  BY Durations
<1>2. PICK h \in Int : h = Halves(r)
  BY DEF Halves
<1>3. PICK x \in Int : x = (b * h) \div 2
  OBVIOUS
<1>4. Wrap(b * 2) \in Int
  <2>1. PICK y \in Int : y = b * 2 - MinDuration
    <3>1. b * 2 - MinDuration = b * 2 + 2 * p
      BY <1>1
    <3>2. b * 2 + 2 * p \in Int
      OBVIOUS
    <3> QED
      BY <3>1, <3>2
  <2>2. PICK m \in Nat : m = 2^Width /\ m > 0
    BY <1>1
  <2>3. y % m \in Int
    BY <2>1, <2>2
  <2> QED
    BY <1>1, <2>1, <2>2, <2>3 DEF Wrap
<1>5. FromFloat(x, outOfRange) \in Int
  BY <1>1, <1>3 DEF FromFloat, OutOfRange
<1> QED
  BY <1>2, <1>3, <1>4, <1>5 DEF Grow

LEMMA PassesAreInts ==
  ASSUME NEW r, r.multiplier \in Int, InitialBackoff(r) \in Int, NEW outOfRange \in OutOfRange,
         NEW n \in Nat, NEW after, Passed(after, r, outOfRange, n)
  PROVE  \A k \in Nat : k <= n => after[k] \in Int
<1> DEFINE T == {k \in Nat : k <= n /\ after[k] \notin Int}
<1>1. SUFFICES ASSUME T # {} PROVE FALSE
  OBVIOUS
<1>2. PICK k \in T : \A j \in T : k <= j
  BY <1>1, LeastNumber
<1>3. k \in Nat /\ k <= n /\ after[k] \notin Int
  BY <1>2
<1>4. k # 0
  BY <1>3, PassedAt
<1>5. after[k - 1] \in Int
  <2>1. k - 1 \in Nat /\ k - 1 <= n /\ k - 1 \notin T
    BY <1>2, <1>3, <1>4
  <2> QED
    BY <2>1
<1>6. after[k] = Pass(r, outOfRange, k, after[k - 1])
  BY <1>3, <1>4, PassedAt
<1>7. Grow(r, after[k - 1], outOfRange) \in Int
  BY <1>5, GrowIsInt
<1> QED
  BY <1>3, <1>5, <1>6, <1>7 DEF Pass

\* A policy as Validate lets it through, the initial interval of which can be doubled.
Doubles(r) ==
  /\ r.multiplier \in Int
  /\ InitialBackoff(r) \in 1 .. HalfRange
  /\ MaxBackoff(r) \in 1 .. MaxDuration

\* The backoff of every attempt is followed by a longer one, or by the maximum once it has
\* reached it, if it can be doubled.
LEMMA EveryBackoffGrows ==
  ASSUME NEW r, Doubles(r), NEW outOfRange \in OutOfRange, NEW attempt \in Nat, attempt # 0
  PROVE  LET this == BackoffOf(r, attempt, outOfRange)
             next == BackoffOf(r, attempt + 1, outOfRange)
         IN  /\ this = MaxBackoff(r) => next = MaxBackoff(r)
             /\ this # MaxBackoff(r) /\ this \in 1 .. HalfRange => next \in this + 1 .. MaxBackoff(r)
<1>0. PICK p \in Nat : p > 1 /\ HalfRange = p - 1 /\ MaxDuration = 2 * p - 1
  BY Durations
<1>1. PICK max \in Nat : max = MaxBackoff(r) /\ max > 0
  BY <1>0 DEF Doubles
<1>2. PICK n \in Nat : n = attempt - 1
  OBVIOUS
<1>3. PICK m \in Nat : m = attempt + 1 - 1 /\ m = n + 1 /\ m # 0 /\ attempt + 1 \in Nat /\ ~ (attempt + 1 < 1)
  BY <1>2
<1>4. PICK f : Passed(f, r, outOfRange, n) /\ BackoffOf(r, attempt, outOfRange) = Capped(r, f[n])
  BY <1>2, BackoffIsLast
<1>5. PICK g : Passed(g, r, outOfRange, m) /\ BackoffOf(r, attempt + 1, outOfRange) = Capped(r, g[m])
  BY <1>3, BackoffIsLast
<1>6. f[n] = g[n]
  BY <1>2, <1>3, <1>4, <1>5, PassedAgree
<1>7. InitialBackoff(r) \in Int /\ r.multiplier \in Int
  BY <1>0 DEF Doubles
<1>8. PICK a \in Int : a = f[n]
  BY <1>2, <1>4, <1>7, PassesAreInts
<1>9. PICK b \in Int : b = g[m]
  BY <1>3, <1>5, <1>7, PassesAreInts
<1>10. b = Pass(r, outOfRange, m, a)
  <2>1. m \in 0 .. m /\ m - 1 = n
    BY <1>2, <1>3
  <2>2. \A j \in 0 .. m : j # 0 => g[j] = Pass(r, outOfRange, j, g[j - 1])
    <3>1. m \in Nat /\ Passed(g, r, outOfRange, m)
      BY <1>3, <1>5
    <3> QED
      BY <3>1, PassedAt
  <2>3. g[m] = Pass(r, outOfRange, m, g[m - 1])
    BY <1>3, <2>1, <2>2
  <2> QED
    BY <1>6, <1>8, <1>9, <2>1, <2>3
<1>11. Capped(r, a) = IF a > max THEN max ELSE a
  BY <1>1 DEF Capped
<1>12. Capped(r, b) = IF b > max THEN max ELSE b
  BY <1>1 DEF Capped
<1>13. ASSUME a \in 1 .. HalfRange, m = 1 \/ a < max PROVE b > a
  <2>1. b = Grow(r, a, outOfRange)
    BY <1>1, <1>3, <1>10, <1>13 DEF Pass
  <2>2. b \in a + 1 .. MaxDuration
    BY <1>7, <1>13, <2>1, GrowGrows
  <2> QED
    BY <1>0, <2>2
<1>14. ASSUME a >= max PROVE b >= max
  <2>1. CASE m = 1
    <3>1. a = InitialBackoff(r)
      BY <1>2, <1>3, <1>4, <1>8, <2>1, PassedAt
    <3>2. b > a
      BY <1>13, <2>1, <3>1 DEF Doubles
    <3> QED
      BY <1>14, <3>2
  <2>2. CASE m # 1
    <3>1. m > 1 /\ a >= MaxBackoff(r)
      BY <1>1, <1>3, <1>14, <2>2
    <3> QED
      BY <1>10, <1>14, <3>1 DEF Pass
  <2> QED
    BY <2>1, <2>2
<1>15. ASSUME Capped(r, a) = max PROVE Capped(r, b) = max
  BY <1>11, <1>12, <1>14, <1>15
<1>16. ASSUME Capped(r, a) # max, Capped(r, a) \in 1 .. HalfRange
       PROVE  Capped(r, b) \in Capped(r, a) + 1 .. max
  <2>1. a < max /\ Capped(r, a) = a
    BY <1>11, <1>16
  <2>2. b > a
    BY <1>13, <1>16, <2>1
  <2> QED
    BY <1>12, <2>1, <2>2
<1> QED
  BY <1>1, <1>4, <1>5, <1>8, <1>9, <1>15, <1>16

\* The first backoff is the initial interval, or the maximum if that is less.
LEMMA FirstBackoff ==
  ASSUME NEW r, InitialBackoff(r) \in 1 .. MaxDuration, MaxBackoff(r) \in 1 .. MaxDuration,
         NEW outOfRange \in OutOfRange
  PROVE  BackoffOf(r, 1, outOfRange) \in 1 .. MaxBackoff(r)
<1>0. PICK p \in Nat : p > 1 /\ MaxDuration = 2 * p - 1
  BY Durations
<1>1. PICK f : Passed(f, r, outOfRange, 0) /\ BackoffOf(r, 1, outOfRange) = Capped(r, f[0])
  BY BackoffIsLast
<1>2. f[0] = InitialBackoff(r)
  BY <1>1, PassedAt
<1> QED
  BY <1>0, <1>1, <1>2 DEF Capped

\* The backoff of a policy that Validate has accepted starts with a positive interval and
\* grows to its maximum and never beyond, for every width of a duration, both ways to convert
\* a float64 that is out of range, every number of attempts and every maximum, as long as the
\* initial interval and the backoff itself are at most half of the range.
THEOREM BackoffsGrow == Spec => []BackoffGrows
<1>1. SearchOK => BackoffGrows
  <2>1. SUFFICES ASSUME SearchOK, verdict = "accepted", NEW n \in DOMAIN steps, NEW outOfRange \in OutOfRange,
                        steps[n].type # "join"
                 PROVE  LET r == steps[n].retry
                            backoff(k) == BackoffOf(r, k, outOfRange)
                        IN  /\ backoff(1) \in 1 .. MaxBackoff(r)
                            /\ InitialBackoff(r) <= HalfRange =>
                                 \A k \in 1 .. MaxAttempts :
                                   /\ backoff(k) = MaxBackoff(r) => backoff(k + 1) = MaxBackoff(r)
                                   /\ backoff(k) # MaxBackoff(r) /\ backoff(k) \in 1 .. HalfRange =>
                                        backoff(k + 1) \in backoff(k) + 1 .. MaxBackoff(r)
    BY Zenon DEF BackoffGrows
  <2>2. PICK step \in StepRequest : step = steps[n]
    BY <2>1, RequestIsTyped DEF SearchOK
  <2>3. PICK r \in [maxRetries : Int, initial : Intervals, max : Intervals, multiplier : Int] : r = step.retry
    BY DEF StepRequest
  <2>4. r.initial # Invalid /\ r.max # Invalid
    BY <2>1, <2>2, <2>3 DEF SearchOK, ChecksPass, validateStep, validateRetry
  <2>5. PICK p \in Nat : p > 1 /\ HalfRange = p - 1 /\ MaxDuration = 2 * p - 1
    BY Durations
  <2>6. r.initial = Unset \/ r.initial \in 1 .. MaxDuration
    BY <2>4 DEF Intervals
  <2>7. r.max = Unset \/ r.max \in 1 .. MaxDuration
    BY <2>4 DEF Intervals
  <2>8. DefaultMax \in 1 .. HalfRange /\ DefaultInitial \in 1 .. HalfRange
    BY <2>5, BackoffAssumption
  <2>9. InitialBackoff(r) \in 1 .. MaxDuration
    BY <2>5, <2>6, <2>8 DEF InitialBackoff, Unset, Invalid
  <2>10. MaxBackoff(r) \in 1 .. MaxDuration
    BY <2>5, <2>7, <2>8 DEF MaxBackoff, Unset, Invalid
  <2>11. BackoffOf(r, 1, outOfRange) \in 1 .. MaxBackoff(r)
    BY <2>9, <2>10, FirstBackoff
  <2>12. ASSUME InitialBackoff(r) <= HalfRange, NEW k \in 1 .. MaxAttempts
         PROVE  /\ BackoffOf(r, k, outOfRange) = MaxBackoff(r) => BackoffOf(r, k + 1, outOfRange) = MaxBackoff(r)
                /\ BackoffOf(r, k, outOfRange) # MaxBackoff(r) /\ BackoffOf(r, k, outOfRange) \in 1 .. HalfRange =>
                     BackoffOf(r, k + 1, outOfRange) \in BackoffOf(r, k, outOfRange) + 1 .. MaxBackoff(r)
    <3>1. Doubles(r)
      BY <2>3, <2>5, <2>9, <2>10, <2>12 DEF Doubles
    <3>2. k \in Nat /\ k # 0
      BY <2>12, BoundsAssumption
    <3> QED
      BY <3>1, <3>2, EveryBackoffGrows
  <2> QED
    BY <2>2, <2>3, <2>11, <2>12
<1> QED
  BY <1>1, SearchInvariant, PTL

=============================================================================
