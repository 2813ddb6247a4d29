------------------------------ MODULE Backoff ------------------------------
(***************************************************************************)
(* The backoff of a retry policy (internal/workflow/types.go).  A          *)
(* time.Duration is a signed integer of Width bits (64 in the code).  An   *)
(* interval is a positive duration, Unset for an empty text, or Invalid    *)
(* for a text that does not parse to a positive duration.  The multiplier, *)
(* a float64, is given in halves (3 is 1.5; 0 is also the absent one).     *)
(***************************************************************************)
EXTENDS Integers

CONSTANTS
  Width,            \* bits of a duration
  DefaultInitial,   \* time.Second
  DefaultMax        \* 30 * time.Second

MaxDuration == 2^(Width - 1) - 1
MinDuration == -(2^(Width - 1))

\* Durations up to here can be doubled (146 years in the code).
HalfRange == 2^(Width - 2) - 1

ASSUME BackoffAssumption ==
  /\ Width \in Nat /\ Width > 2
  /\ DefaultInitial \in 1 .. DefaultMax
  /\ DefaultMax \in 1 .. HalfRange

Unset == 0
Invalid == -1
Intervals == {Unset, Invalid} \cup 1 .. MaxDuration

\* Two's complement.
Wrap(x) == ((x - MinDuration) % 2^Width) + MinDuration

\* time.Duration(f): a float64 that is out of range converts to a value that depends on
\* the processor (the least one on amd64, the nearest one on arm64).
OutOfRange == {MinDuration, MaxDuration}

FromFloat(x, outOfRange) == IF x \in MinDuration .. MaxDuration THEN x ELSE outOfRange

InitialBackoff(r) == IF r.initial \in {Unset, Invalid} THEN DefaultInitial ELSE r.initial

MaxBackoff(r) == IF r.max \in {Unset, Invalid} THEN DefaultMax ELSE r.max

Halves(r) == IF r.multiplier <= 2 THEN 4 ELSE r.multiplier

\* Mutant: the product is taken as it is.
GrowUnguarded(r, backoff, outOfRange) == FromFloat((backoff * Halves(r)) \div 2, outOfRange)

\* One pass of the loop: a product that rounds to no more, or is out of range, is doubled instead.
Grow(r, backoff, outOfRange) ==
  LET next == FromFloat((backoff * Halves(r)) \div 2, outOfRange)
  IN  IF next <= backoff THEN Wrap(backoff * 2) ELSE next

\* The loop, left once it has reached the maximum; then the last cap.
BackoffOf(r, attempt, outOfRange) ==
  LET passes == IF attempt < 1 THEN 0 ELSE attempt - 1
      after[n \in 0 .. passes] ==
        IF n = 0 THEN InitialBackoff(r)
        ELSE IF n > 1 /\ after[n - 1] >= MaxBackoff(r) THEN after[n - 1]
        ELSE Grow(r, after[n - 1], outOfRange)
      last == after[passes]
  IN  IF last > MaxBackoff(r) THEN MaxBackoff(r) ELSE last

=============================================================================
