------------------------------ MODULE BreakerOps ------------------------------
(***************************************************************************)
(* The CircuitBreaker struct of internal/resilience/breaker.go and what    *)
(* its methods do to it under cb.mu, as operators on a record.             *)
(* CircuitBreaker.tla applies them to one breaker, BreakerRegistry.tla to  *)
(* the breakers of a registry.                                             *)
(*                                                                         *)
(* Time is relative: wait is what is left of openUntil.                    *)
(***************************************************************************)
EXTENDS Integers

CONSTANTS
    FailureThreshold, \* failures in a row that trip the breaker
    SuccessThreshold, \* successes that close it again
    Cooldown          \* ticks it stays open

ASSUME BreakerAssumption ==
    /\ FailureThreshold \in Nat \ {0}
    /\ SuccessThreshold \in Nat \ {0}
    /\ Cooldown \in Nat \ {0}

(* rested is history: ticks since the breaker tripped, up to Cooldown.     *)
Breakers ==
    [state        : {"closed", "open", "half-open"},
     failureCount : 0 .. FailureThreshold,
     successCount : 0 .. SuccessThreshold,
     wait         : 0 .. Cooldown,
     rested       : 0 .. Cooldown]

NewCircuitBreaker ==
    [state |-> "closed", failureCount |-> 0, successCount |-> 0,
     wait |-> 0, rested |-> Cooldown]

(* A mistake to look for: an open breaker waits for someone to list it.    *)
AdmitsUnlessOpen(b) == b.state # "open"

(* Allow returns true. *)
Admits(b) == b.state # "open" \/ b.wait = 0

(* The move from open to half-open that Allow and GetState make.           *)
HalfOpened(b) ==
    IF b.state = "open" /\ b.wait = 0
    THEN [b EXCEPT !.state = "half-open", !.successCount = 0]
    ELSE b

(* A mistake to look for: closing leaves the failure counter as it is.     *)
SucceededKeepsFailures(b) ==
    CASE b.state = "closed"    -> [b EXCEPT !.failureCount = 0]
      [] b.state = "half-open" ->
            IF b.successCount + 1 >= SuccessThreshold
            THEN [b EXCEPT !.state = "closed", !.successCount = 0]
            ELSE [b EXCEPT !.successCount = @ + 1]
      [] OTHER                 -> b

(* RecordSuccess *)
Succeeded(b) ==
    CASE b.state = "closed"    -> [b EXCEPT !.failureCount = 0]
      [] b.state = "half-open" ->
            IF b.successCount + 1 >= SuccessThreshold
            THEN [b EXCEPT !.state = "closed", !.failureCount = 0, !.successCount = 0]
            ELSE [b EXCEPT !.successCount = @ + 1]
      [] OTHER                 -> b

Tripped(b) == [b EXCEPT !.state = "open", !.wait = Cooldown, !.rested = 0]

(* A mistake to look for: a breaker that trips again starts no cooldown.   *)
FailedKeepsDeadline(b) ==
    CASE b.state = "closed"    ->
            LET counted == [b EXCEPT !.failureCount = @ + 1]
            IN  IF counted.failureCount >= FailureThreshold
                THEN Tripped(counted) ELSE counted
      [] b.state = "half-open" ->
            [b EXCEPT !.state = "open", !.rested = 0, !.successCount = 0]
      [] OTHER                 -> b

(* RecordFailure: in the half-open state any failure trips it again.       *)
Failed(b) ==
    CASE b.state = "closed"    ->
            LET counted == [b EXCEPT !.failureCount = @ + 1]
            IN  IF counted.failureCount >= FailureThreshold
                THEN Tripped(counted) ELSE counted
      [] b.state = "half-open" -> [Tripped(b) EXCEPT !.successCount = 0]
      [] OTHER                 -> b

(* Reset: all fields but name, thresholds and cooldown as in a new one.    *)
WasReset(b) == NewCircuitBreaker

(* A tick passes. *)
Aged(b) ==
    [b EXCEPT !.wait = IF @ > 0 THEN @ - 1 ELSE 0,
              !.rested = IF @ < Cooldown THEN @ + 1 ELSE Cooldown]

(* The counters of b belong to its state.                                  *)
CountersFit(b) ==
    CASE b.state = "closed"    -> b.failureCount < FailureThreshold /\ b.successCount = 0
      [] b.state = "half-open" -> b.successCount < SuccessThreshold
      [] OTHER                 -> b.successCount = 0

=============================================================================
