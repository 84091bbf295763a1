---------------------------- MODULE CircuitBreaker ----------------------------
(***************************************************************************)
(* One circuit breaker shared by several callers: what BreakerRegistry.tla *)
(* promises of every name.  A caller asks Allow, makes its request if it   *)
(* may, and records the outcome later, when the breaker may have moved on. *)
(* Every method runs under cb.mu and is one action.  The callers are not   *)
(* part of the repository; the API server reads and resets breakers.       *)
(***************************************************************************)
EXTENDS BreakerOps

CONSTANT Callers  \* goroutines that use the breaker

VARIABLES
    cb,   \* the breaker
    busy  \* busy[c] : the state that admitted c's request, or "none"

vars == <<cb, busy>>

Init ==
    /\ cb = NewCircuitBreaker
    /\ busy = [c \in Callers |-> "none"]

(* Allow returns true; when it returns false nothing changes.              *)
Allow(c) ==
    /\ busy[c] = "none"
    /\ Admits(cb)
    /\ cb' = HalfOpened(cb)
    /\ busy' = [busy EXCEPT ![c] = cb'.state]

RecordSuccess(c) ==
    /\ busy[c] # "none"
    /\ cb' = Succeeded(cb)
    /\ busy' = [busy EXCEPT ![c] = "none"]

RecordFailure(c) ==
    /\ busy[c] # "none"
    /\ cb' = Failed(cb)
    /\ busy' = [busy EXCEPT ![c] = "none"]

GetState == cb' = HalfOpened(cb) /\ UNCHANGED busy

Reset == cb' = WasReset(cb) /\ UNCHANGED busy

Tick == cb' = Aged(cb) /\ UNCHANGED busy

Next ==
    \/ \E c \in Callers : Allow(c) \/ RecordSuccess(c) \/ RecordFailure(c)
    \/ GetState
    \/ Reset
    \/ Tick

Spec == Init /\ [][Next]_vars

=============================================================================
