---------------------------- MODULE BreakerRegistry ----------------------------
(***************************************************************************)
(* internal/resilience/registry.go: named circuit breakers, created when   *)
(* they are first asked for, and the handlers of internal/api that list    *)
(* and reset them.  Callers look their breaker up with Get, ask Allow and  *)
(* record the outcome on the breaker Get gave them.                        *)
(*                                                                         *)
(* Get releases the read lock before it takes the write lock; an operator  *)
(* that resets a breaker looks it up, resets it and reads it in three      *)
(* separate steps; List holds the read lock while it visits one breaker    *)
(* after the other.                                                        *)
(***************************************************************************)
EXTENDS BreakerOps, Sequences, Functions

CONSTANTS
    Names,     \* names of breakers
    Callers,   \* goroutines that make requests through breakers
    Operators  \* requests to POST .../{name}/reset being served

ASSUME ClientsAssumption == Callers \cap Operators = {}

Clients == Callers \cup Operators

VARIABLES
    heap,      \* heap[o] : the breaker objects ever created
    breakers,  \* breakers[n] : the object registered under n
    call,      \* call[c] : what c is doing, see Calls
    listing    \* the breakers a List still has to visit

vars == <<heap, breakers, call, listing>>

Idle == [phase |-> "idle"]

(* Looked for name in vain; holds breaker obj of that name; waits for the  *)
(* outcome of a request admitted in state by; has reset obj.               *)
Calls ==
    {Idle}
    \cup [phase : {"missed"}, name : Names]
    \cup [phase : {"has", "reset"}, name : Names, obj : DOMAIN heap]
    \cup [phase : {"admitted"}, name : Names, obj : DOMAIN heap,
          by : {"closed", "half-open"}]

Init ==
    /\ heap = <<>>
    /\ breakers = [n \in {} |-> 0]
    /\ call = [c \in Clients |-> Idle]
    /\ listing = {}

-----------------------------------------------------------------------------
(* Get *)

Holds(c, n, o) == call' = [call EXCEPT ![c] = [phase |-> "has", name |-> n, obj |-> o]]

(* The lookup under the read lock. *)
GetHit(c, n) ==
    /\ call[c] = Idle
    /\ n \in DOMAIN breakers
    /\ Holds(c, n, breakers[n])
    /\ UNCHANGED <<heap, breakers, listing>>

GetMiss(c, n) ==
    /\ call[c] = Idle
    /\ n \notin DOMAIN breakers
    /\ call' = [call EXCEPT ![c] = [phase |-> "missed", name |-> n]]
    /\ UNCHANGED <<heap, breakers, listing>>

(* A mistake to look for: the name is not looked up again under the write  *)
(* lock.                                                                   *)
GetCreateUnchecked(c) ==
    /\ call[c].phase = "missed"
    /\ listing = {}
    /\ heap' = Append(heap, NewCircuitBreaker)
    /\ breakers' = [m \in DOMAIN breakers \cup {call[c].name} |->
                        IF m = call[c].name THEN Len(heap') ELSE breakers[m]]
    /\ Holds(c, call[c].name, Len(heap'))
    /\ UNCHANGED listing

(* The rest of Get under the write lock, for which it waits while a List   *)
(* holds the read lock.                                                    *)
GetCreate(c) ==
    LET n == call[c].name
    IN  /\ call[c].phase = "missed"
        /\ listing = {}
        /\ \/ /\ n \in DOMAIN breakers
              /\ Holds(c, n, breakers[n])
              /\ UNCHANGED <<heap, breakers>>
           \/ /\ n \notin DOMAIN breakers
              /\ heap' = Append(heap, NewCircuitBreaker)
              /\ breakers' = [m \in DOMAIN breakers \cup {n} |->
                                IF m = n THEN Len(heap') ELSE breakers[m]]
              /\ Holds(c, n, Len(heap'))
        /\ UNCHANGED listing

-----------------------------------------------------------------------------
(* A request through a breaker *)

Return(c) == call' = [call EXCEPT ![c] = Idle]

Allow(c) ==
    LET o == call[c].obj
    IN  /\ call[c].phase = "has"
        /\ \/ /\ Admits(heap[o])
              /\ heap' = [heap EXCEPT ![o] = HalfOpened(@)]
              /\ call' = [call EXCEPT ![c] =
                            [phase |-> "admitted", name |-> call[c].name, obj |-> o,
                             by |-> heap'[o].state]]
           \/ /\ ~Admits(heap[o])
              /\ Return(c)
              /\ UNCHANGED heap
        /\ UNCHANGED <<breakers, listing>>

RecordSuccess(c) ==
    /\ call[c].phase = "admitted"
    /\ heap' = [heap EXCEPT ![call[c].obj] = Succeeded(@)]
    /\ Return(c)
    /\ UNCHANGED <<breakers, listing>>

RecordFailure(c) ==
    /\ call[c].phase = "admitted"
    /\ heap' = [heap EXCEPT ![call[c].obj] = Failed(@)]
    /\ Return(c)
    /\ UNCHANGED <<breakers, listing>>

-----------------------------------------------------------------------------
(* handleResetBreaker: Get, Reset, GetState *)

Reset(c) ==
    /\ call[c].phase = "has"
    /\ heap' = [heap EXCEPT ![call[c].obj] = WasReset(@)]
    /\ call' = [call EXCEPT ![c].phase = "reset"]
    /\ UNCHANGED <<breakers, listing>>

GetState(c) ==
    /\ call[c].phase = "reset"
    /\ heap' = [heap EXCEPT ![call[c].obj] = HalfOpened(@)]
    /\ Return(c)
    /\ UNCHANGED <<breakers, listing>>

-----------------------------------------------------------------------------
(* handleListBreakers: List, one at a time *)

List ==
    /\ listing = {}
    /\ DOMAIN breakers # {}
    /\ listing' = DOMAIN breakers
    /\ UNCHANGED <<heap, breakers, call>>

ListNext(n) ==
    /\ n \in listing
    /\ heap' = [heap EXCEPT ![breakers[n]] = HalfOpened(@)]
    /\ listing' = listing \ {n}
    /\ UNCHANGED <<breakers, call>>

Tick ==
    /\ heap' = [o \in DOMAIN heap |-> Aged(heap[o])]
    /\ heap' # heap
    /\ UNCHANGED <<breakers, call, listing>>

-----------------------------------------------------------------------------
Get(c, n) == GetHit(c, n) \/ GetMiss(c, n)

Next ==
    \/ \E c \in Clients : (\E n \in Names : Get(c, n)) \/ GetCreate(c)
    \/ \E c \in Callers : Allow(c) \/ RecordSuccess(c) \/ RecordFailure(c)
    \/ \E c \in Operators : Reset(c) \/ GetState(c)
    \/ List
    \/ \E n \in Names : ListNext(n)
    \/ Tick

Spec == Init /\ [][Next]_vars

(* Time passes, a List goes on to its end, and the callers do not give up: *)
(* each asks for every name again and again, and its requests end.         *)
FairSpec ==
    /\ Spec
    /\ WF_vars(Tick)
    /\ WF_vars(\E n \in Names : ListNext(n))
    /\ \A c \in Callers :
        /\ \A n \in Names : SF_vars(Get(c, n))
        /\ WF_vars(GetCreate(c))
        /\ WF_vars(Allow(c))
        /\ WF_vars(RecordSuccess(c) \/ RecordFailure(c))

-----------------------------------------------------------------------------
(* Properties *)

(* No counter passes the threshold that ends its state, every call holds   *)
(* an object that exists, and only registered breakers are listed.         *)
TypeOK ==
    /\ heap \in Seq(Breakers)
    /\ DOMAIN breakers \subseteq Names
    /\ breakers \in [DOMAIN breakers -> DOMAIN heap]
    /\ call \in [Clients -> Calls]
    /\ listing \subseteq DOMAIN breakers

(* The breaker a client that asks for n gets, or would create.             *)
BreakerOf(n) == IF n \in DOMAIN breakers THEN heap[breakers[n]] ELSE NewCircuitBreaker

BusyWith(n) ==
    [c \in Callers |->
        IF call[c].phase = "admitted" /\ call[c].name = n THEN call[c].by ELSE "none"]

One(n) == INSTANCE CircuitBreaker WITH cb <- BreakerOf(n), busy <- BusyWith(n)

(* Whoever asks for a name shares one circuit breaker with everyone else   *)
(* who does: however creations, resets and lists interleave, no outcome is *)
(* recorded on a breaker that others do not see, and no breaker forgets.   *)
OneBreakerPerName ==
    /\ \A n \in Names : One(n)!Init
    /\ [][\A n \in Names : One(n)!Next \/ UNCHANGED One(n)!vars]_vars

(* The counters belong to the state: a closed breaker has seen fewer       *)
(* failures in a row than trip it and owes nothing to an earlier recovery, *)
(* a half-open one fewer successes than close it, an open one none.  Late  *)
(* outcomes of requests admitted in an earlier state do not break this.    *)
CountersFitState == \A o \in DOMAIN heap : CountersFit(heap[o])

(* Once tripped, by whichever outcome, the breaker admits no request until *)
(* its whole cooldown has passed, unless an operator resets it.            *)
CooldownKept ==
    [][\A c \in Callers :
        (call[c].phase = "has" /\ call'[c].phase = "admitted")
            => heap[call[c].obj].rested = Cooldown]_vars

(* An open breaker does not stay open: as long as callers ask, it comes to *)
(* be tried again.                                                         *)
TriedAgain == \A n \in Names : BreakerOf(n).state = "open" ~> BreakerOf(n).state # "open"

=============================================================================
