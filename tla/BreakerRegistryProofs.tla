------------------------- MODULE BreakerRegistryProofs -------------------------
(***************************************************************************)
(* Proofs about BreakerRegistry.tla for all thresholds, cooldowns, names   *)
(* and numbers of clients.                                                 *)
(***************************************************************************)
EXTENDS BreakerRegistry, TLAPS

-----------------------------------------------------------------------------
(* One breaker *)

(* An open breaker has rested as long as it has waited, and any other one  *)
(* has rested in full.                                                     *)
Rest(b) ==
    IF b.state = "open" THEN b.wait + b.rested = Cooldown ELSE b.rested = Cooldown

SoundBreakers == {b \in Breakers : CountersFit(b) /\ Rest(b)}

(* A breaker is sound when it is made and when it is reset.                *)
LEMMA NewSound ==
    /\ NewCircuitBreaker \in SoundBreakers
    /\ \A b : WasReset(b) \in SoundBreakers
  BY BreakerAssumption
     DEF SoundBreakers, NewCircuitBreaker, WasReset, Breakers, CountersFit, Rest

(* Every method keeps a breaker sound, in every state it may be called in. *)
LEMMA MethodsSound ==
    ASSUME NEW b \in SoundBreakers
    PROVE  /\ HalfOpened(b) \in SoundBreakers
           /\ Succeeded(b) \in SoundBreakers
           /\ Failed(b) \in SoundBreakers
           /\ Aged(b) \in SoundBreakers
  <1>1. /\ b \in Breakers /\ CountersFit(b) /\ Rest(b)
        /\ b.state \in {"closed", "open", "half-open"}
        /\ b.failureCount \in 0 .. FailureThreshold
        /\ b.successCount \in 0 .. SuccessThreshold
        /\ b.wait \in 0 .. Cooldown
        /\ b.rested \in 0 .. Cooldown
    BY DEF SoundBreakers, Breakers
  <1>r. b = [state |-> b.state, failureCount |-> b.failureCount,
             successCount |-> b.successCount, wait |-> b.wait, rested |-> b.rested]
    BY <1>1 DEF Breakers
  <1>2. HalfOpened(b) \in SoundBreakers
    <2>1. CASE b.state = "open" /\ b.wait = 0
      <3>1. HalfOpened(b) =
                [state |-> "half-open", failureCount |-> b.failureCount,
                 successCount |-> 0, wait |-> b.wait, rested |-> b.rested]
        BY <1>r, <2>1 DEF HalfOpened
      <3> QED BY <1>1, <2>1, <3>1, BreakerAssumption
              DEF SoundBreakers, Breakers, CountersFit, Rest
    <2> QED BY <2>1 DEF HalfOpened
  <1>3. Succeeded(b) \in SoundBreakers
    <2>1. Succeeded(b) =
            [state        |-> IF b.state = "half-open"
                                    /\ b.successCount + 1 >= SuccessThreshold
                              THEN "closed" ELSE b.state,
             failureCount |-> IF \/ b.state = "closed"
                                 \/ b.state = "half-open"
                                        /\ b.successCount + 1 >= SuccessThreshold
                              THEN 0 ELSE b.failureCount,
             successCount |-> IF b.state = "half-open"
                              THEN IF b.successCount + 1 >= SuccessThreshold
                                   THEN 0 ELSE b.successCount + 1
                              ELSE b.successCount,
             wait |-> b.wait, rested |-> b.rested]
      BY <1>1, <1>r DEF Succeeded
    <2> QED BY <1>1, <2>1, BreakerAssumption
            DEF SoundBreakers, Breakers, CountersFit, Rest
  <1>4. Failed(b) \in SoundBreakers
    <2>1. CASE b.state = "closed" /\ b.failureCount + 1 < FailureThreshold
      <3>1. Failed(b) =
                [state |-> "closed", failureCount |-> b.failureCount + 1,
                 successCount |-> b.successCount, wait |-> b.wait, rested |-> b.rested]
        BY <1>1, <1>r, <2>1, BreakerAssumption DEF Failed
      <3> QED BY <1>1, <2>1, <3>1, BreakerAssumption
              DEF SoundBreakers, Breakers, CountersFit, Rest
    <2>2. CASE b.state = "closed" /\ b.failureCount + 1 >= FailureThreshold
      <3>1. Failed(b) =
                [state |-> "open", failureCount |-> b.failureCount + 1,
                 successCount |-> b.successCount, wait |-> Cooldown, rested |-> 0]
        BY <1>1, <1>r, <2>2 DEF Failed, Tripped
      <3> QED BY <1>1, <2>2, <3>1, BreakerAssumption
              DEF SoundBreakers, Breakers, CountersFit, Rest
    <2>3. CASE b.state = "half-open"
      <3>1. Failed(b) =
                [state |-> "open", failureCount |-> b.failureCount,
                 successCount |-> 0, wait |-> Cooldown, rested |-> 0]
        BY <1>1, <1>r, <2>3 DEF Failed, Tripped
      <3> QED BY <1>1, <2>3, <3>1, BreakerAssumption
              DEF SoundBreakers, Breakers, CountersFit, Rest
    <2>4. CASE b.state = "open"
      BY <1>1, <2>4 DEF Failed
    <2> QED BY <1>1, <2>1, <2>2, <2>3, <2>4, BreakerAssumption
  <1>5. Aged(b) \in SoundBreakers
    <2>1. Aged(b) =
            [state |-> b.state, failureCount |-> b.failureCount,
             successCount |-> b.successCount,
             wait |-> IF b.wait > 0 THEN b.wait - 1 ELSE 0,
             rested |-> IF b.rested < Cooldown THEN b.rested + 1 ELSE Cooldown]
      <3>1. PICK a : a = [b EXCEPT !.wait = IF b.wait > 0 THEN b.wait - 1 ELSE 0]
        OBVIOUS
      <3>2. a = [state |-> b.state, failureCount |-> b.failureCount,
                 successCount |-> b.successCount,
                 wait |-> IF b.wait > 0 THEN b.wait - 1 ELSE 0, rested |-> b.rested]
        BY <1>r, <3>1
      <3>3. Aged(b) = [a EXCEPT !.rested = IF b.rested < Cooldown THEN b.rested + 1
                                           ELSE Cooldown]
        BY <3>1 DEF Aged
      <3> QED BY <3>2, <3>3
    <2> QED BY <1>1, <2>1, BreakerAssumption
            DEF SoundBreakers, Breakers, CountersFit, Rest
  <1> QED BY <1>2, <1>3, <1>4, <1>5

(* A breaker admits a request only when it has rested in full.             *)
LEMMA AdmitsRested ==
    ASSUME NEW b \in SoundBreakers, Admits(b)
    PROVE  b.rested = Cooldown /\ HalfOpened(b).state \in {"closed", "half-open"}
  BY BreakerAssumption DEF SoundBreakers, Breakers, Rest, Admits, HalfOpened

-----------------------------------------------------------------------------
(* The invariant of the registry of breakers *)

Phase(c) == call[c].phase

(* Whoever has a breaker in hand, has the one that is registered.          *)
HoldsRegistered ==
    \A c \in Clients : Phase(c) \in {"has", "reset", "admitted"} =>
        call[c].name \in DOMAIN breakers /\ breakers[call[c].name] = call[c].obj

(* No breaker is registered under two names.                               *)
OneNamePerBreaker ==
    \A m, n \in DOMAIN breakers : breakers[m] = breakers[n] => m = n

BInv ==
    /\ TypeOK
    /\ heap \in Seq(SoundBreakers)
    /\ HoldsRegistered
    /\ OneNamePerBreaker

(* The inductive invariant implies the invariants the runs check.          *)
LEMMA BInvImplies == BInv => TypeOK /\ CountersFitState
  BY DEF BInv, SoundBreakers, CountersFitState

(* An empty registry, without calls.                                       *)
LEMMA InitBInv == Init => BInv
  BY DEF Init, BInv, TypeOK, Calls, Idle, HoldsRegistered, OneNamePerBreaker, Phase

(* What a client may be doing. *)
LEMMA CallFields ==
    ASSUME BInv, NEW c \in Clients
    PROVE  /\ Phase(c) \in {"idle", "missed", "has", "reset", "admitted"}
           /\ Phase(c) = "idle" => call[c] = Idle
           /\ Phase(c) # "idle" => call[c].name \in Names
           /\ Phase(c) \in {"has", "reset", "admitted"} =>
                /\ call[c].obj \in DOMAIN heap
                /\ call[c].name \in DOMAIN breakers
                /\ breakers[call[c].name] = call[c].obj
           /\ Phase(c) = "admitted" => call[c].by \in {"closed", "half-open"}
  BY DEF BInv, TypeOK, Calls, Idle, HoldsRegistered, Phase

(* The breakers change, but not which are registered, and no client gets   *)
(* hold of another one.                                                    *)
LEMMA MethodBInv ==
    ASSUME BInv,
           heap' \in Seq(SoundBreakers), DOMAIN heap' = DOMAIN heap,
           breakers' = breakers, listing' \subseteq DOMAIN breakers,
           call' \in [Clients -> Calls],
           \A c \in Clients : call'[c].phase \in {"has", "reset", "admitted"} =>
                /\ Phase(c) \in {"has", "reset", "admitted"}
                /\ call'[c].name = call[c].name
                /\ call'[c].obj = call[c].obj
    PROVE  BInv'
  <1>1. heap' \in Seq(Breakers)
    BY DEF SoundBreakers
  <1>2. TypeOK'
    BY <1>1 DEF BInv, TypeOK, Calls
  <1>3. HoldsRegistered'
    BY DEF BInv, HoldsRegistered, Phase
  <1>4. OneNamePerBreaker'
    BY DEF BInv, OneNamePerBreaker
  <1> QED BY <1>2, <1>3, <1>4 DEF BInv

(* A client that goes back to idle. *)
LEMMA ReturnKeeps ==
    ASSUME BInv, NEW c \in Clients, Return(c)
    PROVE  /\ call' \in [Clients -> Calls]
           /\ \A d \in Clients : call'[d].phase \in {"has", "reset", "admitted"} =>
                /\ Phase(d) \in {"has", "reset", "admitted"}
                /\ call'[d].name = call[d].name
                /\ call'[d].obj = call[d].obj
  BY DEF BInv, TypeOK, Return, Calls, Idle, Phase

(* A method of one breaker leaves the others as they are.                  *)
LEMMA HeapUpdate ==
    ASSUME BInv, NEW o \in DOMAIN heap, NEW b \in SoundBreakers
    PROVE  /\ [heap EXCEPT ![o] = b] \in Seq(SoundBreakers)
           /\ DOMAIN [heap EXCEPT ![o] = b] = DOMAIN heap
           /\ heap[o] \in SoundBreakers
  BY DEF BInv

(* A client that gets hold of the breaker registered under a name.         *)
LEMMA HoldsBInv ==
    ASSUME BInv, NEW c \in Clients, NEW n \in DOMAIN breakers,
           Holds(c, n, breakers[n]), UNCHANGED <<heap, breakers, listing>>
    PROVE  BInv'
  <1>1. [phase |-> "has", name |-> n, obj |-> breakers[n]] \in Calls
    BY DEF BInv, TypeOK, Calls
  <1>2. call' \in [Clients -> Calls]
    BY <1>1 DEF BInv, TypeOK, Holds
  <1>3. TypeOK'
    BY <1>2 DEF BInv, TypeOK, Calls
  <1>4. HoldsRegistered'
    BY DEF BInv, HoldsRegistered, Phase, Holds, TypeOK
  <1> QED BY <1>3, <1>4 DEF BInv, OneNamePerBreaker

(* A new breaker, registered under a name that had none.                   *)
LEMMA CreateBInv ==
    ASSUME BInv, NEW c \in Clients, NEW n \in Names, n \notin DOMAIN breakers,
           heap' = Append(heap, NewCircuitBreaker),
           breakers' = [m \in DOMAIN breakers \cup {n} |->
                            IF m = n THEN Len(heap') ELSE breakers[m]],
           Holds(c, n, Len(heap')), UNCHANGED listing
    PROVE  BInv'
  <1>1. /\ heap' \in Seq(SoundBreakers) /\ heap' \in Seq(Breakers)
        /\ Len(heap') = Len(heap) + 1 /\ Len(heap) \in Nat
        /\ DOMAIN heap = 1 .. Len(heap) /\ DOMAIN heap' = 1 .. Len(heap')
    BY NewSound DEF BInv, SoundBreakers
  <1>2. breakers \in [DOMAIN breakers -> DOMAIN heap]
    BY DEF BInv, TypeOK
  <1>3. breakers' \in [DOMAIN breakers' -> DOMAIN heap'] /\ DOMAIN breakers' \subseteq Names
    BY <1>1, <1>2 DEF BInv, TypeOK
  <1>4. Calls \subseteq Calls'
    BY <1>1 DEF Calls
  <1>5. [phase |-> "has", name |-> n, obj |-> Len(heap')] \in Calls'
    BY <1>1 DEF Calls
  <1>6. call' \in [Clients -> Calls']
    BY <1>4, <1>5 DEF BInv, TypeOK, Holds
  <1>7. TypeOK'
    BY <1>1, <1>3, <1>6 DEF BInv, TypeOK
  <1>8. HoldsRegistered'
    BY DEF BInv, TypeOK, HoldsRegistered, Phase, Holds
  <1>9. OneNamePerBreaker'
    BY <1>1, <1>2 DEF BInv, OneNamePerBreaker
  <1> QED BY <1>1, <1>7, <1>8, <1>9 DEF BInv

(* Every operation of the registry and of its breakers keeps the           *)
(* inductive invariant.                                                    *)
LEMMA NextBInv == BInv /\ [Next]_vars => BInv'
  <1> SUFFICES ASSUME BInv, [Next]_vars PROVE BInv'
    OBVIOUS
  <1>t. /\ call \in [Clients -> Calls]
        /\ breakers \in [DOMAIN breakers -> DOMAIN heap]
        /\ listing \subseteq DOMAIN breakers
    BY DEF BInv, TypeOK
  <1>1. ASSUME NEW c \in Clients, NEW n \in Names, GetHit(c, n)
        PROVE  BInv'
    BY <1>1, HoldsBInv DEF GetHit
  <1>2. ASSUME NEW c \in Clients, NEW n \in Names, GetMiss(c, n)
        PROVE  BInv'
    <2>1. [phase |-> "missed", name |-> n] \in Calls
      BY DEF Calls
    <2> QED BY <1>2, <1>t, <2>1, MethodBInv DEF GetMiss, BInv, Phase
  <1>3. ASSUME NEW c \in Clients, GetCreate(c)
        PROVE  BInv'
    <2>1. call[c].name \in Names
      BY <1>3, CallFields DEF GetCreate, Phase
    <2> QED BY <1>3, <2>1, HoldsBInv, CreateBInv DEF GetCreate
  <1>4. ASSUME NEW c \in Callers, Allow(c)
        PROVE  BInv'
    <2> DEFINE o == call[c].obj
    <2>1. /\ c \in Clients /\ o \in DOMAIN heap /\ call[c].name \in Names
          /\ heap[o] \in SoundBreakers /\ Phase(c) = "has"
      BY <1>4, CallFields DEF Allow, Phase, Clients, BInv
    <2>2. CASE Admits(heap[o])
      <3> DEFINE b == HalfOpened(heap[o])
                 k == [phase |-> "admitted", name |-> call[c].name, obj |-> o,
                       by |-> b.state]
      <3>1. b \in SoundBreakers /\ b.state \in {"closed", "half-open"}
        BY <2>1, <2>2, MethodsSound, AdmitsRested
      <3>2. heap' = [heap EXCEPT ![o] = b]
        BY <1>4, <2>2 DEF Allow
      <3>3. heap' \in Seq(SoundBreakers) /\ DOMAIN heap' = DOMAIN heap
        BY <2>1, <3>1, <3>2, HeapUpdate
      <3>4. heap'[o].state = b.state
        BY <2>1, <3>2 DEF BInv
      <3>5. call' = [call EXCEPT ![c] = k] /\ UNCHANGED <<breakers, listing>>
        BY <1>4, <2>2, <3>4 DEF Allow
      <3>6. k \in Calls
        BY <2>1, <3>1 DEF Calls
      <3>7. k.name = call[c].name /\ k.obj = call[c].obj
        OBVIOUS
      <3> HIDE DEF k, b
      <3> QED BY <1>t, <2>1, <3>3, <3>5, <3>6, <3>7, MethodBInv DEF Phase
    <2>3. CASE ~Admits(heap[o])
      BY <1>4, <1>t, <2>1, <2>3, ReturnKeeps, MethodBInv DEF Allow, BInv
    <2> QED BY <2>2, <2>3
  <1>5. ASSUME NEW c \in Callers, RecordSuccess(c) \/ RecordFailure(c)
        PROVE  BInv'
    <2>1. /\ c \in Clients /\ call[c].obj \in DOMAIN heap
          /\ heap[call[c].obj] \in SoundBreakers
      BY <1>5, CallFields DEF RecordSuccess, RecordFailure, Phase, Clients, BInv
    <2>2. PICK b \in SoundBreakers : heap' = [heap EXCEPT ![call[c].obj] = b]
      BY <1>5, <2>1, MethodsSound DEF RecordSuccess, RecordFailure
    <2>3. heap' \in Seq(SoundBreakers) /\ DOMAIN heap' = DOMAIN heap
      BY <2>1, <2>2, HeapUpdate
    <2> QED BY <1>5, <1>t, <2>1, <2>3, ReturnKeeps, MethodBInv
            DEF RecordSuccess, RecordFailure
  <1>6. ASSUME NEW c \in Operators, Reset(c)
        PROVE  BInv'
    <2>1. /\ c \in Clients /\ call[c].obj \in DOMAIN heap /\ Phase(c) = "has"
          /\ call[c] \in [phase : {"has", "reset"}, name : Names, obj : DOMAIN heap]
      BY <1>6, <1>t DEF Reset, Phase, Clients, Calls, Idle
    <2>2. PICK b \in SoundBreakers : heap' = [heap EXCEPT ![call[c].obj] = b]
      BY <1>6, NewSound DEF Reset
    <2>3. heap' \in Seq(SoundBreakers) /\ DOMAIN heap' = DOMAIN heap
      BY <2>1, <2>2, HeapUpdate
    <2>4. PICK k : /\ k = [call[c] EXCEPT !.phase = "reset"]
                   /\ k = [phase |-> "reset", name |-> call[c].name, obj |-> call[c].obj]
      <3>1. PICK n, o : call[c] = [phase |-> "has", name |-> n, obj |-> o]
        BY <2>1 DEF Phase
      <3>2. [call[c] EXCEPT !.phase = "reset"] = [phase |-> "reset", name |-> n, obj |-> o]
        BY <3>1
      <3> QED BY <3>1, <3>2
    <2>5. k \in Calls /\ call' = [call EXCEPT ![c] = k]
      BY <1>6, <2>1, <2>4 DEF Reset, Calls
    <2> QED BY <1>6, <1>t, <2>1, <2>3, <2>4, <2>5, MethodBInv DEF Reset, Phase
  <1>7. ASSUME NEW c \in Operators, GetState(c)
        PROVE  BInv'
    <2>1. /\ c \in Clients /\ call[c].obj \in DOMAIN heap
          /\ heap[call[c].obj] \in SoundBreakers
      BY <1>7, CallFields DEF GetState, Phase, Clients, BInv
    <2>2. PICK b \in SoundBreakers : heap' = [heap EXCEPT ![call[c].obj] = b]
      BY <1>7, <2>1, MethodsSound DEF GetState
    <2>3. heap' \in Seq(SoundBreakers) /\ DOMAIN heap' = DOMAIN heap
      BY <2>1, <2>2, HeapUpdate
    <2> QED BY <1>7, <1>t, <2>1, <2>3, ReturnKeeps, MethodBInv DEF GetState
  <1>8. CASE List
    BY <1>8, <1>t, MethodBInv DEF List, BInv, Phase
  <1>9. ASSUME NEW n \in Names, ListNext(n)
        PROVE  BInv'
    <2>1. breakers[n] \in DOMAIN heap /\ heap[breakers[n]] \in SoundBreakers
      BY <1>9, <1>t DEF ListNext, BInv
    <2>2. PICK b \in SoundBreakers : heap' = [heap EXCEPT ![breakers[n]] = b]
      BY <1>9, <2>1, MethodsSound DEF ListNext
    <2>3. heap' \in Seq(SoundBreakers) /\ DOMAIN heap' = DOMAIN heap
      BY <2>1, <2>2, HeapUpdate
    <2> QED BY <1>9, <1>t, <2>3, MethodBInv DEF ListNext, Phase
  <1>10. CASE Tick
    <2>1. \A o \in DOMAIN heap : Aged(heap[o]) \in SoundBreakers
      BY MethodsSound DEF BInv
    <2>2. heap' \in Seq(SoundBreakers) /\ DOMAIN heap' = DOMAIN heap
      BY <1>10, <2>1 DEF Tick, BInv
    <2> QED BY <1>10, <1>t, <2>2, MethodBInv DEF Tick, Phase
  <1>11. CASE UNCHANGED vars
    BY <1>11, <1>t, MethodBInv DEF vars, BInv, Phase
  <1> QED BY <1>1, <1>2, <1>3, <1>4, <1>5, <1>6, <1>7, <1>8, <1>9, <1>10, <1>11
          DEF Next, Get

(* The inductive invariant holds in every reachable state.                 *)
THEOREM BreakersInvariance == Spec => []BInv
  BY InitBInv, NextBInv, PTL DEF Spec

(* Every reachable state is well typed: no counter passes the threshold    *)
(* that ends its state, and every call holds a breaker that exists.        *)
THEOREM BreakersTypeCorrect == Spec => []TypeOK
  BY BreakersInvariance, BInvImplies, PTL

(* The counters of every breaker belong to its state, whatever outcomes of *)
(* earlier states are still recorded on it.                                *)
THEOREM CountersAlwaysFit == Spec => []CountersFitState
  BY BreakersInvariance, BInvImplies, PTL

-----------------------------------------------------------------------------
(* The cooldown *)

(* A request is admitted by Allow, and only by a rested breaker.           *)
LEMMA AdmittedByAllow ==
    ASSUME BInv, [Next]_vars,
           NEW c \in Callers, call[c].phase = "has", call'[c].phase = "admitted"
    PROVE  heap[call[c].obj].rested = Cooldown
  <1>t. c \in Clients /\ call \in [Clients -> Calls] /\ Idle.phase = "idle"
    BY DEF BInv, TypeOK, Clients, Idle
  <1>1. Allow(c) /\ Admits(heap[call[c].obj])
    <2>1. ASSUME NEW d \in Clients, NEW n \in Names, GetHit(d, n) \/ GetMiss(d, n)
          PROVE  FALSE
      BY <1>t, <2>1 DEF GetHit, GetMiss, Holds
    <2>2. ASSUME NEW d \in Clients, GetCreate(d)
          PROVE  FALSE
      BY <1>t, <2>2 DEF GetCreate, Holds
    <2>3. ASSUME NEW d \in Callers, Allow(d)
          PROVE  Allow(c) /\ Admits(heap[call[c].obj])
      BY <1>t, <2>3 DEF Allow, Return, Clients
    <2>4. ASSUME NEW d \in Callers, RecordSuccess(d) \/ RecordFailure(d)
          PROVE  FALSE
      BY <1>t, <2>4 DEF RecordSuccess, RecordFailure, Return
    <2>5. ASSUME NEW d \in Operators, Reset(d) \/ GetState(d)
          PROVE  FALSE
      <3>1. d # c
        BY ClientsAssumption
      <3> QED BY <1>t, <2>5, <3>1 DEF Reset, GetState, Return
    <2>6. CASE List \/ (\E n \in Names : ListNext(n)) \/ Tick \/ UNCHANGED vars
      BY <2>6 DEF List, ListNext, Tick, vars
    <2> QED BY <2>1, <2>2, <2>3, <2>4, <2>5, <2>6 DEF Next, Get
  <1>2. heap[call[c].obj] \in SoundBreakers
    BY <1>t, CallFields DEF Phase, BInv
  <1> QED BY <1>1, <1>2, AdmitsRested

(* A tripped breaker admits no request before its whole cooldown is over   *)
(* or it is reset, for any number of callers, however late they record.    *)
THEOREM CooldownAlwaysKept == Spec => CooldownKept
  <1>1. BInv /\ [Next]_vars =>
            [\A c \in Callers :
                (call[c].phase = "has" /\ call'[c].phase = "admitted")
                    => heap[call[c].obj].rested = Cooldown]_vars
    BY AdmittedByAllow
  <1> QED BY <1>1, BreakersInvariance, PTL DEF Spec, CooldownKept

-----------------------------------------------------------------------------
(* Each name is one circuit breaker *)

(* The steps of the circuit breaker that stands for a name.                *)
LEMMA OneSteps ==
    ASSUME NEW n \in Names
    PROVE  /\ \A c \in Callers :
                /\ BusyWith(n)[c] = "none" /\ Admits(BreakerOf(n))
                /\ BreakerOf(n)' = HalfOpened(BreakerOf(n))
                /\ BusyWith(n)' = [BusyWith(n) EXCEPT ![c] = HalfOpened(BreakerOf(n)).state]
                => One(n)!Next
           /\ \A c \in Callers :
                /\ BusyWith(n)[c] # "none"
                /\ BreakerOf(n)' \in {Succeeded(BreakerOf(n)), Failed(BreakerOf(n))}
                /\ BusyWith(n)' = [BusyWith(n) EXCEPT ![c] = "none"]
                => One(n)!Next
           /\ /\ BreakerOf(n)' \in {HalfOpened(BreakerOf(n)), WasReset(BreakerOf(n)),
                                     Aged(BreakerOf(n))}
              /\ BusyWith(n)' = BusyWith(n)
              => One(n)!Next
           /\ BreakerOf(n)' = BreakerOf(n) /\ BusyWith(n)' = BusyWith(n)
              => UNCHANGED One(n)!vars
  <1>1. \A b : /\ One(n)!Admits(b) = Admits(b)
               /\ One(n)!HalfOpened(b) = HalfOpened(b)
               /\ One(n)!Succeeded(b) = Succeeded(b)
               /\ One(n)!Failed(b) = Failed(b)
               /\ One(n)!WasReset(b) = WasReset(b)
               /\ One(n)!Aged(b) = Aged(b)
    BY DEF One!Admits, Admits, One!HalfOpened, HalfOpened, One!Succeeded, Succeeded,
           One!Failed, Failed, One!Tripped, Tripped, One!WasReset, WasReset,
           One!NewCircuitBreaker, NewCircuitBreaker, One!Aged, Aged
  <1> QED BY <1>1 DEF One!Next, One!Allow, One!RecordSuccess, One!RecordFailure,
                      One!GetState, One!Reset, One!Tick, One!vars

(* A method called on the breaker registered under m changes what n stands *)
(* for only if m and n are the same name.                                  *)
LEMMA OnlyThatName ==
    ASSUME BInv, NEW m \in DOMAIN breakers, NEW b \in SoundBreakers,
           heap' = [heap EXCEPT ![breakers[m]] = b], breakers' = breakers,
           NEW n \in Names
    PROVE  /\ n = m => BreakerOf(n) = heap[breakers[m]] /\ BreakerOf(n)' = b
           /\ n # m => BreakerOf(n)' = BreakerOf(n)
  <1>1. breakers \in [DOMAIN breakers -> DOMAIN heap] /\ heap \in Seq(SoundBreakers)
    BY DEF BInv, TypeOK
  <1>2. n = m => BreakerOf(n) = heap[breakers[m]] /\ BreakerOf(n)' = b
    BY <1>1 DEF BreakerOf
  <1>3. n # m => BreakerOf(n)' = BreakerOf(n)
    BY <1>1 DEF BreakerOf, BInv, OneNamePerBreaker
  <1> QED BY <1>2, <1>3

(* Creating a breaker under another client's eyes changes no name: one     *)
(* that nobody asked for yet stands for a new breaker already.             *)
LEMMA CreationUnseen ==
    ASSUME BInv, NEW m \in Names, m \notin DOMAIN breakers,
           heap' = Append(heap, NewCircuitBreaker),
           breakers' = [x \in DOMAIN breakers \cup {m} |->
                            IF x = m THEN Len(heap') ELSE breakers[x]],
           NEW n \in Names
    PROVE  BreakerOf(n)' = BreakerOf(n)
  <1>1. /\ breakers \in [DOMAIN breakers -> DOMAIN heap]
        /\ heap \in Seq(SoundBreakers) /\ NewCircuitBreaker \in SoundBreakers
    BY NewSound DEF BInv, TypeOK
  <1>2. /\ heap'[Len(heap')] = NewCircuitBreaker
        /\ \A o \in DOMAIN heap : heap'[o] = heap[o]
    BY <1>1
  <1> QED BY <1>1, <1>2 DEF BreakerOf

(* Only the call of c changes. *)
OnlyCall(c) == \A d \in Clients \ {c} : call'[d] = call[d]

BusyIn(c, n) == Phase(c) = "admitted" /\ call[c].name = n

(* What a name sees of the requests under way.                             *)
LEMMA BusyMeans ==
    ASSUME BInv, NEW c \in Callers, NEW n \in Names
    PROVE  BusyWith(n)[c] # "none" <=> BusyIn(c, n)
  <1>1. Phase(c) = "admitted" => call[c].by \in {"closed", "half-open"}
    BY CallFields DEF Clients
  <1> QED BY <1>1 DEF BusyWith, BusyIn, Phase

(* A call that is no request of n's, before and after, is unseen by n.     *)
LEMMA BusyKept ==
    ASSUME BInv, NEW n \in Names, NEW c \in Clients, OnlyCall(c),
           ~BusyIn(c, n), ~BusyIn(c, n)'
    PROVE  BusyWith(n)' = BusyWith(n)
  BY DEF BusyWith, BusyIn, Phase, OnlyCall, Clients

(* The request of a caller ends, or is n's and begins.                     *)
LEMMA BusyChanges ==
    ASSUME BInv, NEW n \in Names, NEW c \in Callers, OnlyCall(c)
    PROVE  /\ ~BusyIn(c, n)' => BusyWith(n)' = [BusyWith(n) EXCEPT ![c] = "none"]
           /\ BusyIn(c, n)' => BusyWith(n)' = [BusyWith(n) EXCEPT ![c] = call'[c].by]
  BY DEF BusyWith, BusyIn, Phase, OnlyCall, Clients

(* Every step of the registry is, for every name, a step of one circuit    *)
(* breaker, or leaves it as it is.                                         *)
LEMMA StepOfOne ==
    ASSUME BInv, [Next]_vars, NEW n \in Names
    PROVE  One(n)!Next \/ UNCHANGED One(n)!vars
  <1> DEFINE Same == BreakerOf(n)' = BreakerOf(n) /\ BusyWith(n)' = BusyWith(n)
  <1>s. Same => UNCHANGED One(n)!vars
    BY OneSteps
  <1>t. /\ call \in [Clients -> Calls] /\ Idle.phase = "idle"
        /\ breakers \in [DOMAIN breakers -> DOMAIN heap]
        /\ heap \in Seq(SoundBreakers)
        /\ listing \subseteq DOMAIN breakers
    BY DEF BInv, TypeOK, Idle
  <1>h. heap' = heap /\ breakers' = breakers => BreakerOf(n)' = BreakerOf(n)
    BY DEF BreakerOf
  <1>1. ASSUME NEW c \in Clients, NEW m \in Names, GetHit(c, m) \/ GetMiss(c, m)
        PROVE  Same
    <2>1. Phase(c) = "idle"
      BY <1>1, <1>t DEF GetHit, GetMiss, Phase
    <2>2. OnlyCall(c) /\ call'[c].phase # "admitted"
      BY <1>1, <1>t DEF GetHit, GetMiss, Holds, OnlyCall
    <2>3. BusyWith(n)' = BusyWith(n)
      BY <2>1, <2>2, BusyKept DEF BusyIn, Phase
    <2> QED BY <1>1, <1>h, <2>3 DEF GetHit, GetMiss
  <1>2. ASSUME NEW c \in Clients, GetCreate(c)
        PROVE  Same
    <2>1. Phase(c) = "missed" /\ call[c].name \in Names
      BY <1>2, CallFields DEF GetCreate, Phase
    <2>2. OnlyCall(c) /\ call'[c].phase # "admitted"
      BY <1>2, <1>t DEF GetCreate, Holds, OnlyCall
    <2>3. BusyWith(n)' = BusyWith(n)
      BY <2>1, <2>2, BusyKept DEF BusyIn, Phase
    <2>4. BreakerOf(n)' = BreakerOf(n)
      BY <1>2, <1>h, <2>1, CreationUnseen DEF GetCreate
    <2> QED BY <2>3, <2>4
  <1>3. ASSUME NEW c \in Callers, Allow(c)
        PROVE  One(n)!Next \/ Same
    <2> DEFINE m == call[c].name
    <2>1. /\ c \in Clients /\ Phase(c) = "has"
          /\ m \in DOMAIN breakers /\ call[c].obj = breakers[m]
          /\ breakers[m] \in DOMAIN heap /\ heap[breakers[m]] \in SoundBreakers
      BY <1>3, <1>t, CallFields DEF Allow, Phase, Clients
    <2>2. CASE Admits(heap[breakers[m]])
      <3>1. PICK b \in SoundBreakers : /\ b = HalfOpened(heap[breakers[m]])
                                       /\ heap' = [heap EXCEPT ![breakers[m]] = b]
        BY <1>3, <2>1, <2>2, MethodsSound DEF Allow
      <3>2. /\ OnlyCall(c)
            /\ call'[c].phase = "admitted" /\ call'[c].name = m /\ call'[c].by = b.state
        <4>1. heap'[breakers[m]].state = b.state
          BY <1>t, <2>1, <3>1
        <4> QED BY <1>3, <1>t, <2>1, <2>2, <3>1, <4>1 DEF Allow, OnlyCall
      <3>3. BusyWith(n)[c] = "none"
        BY <2>1, BusyMeans DEF BusyIn
      <3>5. breakers' = breakers
        BY <1>3 DEF Allow
      <3>6. CASE m = n
        <4>1. BreakerOf(n) = heap[breakers[m]] /\ BreakerOf(n)' = b
          <5>1. m \in DOMAIN breakers /\ heap' = [heap EXCEPT ![breakers[m]] = b]
            BY <2>1, <3>1
          <5> HIDE DEF m
          <5> QED BY <5>1, <3>5, <3>6, OnlyThatName
        <4>2. BusyWith(n)' = [BusyWith(n) EXCEPT ![c] = b.state]
          BY <3>2, <3>6, BusyChanges DEF BusyIn, Phase
        <4> QED BY <2>2, <3>1, <3>3, <4>1, <4>2, OneSteps
      <3>7. CASE m # n
        <4>1. BreakerOf(n)' = BreakerOf(n)
          BY <2>1, <3>1, <3>5, <3>7, OnlyThatName
        <4>2. BusyWith(n)' = BusyWith(n)
          BY <2>1, <3>2, <3>7, BusyKept DEF BusyIn, Phase
        <4> QED BY <4>1, <4>2
      <3> QED BY <3>6, <3>7
    <2>3. CASE ~Admits(heap[breakers[m]])
      <3>1. /\ OnlyCall(c) /\ call'[c].phase = "idle"
            /\ heap' = heap /\ breakers' = breakers
        BY <1>3, <1>t, <2>1, <2>3 DEF Allow, Return, OnlyCall
      <3>2. BusyWith(n)' = BusyWith(n)
        BY <2>1, <3>1, BusyKept DEF BusyIn, Phase
      <3> QED BY <1>h, <3>1, <3>2
    <2> QED BY <2>2, <2>3
  <1>4. ASSUME NEW c \in Callers, RecordSuccess(c) \/ RecordFailure(c)
        PROVE  One(n)!Next \/ Same
    <2> DEFINE m == call[c].name
               old == heap[breakers[m]]
    <2>1. /\ c \in Clients /\ Phase(c) = "admitted"
          /\ m \in DOMAIN breakers /\ call[c].obj = breakers[m]
          /\ old \in SoundBreakers
      BY <1>4, <1>t, CallFields DEF RecordSuccess, RecordFailure, Phase, Clients
    <2>2. PICK b \in SoundBreakers : /\ b \in {Succeeded(old), Failed(old)}
                                     /\ heap' = [heap EXCEPT ![breakers[m]] = b]
      BY <1>4, <2>1, MethodsSound DEF RecordSuccess, RecordFailure
    <2>3. OnlyCall(c) /\ call'[c].phase = "idle" /\ breakers' = breakers
      BY <1>4, <1>t, <2>1 DEF RecordSuccess, RecordFailure, Return, OnlyCall
    <2>4. CASE m = n
      <3>1. BreakerOf(n) = old /\ BreakerOf(n)' = b
        BY <2>1, <2>2, <2>3, <2>4, OnlyThatName
      <3>2. /\ BusyWith(n)[c] # "none"
            /\ BusyWith(n)' = [BusyWith(n) EXCEPT ![c] = "none"]
        BY <2>1, <2>3, <2>4, BusyMeans, BusyChanges DEF BusyIn, Phase
      <3> QED BY <2>2, <3>1, <3>2, OneSteps
    <2>5. CASE m # n
      <3>1. BreakerOf(n)' = BreakerOf(n)
        BY <2>1, <2>2, <2>3, <2>5, OnlyThatName
      <3>2. BusyWith(n)' = BusyWith(n)
        BY <2>1, <2>3, <2>5, BusyKept DEF BusyIn, Phase
      <3> QED BY <3>1, <3>2
    <2> QED BY <2>4, <2>5
  <1>5. ASSUME NEW c \in Operators, Reset(c) \/ GetState(c)
        PROVE  One(n)!Next \/ Same
    <2> DEFINE m == call[c].name
               old == heap[breakers[m]]
    <2>1. /\ c \in Clients /\ Phase(c) \in {"has", "reset"}
          /\ m \in DOMAIN breakers /\ call[c].obj = breakers[m]
          /\ old \in SoundBreakers
      BY <1>5, <1>t, CallFields DEF Reset, GetState, Phase, Clients
    <2>2. PICK b \in SoundBreakers : /\ b \in {WasReset(old), HalfOpened(old)}
                                     /\ heap' = [heap EXCEPT ![breakers[m]] = b]
      BY <1>5, <2>1, MethodsSound, NewSound DEF Reset, GetState
    <2>3. OnlyCall(c) /\ call'[c].phase # "admitted"
      <3>1. CASE Reset(c)
        <4>1. [call[c] EXCEPT !.phase = "reset"].phase = "reset"
          BY <1>t, <2>1 DEF Calls, Phase, Idle
        <4> QED BY <1>t, <2>1, <3>1, <4>1 DEF Reset, OnlyCall
      <3>2. CASE GetState(c)
        BY <1>t, <2>1, <3>2 DEF GetState, Return, OnlyCall
      <3> QED BY <1>5, <3>1, <3>2
    <2>4. breakers' = breakers
      BY <1>5 DEF Reset, GetState
    <2>5. BusyWith(n)' = BusyWith(n)
      BY <2>1, <2>3, BusyKept DEF BusyIn, Phase
    <2>6. /\ m = n => BreakerOf(n) = old /\ BreakerOf(n)' = b
          /\ m # n => BreakerOf(n)' = BreakerOf(n)
      BY <2>1, <2>2, <2>4, OnlyThatName
    <2> QED BY <2>2, <2>5, <2>6, OneSteps
  <1>6. ASSUME NEW m \in Names, ListNext(m)
        PROVE  One(n)!Next \/ Same
    <2> DEFINE old == heap[breakers[m]]
    <2>1. m \in DOMAIN breakers /\ old \in SoundBreakers
      BY <1>6, <1>t DEF ListNext
    <2>2. PICK b \in SoundBreakers : /\ b = HalfOpened(old)
                                     /\ heap' = [heap EXCEPT ![breakers[m]] = b]
                                     /\ breakers' = breakers
      BY <1>6, <2>1, MethodsSound DEF ListNext
    <2>3. BusyWith(n)' = BusyWith(n)
      BY <1>6 DEF ListNext, BusyWith
    <2>4. /\ m = n => BreakerOf(n) = heap[breakers[m]] /\ BreakerOf(n)' = b
          /\ m # n => BreakerOf(n)' = BreakerOf(n)
      <3>1. /\ m \in DOMAIN breakers /\ breakers' = breakers
            /\ heap' = [heap EXCEPT ![breakers[m]] = b]
        BY <2>1, <2>2
      <3> QED BY <3>1, OnlyThatName
    <2> QED BY <2>2, <2>3, <2>4, OneSteps
  <1>7. CASE Tick
    <2>1. BusyWith(n)' = BusyWith(n)
      BY <1>7 DEF Tick, BusyWith
    <2>2. BreakerOf(n)' \in {Aged(BreakerOf(n)), BreakerOf(n)}
      BY <1>7, <1>t DEF Tick, BreakerOf
    <2> QED BY <2>1, <2>2, OneSteps
  <1>8. CASE List \/ UNCHANGED vars
    BY <1>8, <1>h, <1>s DEF List, vars, BusyWith
  <1> HIDE DEF Same
  <1> QED BY <1>s, <1>1, <1>2, <1>3, <1>4, <1>5, <1>6, <1>7, <1>8 DEF Next, Get

(* Whoever asks for a name shares one circuit breaker with everyone else   *)
(* who does: seen from any name, the registry with its racing creations,   *)
(* resets and lists is a single circuit breaker.                           *)
THEOREM AlwaysOneBreakerPerName == Spec => OneBreakerPerName
  <1>1. Init => \A n \in Names : One(n)!Init
    BY DEF Init, One!Init, One!NewCircuitBreaker, NewCircuitBreaker, BreakerOf, BusyWith,
           Idle, Clients
  <1>2. BInv /\ [Next]_vars => [\A n \in Names : One(n)!Next \/ UNCHANGED One(n)!vars]_vars
    BY StepOfOne
  <1> QED BY <1>1, <1>2, BreakersInvariance, PTL DEF Spec, OneBreakerPerName

=============================================================================
