--------------------------- MODULE FederationProofs ---------------------------
(***************************************************************************)
(* Proofs about Federation.tla for any number of relays, any peering, any  *)
(* skew of the clocks and any number of pulls, pushes and restarts.        *)
(*                                                                         *)
(* A step changes the registrations a relay holds itself, or it moves      *)
(* copies of registrations: into a reply or a push, and from there into    *)
(* the federated table of another relay.  The lemmas LocalMoves, FedMoves, *)
(* PullMoves and PushMoves say so of every action, and the invariants      *)
(* about copies follow from these four alone.                              *)
(***************************************************************************)
EXTENDS Federation, RegistryOpsProofs

-----------------------------------------------------------------------------
(* Types *)

RegMaps == UNION {[S -> RegistrationFrom(Relays)] : S \in SUBSET Peers}

CallRecord ==
    [phase : Phases, since : Int, regs : RegMaps, sent : SUBSET Peers,
     todo : SUBSET Peers, refused : SUBSET Peers, stamp : Int]

ClockInv ==
    /\ now \in 0 .. MaxTime
    /\ restarts \in 0 .. MaxRestarts
    /\ lastAlive \in [Relays -> [Peers -> Int]]
    /\ \A r \in Relays, p \in Peers : lastAlive[r][p] <= now

TablesInv ==
    /\ DOMAIN local = Relays /\ DOMAIN fed = Relays
    /\ \A r \in Relays : TableOK(local[r], {LocalOrigin}) /\ TableOK(fed[r], Relays)

(* A call for a relay whose clock shows t: its stamp was read there, and   *)
(* nothing is sent before the reply.                                       *)
CallInv(call, t) ==
    /\ call \in CallRecord
    /\ CallOK(call)
    /\ call.phase \in {"idle", "asked", "snapshot", "broken"} => call.sent = {}
    /\ call.stamp <= t

SyncInv ==
    /\ DOMAIN lastSync = Relays /\ DOMAIN failing = Relays /\ DOMAIN pull = Relays
    /\ \A r \in Relays :
        /\ DOMAIN lastSync[r] = PeerRelays[r]
        /\ DOMAIN failing[r] = PeerRelays[r]
        /\ DOMAIN pull[r] = PeerRelays[r]
    /\ \A r \in Relays : \A q \in PeerRelays[r] :
        /\ lastSync[r][q] \in Int /\ lastSync[r][q] <= Clock(q)
        /\ failing[r][q] \in BOOLEAN
        /\ CallInv(pull[r][q], Clock(q))

PushTypeOK ==
    \A m \in pushes :
        m.to \in Relays /\ m.peer \in Peers /\ m.reg \in RegistrationFrom(Relays)

TInv == ClockInv /\ TablesInv /\ SyncInv /\ PushTypeOK

(* The relays and their clocks.                                            *)
LEMMA Clocks ==
    ASSUME TInv, NEW r \in Relays
    PROVE  /\ now \in Int /\ Skew[r] \in Nat /\ Clock(r) \in Int /\ TTL \in Nat
           /\ 0 <= Clock(r) /\ now <= Clock(r)
           /\ PeerRelays[r] \subseteq Relays /\ r \notin PeerRelays[r]
  BY FederationAssumption, LimitsAssumption DEF TInv, ClockInv, Clock

(* No call, a call just made, and one whose answer will not come.          *)
LEMMA IdleRecord ==
    /\ Idle \in CallRecord /\ CallOK(Idle)
    /\ Idle.stamp = Never /\ Idle.sent = {} /\ Idle.regs = EmptyMap /\ DOMAIN EmptyMap = {}
  BY DEF Idle, CallRecord, CallOK, Phases, Never, EmptyMap, RegMaps

(* The zero time lies before whatever a clock shows.                       *)
LEMMA NeverIsBefore == \A c \in Nat : Never <= c
  BY DEF Never

(* They are well-formed whatever the clock of the other relay shows.       *)
LEMMA IdleCall ==
    ASSUME NEW call, NEW clock \in Nat,
           \/ call = Idle
           \/ call = [Idle EXCEPT !.phase = "broken"]
           \/ \E since \in Int : call = [Idle EXCEPT !.phase = "asked", !.since = since]
    PROVE  CallInv(call, clock) /\ DOMAIN call.regs = {}
  <1>1. /\ call \in CallRecord /\ CallOK(call)
        /\ call.stamp = Never /\ call.sent = {} /\ call.regs = EmptyMap
    BY IdleRecord DEF CallOK, CallRecord, Phases
  <1>2. Never <= clock
    BY NeverIsBefore
  <1>3. call.stamp <= clock
    BY <1>1, <1>2
  <1> QED BY <1>1, <1>3, IdleRecord DEF CallInv

(* Registrations as a relay ships them. *)
LEMMA ShipType ==
    ASSUME NEW q \in Relays, NEW origins, NEW reg \in RegistrationFrom(origins)
    PROVE  /\ Ship(q, reg) \in RegistrationFrom(Relays)
           /\ Ship(q, reg).origin = q
           /\ SameTimes(Ship(q, reg), reg)
  BY DEF Ship, RegistrationFrom, SameTimes

(* The types hold when the relays start.                                   *)
LEMMA InitTInv == Init => TInv
  <1> SUFFICES ASSUME Init PROVE TInv
    OBVIOUS
  <1>1. ClockInv
    BY FederationAssumption DEF Init, ClockInv, Never
  <1>2. TablesInv
    BY EmptyTableOK DEF Init, TablesInv
  <1>3. ASSUME NEW r \in Relays, NEW q \in PeerRelays[r]
        PROVE  /\ lastSync[r][q] \in Int /\ lastSync[r][q] <= Clock(q)
               /\ failing[r][q] \in BOOLEAN
               /\ CallInv(pull[r][q], Clock(q))
    <2>1. lastSync[r][q] = -1 /\ failing[r][q] = FALSE /\ pull[r][q] = Idle
      BY <1>3 DEF Init, Never
    <2>2. q \in Relays /\ Skew[q] \in Nat /\ now = 0
      BY FederationAssumption DEF Init
    <2>4. failing[r][q] \in BOOLEAN
      BY <2>1
    <2> QED BY <2>1, <2>2, <2>4, IdleRecord DEF CallInv, Clock, Never
  <1>5. SyncInv
    <2>1. /\ DOMAIN lastSync = Relays /\ DOMAIN failing = Relays /\ DOMAIN pull = Relays
          /\ \A r \in Relays :
              /\ DOMAIN lastSync[r] = PeerRelays[r]
              /\ DOMAIN failing[r] = PeerRelays[r]
              /\ DOMAIN pull[r] = PeerRelays[r]
      BY DEF Init
    <2> QED BY <1>3, <2>1 DEF SyncInv
  <1>6. PushTypeOK
    BY DEF Init, PushTypeOK
  <1> QED BY <1>1, <1>2, <1>5, <1>6 DEF TInv

-----------------------------------------------------------------------------
(* The types are invariant *)

(* The clock only moves forward, and nobody is heard of in the future.     *)
LEMMA NextClock ==
    ASSUME TInv, [Next]_vars
    PROVE  /\ ClockInv'
           /\ now' >= now
           /\ \A r \in Relays, p \in Peers : lastAlive'[r][p] >= lastAlive[r][p]
  <1>1. ASSUME NEW r \in Relays, NEW p \in Peers, now' = now, restarts' = restarts,
               lastAlive' = [lastAlive EXCEPT ![r][p] = now]
        PROVE  /\ ClockInv'
               /\ now' >= now
               /\ \A s \in Relays, q \in Peers : lastAlive'[s][q] >= lastAlive[s][q]
    BY <1>1, FederationAssumption DEF TInv, ClockInv
  <1>2. CASE now' = now /\ restarts' \in 0 .. MaxRestarts /\ lastAlive' = lastAlive
    BY <1>2, FederationAssumption DEF TInv, ClockInv
  <1>3. CASE Tick
    BY <1>3, FederationAssumption DEF TInv, ClockInv, Tick
  <1>4. ASSUME NEW r \in Relays, NEW p \in Peers,
               \/ \E skills \in SkillLists : RegisterSkills(r, p, skills)
               \/ HeartbeatRPC(r, p)
        PROVE  /\ now' = now /\ restarts' = restarts
               /\ lastAlive' = [lastAlive EXCEPT ![r][p] = now]
    BY <1>4 DEF RegisterSkills, HeartbeatRPC
  <1>5. ASSUME NEW r \in Relays, Restart(r)
        PROVE  now' = now /\ restarts' \in 0 .. MaxRestarts /\ lastAlive' = lastAlive
    BY <1>5, FederationAssumption DEF Restart, TInv, ClockInv
  <1>6. restarts \in 0 .. MaxRestarts
    BY DEF TInv, ClockInv
  <1>7. ASSUME NEW r \in Relays, NEW q \in PeerRelays[r], SyncPeer(r, q)
        PROVE  now' = now /\ restarts' = restarts /\ lastAlive' = lastAlive
    BY <1>7 DEF SyncPeer, ServeSnapshot, ServeReply, SyncFails, SyncSucceeds,
                ApplyRegistration, FinishSync
  <1>8. AgentRelays \subseteq Relays
    BY FederationAssumption
  <1>9. CASE \E r \in AgentRelays, p \in Peers :
                \/ \E skills \in SkillLists : RegisterSkills(r, p, skills)
                \/ HeartbeatRPC(r, p)
    BY <1>1, <1>4, <1>8, <1>9
  <1>10. CASE \E r \in AgentRelays, p \in Peers :
                \/ \E ids \in SUBSET SkillIDs : UnregisterSkills(r, p, ids)
                \/ RemovePeer(r, p)
                \/ PushLocal(r, p)
    BY <1>2, <1>6, <1>10 DEF UnregisterSkills, RemovePeer, PushLocal
  <1>11. CASE \E r \in Relays : CleanupLoop(r) \/ SyncAll(r)
    BY <1>2, <1>6, <1>11 DEF CleanupLoop, SyncAll
  <1>12. CASE \E m \in pushes : PushRegistrations(m) \/ PushFails(m)
    BY <1>2, <1>6, <1>12 DEF PushRegistrations, PushFails
  <1>13. CASE UNCHANGED vars
    BY <1>2, <1>6, <1>13 DEF vars
  <1> QED BY <1>2, <1>3, <1>5, <1>6, <1>7, <1>9, <1>10, <1>11, <1>12, <1>13 DEF Next

-----------------------------------------------------------------------------
(* What a step does to the registrations of agents at their own relays *)

(* The registration of p at r is the old one, or was renewed or made now.  *)
Moved(r, p) ==
    LET new == local'[r].entries[p]
        old == local[r].entries[p]
    IN  \/ p \in DOMAIN local[r].entries /\ SameTimes(new, old)
        \/ /\ p \in DOMAIN local[r].entries
           /\ new.registeredAt = old.registeredAt /\ new.version = old.version
           /\ new.expiresAt = Clock(r) + TTL /\ lastAlive'[r][p] = now
        \/ /\ new.registeredAt = Clock(r) /\ new.version = Clock(r)
           /\ new.expiresAt = Clock(r) + TTL /\ lastAlive'[r][p] = now

(* Every step moves the local registrations forward, and keeps the local   *)
(* tables consistent.                                                      *)
LEMMA LocalMoves ==
    ASSUME TInv, [Next]_vars
    PROVE  /\ DOMAIN local' = Relays
           /\ \A r \in Relays :
                /\ TableOK(local'[r], {LocalOrigin})
                /\ \A p \in DOMAIN local'[r].entries : Moved(r, p)
  <1> DEFINE Good == /\ DOMAIN local' = Relays
                     /\ \A r \in Relays :
                            /\ TableOK(local'[r], {LocalOrigin})
                            /\ \A p \in DOMAIN local'[r].entries : Moved(r, p)
  <1> SUFFICES Good
    OBVIOUS
  <1>a. AgentRelays \subseteq Relays
    BY FederationAssumption
  <1>t. /\ DOMAIN local = Relays
        /\ \A r \in Relays : TableOK(local[r], {LocalOrigin})
        /\ lastAlive \in [Relays -> [Peers -> Int]]
    BY DEF TInv, TablesInv, ClockInv
  <1>s. ASSUME NEW r \in Relays, NEW T, local' = [local EXCEPT ![r] = T],
               TableOK(T, {LocalOrigin}), \A p \in DOMAIN T.entries : Moved(r, p)
        PROVE  Good
    <2>1. DOMAIN local' = Relays /\ local'[r] = T
      BY <1>s, <1>t
    <2>2. ASSUME NEW x \in Relays
          PROVE  /\ TableOK(local'[x], {LocalOrigin})
                 /\ \A p \in DOMAIN local'[x].entries : Moved(x, p)
      <3>1. CASE x = r
        BY <1>s, <2>1, <3>1
      <3>2. CASE x # r
        <4>1. local'[x] = local[x]
          BY <1>s, <1>t, <3>2
        <4> QED BY <1>t, <4>1 DEF Moved, SameTimes
      <3> QED BY <3>1, <3>2
    <2> QED BY <2>1, <2>2
  <1>1. ASSUME NEW r \in AgentRelays, NEW p \in Peers, NEW skills \in SkillLists,
               RegisterSkills(r, p, skills)
        PROVE  Good
    <2> DEFINE reg == NewRegistration(skills, Clock(r))
               T   == Store(local[r], p, reg)
    <2>1. r \in Relays /\ Clock(r) \in Int /\ TTL \in Nat
      BY <1>a, Clocks
    <2>2. reg \in RegistrationFrom({LocalOrigin})
      BY <2>1, FederationAssumption DEF NewRegistration, RegistrationFrom
    <2>3. TableOK(T, {LocalOrigin})
      BY <1>t, <2>1, <2>2, StoreOK
    <2>4. local' = [local EXCEPT ![r] = T]
      BY <1>1 DEF RegisterSkills, Register
    <2>5. local'[r] = T /\ lastAlive'[r][p] = now
      BY <1>1, <1>t, <2>1, <2>4 DEF RegisterSkills
    <2>6. /\ reg.registeredAt = Clock(r) /\ reg.version = Clock(r)
          /\ reg.expiresAt = Clock(r) + TTL
      BY DEF NewRegistration
    <2>7. /\ DOMAIN T.entries = DOMAIN local[r].entries \cup {p}
          /\ T.entries[p] = reg
          /\ \A q \in DOMAIN local[r].entries \ {p} : T.entries[q] = local[r].entries[q]
      BY StoreEntries
    <2> HIDE DEF T, reg
    <2>8. \A q \in DOMAIN T.entries : Moved(r, q)
      BY <2>5, <2>6, <2>7 DEF Moved, SameTimes
    <2> QED BY <1>s, <2>1, <2>3, <2>4, <2>8
  <1>2. ASSUME NEW r \in AgentRelays, NEW p \in Peers, HeartbeatRPC(r, p)
        PROVE  Good
    <2> DEFINE T == Heartbeat(local[r], p, Clock(r))
    <2>1. r \in Relays /\ Clock(r) \in Int /\ p \in DOMAIN local[r].entries
      BY <1>2, <1>a, Clocks DEF HeartbeatRPC
    <2>2. TableOK(T, {LocalOrigin})
      BY <1>t, <2>1, HeartbeatOK
    <2>3. /\ local' = [local EXCEPT ![r] = T] /\ local'[r] = T
          /\ lastAlive'[r][p] = now
      BY <1>2, <1>t, <2>1 DEF HeartbeatRPC
    <2>4. /\ DOMAIN T.entries = DOMAIN local[r].entries
          /\ \A q \in DOMAIN local[r].entries \ {p} : T.entries[q] = local[r].entries[q]
          /\ T.entries[p].registeredAt = local[r].entries[p].registeredAt
          /\ T.entries[p].version = local[r].entries[p].version
          /\ T.entries[p].expiresAt = Clock(r) + TTL
      BY <1>t, <2>1, HeartbeatEntries
    <2> HIDE DEF T
    <2>5. \A q \in DOMAIN T.entries : Moved(r, q)
      BY <2>1, <2>3, <2>4 DEF Moved, SameTimes
    <2> QED BY <1>s, <2>1, <2>2, <2>3, <2>5
  <1>3. ASSUME NEW r \in AgentRelays, NEW p \in Peers, NEW ids \in SUBSET SkillIDs,
               UnregisterSkills(r, p, ids)
        PROVE  Good
    <2> DEFINE T == Unregister(local[r], p, ids)
    <2>1. r \in Relays /\ p \in DOMAIN local[r].entries
      BY <1>3, <1>a DEF UnregisterSkills
    <2>2. TableOK(T, {LocalOrigin})
      BY <1>t, <2>1, UnregisterOK
    <2>3. local' = [local EXCEPT ![r] = T] /\ local'[r] = T
      BY <1>3, <1>t, <2>1 DEF UnregisterSkills
    <2>4. \A q \in DOMAIN T.entries :
            q \in DOMAIN local[r].entries /\ SameTimes(T.entries[q], local[r].entries[q])
      BY <1>t, <2>1, UnregisterEntries
    <2> HIDE DEF T
    <2> QED BY <1>s, <2>1, <2>2, <2>3, <2>4 DEF Moved
  <1>d. ASSUME NEW r \in Relays, NEW P, local' = [local EXCEPT ![r] = Drop(local[r], P)]
        PROVE  Good
    <2>1. TableOK(Drop(local[r], P), {LocalOrigin}) /\ local'[r] = Drop(local[r], P)
      BY <1>d, <1>t, DropOK
    <2>2. \A q \in DOMAIN Drop(local[r], P).entries : Moved(r, q)
      BY <2>1, DropEntries DEF Moved, SameTimes
    <2> QED BY <1>s, <1>d, <2>1, <2>2
  <1>4. ASSUME NEW r \in AgentRelays, NEW p \in Peers, RemovePeer(r, p)
        PROVE  Good
    BY <1>4, <1>a, <1>d DEF RemovePeer
  <1>5. ASSUME NEW r \in Relays, CleanupLoop(r)
        PROVE  Good
    BY <1>5, <1>d DEF CleanupLoop, evictExpired
  <1>6. ASSUME NEW r \in Relays, Restart(r)
        PROVE  Good
    <2>1. TableOK(EmptyTable, {LocalOrigin}) /\ DOMAIN EmptyTable.entries = {}
      BY EmptyTableOK DEF EmptyTable, EmptyMap
    <2> QED BY <1>6, <1>s, <2>1 DEF Restart
  <1>7. CASE local' = local
    <2>1. ASSUME NEW r \in Relays, NEW p \in DOMAIN local'[r].entries
          PROVE  Moved(r, p)
      <3>1. local'[r].entries[p] = local[r].entries[p] /\ p \in DOMAIN local[r].entries
        BY <1>7, <2>1
      <3> QED BY <3>1 DEF Moved, SameTimes
    <2>2. DOMAIN local' = Relays /\ \A r \in Relays : TableOK(local'[r], {LocalOrigin})
      BY <1>7, <1>t
    <2> QED BY <2>1, <2>2
  <1> HIDE DEF Good
  <1>8. ASSUME NEW r \in Relays, NEW q \in PeerRelays[r], SyncPeer(r, q)
        PROVE  local' = local
    BY <1>8 DEF SyncPeer, ServeSnapshot, ServeReply, SyncFails, SyncSucceeds,
                ApplyRegistration, FinishSync
  <1>9. CASE \E r \in AgentRelays, p \in Peers : PushLocal(r, p)
    BY <1>7, <1>9 DEF PushLocal
  <1>10. CASE \E r \in Relays : SyncAll(r)
    BY <1>7, <1>10 DEF SyncAll
  <1>11. CASE \E m \in pushes : PushRegistrations(m) \/ PushFails(m)
    BY <1>7, <1>11 DEF PushRegistrations, PushFails
  <1>12. CASE Tick \/ UNCHANGED vars
    BY <1>7, <1>12 DEF Tick, vars
  <1>13. CASE \E r \in AgentRelays, p \in Peers :
                \/ \E skills \in SkillLists : RegisterSkills(r, p, skills)
                \/ HeartbeatRPC(r, p)
                \/ \E ids \in SUBSET SkillIDs : UnregisterSkills(r, p, ids)
                \/ RemovePeer(r, p)
    BY <1>1, <1>2, <1>3, <1>4, <1>13
  <1>14. CASE \E r \in Relays :
                CleanupLoop(r) \/ (\E q \in PeerRelays[r] : SyncPeer(r, q)) \/ Restart(r)
    BY <1>5, <1>6, <1>7, <1>8, <1>14
  <1> QED BY <1>9, <1>10, <1>11, <1>12, <1>13, <1>14 DEF Next

-----------------------------------------------------------------------------
(* What a step does to the copies of registrations *)

(* The last-writer-wins order: a registration a takes precedence over b,   *)
(* or is as good.                                                          *)
NotOlder(a, b) ==
    \/ b.version < a.version
    \/ b.version = a.version /\ a.origin <= b.origin

(* RegisterFederated stores the registration or leaves the table alone;    *)
(* what the table holds of an agent is never replaced by something older.  *)
LEMMA RegisterFederatedEntries ==
    ASSUME NEW T, TableOK(T, Relays), NEW p \in Peers, NEW reg \in RegistrationFrom(Relays)
    PROVE  LET N == RegisterFederated(T, p, reg)
           IN  /\ TableOK(N, Relays)
               /\ \A x \in DOMAIN N.entries :
                    \/ x \in DOMAIN T.entries /\ N.entries[x] = T.entries[x]
                    \/ x = p /\ N.entries[x] = reg
               /\ \A x \in DOMAIN T.entries :
                    x \in DOMAIN N.entries /\ NotOlder(N.entries[x], T.entries[x])
  <1> DEFINE N == RegisterFederated(T, p, reg)
             S == Store(T, p, reg)
  <1>1. \A x \in DOMAIN T.entries : T.entries[x] \in RegistrationFrom(Relays)
    BY DEF TableOK, TableTypeOK
  <1>2. \A x \in DOMAIN T.entries :
            T.entries[x].version \in Int /\ T.entries[x].origin \in Nat
    BY <1>1, SetsAssumption DEF RegistrationFrom
  <1>3. \A x \in DOMAIN T.entries : NotOlder(T.entries[x], T.entries[x])
    BY <1>2 DEF NotOlder
  <1>4. CASE ~AcceptsFederated(T, p, reg)
    <2>1. N = T
      BY <1>4 DEF RegisterFederated
    <2> QED BY <1>3, <2>1
  <1>5. CASE AcceptsFederated(T, p, reg)
    <2>1. N = S
      BY <1>5 DEF RegisterFederated
    <2>2. TableOK(S, Relays)
      BY StoreOK
    <2>3. /\ DOMAIN S.entries = DOMAIN T.entries \cup {p}
          /\ S.entries[p] = reg
          /\ \A x \in DOMAIN T.entries \ {p} : S.entries[x] = T.entries[x]
      BY StoreEntries
    <2> HIDE DEF N, S
    <2>4. p \in DOMAIN T.entries => NotOlder(reg, T.entries[p])
      <3>1. reg.version \in Int /\ reg.origin \in Nat
        BY SetsAssumption DEF RegistrationFrom
      <3> QED BY <1>2, <1>5, <3>1 DEF AcceptsFederated, NotOlder
    <2>5. \A x \in DOMAIN T.entries :
            x \in DOMAIN S.entries /\ NotOlder(S.entries[x], T.entries[x])
      BY <1>3, <2>3, <2>4
    <2> QED BY <2>1, <2>2, <2>3, <2>5 DEF N
  <1> QED BY <1>4, <1>5

(* What relay r stores of p under its federated registrations is the old   *)
(* copy, or it comes from a reply r is reading or from a push to r.        *)
FedMoved(r, p) ==
    LET new == fed'[r].entries[p]
    IN  \/ p \in DOMAIN fed[r].entries /\ new = fed[r].entries[p]
        \/ \E q \in PeerRelays[r] : p \in DOMAIN pull[r][q].regs /\ new = pull[r][q].regs[p]
        \/ \E m \in pushes : m.to = r /\ m.peer = p /\ new = m.reg

(* Every step leaves the federated tables consistent and fills them only   *)
(* from replies and pushes.                                                *)
LEMMA FedMoves ==
    ASSUME TInv, [Next]_vars
    PROVE  /\ DOMAIN fed' = Relays
           /\ \A r \in Relays :
                /\ TableOK(fed'[r], Relays)
                /\ \A p \in DOMAIN fed'[r].entries : FedMoved(r, p)
  <1> DEFINE Good == /\ DOMAIN fed' = Relays
                     /\ \A r \in Relays :
                            /\ TableOK(fed'[r], Relays)
                            /\ \A p \in DOMAIN fed'[r].entries : FedMoved(r, p)
  <1> SUFFICES Good
    OBVIOUS
  <1>t. DOMAIN fed = Relays /\ \A r \in Relays : TableOK(fed[r], Relays)
    BY DEF TInv, TablesInv
  <1>s. ASSUME NEW r \in Relays, NEW T, fed' = [fed EXCEPT ![r] = T],
               TableOK(T, Relays), \A p \in DOMAIN T.entries : FedMoved(r, p)
        PROVE  Good
    <2>1. DOMAIN fed' = Relays /\ fed'[r] = T
      BY <1>s, <1>t
    <2>2. ASSUME NEW x \in Relays
          PROVE  /\ TableOK(fed'[x], Relays)
                 /\ \A p \in DOMAIN fed'[x].entries : FedMoved(x, p)
      <3>1. CASE x = r
        BY <1>s, <2>1, <3>1
      <3>2. CASE x # r
        <4>1. fed'[x] = fed[x]
          BY <1>s, <1>t, <3>2
        <4> QED BY <1>t, <4>1 DEF FedMoved
      <3> QED BY <3>1, <3>2
    <2> QED BY <2>1, <2>2
  <1>7. CASE fed' = fed
    <2>1. ASSUME NEW r \in Relays, NEW p \in DOMAIN fed'[r].entries
          PROVE  FedMoved(r, p)
      <3>1. fed'[r].entries[p] = fed[r].entries[p] /\ p \in DOMAIN fed[r].entries
        BY <1>7, <2>1
      <3> QED BY <3>1 DEF FedMoved
    <2>2. DOMAIN fed' = Relays /\ \A r \in Relays : TableOK(fed'[r], Relays)
      BY <1>7, <1>t
    <2> QED BY <2>1, <2>2
  <1>1. ASSUME NEW r \in Relays, CleanupLoop(r)
        PROVE  Good
    <2> DEFINE T == Drop(fed[r], ExpiredPeers(fed[r], Clock(r)))
    <2>1. fed' = [fed EXCEPT ![r] = T] /\ fed'[r] = T
      BY <1>1, <1>t DEF CleanupLoop, evictExpired
    <2>2. TableOK(T, Relays)
      BY <1>t, DropOK
    <2>3. \A p \in DOMAIN T.entries :
            p \in DOMAIN fed[r].entries /\ T.entries[p] = fed[r].entries[p]
      BY DropEntries
    <2> HIDE DEF T
    <2>4. \A p \in DOMAIN T.entries : FedMoved(r, p)
      BY <2>1, <2>3 DEF FedMoved
    <2> QED BY <1>s, <2>1, <2>2, <2>4
  <1>2. ASSUME NEW r \in Relays, NEW q \in PeerRelays[r], NEW p \in Peers,
               ApplyRegistration(r, q, p)
        PROVE  Good
    <2> DEFINE reg == pull[r][q].regs[p]
               T   == RegisterFederated(fed[r], p, reg)
    <2>1. CallOK(pull[r][q])
      BY DEF TInv, SyncInv, CallInv
    <2>2. p \in DOMAIN pull[r][q].regs /\ reg \in RegistrationFrom(Relays)
      BY <1>2, <2>1 DEF ApplyRegistration, CallOK
    <2>3. fed' = [fed EXCEPT ![r] = T] /\ fed'[r] = T
      BY <1>2, <1>t DEF ApplyRegistration
    <2>4. /\ TableOK(T, Relays)
          /\ \A x \in DOMAIN T.entries :
                \/ x \in DOMAIN fed[r].entries /\ T.entries[x] = fed[r].entries[x]
                \/ x = p /\ T.entries[x] = reg
      BY <1>t, <2>2, RegisterFederatedEntries
    <2> HIDE DEF T
    <2>5. \A x \in DOMAIN T.entries : FedMoved(r, x)
      BY <2>2, <2>3, <2>4 DEF FedMoved
    <2> QED BY <1>s, <2>3, <2>4, <2>5
  <1>3. ASSUME NEW m \in pushes, PushRegistrations(m)
        PROVE  Good
    <2> DEFINE T == RegisterFederated(fed[m.to], m.peer, m.reg)
    <2>1. m.to \in Relays /\ m.peer \in Peers /\ m.reg \in RegistrationFrom(Relays)
      BY DEF TInv, PushTypeOK
    <2>2. fed' = [fed EXCEPT ![m.to] = T] /\ fed'[m.to] = T
      BY <1>3, <1>t, <2>1 DEF PushRegistrations
    <2>3. /\ TableOK(T, Relays)
          /\ \A x \in DOMAIN T.entries :
                \/ x \in DOMAIN fed[m.to].entries /\ T.entries[x] = fed[m.to].entries[x]
                \/ x = m.peer /\ T.entries[x] = m.reg
      BY <1>t, <2>1, RegisterFederatedEntries
    <2> HIDE DEF T
    <2>4. \A x \in DOMAIN T.entries : FedMoved(m.to, x)
      BY <2>2, <2>3 DEF FedMoved
    <2> QED BY <1>s, <2>1, <2>2, <2>3, <2>4
  <1>4. ASSUME NEW r \in Relays, Restart(r)
        PROVE  Good
    <2>1. TableOK(EmptyTable, Relays) /\ DOMAIN EmptyTable.entries = {}
      BY EmptyTableOK DEF EmptyTable, EmptyMap
    <2> QED BY <1>4, <1>s, <2>1 DEF Restart
  <1> HIDE DEF Good
  <1>5. CASE \E r \in AgentRelays, p \in Peers :
                \/ \E skills \in SkillLists : RegisterSkills(r, p, skills)
                \/ HeartbeatRPC(r, p)
                \/ \E ids \in SUBSET SkillIDs : UnregisterSkills(r, p, ids)
                \/ RemovePeer(r, p)
                \/ PushLocal(r, p)
    BY <1>5, <1>7 DEF RegisterSkills, HeartbeatRPC, UnregisterSkills, RemovePeer, PushLocal
  <1>6. ASSUME NEW r \in Relays, NEW q \in PeerRelays[r], SyncPeer(r, q)
        PROVE  Good
    <2>1. CASE \E p \in Peers : ApplyRegistration(r, q, p)
      BY <1>2, <2>1
    <2>2. CASE ~\E p \in Peers : ApplyRegistration(r, q, p)
      BY <1>6, <1>7, <2>2
         DEF SyncPeer, ServeSnapshot, ServeReply, SyncFails, SyncSucceeds, FinishSync
    <2> QED BY <2>1, <2>2
  <1>8. CASE \E r \in Relays :
                CleanupLoop(r) \/ (\E q \in PeerRelays[r] : SyncPeer(r, q)) \/ Restart(r)
    BY <1>1, <1>4, <1>6, <1>8
  <1>9. CASE \E r \in Relays : SyncAll(r)
    BY <1>7, <1>9 DEF SyncAll
  <1>10. CASE \E m \in pushes : PushRegistrations(m) \/ PushFails(m)
    BY <1>3, <1>7, <1>10 DEF PushFails
  <1>11. CASE Tick \/ UNCHANGED vars
    BY <1>7, <1>11 DEF Tick, vars
  <1> QED BY <1>5, <1>8, <1>9, <1>10, <1>11 DEF Next

(* SyncRegistrations: the snapshot, and the reply made of part of it.      *)
LEMMA SnapshotCall ==
    ASSUME NEW call, NEW t \in Int, CallInv(call, t), call.phase = "asked",
           NEW regs \in RegMaps
    PROVE  CallInv([call EXCEPT !.phase = "snapshot", !.regs = regs], t)
  <1>1. DOMAIN regs \subseteq Peers /\ regs \in [DOMAIN regs -> RegistrationFrom(Relays)]
    BY DEF RegMaps
  <1> QED BY <1>1 DEF CallInv, CallRecord, CallOK, Phases

(* The stamp is the clock of the relay that answers.                       *)
LEMMA ReplyCall ==
    ASSUME NEW call, NEW t \in Int, CallInv(call, t), call.phase = "snapshot",
           NEW sent \in SUBSET DOMAIN call.regs
    PROVE  CallInv([call EXCEPT !.phase = "reply", !.sent = sent, !.todo = sent,
                                !.stamp = t], t)
  <1> DEFINE new == [call EXCEPT !.phase = "reply", !.sent = sent, !.todo = sent,
                                 !.stamp = t]
  <1>1. sent \in SUBSET Peers /\ sent \subseteq DOMAIN call.regs
    BY DEF CallInv, CallOK
  <1>2. call \in CallRecord /\ call.sent = {} /\ CallOK(call)
    BY DEF CallInv
  <1>3. new \in CallRecord
    BY <1>1, <1>2 DEF CallRecord, Phases
  <1>4. /\ new.phase = "reply" /\ new.since = call.since /\ new.regs = call.regs
        /\ new.sent = sent /\ new.todo = sent /\ new.refused = call.refused
        /\ new.stamp = t
    BY <1>2 DEF CallRecord
  <1> HIDE DEF new
  <1>5. CallOK(new)
    BY <1>1, <1>2, <1>4 DEF CallOK, Phases
  <1>6. new.stamp <= t
    BY <1>4
  <1>7. CallInv(new, t)
    BY <1>3, <1>4, <1>5, <1>6 DEF CallInv
  <1> QED BY <1>7 DEF new

(* The reply is taken up.                                                  *)
LEMMA TakenCall ==
    ASSUME NEW call, NEW t \in Int, CallInv(call, t)
    PROVE  CallInv([call EXCEPT !.phase = "apply"], t)
  BY DEF CallInv, CallRecord, CallOK, Phases

(* One registration of the reply is done with.                             *)
LEMMA ApplyCall ==
    ASSUME NEW call, NEW t \in Int, CallInv(call, t), call.phase = "apply",
           NEW p \in call.todo, NEW refused, refused \subseteq call.refused \cup {p}
    PROVE  CallInv([call EXCEPT !.todo = call.todo \ {p}, !.refused = refused], t)
  <1>1. p \in call.sent /\ call.sent \subseteq Peers
    BY DEF CallInv, CallOK
  <1>2. refused \subseteq call.sent /\ refused \in SUBSET Peers
    BY <1>1 DEF CallInv, CallOK
  <1>3. call.todo \ {p} \subseteq call.sent /\ call.todo \ {p} \in SUBSET Peers
    BY <1>1 DEF CallInv, CallOK
  <1>4. PICK todo \in SUBSET Peers : todo = call.todo \ {p}
    BY <1>3
  <1>5. CallInv([call EXCEPT !.todo = todo, !.refused = refused], t)
    BY <1>2, <1>3, <1>4 DEF CallInv, CallRecord, CallOK, Phases
  <1> QED BY <1>4, <1>5

(* A registration in the reply of q to r was there before, or q has read   *)
(* it from its own table in this step.                                     *)
PullMoved(r, q, p) ==
    LET new == pull'[r][q].regs[p]
    IN  \/ p \in DOMAIN pull[r][q].regs /\ new = pull[r][q].regs[p]
        \/ /\ p \in DOMAIN local[q].entries /\ new = Ship(q, local[q].entries[p])
           /\ local' = local /\ lastAlive' = lastAlive

(* Every step keeps the calls well-formed and fills replies only with      *)
(* registrations of the relay that answers.                                *)
LEMMA PullMoves ==
    ASSUME TInv, [Next]_vars
    PROVE  /\ SyncInv'
           /\ \A r \in Relays : \A q \in PeerRelays[r] :
                \A p \in DOMAIN pull'[r][q].regs : PullMoved(r, q, p)
  <1> DEFINE CallGood(r, q) ==
                /\ lastSync'[r][q] \in Int /\ lastSync'[r][q] <= Clock(q)'
                /\ failing'[r][q] \in BOOLEAN
                /\ CallInv(pull'[r][q], Clock(q)')
                /\ \A p \in DOMAIN pull'[r][q].regs : PullMoved(r, q, p)
             Shape ==
                /\ DOMAIN lastSync' = Relays /\ DOMAIN failing' = Relays /\ DOMAIN pull' = Relays
                /\ \A r \in Relays :
                    /\ DOMAIN lastSync'[r] = PeerRelays[r]
                    /\ DOMAIN failing'[r] = PeerRelays[r]
                    /\ DOMAIN pull'[r] = PeerRelays[r]
             Good == Shape /\ \A r \in Relays : \A q \in PeerRelays[r] : CallGood(r, q)
  <1> SUFFICES Good
    BY DEF SyncInv
  <1>p. \A r \in Relays : PeerRelays[r] \subseteq Relays
    BY FederationAssumption
  <1>c. \A q \in Relays : Clock(q) \in Int /\ Clock(q)' \in Int /\ 0 <= Clock(q)
                           /\ Clock(q) <= Clock(q)'
    BY NextClock, Clocks, FederationAssumption DEF Clock, ClockInv
  <1>t. /\ DOMAIN lastSync = Relays /\ DOMAIN failing = Relays /\ DOMAIN pull = Relays
        /\ \A r \in Relays :
            /\ DOMAIN lastSync[r] = PeerRelays[r]
            /\ DOMAIN failing[r] = PeerRelays[r]
            /\ DOMAIN pull[r] = PeerRelays[r]
    BY DEF TInv, SyncInv
  <1>o. ASSUME NEW r \in Relays, NEW q \in PeerRelays[r]
        PROVE  /\ lastSync[r][q] \in Int /\ lastSync[r][q] <= Clock(q)'
               /\ failing[r][q] \in BOOLEAN
               /\ CallInv(pull[r][q], Clock(q)')
    <2>1. /\ lastSync[r][q] \in Int /\ lastSync[r][q] <= Clock(q)
          /\ CallInv(pull[r][q], Clock(q))
      BY DEF TInv, SyncInv
    <2>2. failing[r][q] \in BOOLEAN
      BY DEF TInv, SyncInv
    <2>3. CallInv(pull[r][q], Clock(q)')
      BY <1>c, <1>p, <2>1 DEF CallInv, CallRecord
    <2> QED BY <1>c, <1>p, <2>1, <2>2, <2>3
  <1>u. ASSUME NEW r \in Relays, NEW q \in PeerRelays[r], lastSync'[r][q] = lastSync[r][q],
               failing'[r][q] = failing[r][q], pull'[r][q] = pull[r][q]
        PROVE  CallGood(r, q)
    <2>1. failing'[r][q] \in BOOLEAN
      BY <1>o, <1>u
    <2>2. \A p \in DOMAIN pull'[r][q].regs : PullMoved(r, q, p)
      BY <1>u DEF PullMoved
    <2> QED BY <1>o, <1>u, <2>1, <2>2
  <1>s. ASSUME NEW r \in Relays, NEW q \in PeerRelays[r], NEW call, NEW t, NEW b,
               lastSync' = lastSync \/ lastSync' = [lastSync EXCEPT ![r][q] = t],
               failing' = failing \/ failing' = [failing EXCEPT ![r][q] = b],
               SetPull(r, q, call), t \in Int, t <= Clock(q)', b \in BOOLEAN,
               CallInv(call, Clock(q)'),
               \A p \in DOMAIN call.regs :
                    (pull'[r][q] = call) => PullMoved(r, q, p)
        PROVE  Good
    <2>1. pull' = [pull EXCEPT ![r][q] = call]
      BY <1>s DEF SetPull
    <2>2. Shape /\ pull'[r][q] = call
      BY <1>s, <1>t, <2>1
    <2>3. ASSUME NEW x \in Relays, NEW y \in PeerRelays[x]
          PROVE  CallGood(x, y)
      <3>1. CASE x = r /\ y = q
        <4>1. lastSync'[r][q] \in Int /\ lastSync'[r][q] <= Clock(q)'
          BY <1>o, <1>s, <1>t
        <4>2. failing'[r][q] \in BOOLEAN
          BY <1>o, <1>s, <1>t
        <4> QED BY <1>s, <2>2, <3>1, <4>1, <4>2
      <3>2. CASE ~(x = r /\ y = q)
        <4>1. /\ lastSync'[x][y] = lastSync[x][y] /\ failing'[x][y] = failing[x][y]
              /\ pull'[x][y] = pull[x][y]
          BY <1>s, <1>t, <2>1, <3>2
        <4> QED BY <1>u, <4>1
      <3> QED BY <3>1, <3>2
    <2> QED BY <2>2, <2>3
  <1>7. CASE UNCHANGED syncVars
    <2>1. lastSync' = lastSync /\ failing' = failing /\ pull' = pull
      BY <1>7 DEF syncVars
    <2> QED BY <1>t, <1>u, <2>1
  <1> HIDE DEF Good, CallGood, Shape
  <1>k. ASSUME NEW r \in Relays, NEW q \in PeerRelays[r]
        PROVE  /\ q \in Relays /\ Clock(q) \in Nat /\ Clock(q)' \in Nat
               /\ CallInv(pull[r][q], Clock(q)')
               /\ pull[r][q] \in CallRecord /\ CallOK(pull[r][q])
               /\ lastSync[r][q] \in Int /\ lastSync[r][q] <= Clock(q)'
    BY <1>c, <1>o, <1>p DEF CallInv
  <1>1. ASSUME NEW r \in Relays, NEW q \in PeerRelays[r], ServeSnapshot(r, q)
        PROVE  Good
    <2> DEFINE L    == LocalRegistrations(q, pull[r][q].since)
               regs == [p \in DOMAIN L |-> Ship(q, L[p])]
    <2>1. TableOK(local[q], {LocalOrigin})
      BY <1>k DEF TInv, TablesInv
    <2>2. \A p \in DOMAIN L :
            /\ p \in DOMAIN local[q].entries /\ L[p] = local[q].entries[p]
            /\ p \in Peers /\ L[p] \in RegistrationFrom({LocalOrigin})
      BY <2>1 DEF LocalRegistrations, Restrict, TableOK, TableTypeOK
    <2> HIDE DEF L
    <2>3. regs \in RegMaps /\ \A p \in DOMAIN regs : regs[p] = Ship(q, local[q].entries[p])
      BY <1>k, <2>2, ShipType DEF RegMaps
    <2>4. DOMAIN regs \subseteq DOMAIN local[q].entries
      BY <2>2
    <2>5. SetPull(r, q, [pull[r][q] EXCEPT !.phase = "snapshot", !.regs = regs])
      BY <1>1 DEF ServeSnapshot, L
    <2> HIDE DEF regs
    <2>6. PICK R \in RegMaps : R = regs
      BY <2>3
    <2>7. PICK call : call = [pull[r][q] EXCEPT !.phase = "snapshot", !.regs = R]
      OBVIOUS
    <2>8. CallInv(call, Clock(q)') /\ call.regs = R
      <3>1. PICK t \in Int : t = Clock(q)'
        BY <1>k
      <3>2. PICK old : old = pull[r][q]
        OBVIOUS
      <3>3. CallInv(old, t) /\ old.phase = "asked" /\ old \in CallRecord
        BY <1>1, <1>k, <3>1, <3>2 DEF ServeSnapshot
      <3>4. CallInv([old EXCEPT !.phase = "snapshot", !.regs = R], t)
        BY <3>3, SnapshotCall
      <3>5. [old EXCEPT !.phase = "snapshot", !.regs = R].regs = R
        BY <3>3 DEF CallRecord
      <3> QED BY <2>7, <3>1, <3>2, <3>4, <3>5
    <2>9. local' = local /\ lastAlive' = lastAlive /\ lastSync' = lastSync /\ failing' = failing
      BY <1>1 DEF ServeSnapshot
    <2>10. ASSUME NEW p \in DOMAIN call.regs, pull'[r][q] = call
           PROVE  PullMoved(r, q, p)
      <3>1. p \in DOMAIN regs /\ pull'[r][q].regs[p] = regs[p]
        BY <2>6, <2>8, <2>10
      <3>2. p \in DOMAIN local[q].entries /\ regs[p] = Ship(q, local[q].entries[p])
        BY <2>3, <2>4, <3>1
      <3> QED BY <2>9, <3>1, <3>2 DEF PullMoved
    <2>11. SetPull(r, q, call)
      BY <2>5, <2>6, <2>7
    <2> QED BY <1>k, <1>s, <2>8, <2>9, <2>10, <2>11
  <1>r. ASSUME NEW r \in Relays, NEW q \in PeerRelays[r], NEW call,
               call.regs = pull[r][q].regs, pull'[r][q] = call, NEW p \in DOMAIN call.regs
        PROVE  PullMoved(r, q, p)
    BY <1>r DEF PullMoved
  <1>2. ASSUME NEW r \in Relays, NEW q \in PeerRelays[r], ServeReply(r, q)
        PROVE  Good
    <2>1. PICK sent \in UpTo(SyncLimit, DOMAIN pull[r][q].regs) :
            SetPull(r, q, [pull[r][q] EXCEPT
                !.phase = "reply", !.sent = sent, !.todo = sent, !.stamp = Clock(q)])
      BY <1>2 DEF ServeReply
    <2>2. sent \in SUBSET DOMAIN pull[r][q].regs
      BY <2>1 DEF UpTo
    <2>3. /\ lastSync' = lastSync /\ failing' = failing /\ Clock(q)' = Clock(q)
          /\ pull[r][q].phase = "snapshot"
      BY <1>2 DEF ServeReply, Clock
    <2>4. PICK c \in Int : c = Clock(q)
      BY <1>k
    <2>5. PICK call : call = [pull[r][q] EXCEPT
                !.phase = "reply", !.sent = sent, !.todo = sent, !.stamp = c]
      OBVIOUS
    <2>6. CallInv(call, Clock(q)')
      <3>1. PICK old : old = pull[r][q]
        OBVIOUS
      <3>2. CallInv(old, c) /\ old.phase = "snapshot" /\ sent \in SUBSET DOMAIN old.regs
        BY <1>k, <2>2, <2>3, <2>4, <3>1
      <3>3. CallInv([old EXCEPT !.phase = "reply", !.sent = sent, !.todo = sent,
                                !.stamp = c], c)
        BY <3>2, ReplyCall
      <3> QED BY <2>3, <2>4, <2>5, <3>1, <3>3
    <2>7. call.regs = pull[r][q].regs
      BY <1>k, <2>5 DEF CallRecord
    <2>8. SetPull(r, q, call)
      BY <2>1, <2>4, <2>5
    <2> QED BY <1>k, <1>r, <1>s, <2>3, <2>6, <2>7, <2>8
  <1>3. ASSUME NEW r \in Relays, NEW q \in PeerRelays[r], SyncFails(r, q)
        PROVE  Good
    <2>1. PICK call : call = Idle
      OBVIOUS
    <2>2. CallInv(call, Clock(q)') /\ DOMAIN call.regs = {}
      BY <1>k, <2>1, IdleCall
    <2>3. SetPull(r, q, call) /\ lastSync' = lastSync /\ failing' = [failing EXCEPT ![r][q] = TRUE]
      BY <1>3, <2>1 DEF SyncFails
    <2> QED BY <1>k, <1>s, <2>2, <2>3
  <1>4. ASSUME NEW r \in Relays, NEW q \in PeerRelays[r], SyncSucceeds(r, q)
        PROVE  Good
    <2>1. PICK call : call = [pull[r][q] EXCEPT !.phase = "apply"]
      OBVIOUS
    <2>2. CallInv(call, Clock(q)') /\ call.regs = pull[r][q].regs
      BY <1>k, <2>1, TakenCall DEF CallRecord
    <2>3. SetPull(r, q, call) /\ lastSync' = lastSync /\ failing' = [failing EXCEPT ![r][q] = FALSE]
      BY <1>4, <2>1 DEF SyncSucceeds
    <2> QED BY <1>k, <1>r, <1>s, <2>2, <2>3
  <1>5. ASSUME NEW r \in Relays, NEW q \in PeerRelays[r], NEW p \in Peers,
               ApplyRegistration(r, q, p)
        PROVE  Good
    <2>1. PICK refused : refused = IF Refuses(fed[r], p) THEN pull[r][q].refused \cup {p}
                                   ELSE pull[r][q].refused
      OBVIOUS
    <2>2. refused \subseteq pull[r][q].refused \cup {p}
      BY <2>1
    <2>3. PICK call : call = [pull[r][q] EXCEPT !.todo = pull[r][q].todo \ {p},
                                                !.refused = refused]
      OBVIOUS
    <2>4. SetPull(r, q, call) /\ lastSync' = lastSync /\ failing' = failing
      <3>1. SetPull(r, q, [pull[r][q] EXCEPT
                !.todo = @ \ {p},
                !.refused = IF Refuses(fed[r], p) THEN @ \cup {p} ELSE @])
        BY <1>5 DEF ApplyRegistration
      <3>2. call = [pull[r][q] EXCEPT
                !.todo = @ \ {p},
                !.refused = IF Refuses(fed[r], p) THEN @ \cup {p} ELSE @]
        BY <2>1, <2>3, Zenon
      <3>3. lastSync' = lastSync /\ failing' = failing
        BY <1>5 DEF ApplyRegistration
      <3> QED BY <3>1, <3>2, <3>3
    <2>5. pull[r][q].phase = "apply" /\ p \in pull[r][q].todo
      BY <1>5 DEF ApplyRegistration
    <2>6. CallInv(call, Clock(q)') /\ call.regs = pull[r][q].regs
      <3>1. PICK t \in Int : t = Clock(q)'
        BY <1>k
      <3>2. PICK old : old = pull[r][q]
        OBVIOUS
      <3>3. /\ CallInv(old, t) /\ old.phase = "apply" /\ old \in CallRecord
            /\ p \in old.todo /\ refused \subseteq old.refused \cup {p}
        BY <1>k, <2>2, <2>5, <3>1, <3>2
      <3>4. CallInv([old EXCEPT !.todo = old.todo \ {p}, !.refused = refused], t)
        BY <3>3, ApplyCall
      <3>5. [old EXCEPT !.todo = old.todo \ {p}, !.refused = refused].regs = old.regs
        BY <3>3 DEF CallRecord
      <3> QED BY <2>3, <3>1, <3>2, <3>4, <3>5
    <2> QED BY <1>k, <1>r, <1>s, <2>4, <2>6
  <1>6. ASSUME NEW r \in Relays, NEW q \in PeerRelays[r], FinishSync(r, q)
        PROVE  Good
    <2>1. PICK call : call = Idle
      OBVIOUS
    <2>2. CallInv(call, Clock(q)') /\ DOMAIN call.regs = {}
      BY <1>k, <2>1, IdleCall
    <2>3. PICK t : t = pull[r][q].stamp
      OBVIOUS
    <2>4. t \in Int /\ t <= Clock(q)'
      BY <1>k, <2>3 DEF CallInv, CallOK
    <2>5. /\ SetPull(r, q, call) /\ lastSync' = [lastSync EXCEPT ![r][q] = t]
          /\ failing' = failing
      BY <1>6, <2>1, <2>3 DEF FinishSync
    <2> QED BY <1>s, <2>2, <2>4, <2>5
  <1>8. ASSUME NEW r \in Relays, SyncAll(r)
        PROVE  Good
    <2>1. PICK skipped \in SUBSET {q \in PeerRelays[r] : failing[r][q]} :
            pull' = [pull EXCEPT ![r] = [q \in PeerRelays[r] |->
                    IF q \in skipped THEN Idle
                    ELSE [Idle EXCEPT !.phase = "asked", !.since = lastSync[r][q]]]]
      BY <1>8 DEF SyncAll
    <2>2. lastSync' = lastSync /\ failing' = failing
      BY <1>8 DEF SyncAll
    <2>3. Shape
      BY <1>t, <2>1, <2>2 DEF Shape
    <2>4. ASSUME NEW x \in Relays, NEW y \in PeerRelays[x]
          PROVE  CallGood(x, y)
      <3>1. CASE x # r
        <4>1. pull'[x][y] = pull[x][y]
          BY <1>t, <2>1, <3>1
        <4> QED BY <1>u, <2>2, <4>1
      <3>2. CASE x = r
        <4>1. PICK call : call = pull'[x][y]
          OBVIOUS
        <4>2. \/ call = Idle
              \/ \E since \in Int : call = [Idle EXCEPT !.phase = "asked", !.since = since]
          BY <1>k, <1>t, <2>1, <3>2, <4>1
        <4>3. CallInv(call, Clock(y)') /\ DOMAIN call.regs = {}
          BY <1>k, <4>2, IdleCall
        <4>4. failing'[x][y] \in BOOLEAN
          BY <1>o, <2>2
        <4> QED BY <1>k, <2>2, <4>1, <4>3, <4>4 DEF CallGood
      <3> QED BY <3>1, <3>2
    <2> QED BY <2>3, <2>4 DEF Good
  <1>9. ASSUME NEW r \in Relays, Restart(r)
        PROVE  Good
    <2>1. /\ lastSync' = [lastSync EXCEPT ![r] = [q \in PeerRelays[r] |-> Never]]
          /\ failing' = [failing EXCEPT ![r] = [q \in PeerRelays[r] |-> FALSE]]
          /\ pull' = [s \in Relays |-> [q \in PeerRelays[s] |->
                    IF s = r THEN Idle
                    ELSE IF q = r /\ pull[s][q].phase = "snapshot"
                         THEN [Idle EXCEPT !.phase = "broken"]
                         ELSE pull[s][q]]]
      BY <1>9 DEF Restart
    <2>2. Shape
      BY <1>t, <2>1 DEF Shape
    <2>3. ASSUME NEW x \in Relays, NEW y \in PeerRelays[x]
          PROVE  CallGood(x, y)
      <3>1. lastSync'[x][y] \in Int /\ lastSync'[x][y] <= Clock(y)'
        <4>1. CASE x = r
          <5>1. lastSync'[x][y] = Never /\ Never \in Int
            BY <1>t, <2>1, <4>1 DEF Never
          <5> QED BY <1>k, <5>1, NeverIsBefore
        <4>2. CASE x # r
          <5>1. lastSync'[x][y] = lastSync[x][y]
            BY <1>t, <2>1, <4>2
          <5> QED BY <1>k, <5>1
        <4> QED BY <4>1, <4>2
      <3>2. failing'[x][y] \in BOOLEAN
        <4>1. CASE x = r
          BY <1>t, <2>1, <4>1
        <4>2. CASE x # r
          <5>1. failing'[x][y] = failing[x][y]
            BY <1>t, <2>1, <4>2
          <5> QED BY <1>o, <5>1
        <4> QED BY <4>1, <4>2
      <3>3. PICK call : call = pull'[x][y]
        OBVIOUS
      <3>4. call = Idle \/ call = [Idle EXCEPT !.phase = "broken"] \/ call = pull[x][y]
        BY <2>1, <3>3
      <3>5. CASE call = Idle \/ call = [Idle EXCEPT !.phase = "broken"]
        <4>1. CallInv(call, Clock(y)') /\ DOMAIN call.regs = {}
          BY <1>k, <3>5, IdleCall
        <4> QED BY <3>1, <3>2, <3>3, <4>1 DEF CallGood
      <3>6. CASE call = pull[x][y]
        <4>1. CallInv(call, Clock(y)')
          BY <1>k, <3>6
        <4> QED BY <1>r, <3>1, <3>2, <3>3, <3>6, <4>1 DEF CallGood
      <3> QED BY <3>4, <3>5, <3>6
    <2> QED BY <2>2, <2>3 DEF Good
  <1>10. CASE \E r \in AgentRelays, p \in Peers :
                \/ \E skills \in SkillLists : RegisterSkills(r, p, skills)
                \/ HeartbeatRPC(r, p)
                \/ \E ids \in SUBSET SkillIDs : UnregisterSkills(r, p, ids)
                \/ RemovePeer(r, p)
                \/ PushLocal(r, p)
    BY <1>7, <1>10 DEF RegisterSkills, HeartbeatRPC, UnregisterSkills, RemovePeer, PushLocal
  <1>11. ASSUME NEW r \in Relays, NEW q \in PeerRelays[r], SyncPeer(r, q)
        PROVE  Good
    BY <1>1, <1>2, <1>3, <1>4, <1>5, <1>6, <1>11 DEF SyncPeer
  <1>12. CASE \E r \in Relays : CleanupLoop(r)
    BY <1>7, <1>12 DEF CleanupLoop
  <1>13. CASE \E m \in pushes : PushRegistrations(m) \/ PushFails(m)
    BY <1>7, <1>13 DEF PushRegistrations, PushFails
  <1>14. CASE Tick \/ UNCHANGED vars
    BY <1>7, <1>14 DEF Tick, vars, syncVars
  <1>15. CASE \E r \in Relays :
                SyncAll(r) \/ (\E q \in PeerRelays[r] : SyncPeer(r, q)) \/ Restart(r)
    BY <1>8, <1>9, <1>11, <1>15
  <1> QED BY <1>10, <1>12, <1>13, <1>14, <1>15 DEF Next

(* A push under way was so before, or relay q has just sent a registration *)
(* of its own.                                                             *)
PushMoved(m) ==
    \/ m \in pushes
    \/ \E q \in Relays, p \in Peers :
        /\ p \in DOMAIN local[q].entries
        /\ m.to \in PeerRelays[q] /\ m.peer = p /\ m.reg = Ship(q, local[q].entries[p])
        /\ local' = local /\ lastAlive' = lastAlive

(* Only PushLocal makes pushes.                                            *)
LEMMA PushMoves ==
    ASSUME TInv, [Next]_vars
    PROVE  PushTypeOK' /\ \A m \in pushes' : PushMoved(m)
  <1>1. AgentRelays \subseteq Relays /\ \A r \in Relays : PeerRelays[r] \subseteq Relays
    BY FederationAssumption
  <1>2. CASE pushes' \subseteq pushes
    BY <1>2 DEF TInv, PushTypeOK, PushMoved
  <1>3. ASSUME NEW q \in AgentRelays, NEW p \in Peers, PushLocal(q, p)
        PROVE  PushTypeOK' /\ \A m \in pushes' : PushMoved(m)
    <2>1. /\ p \in DOMAIN local[q].entries /\ local' = local /\ lastAlive' = lastAlive
          /\ pushes' = pushes \cup
                [to : PeerRelays[q], peer : {p}, reg : {Ship(q, local[q].entries[p])}]
      BY <1>3 DEF PushLocal
    <2>2. PICK reg \in RegistrationFrom(Relays) : reg = Ship(q, local[q].entries[p])
      <3>1. local[q].entries[p] \in RegistrationFrom({LocalOrigin})
        BY <1>1, <2>1 DEF TInv, TablesInv, TableOK, TableTypeOK
      <3> QED BY <1>1, <3>1, ShipType
    <2>3. \A m \in pushes' \ pushes : m.to \in PeerRelays[q] /\ m.peer = p /\ m.reg = reg
      BY <2>1, <2>2
    <2>4. PushTypeOK'
      BY <1>1, <2>2, <2>3 DEF TInv, PushTypeOK
    <2>5. \A m \in pushes' : PushMoved(m)
      BY <1>1, <2>1, <2>2, <2>3 DEF PushMoved
    <2> QED BY <2>4, <2>5
  <1>4. CASE \E r \in AgentRelays, p \in Peers :
                \/ \E skills \in SkillLists : RegisterSkills(r, p, skills)
                \/ HeartbeatRPC(r, p)
                \/ \E ids \in SUBSET SkillIDs : UnregisterSkills(r, p, ids)
                \/ RemovePeer(r, p)
    BY <1>2, <1>4 DEF RegisterSkills, HeartbeatRPC, UnregisterSkills, RemovePeer
  <1>5. ASSUME NEW r \in Relays, NEW q \in PeerRelays[r], SyncPeer(r, q)
        PROVE  pushes' = pushes
    BY <1>5 DEF SyncPeer, ServeSnapshot, ServeReply, SyncFails, SyncSucceeds,
                ApplyRegistration, FinishSync
  <1>6. CASE \E r \in Relays : \/ CleanupLoop(r) \/ SyncAll(r) \/ Restart(r)
                              \/ \E q \in PeerRelays[r] : SyncPeer(r, q)
    BY <1>2, <1>5, <1>6 DEF CleanupLoop, SyncAll, Restart
  <1>7. CASE \E m \in pushes : PushRegistrations(m) \/ PushFails(m)
    BY <1>2, <1>7 DEF PushRegistrations, PushFails
  <1>8. CASE Tick \/ UNCHANGED vars
    BY <1>2, <1>8 DEF Tick, vars
  <1> QED BY <1>3, <1>4, <1>6, <1>7, <1>8 DEF Next

(* The types are preserved by every step.                                  *)
LEMMA NextTInv == TInv /\ [Next]_vars => TInv'
  BY NextClock, LocalMoves, FedMoves, PullMoves, PushMoves DEF TInv, TablesInv

-----------------------------------------------------------------------------
(* Where registrations and their copies come from.  The operators take the *)
(* history, alive, and the local tables, own, as parameters, so that they  *)
(* say the same of a state and of its successor.                           *)

(* reg was made and last renewed when relay o heard of p, and holds for a  *)
(* whole lease from its version on.                                        *)
HeardOf(reg, o, p, alive) ==
    /\ reg.registeredAt <= alive[o][p] + Skew[o]
    /\ reg.version <= alive[o][p] + Skew[o]
    /\ reg.expiresAt <= alive[o][p] + Skew[o] + TTL
    /\ reg.expiresAt >= reg.version + TTL

(* c is not ahead of a registration its origin holds.                      *)
Behind(c, reg) ==
    /\ c.version <= reg.version
    /\ c.version = reg.version => c.expiresAt <= reg.expiresAt

CopyOK(c, p, alive, own) ==
    /\ HeardOf(c, c.origin, p, alive)
    /\ p \in DOMAIN own[c.origin].entries => Behind(c, own[c.origin].entries[p])

OwnInv ==
    \A r \in Relays : \A p \in DOMAIN local[r].entries :
        HeardOf(local[r].entries[p], r, p, lastAlive)

StoredInv ==
    \A r \in Relays : \A p \in DOMAIN fed[r].entries :
        /\ CopyOK(fed[r].entries[p], p, lastAlive, local)
        /\ fed[r].entries[p].origin # r

RepliesInv ==
    \A r \in Relays : \A q \in PeerRelays[r] : \A p \in DOMAIN pull[r][q].regs :
        /\ CopyOK(pull[r][q].regs[p], p, lastAlive, local)
        /\ pull[r][q].regs[p].origin = q

PushesInv ==
    \A m \in pushes :
        CopyOK(m.reg, m.peer, lastAlive, local) /\ m.reg.origin # m.to

(* The inductive invariant. *)
FInv == TInv /\ OwnInv /\ StoredInv /\ RepliesInv /\ PushesInv

(* The numbers in a registration, and the times the agents were heard of.  *)
LEMMA RegNumbers ==
    ASSUME NEW origins, NEW c \in RegistrationFrom(origins)
    PROVE  /\ c.version \in Int /\ c.registeredAt \in Int /\ c.expiresAt \in Int
           /\ c.origin \in origins
  BY DEF RegistrationFrom

(* A step keeps what was heard of an agent.                                *)
LEMMA HeardOfKept ==
    ASSUME TInv, [Next]_vars, NEW o \in Relays, NEW p \in Peers, NEW origins,
           NEW c \in RegistrationFrom(origins), HeardOf(c, o, p, lastAlive)
    PROVE  HeardOf(c, o, p, lastAlive')
  <1>1. /\ lastAlive[o][p] \in Int /\ lastAlive'[o][p] \in Int
        /\ lastAlive'[o][p] >= lastAlive[o][p]
    BY NextClock DEF TInv, ClockInv
  <1>2. Skew[o] \in Nat /\ TTL \in Nat
    BY Clocks
  <1> QED BY <1>1, <1>2, RegNumbers DEF HeardOf

(* The registrations of agents at their own relays: a step renews them on  *)
(* the relay's clock when it hears of the agent, or leaves their times.    *)
LEMMA OwnKept ==
    ASSUME FInv, [Next]_vars
    PROVE  OwnInv'
  <1> SUFFICES ASSUME NEW r \in Relays, NEW p \in DOMAIN local'[r].entries
               PROVE  HeardOf(local'[r].entries[p], r, p, lastAlive')
    BY DEF OwnInv
  <1>0. TInv /\ TableOK(local'[r], {LocalOrigin}) /\ Moved(r, p) /\ TableOK(local[r], {LocalOrigin})
    BY LocalMoves DEF FInv, TInv, TablesInv
  <1>1. PICK new : new = local'[r].entries[p]
    OBVIOUS
  <1>2. p \in Peers /\ new \in RegistrationFrom({LocalOrigin})
    BY <1>0, <1>1 DEF TableOK, TableTypeOK
  <1>3. /\ Clock(r) = now + Skew[r] /\ now \in Int /\ Skew[r] \in Nat /\ TTL \in Nat
        /\ lastAlive[r][p] \in Int /\ lastAlive'[r][p] \in Int
        /\ lastAlive[r][p] <= now /\ lastAlive'[r][p] >= lastAlive[r][p]
    BY <1>0, <1>2, Clocks, NextClock DEF TInv, ClockInv, Clock
  <1>4. ASSUME p \in DOMAIN local[r].entries
        PROVE  /\ local[r].entries[p] \in RegistrationFrom({LocalOrigin})
               /\ HeardOf(local[r].entries[p], r, p, lastAlive)
    BY <1>0, <1>4 DEF FInv, OwnInv, TableOK, TableTypeOK
  <1>5. CASE p \in DOMAIN local[r].entries /\ SameTimes(new, local[r].entries[p])
    <2>1. HeardOf(local[r].entries[p], r, p, lastAlive')
      BY <1>0, <1>2, <1>4, <1>5, HeardOfKept
    <2> QED BY <1>1, <1>5, <2>1 DEF HeardOf, SameTimes
  <1>6. CASE /\ p \in DOMAIN local[r].entries
             /\ new.registeredAt = local[r].entries[p].registeredAt
             /\ new.version = local[r].entries[p].version
             /\ new.expiresAt = Clock(r) + TTL /\ lastAlive'[r][p] = now
    <2>1. PICK old \in RegistrationFrom({LocalOrigin}) : old = local[r].entries[p]
      BY <1>4, <1>6
    <2>2. /\ old.registeredAt <= lastAlive[r][p] + Skew[r]
          /\ old.version <= lastAlive[r][p] + Skew[r]
      BY <1>4, <1>6, <2>1 DEF HeardOf
    <2>3. HeardOf(new, r, p, lastAlive')
      BY <1>2, <1>3, <1>6, <2>1, <2>2, RegNumbers DEF HeardOf
    <2> QED BY <1>1, <2>3
  <1>7. CASE /\ new.registeredAt = Clock(r) /\ new.version = Clock(r)
             /\ new.expiresAt = Clock(r) + TTL /\ lastAlive'[r][p] = now
    <2>1. HeardOf(new, r, p, lastAlive')
      BY <1>2, <1>3, <1>7, RegNumbers DEF HeardOf
    <2> QED BY <1>1, <2>1
  <1> QED BY <1>0, <1>1, <1>5, <1>6, <1>7 DEF Moved

(* A copy stays behind the registration it was made from, and behind a     *)
(* later one of the agent at the same relay.                               *)
LEMMA CopyKept ==
    ASSUME TInv, [Next]_vars, NEW p \in Peers, NEW c \in RegistrationFrom(Relays),
           CopyOK(c, p, lastAlive, local)
    PROVE  CopyOK(c, p, lastAlive', local')
  <1>1. PICK o \in Relays : o = c.origin
    BY RegNumbers
  <1>2. HeardOf(c, o, p, lastAlive')
    BY <1>1, HeardOfKept DEF CopyOK
  <1>3. ASSUME p \in DOMAIN local'[o].entries
        PROVE  Behind(c, local'[o].entries[p])
    <2>0. Moved(o, p) /\ TableOK(local'[o], {LocalOrigin}) /\ TableOK(local[o], {LocalOrigin})
      BY <1>3, LocalMoves DEF TInv, TablesInv
    <2>1. PICK new \in RegistrationFrom({LocalOrigin}) : new = local'[o].entries[p]
      BY <1>3, <2>0 DEF TableOK, TableTypeOK
    <2>2. /\ Clock(o) = now + Skew[o] /\ now \in Int /\ Skew[o] \in Nat /\ TTL \in Nat
          /\ lastAlive[o][p] \in Int /\ lastAlive[o][p] <= now
      BY Clocks DEF TInv, ClockInv, Clock
    <2>3. /\ c.version <= lastAlive[o][p] + Skew[o]
          /\ c.expiresAt <= lastAlive[o][p] + Skew[o] + TTL
      BY <1>1 DEF CopyOK, HeardOf
    <2>4. ASSUME p \in DOMAIN local[o].entries
          PROVE  /\ local[o].entries[p] \in RegistrationFrom({LocalOrigin})
                 /\ Behind(c, local[o].entries[p])
      BY <1>1, <2>0, <2>4 DEF TableOK, TableTypeOK, CopyOK
    <2>5. CASE p \in DOMAIN local[o].entries /\ SameTimes(new, local[o].entries[p])
      BY <2>1, <2>4, <2>5 DEF Behind, SameTimes
    <2>6. CASE /\ p \in DOMAIN local[o].entries
               /\ new.version = local[o].entries[p].version
               /\ new.expiresAt = Clock(o) + TTL
      <3>1. PICK old \in RegistrationFrom({LocalOrigin}) : old = local[o].entries[p]
        BY <2>4, <2>6
      <3>2. c.version <= old.version
        BY <2>4, <2>6, <3>1 DEF Behind
      <3>3. c.version <= new.version /\ c.expiresAt <= new.expiresAt
        BY <2>2, <2>3, <2>6, <3>1, <3>2, RegNumbers
      <3> QED BY <2>1, <3>3 DEF Behind
    <2>7. CASE new.version = Clock(o) /\ new.expiresAt = Clock(o) + TTL
      <3>1. c.version <= new.version /\ c.expiresAt <= new.expiresAt
        BY <2>2, <2>3, <2>7, RegNumbers
      <3> QED BY <2>1, <3>1 DEF Behind
    <2> QED BY <2>0, <2>1, <2>5, <2>6, <2>7 DEF Moved
  <1> QED BY <1>1, <1>2, <1>3 DEF CopyOK

(* What a relay sends of its own registrations is a good copy.             *)
LEMMA ShipOK ==
    ASSUME FInv, NEW q \in Relays, NEW p \in DOMAIN local[q].entries
    PROVE  LET c == Ship(q, local[q].entries[p])
           IN  /\ p \in Peers /\ c \in RegistrationFrom(Relays) /\ c.origin = q
               /\ CopyOK(c, p, lastAlive, local)
  <1>1. TableOK(local[q], {LocalOrigin}) /\ HeardOf(local[q].entries[p], q, p, lastAlive)
    BY DEF FInv, TInv, TablesInv, OwnInv
  <1>2. PICK reg \in RegistrationFrom({LocalOrigin}) : reg = local[q].entries[p]
    BY <1>1 DEF TableOK, TableTypeOK
  <1>3. p \in Peers
    BY <1>1 DEF TableOK, TableTypeOK
  <1>4. PICK c \in RegistrationFrom(Relays) : c = Ship(q, reg)
    BY <1>2, ShipType
  <1>5. c.origin = q /\ SameTimes(c, reg)
    BY <1>2, <1>4, ShipType
  <1>6. HeardOf(c, q, p, lastAlive)
    BY <1>1, <1>2, <1>5 DEF HeardOf, SameTimes
  <1>7. Behind(c, reg)
    BY <1>5, RegNumbers DEF Behind, SameTimes
  <1> QED BY <1>2, <1>3, <1>4, <1>5, <1>6, <1>7 DEF CopyOK

(* Copies stay good on their way: into a reply or a push, into a table.    *)
LEMMA CopiesKept ==
    ASSUME FInv, [Next]_vars
    PROVE  StoredInv' /\ RepliesInv' /\ PushesInv'
  <1>t. TInv
    BY DEF FInv
  <1>c. ASSUME NEW r \in Relays, NEW q \in PeerRelays[r], NEW p \in DOMAIN pull[r][q].regs
        PROVE  /\ p \in Peers /\ pull[r][q].regs[p] \in RegistrationFrom(Relays)
               /\ CopyOK(pull[r][q].regs[p], p, lastAlive, local)
               /\ pull[r][q].regs[p].origin = q /\ q # r
    <2>1. CallOK(pull[r][q])
      BY DEF FInv, TInv, SyncInv, CallInv
    <2>2. CopyOK(pull[r][q].regs[p], p, lastAlive, local) /\ pull[r][q].regs[p].origin = q
      BY DEF FInv, RepliesInv
    <2> QED BY <2>1, <2>2, FederationAssumption DEF CallOK
  <1>m. ASSUME NEW m \in pushes
        PROVE  /\ m.to \in Relays /\ m.peer \in Peers /\ m.reg \in RegistrationFrom(Relays)
               /\ CopyOK(m.reg, m.peer, lastAlive, local) /\ m.reg.origin # m.to
    BY DEF FInv, TInv, PushTypeOK, PushesInv
  <1>1. ASSUME NEW r \in Relays, NEW p \in DOMAIN fed'[r].entries
        PROVE  /\ CopyOK(fed'[r].entries[p], p, lastAlive', local')
               /\ fed'[r].entries[p].origin # r
    <2>1. FedMoved(r, p) /\ TableOK(fed'[r], Relays) /\ TableOK(fed[r], Relays)
      BY <1>t, FedMoves DEF TInv, TablesInv
    <2>2. PICK c \in RegistrationFrom(Relays) : c = fed'[r].entries[p]
      BY <2>1 DEF TableOK, TableTypeOK
    <2>3. p \in Peers
      BY <2>1 DEF TableOK, TableTypeOK
    <2>4. CopyOK(c, p, lastAlive, local) /\ c.origin # r
      <3>1. CASE p \in DOMAIN fed[r].entries /\ c = fed[r].entries[p]
        BY <3>1 DEF FInv, StoredInv
      <3>2. CASE \E q \in PeerRelays[r] : p \in DOMAIN pull[r][q].regs /\ c = pull[r][q].regs[p]
        BY <1>c, <3>2
      <3>3. CASE \E m \in pushes : m.to = r /\ m.peer = p /\ c = m.reg
        BY <1>m, <3>3
      <3> QED BY <2>1, <2>2, <3>1, <3>2, <3>3 DEF FedMoved
    <2> QED BY <1>t, <2>2, <2>3, <2>4, CopyKept
  <1>2. ASSUME NEW r \in Relays, NEW q \in PeerRelays[r], NEW p \in DOMAIN pull'[r][q].regs
        PROVE  /\ CopyOK(pull'[r][q].regs[p], p, lastAlive', local')
               /\ pull'[r][q].regs[p].origin = q
    <2>1. PullMoved(r, q, p) /\ q \in Relays
      BY <1>t, PullMoves, Clocks
    <2>2. CASE p \in DOMAIN pull[r][q].regs /\ pull'[r][q].regs[p] = pull[r][q].regs[p]
      <3>1. PICK c \in RegistrationFrom(Relays) : c = pull[r][q].regs[p]
        BY <1>c, <2>2
      <3>2. CopyOK(c, p, lastAlive', local')
        BY <1>c, <1>t, <2>2, <3>1, CopyKept
      <3> QED BY <1>c, <2>2, <3>1, <3>2
    <2>3. CASE /\ p \in DOMAIN local[q].entries
               /\ pull'[r][q].regs[p] = Ship(q, local[q].entries[p])
               /\ local' = local /\ lastAlive' = lastAlive
      BY <2>1, <2>3, ShipOK
    <2> QED BY <2>1, <2>2, <2>3 DEF PullMoved
  <1>3. ASSUME NEW m \in pushes'
        PROVE  CopyOK(m.reg, m.peer, lastAlive', local') /\ m.reg.origin # m.to
    <2>1. PushMoved(m)
      BY <1>t, PushMoves
    <2>2. CASE m \in pushes
      BY <1>m, <1>t, <2>2, CopyKept
    <2>3. ASSUME NEW q \in Relays, NEW p \in DOMAIN local[q].entries,
                 m.to \in PeerRelays[q], m.peer = p, m.reg = Ship(q, local[q].entries[p]),
                 local' = local, lastAlive' = lastAlive
          PROVE  CopyOK(m.reg, m.peer, lastAlive', local') /\ m.reg.origin # m.to
      BY <2>3, ShipOK, FederationAssumption
    <2> QED BY <2>1, <2>2, <2>3 DEF PushMoved
  <1> QED BY <1>1, <1>2, <1>3 DEF StoredInv, RepliesInv, PushesInv

(* FInv holds of every behaviour of the federation.                        *)
THEOREM FederationInvariance == Spec => []FInv
  <1>1. Init => FInv
    <2> SUFFICES ASSUME Init PROVE FInv
      OBVIOUS
    <2>1. /\ \A r \in Relays : local[r] = EmptyTable /\ fed[r] = EmptyTable
          /\ \A r \in Relays : \A q \in PeerRelays[r] : pull[r][q] = Idle
          /\ pushes = {}
      BY DEF Init
    <2>2. DOMAIN EmptyTable.entries = {} /\ DOMAIN Idle.regs = {}
      BY IdleRecord DEF EmptyTable, EmptyMap
    <2> QED BY <2>1, <2>2, InitTInv DEF FInv, OwnInv, StoredInv, RepliesInv, PushesInv
  <1>2. FInv /\ [Next]_vars => FInv'
    BY NextTInv, OwnKept, CopiesKept DEF FInv
  <1> QED BY <1>1, <1>2, PTL DEF Spec

-----------------------------------------------------------------------------
(* Theorems *)

(* Every relay keeps local and federated registrations apart, and replies  *)
(* hold whole registrations, whatever the calls, pushes and restarts.      *)
THEOREM FederationTypeCorrect == Spec => []TypeOK
  <1>1. FInv => TypeOK
    <2> SUFFICES ASSUME FInv PROVE TypeOK
      OBVIOUS
    <2>1. /\ now \in 0 .. MaxTime /\ restarts \in 0 .. MaxRestarts
          /\ lastAlive \in [Relays -> [Peers -> Int]]
      BY DEF FInv, TInv, ClockInv
    <2>2. /\ DOMAIN local = Relays /\ DOMAIN fed = Relays
          /\ \A r \in Relays :
                TableTypeOK(local[r], {LocalOrigin}) /\ TableTypeOK(fed[r], Relays)
      BY DEF FInv, TInv, TablesInv, TableOK
    <2>3. \A r \in Relays : \A q \in PeerRelays[r] :
            lastSync[r][q] \in Int /\ CallOK(pull[r][q])
      BY DEF FInv, TInv, SyncInv, CallInv
    <2>4. \A r \in Relays : \A q \in PeerRelays[r] : failing[r][q] \in BOOLEAN
      BY DEF FInv, TInv, SyncInv
    <2>5. \A m \in pushes :
            m.to \in Relays /\ m.peer \in Peers /\ m.reg \in RegistrationFrom(Relays)
      BY DEF FInv, TInv, PushTypeOK
    <2> QED BY <2>1, <2>2, <2>3, <2>4, <2>5 DEF TypeOK
  <1> QED BY <1>1, FederationInvariance, PTL

(* The copies of a registration are the ones the invariant speaks of.      *)
LEMMA EveryCopy ==
    ASSUME FInv, NEW p \in Peers, NEW c \in Copies(p)
    PROVE  CopyOK(c, p, lastAlive, local)
  <1>1. CASE c \in Stored(p)
    BY <1>1 DEF Stored, FInv, StoredInv
  <1>2. CASE c \in Replied(p)
    BY <1>2 DEF Replied, FInv, RepliesInv
  <1>3. CASE c \in Pushed(p)
    BY <1>3 DEF Pushed, FInv, PushesInv
  <1> QED BY <1>1, <1>2, <1>3 DEF Copies

(* The skill index and the counter of each table of each relay say what    *)
(* the entries say, whatever pulls, pushes, sweeps and restarts interleave.*)
THEOREM RelaysKeepTheirBooks ==
    Spec => [](\A r \in Relays : /\ IndexExact(local[r]) /\ CountExact(local[r])
                                 /\ IndexExact(fed[r]) /\ CountExact(fed[r]))
  <1>1. FInv => \A r \in Relays : /\ IndexExact(local[r]) /\ CountExact(local[r])
                                  /\ IndexExact(fed[r]) /\ CountExact(fed[r])
    BY DEF FInv, TInv, TablesInv, TableOK
  <1> QED BY <1>1, FederationInvariance, PTL

(* A copy outlives the agent by at most one lease, on the clock of the     *)
(* relay it comes from, wherever it is and however late it was applied.    *)
THEOREM StalenessAlwaysBounded == Spec => []BoundedStaleness
  <1>1. FInv => BoundedStaleness
    BY EveryCopy DEF BoundedStaleness, CopyOK, HeardOf
  <1> QED BY <1>1, FederationInvariance, PTL

(* Relays speak only of agents they heard of themselves, and no relay      *)
(* stores as federated what it is the origin of.                           *)
THEOREM AlwaysFirstHand == Spec => []FirstHand
  <1>1. FInv => FirstHand
    <2> SUFFICES ASSUME FInv, NEW p \in Peers
                 PROVE  /\ \A c \in Copies(p) :
                            c.registeredAt <= lastAlive[c.origin][p] + Skew[c.origin]
                        /\ \A r \in Relays :
                            p \in DOMAIN fed[r].entries => fed[r].entries[p].origin # r
      BY DEF FirstHand
    <2>1. \A c \in Copies(p) : c.registeredAt <= lastAlive[c.origin][p] + Skew[c.origin]
      BY EveryCopy DEF CopyOK, HeardOf
    <2>2. \A r \in Relays : p \in DOMAIN fed[r].entries => fed[r].entries[p].origin # r
      BY DEF FInv, StoredInv
    <2> QED BY <2>1, <2>2
  <1> QED BY <1>1, FederationInvariance, PTL

(* No copy is ahead of the registration its origin holds of the agent, so  *)
(* that last-writer-wins never refuses the agent's next registration.      *)
THEOREM CopiesNeverAhead == Spec => []CopyNeverAhead
  <1>1. FInv => CopyNeverAhead
    BY EveryCopy DEF CopyNeverAhead, CopyOK, Behind
  <1> QED BY <1>1, FederationInvariance, PTL

-----------------------------------------------------------------------------
(* Replies are applied *)

(* The registrations of a reply that the loop is done with and that the    *)
(* table had room for.                                                     *)
Done(call) == (call.sent \ call.todo) \ call.refused

(* reg is stored in T, or one that wins over it, or it is no longer good.  *)
Settled(T, p, reg, t) ==
    \/ reg.expiresAt > reg.version + TTL
    \/ Expired(reg, t)
    \/ p \in DOMAIN T.entries /\ ~AcceptsFederated(T, p, reg)

AppliedInv ==
    \A r \in Relays : \A q \in PeerRelays[r] : \A p \in Done(pull[r][q]) :
        Settled(fed[r], p, pull[r][q].regs[p], Clock(r))

(* What RegisterFederated does not take is no newer than what is stored.   *)
LEMMA RefusedIsOlder ==
    ASSUME NEW T, TableOK(T, Relays), NEW p \in DOMAIN T.entries,
           NEW reg \in RegistrationFrom(Relays)
    PROVE  ~AcceptsFederated(T, p, reg) <=> NotOlder(T.entries[p], reg)
  <1>1. T.entries[p] \in RegistrationFrom(Relays)
    BY DEF TableOK, TableTypeOK
  <1>2. /\ T.entries[p].version \in Int /\ reg.version \in Int
        /\ T.entries[p].origin \in Nat /\ reg.origin \in Nat
    BY <1>1, RegNumbers, SetsAssumption
  <1>3. CASE AcceptsFederated(T, p, reg)
    <2>1. \/ T.entries[p].version < reg.version
          \/ T.entries[p].version = reg.version /\ T.entries[p].origin > reg.origin
      BY <1>3, Zenon DEF AcceptsFederated
    <2>2. ~NotOlder(T.entries[p], reg)
      BY <1>2, <2>1 DEF NotOlder
    <2> QED BY <1>3, <2>2
  <1>4. CASE ~AcceptsFederated(T, p, reg)
    <2>1. /\ ~(T.entries[p].version < reg.version)
          /\ ~(T.entries[p].version = reg.version /\ T.entries[p].origin > reg.origin)
      BY <1>4, Zenon DEF AcceptsFederated
    <2>2. NotOlder(T.entries[p], reg)
      BY <1>2, <2>1 DEF NotOlder
    <2> QED BY <1>4, <2>2
  <1> QED BY <1>3, <1>4

(* The last-writer-wins order is reflexive and transitive.                 *)
LEMMA NotOlderReflexive ==
    ASSUME NEW a \in RegistrationFrom(Relays)
    PROVE  NotOlder(a, a)
  <1>1. a.version \in Int /\ a.origin \in Relays
    BY RegNumbers
  <1>2. a.origin \in Nat
    BY <1>1, SetsAssumption
  <1> QED BY <1>1, <1>2 DEF NotOlder

(* The last-writer-wins order is transitive.                               *)
LEMMA NotOlderTransitive ==
    ASSUME NEW a \in RegistrationFrom(Relays), NEW b \in RegistrationFrom(Relays),
           NEW c \in RegistrationFrom(Relays), NotOlder(a, b), NotOlder(b, c)
    PROVE  NotOlder(a, c)
  <1>1. /\ a.version \in Int /\ b.version \in Int /\ c.version \in Int
        /\ a.origin \in Nat /\ b.origin \in Nat /\ c.origin \in Nat
    BY RegNumbers, SetsAssumption
  <1> QED BY <1>1 DEF NotOlder

(* After RegisterFederated the registration is settled, unless the table   *)
(* was full.                                                               *)
LEMMA RegisterFederatedSettles ==
    ASSUME NEW T, TableOK(T, Relays), NEW p \in Peers, NEW reg \in RegistrationFrom(Relays),
           ~Refuses(T, p), NEW t
    PROVE  Settled(RegisterFederated(T, p, reg), p, reg, t)
  <1> DEFINE N == RegisterFederated(T, p, reg)
  <1>1. CASE AcceptsFederated(T, p, reg)
    <2>1. TableOK(N, Relays) /\ N = Store(T, p, reg)
      BY <1>1, RegisterFederatedEntries DEF RegisterFederated
    <2>2. p \in DOMAIN N.entries /\ N.entries[p] = reg
      BY <2>1, StoreEntries
    <2>3. NotOlder(reg, reg)
      BY NotOlderReflexive
    <2> HIDE DEF N
    <2>4. ~AcceptsFederated(N, p, reg)
      BY <2>1, <2>2, <2>3, RefusedIsOlder
    <2>5. Settled(N, p, reg, t)
      BY <2>2, <2>4 DEF Settled
    <2> QED BY <2>5 DEF N
  <1>2. CASE ~AcceptsFederated(T, p, reg)
    <2>1. N = T
      BY <1>2 DEF RegisterFederated
    <2>2. p \in DOMAIN T.entries
      <3>1. IsFiniteSet(DOMAIN T.entries)
        BY SetsAssumption, FS_Subset DEF TableOK, TableTypeOK
      <3>2. Cardinality(DOMAIN T.entries) \in Nat
        BY <3>1, FS_CardinalityType
      <3> QED BY <1>2, <3>2, LimitsAssumption DEF AcceptsFederated, Refuses
    <2> QED BY <1>2, <2>1, <2>2 DEF Settled
  <1> QED BY <1>1, <1>2

(* A federated table only forgets a registration that has expired, or all  *)
(* of them when its relay restarts, which ends the relay's calls.          *)
LEMMA FedForward ==
    ASSUME TInv, [Next]_vars, NEW r \in Relays, NEW p \in DOMAIN fed[r].entries
    PROVE  \/ \A q \in PeerRelays[r] : pull'[r][q] = Idle
           \/ Expired(fed[r].entries[p], Clock(r))
           \/ /\ p \in DOMAIN fed'[r].entries
              /\ NotOlder(fed'[r].entries[p], fed[r].entries[p])
  <1> DEFINE Good == \/ \A q \in PeerRelays[r] : pull'[r][q] = Idle
                     \/ Expired(fed[r].entries[p], Clock(r))
                     \/ /\ p \in DOMAIN fed'[r].entries
                        /\ NotOlder(fed'[r].entries[p], fed[r].entries[p])
  <1> SUFFICES Good
    OBVIOUS
  <1>t. DOMAIN fed = Relays /\ \A s \in Relays : TableOK(fed[s], Relays)
    BY DEF TInv, TablesInv
  <1>e. fed[r].entries[p] \in RegistrationFrom(Relays)
    BY <1>t DEF TableOK, TableTypeOK
  <1>u. CASE fed'[r] = fed[r]
    <2>1. PICK e \in RegistrationFrom(Relays) : e = fed[r].entries[p]
      BY <1>e
    <2>2. NotOlder(e, e)
      BY NotOlderReflexive
    <2> QED BY <1>u, <2>1, <2>2
  <1>f. ASSUME NEW s \in Relays, NEW x \in Peers, NEW reg \in RegistrationFrom(Relays),
               fed' = [fed EXCEPT ![s] = RegisterFederated(fed[s], x, reg)]
        PROVE  Good
    <2>1. CASE s # r
      BY <1>f, <1>t, <1>u, <2>1
    <2>2. CASE s = r
      <3>1. fed'[r] = RegisterFederated(fed[r], x, reg)
        BY <1>f, <1>t, <2>2
      <3> QED BY <1>t, <3>1, RegisterFederatedEntries
    <2> QED BY <2>1, <2>2
  <1> HIDE DEF Good
  <1>1. ASSUME NEW s \in Relays, CleanupLoop(s)
        PROVE  Good
    <2>1. CASE s # r
      <3>1. fed'[r] = fed[r]
        BY <1>1, <1>t, <2>1 DEF CleanupLoop
      <3> QED BY <1>u, <3>1
    <2>2. CASE s = r
      <3> DEFINE P == ExpiredPeers(fed[r], Clock(r))
      <3>1. fed'[r] = Drop(fed[r], P)
        BY <1>1, <1>t, <2>2 DEF CleanupLoop, evictExpired
      <3>2. CASE p \in P
        BY <3>2 DEF ExpiredPeers, Good
      <3>3. CASE p \notin P
        <4>1. p \in DOMAIN fed'[r].entries /\ fed'[r].entries[p] = fed[r].entries[p]
          BY <3>1, <3>3, DropEntries
        <4>2. PICK e \in RegistrationFrom(Relays) : e = fed[r].entries[p]
          BY <1>e
        <4>3. NotOlder(e, e)
          BY NotOlderReflexive
        <4> QED BY <4>1, <4>2, <4>3 DEF Good
      <3> QED BY <3>2, <3>3
    <2> QED BY <2>1, <2>2
  <1>2. ASSUME NEW s \in Relays, NEW q \in PeerRelays[s], NEW x \in Peers,
               ApplyRegistration(s, q, x)
        PROVE  Good
    <2>1. CallOK(pull[s][q])
      BY DEF TInv, SyncInv, CallInv
    <2>2. PICK reg \in RegistrationFrom(Relays) : reg = pull[s][q].regs[x]
      BY <1>2, <2>1 DEF ApplyRegistration, CallOK
    <2>3. fed' = [fed EXCEPT ![s] = RegisterFederated(fed[s], x, reg)]
      BY <1>2, <2>2 DEF ApplyRegistration
    <2> QED BY <1>f, <2>3
  <1>3. ASSUME NEW m \in pushes, PushRegistrations(m)
        PROVE  Good
    <2>1. m.to \in Relays /\ m.peer \in Peers /\ m.reg \in RegistrationFrom(Relays)
      BY DEF TInv, PushTypeOK
    <2>2. fed' = [fed EXCEPT ![m.to] = RegisterFederated(fed[m.to], m.peer, m.reg)]
      BY <1>3 DEF PushRegistrations
    <2> QED BY <1>f, <2>1, <2>2
  <1>4. ASSUME NEW s \in Relays, Restart(s)
        PROVE  Good
    <2>1. CASE s # r
      <3>1. fed'[r] = fed[r]
        BY <1>4, <1>t, <2>1 DEF Restart
      <3> QED BY <1>u, <3>1
    <2>2. CASE s = r
      BY <1>4, <2>2 DEF Restart, Good
    <2> QED BY <2>1, <2>2
  <1>5. CASE \E s \in AgentRelays, x \in Peers :
                \/ \E skills \in SkillLists : RegisterSkills(s, x, skills)
                \/ HeartbeatRPC(s, x)
                \/ \E ids \in SUBSET SkillIDs : UnregisterSkills(s, x, ids)
                \/ RemovePeer(s, x)
                \/ PushLocal(s, x)
    BY <1>5, <1>u DEF RegisterSkills, HeartbeatRPC, UnregisterSkills, RemovePeer, PushLocal
  <1>6. ASSUME NEW s \in Relays, NEW q \in PeerRelays[s], SyncPeer(s, q)
        PROVE  Good
    <2>1. CASE \E x \in Peers : ApplyRegistration(s, q, x)
      BY <1>2, <2>1
    <2>2. CASE ~\E x \in Peers : ApplyRegistration(s, q, x)
      BY <1>6, <1>u, <2>2
         DEF SyncPeer, ServeSnapshot, ServeReply, SyncFails, SyncSucceeds, FinishSync
    <2> QED BY <2>1, <2>2
  <1>7. CASE \E s \in Relays :
                CleanupLoop(s) \/ (\E q \in PeerRelays[s] : SyncPeer(s, q)) \/ Restart(s)
    BY <1>1, <1>4, <1>6, <1>7
  <1>8. CASE \E s \in Relays : SyncAll(s)
    BY <1>8, <1>u DEF SyncAll
  <1>9. CASE \E m \in pushes : PushRegistrations(m) \/ PushFails(m)
    BY <1>3, <1>9, <1>u DEF PushFails
  <1>10. CASE Tick \/ UNCHANGED vars
    BY <1>10, <1>u DEF Tick, vars
  <1> QED BY <1>5, <1>7, <1>8, <1>9, <1>10 DEF Next

(* What a call is done with it was done with before, or it has just been   *)
(* given to RegisterFederated, and the table had room.                     *)
LEMMA Progress ==
    ASSUME TInv, [Next]_vars, NEW r \in Relays, NEW q \in PeerRelays[r],
           NEW p \in Done(pull'[r][q])
    PROVE  /\ pull'[r][q].regs[p] = pull[r][q].regs[p]
           /\ \/ p \in Done(pull[r][q])
              \/ /\ p \in DOMAIN pull[r][q].regs /\ ~Refuses(fed[r], p)
                 /\ fed'[r] = RegisterFederated(fed[r], p, pull[r][q].regs[p])
  <1> DEFINE Good ==
        /\ pull'[r][q].regs[p] = pull[r][q].regs[p]
        /\ \/ p \in Done(pull[r][q])
           \/ /\ p \in DOMAIN pull[r][q].regs /\ ~Refuses(fed[r], p)
              /\ fed'[r] = RegisterFederated(fed[r], p, pull[r][q].regs[p])
  <1> SUFFICES Good
    OBVIOUS
  <1>t. /\ DOMAIN pull = Relays /\ \A s \in Relays : DOMAIN pull[s] = PeerRelays[s]
        /\ pull[r][q] \in CallRecord /\ CallOK(pull[r][q])
        /\ pull[r][q].phase \in {"asked", "snapshot"} => pull[r][q].sent = {}
    BY DEF TInv, SyncInv, CallInv
  <1>f. DOMAIN fed = Relays
    BY DEF TInv, TablesInv
  <1>u. CASE pull'[r][q] = pull[r][q]
    BY <1>u
  <1>i. ASSUME DOMAIN pull'[r][q].regs = {}, CallOK(pull'[r][q])
        PROVE  FALSE
    BY <1>i DEF Done, CallOK
  <1>j. CallOK(pull'[r][q])
    BY PullMoves DEF SyncInv, CallInv
  <1>k. pull'[r][q] # Idle /\ pull'[r][q].sent # {}
    BY <1>j, <1>i, IdleRecord DEF Done
  <1>s. ASSUME NEW s \in Relays, NEW x \in PeerRelays[s], NEW call, SetPull(s, x, call),
               (s = r /\ x = q /\ pull'[r][q] = call) => Good
        PROVE  Good
    BY <1>s, <1>t, <1>u DEF SetPull
  <1> HIDE DEF Good
  <1>1. ASSUME NEW s \in Relays, NEW x \in PeerRelays[s], ServeSnapshot(s, x)
        PROVE  Good
    <2>1. PICK regs : SetPull(s, x, [pull[s][x] EXCEPT !.phase = "snapshot", !.regs = regs])
      BY <1>1 DEF ServeSnapshot
    <2>2. PICK call : call = [pull[s][x] EXCEPT !.phase = "snapshot", !.regs = regs]
      OBVIOUS
    <2>3. SetPull(s, x, call)
      BY <2>1, <2>2
    <2>4. ASSUME s = r, x = q, pull'[r][q] = call PROVE FALSE
      BY <1>1, <1>k, <1>t, <2>2, <2>4 DEF ServeSnapshot, CallRecord
    <2> QED BY <1>s, <2>3, <2>4
  <1>2. ASSUME NEW s \in Relays, NEW x \in PeerRelays[s], ServeReply(s, x)
        PROVE  Good
    <2>1. PICK sent, t : SetPull(s, x, [pull[s][x] EXCEPT
                !.phase = "reply", !.sent = sent, !.todo = sent, !.stamp = t])
      BY <1>2 DEF ServeReply
    <2>2. PICK call : call = [pull[s][x] EXCEPT
                !.phase = "reply", !.sent = sent, !.todo = sent, !.stamp = t]
      OBVIOUS
    <2>3. SetPull(s, x, call)
      BY <2>1, <2>2
    <2>4. ASSUME s = r, x = q, pull'[r][q] = call PROVE FALSE
      <3>1. call.sent = sent /\ call.todo = sent
        BY <1>t, <2>2, <2>4 DEF CallRecord
      <3> QED BY <2>4, <3>1 DEF Done
    <2> QED BY <1>s, <2>3, <2>4
  <1>3. ASSUME NEW s \in Relays, NEW x \in PeerRelays[s], SyncFails(s, x) \/ FinishSync(s, x)
        PROVE  Good
    <2>1. PICK call : call = Idle
      OBVIOUS
    <2>2. SetPull(s, x, call)
      BY <1>3, <2>1 DEF SyncFails, FinishSync
    <2> QED BY <1>k, <1>s, <2>1, <2>2
  <1>4. ASSUME NEW s \in Relays, NEW x \in PeerRelays[s], SyncSucceeds(s, x)
        PROVE  Good
    <2>1. PICK call : call = [pull[s][x] EXCEPT !.phase = "apply"]
      OBVIOUS
    <2>2. SetPull(s, x, call)
      BY <1>4, <2>1 DEF SyncSucceeds
    <2>3. ASSUME s = r, x = q, pull'[r][q] = call PROVE Good
      <3>1. /\ call.regs = pull[r][q].regs /\ call.sent = pull[r][q].sent
            /\ call.todo = pull[r][q].todo /\ call.refused = pull[r][q].refused
        BY <1>t, <2>1, <2>3 DEF CallRecord
      <3> QED BY <2>3, <3>1 DEF Done, Good
    <2> QED BY <1>s, <2>2, <2>3
  <1>5. ASSUME NEW s \in Relays, NEW x \in PeerRelays[s], NEW y \in Peers,
               ApplyRegistration(s, x, y)
        PROVE  Good
    <2>1. PICK refused : refused = IF Refuses(fed[s], y) THEN pull[s][x].refused \cup {y}
                                   ELSE pull[s][x].refused
      OBVIOUS
    <2>2. PICK call : call = [pull[s][x] EXCEPT !.todo = pull[s][x].todo \ {y},
                                                !.refused = refused]
      OBVIOUS
    <2>3. SetPull(s, x, call)
      <3>1. SetPull(s, x, [pull[s][x] EXCEPT
                !.todo = @ \ {y},
                !.refused = IF Refuses(fed[s], y) THEN @ \cup {y} ELSE @])
        BY <1>5 DEF ApplyRegistration
      <3>2. call = [pull[s][x] EXCEPT
                !.todo = @ \ {y},
                !.refused = IF Refuses(fed[s], y) THEN @ \cup {y} ELSE @]
        BY <2>1, <2>2, Zenon
      <3> QED BY <3>1, <3>2
    <2>4. ASSUME s = r, x = q, pull'[r][q] = call PROVE Good
      <3>1. /\ call.regs = pull[r][q].regs /\ call.sent = pull[r][q].sent
            /\ call.todo = pull[r][q].todo \ {y} /\ call.refused = refused
        BY <1>t, <2>2, <2>4 DEF CallRecord
      <3>2. pull[r][q].refused \subseteq refused /\ (Refuses(fed[r], y) => y \in refused)
        BY <2>1, <2>4
      <3>3. CASE p = y
        <4>1. ~Refuses(fed[r], p) /\ p \in DOMAIN pull[r][q].regs
          BY <1>t, <2>4, <3>1, <3>2, <3>3 DEF Done, CallOK
        <4>2. fed'[r] = RegisterFederated(fed[r], p, pull[r][q].regs[p])
          BY <1>5, <1>f, <2>4, <3>3 DEF ApplyRegistration
        <4> QED BY <2>4, <3>1, <4>1, <4>2 DEF Good
      <3>4. CASE p # y
        BY <2>4, <3>1, <3>2, <3>4 DEF Done, Good
      <3> QED BY <3>3, <3>4
    <2> QED BY <1>s, <2>3, <2>4
  <1>6. ASSUME NEW s \in Relays, SyncAll(s)
        PROVE  Good
    <2>1. CASE s # r
      <3>1. pull'[r][q] = pull[r][q]
        BY <1>6, <1>t, <2>1 DEF SyncAll
      <3> QED BY <1>u, <3>1
    <2>2. CASE s = r
      <3>1. PICK skipped :
                pull' = [pull EXCEPT ![s] = [z \in PeerRelays[s] |->
                    IF z \in skipped THEN Idle
                    ELSE [Idle EXCEPT !.phase = "asked", !.since = lastSync[s][z]]]]
        BY <1>6 DEF SyncAll
      <3>2. pull'[s] = [z \in PeerRelays[s] |->
                    IF z \in skipped THEN Idle
                    ELSE [Idle EXCEPT !.phase = "asked", !.since = lastSync[s][z]]]
        BY <1>t, <3>1
      <3>3. PICK since : since = lastSync[s][q]
        OBVIOUS
      <3>4. PICK call : call = [Idle EXCEPT !.phase = "asked", !.since = since]
        OBVIOUS
      <3>5. pull'[r][q] = Idle \/ pull'[r][q] = call
        BY <2>2, <3>2, <3>3, <3>4
      <3>6. call.sent = {}
        BY <3>4, IdleRecord DEF CallRecord
      <3> QED BY <1>k, <3>5, <3>6
    <2> QED BY <2>1, <2>2
  <1>7. ASSUME NEW s \in Relays, Restart(s)
        PROVE  Good
    <2>1. \/ pull'[r][q] = Idle \/ pull'[r][q] = [Idle EXCEPT !.phase = "broken"]
          \/ pull'[r][q] = pull[r][q]
      BY <1>7 DEF Restart
    <2>2. PICK call : call = [Idle EXCEPT !.phase = "broken"]
      OBVIOUS
    <2>3. call.sent = {}
      BY <2>2, IdleRecord DEF CallRecord
    <2> QED BY <1>k, <1>u, <2>1, <2>2, <2>3
  <1>8. CASE UNCHANGED pull
    BY <1>8, <1>u
  <1>9. CASE \E s \in AgentRelays, x \in Peers :
                \/ \E skills \in SkillLists : RegisterSkills(s, x, skills)
                \/ HeartbeatRPC(s, x)
                \/ \E ids \in SUBSET SkillIDs : UnregisterSkills(s, x, ids)
                \/ RemovePeer(s, x)
                \/ PushLocal(s, x)
    BY <1>8, <1>9
       DEF RegisterSkills, HeartbeatRPC, UnregisterSkills, RemovePeer, PushLocal, syncVars
  <1>10. ASSUME NEW s \in Relays, NEW x \in PeerRelays[s], SyncPeer(s, x)
        PROVE  Good
    BY <1>1, <1>2, <1>3, <1>4, <1>5, <1>10 DEF SyncPeer
  <1>11. CASE \E s \in Relays : CleanupLoop(s)
    BY <1>8, <1>11 DEF CleanupLoop, syncVars
  <1>12. CASE \E m \in pushes : PushRegistrations(m) \/ PushFails(m)
    BY <1>8, <1>12 DEF PushRegistrations, PushFails, syncVars
  <1>13. CASE Tick \/ UNCHANGED vars
    BY <1>8, <1>13 DEF Tick, vars, syncVars
  <1>14. CASE \E s \in Relays :
                SyncAll(s) \/ (\E x \in PeerRelays[s] : SyncPeer(s, x)) \/ Restart(s)
    BY <1>6, <1>7, <1>10, <1>14
  <1> QED BY <1>9, <1>11, <1>12, <1>13, <1>14 DEF Next

(* What is settled stays settled: a stored registration is replaced only   *)
(* by one that wins over it, and evicted only when an unrenewed one that   *)
(* it has beaten has expired, too.                                         *)
LEMMA AppliedKept ==
    ASSUME FInv, AppliedInv, [Next]_vars
    PROVE  AppliedInv'
  <1> SUFFICES ASSUME NEW r \in Relays, NEW q \in PeerRelays[r], NEW p \in Done(pull'[r][q])
               PROVE  Settled(fed'[r], p, pull'[r][q].regs[p], Clock(r)')
    BY DEF AppliedInv
  <1>t. /\ TInv /\ TableOK(fed[r], Relays) /\ TableOK(fed'[r], Relays)
        /\ CallOK(pull'[r][q]) /\ CallOK(pull[r][q])
    BY FedMoves, PullMoves DEF FInv, TInv, TablesInv, SyncInv, CallInv
  <1>1. PICK reg \in RegistrationFrom(Relays) : reg = pull'[r][q].regs[p]
    BY <1>t DEF CallOK, Done
  <1>2. /\ reg = pull[r][q].regs[p]
        /\ \/ p \in Done(pull[r][q])
           \/ ~Refuses(fed[r], p) /\ fed'[r] = RegisterFederated(fed[r], p, reg)
    BY <1>1, <1>t, Progress
  <1>3. p \in Peers
    BY <1>t DEF CallOK, Done
  <1>4. Clock(r) \in Int /\ Clock(r)' \in Int /\ Clock(r) <= Clock(r)' /\ TTL \in Nat
    BY <1>t, NextClock, Clocks, FederationAssumption DEF Clock, ClockInv
  <1>5. CASE ~Refuses(fed[r], p) /\ fed'[r] = RegisterFederated(fed[r], p, reg)
    <2>1. PICK t : t = Clock(r)'
      OBVIOUS
    <2>2. Settled(fed'[r], p, reg, t)
      BY <1>3, <1>5, <1>t, RegisterFederatedSettles
    <2> QED BY <1>1, <2>1, <2>2
  <1>6. CASE p \in Done(pull[r][q])
    <2>1. Settled(fed[r], p, reg, Clock(r))
      BY <1>2, <1>6 DEF AppliedInv
    <2>2. CASE reg.expiresAt > reg.version + TTL
      BY <1>1, <2>2 DEF Settled
    <2>3. CASE Expired(reg, Clock(r))
      BY <1>1, <1>4, <2>3, RegNumbers DEF Settled, Expired
    <2>4. CASE /\ p \in DOMAIN fed[r].entries /\ ~AcceptsFederated(fed[r], p, reg)
               /\ ~(reg.expiresAt > reg.version + TTL)
      <3>1. PICK e \in RegistrationFrom(Relays) : e = fed[r].entries[p]
        BY <1>t, <2>4 DEF TableOK, TableTypeOK
      <3>2. NotOlder(e, reg)
        BY <1>t, <2>4, <3>1, RefusedIsOlder
      <3>3. CASE \A x \in PeerRelays[r] : pull'[r][x] = Idle
        <4>1. pull'[r][q] = Idle
          BY <3>3
        <4> QED BY <4>1, IdleRecord DEF Done
      <3>4. CASE Expired(e, Clock(r))
        <4>1. e.expiresAt >= e.version + TTL
          BY <2>4, <3>1 DEF FInv, StoredInv, CopyOK, HeardOf
        <4>2. e.version >= reg.version
          BY <3>2, RegNumbers DEF NotOlder
        <4>3. Clock(r)' > reg.expiresAt
          BY <1>4, <2>4, <3>4, <4>1, <4>2, RegNumbers DEF Expired
        <4> QED BY <1>1, <4>3 DEF Settled, Expired
      <3>5. CASE p \in DOMAIN fed'[r].entries /\ NotOlder(fed'[r].entries[p], e)
        <4>1. PICK n \in RegistrationFrom(Relays) : n = fed'[r].entries[p]
          BY <1>t, <3>5 DEF TableOK, TableTypeOK
        <4>2. NotOlder(n, reg)
          BY <3>2, <3>5, <4>1, NotOlderTransitive
        <4>3. ~AcceptsFederated(fed'[r], p, reg)
          BY <1>t, <3>5, <4>1, <4>2, RefusedIsOlder
        <4> QED BY <1>1, <3>5, <4>3 DEF Settled
      <3> QED BY <1>t, <2>4, <3>1, <3>3, <3>4, <3>5, FedForward
    <2> QED BY <2>1, <2>2, <2>3, <2>4 DEF Settled
  <1> QED BY <1>2, <1>5, <1>6

(* A call that ends as a success while its relay runs on has applied all   *)
(* of its reply.                                                           *)
LEMMA FinishedIsDone ==
    ASSUME TInv, Next, NEW r \in Relays, NEW q \in PeerRelays[r],
           Finishes(r, q), restarts' = restarts
    PROVE  pull[r][q].todo = {}
  <1>t. /\ DOMAIN pull = Relays /\ \A s \in Relays : DOMAIN pull[s] = PeerRelays[s]
        /\ pull[r][q] \in CallRecord /\ restarts \in Int
    BY DEF TInv, SyncInv, CallInv, ClockInv
  <1>f. pull[r][q].phase = "apply" /\ pull'[r][q].phase = "idle"
    BY DEF Finishes
  <1>1. pull' # pull
    BY <1>f
  <1>2. ASSUME NEW s \in Relays, NEW x \in PeerRelays[s], SyncPeer(s, x)
        PROVE  pull[r][q].todo = {}
    <2>1. \E call : SetPull(s, x, call)
      BY <1>2 DEF SyncPeer, ServeSnapshot, ServeReply, SyncFails, SyncSucceeds,
                  ApplyRegistration, FinishSync
    <2>2. s = r /\ x = q
      BY <1>f, <1>t, <2>1 DEF SetPull
    <2>3. CASE FinishSync(r, q)
      BY <2>3 DEF FinishSync
    <2>4. CASE \E p \in Peers : ApplyRegistration(r, q, p)
      <3>1. PICK todo, refused :
                SetPull(r, q, [pull[r][q] EXCEPT !.todo = todo, !.refused = refused])
        BY <2>4 DEF ApplyRegistration
      <3>2. pull'[r][q] = [pull[r][q] EXCEPT !.todo = todo, !.refused = refused]
        BY <1>t, <3>1 DEF SetPull
      <3>3. pull'[r][q].phase = "apply"
        BY <1>f, <1>t, <3>2 DEF CallRecord
      <3> QED BY <1>f, <3>3
    <2> QED BY <1>2, <1>f, <2>2, <2>3, <2>4
            DEF SyncPeer, ServeSnapshot, ServeReply, SyncFails, SyncSucceeds
  <1>3. ASSUME NEW s \in Relays PROVE ~Restart(s)
    BY <1>t DEF Restart
  <1>4. ASSUME NEW s \in Relays, SyncAll(s) PROVE FALSE
    <2>1. s # r
      BY <1>4, <1>f DEF SyncAll
    <2>2. pull'[r] = pull[r]
      BY <1>4, <1>t, <2>1 DEF SyncAll
    <2> QED BY <1>f, <2>2
  <1>5. ASSUME NEW s \in AgentRelays, NEW x \in Peers,
                \/ \E skills \in SkillLists : RegisterSkills(s, x, skills)
                \/ HeartbeatRPC(s, x)
                \/ \E ids \in SUBSET SkillIDs : UnregisterSkills(s, x, ids)
                \/ RemovePeer(s, x)
                \/ PushLocal(s, x)
        PROVE FALSE
    BY <1>1, <1>5
       DEF RegisterSkills, HeartbeatRPC, UnregisterSkills, RemovePeer, PushLocal, syncVars
  <1>6. ASSUME NEW s \in Relays, CleanupLoop(s) PROVE FALSE
    BY <1>1, <1>6 DEF CleanupLoop, syncVars
  <1>7. ASSUME NEW m \in pushes, PushRegistrations(m) \/ PushFails(m) PROVE FALSE
    BY <1>1, <1>7 DEF PushRegistrations, PushFails, syncVars
  <1>8. ~Tick
    BY <1>1 DEF Tick, syncVars
  <1> QED BY <1>2, <1>3, <1>4, <1>5, <1>6, <1>7, <1>8 DEF Next

(* A pull that succeeds has taken in the whole reply, whatever pushes,     *)
(* other pulls, evictions and restarts of other relays come between the    *)
(* turns of its loop.                                                      *)
THEOREM RepliesAlwaysApplied == Spec => ReplyApplied
  <1>1. Init => AppliedInv
    <2>1. Init => \A r \in Relays : \A q \in PeerRelays[r] : pull[r][q] = Idle
      BY DEF Init
    <2> QED BY <2>1, IdleRecord DEF AppliedInv, Done
  <1>2. FInv /\ AppliedInv /\ [Next]_vars => AppliedInv'
    BY AppliedKept
  <1>3. ASSUME FInv, AppliedInv, Next
        PROVE  \A r \in Relays : \A q \in PeerRelays[r] :
                (Finishes(r, q) /\ restarts' = restarts) =>
                    \A p \in pull[r][q].sent \ pull[r][q].refused :
                        LET reg == pull[r][q].regs[p]
                        IN  \/ reg.expiresAt > reg.version + TTL
                            \/ Expired(reg, Clock(r))
                            \/ /\ p \in DOMAIN fed[r].entries
                               /\ ~AcceptsFederated(fed[r], p, reg)
    <2> SUFFICES ASSUME NEW r \in Relays, NEW q \in PeerRelays[r],
                        Finishes(r, q), restarts' = restarts,
                        NEW p \in pull[r][q].sent \ pull[r][q].refused
                 PROVE  Settled(fed[r], p, pull[r][q].regs[p], Clock(r))
      BY DEF Settled
    <2>1. pull[r][q].todo = {}
      BY <1>3, FinishedIsDone DEF FInv
    <2>2. p \in Done(pull[r][q])
      BY <2>1 DEF Done
    <2> QED BY <1>3, <2>2 DEF AppliedInv
  <1> QED BY <1>1, <1>2, <1>3, FederationInvariance, PTL DEF Spec, ReplyApplied

=============================================================================
