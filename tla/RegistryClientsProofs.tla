------------------------- MODULE RegistryClientsProofs -------------------------
(***************************************************************************)
(* Proofs about the two specifications that surround Registry.tla, for all *)
(* values of their constants.                                              *)
(*                                                                         *)
(* Sessions.tla: the registry behind the disconnect watcher is still the   *)
(* registry of Registry.tla, and no disconnection that orphans a           *)
(* registration is overlooked.                                             *)
(*                                                                         *)
(* DirectoryAPI.tla: so is the registry below the directory API; its views *)
(* agree, and a walk through its pages misses no agent but for a shift.    *)
(***************************************************************************)
EXTENDS Sessions, DirectoryAPI, RegistryProofs, OrderLemmas, SequenceTheorems

-----------------------------------------------------------------------------
(* The sessions refine the registry *)

Event == [peer : Peers, connectedness : Connectedness]

SessionTypeOK ==
    /\ conn \in [Peers -> Connectedness]
    /\ events \in Seq(Event)
    /\ Len(events) <= EventBuffer
    /\ session \in [Peers -> SessionsOf]

(* The sessions start with everyone disconnected and nothing queued.       *)
LEMMA InitSessionType == SInit => SessionTypeOK
  BY SessionsAssumption DEF SInit, SessionTypeOK, SessionsOf, Event

(* Every step keeps the types of connections, queue and sessions.          *)
LEMMA NextSessionType == SessionTypeOK /\ [SNext]_allVars => SessionTypeOK'
  <1> SUFFICES ASSUME SessionTypeOK, [SNext]_allVars PROVE SessionTypeOK'
    OBVIOUS
  <1>1. ASSUME NEW p \in Peers, NEW c \in Connectedness, Change(p, c)
        PROVE  SessionTypeOK'
    <2>1. conn' \in [Peers -> Connectedness]
      BY <1>1 DEF SessionTypeOK, Change
    <2>2. events' \in Seq(Event) /\ Len(events') = Len(events) + 1
      <3>1. [peer |-> p, connectedness |-> c] \in Event
        BY DEF Event
      <3> QED BY <1>1, <3>1 DEF SessionTypeOK, Change
    <2>3. Len(events') <= EventBuffer
      BY <1>1, <2>2, SessionsAssumption DEF SessionTypeOK, Change
    <2>4. session' \in [Peers -> SessionsOf]
      BY <1>1 DEF SessionTypeOK, Change, SessionsOf
    <2> QED BY <2>1, <2>2, <2>3, <2>4 DEF SessionTypeOK
  <1>2. CASE Watch
    <2>1. events' \in Seq(Event) /\ Len(events') <= EventBuffer
      BY <1>2, SessionsAssumption DEF SessionTypeOK, Watch
    <2> QED BY <1>2, <2>1 DEF SessionTypeOK, Watch
  <1>3. ASSUME NEW p \in Peers, NEW skills \in SkillLists, AgentRegisters(p, skills)
        PROVE  SessionTypeOK'
    BY <1>3 DEF SessionTypeOK, AgentRegisters, SessionsOf
  <1>4. CASE UNCHANGED sessionVars
    BY <1>4 DEF SessionTypeOK, sessionVars
  <1> QED BY <1>1, <1>2, <1>3, <1>4 DEF SNext, RegistryStep, allVars

(* RemovePeer of a peer that is not registered changes nothing.            *)
LEMMA DropNothing ==
    ASSUME NEW T, NEW origins, TableOK(T, origins), NEW p, p \notin DOMAIN T.entries
    PROVE  Drop(T, {p}) = T
  <1>1. {p} \cap DOMAIN T.entries = {}
    OBVIOUS
  <1>2. Restrict(T.entries, DOMAIN T.entries \ {}) = T.entries
    BY DEF Restrict, TableOK, TableTypeOK
  <1>3. removeFromSkillIndex(T.skillIndex, SkillsOf(T, {})) = T.skillIndex
    BY DEF removeFromSkillIndex, SkillsOf, TableOK, TableTypeOK
  <1>4. T.count - Cardinality({}) = T.count
    BY FS_EmptySet DEF TableOK, TableTypeOK
  <1>5. T = [entries |-> T.entries, skillIndex |-> T.skillIndex, count |-> T.count]
    BY DEF TableOK, TableTypeOK
  <1> QED BY <1>1, <1>2, <1>3, <1>4, <1>5 DEF Drop

(* Every step of the sessions is a step of the registry alone, or leaves   *)
(* the registry as it is.                                                  *)
LEMMA SessionStepRefines ==
    ASSUME SessionTypeOK, IInv, [SNext]_allVars
    PROVE  [Next]_vars
  <1>1. ASSUME NEW p \in Peers, NEW c \in Connectedness, Change(p, c)
        PROVE  UNCHANGED vars
    BY <1>1 DEF Change
  <1>2. CASE Watch
    <2>1. PICK p \in Peers : p = Head(events).peer
      <3>1. Head(events) \in Event
        BY <1>2 DEF Watch, SessionTypeOK
      <3> QED BY <3>1 DEF Event
    <2>2. CASE local' = Drop(local, {p}) /\ p \in DOMAIN local.entries
      <3>1. RemovePeer(p)
        BY <1>2, <2>2 DEF Watch, RemovePeer
      <3> QED BY <3>1 DEF Next
    <2>3. CASE local' = Drop(local, {p}) /\ p \notin DOMAIN local.entries
      <3>1. local' = local
        BY <2>3, DropNothing DEF IInv, LocalInv
      <3> QED BY <1>2, <3>1 DEF Watch, vars
    <2>4. CASE local' = local
      BY <1>2, <2>4 DEF Watch, vars
    <2> QED BY <1>2, <2>1, <2>2, <2>3, <2>4 DEF Watch
  <1>3. ASSUME NEW p \in Peers, NEW skills \in SkillLists, AgentRegisters(p, skills)
        PROVE  Next
    BY <1>3 DEF AgentRegisters, Next
  <1>4. CASE RegistryStep
    BY <1>4 DEF RegistryStep, Next
  <1>5. CASE UNCHANGED allVars
    BY <1>5 DEF allVars
  <1> QED BY <1>1, <1>2, <1>3, <1>4, <1>5 DEF SNext

(* The registry together with the disconnect watcher behaves like the      *)
(* registry of Registry.tla: the watcher only ever removes a peer, in one  *)
(* step, or does nothing.  All that is proved of Spec holds of SSpec.      *)
THEOREM SessionsImplementRegistry == SSpec => Spec
  <1>1. SSpec => []SessionTypeOK
    BY InitSessionType, NextSessionType, PTL DEF SSpec
  <1>2. SInit => IInv /\ Init
    BY InitIInv DEF SInit
  <1>3. SessionTypeOK /\ IInv /\ [SNext]_allVars => IInv' /\ [Next]_vars
    BY SessionStepRefines, NextIInv
  <1> QED BY <1>1, <1>2, <1>3, PTL DEF SSpec, Spec

-----------------------------------------------------------------------------
(* Disconnections *)

Announced(q, p) ==
    \E i \in 1 .. Len(q) : q[i].peer = p /\ q[i].connectedness = NotConnected

(* The inductive invariant: the types, and what DisconnectNoticed says.    *)
SInv ==
    /\ IInv
    /\ SessionTypeOK
    /\ \A p \in Peers : Orphan(p) => Announced(events, p)

(* The inductive invariant implies the invariants the runs check.          *)
LEMMA SInvImplies == SInv => STypeOK /\ DisconnectNoticed
  <1> SUFFICES ASSUME SInv PROVE STypeOK /\ DisconnectNoticed
    OBVIOUS
  <1>1. STypeOK
    BY IInvImplies DEF SInv, SessionTypeOK, STypeOK, Event
  <1>2. DOMAIN events = 1 .. Len(events)
    BY DEF SInv, SessionTypeOK
  <1> QED BY <1>1, <1>2 DEF SInv, DisconnectNoticed, Announced

(* What the event bus and the watcher do to the queue: an announcement     *)
(* stays until it is at the head and is taken.                             *)
LEMMA AnnouncementsStay ==
    ASSUME NEW q \in Seq(Event), NEW p
    PROVE  /\ \A e \in Event : Announced(q, p) => Announced(Append(q, e), p)
           /\ \A e \in Event :
                e.peer = p /\ e.connectedness = NotConnected => Announced(Append(q, e), p)
           /\ q # <<>> /\ Announced(q, p) =>
                \/ Announced(Tail(q), p)
                \/ Head(q).peer = p /\ Head(q).connectedness = NotConnected
  <1>1. ASSUME NEW e \in Event, Announced(q, p)
        PROVE  Announced(Append(q, e), p)
    BY <1>1 DEF Announced
  <1>2. ASSUME NEW e \in Event, e.peer = p, e.connectedness = NotConnected
        PROVE  Announced(Append(q, e), p)
    BY <1>2 DEF Announced
  <1>3. ASSUME q # <<>>, Announced(q, p)
        PROVE  \/ Announced(Tail(q), p)
               \/ Head(q).peer = p /\ Head(q).connectedness = NotConnected
    <2>1. PICK i \in 1 .. Len(q) : q[i].peer = p /\ q[i].connectedness = NotConnected
      BY <1>3 DEF Announced
    <2>2. CASE i = 1
      BY <2>1, <2>2
    <2>3. CASE i # 1
      <3>1. i - 1 \in 1 .. Len(Tail(q)) /\ Tail(q)[i - 1] = q[i]
        BY <1>3, <2>1, <2>3
      <3> QED BY <2>1, <3>1 DEF Announced
    <2> QED BY <2>2, <2>3
  <1> QED BY <1>1, <1>2, <1>3

(* No step of the registry itself, other than a registration, adds an      *)
(* entry.                                                                  *)
LEMMA StepsOnlyRemove ==
    ASSUME IInv, RegistryStep
    PROVE  DOMAIN local'.entries \subseteq DOMAIN local.entries
  <1>1. ASSUME NEW p \in Peers, NEW ids \in SUBSET SkillIDs, UnregisterSkills(p, ids)
        PROVE  DOMAIN local'.entries \subseteq DOMAIN local.entries
    BY <1>1 DEF UnregisterSkills, Unregister, Drop, Restrict, IInv, LocalInv, TableOK, TableTypeOK
  <1>2. ASSUME NEW p \in Peers, HeartbeatRPC(p)
        PROVE  DOMAIN local'.entries \subseteq DOMAIN local.entries
    BY <1>2 DEF HeartbeatRPC, Heartbeat, IInv, LocalInv, TableOK, TableTypeOK
  <1>3. CASE CleanupLoop
    BY <1>3 DEF CleanupLoop, evictExpired, Drop, Restrict
  <1>4. CASE local' = local
    BY <1>4
  <1> QED BY <1>1, <1>2, <1>3, <1>4
          DEF RegistryStep, ReceiveFederated, CleanupReturn, Close, Tick

(* Every step keeps an announcement for every orphan.                      *)
LEMMA NextSInv == SInv /\ [SNext]_allVars => SInv'
  <1> SUFFICES ASSUME SInv, [SNext]_allVars PROVE SInv'
    OBVIOUS
  <1>i. IInv' /\ SessionTypeOK'
    BY SessionStepRefines, NextIInv, NextSessionType DEF SInv
  <1>t. /\ events \in Seq(Event)
        /\ session \in [Peers -> SessionsOf]
    BY DEF SInv, SessionTypeOK
  <1> SUFFICES ASSUME NEW p \in Peers, Orphan(p)'
               PROVE  Announced(events, p)'
    BY <1>i DEF SInv
  <1>o. p \in DOMAIN local'.entries /\ session'[p] = "ended"
    BY DEF Orphan
  <1>a. Orphan(p) => Announced(events, p)
    BY DEF SInv
  <1>1. ASSUME NEW q \in Peers, NEW c \in Connectedness, Change(q, c)
        PROVE  Announced(events', p)
    <2>1. PICK e \in Event : /\ e = [peer |-> q, connectedness |-> c]
                             /\ events' = Append(events, e)
      BY <1>1 DEF Change, Event
    <2>2. CASE session[p] = "ended"
      <3>1. Orphan(p)
        BY <1>1, <1>o, <2>2 DEF Change, vars, Orphan
      <3> QED BY <1>a, <1>t, <2>1, <3>1, AnnouncementsStay
    <2>3. CASE session[p] # "ended"
      <3>1. q = p /\ c = NotConnected
        BY <1>1, <1>t, <1>o, <2>3 DEF Change
      <3> QED BY <1>t, <2>1, <3>1, AnnouncementsStay
    <2> QED BY <2>2, <2>3
  <1>2. CASE Watch
    <2>1. /\ events # <<>> /\ events' = Tail(events)
          /\ session' = session
          /\ Head(events).connectedness = NotConnected =>
                local' = Drop(local, {Head(events).peer})
          /\ Head(events).connectedness # NotConnected => local' = local
      BY <1>2 DEF Watch
    <2>2. p \in DOMAIN local.entries
      BY <1>o, <2>1 DEF Drop, Restrict
    <2>3. ~(Head(events).peer = p /\ Head(events).connectedness = NotConnected)
      BY <1>o, <2>1 DEF Drop, Restrict
    <2>4. Announced(events, p)
      BY <1>a, <1>o, <2>1, <2>2 DEF Orphan
    <2> QED BY <1>t, <2>1, <2>3, <2>4, AnnouncementsStay
  <1>3. ASSUME NEW q \in Peers, NEW skills \in SkillLists, AgentRegisters(q, skills)
        PROVE  Announced(events', p)
    <2>1. session' = [session EXCEPT ![q] = IF Connected(q) THEN "current" ELSE "none"]
      BY <1>3 DEF AgentRegisters
    <2>2. p # q /\ session[p] = "ended"
      BY <1>t, <1>o, <2>1
    <2>3. p \in DOMAIN local.entries /\ events' = events
      BY <1>3, <1>o, <2>2 DEF AgentRegisters, RegisterSkills, Register, Store, SetEntry
    <2> QED BY <1>a, <2>2, <2>3 DEF Orphan
  <1>4. CASE RegistryStep
    <2>1. events' = events /\ session' = session
      BY <1>4 DEF RegistryStep, sessionVars
    <2>2. p \in DOMAIN local.entries
      BY <1>4, <1>o, StepsOnlyRemove DEF SInv
    <2> QED BY <1>a, <1>o, <2>1, <2>2 DEF Orphan
  <1>5. CASE UNCHANGED allVars
    BY <1>5, <1>a, <1>o DEF allVars, vars, sessionVars, Orphan
  <1>6. Announced(events', p)
    BY <1>1, <1>2, <1>3, <1>4, <1>5 DEF SNext
  <1> QED BY <1>6

(* The inductive invariant of the sessions.                                *)
THEOREM SessionsInvariance == SSpec => []SInv
  <1>1. SInit => SInv
    BY InitIInv, InitSessionType DEF SInit, SInv, Orphan
  <1> QED BY <1>1, NextSInv, PTL DEF SSpec

(* Every reachable state of the sessions is well typed: every queued event *)
(* is about a peer, and the queue does not outgrow its buffer.             *)
THEOREM SessionsTypeCorrect == SSpec => []STypeOK
  BY SessionsInvariance, SInvImplies, PTL

(* The watcher overlooks no disconnection, whatever the queue holds and    *)
(* however agents come and go: a registration that has outlived its        *)
(* session has its removal waiting in the queue.                           *)
THEOREM DisconnectAlwaysNoticed == SSpec => []DisconnectNoticed
  BY SessionsInvariance, SInvImplies, PTL

-----------------------------------------------------------------------------
(* The registry below the API *)

(* Every step of the API is a step of the registry, or leaves it alone.    *)
LEMMA APIStepRefines == [APINext]_apiVars => [Next]_vars
  <1>1. ObservedStep => Next
    BY DEF ObservedStep, Next
  <1>2. APINext => ObservedStep \/ UNCHANGED vars
    BY DEF APINext, StartWalk, ListAgentsBySkill, ListAgentsLocal, ListAgentsFederated, Respond
  <1> QED BY <1>1, <1>2 DEF apiVars

(* Serving the directory does not disturb the registry: with any number of *)
(* requests, each cut into its reads, the registry is still that of        *)
(* Registry.tla.                                                           *)
THEOREM DirectoryImplementsRegistry == APISpec => Spec
  <1>1. APIInit => Init
    BY DEF APIInit
  <1> QED BY <1>1, APIStepRefines, PTL DEF APISpec, Spec

SkillsFinite(T) == \A p \in DOMAIN T.entries : IsFiniteSet(T.entries[p].skills)

(* Stored registrations list finitely many skills.                         *)
LEMMA InitFinite == Init => SkillsFinite(local) /\ SkillsFinite(fed)
  BY DEF Init, EmptyTable, EmptyMap, SkillsFinite

(* The updates keep them finite.                                           *)
LEMMA StoreFinite ==
    ASSUME NEW T, NEW p, NEW reg, SkillsFinite(T), IsFiniteSet(reg.skills)
    PROVE  SkillsFinite(Store(T, p, reg))
  BY StoreEntries DEF SkillsFinite

(* Nothing is added when registrations are dropped.                        *)
LEMMA DropFinite ==
    ASSUME NEW T, NEW P, SkillsFinite(T)
    PROVE  SkillsFinite(Drop(T, P))
  BY DropEntries DEF SkillsFinite

(* Every step of the registry's handlers keeps the skill lists finite.     *)
LEMMA StepFinite ==
    ASSUME IInv, SkillsFinite(local), SkillsFinite(fed), ObservedStep
    PROVE  SkillsFinite(local') /\ SkillsFinite(fed')
  <1> DEFINE Good == SkillsFinite(local') /\ SkillsFinite(fed')
  <1> SUFFICES Good
    OBVIOUS
  <1>0. now \in Int /\ TableOK(local, {LocalOrigin})
    BY InputsAssumption DEF IInv, LocalInv
  <1>1. ASSUME NEW p \in Peers, NEW skills \in SkillLists, RegisterSkills(p, skills)
        PROVE  Good
    <2>1. IsFiniteSet(NewRegistration(skills, now).skills)
      BY DirectoryAssumption DEF NewRegistration
    <2> QED BY <1>1, <2>1, StoreFinite DEF RegisterSkills, Register
  <1>2. ASSUME NEW p \in Peers, NEW ids, UnregisterSkills(p, ids)
        PROVE  Good
    <2>1. p \in DOMAIN local.entries /\ local' = Unregister(local, p, ids) /\ fed' = fed
      BY <1>2 DEF UnregisterSkills
    <2>2. ASSUME NEW q \in DOMAIN local'.entries
          PROVE  IsFiniteSet(local'.entries[q].skills)
      <3>1. q \in DOMAIN local.entries /\ local'.entries[q].skills \subseteq local.entries[q].skills
        BY <1>0, <2>1, UnregisterEntries
      <3> QED BY <3>1, FS_Subset DEF SkillsFinite
    <2> QED BY <2>1, <2>2 DEF SkillsFinite
  <1>3. ASSUME NEW p \in Peers, HeartbeatRPC(p)
        PROVE  Good
    <2>1. p \in DOMAIN local.entries /\ local' = Heartbeat(local, p, now) /\ fed' = fed
      BY <1>3 DEF HeartbeatRPC
    <2>2. /\ DOMAIN local'.entries = DOMAIN local.entries
          /\ \A q \in DOMAIN local.entries \ {p} : local'.entries[q] = local.entries[q]
          /\ local'.entries[p].skills = local.entries[p].skills
      BY <1>0, <2>1, HeartbeatEntries
    <2> QED BY <2>1, <2>2 DEF SkillsFinite
  <1>4. ASSUME NEW p \in Peers, RemovePeer(p)
        PROVE  Good
    BY <1>4, DropFinite DEF RemovePeer
  <1>5. ASSUME NEW p \in Peers, NEW reg \in FedUpdates, ReceiveFederated(p, reg)
        PROVE  Good
    <2>1. IsFiniteSet(reg.skills)
      BY DirectoryAssumption
    <2> QED BY <1>5, <2>1, StoreFinite DEF ReceiveFederated, RegisterFederated
  <1>6. CASE CleanupLoop
    BY <1>6, DropFinite DEF CleanupLoop, evictExpired
  <1>7. CASE Tick
    BY <1>7 DEF Tick
  <1> HIDE DEF Good
  <1> QED BY <1>1, <1>2, <1>3, <1>4, <1>5, <1>6, <1>7 DEF ObservedStep

-----------------------------------------------------------------------------
(* The views *)

LiveWith(T, s) == {p \in LiveRegistrations(T) : s \in IDs(T.entries[p].skills)}

(* All skills that the registrations of a table list are finitely many.    *)
LEMMA AllSkillsFinite ==
    ASSUME NEW T, NEW origins, TableOK(T, origins), SkillsFinite(T)
    PROVE  /\ IsFiniteSet(DOMAIN T.entries)
           /\ IsFiniteSet(UNION {T.entries[p].skills : p \in DOMAIN T.entries})
  <1> DEFINE D == DOMAIN T.entries
             f == [p \in D |-> T.entries[p].skills]
             U == {T.entries[p].skills : p \in D}
  <1>1. IsFiniteSet(D)
    BY FS_Subset, SetsAssumption DEF TableOK, TableTypeOK
  <1>2. f \in Surjection(D, U)
    BY DEF Surjection
  <1>3. IsFiniteSet(U)
    BY <1>1, <1>2, FS_Surjection
  <1>4. \A x \in U : IsFiniteSet(x)
    BY DEF SkillsFinite
  <1> QED BY <1>1, <1>3, <1>4, FS_UNION

(* An answer holds all agents that a scan finds, or it has reached the     *)
(* limit because there are more.                                           *)
LEMMA FullAnswer ==
    ASSUME IInv, NEW s \in SkillIDs,
           NEW a \in DiscoverBySkill(local, fed, s, NoFilter, MaxDiscoverLimit, TRUE, now)
    PROVE  LET L == Scan(local, s, NoFilter)
               F == Scan(fed, s, NoFilter)
           IN  /\ a.local \subseteq L /\ a.fed \subseteq F \ L
               /\ \/ a.local \cup a.fed = L \cup F
                  \/ /\ Cardinality(a.local \cup a.fed) = MaxDiscoverLimit
                     /\ Cardinality(L \cup F) > MaxDiscoverLimit
  <1> DEFINE L == Scan(local, s, NoFilter)
             F == Scan(fed, s, NoFilter)
             n == MaxDiscoverLimit
  <1>0. n \in Nat \ {0} /\ n \in 0 .. MaxDiscoverLimit + 1 /\ ClampLimit(n) = n
    BY LimitsAssumption DEF ClampLimit
  <1>1. NoFilter \in Filters /\ TRUE \in BOOLEAN
    BY DEF Filters
  <1>2. /\ a.local \subseteq L /\ a.fed \subseteq F \ L /\ IsFiniteSet(L) /\ IsFiniteSet(F)
        /\ Cardinality(a.local) + Cardinality(a.fed) <= n
        /\ Cardinality(a.local) + Cardinality(a.fed) < n => a.local = L /\ a.fed = F \ L
    <2>1. AnswerOK(a, L, IF TRUE THEN F ELSE {}, ClampLimit(n))
      BY <1>0, <1>1, AnswerIs, Zenon
    <2>2. (IF TRUE THEN F ELSE {}) = F
      OBVIOUS
    <2>3. AnswerOK(a, L, F, n)
      BY <1>0, <2>1, <2>2, Zenon
    <2> QED BY <2>3, Zenon DEF AnswerOK
  <1> HIDE DEF L, F
  <1>3. IsFiniteSet(a.local) /\ IsFiniteSet(a.fed) /\ a.local \cap a.fed = {}
    BY <1>2, FS_Subset
  <1>4. /\ Cardinality(a.local \cup a.fed) = Cardinality(a.local) + Cardinality(a.fed)
        /\ Cardinality(a.local) \in Nat /\ Cardinality(a.fed) \in Nat
    <2>1. Cardinality(a.local \cup a.fed) =
                Cardinality(a.local) + Cardinality(a.fed) - Cardinality(a.local \cap a.fed)
      BY <1>3, FS_Union
    <2>2. Cardinality(a.local \cap a.fed) = 0
      BY <1>3, FS_EmptySet
    <2>3. Cardinality(a.local) \in Nat /\ Cardinality(a.fed) \in Nat
      BY <1>3, FS_CardinalityType
    <2> QED BY <2>1, <2>2, <2>3
  <1>5. IsFiniteSet(L \cup F) /\ a.local \cup a.fed \in SUBSET (L \cup F)
    BY <1>2, FS_Union
  <1>6. /\ Cardinality(a.local \cup a.fed) <= Cardinality(L \cup F)
        /\ Cardinality(L \cup F) \in Nat
        /\ Cardinality(a.local \cup a.fed) = Cardinality(L \cup F) => a.local \cup a.fed = L \cup F
    BY <1>5, FS_Subset, FS_CardinalityType
  <1>7. CASE Cardinality(a.local) + Cardinality(a.fed) < n
    BY <1>2, <1>7 DEF L, F
  <1>8. CASE Cardinality(a.local) + Cardinality(a.fed) = n
    <2>1. Cardinality(a.local \cup a.fed) = n
      BY <1>4, <1>8
    <2>2. a.local \cup a.fed = L \cup F \/ Cardinality(L \cup F) > n
      BY <1>0, <1>6, <2>1
    <2> QED BY <1>2, <2>1, <2>2 DEF L, F
  <1> QED BY <1>0, <1>2, <1>4, <1>7, <1>8

(* An empty answer means that a scan finds nobody, whatever the limit.     *)
LEMMA EmptyAnswer ==
    ASSUME IInv, NEW s \in SkillIDs, NEW limit \in 0 .. MaxDiscoverLimit,
           NEW a \in DiscoverBySkill(local, fed, s, NoFilter, limit, TRUE, now),
           a.local \cup a.fed = {}
    PROVE  Scan(local, s, NoFilter) = {} /\ Scan(fed, s, NoFilter) = {}
  <1> DEFINE L == Scan(local, s, NoFilter)
             F == Scan(fed, s, NoFilter)
  <1>0. limit \in 0 .. MaxDiscoverLimit + 1 /\ ClampLimit(limit) \in Nat \ {0}
    BY LimitsAssumption DEF ClampLimit
  <1>1. NoFilter \in Filters /\ TRUE \in BOOLEAN
    BY DEF Filters
  <1>3. Cardinality(a.local) + Cardinality(a.fed) < ClampLimit(limit) =>
            a.local = L /\ a.fed = F \ L
    <2>1. AnswerOK(a, L, IF TRUE THEN F ELSE {}, ClampLimit(limit))
      BY <1>0, <1>1, AnswerIs, Zenon
    <2>2. (IF TRUE THEN F ELSE {}) = F
      OBVIOUS
    <2>3. AnswerOK(a, L, F, ClampLimit(limit))
      BY <2>1, <2>2, Zenon
    <2> QED BY <2>3, Zenon DEF AnswerOK
  <1>2. a.local = {} /\ a.fed = {}
    OBVIOUS
  <1>4. Cardinality(a.local) + Cardinality(a.fed) = 0
    BY <1>2, FS_EmptySet
  <1> HIDE DEF L, F
  <1>5. L \cup F = {}
    BY <1>0, <1>2, <1>3, <1>4
  <1> QED BY <1>5 DEF L, F

(* What is live is found by a scan, and what a scan finds beyond it is in  *)
(* its last instant.                                                       *)
LEMMA LiveAndScan ==
    ASSUME IInv, NEW T, NEW origins, TableOK(T, origins), NEW s
    PROVE  /\ LiveWith(T, s) \subseteq Scan(T, s, NoFilter)
           /\ \A p \in Scan(T, s, NoFilter) \ LiveWith(T, s) :
                p \in DOMAIN T.entries /\ T.entries[p].expiresAt = now
           /\ LiveRegistrations(T) \in SUBSET DOMAIN T.entries
           /\ DOMAIN T.entries \subseteq Peers
  <1>1. \A p \in DOMAIN T.entries : now \in Int /\ T.entries[p].expiresAt \in Int
    BY InputsAssumption DEF IInv, TableOK, TableTypeOK, RegistrationFrom
  <1>2. \A p \in DOMAIN T.entries :
            hasSkill(T.entries[p], s, NoFilter) <=> s \in IDs(T.entries[p].skills)
    BY DEF hasSkill, matchTags, IDs
  <1>3. \A p \in DOMAIN T.entries :
            /\ now < T.entries[p].expiresAt => now <= T.entries[p].expiresAt
            /\ now <= T.entries[p].expiresAt =>
                    now < T.entries[p].expiresAt \/ T.entries[p].expiresAt = now
    BY <1>1
  <1> QED BY <1>2, <1>3 DEF LiveWith, LiveRegistrations, Scan, TableOK, TableTypeOK

(* The skills that MCP lists are skills of the index, which is finite.     *)
LEMMA IndexSize ==
    ASSUME NEW T, NEW origins, TableOK(T, origins), SkillsFinite(T),
           NEW S \in SUBSET SkillIDs, \A s \in S : LiveWith(T, s) # {}
    PROVE  Cardinality(DOMAIN T.skillIndex) >= Cardinality(S)
  <1> DEFINE U == UNION {T.entries[p].skills : p \in DOMAIN T.entries}
             f == [sk \in U |-> sk.id]
             I == {sk.id : sk \in U}
             X == DOMAIN T.skillIndex
  <1>1. IsFiniteSet(U)
    BY AllSkillsFinite
  <1>2. f \in Surjection(U, I)
    BY DEF Surjection
  <1>3. IsFiniteSet(I)
    BY <1>1, <1>2, FS_Surjection
  <1>4. X \in SUBSET I
    <2> SUFFICES ASSUME NEW s \in X PROVE s \in I
      OBVIOUS
    <2>1. PICK p \in Peers : p \in T.skillIndex[s]
      BY DEF TableOK, TableTypeOK, IndexExact
    <2>2. p \in DOMAIN T.entries /\ s \in IDs(T.entries[p].skills)
      BY <2>1 DEF TableOK, TableTypeOK, IndexExact
    <2> QED BY <2>2 DEF IDs
  <1>5. S \in SUBSET X
    <2> SUFFICES ASSUME NEW s \in S PROVE s \in X
      OBVIOUS
    <2>1. PICK p : p \in LiveWith(T, s)
      OBVIOUS
    <2>2. p \in Peers /\ p \in DOMAIN T.entries /\ s \in IDs(T.entries[p].skills)
      BY <2>1 DEF LiveWith, LiveRegistrations, TableOK, TableTypeOK
    <2> QED BY <2>2 DEF TableOK, IndexExact
  <1> HIDE DEF I, X
  <1>6. IsFiniteSet(X)
    BY <1>3, <1>4, FS_Subset
  <1>7. Cardinality(S) <= Cardinality(X) /\ Cardinality(X) \in Nat /\ Cardinality(S) \in Nat
    BY <1>5, <1>6, FS_Subset, FS_CardinalityType
  <1> QED BY <1>7 DEF X

(* The invariants of the registry make its views agree.                    *)
LEMMA ViewsFromInv ==
    ASSUME IInv, SkillsFinite(local), SkillsFinite(fed)
    PROVE  ViewsAgree
  <1> DEFINE listed == AllRegistrations \cup FederatedRegistrations
             offering(s) == {p \in Peers : \E T \in {local, fed} :
                                p \in LiveRegistrations(T) /\ s \in IDs(T.entries[p].skills)}
             lastInstant(p) == \E T \in {local, fed} :
                                p \in DOMAIN T.entries /\ T.entries[p].expiresAt = now
  <1>0. TableOK(local, {LocalOrigin}) /\ TableOK(fed, Relays)
    BY DEF IInv, LocalInv, FedInv
  <1>1. \A p \in Peers : GetRegistration(p) # "not found" <=> p \in listed
    BY DEF GetRegistration
  <1>2. ASSUME NEW s
        PROVE  offering(s) = LiveWith(local, s) \cup LiveWith(fed, s)
    <2>1. LiveRegistrations(local) \subseteq Peers /\ LiveRegistrations(fed) \subseteq Peers
      BY <1>0, LiveAndScan
    <2> QED BY <2>1 DEF LiveWith
  <1>3. ASSUME NEW s \in SkillIDs, McpSkillCount(s) > 0
        PROVE  LiveWith(local, s) # {}
    <2> SUFFICES ASSUME LiveWith(local, s) = {} PROVE McpSkillCount(s) = 0
      BY <1>3
    <2>1. {e \in AllRegistrations \X SkillInfo :
                e[2] \in local.entries[e[1]].skills /\ e[2].id = s} = {}
      BY DEF AllRegistrations, LiveWith, IDs
    <2> QED BY <2>1, FS_EmptySet DEF McpSkillCount
  <1> HIDE DEF offering
  <1>4. ASSUME NEW s \in SkillIDs,
               NEW a \in DiscoverBySkill(local, fed, s, NoFilter, MaxDiscoverLimit, TRUE, now)
        PROVE  /\ \/ offering(s) \subseteq a.local \cup a.fed
                  \/ Cardinality(a.local \cup a.fed) = MaxDiscoverLimit
               /\ \A p \in (a.local \cup a.fed) \ offering(s) : lastInstant(p)
    <2>1. /\ a.local \subseteq Scan(local, s, NoFilter) /\ a.fed \subseteq Scan(fed, s, NoFilter)
          /\ \/ a.local \cup a.fed = Scan(local, s, NoFilter) \cup Scan(fed, s, NoFilter)
             \/ Cardinality(a.local \cup a.fed) = MaxDiscoverLimit
      BY FullAnswer
    <2>2. /\ LiveWith(local, s) \subseteq Scan(local, s, NoFilter)
          /\ \A p \in Scan(local, s, NoFilter) \ LiveWith(local, s) : lastInstant(p)
      BY <1>0, LiveAndScan
    <2>3. /\ LiveWith(fed, s) \subseteq Scan(fed, s, NoFilter)
          /\ \A p \in Scan(fed, s, NoFilter) \ LiveWith(fed, s) : lastInstant(p)
      BY <1>0, LiveAndScan
    <2> QED BY <1>2, <2>1, <2>2, <2>3
  <1>5. ASSUME NEW s \in SkillIDs, NEW limit \in 0 .. McpLimit + 1,
               NEW a \in handleDiscoverAgents(s, limit), a.local \cup a.fed = {}
        PROVE  offering(s) = {}
    <2>1. PICK k \in 0 .. MaxDiscoverLimit :
                a \in DiscoverBySkill(local, fed, s, NoFilter, k, TRUE, now)
      <3> DEFINE k == IF limit > McpLimit THEN McpLimit ELSE limit
      <3>1. k \in 0 .. MaxDiscoverLimit
        BY DirectoryAssumption, LimitsAssumption
      <3> QED BY <3>1 DEF handleDiscoverAgents
    <2>2. Scan(local, s, NoFilter) = {} /\ Scan(fed, s, NoFilter) = {}
      BY <1>5, <2>1, EmptyAnswer
    <2> QED BY <1>0, <1>2, <2>2, LiveAndScan
  <1>6. /\ Stats.local_count >= Cardinality(AllRegistrations)
        /\ Stats.federated_count >= Cardinality(FederatedRegistrations)
    <2>1. ASSUME NEW T, NEW origins, TableOK(T, origins)
          PROVE  T.count >= Cardinality(LiveRegistrations(T))
      <3>1. /\ IsFiniteSet(DOMAIN T.entries) /\ LiveRegistrations(T) \in SUBSET DOMAIN T.entries
            /\ T.count = Cardinality(DOMAIN T.entries)
        BY <2>1, FS_Subset, SetsAssumption
           DEF LiveRegistrations, TableOK, TableTypeOK, CountExact
      <3>2. /\ Cardinality(LiveRegistrations(T)) <= Cardinality(DOMAIN T.entries)
            /\ Cardinality(LiveRegistrations(T)) \in Nat /\ Cardinality(DOMAIN T.entries) \in Nat
        BY <3>1, FS_Subset, FS_CardinalityType
      <3> QED BY <3>1, <3>2
    <2> QED BY <1>0, <2>1 DEF Stats, AllRegistrations, FederatedRegistrations
  <1>7. Stats.skill_count >= Cardinality({s \in SkillIDs : McpSkillCount(s) > 0})
    <2> DEFINE S == {s \in SkillIDs : McpSkillCount(s) > 0}
    <2>1. S \in SUBSET SkillIDs /\ \A s \in S : LiveWith(local, s) # {}
      BY <1>3
    <2> HIDE DEF S
    <2>2. Cardinality(DOMAIN local.skillIndex) >= Cardinality(S)
      BY <1>0, <2>1, IndexSize
    <2> QED BY <2>2 DEF Stats, S
  <1> QED BY <1>1, <1>3, <1>4, <1>5, <1>6, <1>7 DEF ViewsAgree, offering

-----------------------------------------------------------------------------
(* The sorted list and its pages *)

Entries(A, B) == (A \X {"local"}) \cup (B \X {"federated"})

EntryOrder(S) == {x \in S \X S : NotAfter(x[1], x[2])}

PlaceOf(S, b) == Cardinality({a \in S : NotAfter(a, b)})

Below(A, p) == {q \in A : q < p}

(* A pair is made of its two parts.                                        *)
LEMMA PairParts ==
    ASSUME NEW S, NEW T, NEW a \in S \X T
    PROVE  a[1] \in S /\ a[2] \in T /\ a = <<a[1], a[2]>>
  OBVIOUS

(* Entries are totally ordered.                                            *)
LEMMA EntriesOrdered ==
    ASSUME NEW A \in SUBSET Int, NEW B \in SUBSET Int
    PROVE  LET S == Entries(A, B)
           IN  /\ \A a \in S : a[1] \in Int /\ a[2] \in {"local", "federated"} /\ a = <<a[1], a[2]>>
               /\ TotalOrder(EntryOrder(S), S)
               /\ \A b \in S : Down(EntryOrder(S), S, b) = {a \in S : NotAfter(a, b)}
  <1> DEFINE S == Entries(A, B)
  <1>1. ASSUME NEW a \in S
        PROVE  a[1] \in Int /\ a[2] \in {"local", "federated"} /\ a = <<a[1], a[2]>>
    <2>1. CASE a \in A \X {"local"}
      BY <2>1, PairParts
    <2>2. CASE a \in B \X {"federated"}
      BY <2>2, PairParts
    <2> QED BY <2>1, <2>2 DEF Entries
  <1> HIDE DEF S
  <1>2. ASSUME NEW a \in S, NEW b \in S
        PROVE  <<a, b>> \in EntryOrder(S) <=> NotAfter(a, b)
    BY DEF EntryOrder
  <1>3. \A a \in S : NotAfter(a, a)
    BY DEF NotAfter
  <1>4. \A a, b \in S : NotAfter(a, b) \/ NotAfter(b, a)
    BY <1>1 DEF NotAfter
  <1>5. ASSUME NEW a \in S, NEW b \in S, NotAfter(a, b), NotAfter(b, a) PROVE a = b
    <2>1. a[1] = b[1] /\ a[2] = b[2]
      BY <1>1, <1>5 DEF NotAfter
    <2> QED BY <1>1, <2>1
  <1>6. \A a, b, c \in S : NotAfter(a, b) /\ NotAfter(b, c) => NotAfter(a, c)
    BY <1>1 DEF NotAfter
  <1>7. TotalOrder(EntryOrder(S), S)
    BY <1>2, <1>3, <1>4, <1>5, <1>6 DEF TotalOrder
  <1>8. \A b \in S : Down(EntryOrder(S), S, b) = {a \in S : NotAfter(a, b)}
    BY <1>2 DEF Down
  <1> QED BY <1>1, <1>7, <1>8 DEF S

(* The number of the entries below p.                                      *)
LEMMA CountBelow ==
    ASSUME NEW A \in SUBSET Int, NEW B \in SUBSET Int, IsFiniteSet(A), IsFiniteSet(B)
    PROVE  /\ IsFiniteSet(Entries(A, B))
           /\ Cardinality(Entries(A, B)) = Cardinality(A) + Cardinality(B)
           /\ Cardinality(A) \in Nat /\ Cardinality(B) \in Nat
  <1> DEFINE X == A \X {"local"}
             Y == B \X {"federated"}
  <1>0. \A x : IsFiniteSet({x}) /\ Cardinality({x}) = 1
    BY FS_Singleton
  <1>1. IsFiniteSet(X) /\ Cardinality(X) = Cardinality(A) * Cardinality({"local"})
    BY <1>0, FS_Product, Zenon
  <1>2. IsFiniteSet(Y) /\ Cardinality(Y) = Cardinality(B) * Cardinality({"federated"})
    BY <1>0, FS_Product, Zenon
  <1>3. X \cap Y = {}
    OBVIOUS
  <1>4. Cardinality(A) \in Nat /\ Cardinality(B) \in Nat
    BY FS_CardinalityType
  <1> HIDE DEF X, Y
  <1>5. /\ IsFiniteSet(X \cup Y)
        /\ Cardinality(X \cup Y) = Cardinality(X) + Cardinality(Y) - 0
    BY <1>1, <1>2, <1>3, FS_Union, FS_EmptySet
  <1>6. Cardinality(X \cup Y) = Cardinality(A) + Cardinality(B)
    <2>1. Cardinality({"local"}) = 1 /\ Cardinality({"federated"}) = 1
      BY <1>0
    <2>2. \A k \in Nat : k * 1 = k
      OBVIOUS
    <2>3. Cardinality(X) = Cardinality(A) /\ Cardinality(Y) = Cardinality(B)
      BY <1>1, <1>2, <1>4, <2>1, <2>2
    <2> QED BY <1>4, <1>5, <2>3
  <1> QED BY <1>4, <1>5, <1>6 DEF Entries, X, Y

(* The list holds the entries, and at the place after all entries of       *)
(* lower peers there is an entry of p, if p has any.                       *)
LEMMA SortedPlaces ==
    ASSUME NEW A \in SUBSET Int, NEW B \in SUBSET Int, IsFiniteSet(A), IsFiniteSet(B)
    PROVE  /\ Sorted(A, B) \in Seq(Entries(A, B))
           /\ Len(Sorted(A, B)) = Cardinality(A) + Cardinality(B)
           /\ \A p \in A \cup B :
                LET k == Cardinality(Below(A, p)) + Cardinality(Below(B, p)) + 1
                IN  k \in 1 .. Len(Sorted(A, B)) /\ Sorted(A, B)[k][1] = p
  <1> DEFINE S == Entries(A, B)
             R == EntryOrder(S)
             n == Cardinality(S)
             list == Sorted(A, B)
             rank == Rank(R, S)
  <1>1. /\ \A a \in S : a[1] \in Int /\ a[2] \in {"local", "federated"} /\ a = <<a[1], a[2]>>
        /\ TotalOrder(R, S)
        /\ \A b \in S : Down(R, S, b) = {a \in S : NotAfter(a, b)}
    BY EntriesOrdered
  <1>2. IsFiniteSet(S) /\ n = Cardinality(A) + Cardinality(B) /\ n \in Nat
    BY CountBelow
  <1>3. list = [k \in 1 .. n |-> CHOOSE b \in S : PlaceOf(S, b) = k]
    BY DEF Sorted, InOrder, Entries, PlaceOf
  <1>4. rank \in Bijection(S, 1 .. n)
    <2> HIDE DEF S, R
    <2> QED BY <1>1, <1>2, RankIsBijection
  <1>5. ASSUME NEW b \in S
        PROVE  rank[b] = PlaceOf(S, b)
    BY <1>1 DEF Rank, PlaceOf
  <1>s. \A p : {b \in S : b[1] < p} = Entries(Below(A, p), Below(B, p))
    BY DEF Entries, Below
  <1>l. \A p \in A : <<p, "local">> \in S
    BY DEF Entries
  <1>f. \A p \in B : <<p, "federated">> \in S
    BY DEF Entries
  <1>a. \A b \in S : b[2] = "local" => b[1] \in A
    BY DEF Entries
  <1> HIDE DEF S, R, n, list, rank
  <1>6. /\ rank \in [S -> 1 .. n] /\ \A k \in 1 .. n : \E b \in S : rank[b] = k
        /\ \A a, b \in S : rank[a] = rank[b] => a = b
    BY <1>4 DEF Bijection, Injection, Surjection, IsInjective
  <1>7. ASSUME NEW k \in 1 .. n
        PROVE  list[k] \in S /\ rank[list[k]] = k
    <2>1. \E b \in S : PlaceOf(S, b) = k
      BY <1>5, <1>6
    <2>2. list[k] = CHOOSE b \in S : PlaceOf(S, b) = k
      BY <1>3
    <2>3. list[k] \in S /\ PlaceOf(S, list[k]) = k
      BY <2>1, <2>2
    <2> QED BY <1>5, <2>3
  <1>8. list \in Seq(S) /\ Len(list) = n
    <2>1. DOMAIN list = 1 .. n /\ list = [k \in 1 .. n |-> list[k]]
      BY <1>3
    <2>2. list \in [1 .. n -> S]
      BY <1>7, <2>1
    <2> QED BY <1>2, <2>2
  <1>9. ASSUME NEW p \in A \cup B
        PROVE  LET k == Cardinality(Below(A, p)) + Cardinality(Below(B, p)) + 1
               IN  k \in 1 .. Len(list) /\ list[k][1] = p
    <2> DEFINE e == IF p \in A THEN <<p, "local">> ELSE <<p, "federated">>
               D == {b \in S : b[1] < p}
               k == Cardinality(Below(A, p)) + Cardinality(Below(B, p)) + 1
    <2>0. p \in Int
      OBVIOUS
    <2>1. e \in S /\ e[1] = p /\ e[2] = IF p \in A THEN "local" ELSE "federated"
      BY <1>l, <1>f
    <2> HIDE DEF e
    <2>2. {a \in S : NotAfter(a, e)} = D \cup {e}
      <3>1. ASSUME NEW a \in S, NotAfter(a, e) PROVE a \in D \cup {e}
        <4>1. CASE a[1] < e[1]
          BY <2>1, <4>1
        <4>2. CASE a[1] = e[1] /\ (a[2] = "local" \/ a[2] = e[2])
          <5>1. a[2] = e[2]
            BY <1>a, <2>1, <4>2
          <5> QED BY <1>1, <2>1, <4>2, <5>1
        <4> QED BY <3>1, <4>1, <4>2 DEF NotAfter
      <3>2. ASSUME NEW a \in D \cup {e} PROVE a \in S /\ NotAfter(a, e)
        BY <2>1 DEF NotAfter
      <3> QED BY <3>1, <3>2
    <2>3. D = Entries(Below(A, p), Below(B, p))
      BY <1>s
    <2>4. IsFiniteSet(Below(A, p)) /\ IsFiniteSet(Below(B, p))
      <3>1. Below(A, p) \in SUBSET A /\ Below(B, p) \in SUBSET B
        BY DEF Below
      <3> QED BY <3>1, FS_Subset
    <2>5. Below(A, p) \in SUBSET Int /\ Below(B, p) \in SUBSET Int
      BY DEF Below
    <2>6. /\ IsFiniteSet(D)
          /\ Cardinality(D) = Cardinality(Below(A, p)) + Cardinality(Below(B, p))
      BY <2>3, <2>4, <2>5, CountBelow
    <2>7. e \notin D
      BY <2>0, <2>1
    <2> HIDE DEF D
    <2>8. Cardinality(D \cup {e}) = Cardinality(D) + 1
      BY <2>6, <2>7, FS_AddElement
    <2>9. rank[e] = k
      BY <1>5, <2>1, <2>2, <2>6, <2>8 DEF PlaceOf
    <2>10. k \in 1 .. n
      BY <1>6, <2>1, <2>9
    <2> HIDE DEF k
    <2>11. list[k] = e
      BY <1>6, <1>7, <2>1, <2>9, <2>10
    <2> QED BY <1>8, <2>1, <2>10, <2>11 DEF k
  <1> QED BY <1>2, <1>8, <1>9 DEF list, S

(* A page: a piece of the list from the offset on, empty only at its end.  *)
LEMMA PageOfList ==
    ASSUME NEW X, NEW list \in Seq(X), NEW offset \in Nat, NEW limit \in Nat \ {0}
    PROVE  LET page == Page(list, offset, limit)
           IN  /\ page \in Seq(X) /\ Len(page) \in Nat
               /\ page = <<>> => offset >= Len(list)
               /\ offset < Len(list) => offset + Len(page) <= Len(list)
               /\ offset >= Len(list) => Len(page) = 0
               /\ \A k \in offset + 1 .. offset + Len(page) :
                    \E i \in DOMAIN page : page[i] = list[k]
  <1> DEFINE page == Page(list, offset, limit)
             end == IF offset + limit > Len(list) THEN Len(list) ELSE offset + limit
  <1>0. Len(list) \in Nat /\ \A k \in 1 .. Len(list) : list[k] \in X
    OBVIOUS
  <1>1. CASE offset >= Len(list)
    <2>1. page = <<>>
      BY <1>1 DEF Page
    <2>2. page \in Seq(X) /\ Len(page) = 0
      BY <2>1
    <2>3. offset + 1 .. offset + 0 = {}
      OBVIOUS
    <2> QED BY <1>0, <1>1, <2>1, <2>2, <2>3
  <1>2. CASE offset < Len(list)
    <2>1. page = SubSeq(list, offset + 1, end)
      BY <1>0, <1>2 DEF Page
    <2>2. end \in Nat /\ end >= offset + 1 /\ end <= Len(list)
      BY <1>0, <1>2
    <2> HIDE DEF end
    <2>3. \A k \in offset + 1 .. end : list[k] \in X
      BY <1>0, <2>2
    <2>4. /\ page \in Seq(X) /\ Len(page) = end - (offset + 1) + 1
          /\ \A j \in 1 .. end - (offset + 1) + 1 : page[j] = list[(offset + 1) + j - 1]
      BY <2>1, <2>2, <2>3, SubSeqProperties
    <2>5. Len(page) = end - offset /\ Len(page) \in Nat \ {0}
      BY <2>2, <2>4
    <2> HIDE DEF page
    <2>6. ASSUME NEW k \in offset + 1 .. offset + Len(page)
          PROVE  \E j \in DOMAIN page : page[j] = list[k]
      <3>1. /\ k - offset \in 1 .. end - (offset + 1) + 1
            /\ (offset + 1) + (k - offset) - 1 = k
            /\ k - offset \in 1 .. Len(page)
        BY <2>2, <2>5
      <3>2. page[k - offset] = list[k]
        BY <2>4, <3>1
      <3> QED BY <2>4, <3>1, <3>2
    <2>7. page # <<>>
      BY <2>5
    <2> QED BY <1>0, <1>2, <2>2, <2>4, <2>5, <2>6, <2>7 DEF page
  <1> QED BY <1>0, <1>1, <1>2

-----------------------------------------------------------------------------
(* The walk through the pages *)

WalkRecs ==
    [phase : {"pages", "reading", "over"}, skill : AskedSkills,
     limit : AskedLimits, offset : Nat, locals : SUBSET Peers,
     seen : SUBSET Peers, steady : SUBSET Peers, left : SUBSET Peers,
     moved : SUBSET Peers, cut : BOOLEAN]

(* An agent the walk owes the client: listed all the time, not seen yet,   *)
(* no entry before its own has left, it has not left the federated table   *)
(* between the two reads of a request, and no list was cut short.          *)
Owed(w, p) ==
    /\ p \in w.steady \ w.seen
    /\ \A q \in w.left : ~(q < p)
    /\ p \notin w.moved
    /\ ~w.cut

(* The number of entries before the first one of p in the list made of the *)
(* local and federated agents L and F: by skill, an agent is listed once.  *)
EntriesBefore(skill, L, F, p) ==
    IF skill = NoID
    THEN Cardinality(Below(L, p)) + Cardinality(Below(F, p))
    ELSE Cardinality(Below(L \cup F, p))

(* The walk has not passed the place of any agent it still owes.  Between  *)
(* the two reads of a request the list is made of the local agents read    *)
(* before and of the federated agents that are there now.                  *)
WalkOK(w, L, F) ==
    /\ w \in WalkRecs
    /\ w.offset <= 2 * Cardinality(Peers)
    /\ w.phase \in {"pages", "reading"} => w.steady \subseteq L \cup F
    /\ w.phase = "pages" =>
        \A p \in Peers : Owed(w, p) => w.offset <= EntriesBefore(w.skill, L, F, p)
    /\ w.phase = "reading" =>
        /\ w.skill = NoID
        /\ \A p \in Peers : Owed(w, p) =>
            /\ w.offset <= Cardinality(Below(w.locals, p)) + Cardinality(Below(F, p))
            /\ Below(w.locals, p) \subseteq L
            /\ p \in w.locals \cup F
    /\ w.phase = "over" => \A p \in Peers : ~Owed(w, p)

(* Sets of peers are finite sets of integers.                              *)
LEMMA PeerSets ==
    ASSUME NEW A \in SUBSET Peers
    PROVE  /\ A \in SUBSET Int /\ IsFiniteSet(A) /\ Cardinality(A) \in Nat
           /\ Cardinality(A) <= Cardinality(Peers) /\ Cardinality(Peers) \in Nat
           /\ \A p : Below(A, p) \in SUBSET Peers
  <1>1. A \in SUBSET Int
    BY DirectoryAssumption
  <1>2. IsFiniteSet(A) /\ Cardinality(A) <= Cardinality(Peers)
    BY FS_Subset, SetsAssumption
  <1>3. Cardinality(A) \in Nat /\ Cardinality(Peers) \in Nat
    BY <1>2, FS_CardinalityType, SetsAssumption
  <1>4. \A p : Below(A, p) \in SUBSET Peers
    BY DEF Below
  <1> QED BY <1>1, <1>2, <1>3, <1>4

(* More agents, more agents below p.                                       *)
LEMMA BelowGrows ==
    ASSUME NEW A \in SUBSET Peers, NEW B \in SUBSET Peers, NEW p, Below(A, p) \subseteq B
    PROVE  /\ Cardinality(Below(A, p)) <= Cardinality(Below(B, p))
           /\ Cardinality(Below(A, p)) \in Nat /\ Cardinality(Below(B, p)) \in Nat
  <1>1. Below(A, p) \in SUBSET Below(B, p)
    BY DEF Below
  <1>2. IsFiniteSet(Below(B, p))
    BY PeerSets
  <1> QED BY <1>1, <1>2, FS_Subset, FS_CardinalityType

(* A list of the agents A and B that misses nobody the walk owes, and in   *)
(* which nobody is before the offset or after the current place.           *)
Ahead(w, L, F, A, B) ==
    \A p \in Peers : Owed(w, p) =>
        LET k == Cardinality(Below(A, p)) + Cardinality(Below(B, p))
        IN  w.offset <= k /\ p \in A \cup B /\ k <= EntriesBefore(w.skill, L, F, p)

(* The walk v after an answer from a list, cut short or not, to the walk w.*)
Answered(w, v, list, short, page) ==
    /\ page = Page(list, w.offset, ClampPage(w.limit))
    /\ v.phase = IF w.offset + Len(page) >= Len(list) \/ page = <<>>
                 THEN "over" ELSE "pages"
    /\ v.offset = w.offset + Len(page)
    /\ v.seen = w.seen \cup {page[i][1] : i \in DOMAIN page}
    /\ v.skill = w.skill /\ v.steady = w.steady /\ v.left = w.left
    /\ v.moved = w.moved /\ v.cut = (w.cut \/ short)

(* An answer keeps the invariant: an agent that the walk owes has a place  *)
(* after the offset, so that it is on the page or after it.                *)
LEMMA RespondKeeps ==
    ASSUME NEW w \in WalkRecs, w.offset <= 2 * Cardinality(Peers),
           NEW L \in SUBSET Peers, NEW F \in SUBSET Peers, w.steady \subseteq L \cup F,
           NEW A \in SUBSET Peers, NEW B \in SUBSET Peers, NEW short,
           short \/ Ahead(w, L, F, A, B),
           NEW v \in WalkRecs, NEW page, Answered(w, v, Sorted(A, B), short, page)
    PROVE  WalkOK(v, L, F)
  <1> DEFINE list == Sorted(A, B)
             n == Len(list)
             m == Cardinality(Peers)
             next == w.offset + Len(page)
             Before(p) == Cardinality(Below(A, p)) + Cardinality(Below(B, p))
  <1>v. /\ page = Page(list, w.offset, ClampPage(w.limit))
        /\ v.phase = IF next >= n \/ page = <<>> THEN "over" ELSE "pages"
        /\ v.offset = next
        /\ v.seen = w.seen \cup {page[i][1] : i \in DOMAIN page}
        /\ v.skill = w.skill /\ v.steady = w.steady /\ v.left = w.left
        /\ v.moved = w.moved /\ v.cut = (w.cut \/ short)
    BY DEF Answered
  <1>1. /\ list \in Seq(Entries(A, B)) /\ n = Cardinality(A) + Cardinality(B)
        /\ \A p \in A \cup B : Before(p) + 1 \in 1 .. n /\ list[Before(p) + 1][1] = p
    BY SortedPlaces, PeerSets
  <1>2. w.offset \in Nat /\ ClampPage(w.limit) \in Nat \ {0}
    BY DirectoryAssumption DEF WalkRecs, ClampPage
  <1>3. /\ Len(page) \in Nat
        /\ page = <<>> => w.offset >= n
        /\ w.offset < n => next <= n
        /\ w.offset >= n => Len(page) = 0
        /\ \A k \in w.offset + 1 .. next : \E i \in DOMAIN page : page[i] = list[k]
    <2>1. PICK c \in Nat \ {0} : c = ClampPage(w.limit)
      BY <1>2
    <2>2. PICK o \in Nat : o = w.offset
      BY <1>2
    <2>3. page = Page(list, o, c)
      BY <1>v, <2>1, <2>2
    <2> HIDE DEF list
    <2>4. PICK X : list \in Seq(X)
      BY <1>1
    <2>5. /\ Len(page) \in Nat
          /\ page = <<>> => o >= Len(list)
          /\ o < Len(list) => o + Len(page) <= Len(list)
          /\ o >= Len(list) => Len(page) = 0
          /\ \A k \in o + 1 .. o + Len(page) : \E i \in DOMAIN page : page[i] = list[k]
      BY <2>3, <2>4, PageOfList
    <2> QED BY <2>2, <2>5
  <1>4. n \in Nat /\ n <= 2 * m /\ m \in Nat
    BY <1>1, PeerSets
  <1>5. v.offset <= 2 * m
    BY <1>v, <1>2, <1>3, <1>4
  <1>6. ASSUME NEW p \in Peers PROVE Before(p) \in Nat
    <2>1. \A X \in SUBSET Peers : Cardinality(Below(X, p)) \in Nat
      BY PeerSets
    <2> QED BY <2>1
  <1>h. ASSUME NEW p \in Peers, Owed(w, p), ~short
        PROVE  w.offset <= Before(p) /\ p \in A \cup B /\ Before(p) <= EntriesBefore(w.skill, L, F, p)
    BY <1>h DEF Ahead
  <1>e. \A p \in Peers : EntriesBefore(w.skill, L, F, p) \in Nat
    <2> TAKE p \in Peers
    <2>1. \A X \in SUBSET Peers : Cardinality(Below(X, p)) \in Nat
      BY PeerSets
    <2>2. Cardinality(Below(L \cup F, p)) \in Nat
      BY <2>1
    <2>3. Cardinality(Below(L, p)) + Cardinality(Below(F, p)) \in Nat
      BY <2>1
    <2> QED BY <2>2, <2>3 DEF EntriesBefore
  <1> HIDE DEF list, n, m, Before
  <1>7. ASSUME NEW p \in Peers, Owed(v, p)
        PROVE  next <= Before(p) /\ next < n /\ page # <<>> /\ next <= EntriesBefore(w.skill, L, F, p)
    <2>1. Owed(w, p) /\ p \notin v.seen /\ ~short
      BY <1>v, <1>7 DEF Owed
    <2>2. /\ w.offset <= Before(p) /\ p \in A \cup B
          /\ Before(p) <= EntriesBefore(w.skill, L, F, p)
      BY <1>h, <2>1
    <2>3. Before(p) + 1 \in 1 .. n /\ list[Before(p) + 1][1] = p
      BY <1>1, <2>2
    <2>4. ~(Before(p) + 1 <= next)
      <3> SUFFICES ASSUME Before(p) + 1 <= next PROVE FALSE
        OBVIOUS
      <3>1. Before(p) + 1 \in w.offset + 1 .. next
        BY <1>2, <1>3, <1>6, <2>2
      <3>2. PICK i \in DOMAIN page : page[i] = list[Before(p) + 1]
        BY <1>3, <3>1
      <3>3. p \in v.seen
        BY <1>v, <2>3, <3>2
      <3> QED BY <2>1, <3>3
    <2>5. next \in Nat /\ Before(p) \in Nat /\ EntriesBefore(w.skill, L, F, p) \in Nat
      BY <1>2, <1>3, <1>6, <1>e
    <2>6. next <= Before(p) /\ next < n
      BY <1>4, <2>3, <2>4, <2>5
    <2>7. w.offset < n
      BY <1>2, <1>3, <1>4, <2>5, <2>6
    <2>8. page # <<>>
      BY <1>2, <1>3, <1>4, <2>7
    <2> QED BY <2>2, <2>5, <2>6, <2>8
  <1>8. v.phase = "over" => \A p \in Peers : ~Owed(v, p)
    <2>1. v.phase = "over" => next >= n \/ page = <<>>
      BY <1>v
    <2>2. next \in Nat /\ n \in Nat
      BY <1>2, <1>3, <1>4
    <2> QED BY <1>7, <2>1, <2>2
  <1>10. v.phase \in {"pages", "over"} /\ v.steady \subseteq L \cup F
    BY <1>v
  <1> QED BY <1>v, <1>5, <1>7, <1>8, <1>10 DEF WalkOK, m

(* Changes of the registry keep the invariant: below an agent that the     *)
(* walk still owes afterwards nothing has left, so that places only grow.  *)
LEMMA ObserveKeeps ==
    ASSUME NEW w, NEW v \in WalkRecs,
           NEW L \in SUBSET Peers, NEW F \in SUBSET Peers,
           NEW M \in SUBSET Peers, NEW G \in SUBSET Peers,
           WalkOK(w, L, F), w.phase \in {"pages", "reading"},
           v.phase = w.phase, v.skill = w.skill, v.offset = w.offset,
           v.locals = w.locals, v.seen = w.seen,
           v.steady = w.steady \cap (M \cup G),
           v.left = w.left \cup (L \ M) \cup (F \ G),
           v.moved = IF w.phase = "reading" THEN w.moved \cup (F \ G) ELSE w.moved,
           v.cut = w.cut
    PROVE  WalkOK(v, M, G)
  <1>0. w \in WalkRecs /\ w.offset \in Nat /\ w.locals \in SUBSET Peers
    BY DEF WalkOK, WalkRecs
  <1>1. ASSUME NEW p \in Peers, Owed(v, p)
        PROVE  /\ Owed(w, p)
               /\ \A q \in L : q < p => q \in M
               /\ \A q \in F : q < p => q \in G
               /\ w.phase = "reading" => (p \in F => p \in G)
    <2>1. w.moved \subseteq v.moved /\ (w.phase = "reading" => F \ G \subseteq v.moved)
      OBVIOUS
    <2> QED BY <1>1, <2>1 DEF Owed
  <1>2. \A q \in Peers : q \in Int
    BY DirectoryAssumption
  <1>3. ASSUME NEW p \in Peers, Owed(v, p)
        PROVE  Below(L, p) \subseteq M /\ Below(F, p) \subseteq G
    BY <1>1, <1>2, <1>3 DEF Below
  <1>4. ASSUME v.phase = "pages", NEW p \in Peers, Owed(v, p)
        PROVE  v.offset <= EntriesBefore(v.skill, M, G, p)
    <2>1. w.offset <= EntriesBefore(w.skill, L, F, p)
      BY <1>1, <1>4 DEF WalkOK
    <2>2. /\ Cardinality(Below(L, p)) <= Cardinality(Below(M, p))
          /\ Cardinality(Below(L, p)) \in Nat /\ Cardinality(Below(M, p)) \in Nat
      BY <1>3, <1>4, BelowGrows
    <2>3. /\ Cardinality(Below(F, p)) <= Cardinality(Below(G, p))
          /\ Cardinality(Below(F, p)) \in Nat /\ Cardinality(Below(G, p)) \in Nat
      BY <1>3, <1>4, BelowGrows
    <2>4. /\ Cardinality(Below(L \cup F, p)) <= Cardinality(Below(M \cup G, p))
          /\ Cardinality(Below(L \cup F, p)) \in Nat /\ Cardinality(Below(M \cup G, p)) \in Nat
      <3>1. Below(L \cup F, p) \subseteq M \cup G
        BY <1>3, <1>4 DEF Below
      <3>2. L \cup F \in SUBSET Peers /\ M \cup G \in SUBSET Peers
        OBVIOUS
      <3> QED BY <3>1, <3>2, BelowGrows
    <2>5. CASE w.skill = NoID
      BY <1>0, <2>1, <2>2, <2>3, <2>5 DEF EntriesBefore
    <2>6. CASE w.skill # NoID
      BY <1>0, <2>1, <2>4, <2>6 DEF EntriesBefore
    <2> QED BY <2>5, <2>6
  <1>5. ASSUME v.phase = "reading", NEW p \in Peers, Owed(v, p)
        PROVE  /\ v.offset <= Cardinality(Below(v.locals, p)) + Cardinality(Below(G, p))
               /\ Below(v.locals, p) \subseteq M
               /\ p \in v.locals \cup G
    <2>1. /\ w.offset <= Cardinality(Below(w.locals, p)) + Cardinality(Below(F, p))
          /\ Below(w.locals, p) \subseteq L /\ p \in w.locals \cup F
      BY <1>1, <1>5 DEF WalkOK
    <2>2. /\ Cardinality(Below(F, p)) <= Cardinality(Below(G, p))
          /\ Cardinality(Below(F, p)) \in Nat /\ Cardinality(Below(G, p)) \in Nat
      BY <1>3, <1>5, BelowGrows
    <2>3. Cardinality(Below(w.locals, p)) \in Nat
      BY <1>0, PeerSets
    <2>4. v.offset <= Cardinality(Below(v.locals, p)) + Cardinality(Below(G, p))
      BY <1>0, <2>1, <2>2, <2>3
    <2>5. Below(v.locals, p) \subseteq M
      BY <1>3, <1>5, <2>1 DEF Below
    <2>6. p \in v.locals \cup G
      BY <1>1, <1>5, <2>1
    <2> QED BY <2>4, <2>5, <2>6
  <1>6. v.offset <= 2 * Cardinality(Peers) /\ (v.phase = "reading" => v.skill = NoID)
    BY DEF WalkOK
  <1> QED BY <1>4, <1>5, <1>6 DEF WalkOK

-----------------------------------------------------------------------------
(* The inductive invariant *)

(* ListedIn at instant t.                                                  *)
Shown(T, skill, t) ==
    IF skill = NoID THEN {p \in DOMAIN T.entries : t < T.entries[p].expiresAt}
    ELSE Candidates(T, skill, NoFilter, t)

WalkInv ==
    walk = NoWalk \/ WalkOK(walk, Shown(local, walk.skill, now), Shown(fed, walk.skill, now))

APIInv == IInv /\ SkillsFinite(local) /\ SkillsFinite(fed) /\ WalkInv

(* What is listed is registered.                                           *)
LEMMA ShownPeers ==
    ASSUME NEW T, NEW origins, TableOK(T, origins), NEW skill, NEW t
    PROVE  Shown(T, skill, t) \in SUBSET Peers
  <1>1. DOMAIN T.entries \subseteq Peers
    BY DEF TableOK, TableTypeOK
  <1>2. Candidates(T, skill, NoFilter, t) \subseteq DOMAIN T.entries
    BY DEF Candidates
  <1> QED BY <1>1, <1>2 DEF Shown

(* The names of the views for what is shown.                               *)
LEMMA ListedIsShown ==
    /\ \A skill : /\ ListedIn(local, skill) = Shown(local, skill, now)
                  /\ ListedIn(fed, skill) = Shown(fed, skill, now)
    /\ AllRegistrations = Shown(local, NoID, now)
    /\ FederatedRegistrations = Shown(fed, NoID, now)
  BY DEF ListedIn, Shown, LiveRegistrations, AllRegistrations, FederatedRegistrations

(* What is listed afterwards.                                              *)
LEMMA ListedIsShownNext ==
    \A skill : /\ ListedIn(local, skill)' = Shown(local', skill, now')
               /\ ListedIn(fed, skill)' = Shown(fed', skill, now')
               /\ Listed(skill)' = Shown(local', skill, now') \cup Shown(fed', skill, now')
  BY DEF Listed, ListedIn, Shown, LiveRegistrations

(* The walk is idle, or a record of a walk under way or over.              *)
LEMMA WalkCases ==
    ASSUME WalkInv
    PROVE  /\ walk.phase = "idle" \/ walk \in WalkRecs
           /\ walk.phase # "idle" =>
                WalkOK(walk, Shown(local, walk.skill, now), Shown(fed, walk.skill, now))
           /\ walk.phase = "idle" => walk = NoWalk
  <1>1. CASE walk = NoWalk
    BY <1>1 DEF NoWalk
  <1>2. CASE WalkOK(walk, Shown(local, walk.skill, now), Shown(fed, walk.skill, now))
    <2>1. walk \in WalkRecs
      BY <1>2 DEF WalkOK
    <2>2. walk.phase # "idle"
      BY <2>1 DEF WalkRecs
    <2> QED BY <1>2, <2>1, <2>2
  <1> QED BY <1>1, <1>2 DEF WalkInv

(* What becomes of the walk when the registry changes.                     *)
LEMMA ObserveStep ==
    ASSUME WalkInv, Observe, IInv, IInv'
    PROVE  WalkInv'
  <1>1. CASE walk' = NoWalk
    BY <1>1 DEF WalkInv
  <1>2. CASE walk' # NoWalk
    <2>1. PICK skill \in AskedSkills :
            /\ walk.phase \in {"pages", "reading"}
            /\ walk.skill = skill
            /\ walk' = [walk EXCEPT
                            !.steady = @ \cap Listed(skill)',
                            !.left = @ \cup (ListedIn(local, skill) \ ListedIn(local, skill)')
                                       \cup (ListedIn(fed, skill) \ ListedIn(fed, skill)'),
                            !.moved = IF walk.phase = "reading"
                                      THEN @ \cup (ListedIn(fed, skill) \ ListedIn(fed, skill)')
                                      ELSE @]
      BY <1>2 DEF Observe
    <2> DEFINE L == Shown(local, skill, now)    F == Shown(fed, skill, now)
               M == Shown(local', skill, now')  G == Shown(fed', skill, now')
    <2>2. walk.phase # "idle"
      BY <2>1
    <2>3. walk \in WalkRecs /\ WalkOK(walk, L, F)
      BY <2>1, <2>2, WalkCases
    <2>4. TableOK(local, {LocalOrigin}) /\ TableOK(fed, Relays)
      BY DEF IInv, LocalInv, FedInv
    <2>5. TableOK(local', {LocalOrigin}) /\ TableOK(fed', Relays)
      BY DEF IInv, LocalInv, FedInv, LocalOrigin
    <2>6. /\ L \in SUBSET Peers /\ F \in SUBSET Peers
          /\ M \in SUBSET Peers /\ G \in SUBSET Peers
      BY <2>4, <2>5, ShownPeers
    <2>7. walk' = [walk EXCEPT !.steady = @ \cap (M \cup G),
                               !.left = @ \cup (L \ M) \cup (F \ G),
                               !.moved = IF walk.phase = "reading"
                                         THEN @ \cup (F \ G) ELSE @]
      BY <2>1, ListedIsShown, ListedIsShownNext
    <2> HIDE DEF L, F, M, G
    <2>8. /\ walk' \in WalkRecs
          /\ walk'.phase = walk.phase /\ walk'.skill = walk.skill /\ walk'.offset = walk.offset
          /\ walk'.locals = walk.locals /\ walk'.seen = walk.seen
          /\ walk'.steady = walk.steady \cap (M \cup G)
          /\ walk'.left = walk.left \cup (L \ M) \cup (F \ G)
          /\ walk'.moved = IF walk.phase = "reading" THEN walk.moved \cup (F \ G) ELSE walk.moved
          /\ walk'.cut = walk.cut
      BY <2>3, <2>6, <2>7 DEF WalkRecs
    <2>9. WalkOK(walk', M, G)
      <3>1. walk.phase \in {"pages", "reading"}
        BY <2>1
      <3>2. PICK v \in WalkRecs : v = walk'
        BY <2>8
      <3>3. WalkOK(v, M, G)
        BY <2>3, <2>6, <2>8, <3>1, <3>2, ObserveKeeps
      <3> QED BY <3>2, <3>3
    <2>10. walk'.skill = skill
      BY <2>1, <2>8
    <2> QED BY <2>9, <2>10 DEF WalkInv, M, G
  <1> QED BY <1>1, <1>2

(* A walk starts with everything ahead of it.                              *)
LEMMA StartStep ==
    ASSUME IInv, NEW skill \in AskedSkills, NEW limit \in AskedLimits, StartWalk(skill, limit)
    PROVE  WalkInv'
  <1> DEFINE L == Shown(local, skill, now)  F == Shown(fed, skill, now)
  <1>1. L \in SUBSET Peers /\ F \in SUBSET Peers
    BY ShownPeers DEF IInv, LocalInv, FedInv
  <1>2. local' = local /\ fed' = fed /\ now' = now
    BY DEF StartWalk, vars
  <1>3. walk' = [phase |-> "pages", skill |-> skill, limit |-> limit, offset |-> 0,
                 locals |-> {}, seen |-> {}, steady |-> L \cup F, left |-> {},
                 moved |-> {}, cut |-> FALSE]
    BY ListedIsShown DEF StartWalk, Listed
  <1>4. Shown(local', walk'.skill, now') = L /\ Shown(fed', walk'.skill, now') = F
    BY <1>2, <1>3
  <1> HIDE DEF L, F
  <1>5. /\ walk' \in WalkRecs /\ walk'.phase = "pages" /\ walk'.offset = 0
        /\ walk'.steady = L \cup F
    BY <1>1, <1>3 DEF WalkRecs
  <1>6. ASSUME NEW p \in Peers PROVE 0 <= EntriesBefore(walk'.skill, L, F, p)
    <2>1. \A X \in SUBSET Peers : Cardinality(Below(X, p)) \in Nat
      BY PeerSets
    <2>2. Cardinality(Below(L \cup F, p)) \in Nat
      BY <1>1, <2>1
    <2>3. Cardinality(Below(L, p)) + Cardinality(Below(F, p)) \in Nat
      BY <1>1, <2>1
    <2> QED BY <2>2, <2>3 DEF EntriesBefore
  <1>7. 0 <= 2 * Cardinality(Peers)
    BY <1>1, PeerSets
  <1>8. WalkOK(walk', L, F)
    BY <1>5, <1>6, <1>7 DEF WalkOK
  <1> QED BY <1>4, <1>8 DEF WalkInv

(* An answer with the list made of the agents A and B.                     *)
LEMMA RespondStep ==
    ASSUME IInv, WalkInv, walk.phase \in {"pages", "reading"},
           NEW A \in SUBSET Peers, NEW B \in SUBSET Peers, NEW short,
           short \/ Ahead(walk, Shown(local, walk.skill, now), Shown(fed, walk.skill, now), A, B),
           Respond(Sorted(A, B), short)
    PROVE  WalkInv'
  <1>0. PICK skill : skill = walk.skill
    OBVIOUS
  <1> DEFINE L == Shown(local, skill, now)  F == Shown(fed, skill, now)
             list == Sorted(A, B)
  <1>1. L \in SUBSET Peers /\ F \in SUBSET Peers
    BY ShownPeers DEF IInv, LocalInv, FedInv
  <1>2. walk.phase # "idle"
    OBVIOUS
  <1>3. walk \in WalkRecs /\ WalkOK(walk, L, F)
    BY <1>0, <1>2, WalkCases
  <1>4. PICK page : page = Page(list, walk.offset, ClampPage(walk.limit))
    OBVIOUS
  <1>5. walk' = [walk EXCEPT
                    !.phase = IF walk.offset + Len(page) >= Len(list) \/ page = <<>>
                              THEN "over" ELSE "pages",
                    !.offset = walk.offset + Len(page),
                    !.locals = {},
                    !.cut = @ \/ short,
                    !.seen = @ \cup {page[i][1] : i \in DOMAIN page}]
    BY <1>4 DEF Respond
  <1>6. local' = local /\ fed' = fed /\ now' = now
    BY DEF Respond, vars
  <1>l. list \in Seq(Entries(A, B))
    BY SortedPlaces, PeerSets
  <1>7. Len(page) \in Nat /\ {page[i][1] : i \in DOMAIN page} \subseteq Peers
    <2>1. PICK c \in Nat \ {0} : c = ClampPage(walk.limit)
      BY <1>3, DirectoryAssumption DEF WalkRecs, ClampPage
    <2>2. PICK o \in Nat : o = walk.offset
      BY <1>3 DEF WalkRecs
    <2>3. page = Page(list, o, c)
      BY <1>4, <2>1, <2>2
    <2> HIDE DEF list
    <2>4. page \in Seq(Entries(A, B)) /\ Len(page) \in Nat
      BY <1>l, <2>3, PageOfList
    <2>5. \A e \in Entries(A, B) : e[1] \in Peers
      BY DEF Entries
    <2>6. \A i \in DOMAIN page : page[i] \in Entries(A, B)
      BY <2>4
    <2> QED BY <2>4, <2>5, <2>6
  <1> HIDE DEF L, F, list
  <1>8. /\ walk' \in WalkRecs
        /\ walk'.phase = IF walk.offset + Len(page) >= Len(list) \/ page = <<>>
                         THEN "over" ELSE "pages"
        /\ walk'.offset = walk.offset + Len(page)
        /\ walk'.seen = walk.seen \cup {page[i][1] : i \in DOMAIN page}
        /\ walk'.skill = walk.skill /\ walk'.steady = walk.steady /\ walk'.left = walk.left
        /\ walk'.moved = walk.moved /\ walk'.cut = (walk.cut \/ short)
    <2>1. PICK phase \in {"over", "pages"} :
            phase = IF walk.offset + Len(page) >= Len(list) \/ page = <<>>
                    THEN "over" ELSE "pages"
      OBVIOUS
    <2>2. PICK next \in Nat : next = walk.offset + Len(page)
      BY <1>3, <1>7 DEF WalkRecs
    <2>3. PICK S \in SUBSET Peers : S = {page[i][1] : i \in DOMAIN page}
      BY <1>7
    <2>c. PICK cut \in BOOLEAN : cut = (walk.cut \/ short)
      OBVIOUS
    <2>4. walk' = [walk EXCEPT !.phase = phase, !.offset = next, !.locals = {},
                               !.cut = cut, !.seen = @ \cup S]
      BY <1>5, <2>1, <2>2, <2>3, <2>c, Zenon
    <2>5. /\ walk' \in WalkRecs /\ walk'.phase = phase /\ walk'.offset = next
          /\ walk'.seen = walk.seen \cup S
          /\ walk'.skill = walk.skill /\ walk'.steady = walk.steady /\ walk'.left = walk.left
          /\ walk'.moved = walk.moved /\ walk'.cut = cut
      BY <1>3, <2>4 DEF WalkRecs
    <2> QED BY <2>1, <2>2, <2>3, <2>5, <2>c, Zenon
  <1>9. /\ walk.offset <= 2 * Cardinality(Peers) /\ walk.steady \subseteq L \cup F
    BY <1>3 DEF WalkOK
  <1>10. short \/ Ahead(walk, L, F, A, B)
    BY <1>0 DEF L, F
  <1>11. Answered(walk, walk', Sorted(A, B), short, page)
    BY <1>4, <1>8, Zenon DEF Answered, list
  <1>12. PICK v \in WalkRecs : v = walk'
    BY <1>8
  <1>13. WalkOK(v, L, F)
    <2>1. Answered(walk, v, Sorted(A, B), short, page)
      BY <1>11, <1>12
    <2> QED BY <1>1, <1>3, <1>9, <1>10, <2>1, RespondKeeps
  <1>14. Shown(local', walk'.skill, now') = L /\ Shown(fed', walk'.skill, now') = F
    BY <1>0, <1>6, <1>8 DEF L, F
  <1> QED BY <1>12, <1>13, <1>14 DEF WalkInv

(* A request for a skill reads everything at once.                         *)
LEMMA BySkillStep ==
    ASSUME IInv, WalkInv, ListAgentsBySkill
    PROVE  WalkInv'
  <1>0. PICK skill : skill = walk.skill
    OBVIOUS
  <1> DEFINE L == Shown(local, skill, now)  F == Shown(fed, skill, now)
  <1>1. walk.phase = "pages" /\ walk.skill # NoID
    BY DEF ListAgentsBySkill
  <1>2. walk \in WalkRecs /\ WalkOK(walk, L, F)
    BY <1>0, <1>1, WalkCases
  <1>3. skill \in SkillIDs
    BY <1>0, <1>1, <1>2, DirectoryAssumption DEF WalkRecs
  <1>4. PICK a \in DiscoverBySkill(local, fed, skill, NoFilter, MaxDiscoverLimit, TRUE, now) :
            Respond(Sorted(a.local, a.fed), Cardinality(Listed(skill)) > MaxDiscoverLimit)
    BY <1>0 DEF ListAgentsBySkill
  <1>5. TableOK(local, {LocalOrigin}) /\ TableOK(fed, Relays)
    BY DEF IInv, LocalInv, FedInv
  <1>6. L = Scan(local, skill, NoFilter) /\ F = Scan(fed, skill, NoFilter)
    BY <1>0, <1>1, <1>3, <1>5, CandidatesAreScan DEF Shown
  <1>7. /\ a.local \subseteq L /\ a.fed \subseteq F \ L
        /\ a.local \cup a.fed = L \cup F \/ Cardinality(L \cup F) > MaxDiscoverLimit
    BY <1>3, <1>6, FullAnswer
  <1>s. PICK short : short = (Cardinality(L \cup F) > MaxDiscoverLimit)
    OBVIOUS
  <1>t. Listed(skill) = L \cup F
    BY ListedIsShown DEF Listed
  <1>8. L \in SUBSET Peers /\ F \in SUBSET Peers
    BY <1>5, ShownPeers
  <1> HIDE DEF L, F
  <1>9. PICK A \in SUBSET Peers, B \in SUBSET Peers : A = a.local /\ B = a.fed
    BY <1>7, <1>8
  <1>10. ASSUME ~short, NEW p \in Peers, Owed(walk, p)
         PROVE  LET k == Cardinality(Below(A, p)) + Cardinality(Below(B, p))
                IN  /\ walk.offset <= k /\ p \in A \cup B
                    /\ k <= EntriesBefore(walk.skill, L, F, p)
    <2>1. EntriesBefore(walk.skill, L, F, p) = Cardinality(Below(L \cup F, p))
      BY <1>1 DEF EntriesBefore
    <2>2. Below(L \cup F, p) = Below(A, p) \cup Below(B, p) /\ Below(A, p) \cap Below(B, p) = {}
      BY <1>7, <1>9, <1>10, <1>s DEF Below
    <2>3. IsFiniteSet(Below(A, p)) /\ IsFiniteSet(Below(B, p))
      BY PeerSets
    <2>4. /\ Cardinality(Below(A, p)) \in Nat /\ Cardinality(Below(B, p)) \in Nat
          /\ Cardinality(Below(A, p) \cup Below(B, p)) =
                Cardinality(Below(A, p)) + Cardinality(Below(B, p)) - 0
      BY <2>2, <2>3, FS_Union, FS_EmptySet, FS_CardinalityType
    <2>5. Cardinality(Below(L \cup F, p)) = Cardinality(Below(A, p)) + Cardinality(Below(B, p))
      <3>1. Cardinality(Below(L \cup F, p)) = Cardinality(Below(A, p) \cup Below(B, p))
        BY <2>2, Zenon
      <3>2. Cardinality(Below(A, p)) + Cardinality(Below(B, p)) - 0
                = Cardinality(Below(A, p)) + Cardinality(Below(B, p))
        BY <2>4
      <3> QED BY <2>4, <3>1, <3>2, Zenon
    <2>6. walk.offset <= EntriesBefore(walk.skill, L, F, p)
      BY <1>1, <1>2, <1>10 DEF WalkOK
    <2>7. p \in L \cup F
      BY <1>1, <1>2, <1>10 DEF WalkOK, Owed
    <2>8. p \in A \cup B
      BY <1>7, <1>9, <1>10, <1>s, <2>7
    <2> QED BY <2>1, <2>4, <2>5, <2>6, <2>8
  <1>11. short \/ Ahead(walk, Shown(local, walk.skill, now), Shown(fed, walk.skill, now), A, B)
    BY <1>0, <1>10 DEF Ahead, L, F
  <1>12. Respond(Sorted(A, B), short) /\ walk.phase \in {"pages", "reading"}
    BY <1>1, <1>4, <1>9, <1>s, <1>t
  <1> QED BY <1>11, <1>12, RespondStep

(* The first read of a request for all agents.                             *)
LEMMA ReadLocalStep ==
    ASSUME IInv, WalkInv, ListAgentsLocal
    PROVE  WalkInv'
  <1> DEFINE L == Shown(local, NoID, now)  F == Shown(fed, NoID, now)
  <1>1. /\ walk.phase = "pages" /\ walk.skill = NoID
        /\ local' = local /\ fed' = fed /\ now' = now
    BY DEF ListAgentsLocal, vars
  <1>2. walk \in WalkRecs /\ WalkOK(walk, L, F)
    BY <1>1, WalkCases
  <1>3. walk' = [walk EXCEPT !.phase = "reading", !.locals = L]
    BY ListedIsShown DEF ListAgentsLocal
  <1>4. L \in SUBSET Peers /\ F \in SUBSET Peers
    BY ShownPeers DEF IInv, LocalInv, FedInv
  <1> HIDE DEF L, F
  <1>5. /\ walk' \in WalkRecs /\ walk'.phase = "reading" /\ walk'.locals = L
        /\ walk'.skill = walk.skill /\ walk'.offset = walk.offset /\ walk'.seen = walk.seen
        /\ walk'.steady = walk.steady /\ walk'.left = walk.left
        /\ walk'.moved = walk.moved /\ walk'.cut = walk.cut
    BY <1>2, <1>3, <1>4 DEF WalkRecs
  <1>6. ASSUME NEW p \in Peers, Owed(walk', p)
        PROVE  /\ walk.offset <= Cardinality(Below(L, p)) + Cardinality(Below(F, p))
               /\ Below(L, p) \subseteq L
               /\ p \in L \cup F
    <2>1. Owed(walk, p)
      BY <1>5, <1>6 DEF Owed
    <2> QED BY <1>1, <1>2, <2>1 DEF WalkOK, EntriesBefore, Owed, Below
  <1>7. walk.offset <= 2 * Cardinality(Peers) /\ walk.steady \subseteq L \cup F
    BY <1>1, <1>2 DEF WalkOK
  <1>8. WalkOK(walk', L, F)
    BY <1>1, <1>5, <1>6, <1>7 DEF WalkOK
  <1> QED BY <1>1, <1>5, <1>8 DEF WalkInv, L, F

(* The second read, and the answer.                                        *)
LEMMA ReadFederatedStep ==
    ASSUME IInv, WalkInv, ListAgentsFederated
    PROVE  WalkInv'
  <1> DEFINE L == Shown(local, NoID, now)  F == Shown(fed, NoID, now)
  <1>1. walk.phase = "reading"
    BY DEF ListAgentsFederated
  <1>2. walk \in WalkRecs /\ walk.skill = NoID
    BY <1>1, WalkCases DEF WalkOK
  <1>3. WalkOK(walk, L, F)
    BY <1>1, <1>2, WalkCases
  <1>4. L \in SUBSET Peers /\ F \in SUBSET Peers
    BY ShownPeers DEF IInv, LocalInv, FedInv
  <1>5. Respond(Sorted(walk.locals, F), FALSE)
    BY ListedIsShown DEF ListAgentsFederated
  <1> HIDE DEF L, F
  <1>6. PICK A \in SUBSET Peers : A = walk.locals
    BY <1>2 DEF WalkRecs
  <1>7. ASSUME NEW p \in Peers, Owed(walk, p)
        PROVE  LET k == Cardinality(Below(A, p)) + Cardinality(Below(F, p))
               IN  /\ walk.offset <= k /\ p \in A \cup F
                   /\ k <= EntriesBefore(walk.skill, L, F, p)
    <2>1. /\ walk.offset <= Cardinality(Below(A, p)) + Cardinality(Below(F, p))
          /\ Below(A, p) \subseteq L /\ p \in A \cup F
      BY <1>1, <1>3, <1>6, <1>7 DEF WalkOK
    <2>2. EntriesBefore(walk.skill, L, F, p) = Cardinality(Below(L, p)) + Cardinality(Below(F, p))
      BY <1>2 DEF EntriesBefore
    <2>3. /\ Cardinality(Below(A, p)) <= Cardinality(Below(L, p))
          /\ Cardinality(Below(A, p)) \in Nat /\ Cardinality(Below(L, p)) \in Nat
      BY <1>4, <2>1, BelowGrows
    <2>4. Cardinality(Below(F, p)) \in Nat
      BY <1>4, PeerSets
    <2> QED BY <2>1, <2>2, <2>3, <2>4
  <1>8. Ahead(walk, Shown(local, walk.skill, now), Shown(fed, walk.skill, now), A, F)
    BY <1>2, <1>7 DEF Ahead, L, F
  <1>9. Respond(Sorted(A, F), FALSE) /\ walk.phase \in {"pages", "reading"}
    BY <1>1, <1>5, <1>6
  <1> QED BY <1>4, <1>8, <1>9, RespondStep

(* The inductive invariant holds in every state.                           *)
THEOREM DirectoryInvariance == APISpec => []APIInv
  <1>1. APIInit => APIInv
    BY InitIInv, InitFinite DEF APIInit, APIInv, WalkInv
  <1>2. ASSUME APIInv, [APINext]_apiVars PROVE APIInv'
    <2>0. IInv /\ SkillsFinite(local) /\ SkillsFinite(fed) /\ WalkInv
      BY <1>2 DEF APIInv
    <2>1. IInv'
      BY <1>2, <2>0, APIStepRefines, NextIInv
    <2>2. CASE ObservedStep
      <3>1. SkillsFinite(local)' /\ SkillsFinite(fed)'
        BY <2>0, <2>2, StepFinite DEF SkillsFinite
      <3>2. WalkInv'
        BY <2>0, <2>1, <2>2, ObserveStep DEF ObservedStep
      <3> QED BY <2>1, <3>1, <3>2 DEF APIInv
    <2>3. ASSUME UNCHANGED vars PROVE SkillsFinite(local)' /\ SkillsFinite(fed)'
      BY <2>0, <2>3 DEF SkillsFinite, vars
    <2>4. ASSUME NEW skill \in AskedSkills, NEW limit \in AskedLimits, StartWalk(skill, limit)
          PROVE  APIInv'
      <3>1. WalkInv'
        BY <2>0, <2>4, StartStep
      <3>2. UNCHANGED vars
        BY <2>4 DEF StartWalk
      <3> QED BY <2>1, <2>3, <3>1, <3>2 DEF APIInv
    <2>5. CASE ListAgentsBySkill \/ ListAgentsLocal \/ ListAgentsFederated
      <3>1. WalkInv'
        BY <2>0, <2>5, BySkillStep, ReadLocalStep, ReadFederatedStep
      <3>2. UNCHANGED vars
        BY <2>5 DEF ListAgentsBySkill, ListAgentsLocal, ListAgentsFederated, Respond
      <3> QED BY <2>1, <2>3, <3>1, <3>2 DEF APIInv
    <2>6. CASE UNCHANGED apiVars
      <3>1. UNCHANGED vars /\ walk' = walk
        BY <2>6 DEF apiVars
      <3>2. WalkInv'
        BY <2>0, <3>1 DEF WalkInv, vars
      <3> QED BY <2>1, <2>3, <3>1, <3>2 DEF APIInv
    <2> QED BY <1>2, <2>2, <2>4, <2>5, <2>6 DEF APINext
  <1> QED BY <1>1, <1>2, PTL DEF APISpec

(* The tables and the walk keep their types, and no walk asks for a page   *)
(* beyond what both tables can hold.                                       *)
THEOREM DirectoryTypeCorrect == APISpec => []APITypeOK
  <1>1. APIInv => APITypeOK
    <2> SUFFICES ASSUME APIInv PROVE APITypeOK
      OBVIOUS
    <2>1. TypeOK
      BY IInvImplies DEF APIInv
    <2>2. CASE walk = NoWalk
      BY <2>1, <2>2 DEF APITypeOK, Walks
    <2>3. CASE walk # NoWalk
      <3>1. WalkOK(walk, Shown(local, walk.skill, now), Shown(fed, walk.skill, now))
        BY <2>3 DEF APIInv, WalkInv
      <3>2. walk \in Walks /\ walk.offset <= 2 * Cardinality(Peers)
        BY <3>1 DEF WalkOK, WalkRecs, Walks
      <3> QED BY <2>1, <3>2 DEF APITypeOK
    <2> QED BY <2>2, <2>3
  <1> QED BY <1>1, DirectoryInvariance, PTL

(* A client that walks through the pages of handleListAgents while the     *)
(* registry changes misses an agent that is listed all the time only for   *)
(* one of three reasons: an entry before its own left meanwhile, it left   *)
(* the federated table between the two reads of a request, or more agents  *)
(* offer the skill than a query returns.  The tables may be of any size.   *)
THEOREM PagesMissOnlyByShift == APISpec => []MissedOnlyByShift
  <1>1. APIInv => MissedOnlyByShift
    <2> SUFFICES ASSUME APIInv, walk.phase = "over"
                 PROVE  \A p \in walk.steady \ walk.seen :
                            (\E q \in walk.left : q < p) \/ p \in walk.moved \/ walk.cut
      BY DEF MissedOnlyByShift
    <2>1. WalkOK(walk, Shown(local, walk.skill, now), Shown(fed, walk.skill, now))
      BY WalkCases DEF APIInv
    <2>2. walk.steady \subseteq Peers /\ \A p \in Peers : ~Owed(walk, p)
      BY <2>1 DEF WalkOK, WalkRecs
    <2> QED BY <2>2 DEF Owed
  <1> QED BY <1>1, DirectoryInvariance, PTL

(* In every reachable state the list, the detail page, discovery, which    *)
(* may reach its limit, the MCP tools and the statistics agree about who   *)
(* is there, whatever the size of the tables.                              *)
THEOREM ViewsAlwaysAgree == APISpec => []ViewsAgree
  <1>1. APIInv => ViewsAgree
    BY ViewsFromInv DEF APIInv
  <1> QED BY <1>1, DirectoryInvariance, PTL

=============================================================================
