---------------------------- MODULE RegistryProofs ----------------------------
(***************************************************************************)
(* Proofs about Registry.tla for all values of its constants.              *)
(***************************************************************************)
EXTENDS Registry, RegistryOpsProofs

-----------------------------------------------------------------------------
(* The inductive invariant: the conjunction of the invariants the runs     *)
(* check.  None of them is inductive alone.  An index is exact after       *)
(* removeFromSkillIndex only if it listed every skill of the old           *)
(* registration before, the counters match only while the tables are       *)
(* finite functions on Peers, and the index only speaks of skills the      *)
(* stored registrations may name.                                          *)

Offering(T) ==
    \A p \in DOMAIN T.entries :
        T.entries[p].skills # {} /\ NoID \notin IDs(T.entries[p].skills)

LocalInv ==
    /\ TableOK(local, {LocalOrigin})
    /\ Cardinality(DOMAIN local.entries) <= MaxRegistrations
    /\ Offering(local)

FedInv ==
    /\ TableOK(fed, Relays)
    /\ Cardinality(DOMAIN fed.entries) <= MaxFederatedRegistrations

CleanupTypeOK == ticked \in BOOLEAN /\ closed \in BOOLEAN /\ running \in BOOLEAN

IInv == now \in 0 .. MaxTime /\ LocalInv /\ FedInv /\ CleanupTypeOK

(* The inductive invariant implies the invariants the runs check.          *)
LEMMA IInvImplies ==
    IInv => TypeOK /\ IndexConsistent /\ CountsHonest /\ SlotsOfferSkills
  BY DEF IInv, LocalInv, FedInv, CleanupTypeOK, TableOK, CountExact, Offering,
         TypeOK, IndexConsistent, CountsHonest, SlotsOfferSkills

(* The inductive invariant holds when New returns.                         *)
LEMMA InitIInv == Init => IInv
  <1> SUFFICES ASSUME Init PROVE IInv
    OBVIOUS
  <1>1. TableOK(local, {LocalOrigin}) /\ TableOK(fed, Relays)
    BY EmptyTableOK DEF Init
  <1>2. DOMAIN local.entries = {} /\ DOMAIN fed.entries = {}
    BY DEF Init, EmptyTable, EmptyMap
  <1>3. Cardinality(DOMAIN local.entries) = 0 /\ Cardinality(DOMAIN fed.entries) = 0
    BY <1>2, FS_EmptySet
  <1>4. LocalInv /\ FedInv
    BY <1>1, <1>2, <1>3, LimitsAssumption DEF LocalInv, FedInv, Offering
  <1>5. now \in 0 .. MaxTime
    BY InputsAssumption DEF Init
  <1>6. CleanupTypeOK
    BY DEF Init, CleanupTypeOK
  <1> QED BY <1>4, <1>5, <1>6 DEF IInv

(* RemovePeer, and the local half of evictExpired, keep the local part.    *)
LEMMA DropLocal ==
    ASSUME LocalInv, NEW P, local' = Drop(local, P)
    PROVE  LocalInv'
  <1>1. TableOK(local', {LocalOrigin})
    BY DropOK DEF LocalInv
  <1>2. Cardinality(DOMAIN local'.entries) <= MaxRegistrations
    BY SizeBounds, LimitsAssumption DEF LocalInv
  <1>3. Offering(local')
    BY DEF LocalInv, Offering, Drop, Restrict
  <1> QED BY <1>1, <1>2, <1>3 DEF LocalInv, LocalOrigin

(* Every operation of the registry preserves the inductive invariant.      *)
LEMMA NextIInv == IInv /\ [Next]_vars => IInv'
  <1> SUFFICES ASSUME IInv, [Next]_vars PROVE IInv'
    OBVIOUS
  <1> USE DEF IInv
  <1>t. now \in Int
    BY InputsAssumption
  <1>1. ASSUME NEW p \in Peers \cup {NoID}, NEW skills \in SkillLists,
               RegisterSkills(p, skills)
        PROVE  IInv'
    <2> DEFINE reg == NewRegistration(skills, now)
    <2>1. p \in Peers /\ local' = Store(local, p, reg)
      BY <1>1 DEF RegisterSkills, Register
    <2>2. reg \in RegistrationFrom({LocalOrigin})
      BY <1>t, InputsAssumption, LimitsAssumption DEF NewRegistration, RegistrationFrom
    <2>3. reg.skills = skills
      BY DEF NewRegistration
    <2> HIDE DEF reg
    <2>4. TableOK(local', {LocalOrigin})
      BY <2>1, <2>2, StoreOK DEF LocalInv
    <2>5. Cardinality(DOMAIN local'.entries) <= MaxRegistrations
      BY <1>1, <2>1, SizeBounds, LimitsAssumption DEF LocalInv, RegisterSkills, CanRegister
    <2>6. Offering(local')
      BY <1>1, <2>1, <2>3 DEF LocalInv, Offering, Store, SetEntry, RegisterSkills
    <2> QED BY <1>1, <2>4, <2>5, <2>6
            DEF RegisterSkills, LocalInv, FedInv, CleanupTypeOK, cleanupVars
  <1>2. ASSUME NEW p \in Peers \cup {NoID}, NEW ids \in SUBSET SkillIDs,
               UnregisterSkills(p, ids)
        PROVE  IInv'
    <2>1. p \in DOMAIN local.entries /\ local' = Unregister(local, p, ids)
      BY <1>2 DEF UnregisterSkills
    <2>2. LocalInv'
      <3> DEFINE filtered == {sk \in local.entries[p].skills : sk.id \notin ids}
      <3>1. CASE ids = {} \/ filtered = {}
        BY <2>1, <3>1, DropLocal DEF Unregister
      <3>2. CASE ~(ids = {} \/ filtered = {})
        <4>1. TableOK(local', {LocalOrigin})
          BY <2>1, UnregisterOK DEF LocalInv
        <4>2. local'.entries = [local.entries EXCEPT
                    ![p] = [local.entries[p] EXCEPT !.skills = filtered]]
          BY <2>1, <3>2 DEF Unregister, LocalInv, TableOK, TableTypeOK
        <4>3. local.entries[p] \in RegistrationFrom({LocalOrigin})
          BY <2>1 DEF LocalInv, TableOK, TableTypeOK
        <4>4. /\ DOMAIN local'.entries = DOMAIN local.entries
              /\ local'.entries[p].skills = filtered
              /\ \A q \in DOMAIN local.entries \ {p} : local'.entries[q] = local.entries[q]
          BY <2>1, <4>2, <4>3 DEF LocalInv, TableOK, TableTypeOK, RegistrationFrom
        <4>5. IDs(filtered) \subseteq IDs(local.entries[p].skills)
          BY DEF IDs
        <4>6. Offering(local')
          BY <2>1, <3>2, <4>4, <4>5 DEF LocalInv, Offering
        <4> QED BY <4>1, <4>4, <4>6 DEF LocalInv, LocalOrigin
      <3> QED BY <3>1, <3>2
    <2> QED BY <1>2, <2>2 DEF UnregisterSkills, FedInv, CleanupTypeOK, cleanupVars
  <1>3. ASSUME NEW p \in Peers \cup {NoID}, HeartbeatRPC(p)
        PROVE  IInv'
    <2>1. p \in DOMAIN local.entries /\ local' = Heartbeat(local, p, now)
      BY <1>3 DEF HeartbeatRPC
    <2>2. TableOK(local', {LocalOrigin})
      BY <1>t, <2>1, HeartbeatOK DEF LocalInv
    <2>3. local'.entries = [local.entries EXCEPT
                    ![p] = [local.entries[p] EXCEPT !.expiresAt = now + TTL]]
      BY <2>1 DEF Heartbeat, LocalInv, TableOK, TableTypeOK
    <2>4. local.entries[p] \in RegistrationFrom({LocalOrigin})
      BY <2>1 DEF LocalInv, TableOK, TableTypeOK
    <2>5. /\ DOMAIN local'.entries = DOMAIN local.entries
          /\ \A q \in DOMAIN local.entries :
                local'.entries[q].skills = local.entries[q].skills
      BY <2>1, <2>3, <2>4 DEF LocalInv, TableOK, TableTypeOK, RegistrationFrom
    <2>6. LocalInv'
      BY <2>2, <2>5 DEF LocalInv, Offering, LocalOrigin
    <2> QED BY <1>3, <2>6 DEF HeartbeatRPC, FedInv, CleanupTypeOK, cleanupVars
  <1>4. ASSUME NEW p \in Peers, RemovePeer(p)
        PROVE  IInv'
    BY <1>4, DropLocal DEF RemovePeer, FedInv, CleanupTypeOK, cleanupVars
  <1>5. ASSUME NEW p \in Peers, NEW reg \in FedUpdates, ReceiveFederated(p, reg)
        PROVE  IInv'
    <2>1. CASE AcceptsFederated(fed, p, reg)
      <3>1. fed' = Store(fed, p, reg)
        BY <1>5, <2>1 DEF ReceiveFederated, RegisterFederated
      <3>2. TableOK(fed', Relays)
        BY <3>1, StoreOK, InputsAssumption DEF FedInv
      <3>3. p \in DOMAIN fed.entries
                \/ Cardinality(DOMAIN fed.entries) < MaxFederatedRegistrations
        BY <2>1 DEF AcceptsFederated
      <3>4. Cardinality(DOMAIN fed'.entries) <= MaxFederatedRegistrations
        BY <3>1, <3>3, SizeBounds, LimitsAssumption DEF FedInv
      <3> QED BY <1>5, <3>2, <3>4
              DEF ReceiveFederated, LocalInv, FedInv, Offering, CleanupTypeOK, cleanupVars
    <2>2. CASE ~AcceptsFederated(fed, p, reg)
      BY <1>5, <2>2 DEF ReceiveFederated, RegisterFederated,
                        LocalInv, FedInv, Offering, CleanupTypeOK, cleanupVars
    <2> QED BY <2>1, <2>2
  <1>6. CASE CleanupLoop
    <2>1. LocalInv'
      BY <1>6, DropLocal DEF CleanupLoop, evictExpired
    <2>2. FedInv'
      <3>1. fed' = Drop(fed, ExpiredPeers(fed, now))
        BY <1>6 DEF CleanupLoop, evictExpired
      <3>2. TableOK(fed', Relays)
        BY <3>1, DropOK DEF FedInv
      <3> QED BY <3>1, <3>2, SizeBounds, LimitsAssumption DEF FedInv
    <2> QED BY <1>6, <2>1, <2>2 DEF CleanupLoop, CleanupTypeOK
  <1>7. CASE CleanupReturn \/ Close \/ Tick \/ UNCHANGED vars
    <2>1. local' = local /\ fed' = fed
      BY <1>7 DEF CleanupReturn, Close, Tick, vars
    <2>2. now' \in 0 .. MaxTime
      BY <1>7, InputsAssumption DEF CleanupReturn, Close, Tick, vars
    <2>3. CleanupTypeOK'
      BY <1>7 DEF CleanupReturn, Close, Tick, vars, cleanupVars, CleanupTypeOK
    <2> QED BY <2>1, <2>2, <2>3 DEF LocalInv, FedInv, Offering
  <1> QED BY <1>1, <1>2, <1>3, <1>4, <1>5, <1>6, <1>7 DEF Next

(* The inductive invariant holds in every reachable state.                 *)
THEOREM Invariance == Spec => []IInv
  BY InitIInv, NextIInv, PTL DEF Spec

(* Every reachable state of the registry is well typed, with each kind of  *)
(* registration in its own table.                                          *)
THEOREM TypeCorrect == Spec => []TypeOK
  BY Invariance, IInvImplies, PTL

(* The inverted indexes of the registry agree with its maps in every       *)
(* reachable state, for any number of peers, skills and registrations.     *)
THEOREM IndexAlwaysConsistent == Spec => []IndexConsistent
  BY Invariance, IInvImplies, PTL

(* localCount and federatedCount are the sizes of the maps, which never    *)
(* exceed their limits.                                                    *)
THEOREM CountsAlwaysHonest == Spec => []CountsHonest
  BY Invariance, IInvImplies, PTL

(* No slot of the registry is ever held by an agent without skills.        *)
THEOREM SlotsAlwaysOfferSkills == Spec => []SlotsOfferSkills
  BY Invariance, IInvImplies, PTL

-----------------------------------------------------------------------------
(* Last writer wins *)

LaterWriter(new, old) ==
    \/ new = old
    \/ new.version > old.version
    \/ new.version = old.version /\ new.origin < old.origin

(* No single step takes a federated registration back.                     *)
LEMMA StepNeverRegresses ==
    ASSUME IInv, [Next]_vars, NEW p \in DOMAIN fed.entries, p \in DOMAIN fed'.entries
    PROVE  LaterWriter(fed'.entries[p], fed.entries[p])
  <1>1. ASSUME NEW q \in Peers, NEW reg \in FedUpdates, ReceiveFederated(q, reg)
        PROVE  LaterWriter(fed'.entries[p], fed.entries[p])
    <2>1. CASE AcceptsFederated(fed, q, reg) /\ q = p
      <3>1. fed'.entries[p] = reg
        BY <1>1, <2>1 DEF ReceiveFederated, RegisterFederated, Store, SetEntry
      <3>2. /\ reg.version \in Int /\ fed.entries[p].version \in Int
            /\ reg.origin \in Int /\ fed.entries[p].origin \in Int
        BY InputsAssumption, SetsAssumption
           DEF IInv, FedInv, TableOK, TableTypeOK, RegistrationFrom
      <3> QED BY <2>1, <3>1, <3>2 DEF AcceptsFederated, LaterWriter
    <2>2. CASE ~(AcceptsFederated(fed, q, reg) /\ q = p)
      BY <1>1, <2>2 DEF ReceiveFederated, RegisterFederated, Store, SetEntry, LaterWriter
    <2> QED BY <2>1, <2>2
  <1>2. CASE CleanupLoop
    BY <1>2 DEF CleanupLoop, evictExpired, Drop, Restrict, LaterWriter
  <1>3. CASE fed' = fed
    BY <1>3 DEF LaterWriter
  <1>4. \/ \E q \in Peers, reg \in FedUpdates : ReceiveFederated(q, reg)
        \/ CleanupLoop
        \/ fed' = fed
    BY DEF Next, RegisterSkills, UnregisterSkills, HeartbeatRPC, RemovePeer,
           CleanupReturn, Close, Tick, vars
  <1> QED BY <1>1, <1>2, <1>3, <1>4

(* Federated registrations move only forward in the last-writer-wins       *)
(* order, for any updates delivered in any order and any number of times.  *)
THEOREM LastWriterWins == Spec => FederatedNeverRegresses
  <1>1. IInv /\ [Next]_vars =>
            [\A p \in DOMAIN fed.entries \cap DOMAIN fed'.entries :
                LET old == fed.entries[p]  new == fed'.entries[p]
                IN  \/ new = old
                    \/ new.version > old.version
                    \/ new.version = old.version /\ new.origin < old.origin]_vars
    BY StepNeverRegresses DEF LaterWriter
  <1> QED BY <1>1, Invariance, PTL DEF Spec, FederatedNeverRegresses

-----------------------------------------------------------------------------
(* Discovery *)

(* What DiscoverBySkill finds through the index is what a scan finds.      *)
LEMMA CandidatesAreScan ==
    ASSUME IInv, NEW T, NEW origins, TableOK(T, origins),
           NEW s \in SkillIDs, NEW filter
    PROVE  /\ Candidates(T, s, filter, now) = Scan(T, s, filter)
           /\ IsFiniteSet(Scan(T, s, filter))
  <1>1. \A p \in DOMAIN T.entries : now \in Int /\ T.entries[p].expiresAt \in Int
    BY InputsAssumption DEF IInv, TableOK, TableTypeOK, RegistrationFrom
  <1>2. \A p \in Peers : Lists(T.skillIndex, s, p) <=> Names(T, s, p)
    BY IndexExactRelation DEF TableOK
  <1>3. \A p : Lists(T.skillIndex, s, p) => p \in Peers
    BY DEF Lists, TableOK, TableTypeOK
  <1>4. \A p \in DOMAIN T.entries : hasSkill(T.entries[p], s, filter) => Names(T, s, p)
    BY DEF hasSkill, Names, IDs
  <1>5. DOMAIN T.entries \subseteq Peers
    BY DEF TableOK, TableTypeOK
  <1>6. ASSUME NEW p
        PROVE  p \in Candidates(T, s, filter, now) <=> p \in Scan(T, s, filter)
    <2>1. p \in Candidates(T, s, filter, now) <=>
            /\ Lists(T.skillIndex, s, p)
            /\ p \in DOMAIN T.entries
            /\ ~Expired(T.entries[p], now)
            /\ hasSkill(T.entries[p], s, filter)
      BY DEF Candidates, Lists
    <2>2. p \in Scan(T, s, filter) <=>
            /\ p \in DOMAIN T.entries
            /\ now <= T.entries[p].expiresAt
            /\ hasSkill(T.entries[p], s, filter)
      BY DEF Scan
    <2>3. p \in DOMAIN T.entries =>
            (~Expired(T.entries[p], now) <=> now <= T.entries[p].expiresAt)
      BY <1>1 DEF Expired
    <2> QED BY <1>2, <1>4, <1>5, <2>1, <2>2, <2>3
  <1>7. Scan(T, s, filter) \in SUBSET Peers
    BY <1>5 DEF Scan
  <1> QED BY <1>6, <1>7, FS_Subset, SetsAssumption

(* The answers of a loop that stops at a limit: at most that many, and all *)
(* of them if there is room.                                               *)
LEMMA UpToCuts ==
    ASSUME NEW S, IsFiniteSet(S), NEW n \in Nat, NEW A \in UpTo(n, S)
    PROVE  /\ A \subseteq S
           /\ IsFiniteSet(A)
           /\ Cardinality(A) \in Nat
           /\ Cardinality(A) <= n
           /\ Cardinality(A) < n => A = S
  <1>1. A \in SUBSET S
    BY DEF UpTo
  <1>2. IsFiniteSet(A) /\ Cardinality(A) \in Nat /\ Cardinality(S) \in Nat
    BY <1>1, FS_Subset, FS_CardinalityType
  <1> QED BY <1>1, <1>2 DEF UpTo

(* An answer to a query for at most n of the matches L and F from the two  *)
(* tables: no peer twice, and below the limit all of them.                 *)
AnswerOK(a, L, F, n) ==
    /\ a.local \subseteq L /\ a.fed \subseteq F \ L
    /\ IsFiniteSet(L) /\ IsFiniteSet(F)
    /\ Cardinality(a.local) + Cardinality(a.fed) <= n
    /\ Cardinality(a.local) + Cardinality(a.fed) < n => a.local = L /\ a.fed = F \ L

(* The answers of DiscoverBySkill are such, with the matches of a scan.    *)
LEMMA AnswerIs ==
    ASSUME IInv, NEW s \in SkillIDs, NEW filter \in Filters, NEW both \in BOOLEAN,
           NEW limit \in 0 .. MaxDiscoverLimit + 1,
           NEW a \in DiscoverBySkill(local, fed, s, filter, limit, both, now)
    PROVE  AnswerOK(a, Scan(local, s, filter), IF both THEN Scan(fed, s, filter) ELSE {},
                    ClampLimit(limit))
  <1> DEFINE L == Scan(local, s, filter)
             F == IF both THEN Scan(fed, s, filter) ELSE {}
             n == ClampLimit(limit)
  <1>1. /\ Candidates(local, s, filter, now) = L
        /\ Candidates(fed, s, filter, now) = Scan(fed, s, filter)
        /\ IsFiniteSet(L)
        /\ IsFiniteSet(Scan(fed, s, filter))
    BY CandidatesAreScan DEF IInv, LocalInv, FedInv
  <1>2. IsFiniteSet(F)
    BY <1>1, FS_EmptySet
  <1>3. PICK A \in UpTo(n, L) :
            \E B \in UpTo(n - Cardinality(A),
                           IF both THEN Scan(fed, s, filter) \ A ELSE {}) :
                a = [local |-> A, fed |-> B]
    BY <1>1 DEF DiscoverBySkill
  <1>4. (IF both THEN Scan(fed, s, filter) \ A ELSE {}) = F \ A
    OBVIOUS
  <1>5. PICK B \in UpTo(n - Cardinality(A), F \ A) : a = [local |-> A, fed |-> B]
    BY <1>3, <1>4
  <1>6. n \in Nat
    BY LimitsAssumption DEF ClampLimit
  <1> HIDE DEF L, F, n
  <1>7. /\ A \subseteq L /\ Cardinality(A) \in Nat /\ Cardinality(A) <= n
        /\ Cardinality(A) < n => A = L
    BY <1>1, <1>6, UpToCuts
  <1>8. IsFiniteSet(F \ A) /\ n - Cardinality(A) \in Nat
    <2>1. IsFiniteSet(F \ A)
      BY <1>2, FS_Difference
    <2>2. n - Cardinality(A) \in Nat
      BY <1>6, <1>7
    <2> QED BY <2>1, <2>2
  <1>9. /\ B \subseteq F \ A /\ IsFiniteSet(B) /\ Cardinality(B) \in Nat
        /\ Cardinality(B) <= n - Cardinality(A)
        /\ Cardinality(B) < n - Cardinality(A) => B = F \ A
    BY <1>8, UpToCuts
  <1>10. B \subseteq F \ L
    <2>1. CASE Cardinality(A) < n
      BY <1>7, <1>9, <2>1
    <2>2. CASE Cardinality(A) = n
      <3>1. Cardinality(B) = 0
        BY <1>6, <1>9, <2>2
      <3> QED BY <1>9, <3>1, FS_EmptySet
    <2> QED BY <1>6, <1>7, <2>1, <2>2
  <1>11. Cardinality(A) + Cardinality(B) < n => A = L /\ B = F \ L
    BY <1>6, <1>7, <1>9
  <1>12. Cardinality(A) + Cardinality(B) <= n
    BY <1>6, <1>7, <1>9
  <1>13. AnswerOK(a, L, F, n)
    BY <1>1, <1>2, <1>5, <1>7, <1>10, <1>11, <1>12 DEF AnswerOK
  <1> QED BY <1>13 DEF L, F, n

(* The inductive invariant makes every answer of DiscoverBySkill exact.    *)
LEMMA IInvDiscover == IInv => DiscoverExact
  <1> SUFFICES ASSUME IInv,
                      NEW s \in SkillIDs, NEW filter \in Filters, NEW both \in BOOLEAN,
                      NEW limit \in 0 .. MaxDiscoverLimit + 1,
                      NEW a \in DiscoverBySkill(local, fed, s, filter, limit, both, now)
               PROVE  LET L == Scan(local, s, filter)
                          F == IF both THEN Scan(fed, s, filter) ELSE {}
                          n == ClampLimit(limit)
                      IN  /\ a.local \subseteq L
                          /\ a.fed \subseteq F \ L
                          /\ Cardinality(a.local) + Cardinality(a.fed) <= n
                          /\ Cardinality(a.local) + Cardinality(a.fed) < n =>
                                a.local = L /\ F \ LiveLocal \subseteq a.fed
    BY DEF DiscoverExact
  <1> DEFINE L == Scan(local, s, filter)
             F == IF both THEN Scan(fed, s, filter) ELSE {}
             n == ClampLimit(limit)
  <1>1. /\ a.local \subseteq L /\ a.fed \subseteq F \ L
        /\ Cardinality(a.local) + Cardinality(a.fed) <= n
        /\ Cardinality(a.local) + Cardinality(a.fed) < n => a.local = L /\ a.fed = F \ L
    <2>1. AnswerOK(a, L, F, n)
      BY AnswerIs
    <2> QED BY <2>1 DEF AnswerOK
  <1>2. L \subseteq LiveLocal
    BY DEF Scan, LiveLocal
  <1> HIDE DEF L, F, n
  <1>3. F \ LiveLocal \subseteq F \ L
    BY <1>2
  <1> QED BY <1>1, <1>3 DEF L, F, n

(* Discovery through the index answers like a scan of the whole tables, in *)
(* every reachable state.                                                  *)
THEOREM DiscoverAlwaysExact == Spec => []DiscoverExact
  BY Invariance, IInvDiscover, PTL

-----------------------------------------------------------------------------
(* The registry implements the directory of leased offers *)

LeaseOf(reg) == [skills |-> reg.skills, until |-> reg.expiresAt]

(* The refinement mapping of Directory, by name.                           *)
MappedOffer ==
    [p \in Peers |->
        IF p \in DOMAIN local.entries
        THEN [skills |-> Visible(p), until |-> local.entries[p].expiresAt]
        ELSE [skills |-> {}, until |-> -1]]

(* The mapping without the index.                                          *)
LeaseTable ==
    [p \in Peers |->
        IF p \in DOMAIN local.entries THEN LeaseOf(local.entries[p])
        ELSE Directory!NoOffer]

(* The index shows the whole of every registration.                        *)
LEMMA IndexHidesNothing == IInv => MappedOffer = LeaseTable
  <1> SUFFICES ASSUME IInv, NEW p \in Peers, p \in DOMAIN local.entries
               PROVE  Visible(p) = local.entries[p].skills
    BY DEF MappedOffer, LeaseTable, LeaseOf, Directory!NoOffer
  <1>1. local.entries[p].skills \subseteq SkillInfo
    BY DEF IInv, LocalInv, TableOK, TableTypeOK, RegistrationFrom
  <1>2. \A sk \in local.entries[p].skills :
            sk.id \in SkillIDs \cup {NoID} /\ Names(local, sk.id, p)
    BY <1>1 DEF Names, IDs, SkillInfo
  <1>3. \A sk \in local.entries[p].skills : Lists(local.skillIndex, sk.id, p)
    BY <1>2, IndexExactRelation DEF IInv, LocalInv, TableOK
  <1> QED BY <1>3 DEF Visible, Lists

(* Every step of the registry is a step of the directory, or leaves it as  *)
(* it is.                                                                  *)
LEMMA StepRefines ==
    ASSUME IInv, MappedOffer = LeaseTable, MappedOffer' = LeaseTable', [Next]_vars
    PROVE  [Directory!Next]_Directory!dvars
  <1>d. /\ DOMAIN local.entries \subseteq Peers
        /\ local.entries \in [DOMAIN local.entries -> RegistrationFrom({LocalOrigin})]
    BY DEF IInv, LocalInv, TableOK, TableTypeOK
  <1>n. \A p \in DOMAIN local.entries :
            /\ LeaseTable[p].skills = local.entries[p].skills
            /\ LeaseTable[p].until = local.entries[p].expiresAt
            /\ LeaseTable[p] # Directory!NoOffer
    BY <1>d DEF LeaseTable, LeaseOf, Directory!NoOffer, IInv, LocalInv, Offering
  <1>g. ASSUME NEW p \in Peers, local' = Drop(local, {p}), now' = now
        PROVE  Directory!Leave(p)
    <2>1. LeaseTable' = [LeaseTable EXCEPT ![p] = Directory!NoOffer]
      BY <1>g DEF LeaseTable, Drop, Restrict
    <2>2. MappedOffer' = [MappedOffer EXCEPT ![p] = Directory!NoOffer]
      BY <2>1
    <2> QED BY <1>g, <2>2 DEF Directory!Leave, MappedOffer
  <1>s. ASSUME now' = now, local' = local
        PROVE  UNCHANGED Directory!dvars
    BY <1>s DEF Directory!dvars, Visible
  <1>1. ASSUME NEW p \in Peers \cup {NoID}, NEW skills \in SkillLists,
               RegisterSkills(p, skills)
        PROVE  p \in Peers /\ skills # {} /\ Directory!Advertise(p, skills)
    <2>1. /\ p \in Peers /\ skills # {} /\ now' = now
          /\ local' = Store(local, p, NewRegistration(skills, now))
      BY <1>1 DEF RegisterSkills, Register
    <2>2. LeaseTable' = [LeaseTable EXCEPT ![p] = [skills |-> skills, until |-> now + TTL]]
      BY <2>1 DEF LeaseTable, LeaseOf, Store, SetEntry, NewRegistration
    <2>3. MappedOffer' = [MappedOffer EXCEPT ![p] = [skills |-> skills, until |-> now + TTL]]
      BY <2>2
    <2> QED BY <2>1, <2>3 DEF Directory!Advertise, MappedOffer
  <1>2. ASSUME NEW p \in Peers \cup {NoID}, NEW ids \in SUBSET SkillIDs,
               UnregisterSkills(p, ids)
        PROVE  p \in Peers /\ (Directory!Withdraw(p, ids) \/ Directory!Leave(p))
    <2> DEFINE filtered == {sk \in local.entries[p].skills : sk.id \notin ids}
    <2>1. /\ p \in DOMAIN local.entries /\ p \in Peers /\ now' = now
          /\ local' = Unregister(local, p, ids)
      BY <1>2, <1>d DEF UnregisterSkills
    <2>2. CASE ids = {} \/ filtered = {}
      BY <1>g, <2>1, <2>2 DEF Unregister
    <2>3. CASE ~(ids = {} \/ filtered = {})
      <3>1. local'.entries = [local.entries EXCEPT
                    ![p] = [local.entries[p] EXCEPT !.skills = filtered]]
        BY <2>1, <2>3 DEF Unregister, IInv, LocalInv, TableOK, TableTypeOK
      <3>2. LeaseTable' = [LeaseTable EXCEPT ![p] = [LeaseTable[p] EXCEPT !.skills = filtered]]
        BY <1>d, <2>1, <3>1 DEF LeaseTable, LeaseOf, RegistrationFrom
      <3>3. filtered = {sk \in LeaseTable[p].skills : sk.id \notin ids}
        BY <1>n, <2>1
      <3> HIDE DEF filtered
      <3>4. /\ MappedOffer[p] # Directory!NoOffer
            /\ filtered = {sk \in MappedOffer[p].skills : sk.id \notin ids}
            /\ MappedOffer' = [MappedOffer EXCEPT ![p].skills = filtered]
        BY <1>n, <2>1, <3>2, <3>3
      <3> QED BY <2>1, <2>3, <3>4 DEF Directory!Withdraw, Directory!Offers, MappedOffer
    <2> QED BY <2>1, <2>2, <2>3
  <1>3. ASSUME NEW p \in Peers \cup {NoID}, HeartbeatRPC(p)
        PROVE  p \in Peers /\ Directory!Renew(p)
    <2>1. /\ p \in DOMAIN local.entries /\ p \in Peers /\ now' = now
          /\ local' = Heartbeat(local, p, now)
      BY <1>3, <1>d DEF HeartbeatRPC
    <2>2. local'.entries = [local.entries EXCEPT
                    ![p] = [local.entries[p] EXCEPT !.expiresAt = now + TTL]]
      BY <2>1 DEF Heartbeat, IInv, LocalInv, TableOK, TableTypeOK
    <2>3. LeaseTable' = [LeaseTable EXCEPT ![p] = [LeaseTable[p] EXCEPT !.until = now + TTL]]
      BY <1>d, <2>1, <2>2 DEF LeaseTable, LeaseOf, RegistrationFrom
    <2>4. /\ MappedOffer[p] # Directory!NoOffer
          /\ MappedOffer' = [MappedOffer EXCEPT ![p].until = now + TTL]
      BY <1>n, <2>1, <2>3
    <2> QED BY <2>1, <2>4 DEF Directory!Renew, Directory!Offers, MappedOffer
  <1>4. ASSUME NEW p \in Peers, RemovePeer(p)
        PROVE  Directory!Leave(p)
    BY <1>4, <1>g DEF RemovePeer
  <1>5. CASE CleanupLoop
    <2>1. PICK P \in SUBSET Peers :
                P = ExpiredPeers(local, now) /\ now' = now /\ local' = Drop(local, P)
      BY <1>5, <1>d DEF CleanupLoop, evictExpired, ExpiredPeers
    <2>2. LeaseTable' = [p \in Peers |->
                IF p \in P THEN Directory!NoOffer ELSE LeaseTable[p]]
      BY <2>1 DEF LeaseTable, Drop, Restrict
    <2>3. \A p \in P : now > LeaseTable[p].until
      BY <1>n, <2>1 DEF ExpiredPeers, Expired
    <2>4. /\ MappedOffer' = [p \in Peers |->
                IF p \in P THEN Directory!NoOffer ELSE MappedOffer[p]]
          /\ \A p \in P : now > MappedOffer[p].until
      BY <2>2, <2>3
    <2>5. Directory!Forget(P)
      BY <2>1, <2>4 DEF Directory!Forget, MappedOffer
    <2> QED BY <2>5 DEF Directory!Next
  <1>6. ASSUME NEW p \in Peers, NEW reg \in FedUpdates, ReceiveFederated(p, reg)
        PROVE  UNCHANGED Directory!dvars
    BY <1>6, <1>s DEF ReceiveFederated
  <1>7. CASE CleanupReturn \/ Close \/ UNCHANGED vars
    BY <1>7, <1>s DEF CleanupReturn, Close, vars
  <1>8. CASE Tick
    <2>1. Directory!Tick
      BY <1>8 DEF Tick, Directory!Tick, Visible
    <2> QED BY <2>1 DEF Directory!Next
  <1> QED BY <1>1, <1>2, <1>3, <1>4, <1>5, <1>6, <1>7, <1>8 DEF Next, Directory!Next

(* The registry, index, counters and clean-up and all, implements the      *)
(* directory of leased offers: agents see an offer replaced, renewed,      *)
(* narrowed or withdrawn as one atomic change, and forgotten only once its *)
(* lease has run out.                                                      *)
THEOREM RegistryImplementsDirectory == Spec => ImplementsDirectory
  <1>1. Init => Directory!Init
    BY DEF Init, Directory!Init, Directory!NoOffer, EmptyTable, EmptyMap
  <1>2. /\ IInv /\ MappedOffer = LeaseTable /\ (MappedOffer = LeaseTable)'
        /\ [Next]_vars
        => [Directory!Next]_Directory!dvars
    BY StepRefines
  <1> QED BY <1>1, <1>2, Invariance, IndexHidesNothing, PTL DEF Spec, ImplementsDirectory, Directory!Spec

=============================================================================
