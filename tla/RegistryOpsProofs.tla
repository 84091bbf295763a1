-------------------------- MODULE RegistryOpsProofs --------------------------
(***************************************************************************)
(* Lemmas about the operators of RegistryOps.tla: every update a method of *)
(* the registry performs keeps a table well typed, its index exact and its *)
(* counter equal to the number of its entries.  The proofs about one relay *)
(* and about the federation both rest on them.                             *)
(***************************************************************************)
EXTENDS RegistryOps, FiniteSetTheorems, TLAPS

-----------------------------------------------------------------------------
(* The index as a relation between skills and peers *)

Lists(index, s, p) == s \in DOMAIN index /\ p \in index[s]
NoEmptyBucket(index) == \A s \in DOMAIN index : index[s] # {}

(* addToSkillIndex lists p under the given skills and changes no other     *)
(* entry.                                                                  *)
LEMMA AddToIndex ==
    ASSUME NEW index, NEW p, NEW skills,
           NEW new, new = addToSkillIndex(index, p, skills)
    PROVE  /\ DOMAIN new = DOMAIN index \cup IDs(skills)
           /\ \A s, q : Lists(new, s, q) <=>
                Lists(index, s, q) \/ (q = p /\ s \in IDs(skills))
           /\ NoEmptyBucket(index) => NoEmptyBucket(new)
  BY DEF addToSkillIndex, Lists, NoEmptyBucket

(* removeFromSkillIndex unlists peers from their skills and deletes the    *)
(* buckets it empties.                                                     *)
LEMMA RemoveFromIndex ==
    ASSUME NEW index, NEW skillsOf,
           NEW new, new = removeFromSkillIndex(index, skillsOf)
    PROVE  /\ DOMAIN new \subseteq DOMAIN index
           /\ \A s, q : Lists(new, s, q) <=>
                Lists(index, s, q) /\ ~(q \in DOMAIN skillsOf /\ s \in IDs(skillsOf[q]))
           /\ NoEmptyBucket(index) => NoEmptyBucket(new)
  BY DEF removeFromSkillIndex, Lists, NoEmptyBucket

-----------------------------------------------------------------------------
(* The invariant of one table *)

TableOK(T, origins) ==
    TableTypeOK(T, origins) /\ IndexExact(T) /\ CountExact(T)

(* A stored registration: p's registration names the skill s.              *)
Names(T, s, p) == p \in DOMAIN T.entries /\ s \in IDs(T.entries[p].skills)

(* IndexExact of a table, as its two halves: what is listed, and no empty  *)
(* bucket.                                                                 *)
LEMMA IndexExactRelation ==
    ASSUME NEW T
    PROVE  IndexExact(T) <=>
            /\ NoEmptyBucket(T.skillIndex)
            /\ \A s \in SkillIDs \cup {NoID}, p \in Peers :
                    Lists(T.skillIndex, s, p) <=> Names(T, s, p)
  BY DEF IndexExact, NoEmptyBucket, Lists, Names

(* The skill IDs of a skill list are skill IDs.                            *)
LEMMA SkillIDsOfInfo ==
    ASSUME NEW skills \in SUBSET SkillInfo
    PROVE  IDs(skills) \subseteq SkillIDs \cup {NoID}
  BY DEF IDs, SkillInfo

(* A new registry's tables are consistent.                                 *)
LEMMA EmptyTableOK ==
    ASSUME NEW origins
    PROVE  TableOK(EmptyTable, origins)
  BY FS_EmptySet DEF TableOK, TableTypeOK, IndexExact, CountExact, EmptyTable, EmptyMap

(* Register and RegisterFederated, once they accept. *)
LEMMA StoreOK ==
    ASSUME NEW origins, NEW T, TableOK(T, origins),
           NEW p \in Peers, NEW reg \in RegistrationFrom(origins)
    PROVE  TableOK(Store(T, p, reg), origins)
  <1> DEFINE N   == Store(T, p, reg)
             cut == removeFromSkillIndex(T.skillIndex, SkillsOf(T, {p}))
  <1>1. /\ N.entries = SetEntry(T.entries, p, reg)
        /\ N.skillIndex = addToSkillIndex(cut, p, reg.skills)
        /\ N.count = IF p \in DOMAIN T.entries THEN T.count ELSE T.count + 1
        /\ N = [entries |-> N.entries, skillIndex |-> N.skillIndex, count |-> N.count]
    BY DEF Store
  <1>a. cut = removeFromSkillIndex(T.skillIndex, SkillsOf(T, {p}))
    OBVIOUS
  <1> HIDE DEF N, cut
  <1>b. /\ DOMAIN N.skillIndex = DOMAIN cut \cup IDs(reg.skills)
        /\ \A s, q : Lists(N.skillIndex, s, q) <=>
                Lists(cut, s, q) \/ (q = p /\ s \in IDs(reg.skills))
        /\ NoEmptyBucket(cut) => NoEmptyBucket(N.skillIndex)
    <2>1. N.skillIndex = addToSkillIndex(cut, p, reg.skills)
      BY <1>1
    <2> QED BY ONLY <2>1, AddToIndex
  <1>2. DOMAIN N.entries = DOMAIN T.entries \cup {p}
    BY <1>1 DEF SetEntry
  <1>3. IDs(reg.skills) \subseteq SkillIDs \cup {NoID}
    BY SkillIDsOfInfo DEF RegistrationFrom
  <1>4. DOMAIN N.skillIndex \subseteq SkillIDs \cup {NoID}
    <2>1. DOMAIN cut \subseteq DOMAIN T.skillIndex
      BY <1>a, RemoveFromIndex
    <2> QED BY <1>b, <1>3, <2>1 DEF TableOK, TableTypeOK
  <1>5. \A s, q : Lists(N.skillIndex, s, q) <=>
            \/ q = p /\ s \in IDs(reg.skills)
            \/ Lists(T.skillIndex, s, q) /\ ~(q = p /\ Names(T, s, p))
    <2>1. \A s, q : Lists(cut, s, q) <=>
            Lists(T.skillIndex, s, q) /\ ~(q = p /\ Names(T, s, p))
      BY <1>a, RemoveFromIndex DEF SkillsOf, Names
    <2> QED BY <1>b, <2>1
  <1>6. TableTypeOK(N, origins)
    <2>1. N.entries \in [DOMAIN N.entries -> RegistrationFrom(origins)]
      BY <1>1 DEF SetEntry, TableOK, TableTypeOK
    <2>2. N.skillIndex \in [DOMAIN N.skillIndex -> SUBSET Peers]
      <3>1. \A s \in DOMAIN N.skillIndex : N.skillIndex[s] \subseteq Peers
        BY <1>5 DEF Lists, TableOK, TableTypeOK
      <3> QED BY <1>1, <3>1 DEF addToSkillIndex
    <2> QED BY <1>2, <1>4, <2>1, <2>2, <1>1 DEF TableOK, TableTypeOK
  <1>7. IndexExact(N)
    <2>1. NoEmptyBucket(N.skillIndex)
      BY <1>b, <1>a, RemoveFromIndex, IndexExactRelation DEF TableOK
    <2>2. \A s \in SkillIDs \cup {NoID}, q \in Peers :
            Lists(N.skillIndex, s, q) <=> Names(N, s, q)
      BY <1>1, <1>5, IndexExactRelation DEF TableOK, Names, SetEntry
    <2> QED BY <2>1, <2>2, IndexExactRelation
  <1>8. CountExact(N)
    <2>1. IsFiniteSet(DOMAIN T.entries)
      BY FS_Subset, SetsAssumption DEF TableOK, TableTypeOK
    <2> QED BY <1>1, <1>2, <2>1, FS_AddElement DEF TableOK, CountExact
  <1> QED BY <1>6, <1>7, <1>8 DEF TableOK, N

(* Unregister of everything, RemovePeer and evictExpired. *)
LEMMA DropOK ==
    ASSUME NEW origins, NEW T, TableOK(T, origins), NEW P
    PROVE  TableOK(Drop(T, P), origins)
  <1> DEFINE N == Drop(T, P)
             K == P \cap DOMAIN T.entries
  <1>1. /\ N.entries = Restrict(T.entries, DOMAIN T.entries \ K)
        /\ N.skillIndex = removeFromSkillIndex(T.skillIndex, SkillsOf(T, K))
        /\ N.count = T.count - Cardinality(K)
        /\ N = [entries |-> N.entries, skillIndex |-> N.skillIndex, count |-> N.count]
    BY DEF Drop
  <1> HIDE DEF N
  <1>2. /\ DOMAIN N.entries = DOMAIN T.entries \ K
        /\ \A q \in DOMAIN N.entries : N.entries[q] = T.entries[q]
    BY <1>1 DEF Restrict
  <1>3. \A s, q : Lists(N.skillIndex, s, q) <=>
            Lists(T.skillIndex, s, q) /\ ~(q \in K /\ Names(T, s, q))
    BY <1>1, RemoveFromIndex DEF SkillsOf, Names
  <1>4. TableTypeOK(N, origins)
    <2>1. N.entries \in [DOMAIN N.entries -> RegistrationFrom(origins)]
      BY <1>1, <1>2 DEF Restrict, TableOK, TableTypeOK
    <2>2. DOMAIN N.skillIndex \subseteq SkillIDs \cup {NoID}
      BY <1>1, RemoveFromIndex DEF TableOK, TableTypeOK
    <2>3. N.skillIndex \in [DOMAIN N.skillIndex -> SUBSET Peers]
      <3>1. \A s \in DOMAIN N.skillIndex : N.skillIndex[s] \subseteq Peers
        BY <1>3 DEF Lists, TableOK, TableTypeOK
      <3> QED BY <1>1, <3>1 DEF removeFromSkillIndex
    <2>4. IsFiniteSet(DOMAIN T.entries)
      BY FS_Subset, SetsAssumption DEF TableOK, TableTypeOK
    <2>5. Cardinality(K) \in Nat
      BY <2>4, FS_Subset, FS_CardinalityType
    <2>6. N.count \in Int
      BY <1>1, <2>5 DEF TableOK, TableTypeOK
    <2>7. DOMAIN N.entries \subseteq Peers
      BY <1>2 DEF TableOK, TableTypeOK
    <2> QED BY <1>1, <2>1, <2>2, <2>3, <2>6, <2>7 DEF TableTypeOK
  <1>5. IndexExact(N)
    <2>1. NoEmptyBucket(N.skillIndex)
      BY <1>1, RemoveFromIndex, IndexExactRelation DEF TableOK
    <2>2. \A s \in SkillIDs \cup {NoID}, q \in Peers :
            Lists(N.skillIndex, s, q) <=> Names(N, s, q)
      BY <1>2, <1>3, IndexExactRelation DEF TableOK, Names
    <2> QED BY <2>1, <2>2, IndexExactRelation
  <1>6. CountExact(N)
    <2>1. IsFiniteSet(DOMAIN T.entries)
      BY FS_Subset, SetsAssumption DEF TableOK, TableTypeOK
    <2>2. DOMAIN T.entries \cap K = K
      OBVIOUS
    <2> QED BY <1>1, <1>2, <2>1, <2>2, FS_Difference DEF TableOK, CountExact
  <1> QED BY <1>4, <1>5, <1>6 DEF TableOK, N

(* The skills that go and the skills that stay share no skill ID. *)
LEMMA FilterIDs ==
    ASSUME NEW skills, NEW ids, NEW filtered, filtered = {sk \in skills : sk.id \notin ids}
    PROVE  /\ IDs(filtered) = IDs(skills) \ ids
           /\ IDs(skills \ filtered) = IDs(skills) \cap ids
  BY DEF IDs

(* Unregister keeps a table consistent, whatever skills are withdrawn.     *)
LEMMA UnregisterOK ==
    ASSUME NEW origins, NEW T, TableOK(T, origins), NEW p \in DOMAIN T.entries, NEW ids
    PROVE  TableOK(Unregister(T, p, ids), origins)
  <1> DEFINE N        == Unregister(T, p, ids)
             reg      == T.entries[p]
             filtered == {sk \in reg.skills : sk.id \notin ids}
             removed  == [q \in {p} |-> reg.skills \ filtered]
  <1>1. CASE ids = {} \/ filtered = {}
    BY <1>1, DropOK DEF Unregister
  <1>2. CASE ~(ids = {} \/ filtered = {})
    <2>1. reg \in RegistrationFrom(origins)
      BY DEF TableOK, TableTypeOK
    <2>2. /\ N.entries = [T.entries EXCEPT ![p] = [reg EXCEPT !.skills = filtered]]
          /\ N.skillIndex = removeFromSkillIndex(T.skillIndex, removed)
          /\ N.count = T.count
          /\ N = [entries |-> N.entries, skillIndex |-> N.skillIndex, count |-> N.count]
      BY <1>2, Zenon DEF Unregister, TableOK, TableTypeOK
    <2> HIDE DEF N
    <2>3. /\ DOMAIN N.entries = DOMAIN T.entries
          /\ N.entries \in [DOMAIN N.entries -> RegistrationFrom(origins)]
          /\ N.entries[p].skills = filtered
          /\ \A q \in DOMAIN T.entries \ {p} : N.entries[q] = T.entries[q]
      BY <2>1, <2>2 DEF TableOK, TableTypeOK, RegistrationFrom
    <2>4. \A s, q : Lists(N.skillIndex, s, q) <=>
            Lists(T.skillIndex, s, q) /\ ~(q = p /\ s \in IDs(reg.skills) /\ s \in ids)
      <3>1. IDs(reg.skills \ filtered) = IDs(reg.skills) \cap ids
        BY FilterIDs
      <3>2. \A s, q : Lists(N.skillIndex, s, q) <=>
                Lists(T.skillIndex, s, q)
                    /\ ~(q \in DOMAIN removed /\ s \in IDs(removed[q]))
        BY ONLY <2>2, RemoveFromIndex
      <3> QED BY <3>1, <3>2
    <2>5. TableTypeOK(N, origins)
      <3>1. DOMAIN N.skillIndex \subseteq SkillIDs \cup {NoID}
        BY <2>2, RemoveFromIndex DEF TableOK, TableTypeOK
      <3>2. \A s \in DOMAIN N.skillIndex : N.skillIndex[s] \subseteq Peers
        BY <2>4 DEF Lists, TableOK, TableTypeOK
      <3>3. N.skillIndex \in [DOMAIN N.skillIndex -> SUBSET Peers]
        BY <2>2, <3>2 DEF removeFromSkillIndex
      <3>4. N.count \in Int /\ DOMAIN N.entries \subseteq Peers
        BY <2>2, <2>3 DEF TableOK, TableTypeOK
      <3> QED BY <2>2, <2>3, <3>1, <3>3, <3>4 DEF TableTypeOK
    <2>6. IndexExact(N)
      <3>1. NoEmptyBucket(N.skillIndex)
        BY <2>2, RemoveFromIndex, IndexExactRelation DEF TableOK
      <3>2. IDs(N.entries[p].skills) = IDs(reg.skills) \ ids
        BY <2>3, FilterIDs
      <3>3. \A s, q : Names(N, s, q) <=>
                Names(T, s, q) /\ ~(q = p /\ s \in IDs(reg.skills) /\ s \in ids)
        BY <2>3, <3>2 DEF Names
      <3>4. \A s \in SkillIDs \cup {NoID}, q \in Peers :
                Lists(N.skillIndex, s, q) <=> Names(N, s, q)
        BY <2>4, <3>3, IndexExactRelation DEF TableOK
      <3> QED BY <3>1, <3>4, IndexExactRelation
    <2>7. CountExact(N)
      BY <2>2, <2>3 DEF TableOK, CountExact
    <2> QED BY <2>5, <2>6, <2>7 DEF TableOK, N
  <1> QED BY <1>1, <1>2

(* Heartbeat keeps a table consistent.                                     *)
LEMMA HeartbeatOK ==
    ASSUME NEW origins, NEW T, TableOK(T, origins), NEW p \in DOMAIN T.entries, NEW t \in Int
    PROVE  TableOK(Heartbeat(T, p, t), origins)
  <1> DEFINE N == Heartbeat(T, p, t)
  <1>1. T.entries[p] \in RegistrationFrom(origins)
    BY DEF TableOK, TableTypeOK
  <1>2. /\ N.entries = [T.entries EXCEPT ![p] = [T.entries[p] EXCEPT !.expiresAt = t + TTL]]
        /\ N.skillIndex = T.skillIndex
        /\ N.count = T.count
        /\ N = [entries |-> N.entries, skillIndex |-> N.skillIndex, count |-> N.count]
    BY DEF Heartbeat, TableOK, TableTypeOK
  <1> HIDE DEF N
  <1>3. /\ DOMAIN N.entries = DOMAIN T.entries
        /\ N.entries \in [DOMAIN N.entries -> RegistrationFrom(origins)]
        /\ \A q \in DOMAIN T.entries : N.entries[q].skills = T.entries[q].skills
    BY <1>1, <1>2, LimitsAssumption DEF TableOK, TableTypeOK, RegistrationFrom
  <1>4. TableTypeOK(N, origins)
    <2>1. /\ N.count \in Int
          /\ DOMAIN N.entries \subseteq Peers
          /\ DOMAIN N.skillIndex \subseteq SkillIDs \cup {NoID}
          /\ N.skillIndex \in [DOMAIN N.skillIndex -> SUBSET Peers]
      BY <1>2, <1>3 DEF TableOK, TableTypeOK
    <2> QED BY <1>2, <1>3, <2>1 DEF TableTypeOK
  <1>5. IndexExact(N)
    <2>1. \A s, q : Names(N, s, q) <=> Names(T, s, q)
      BY <1>3 DEF Names
    <2> QED BY <1>2, <2>1, IndexExactRelation DEF TableOK
  <1>6. CountExact(N)
    BY <1>2, <1>3 DEF TableOK, CountExact
  <1> QED BY <1>4, <1>5, <1>6 DEF TableOK, N

(* The size of a table under its updates.                                  *)
LEMMA SizeBounds ==
    ASSUME NEW origins, NEW T, TableOK(T, origins), NEW max \in Nat,
           Cardinality(DOMAIN T.entries) <= max
    PROVE  /\ IsFiniteSet(DOMAIN T.entries)
           /\ \A P : Cardinality(DOMAIN Drop(T, P).entries) <= max
           /\ \A p \in Peers : \A reg :
                (p \in DOMAIN T.entries \/ Cardinality(DOMAIN T.entries) < max)
                    => Cardinality(DOMAIN Store(T, p, reg).entries) <= max
  <1>1. IsFiniteSet(DOMAIN T.entries)
    BY FS_Subset, SetsAssumption DEF TableOK, TableTypeOK
  <1>2. Cardinality(DOMAIN T.entries) \in Nat
    BY <1>1, FS_CardinalityType
  <1>3. ASSUME NEW P
        PROVE  Cardinality(DOMAIN Drop(T, P).entries) <= max
    <2>1. DOMAIN Drop(T, P).entries \in SUBSET DOMAIN T.entries
      BY DEF Drop, Restrict
    <2> QED BY <1>1, <1>2, <2>1, FS_Subset, FS_CardinalityType
  <1>4. ASSUME NEW p \in Peers, NEW reg,
               p \in DOMAIN T.entries \/ Cardinality(DOMAIN T.entries) < max
        PROVE  Cardinality(DOMAIN Store(T, p, reg).entries) <= max
    <2>1. DOMAIN Store(T, p, reg).entries = DOMAIN T.entries \cup {p}
      BY DEF Store, SetEntry
    <2>2. Cardinality(DOMAIN T.entries \cup {p}) =
            IF p \in DOMAIN T.entries
            THEN Cardinality(DOMAIN T.entries) ELSE Cardinality(DOMAIN T.entries) + 1
      BY <1>1, FS_AddElement
    <2> QED BY <1>2, <1>4, <2>1, <2>2
  <1> QED BY <1>1, <1>3, <1>4

-----------------------------------------------------------------------------
(* What the updates do to the registrations of a table *)

(* A registration is stored as it is, next to the others.                  *)
LEMMA StoreEntries ==
    ASSUME NEW T, NEW p, NEW reg
    PROVE  /\ DOMAIN Store(T, p, reg).entries = DOMAIN T.entries \cup {p}
           /\ Store(T, p, reg).entries[p] = reg
           /\ \A q \in DOMAIN T.entries \ {p} : Store(T, p, reg).entries[q] = T.entries[q]
  BY DEF Store, SetEntry

(* The registrations that stay are left as they are.                       *)
LEMMA DropEntries ==
    ASSUME NEW T, NEW P
    PROVE  /\ DOMAIN Drop(T, P).entries = DOMAIN T.entries \ P
           /\ \A q \in DOMAIN T.entries \ P : Drop(T, P).entries[q] = T.entries[q]
  BY DEF Drop, Restrict

SameTimes(a, b) ==
    a.registeredAt = b.registeredAt /\ a.expiresAt = b.expiresAt /\ a.version = b.version

(* Unregister moves no time and no version, and adds no skill.             *)
LEMMA UnregisterEntries ==
    ASSUME NEW origins, NEW T, TableOK(T, origins), NEW p \in DOMAIN T.entries, NEW ids,
           NEW q \in DOMAIN Unregister(T, p, ids).entries
    PROVE  /\ q \in DOMAIN T.entries
           /\ SameTimes(Unregister(T, p, ids).entries[q], T.entries[q])
           /\ Unregister(T, p, ids).entries[q].skills \subseteq T.entries[q].skills
  <1> DEFINE N        == Unregister(T, p, ids)
             filtered == {sk \in T.entries[p].skills : sk.id \notin ids}
  <1>1. CASE ids = {} \/ filtered = {}
    BY <1>1, DropEntries DEF Unregister, SameTimes
  <1>2. CASE ~(ids = {} \/ filtered = {})
    <2>1. N.entries = [T.entries EXCEPT ![p] = [T.entries[p] EXCEPT !.skills = filtered]]
      BY <1>2, Zenon DEF Unregister, TableOK, TableTypeOK
    <2> HIDE DEF N, filtered
    <2>2. T.entries[p] \in RegistrationFrom(origins)
      BY DEF TableOK, TableTypeOK
    <2>3. DOMAIN N.entries = DOMAIN T.entries
      BY <2>1
    <2>4. \A x \in DOMAIN T.entries : SameTimes(N.entries[x], T.entries[x])
      BY <2>1, <2>2 DEF TableOK, TableTypeOK, RegistrationFrom, SameTimes
    <2>5. \A x \in DOMAIN T.entries : N.entries[x].skills \subseteq T.entries[x].skills
      BY <2>1, <2>2 DEF TableOK, TableTypeOK, RegistrationFrom, filtered
    <2> QED BY <2>3, <2>4, <2>5 DEF N
  <1> QED BY <1>1, <1>2

(* Heartbeat moves the expiry of one registration and nothing else.        *)
LEMMA HeartbeatEntries ==
    ASSUME NEW origins, NEW T, TableOK(T, origins), NEW p \in DOMAIN T.entries, NEW t \in Int
    PROVE  LET E == Heartbeat(T, p, t).entries
           IN  /\ DOMAIN E = DOMAIN T.entries
               /\ \A q \in DOMAIN T.entries \ {p} : E[q] = T.entries[q]
               /\ E[p].registeredAt = T.entries[p].registeredAt
               /\ E[p].version = T.entries[p].version
               /\ E[p].skills = T.entries[p].skills
               /\ E[p].expiresAt = t + TTL
  <1>1. T.entries[p] \in RegistrationFrom(origins)
    BY DEF TableOK, TableTypeOK
  <1>2. Heartbeat(T, p, t).entries =
            [T.entries EXCEPT ![p] = [T.entries[p] EXCEPT !.expiresAt = t + TTL]]
    BY DEF Heartbeat, TableOK, TableTypeOK
  <1> QED BY <1>1, <1>2 DEF TableOK, TableTypeOK, RegistrationFrom

=============================================================================
