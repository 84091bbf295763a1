----------------------------- MODULE RegistryOps -----------------------------
(***************************************************************************)
(* The data structures of internal/registry/registry.go and the updates    *)
(* and queries its methods perform under the registry's lock, as operators *)
(* on values.  Registry.tla applies them to one relay, Federation.tla to   *)
(* every relay of a federation.                                            *)
(*                                                                         *)
(* The Registry struct keeps the same three things twice, for local and    *)
(* for federated registrations: a map from peer ID to Registration         *)
(* (entries, federated), an inverted index from skill ID to peer IDs       *)
(* (skillIndex, fedSkillIndex) and a counter (localCount, federatedCount). *)
(* Such a triple is a table here, and a registry is a pair of tables.      *)
(***************************************************************************)
EXTENDS Integers, FiniteSets, Functions

CONSTANTS
    Peers,      \* peer IDs of agents
    SkillIDs,   \* skill identifiers
    Tags,       \* tag values a skill may carry under the one tag key modelled
    Relays,     \* relay IDs; integers stand for the lexicographic order of IDs
    NoID,       \* the empty string, as a peer ID or as a skill ID
    NoTag,      \* "" : also what reading a missing key of a Go map yields
    TTL,                        \* Config.TTL, in clock ticks
    MaxRegistrations,           \* Config.MaxRegistrations
    MaxFederatedRegistrations,  \* Config.MaxFederatedRegistrations
    DefaultDiscoverLimit,       \* results of a query that asks for no limit
    MaxDiscoverLimit            \* results any query may ask for

ASSUME SetsAssumption ==
    /\ IsFiniteSet(Peers)
    /\ NoID \notin Peers
    /\ Relays \subseteq Nat \ {0}

ASSUME LimitsAssumption ==
    /\ TTL \in Nat \ {0}
    /\ MaxRegistrations \in Nat
    /\ MaxFederatedRegistrations \in Nat
    /\ MaxDiscoverLimit \in Nat \ {0}
    /\ DefaultDiscoverLimit \in 1 .. MaxDiscoverLimit

(* Registration.Origin of a local registration, the empty string.          *)
LocalOrigin == 0

(* One element of Registration.Skills.  The description is payload; of the *)
(* tags one key is kept.  A list may name a skill twice, with other tags.  *)
SkillInfo == [id : SkillIDs \cup {NoID}, tag : Tags \cup {NoTag}]

(* The peer ID is the key under which a registration is stored; agent name *)
(* and description are payload.  The order of the skills never matters.    *)
RegistrationFrom(origins) ==
    [skills : SUBSET SkillInfo, registeredAt : Int, expiresAt : Int,
     origin : origins, version : Int]

Registration == RegistrationFrom(Relays \cup {LocalOrigin})

IDs(skills) == {sk.id : sk \in skills}

EmptyMap == [x \in {} |-> x]
EmptyTable == [entries |-> EmptyMap, skillIndex |-> EmptyMap, count |-> 0]

-----------------------------------------------------------------------------
(* Updates *)

addToSkillIndex(index, p, skills) ==
    [s \in DOMAIN index \cup IDs(skills) |->
        (IF s \in DOMAIN index THEN index[s] ELSE {})
            \cup (IF s \in IDs(skills) THEN {p} ELSE {})]

(* Takes each peer p of DOMAIN skillsOf out of the buckets of the skills   *)
(* skillsOf[p]; a bucket that becomes empty is deleted.                    *)
removeFromSkillIndex(index, skillsOf) ==
    LET gone(s) == {p \in DOMAIN skillsOf : s \in IDs(skillsOf[p])}
    IN  [s \in {t \in DOMAIN index : gone(t) = {} \/ index[t] \ gone(t) # {}} |->
            index[s] \ gone(s)]

(* The skills the stored registrations of the peers P list.                *)
SkillsOf(T, P) == [p \in P \cap DOMAIN T.entries |-> T.entries[p].skills]

(* entries[p] = reg *)
SetEntry(entries, p, reg) ==
    [q \in DOMAIN entries \cup {p} |-> IF q = p THEN reg ELSE entries[q]]

(* A mistake to look for: a registration that replaces another one leaves  *)
(* the skills of the old one in the index.                                 *)
StoreWithoutReindex(T, p, reg) ==
    [entries    |-> SetEntry(T.entries, p, reg),
     skillIndex |-> addToSkillIndex(T.skillIndex, p, reg.skills),
     count      |-> IF p \in DOMAIN T.entries THEN T.count ELSE T.count + 1]

(* A mistake to look for: an update of a stored registration is counted as *)
(* a new one.                                                              *)
StoreCountsUpdates(T, p, reg) ==
    [entries    |-> SetEntry(T.entries, p, reg),
     skillIndex |-> addToSkillIndex(
                        removeFromSkillIndex(T.skillIndex, SkillsOf(T, {p})),
                        p, reg.skills),
     count      |-> T.count + 1]

(* What Register and RegisterFederated do once they accept: reindex, store *)
(* and count.                                                              *)
Store(T, p, reg) ==
    [entries    |-> SetEntry(T.entries, p, reg),
     skillIndex |-> addToSkillIndex(
                        removeFromSkillIndex(T.skillIndex, SkillsOf(T, {p})),
                        p, reg.skills),
     count      |-> IF p \in DOMAIN T.entries THEN T.count ELSE T.count + 1]

(* Unregister without skill IDs, RemovePeer, and the loops of evictExpired: *)
(* the entries of the peers P go, with their index entries and their count. *)
Drop(T, P) ==
    LET K == P \cap DOMAIN T.entries
    IN  [entries    |-> Restrict(T.entries, DOMAIN T.entries \ K),
         skillIndex |-> removeFromSkillIndex(T.skillIndex, SkillsOf(T, K)),
         count      |-> T.count - Cardinality(K)]

(* Register: an unknown peer needs a free slot; the slot may be held by a  *)
(* registration that has expired and is not evicted yet.                   *)
CanRegister(T, p) ==
    \/ p \in DOMAIN T.entries
    \/ Cardinality(DOMAIN T.entries) < MaxRegistrations

NewRegistration(skills, now) ==
    [skills |-> skills, registeredAt |-> now, expiresAt |-> now + TTL,
     origin |-> LocalOrigin, version |-> now]

Register(T, p, skills, now) == Store(T, p, NewRegistration(skills, now))

(* A mistake to look for: the skills that stay are not kept in step with   *)
(* the index, which loses all of the peer's skills.                        *)
UnregisterDeindexesAll(T, p, ids) ==
    LET reg      == T.entries[p]
        filtered == {sk \in reg.skills : sk.id \notin ids}
    IN  IF ids = {} \/ filtered = {}
        THEN Drop(T, {p})
        ELSE [T EXCEPT !.entries[p].skills = filtered,
                       !.skillIndex = removeFromSkillIndex(T.skillIndex,
                                                           SkillsOf(T, {p}))]

(* Unregister of a registered peer.  No skill IDs, or no skill left over:  *)
(* the registration goes.  Otherwise it keeps its times and its version.   *)
Unregister(T, p, ids) ==
    LET reg      == T.entries[p]
        filtered == {sk \in reg.skills : sk.id \notin ids}
        removed  == [q \in {p} |-> reg.skills \ filtered]
    IN  IF ids = {} \/ filtered = {}
        THEN Drop(T, {p})
        ELSE [T EXCEPT !.entries[p].skills = filtered,
                       !.skillIndex = removeFromSkillIndex(T.skillIndex, removed)]

(* Heartbeat of a registered peer: only the expiry moves.                  *)
Heartbeat(T, p, now) == [T EXCEPT !.entries[p].expiresAt = now + TTL]

(* A mistake to look for: an update with the version of the stored         *)
(* registration replaces it whatever relay it comes from.                  *)
AcceptsAnyTie(T, p, reg) ==
    IF p \in DOMAIN T.entries
    THEN T.entries[p].version <= reg.version
    ELSE Cardinality(DOMAIN T.entries) < MaxFederatedRegistrations

(* Last writer wins; on equal versions the lower relay ID wins.            *)
AcceptsFederated(T, p, reg) ==
    IF p \in DOMAIN T.entries
    THEN \/ T.entries[p].version < reg.version
         \/ T.entries[p].version = reg.version /\ T.entries[p].origin > reg.origin
    ELSE Cardinality(DOMAIN T.entries) < MaxFederatedRegistrations

(* A mistake to look for: the origin relay is not recorded.                *)
FederatedWithoutOrigin(T, p, reg) ==
    IF AcceptsFederated(T, p, reg)
    THEN Store(T, p, [reg EXCEPT !.origin = LocalOrigin])
    ELSE T

RegisterFederated(T, p, reg) ==
    IF AcceptsFederated(T, p, reg) THEN Store(T, p, reg) ELSE T

(* now.After(reg.ExpiresAt) *)
Expired(reg, now) == now > reg.expiresAt

ExpiredPeers(T, now) == {p \in DOMAIN T.entries : Expired(T.entries[p], now)}

evictExpired(T, now) == Drop(T, ExpiredPeers(T, now))

-----------------------------------------------------------------------------
(* Queries *)

(* matchTags: no filter (NoFilter) or a required value for the tag key.    *)
NoFilter == <<>>
matchTags(tag, filter) == filter = NoFilter \/ filter = <<tag>>
Filters == {NoFilter} \cup {<<t>> : t \in Tags \cup {NoTag}}

hasSkill(reg, s, filter) ==
    \E sk \in reg.skills : sk.id = s /\ matchTags(sk.tag, filter)

(* The peers the index lists for s whose registration is stored, has not   *)
(* expired and offers s with the wanted tags.                              *)
Candidates(T, s, filter, now) ==
    {p \in (IF s \in DOMAIN T.skillIndex THEN T.skillIndex[s] ELSE {}) :
        /\ p \in DOMAIN T.entries
        /\ ~Expired(T.entries[p], now)
        /\ hasSkill(T.entries[p], s, filter)}

(* The sets DiscoverBySkill may take when it walks a map of candidates in  *)
(* Go's unspecified order and stops at n results.                          *)
UpTo(n, S) ==
    IF Cardinality(S) <= n THEN {S} ELSE {A \in SUBSET S : Cardinality(A) = n}

ClampLimit(limit) ==
    CASE limit <= 0               -> DefaultDiscoverLimit
      [] limit > MaxDiscoverLimit -> MaxDiscoverLimit
      [] OTHER                    -> limit

(* A mistake to look for: peers found locally are not skipped.             *)
DiscoverWithoutSkip(local, fed, s, filter, limit, includeFederated, now) ==
    LET n == ClampLimit(limit)
    IN  UNION {
            {[local |-> A, fed |-> B] :
                B \in UpTo(n - Cardinality(A),
                           IF includeFederated
                           THEN Candidates(fed, s, filter, now) ELSE {})}
            : A \in UpTo(n, Candidates(local, s, filter, now))}

(* The possible answers of DiscoverBySkill, each split by the table its    *)
(* registrations are taken from.                                           *)
DiscoverBySkill(local, fed, s, filter, limit, includeFederated, now) ==
    LET n == ClampLimit(limit)
    IN  UNION {
            {[local |-> A, fed |-> B] :
                B \in UpTo(n - Cardinality(A),
                           IF includeFederated
                           THEN Candidates(fed, s, filter, now) \ A ELSE {})}
            : A \in UpTo(n, Candidates(local, s, filter, now))}

-----------------------------------------------------------------------------
(* What a table must look like *)

(* A table maps peers to whole registrations from the given origins, and   *)
(* skills to sets of peers.                                                *)
TableTypeOK(T, origins) ==
    /\ DOMAIN T.entries \subseteq Peers
    /\ DOMAIN T.skillIndex \subseteq SkillIDs \cup {NoID}
    /\ T \in [entries    : [DOMAIN T.entries -> RegistrationFrom(origins)],
              skillIndex : [DOMAIN T.skillIndex -> SUBSET Peers],
              count      : Int]

(* The index lists exactly the peers whose registration names the skill,   *)
(* and has no empty bucket.                                                *)
IndexExact(T) ==
    /\ \A s \in DOMAIN T.skillIndex : T.skillIndex[s] # {}
    /\ \A s \in SkillIDs \cup {NoID}, p \in Peers :
        (s \in DOMAIN T.skillIndex /\ p \in T.skillIndex[s]) <=>
        (p \in DOMAIN T.entries /\ s \in IDs(T.entries[p].skills))

CountExact(T) == T.count = Cardinality(DOMAIN T.entries)

=============================================================================
