------------------------------- MODULE Registry -------------------------------
(***************************************************************************)
(* The Skill Registry of one relay: the gRPC handlers of                   *)
(* internal/registry/grpc_server.go on top of internal/registry/registry.go,*)
(* the clean-up goroutine, the removal of disconnected peers (the watcher  *)
(* goroutine of cmd/relay/main.go) and the federated registrations other   *)
(* relays deliver.  Every method of Registry holds the registry's lock     *)
(* from its first to its last access, so that each is one action.          *)
(*                                                                         *)
(* A request a handler refuses changes nothing; it is a stuttering step,   *)
(* and the conditions of the refusal are the guards of the action.         *)
(***************************************************************************)
EXTENDS RegistryOps

CONSTANTS
    SkillLists,      \* the skill lists agents send to RegisterSkills
    FedUpdates,      \* the registrations other relays deliver
    CleanupInterval, \* Config.CleanupInterval, in clock ticks
    MaxTime          \* bound of the model: the last instant of the clock

ASSUME InputsAssumption ==
    /\ SkillLists \subseteq SUBSET SkillInfo
    /\ FedUpdates \subseteq RegistrationFrom(Relays)
    /\ CleanupInterval \in Nat \ {0}
    /\ MaxTime \in Nat

VARIABLES
    now,     \* time.Now()
    local,   \* entries, skillIndex, localCount
    fed,     \* federated, fedSkillIndex, federatedCount
    ticked,  \* the ticker's channel, of capacity 1, holds a tick
    closed,  \* stopCh is closed
    running  \* the clean-up goroutine has not returned

cleanupVars == <<ticked, closed, running>>
vars == <<now, local, fed, cleanupVars>>

Init ==
    /\ now = 0
    /\ local = EmptyTable
    /\ fed = EmptyTable
    /\ ticked = FALSE
    /\ closed = FALSE
    /\ running = TRUE

-----------------------------------------------------------------------------
(* gRPC handlers *)

RegisterSkills(p, skills) ==
    /\ p # NoID
    /\ skills # {}
    /\ NoID \notin IDs(skills)
    /\ CanRegister(local, p)
    /\ local' = Register(local, p, skills, now)
    /\ UNCHANGED <<now, fed, cleanupVars>>

UnregisterSkills(p, ids) ==
    /\ p # NoID
    /\ p \in DOMAIN local.entries
    /\ local' = Unregister(local, p, ids)
    /\ UNCHANGED <<now, fed, cleanupVars>>

(* A mistake to look for: the heartbeat of an unknown peer stores a        *)
(* registration without skills for it.                                     *)
HeartbeatCreates(p) ==
    /\ p # NoID
    /\ local' = IF p \in DOMAIN local.entries
                THEN Heartbeat(local, p, now)
                ELSE Store(local, p, NewRegistration({}, now))
    /\ UNCHANGED <<now, fed, cleanupVars>>

HeartbeatRPC(p) ==
    /\ p # NoID
    /\ p \in DOMAIN local.entries
    /\ local' = Heartbeat(local, p, now)
    /\ UNCHANGED <<now, fed, cleanupVars>>

-----------------------------------------------------------------------------
(* Other callers of the registry *)

(* The disconnect watcher reports that the last connection to p is gone.   *)
RemovePeer(p) ==
    /\ p \in DOMAIN local.entries
    /\ local' = Drop(local, {p})
    /\ UNCHANGED <<now, fed, cleanupVars>>

(* A registration of p arrives from another relay, pulled or pushed.       *)
ReceiveFederated(p, reg) ==
    /\ fed' = RegisterFederated(fed, p, reg)
    /\ UNCHANGED <<now, local, cleanupVars>>

-----------------------------------------------------------------------------
(* Clean-up *)

(* A mistake to look for: the federated table is not swept.                *)
EvictLocalOnly ==
    /\ running /\ ticked
    /\ local' = evictExpired(local, now)
    /\ ticked' = FALSE
    /\ UNCHANGED <<now, fed, closed, running>>

(* A round of cleanupLoop.  When both channels are ready select may choose *)
(* either, so that a round may still follow Close.                         *)
CleanupLoop ==
    /\ running /\ ticked
    /\ local' = evictExpired(local, now)
    /\ fed' = evictExpired(fed, now)
    /\ ticked' = FALSE
    /\ UNCHANGED <<now, closed, running>>

CleanupReturn ==
    /\ running /\ closed
    /\ running' = FALSE
    /\ UNCHANGED <<now, local, fed, ticked, closed>>

(* The first call of Close closes the channel, later calls do nothing.     *)
Close ==
    /\ ~closed
    /\ closed' = TRUE
    /\ UNCHANGED <<now, local, fed, ticked, running>>

(* Time passes.  The ticker drops a tick its channel has no room for.      *)
Tick ==
    /\ now < MaxTime
    /\ now' = now + 1
    /\ ticked' = (ticked \/ (running /\ now' % CleanupInterval = 0))
    /\ UNCHANGED <<local, fed, closed, running>>

-----------------------------------------------------------------------------
Next ==
    \/ \E p \in Peers \cup {NoID} :
        \/ \E skills \in SkillLists : RegisterSkills(p, skills)
        \/ \E ids \in SUBSET SkillIDs : UnregisterSkills(p, ids)
        \/ HeartbeatRPC(p)
    \/ \E p \in Peers : RemovePeer(p)
    \/ \E p \in Peers, reg \in FedUpdates : ReceiveFederated(p, reg)
    \/ CleanupLoop
    \/ CleanupReturn
    \/ Close
    \/ Tick

Spec == Init /\ [][Next]_vars

(* The clock advances, and the clean-up goroutine is scheduled once its    *)
(* ticker has fired.                                                       *)
FairSpec == Spec /\ WF_vars(Tick) /\ WF_vars(CleanupLoop)

-----------------------------------------------------------------------------
(* Properties *)

(* Local registrations have no origin, and the federated table holds none  *)
(* without the relay it came from, which the tie-break of the              *)
(* last-writer-wins order needs.                                           *)
TypeOK ==
    /\ now \in 0 .. MaxTime
    /\ TableTypeOK(local, {LocalOrigin})
    /\ TableTypeOK(fed, Relays)
    /\ ticked \in BOOLEAN
    /\ closed \in BOOLEAN
    /\ running \in BOOLEAN

(* Both inverted indexes list exactly the peers whose stored registration  *)
(* names the skill, and hold no empty bucket, through every sequence of    *)
(* Register, Unregister, RemovePeer, RegisterFederated and evictExpired.   *)
(* Stats reports their sizes, and DiscoverBySkill sees a registration only *)
(* through them.                                                           *)
IndexConsistent == IndexExact(local) /\ IndexExact(fed)

(* localCount and federatedCount, kept by hand next to the maps, equal the *)
(* sizes of the maps, and neither map outgrows its limit.                  *)
CountsHonest ==
    /\ local.count = Cardinality(DOMAIN local.entries)
    /\ local.count <= MaxRegistrations
    /\ fed.count = Cardinality(DOMAIN fed.entries)
    /\ fed.count <= MaxFederatedRegistrations

(* No local registration is left without skills, or with the empty skill   *)
(* ID: a slot is held only by an agent that discovery can return.          *)
SlotsOfferSkills ==
    \A p \in DOMAIN local.entries :
        /\ local.entries[p].skills # {}
        /\ NoID \notin IDs(local.entries[p].skills)

(* What a scan of a whole table, without the index, finds for a query.     *)
Scan(T, s, filter) ==
    {p \in DOMAIN T.entries :
        now <= T.entries[p].expiresAt /\ hasSkill(T.entries[p], s, filter)}

(* The peers whose own registration here has not expired.                  *)
LiveLocal == {p \in DOMAIN local.entries : now <= local.entries[p].expiresAt}

(* Every answer of DiscoverBySkill agrees with a scan of the tables: no    *)
(* expired or unrelated registration, no peer twice, the federated one     *)
(* never for a peer whose local one matches, and below the limit no local  *)
(* match left out and no federated one of a peer without a live local      *)
(* registration.  (Which copies of locally registered peers are returned   *)
(* is left open here, see LocalPriority.)                                  *)
DiscoverExact ==
    \A s \in SkillIDs, filter \in Filters, both \in BOOLEAN,
       limit \in 0 .. MaxDiscoverLimit + 1 :
        LET L == Scan(local, s, filter)
            F == IF both THEN Scan(fed, s, filter) ELSE {}
            n == ClampLimit(limit)
        IN  \A a \in DiscoverBySkill(local, fed, s, filter, limit, both, now) :
                /\ a.local \subseteq L
                /\ a.fed \subseteq F \ L
                /\ Cardinality(a.local) + Cardinality(a.fed) <= n
                /\ Cardinality(a.local) + Cardinality(a.fed) < n =>
                        a.local = L /\ F \ LiveLocal \subseteq a.fed

(* "Local registrations always take priority" (README.md, Multi-Relay      *)
(* Federation): discovery answers with a federated copy only for a peer    *)
(* that has no live registration at this relay.                            *)
LocalPriority ==
    \A s \in SkillIDs, filter \in Filters :
        \A a \in DiscoverBySkill(local, fed, s, filter, MaxDiscoverLimit, TRUE, now) :
            a.fed \cap LiveLocal = {}

(* As long as a federated registration stays in the table it is replaced   *)
(* only by one that comes later in the last-writer-wins order: a higher    *)
(* version, or the same version from a lower relay ID.  Updates delivered  *)
(* twice or out of order never take it back.                               *)
FederatedNeverRegresses ==
    [][\A p \in DOMAIN fed.entries \cap DOMAIN fed'.entries :
        LET old == fed.entries[p]  new == fed'.entries[p]
        IN  \/ new = old
            \/ new.version > old.version
            \/ new.version = old.version /\ new.origin < old.origin]_vars

(* The registry implements the directory of leased offers, where the offer *)
(* of p is what the index lets DiscoverBySkill see of p's registration.    *)
Visible(p) ==
    {sk \in local.entries[p].skills :
        sk.id \in DOMAIN local.skillIndex /\ p \in local.skillIndex[sk.id]}

Directory == INSTANCE SkillDirectory WITH
    offer <- [p \in Peers |->
                IF p \in DOMAIN local.entries
                THEN [skills |-> Visible(p), until |-> local.entries[p].expiresAt]
                ELSE [skills |-> {}, until |-> -1]]

ImplementsDirectory == Directory!Spec

(* A registration that expires is evicted, unless it is renewed in time or *)
(* the registry is closed: expired slots do not stay taken for ever.  The  *)
(* clock of the model ends at MaxTime, so that only what expires one       *)
(* clean-up interval before is owed a round of cleanupLoop.                *)
ExpiredIn(T, p) == p \in DOMAIN T.entries /\ Expired(T.entries[p], now)

ExpiredAreEvicted ==
    \A p \in Peers :
        /\ (ExpiredIn(local, p) /\ now + CleanupInterval <= MaxTime)
                ~> (~ExpiredIn(local, p) \/ closed)
        /\ (ExpiredIn(fed, p) /\ now + CleanupInterval <= MaxTime)
                ~> (~ExpiredIn(fed, p) \/ closed)

=============================================================================
