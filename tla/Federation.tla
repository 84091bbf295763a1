------------------------------ MODULE Federation ------------------------------
(***************************************************************************)
(* Several relays whose registries are synchronised by                     *)
(* internal/federation: every relay pulls the local registrations of its   *)
(* peer relays (syncLoop, syncAll, syncPeer of gossip.go, answered by      *)
(* SyncRegistrations of grpc_server.go) and takes what they push           *)
(* (PushLocal, PushRegistrations).                                         *)
(*                                                                         *)
(* A pull is not atomic.  It reads its cursor, sends a request, the peer   *)
(* takes a snapshot of its registry under the lock, then reads its clock   *)
(* and builds the answer, the answer travels, and its registrations are    *)
(* applied one by one, each under the lock of the puller's registry.  The  *)
(* agents, the clean-up goroutines, the other pulls and restarts come in   *)
(* between.  Within a relay, requests to the registry are the actions of   *)
(* Registry.tla.                                                           *)
(***************************************************************************)
EXTENDS RegistryOps

CONSTANTS
    PeerRelays,  \* PeerRelays[r] : the relays in Config.PeerRelays of relay r
    AgentRelays, \* the relays agents connect to
    Skew,        \* Skew[r] : how far the clock of r is ahead
    SkillLists,  \* the skill lists agents register
    SyncLimit,   \* the limit of a pull: syncPeer asks for 1000 registrations
    Pullers,     \* bound of the model: the relays whose rounds fall into its time
    MaxTime,     \* bound of the model: the last instant
    MaxPushes,   \* bound of the model: pushed registrations under way
    MaxRestarts  \* bound of the model: restarts of relays

ASSUME FederationAssumption ==
    /\ PeerRelays \in [Relays -> SUBSET Relays]
    /\ \A r \in Relays : r \notin PeerRelays[r]
    /\ AgentRelays \subseteq Relays
    /\ Skew \in [Relays -> Nat]
    /\ SkillLists \subseteq SUBSET SkillInfo
    /\ SyncLimit \in Nat \ {0}
    /\ Pullers \subseteq Relays
    /\ MaxTime \in Nat
    /\ MaxPushes \in Nat
    /\ MaxRestarts \in Nat

VARIABLES
    now,        \* the instant; time.Now() at relay r is Clock(r)
    local, fed, \* local[r], fed[r] : the tables of the registry of r
    lastSync,   \* lastSync[r][q] : the cursor of r for peer relay q
    failing,    \* failing[r][q] : q's consecutiveFailures at r is not 0
    pull,       \* pull[r][q] : the call of syncPeer of r for q
    pushes,     \* pushed registrations under way
    restarts,   \* how often a relay has restarted
    lastAlive   \* history: lastAlive[r][p] is when r last heard of agent p

syncVars == <<lastSync, failing, pull>>
vars == <<now, local, fed, syncVars, pushes, restarts, lastAlive>>

Clock(r) == now + Skew[r]

Never == -1  \* the zero time.Time, before every registration

Idle ==
    [phase |-> "idle", since |-> Never, regs |-> EmptyMap, sent |-> {},
     todo |-> {}, refused |-> {}, stamp |-> Never]

Init ==
    /\ now = 0
    /\ local = [r \in Relays |-> EmptyTable]
    /\ fed = [r \in Relays |-> EmptyTable]
    /\ lastSync = [r \in Relays |-> [q \in PeerRelays[r] |-> Never]]
    /\ failing = [r \in Relays |-> [q \in PeerRelays[r] |-> FALSE]]
    /\ pull = [r \in Relays |-> [q \in PeerRelays[r] |-> Idle]]
    /\ pushes = {}
    /\ restarts = 0
    /\ lastAlive = [r \in Relays |-> [p \in Peers |-> Never]]

-----------------------------------------------------------------------------
(* The registry of relay r *)

RegisterSkills(r, p, skills) ==
    /\ skills # {} /\ NoID \notin IDs(skills)
    /\ CanRegister(local[r], p)
    /\ local' = [local EXCEPT ![r] = Register(@, p, skills, Clock(r))]
    /\ lastAlive' = [lastAlive EXCEPT ![r][p] = now]
    /\ UNCHANGED <<now, fed, syncVars, pushes, restarts>>

HeartbeatRPC(r, p) ==
    /\ p \in DOMAIN local[r].entries
    /\ local' = [local EXCEPT ![r] = Heartbeat(@, p, Clock(r))]
    /\ lastAlive' = [lastAlive EXCEPT ![r][p] = now]
    /\ UNCHANGED <<now, fed, syncVars, pushes, restarts>>

UnregisterSkills(r, p, ids) ==
    /\ p \in DOMAIN local[r].entries
    /\ local' = [local EXCEPT ![r] = Unregister(@, p, ids)]
    /\ UNCHANGED <<now, fed, syncVars, pushes, restarts, lastAlive>>

(* The agent disconnected. *)
RemovePeer(r, p) ==
    /\ p \in DOMAIN local[r].entries
    /\ local' = [local EXCEPT ![r] = Drop(@, {p})]
    /\ UNCHANGED <<now, fed, syncVars, pushes, restarts, lastAlive>>

CleanupLoop(r) ==
    /\ local' = [local EXCEPT ![r] = evictExpired(@, Clock(r))]
    /\ fed' = [fed EXCEPT ![r] = evictExpired(@, Clock(r))]
    /\ UNCHANGED <<now, syncVars, pushes, restarts, lastAlive>>

-----------------------------------------------------------------------------
(* One pull of r from q *)

SetPull(r, q, call) == pull' = [pull EXCEPT ![r][q] = call]

(* syncLoop starts a round only when all calls of the last one returned:   *)
(* one call that never returns, and it has no deadline, stops the rounds.  *)
(* Each call returns at once while its peer is in backoff (how long that   *)
(* is, is the subject of FederationBackoff.tla), or reads its cursor,      *)
(* which only it ever writes, and sends the request.                       *)
SyncAll(r) ==
    /\ r \in Pullers
    /\ PeerRelays[r] # {}
    /\ \A q \in PeerRelays[r] : pull[r][q].phase = "idle"
    /\ \E skipped \in SUBSET {q \in PeerRelays[r] : failing[r][q]} :
        pull' = [pull EXCEPT ![r] = [q \in PeerRelays[r] |->
                    IF q \in skipped THEN Idle
                    ELSE [Idle EXCEPT !.phase = "asked", !.since = lastSync[r][q]]]]
    /\ UNCHANGED <<now, local, fed, lastSync, failing, pushes, restarts, lastAlive>>

(* LocalRegistrations: the unexpired local registrations since a time. *)
LocalRegistrations(q, since) ==
    LET T == local[q]
    IN  Restrict(T.entries,
            {p \in DOMAIN T.entries :
                ~Expired(T.entries[p], Clock(q)) /\ T.entries[p].registeredAt >= since})

(* A mistake to look for: a copy gets a full lease when it is sent.        *)
ShipWithFreshLease(q, reg) ==
    [reg EXCEPT !.origin = q, !.expiresAt = Clock(q) + TTL]

(* A mistake to look for: the version of a copy is the time it is sent.    *)
ShipWithFreshVersion(q, reg) == [reg EXCEPT !.origin = q, !.version = Clock(q)]

(* A mistake to look for: a copy does not name the relay it comes from.    *)
ShipAnonymous(q, reg) == reg

(* A registration of q as q sends it to other relays. *)
Ship(q, reg) == [reg EXCEPT !.origin = q]

(* SyncRegistrations of q, first half: localRegs, read under the lock.     *)
ServeSnapshot(r, q) ==
    /\ pull[r][q].phase = "asked"
    /\ LET regs == LocalRegistrations(q, pull[r][q].since)
       IN  SetPull(r, q, [pull[r][q] EXCEPT
                !.phase = "snapshot",
                !.regs = [p \in DOMAIN regs |-> Ship(q, regs[p])]])
    /\ UNCHANGED <<now, local, fed, lastSync, failing, pushes, restarts, lastAlive>>

(* Second half: the clock, then the first SyncLimit of localRegs, which    *)
(* are in no particular order.                                             *)
ServeReply(r, q) ==
    /\ pull[r][q].phase = "snapshot"
    /\ \E sent \in UpTo(SyncLimit, DOMAIN pull[r][q].regs) :
            SetPull(r, q, [pull[r][q] EXCEPT
                !.phase = "reply", !.sent = sent, !.todo = sent, !.stamp = Clock(q)])
    /\ UNCHANGED <<now, local, fed, lastSync, failing, pushes, restarts, lastAlive>>

(* The call fails, and the reply, if there is one, is lost. *)
SyncFails(r, q) ==
    /\ pull[r][q].phase \in {"asked", "snapshot", "reply", "broken"}
    /\ SetPull(r, q, Idle)
    /\ failing' = [failing EXCEPT ![r][q] = TRUE]
    /\ UNCHANGED <<now, local, fed, lastSync, pushes, restarts, lastAlive>>

(* recordPeerSuccess *)
SyncSucceeds(r, q) ==
    /\ pull[r][q].phase = "reply"
    /\ SetPull(r, q, [pull[r][q] EXCEPT !.phase = "apply"])
    /\ failing' = [failing EXCEPT ![r][q] = FALSE]
    /\ UNCHANGED <<now, local, fed, lastSync, pushes, restarts, lastAlive>>

(* RegisterFederated returns an error: there is no room for an agent that  *)
(* is not in the table.                                                    *)
Refuses(T, p) ==
    /\ p \notin DOMAIN T.entries
    /\ Cardinality(DOMAIN T.entries) >= MaxFederatedRegistrations

(* A mistake to look for: the loop ends at the first refusal.              *)
ApplyUntilRefused(r, q, p) ==
    LET call == pull[r][q]
        full == Refuses(fed[r], p)
    IN  /\ call.phase = "apply"
        /\ p \in call.todo
        /\ fed' = [fed EXCEPT ![r] = RegisterFederated(@, p, call.regs[p])]
        /\ SetPull(r, q, [call EXCEPT
                !.todo = IF full THEN {} ELSE @ \ {p},
                !.refused = IF full THEN @ \cup {p} ELSE @])
        /\ UNCHANGED <<now, local, lastSync, failing, pushes, restarts, lastAlive>>

(* A mistake to look for: a refused registration is tried again at once.   *)
ApplyUntilTaken(r, q, p) ==
    LET call == pull[r][q]
        full == Refuses(fed[r], p)
    IN  /\ call.phase = "apply"
        /\ p \in call.todo
        /\ fed' = [fed EXCEPT ![r] = RegisterFederated(@, p, call.regs[p])]
        /\ SetPull(r, q, [call EXCEPT
                !.todo = IF full THEN @ ELSE @ \ {p},
                !.refused = IF full THEN @ \cup {p} ELSE @])
        /\ UNCHANGED <<now, local, lastSync, failing, pushes, restarts, lastAlive>>

(* A mistake to look for: the puller files the copies as its own.          *)
ApplyAsOwn(r, q, p) ==
    LET call == pull[r][q]
    IN  /\ call.phase = "apply"
        /\ p \in call.todo
        /\ fed' = [fed EXCEPT ![r] =
                RegisterFederated(@, p, [call.regs[p] EXCEPT !.origin = r])]
        /\ SetPull(r, q, [call EXCEPT
                !.todo = @ \ {p},
                !.refused = IF Refuses(fed[r], p) THEN @ \cup {p} ELSE @])
        /\ UNCHANGED <<now, local, lastSync, failing, pushes, restarts, lastAlive>>

(* One turn of the loop over the reply; a refusal only skips the agent.    *)
ApplyRegistration(r, q, p) ==
    LET call == pull[r][q]
    IN  /\ call.phase = "apply"
        /\ p \in call.todo
        /\ fed' = [fed EXCEPT ![r] = RegisterFederated(@, p, call.regs[p])]
        /\ SetPull(r, q, [call EXCEPT
                !.todo = @ \ {p},
                !.refused = IF Refuses(fed[r], p) THEN @ \cup {p} ELSE @])
        /\ UNCHANGED <<now, local, lastSync, failing, pushes, restarts, lastAlive>>

FinishSync(r, q) ==
    /\ pull[r][q].phase = "apply"
    /\ pull[r][q].todo = {}
    /\ lastSync' = [lastSync EXCEPT ![r][q] = pull[r][q].stamp]
    /\ SetPull(r, q, Idle)
    /\ UNCHANGED <<now, local, fed, failing, pushes, restarts, lastAlive>>

-----------------------------------------------------------------------------
(* Pushes *)

(* PushLocal sends a registration to every peer relay.  Nothing in the     *)
(* repository calls it; it may send any registration the relay holds.      *)
PushLocal(q, p) ==
    /\ PeerRelays[q] # {}
    /\ p \in DOMAIN local[q].entries
    /\ LET sent == [to : PeerRelays[q], peer : {p}, reg : {Ship(q, local[q].entries[p])}]
       IN  /\ Cardinality(pushes \cup sent) <= MaxPushes
           /\ pushes' = pushes \cup sent
    /\ UNCHANGED <<now, local, fed, syncVars, restarts, lastAlive>>

(* PushRegistrations.  The handler ignores its context: it may well run    *)
(* after the sender has given up.                                          *)
PushRegistrations(m) ==
    /\ fed' = [fed EXCEPT ![m.to] = RegisterFederated(@, m.peer, m.reg)]
    /\ pushes' = pushes \ {m}
    /\ UNCHANGED <<now, local, syncVars, restarts, lastAlive>>

PushFails(m) ==
    /\ pushes' = pushes \ {m}
    /\ UNCHANGED <<now, local, fed, syncVars, restarts, lastAlive>>

-----------------------------------------------------------------------------
(* A relay restarts.  Everything it knew was in memory; the calls it was   *)
(* serving break, the ones it was making are gone.                         *)
Restart(r) ==
    /\ restarts < MaxRestarts
    /\ restarts' = restarts + 1
    /\ local' = [local EXCEPT ![r] = EmptyTable]
    /\ fed' = [fed EXCEPT ![r] = EmptyTable]
    /\ lastSync' = [lastSync EXCEPT ![r] = [q \in PeerRelays[r] |-> Never]]
    /\ failing' = [failing EXCEPT ![r] = [q \in PeerRelays[r] |-> FALSE]]
    /\ pull' = [s \in Relays |-> [q \in PeerRelays[s] |->
                    IF s = r THEN Idle
                    ELSE IF q = r /\ pull[s][q].phase = "snapshot"
                         THEN [Idle EXCEPT !.phase = "broken"]
                         ELSE pull[s][q]]]
    /\ UNCHANGED <<now, pushes, lastAlive>>

Tick ==
    /\ now < MaxTime
    /\ now' = now + 1
    /\ UNCHANGED <<local, fed, syncVars, pushes, restarts, lastAlive>>

-----------------------------------------------------------------------------
SyncPeer(r, q) ==
    \/ ServeSnapshot(r, q)
    \/ ServeReply(r, q)
    \/ SyncFails(r, q)
    \/ SyncSucceeds(r, q)
    \/ \E p \in Peers : ApplyRegistration(r, q, p)
    \/ FinishSync(r, q)

Next ==
    \/ \E r \in AgentRelays, p \in Peers :
        \/ \E skills \in SkillLists : RegisterSkills(r, p, skills)
        \/ HeartbeatRPC(r, p)
        \/ \E ids \in SUBSET SkillIDs : UnregisterSkills(r, p, ids)
        \/ RemovePeer(r, p)
        \/ PushLocal(r, p)
    \/ \E r \in Relays :
        \/ CleanupLoop(r)
        \/ SyncAll(r)
        \/ \E q \in PeerRelays[r] : SyncPeer(r, q)
        \/ Restart(r)
    \/ \E m \in pushes : PushRegistrations(m) \/ PushFails(m)
    \/ Tick

Spec == Init /\ [][Next]_vars

(* What a relay does with an answer it has: the loop over the reply.       *)
TakeReply(r, q) ==
    \/ \E p \in Peers : ApplyRegistration(r, q, p)
    \/ FinishSync(r, q)

(* The goroutine of a call that has its answer is scheduled.  Nothing is   *)
(* assumed of a call that waits for one: the peer relay may never answer,  *)
(* and the call at gossip.go:128 has no deadline.                          *)
FairSpec ==
    /\ Spec
    /\ \A r \in Relays : \A q \in PeerRelays[r] : WF_vars(TakeReply(r, q))

-----------------------------------------------------------------------------
(* Properties *)

Phases == {"idle", "asked", "snapshot", "reply", "apply", "broken"}

CallOK(call) ==
    /\ call.phase \in Phases
    /\ call.since \in Int
    /\ DOMAIN call.regs \subseteq Peers
    /\ call.regs \in [DOMAIN call.regs -> RegistrationFrom(Relays)]
    /\ call.todo \subseteq call.sent
    /\ call.sent \subseteq DOMAIN call.regs
    /\ call.refused \subseteq call.sent
    /\ call.stamp \in Int

(* Every relay keeps local and federated registrations apart, and a reply  *)
(* holds whole registrations under the peers still to be applied.          *)
TypeOK ==
    /\ now \in 0 .. MaxTime
    /\ DOMAIN local = Relays /\ DOMAIN fed = Relays
    /\ \A r \in Relays :
        /\ TableTypeOK(local[r], {LocalOrigin})
        /\ TableTypeOK(fed[r], Relays)
    /\ \A r \in Relays : \A q \in PeerRelays[r] :
        /\ lastSync[r][q] \in Int
        /\ failing[r][q] \in BOOLEAN
        /\ CallOK(pull[r][q])
    /\ \A m \in pushes :
        m.to \in Relays /\ m.peer \in Peers /\ m.reg \in RegistrationFrom(Relays)
    /\ restarts \in 0 .. MaxRestarts
    /\ lastAlive \in [Relays -> [Peers -> Int]]

(* The copies of p's registration outside its own relay: stored by another *)
(* relay, in a reply or in a push.                                         *)
Stored(p) == {fed[r].entries[p] : r \in {s \in Relays : p \in DOMAIN fed[s].entries}}
Replied(p) ==
    UNION {{pull[r][q].regs[p] : q \in {s \in PeerRelays[r] : p \in DOMAIN pull[r][s].regs}}
            : r \in Relays}
Pushed(p) == {m.reg : m \in {n \in pushes : n.peer = p}}
Copies(p) == Stored(p) \cup Replied(p) \cup Pushed(p)

(* A copy outlives the agent by at most one lease: wherever it is, it      *)
(* expires TTL after the agent was last heard of by the relay the copy     *)
(* comes from, on that relay's clock, however often it was passed on,      *)
(* delayed or applied late.                                                *)
BoundedStaleness ==
    \A p \in Peers : \A c \in Copies(p) :
        c.expiresAt <= lastAlive[c.origin][p] + Skew[c.origin] + TTL

(* Relays speak only of their own agents: a copy names as its origin a     *)
(* relay that heard of the agent itself, at the time the copy says or      *)
(* later, and no relay stores as federated what it is the origin of.       *)
FirstHand ==
    \A p \in Peers :
        /\ \A c \in Copies(p) : c.registeredAt <= lastAlive[c.origin][p] + Skew[c.origin]
        /\ \A r \in Relays : p \in DOMAIN fed[r].entries => fed[r].entries[p].origin # r

(* As long as a relay holds an agent's registration, no copy of it is      *)
(* ahead: none has a higher version, and none with the same version lives  *)
(* longer.  Otherwise the last-writer-wins order would keep the copy and   *)
(* refuse the agent's next registration.                                   *)
CopyNeverAhead ==
    \A p \in Peers : \A c \in Copies(p) :
        p \in DOMAIN local[c.origin].entries =>
            LET own == local[c.origin].entries[p]
            IN  /\ c.version <= own.version
                /\ c.version = own.version => c.expiresAt <= own.expiresAt

(* The pull of r from q ends as a success in this step.                    *)
Finishes(r, q) == pull[r][q].phase = "apply" /\ pull'[r][q].phase = "idle"

(* A pull that succeeds has taken in the whole reply: each registration    *)
(* sent is in the federated table, or one that wins over it, unless it has *)
(* expired or the table was full.  Pushes, evictions and other pulls that  *)
(* come between the turns of the loop do not undo what it has stored.      *)
(* This is said of registrations not renewed yet: the last-writer-wins     *)
(* order does not look at the expiry, and prefers a higher version that    *)
(* expires sooner to a registration renewed by heartbeats.                 *)
ReplyApplied ==
    [][\A r \in Relays : \A q \in PeerRelays[r] :
        (Finishes(r, q) /\ restarts' = restarts) =>
            \A p \in pull[r][q].sent \ pull[r][q].refused :
                LET reg == pull[r][q].regs[p]
                IN  \/ reg.expiresAt > reg.version + TTL
                    \/ Expired(reg, Clock(r))
                    \/ /\ p \in DOMAIN fed[r].entries
                       /\ ~AcceptsFederated(fed[r], p, reg)]_vars

(* The call of r for q waits for its answer. *)
Waits(r, q) == pull[r][q].phase \in {"asked", "snapshot", "reply", "broken"}

(* The barrier of syncAll opens again and again unless a call stays        *)
(* without an answer for ever: nothing else, no reply however full the     *)
(* tables are and no restart, can stop the rounds of a relay.  (That a     *)
(* silent peer relay does stop them all, also those of the other peers, is *)
(* what the code shows: the call has no deadline, and wg.Wait waits.)      *)
OnlySilenceStopsRounds ==
    \A r \in Relays :
        \/ []<>(\A q \in PeerRelays[r] : pull[r][q].phase = "idle")
        \/ <>[](\E q \in PeerRelays[r] : Waits(r, q))

-----------------------------------------------------------------------------
(* What the documentation says of the federation *)

(* Heartbeats keep registrations alive: when an incremental pull of r from *)
(* q succeeds, with an answer given at this very instant, r's copy of the  *)
(* registration q holds has not expired if q's has not and was renewed     *)
(* before q answered.                                                      *)
HeartbeatsReachPeers ==
    [][\A r \in Relays : \A q \in PeerRelays[r] :
        (Finishes(r, q) /\ restarts' = restarts) =>
            \A p \in DOMAIN fed[r].entries \cap DOMAIN local[q].entries :
                LET copy == fed[r].entries[p]
                    own  == local[q].entries[p]
                IN  (/\ copy.origin = q
                     /\ copy.version = own.version
                     /\ ~Expired(own, Clock(q))
                     /\ pull[r][q].since # Never
                     /\ pull[r][q].stamp = Clock(q)
                     /\ own.expiresAt < pull[r][q].stamp + TTL)
                    => ~Expired(copy, Clock(r))]_vars

(* What an incremental pull skips has been delivered: a live registration  *)
(* of q from before r's cursor is known to r.                              *)
CursorCovers ==
    \A r \in Relays : \A q \in PeerRelays[r] :
        \A p \in DOMAIN local[q].entries :
            local[q].entries[p].registeredAt < lastSync[r][q]
                => p \in DOMAIN fed[r].entries

=============================================================================
