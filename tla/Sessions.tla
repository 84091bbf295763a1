------------------------------- MODULE Sessions -------------------------------
(***************************************************************************)
(* The Skill Registry together with the libp2p connections of its agents:  *)
(* the watcher goroutine of cmd/relay/main.go reads connectedness events   *)
(* from a queue of the host's event bus and takes the registrations of     *)
(* peers that are gone out of the registry.                                *)
(*                                                                         *)
(* Events reach the watcher in order, but later: meanwhile the peer may    *)
(* have reconnected, and its RPCs, which arrive on connections of the gRPC *)
(* server and not on libp2p ones, are served whatever the event bus says.  *)
(***************************************************************************)
EXTENDS Registry, Sequences

CONSTANTS
    Connectedness,  \* network.Connectedness
    NotConnected,   \* network.NotConnected
    EventBuffer     \* bound of the model: events the bus holds for the watcher

ASSUME SessionsAssumption ==
    /\ NotConnected \in Connectedness
    /\ EventBuffer \in Nat \ {0}

VARIABLES
    conn,     \* conn[p] : the host's connectedness to p
    events,   \* sub.Out() : EvtPeerConnectednessChanged, oldest first
    session   \* history: session[p] : in which session p registered last, see SessionsOf

sessionVars == <<conn, events, session>>
allVars == <<vars, sessionVars>>

(* While not connected, in the session that goes on, or in one that ended. *)
SessionsOf == {"none", "current", "ended"}

SInit ==
    /\ Init
    /\ conn = [p \in Peers |-> NotConnected]
    /\ events = <<>>
    /\ session = [p \in Peers |-> "none"]

Connected(p) == conn[p] # NotConnected

(* libp2p: the connections to p change, and the bus announces it; the      *)
(* emitter waits while the subscriber's buffer is full.  That every change *)
(* is announced is an assumption about the library, which the repository   *)
(* does not contain: a quick drop and return merged into no event would    *)
(* leave the registration of the ended session to its lease.               *)
Change(p, c) ==
    /\ c # conn[p]
    /\ Len(events) < EventBuffer
    /\ conn' = [conn EXCEPT ![p] = c]
    /\ events' = Append(events, [peer |-> p, connectedness |-> c])
    /\ session' = [session EXCEPT ![p] =
                        IF c = NotConnected /\ @ = "current" THEN "ended" ELSE @]
    /\ UNCHANGED vars

(* A mistake to look for: the watcher removes the peers that connect.      *)
WatchConnects ==
    /\ events # <<>>
    /\ events' = Tail(events)
    /\ IF Head(events).connectedness # NotConnected
       THEN local' = Drop(local, {Head(events).peer})
       ELSE UNCHANGED local
    /\ UNCHANGED <<now, fed, cleanupVars, conn, session>>

(* A mistake to look for: the watcher returns, where it should continue,   *)
(* at an event that is no disconnection.                                   *)
WatchReturns ==
    /\ events # <<>>
    /\ Head(events).connectedness = NotConnected
    /\ events' = Tail(events)
    /\ local' = Drop(local, {Head(events).peer})
    /\ UNCHANGED <<now, fed, cleanupVars, conn, session>>

(* The watcher takes the next event. *)
Watch ==
    /\ events # <<>>
    /\ events' = Tail(events)
    /\ IF Head(events).connectedness = NotConnected
       THEN local' = Drop(local, {Head(events).peer})
       ELSE UNCHANGED local
    /\ UNCHANGED <<now, fed, cleanupVars, conn, session>>

(* Agents use the registry as before, connected or not.                    *)
AgentRegisters(p, skills) ==
    /\ RegisterSkills(p, skills)
    /\ session' = [session EXCEPT ![p] = IF Connected(p) THEN "current" ELSE "none"]
    /\ UNCHANGED <<conn, events>>

RegistryStep ==
    /\ \/ \E p \in Peers :
            \/ \E ids \in SUBSET SkillIDs : UnregisterSkills(p, ids)
            \/ HeartbeatRPC(p)
       \/ \E p \in Peers, reg \in FedUpdates : ReceiveFederated(p, reg)
       \/ CleanupLoop
       \/ CleanupReturn
       \/ Close
       \/ Tick
    /\ UNCHANGED sessionVars

SNext ==
    \/ \E p \in Peers, c \in Connectedness : Change(p, c)
    \/ Watch
    \/ \E p \in Peers, skills \in SkillLists : AgentRegisters(p, skills)
    \/ RegistryStep

SSpec == SInit /\ [][SNext]_allVars

(* As in Registry, and the watcher is scheduled while events wait.         *)
SFairSpec ==
    /\ SSpec
    /\ WF_allVars(Tick /\ UNCHANGED sessionVars)
    /\ WF_allVars(CleanupLoop /\ UNCHANGED sessionVars)
    /\ WF_allVars(Watch)

-----------------------------------------------------------------------------
(* Properties *)

(* Every queued event is about a peer whose registration the watcher may   *)
(* remove, and the tables of the registry keep their types.                *)
STypeOK ==
    /\ TypeOK
    /\ conn \in [Peers -> Connectedness]
    /\ events \in Seq([peer : Peers, connectedness : Connectedness])
    /\ Len(events) <= EventBuffer
    /\ session \in [Peers -> SessionsOf]

(* The registration p made in a session that has ended since.              *)
Orphan(p) == p \in DOMAIN local.entries /\ session[p] = "ended"

(* The watcher overlooks no disconnection: as long as a registration has   *)
(* outlived the session in which it was made, the event that will remove   *)
(* it waits in the queue, however often the agent came and went, or        *)
(* changed between a direct and a limited connection, in between.  (Under  *)
(* the assumption of Change that the library announces every change.)      *)
DisconnectNoticed ==
    \A p \in Peers : Orphan(p) =>
        \E i \in DOMAIN events :
            events[i].peer = p /\ events[i].connectedness = NotConnected

(* "peer disconnections auto-remove them": a registration whose session is *)
(* over goes too, without waiting for its lease, unless the agent          *)
(* registers again.                                                        *)
GoneAreRemoved == \A p \in Peers : Orphan(p) ~> ~Orphan(p)

(* The watcher removes the registrations of peers that have disconnected,  *)
(* never one made in a session that goes on.                               *)
RemovalJustified ==
    [][Len(events') < Len(events)
        => \A p \in DOMAIN local.entries \ DOMAIN local'.entries :
                session[p] # "current"]_allVars

=============================================================================
