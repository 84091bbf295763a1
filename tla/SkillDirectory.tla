---------------------------- MODULE SkillDirectory ----------------------------
(***************************************************************************)
(* What the Skill Registry promises the agents of one relay: a directory   *)
(* of leased offers.  An agent's offer is a set of skills valid until an   *)
(* instant; there is no index, no counter, no table of slots and no        *)
(* clean-up.  Registry.tla is shown to implement this specification.       *)
(***************************************************************************)
EXTENDS Integers

CONSTANTS Peers, SkillLists, SkillIDs, TTL, MaxTime

VARIABLES
    now,    \* the clock
    offer   \* offer[p] : what discovery may report of peer p

dvars == <<now, offer>>

NoOffer == [skills |-> {}, until |-> -1]

Init ==
    /\ now = 0
    /\ offer = [p \in Peers |-> NoOffer]

Offers(p) == offer[p] # NoOffer

(* A registration grants a full lease and replaces what p offered before.  *)
Advertise(p, skills) ==
    /\ offer' = [offer EXCEPT ![p] = [skills |-> skills, until |-> now + TTL]]
    /\ UNCHANGED now

(* A heartbeat extends a lease the directory still remembers.              *)
Renew(p) ==
    /\ Offers(p)
    /\ offer' = [offer EXCEPT ![p].until = now + TTL]
    /\ UNCHANGED now

(* Some skills are withdrawn; what is left keeps its lease.                *)
Withdraw(p, ids) ==
    LET rest == {sk \in offer[p].skills : sk.id \notin ids}
    IN  /\ Offers(p)
        /\ rest # {}
        /\ offer' = [offer EXCEPT ![p].skills = rest]
        /\ UNCHANGED now

(* The whole offer is withdrawn, by the agent or because it disconnected.  *)
(* The directory knows neither intentions nor connections, so one agent    *)
(* may leave at any time; several go at once only by Forget.               *)
Leave(p) ==
    /\ offer' = [offer EXCEPT ![p] = NoOffer]
    /\ UNCHANGED now

(* The directory forgets offers, but only when their lease has run out.    *)
Forget(P) ==
    /\ \A p \in P : now > offer[p].until
    /\ offer' = [p \in Peers |-> IF p \in P THEN NoOffer ELSE offer[p]]
    /\ UNCHANGED now

Tick ==
    /\ now < MaxTime
    /\ now' = now + 1
    /\ UNCHANGED offer

Next ==
    \/ \E p \in Peers :
        \/ \E skills \in SkillLists \ {{}} : Advertise(p, skills)
        \/ Renew(p)
        \/ \E ids \in SUBSET SkillIDs : Withdraw(p, ids)
        \/ Leave(p)
    \/ \E P \in SUBSET Peers : Forget(P)
    \/ Tick

Spec == Init /\ [][Next]_dvars

=============================================================================
