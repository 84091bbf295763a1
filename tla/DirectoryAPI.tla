----------------------------- MODULE DirectoryAPI -----------------------------
(***************************************************************************)
(* The agent directory of internal/api/handlers.go and the tools of        *)
(* internal/mcp/tools.go: views of the registry, and a client that walks   *)
(* through the pages of GET /api/v1/agents while the registry changes.     *)
(*                                                                         *)
(* handleListAgents reads the local and the federated table separately,    *)
(* each under the registry's lock; every page is a request of its own.     *)
(* The relay closes the registry after its servers, so Close is left out.  *)
(***************************************************************************)
EXTENDS Registry, Sequences

CONSTANTS
    DefaultPage,  \* limit of a request that asks for none, or for a wrong one
    MaxPage,      \* the largest limit
    McpLimit,     \* the largest limit of the MCP tool discover_agents
    AskedSkills,  \* the skills clients ask for, NoID for all agents
    AskedLimits   \* the limits clients ask for

(* Peer IDs are compared: integers stand for their order.  A registration  *)
(* lists finitely many skills.                                             *)
ASSUME DirectoryAssumption ==
    /\ Peers \subseteq Int
    /\ \A skills \in SkillLists : IsFiniteSet(skills)
    /\ \A reg \in FedUpdates : IsFiniteSet(reg.skills)
    /\ MaxPage \in Nat
    /\ DefaultPage \in 1 .. MaxPage
    /\ McpLimit \in 1 .. MaxDiscoverLimit
    /\ AskedSkills \subseteq SkillIDs \cup {NoID}
    /\ AskedLimits \subseteq Int

VARIABLE walk  \* the client's walk through the pages, see Walks

apiVars == <<vars, walk>>

-----------------------------------------------------------------------------
(* Views of the registry.  Unlike DiscoverBySkill they leave out what      *)
(* expires at this instant.                                                *)

LiveRegistrations(T) == {p \in DOMAIN T.entries : now < T.entries[p].expiresAt}

AllRegistrations == LiveRegistrations(local)
FederatedRegistrations == LiveRegistrations(fed)

(* GetRegistration: the table the answer comes from.                       *)
GetRegistration(p) ==
    CASE p \in AllRegistrations -> "local"
      [] p \in FederatedRegistrations \ AllRegistrations -> "federated"
      [] OTHER -> "not found"

(* agent_count of the MCP tool list_skills, which counts an agent once per *)
(* entry and knows only local agents; 0 for a skill that is not listed.    *)
McpSkillCount(s) ==
    Cardinality({e \in AllRegistrations \X SkillInfo :
                    e[2] \in local.entries[e[1]].skills /\ e[2].id = s})

(* A mistake to look for: MCP looks for local agents only.                 *)
DiscoverAgentsLocally(s, limit) ==
    DiscoverBySkill(local, fed, s, NoFilter,
                    IF limit > McpLimit THEN McpLimit ELSE limit, FALSE, now)

(* The MCP tool discover_agents. *)
handleDiscoverAgents(s, limit) ==
    DiscoverBySkill(local, fed, s, NoFilter,
                    IF limit > McpLimit THEN McpLimit ELSE limit, TRUE, now)

Stats == [local_count |-> local.count, federated_count |-> fed.count,
          skill_count |-> Cardinality(DOMAIN local.skillIndex),
          fed_skill_count |-> Cardinality(DOMAIN fed.skillIndex)]

-----------------------------------------------------------------------------
(* handleListAgents *)

ClampPage(limit) == IF limit \in 1 .. MaxPage THEN limit ELSE DefaultPage

(* a comes before b, or is b.  Entries are sorted by peer ID; the order of *)
(* two entries of one peer does not matter here.                           *)
NotAfter(a, b) ==
    \/ a[1] < b[1]
    \/ a[1] = b[1] /\ (a[2] = "local" \/ a[2] = b[2])

(* The entries S in order: at each place the one with as many not after it.*)
InOrder(S) ==
    [k \in 1 .. Cardinality(S) |->
        CHOOSE b \in S : Cardinality({a \in S : NotAfter(a, b)}) = k]

(* A mistake to look for: each table is sorted, the whole list is not.     *)
SortedByTable(L, F) == InOrder(L \X {"local"}) \o InOrder(F \X {"federated"})

(* The entries from both tables by peer ID. *)
Sorted(L, F) == InOrder((L \X {"local"}) \cup (F \X {"federated"}))

(* The slice of the list a request is answered with.                       *)
Page(list, offset, limit) ==
    IF offset >= Len(list) THEN <<>>
    ELSE LET end == IF offset + limit > Len(list) THEN Len(list) ELSE offset + limit
         IN  SubSeq(list, offset + 1, end)

NoWalk == [phase |-> "idle"]

(* Where the walk is (between requests, between the two reads of one, or   *)
(* over), what it asks for, the local read of the request under way, the   *)
(* agents seen; and, as history since it began, the agents listed all the  *)
(* time, the agents that left a table, those that left the federated one   *)
(* between the two reads of a request, and whether a list was cut short.   *)
Walks ==
    {NoWalk} \cup
    [phase : {"pages", "reading", "over"}, skill : AskedSkills,
     limit : AskedLimits, offset : Nat, locals : SUBSET Peers,
     seen : SUBSET Peers, steady : SUBSET Peers, left : SUBSET Peers,
     moved : SUBSET Peers, cut : BOOLEAN]

(* The agents a table contributes to a list for skill, or for no skill.    *)
ListedIn(T, skill) ==
    IF skill = NoID THEN LiveRegistrations(T) ELSE Candidates(T, skill, NoFilter, now)

Listed(skill) == ListedIn(local, skill) \cup ListedIn(fed, skill)

StartWalk(skill, limit) ==
    /\ walk.phase = "idle"
    /\ walk' = [phase |-> "pages", skill |-> skill, limit |-> limit, offset |-> 0,
                locals |-> {}, seen |-> {}, steady |-> Listed(skill), left |-> {},
                moved |-> {}, cut |-> FALSE]
    /\ UNCHANGED vars

(* The answer; the client asks for what comes after it, until it has       *)
(* received the total the answer names.                                    *)
Respond(list, short) ==
    LET page == Page(list, walk.offset, ClampPage(walk.limit))
        next == walk.offset + Len(page)
    IN  /\ walk' = [walk EXCEPT
                        !.phase = IF next >= Len(list) \/ page = <<>> THEN "over" ELSE "pages",
                        !.offset = next,
                        !.locals = {},
                        !.cut = @ \/ short,
                        !.seen = @ \cup {page[i][1] : i \in DOMAIN page}]
        /\ UNCHANGED vars

(* With a skill: one read, of at most MaxDiscoverLimit agents.             *)
ListAgentsBySkill ==
    /\ walk.phase = "pages"
    /\ walk.skill # NoID
    /\ \E a \in DiscoverBySkill(local, fed, walk.skill, NoFilter, MaxDiscoverLimit, TRUE, now) :
            Respond(Sorted(a.local, a.fed),
                    Cardinality(Listed(walk.skill)) > MaxDiscoverLimit)

(* Without: AllRegistrations, then FederatedRegistrations.                 *)
ListAgentsLocal ==
    /\ walk.phase = "pages"
    /\ walk.skill = NoID
    /\ walk' = [walk EXCEPT !.phase = "reading", !.locals = AllRegistrations]
    /\ UNCHANGED vars

ListAgentsFederated ==
    /\ walk.phase = "reading"
    /\ Respond(Sorted(walk.locals, FederatedRegistrations), FALSE)

-----------------------------------------------------------------------------
(* Steps of the registry, and what they mean for the walk.                 *)

Observe ==
    \/ /\ walk.phase \in {"idle", "over"}
       /\ walk' = NoWalk
    \/ \E skill \in AskedSkills :
        /\ walk.phase \in {"pages", "reading"}
        /\ walk.skill = skill
        /\ walk' = [walk EXCEPT
                        !.steady = @ \cap Listed(skill)',
                        !.left = @ \cup (ListedIn(local, skill) \ ListedIn(local, skill)')
                                   \cup (ListedIn(fed, skill) \ ListedIn(fed, skill)'),
                        !.moved = IF walk.phase = "reading"
                                  THEN @ \cup (ListedIn(fed, skill) \ ListedIn(fed, skill)')
                                  ELSE @]

ObservedStep ==
    /\ \/ \E p \in Peers :
            \/ \E skills \in SkillLists : RegisterSkills(p, skills)
            \/ \E ids \in SUBSET SkillIDs : UnregisterSkills(p, ids)
            \/ HeartbeatRPC(p)
            \/ RemovePeer(p)
            \/ \E reg \in FedUpdates : ReceiveFederated(p, reg)
       \/ CleanupLoop
       \/ Tick
    /\ Observe

APIInit == Init /\ walk = NoWalk

APINext ==
    \/ \E skill \in AskedSkills, limit \in AskedLimits : StartWalk(skill, limit)
    \/ ListAgentsBySkill
    \/ ListAgentsLocal
    \/ ListAgentsFederated
    \/ ObservedStep

APISpec == APIInit /\ [][APINext]_apiVars

-----------------------------------------------------------------------------
(* Properties *)

(* The tables keep their types, and a walk asks for no page beyond what    *)
(* both tables can hold.                                                   *)
APITypeOK ==
    /\ TypeOK
    /\ walk \in Walks
    /\ walk # NoWalk => walk.offset <= 2 * Cardinality(Peers)

(* A client that walks through the pages sees every agent that is listed   *)
(* all the time, although each page is cut from a new list and a list is   *)
(* read from the tables one after the other, with three exceptions and no  *)
(* others: an entry before the agent's left a table during the walk, which *)
(* moves the agent up, past the next offset; the agent itself left the     *)
(* federated table between the two reads of a request, having registered   *)
(* after the first; or more agents offer the skill than MaxDiscoverLimit,  *)
(* and a list was cut short in the order of a map.                         *)
MissedOnlyByShift ==
    walk.phase = "over" =>
        \A p \in walk.steady \ walk.seen :
            \/ \E q \in walk.left : q < p
            \/ p \in walk.moved
            \/ walk.cut

(* At any instant the views of the registry tell one story: the detail     *)
(* page finds exactly the listed agents; discovery returns every listed    *)
(* agent for each of its skills, unless it has reached its limit, and      *)
(* beyond these only agents in their last instant; MCP says that nobody    *)
(* offers a skill only if nobody is listed with it, whatever the limit;    *)
(* and the statistics cover the listed agents and the skills MCP lists.    *)
ViewsAgree ==
    LET listed      == AllRegistrations \cup FederatedRegistrations
        offering(s) == {p \in Peers : \E T \in {local, fed} :
                            p \in LiveRegistrations(T) /\ s \in IDs(T.entries[p].skills)}
        lastInstant(p) == \E T \in {local, fed} :
                            p \in DOMAIN T.entries /\ T.entries[p].expiresAt = now
    IN  /\ \A p \in Peers : GetRegistration(p) # "not found" <=> p \in listed
        /\ \A s \in SkillIDs :
            /\ \A a \in DiscoverBySkill(local, fed, s, NoFilter, MaxDiscoverLimit, TRUE, now) :
                /\ \/ offering(s) \subseteq a.local \cup a.fed
                   \/ Cardinality(a.local \cup a.fed) = MaxDiscoverLimit
                /\ \A p \in (a.local \cup a.fed) \ offering(s) : lastInstant(p)
            /\ \A limit \in 0 .. McpLimit + 1 : \A a \in handleDiscoverAgents(s, limit) :
                a.local \cup a.fed = {} => offering(s) = {}
        /\ Stats.local_count >= Cardinality(AllRegistrations)
        /\ Stats.federated_count >= Cardinality(FederatedRegistrations)
        /\ Stats.skill_count >= Cardinality({s \in SkillIDs : McpSkillCount(s) > 0})

=============================================================================
