# A TLA+ verification of agentanycast-relay

The relay is the meeting point of AgentAnycast agents: a libp2p Circuit Relay
with a **Skill Registry** (which agent offers which skill), a **federation**
that spreads registrations between relays, and an HTTP API around them. This
directory holds TLA+ models of that code, the TLC runs that check them on small
instances and TLAPS proofs of the safety properties for every size of the
system. `PROJECT.json` maps every definition to the source lines it stands for.

## 1. The system

| Component | State | Operations | Modelled by |
|---|---|---|---|
| Skill registry (`internal/registry`) | two tables, local and federated; each a map of leased registrations, an inverted skill index and a counter | RegisterSkills, UnregisterSkills, Heartbeat, RemovePeer, RegisterFederated, evictExpired, Close; DiscoverBySkill, LocalRegistrations | `RegistryOps`, `Registry`, `SkillDirectory` |
| Disconnect watcher (`cmd/relay/main.go`) | queue of connectedness events | RemovePeer on NotConnected | `Sessions` |
| Federation (`internal/federation`) | per peer relay: client, cursor `lastSync`, breaker state | syncLoop, syncAll, syncPeer, SyncRegistrations, PushLocal, PushRegistrations | `Federation` |
| Breaker of the federation (`gossip.go`, `federation.go`) | consecutive failures, `backoffUntil` | recordPeerFailure, recordPeerSuccess, the check in syncPeer, HealthStatus | `FederationBackoff` |
| Circuit breaker (`internal/resilience/breaker.go`) | state, two counters, `openUntil` | Allow, RecordSuccess, RecordFailure, GetState, Reset | `BreakerOps`, `CircuitBreaker` |
| Breaker registry (`internal/resilience/registry.go`) | named breakers | Get, List, the reset handler | `BreakerRegistry` |
| Policy engine, namespace manager (`internal/policy`, `internal/namespace`) | rules, namespaces | add, update, remove, Evaluate; create, delete | `PolicyEngine` |
| Directory API, MCP tools (`internal/api`, `internal/mcp`) | none of their own | lists, summaries and statistics built from reads of the registry | `DirectoryAPI` |
| Health server | none | status derived from HealthStatus | `handleHealth` in `FederationBackoff` |
| Telemetry, process start-up, web UI | none that matters here | I/O, packaging | not modelled |

**How they interact.** gRPC handlers, the disconnect watcher, the clean-up
goroutine and the federation all call the registry, which serialises them with
one lock. A relay's sync loop calls `SyncRegistrations` of each peer relay, in
parallel, and applies each reply to its own federated table; it waits for all
calls, which have no deadline, before the next round. The API, MCP and health servers only read, except
for the API's policy, namespace and breaker-reset handlers.

**What is hard.**
- *Registry*: a map, an index and a counter are kept in step by hand on five
  code paths; slots are limited and held by expired registrations until a sweep;
  discovery merges two tables with a shared limit.
- *Federation*: a pull is a sequence of separately locked steps on two machines
  with different clocks. Agents, sweeps, pushes, other pulls and restarts come
  in between; replies are cut at a limit, lost, or applied late.
- *Sessions*: the registry learns of connections through a queue, while the
  agents' RPCs come by another way; the two are not ordered.
- *Breakers*: outcomes are reported in whatever state the breaker has moved to;
  Get creates breakers between two locks; the federation's delay is computed in
  64 bits before it is capped.
- *Directory*: a list is two reads, a walk many requests, of a changing registry.
- *Policies*: an unstable sort, edits in place, creation and update that are
  validated differently.

**What makes them correct.** Registry: index, map and counter agree; a slot is
held by an agent that can be found; discovery is exact; agents are not swept
before their leases end, and are after. Federation: no copy
outlives its agent by more than a lease, relays speak only of their own agents,
last writer wins whatever the order of delivery, replies are applied whole, and
nothing but a call without an answer stops the rounds. Sessions: no ended session is overlooked. Breakers: whoever uses a
name shares one breaker, cooldowns and backoffs are kept and come to an end.
Policies: decisions are those of the first rules by priority, edits and
namespaces have no effect elsewhere. Directory: when and only when an agent can
be missed is known, and all views agree.
`PROJECT.json` lists, under `hazards`, each place where this could go wrong.

## 2. Modules

```
RegistryOps            operators: what each registry method does to one table
 ├─ Registry           one relay: handlers, watcher, clean-up goroutine, clock
 │   ├─ MCRegistry     small inputs for TLC
 │   ├─ SkillDirectory abstract specification (by INSTANCE)
 │   ├─ Sessions       the registry with connections and their events
 │   │   └─ MCSessions
 │   └─ DirectoryAPI   views of the registry and a client that walks its pages
 │       └─ MCDirectoryAPI
 └─ Federation         several relays, pulls step by step, pushes, restarts
     └─ MCFederation
FederationBackoff      backoff of one peer relay, with 64-bit delays
BreakerOps             operators: what each method does to one breaker
 ├─ CircuitBreaker     abstract specification: one breaker, many callers
 └─ BreakerRegistry    named breakers, created on demand, listed and reset
PolicyEngine           policy rules and namespaces
 └─ MCPolicyEngine

Proofs, each module also extending the one it is about:
RegistryOpsProofs      lemmas about the operators on one table
 ├─ RegistryProofs
 │   └─ RegistryClientsProofs  about Sessions and DirectoryAPI (with OrderLemmas)
 └─ FederationProofs
OrderLemmas            sorting a finite set, without induction
 └─ PolicyEngineProofs
BreakerRegistryProofs
FederationBackoffProofs
```

Definitions called "a mistake to look for" are deliberately wrong variants of
the definition that follows them. No specification uses them; they show that
each property would notice such a mistake.

### RegistryOps and Registry

A table is a record of `entries` (map from peer to registration), `skillIndex`
(map from skill ID to peers, without empty buckets) and `count`. `Register`,
`Unregister`, `Heartbeat`, `RegisterFederated` and `evictExpired` are the effects
of the methods of the same name on one table; `Drop` is the deletion that
`RemovePeer`, a full `Unregister` and `evictExpired` share. `DiscoverBySkill`
gives the *set* of possible answers, because Go iterates over maps in any order
and the limit then cuts the result.

`Registry` makes one action of each method, since each holds the lock from its
first to its last access. Requests that a handler refuses change nothing and are
stuttering steps. The clean-up goroutine is driven by a ticker whose channel has
room for one tick (`ticked`); when both the ticker and `stopCh` are ready,
`select` may choose either, so a sweep can still follow `Close`.

`SkillDirectory` is what an agent may rely on: a map from agents to leased
offers. `ImplementsDirectory` shows that `Registry` implements it, where the
offer of an agent is what the *index* lets discovery see of it. The directory
knows neither intentions nor connections: one agent may leave it at any time;
several go together only when their leases have run out.

### Federation

Per relay the two tables of `RegistryOps`, the cursors and one pull per peer
relay in phases: `asked` → `snapshot` (`LocalRegistrations`, under the peer's
lock) → `reply` (the peer reads its clock and cuts the reply) → `apply`
(recordPeerSuccess, then one `RegisterFederated` per step) → `idle` (the cursor
moves). `broken` is a call whose server restarted while it served it. Clocks
differ by a constant `Skew`. `lastAlive` is a history variable. `Pullers` is a
bound: the relays whose rounds fall into the time of the model. The proofs hold
for any choice of them, all relays included.

### FederationBackoff

Time is relative, in ticks of the base delay (5 s), so that the clock needs no
bound. Go's `time.Duration` is represented by the set of the one-bits of its
64-bit pattern; multiplication by a power of two shifts and drops bits. From
the 64th failure on the conversion from `float64` is out of range and depends
on the platform: both outcomes are allowed.

A round begins with a tick and only after `syncAll` has seen *all* calls of the
last round return (`wg.Wait`). `others` stands for the calls to the other relays,
which may take any time. `idleFor` and `dueFor` are history: how long ago the
last call returned, and for how long the peer relay has been due while no call
was out.

`HealthStatus` and `handleHealth` are what the health server reports of it.

### Sessions

`conn` is the host's connectedness to each agent, `events` the queue of the
subscription; `Change` (libp2p, external) moves both, `Watch` is one turn of the
watcher's loop. That the library announces every change, and does not merge a
quick drop and return into no event, is an assumption: libp2p is not in the
repository. Without it an ended session could be overlooked, and its registration
would stay until its lease ends or the agent goes again. RPCs are served whether the agent is connected or not, because
they arrive on the gRPC server. `session` is history: in which session the
stored registration was made.

### BreakerOps, CircuitBreaker and BreakerRegistry

`BreakerOps` has one operator per method of a breaker. `CircuitBreaker` is the
abstract specification of a name: one breaker that all share. `BreakerRegistry`
keeps objects on a heap, because `Get` hands out pointers: a lookup under the
read lock, then, after a miss, creation under the write lock. An operator's
reset is three steps, a List visits one breaker per step under the read lock.
`OneBreakerPerName` is the refinement, per name. Time is relative. Nothing in
the repository but tests calls `Allow` and the `Record` methods; the callers are
modelled from the methods' contract.

### PolicyEngine

`rules` is the engine's slice. Patterns are model values with a table `Glob` of
the values `filepath.Match` accepts; a malformed pattern accepts none.
`Evaluate` gives the set of decisions over all arrangements `sort.Slice` may
produce. The slice is a function of the place in it, and only the order of the
places counts, so that `NamespaceIsolation` can compare with the rules that are
left when those of other namespaces are taken out. `edited` is history.

### DirectoryAPI

`AllRegistrations`, `FederatedRegistrations`, `GetRegistration`, `Stats` and the
two MCP tools are operators; the skill summary of REST, a count over two reads,
is not modelled. `walk` is a client that asks for
page after page; an unfiltered page is two steps (the local read, then the
federated read, sort, cut and answer), a filtered one is a single step. The
history records who was listed all the time (`steady`), who left a table
(`left`), who left the federated one between the two reads of a request
(`moved`), and whether a list was cut at the limit of a query (`cut`). Peer IDs are integers, for their order. A list in that order (`InOrder`)
has at place k the entry with k entries not after it, itself among them.

### What is abstracted

- Agent names, descriptions, logs and metrics are left out. Skill lists are
  sets; of the tags one key is kept, with `NoTag` for a skill that lacks it.
- Relay IDs are integers, which gives the string order of the tie-break.
- Clocks are discrete. Several events may share a tick, which allows more
  behaviours than nanosecond clocks do.
- In `Federation`, sweeps and rounds may happen at any time (their intervals are
  in `Registry` and `FederationBackoff`); a peer whose last call failed may be
  skipped in a round or not. Reading the cursor and sending the request are one
  step, as only that call ever writes the cursor.
- `PushLocal` has no caller in the repository; the model lets it send any local
  registration at any time, to all peers, one message each.
- Start and Stop of the federation appear as restarts and failing calls. All
  state of a relay is in memory, so a restart loses it.

## 3. Runs

Reproduce one with `tlc -config X.cfg M`.

| Run | Module, cfg | States | Checks |
|---|---|---|---|
| `registry_safety` | MCRegistry | 67 k | `TypeOK`, `IndexConsistent`, `CountsHonest`, `SlotsOfferSkills`, `DiscoverExact`, `FederatedNeverRegresses`, `ImplementsDirectory` |
| `local_priority` | MCRegistry, MCRegistryPriority | – | violation of `LocalPriority` |
| `registry_sessions` | MCSessions | 63 k | `STypeOK`, `DisconnectNoticed`, `ExpiredAreEvicted`, `GoneAreRemoved` |
| `late_disconnect` | MCSessions, MCSessionsLate | – | violation of `RemovalJustified` |
| `federation_pull` | MCFederation | 319 k | `TypeOK`, `FirstHand`, `BoundedStaleness`, `CopyNeverAhead`, `ReplyApplied`, `OnlySilenceStopsRounds` |
| `federation_heartbeat` | MCFederation, MCFederationHeartbeat | – | violation of `HeartbeatsReachPeers` |
| `federation_cursor` | MCFederation, MCFederationCursor | – | violation of `CursorCovers` |
| `backoff_bounds` | FederationBackoff | 33 k | `TypeOK`, `RetriedInTime`, `HealthTellsFailures`, `BackoffHonoured` |
| `backoff_overflow` | FederationBackoff, FederationBackoffOverflow | – | violation of `EveryFailureBacksOff` |
| `breaker` | BreakerRegistry | 126 k | `TypeOK`, `CountersFitState`, `CooldownKept`, `OneBreakerPerName`, `TriedAgain` |
| `policies` | MCPolicyEngine | 3 k | `TypeOK`, `EvaluateExact`, `NamespaceIsolation`, `NoEffectOnlyByUpdate`, `EditsAreLocal` |
| `directory_api` | MCDirectoryAPI | 369 k | `APITypeOK`, `MissedOnlyByShift`, `ViewsAgree` |

**Bounds.**
- `registry_safety`: three peers for two local slots and one federated slot, so
  that both tables are full while a peer outside them asks. `TTL = 1` and three
  ticks let a registration expire, be swept or renewed and be made again. One
  skill list names a skill twice with different tags and another skill besides;
  two are invalid. The federated updates contain a tie on the version, a newer
  version and an empty skill list. Discovery is asked with limits 0 to 3 around
  a maximum of 2.
- `registry_sessions`: one agent, whose sessions do not depend on others, with
  direct and limited connections and up to three events waiting: enough for it
  to go, return and go again before the watcher looks. Four ticks, two sweeps.
  `ExpiredAreEvicted` is stated for what expires early enough to be owed a sweep
  before the model's clock ends.
- `federation_pull`: relay 1, whose clock is ahead, pulls from relay 2, and relay
  2 pushes to relay 1; two agents at relay 2, room for one copy, replies of up to
  two, one push under way at a time, a restart of either relay, two instants.
  Pushes, sweeps and refusals come between the turns of the apply loop. Relays
  that pull from each other, and three or more of them, are left to the proofs.
- `backoff_bounds`: 66 failures in a row, beyond the last change of the delay;
  calls to this and to other relays last for any time.
- `breaker`: two names, two callers and one operator; a caller can trip a breaker
  (two failures) while the request of the other is under way, and its outcome
  meets any later state. `Cooldown = 1`: relative time has no later bound.
- `policies`: three rule IDs and six rules: equal and different priorities,
  overlapping and disjoint conditions, a malformed pattern, rules of a namespace
  and for all, one without effect. All edits in every order; symmetric in IDs.
- `directory_api`: three peers, two local slots and one federated slot, so that a
  peer can be in both tables, and a query limit of two, so that the answer to a
  skill filter is cut when all three offer the skill; agents offer one of two
  skills and change between them; pages of one agent; two instants, in the second
  of which federated copies reach their end. The run fails if any of the three
  exceptions of `MissedOnlyByShift` is taken away.

**Fairness.**
- `Registry`: weak fairness of `Tick` (time passes) and `CleanupLoop` (the
  goroutine is scheduled once its channel is ready). `Sessions` adds weak
  fairness of `Watch`: the watcher is scheduled while events wait.
- `Federation`: weak fairness of `TakeReply`, the loop over a reply that has
  arrived: the Go scheduler runs the goroutine. Nothing is assumed of a call that
  waits for its answer. It has no deadline, so a peer relay that accepts a
  request and never answers, on a connection that never breaks, holds up every
  later round with every peer; `OnlySilenceStopsRounds` says that nothing else
  does.
- `BreakerRegistry`: time passes, a List ends (it never waits for anyone), callers
  keep asking for every name (strong fairness: a caller is free again and again,
  not all the time) and requests end. The open state has no timer, so without
  callers it lasts. Operators owe nothing.

### What the violations show

1. `local_priority`: discovery skips a federated copy only if the agent's local
   registration is among the *matches*. An agent that is registered here without
   a skill, or has withdrawn it, is found for it through its copy from another
   relay (`README.md:144`: "Local registrations always take priority.").
2. `late_disconnect`: an agent disconnects, returns and registers before the
   watcher reads the NotConnected event; the event then removes the registration
   of the new session. The agent learns of it when its next heartbeat is refused.
   `DisconnectNoticed` and `GoneAreRemoved` show that the opposite mistake does
   not happen: no registration of an ended session is overlooked.
3. `federation_heartbeat`: a heartbeat moves the lease but neither
   `RegisteredAt` (which selects for incremental pulls) nor `Version` (which
   decides acceptance). Peer relays lose an agent one TTL after it *registered*,
   however long it lives on.
4. `federation_cursor`: the reply's time stamp is read after the snapshot; a
   registration in between is in no incremental pull. A reply that is cut at its
   limit loses what was cut off in the same way, since it carries the current
   time as cursor; the run keeps the limit out of play to show the first cause.
5. `backoff_overflow`: `5s * 2^(n-1)` overflows before it is capped: negative at
   n = 32 (and 35, 37, 39, 46, 48 to 52, 55), zero from n = 56 on. A peer relay
   that has been down for hours is called in every round.
   `BackoffHonoured` shows that the first 31 failures are handled as meant.

Observed while modelling, and left to the reader of the code:
- a peer relay that takes a request and never answers stops the rounds with all
  peers, and trips no breaker (`gossip.go:90` and `:128`);
- a half-open breaker lets every caller through (`breaker.go:17` speaks of a
  limited number), and an outcome admitted before the trip counts as a probe;
- `agent_count` counts skill entries: an agent in both tables, or with a skill
  listed twice, counts twice. The MCP tool `list_skills` reads local agents only
  and may answer "No skills are currently registered on the network"
  (`tools.go:97`) while federated agents offer some;
- with a skill filter `total` is at most 1000, and the agents beyond are cut in
  map order (`handlers.go:68` promises "an accurate total count");
- `/health` calls a peer relay healthy once its backoff is over, before any call
  has succeeded;
- a PUT of a policy needs no effect, and any text is accepted as one; rules of a
  deleted namespace apply to the next one of that name;
- the reset handler creates a breaker for any name.

## 4. Proofs

Every safety property the passing runs check, invariant, action property or
refinement, is proved for every value of the constants that satisfies the named
assumptions. Each inductive invariant was first checked by TLC as an invariant
of the run of its component.

| Module | Theorem | Property |
|---|---|---|
| RegistryProofs | `TypeCorrect` | `TypeOK` |
| | `IndexAlwaysConsistent` | `IndexConsistent` |
| | `CountsAlwaysHonest` | `CountsHonest` |
| | `SlotsAlwaysOfferSkills` | `SlotsOfferSkills` |
| | `DiscoverAlwaysExact` | `DiscoverExact` |
| | `LastWriterWins` | `FederatedNeverRegresses` |
| | `RegistryImplementsDirectory` | `ImplementsDirectory` |
| RegistryClientsProofs | `SessionsImplementRegistry` | `SSpec => Spec` |
| | `SessionsTypeCorrect` | `STypeOK` |
| | `DisconnectAlwaysNoticed` | `DisconnectNoticed` |
| | `DirectoryImplementsRegistry` | `APISpec => Spec` |
| | `DirectoryTypeCorrect` | `APITypeOK` |
| | `PagesMissOnlyByShift` | `MissedOnlyByShift` |
| | `ViewsAlwaysAgree` | `ViewsAgree` |
| FederationProofs | `FederationTypeCorrect` | `TypeOK` |
| | `StalenessAlwaysBounded` | `BoundedStaleness` |
| | `AlwaysFirstHand` | `FirstHand` |
| | `CopiesNeverAhead` | `CopyNeverAhead` |
| | `RepliesAlwaysApplied` | `ReplyApplied` |
| | `RelaysKeepTheirBooks` | `IndexExact` and `CountExact` of every table |
| BreakerRegistryProofs | `BreakersTypeCorrect` | `TypeOK` |
| | `CountersAlwaysFit` | `CountersFitState` |
| | `CooldownAlwaysKept` | `CooldownKept` |
| | `AlwaysOneBreakerPerName` | `OneBreakerPerName` |
| PolicyEngineProofs | `PolicyTypeCorrect` | `TypeOK` |
| | `EvaluateAlwaysExact` | `EvaluateExact` |
| | `NamespacesAlwaysIsolated` | `NamespaceIsolation` |
| | `EmptyDecisionOnlyByUpdate` | `NoEffectOnlyByUpdate` |
| | `EditsAlwaysLocal` | `EditsAreLocal` |
| FederationBackoffProofs | `BackoffTypeCorrect` | `TypeOK` |
| | `AlwaysRetriedInTime` | `RetriedInTime` |
| | `HealthAlwaysTellsFailures` | `HealthTellsFailures` |
| | `BackoffAlwaysHonoured` | `BackoffHonoured` |
| | `DelaysVanish` | no delay from the 56th failure on |

### Registry

The inductive invariant `IInv` joins, for each table, its type, `IndexExact` and
`CountExact` (`TableOK`) with the limit of the table, and for the local table
with "every registration has skills, none of them unnamed". The parts need each
other:
- the index can be shown exact after a removal only if it was exact before,
  since `removeFromSkillIndex` walks over the skills of the stored registration;
- the limit is enforced by comparing the size of the map, while the counter is
  adjusted by differences, so that counter, map and limit go together;
- a partial `Unregister` keeps a registration with the remaining skills; that
  these are not empty, and share no skill ID with the withdrawn ones
  (`FilterIDs`), is what keeps both the slot and the index right.

`RegistryOpsProofs` proves once, per operator, that it keeps `TableOK`
(`StoreOK`, `DropOK`, `UnregisterOK`, `HeartbeatOK`), what it does to the entries
(`StoreEntries`, `DropEntries`, ...) and the size of the table (`SizeBounds`). It
does so by reading the index as a relation between skills and peers (`Lists`),
for which adding and removing have one-line descriptions (`AddToIndex`,
`RemoveFromIndex`). `NextIInv` then has one step per action.
`DiscoverAlwaysExact` follows from `IInv`: a lookup through an exact index finds
what a scan finds (`CandidatesAreScan`), and a loop that stops at a limit leaves
nothing out below it (`UpToCuts`). `LastWriterWins` is an action property; each
step is examined in `StepNeverRegresses`. For the refinement, `IInv` turns what
the index offers into what the leases say (`MappedOffer = LeaseTable`); then
every action of the registry is a step of the directory or leaves it alone.

### Sessions

The watcher's steps and the agents' RPCs are steps of the registry, so `IInv` is
inherited. `SInv` adds that the registration of an ended session has a
NotConnected event of its agent in the queue (`Announced`). That is inductive
because the queue loses events only at its head, and the event that is taken
there either is another one or removes the registration.

### Federation

`BoundedStaleness`, `FirstHand` and `CopyNeverAhead` speak of copies wherever
they are. One fact, `CopyOK`, is said of every copy: its origin heard of the
agent, at the time the copy tells or later, and if the origin still holds a
registration of the agent, the copy is not ahead of it. `FInv` states it for the
stored copies, the replies in every phase of a pull and the pushes under way,
together with the same of the origin's own registrations (`OwnInv`), from which
copies are made, and with the tables, clocks and cursors (`TInv`).
`RepliesAlwaysApplied` needs `AppliedInv` in the middle of the loop: what the
loop is done with is stored, superseded or expired. The last-writer-wins order
is transitive (`NotOlderTransitive`), so that whatever replaces a stored copy
still wins over what the reply said.

The tables in `TInv` are `TableOK`, by the lemmas of `RegistryOpsProofs`, so that
every relay keeps its index and counters exact (`RelaysKeepTheirBooks`).

### Backoff

First the arithmetic, since what can go wrong here is the 64-bit product
`circuitBreakerBaseDelay * 2^(n-1)`. The provers know powers of two only for
given exponents, so the bits of one tick and of the cap are computed place by
place (`BitByBit`), and doubling is shown to move every bit one place up
(`BitsOfDouble`, `ShiftedTwice`). Different numbers of ticks differ in their
lowest six bits, because 9765625 is odd (`DurationsDiffer`); hence `TicksUntil`
is well defined. From this:
- `DelaysIntended`: through 31 failures the delay is exactly the doubled one,
  cut at five minutes;
- `DelaysBounded`: afterwards it is none at all or the cap, never anything
  longer or in between;
- `DelaysVanish`: from the 56th failure on all bits are shifted out, and the
  delay is none whatever the platform makes of the conversion. This is the
  general form of what `backoff_overflow` shows (section 3).

`BackoffInv` then relates the clocks. While no call is under way and the failures
are at most 31, what has passed since the last call and what is left of the
backoff add up to the intended delay, or the backoff is over and at least that
much has passed (`Waiting`). And while the peer relay is due and no call of any
relay holds up the round, the ticks it has been due and those left to the next
round add up to at most one sync interval (`RoundComes`). None of the three
properties is inductive: that a call is not late depends on how far the ticker
is, and that it is not early on how long ago the backoff was set. The proofs
hold for every sync interval, every bound on the failures and any duration of
the calls to this and to other relays.

### Breakers

`BInv` says that every client that holds an object holds the one registered
under its name, that an object has one name, and that each object is sound: its
counters belong to its state, and time waited and time rested add up to the
cooldown while it is open. The first part makes the second lock of `Get` safe:
it looks again before it creates. `OneBreakerPerName` is a refinement for each
name, with one lemma per action; actions on other names are stutters because an
object has one name.

### Policies

`EvaluateIs` characterises `Evaluate`, which is defined by all arrangements the
sort may produce: a decision is the effect of a matching rule that no other
matching rule precedes, and each such effect is possible. That some sorted
arrangement exists, with a given one of these rules ahead of its equals, is
shown without induction: a rule's place is the number of rules not after it in a
total order (`OrderLemmas`). A decision thus depends on the *set* of matching
rules only; isolation and locality follow, given that IDs are unique. `PInv` adds
to the types that only edited rules lack an effect, and that `edited` names only
rules that exist, so that an ID used again starts afresh.

### Directory

`WalkOK` is the invariant of a walk: an agent listed all the time, not yet seen,
to which none of the three exceptions applies (`Owed`), has a place beyond the
offset. Between the two reads of a request this is said of the list as it will
be, the local snapshot with the current federated table. Entries that come push
agents back, never ahead; entries that leave are an exception the property
names. `SortedPlaces` and `PageOfList` relate the place in the list to the
number of entries before it and to the slice that is sent. A filtered list has
every agent or has reached the limit because there are more (`FullAnswer`), so
that `cut` tells whether one was left out. `ViewsAgree` follows from `IInv`. No
size of the tables is assumed.

### Assumptions

Finite `Peers` (any set of skill IDs, tags and relays), natural limits with
`0 < DefaultDiscoverLimit <= MaxDiscoverLimit`, a positive TTL and inputs of the
right type. For the directory, skill lists are finite. For sessions, the library
announces every change of connectedness (section 2). For breakers, positive thresholds and
cooldown, and callers that are not operators. For the backoff, a positive sync
interval. The bounds that keep TLC's state space finite (`MaxTime`, `MaxPushes`,
`MaxRestarts`, `MaxFailures`) are arbitrary naturals in the proofs, `MaxFailures`
a positive one.

### Model-checked only

Liveness (`ExpiredAreEvicted`, `GoneAreRemoved`, `OnlySilenceStopsRounds`,
`TriedAgain`) is beyond the prover, which has no rule for fairness. The five
properties that a run shows violated have no theorem.

## 5. Plan

The models and proofs above are complete with respect to the properties listed.
Left: start-up behaviour of the relay process, if it comes to keep state on disk
beyond its key.

## 6. Not modelled

Circuit Relay v2 and the transports are libp2p. Start and Stop of the federation
set up and close connections; their effect is in restarts and failing calls.
The skill summary of the REST API (`handleListSkills`) is a count over two reads
of the registry, of which no property is stated.
Routing, CORS, JSON, MCP transport, telemetry, the web UI and packaging have no
state of their own. The identity key file is a single write at first start: a
crash during it leaves a file that later starts refuse to parse.
