-------------------------- MODULE FederationBackoff --------------------------
(***************************************************************************)
(* The circuit breaker of internal/federation/gossip.go for one peer relay *)
(* (peerState, recordPeerFailure, recordPeerSuccess, the check at the head *)
(* of syncPeer) together with the ticker of syncLoop that drives it.  The  *)
(* round waits for its calls to all peer relays, and a call has no         *)
(* deadline: others stands for the calls to the other relays, which may    *)
(* take any time.                                                          *)
(*                                                                         *)
(* Time is counted in ticks of circuitBreakerBaseDelay, 5 seconds, and     *)
(* relative to now: backoff is what is left of backoffUntil, so that the   *)
(* clock needs no bound.  A time.Duration is a signed 64-bit number of     *)
(* nanoseconds; it is represented by the set of its bits that are 1.       *)
(***************************************************************************)
EXTENDS Integers, FiniteSets, FiniteSetsExt

CONSTANTS
    SyncInterval, \* Config.SyncInterval, in ticks
    MaxFailures   \* bound of the model on consecutiveFailures

ASSUME BackoffAssumption ==
    /\ SyncInterval \in Nat \ {0}
    /\ MaxFailures \in Nat \ {0}

VARIABLES
    failures,  \* peerState.consecutiveFailures
    backoff,   \* ticks until peerState.backoffUntil, 0 when it has passed
    untilTick, \* ticks until the ticker of syncLoop fires
    ticked,    \* its channel, of capacity 1, holds a tick
    calling,   \* a call of SyncRegistrations to the peer relay is under way
    others,    \* a call to another relay of this round is under way
    idleFor,   \* history: ticks since the last call returned, up to MaxTicks
    dueFor     \* history: ticks the peer relay has been due, with no call out

vars == <<failures, backoff, untilTick, ticked, calling, others, idleFor, dueFor>>

-----------------------------------------------------------------------------
(* Durations as sets of bits *)

Bits(m) == {i \in 0 .. 30 : (m \div 2^i) % 2 = 1}

(* k ticks of 5 * 10^9 = 9765625 * 2^9 nanoseconds, for k at most 60.      *)
Duration(k) == {b + 9 : b \in Bits(k * 9765625)}

MaxTicks == 60  \* circuitBreakerMaxDelay, 5 minutes

Negative(d) == 63 \in d

(* The product of d and 2^k in 64 bits: what does not fit is lost.         *)
TimesPowerOfTwo(d, k) == {b + k : b \in d} \cap 0 .. 63

Greater(d, e) ==
    LET diff == (d \ e) \cup (e \ d)
    IN  /\ ~Negative(d)
        /\ diff # {}
        /\ Max(diff) \in d

(* The possible values of time.Duration(math.Pow(2, n - 1)) times the base *)
(* delay.  From 2^63 on the conversion is out of range; it gives the least *)
(* int64 on amd64, where the product is 0, and the greatest on arm64,      *)
(* where the product is negative.                                          *)
Products(n) ==
    IF n <= 63 THEN {TimesPowerOfTwo(Duration(1), n - 1)} ELSE {{}, {63}}

(* The ticks from now to time.Now().Add(d).                                *)
TicksUntil(d) ==
    IF Negative(d) THEN 0 ELSE CHOOSE k \in 0 .. MaxTicks : Duration(k) = d

(* A mistake to look for: the delay of a failure is the one due before it. *)
DelaysOneLate(n) ==
    {TicksUntil(IF Greater(d, Duration(MaxTicks)) THEN Duration(MaxTicks) ELSE d)
        : d \in IF n = 1 THEN {{}} ELSE Products(n - 1)}

(* A mistake to look for: no upper limit (shown with the first few delays).*)
DelaysUncapped(n) == {2 ^ (IF n <= 8 THEN n - 1 ELSE 7)}

(* The delays recordPeerFailure may set when the n-th failure in a row is  *)
(* recorded.                                                               *)
Delays(n) ==
    {TicksUntil(IF Greater(d, Duration(MaxTicks)) THEN Duration(MaxTicks) ELSE d)
        : d \in Products(n)}

-----------------------------------------------------------------------------
Init ==
    /\ failures = 0
    /\ backoff = 0
    /\ untilTick = SyncInterval
    /\ ticked = FALSE
    /\ calling = FALSE
    /\ others = FALSE
    /\ idleFor = 0
    /\ dueFor = 0

(* A mistake to look for: a peer relay is given up after some failures.    *)
SyncRoundGivesUp ==
    /\ ticked
    /\ ~calling /\ ~others
    /\ ticked' = FALSE
    /\ calling' = (backoff = 0 /\ failures < 5)
    /\ others' \in BOOLEAN
    /\ dueFor' = IF calling' THEN 0 ELSE dueFor
    /\ UNCHANGED <<failures, backoff, untilTick, idleFor>>

(* A round of syncLoop, once all calls of the last one have returned:      *)
(* syncPeer leaves the peer alone during its backoff.                      *)
SyncRound ==
    /\ ticked
    /\ ~calling /\ ~others
    /\ ticked' = FALSE
    /\ calling' = (backoff = 0)
    /\ others' \in BOOLEAN
    /\ dueFor' = IF calling' THEN 0 ELSE dueFor
    /\ UNCHANGED <<failures, backoff, untilTick, idleFor>>

recordPeerFailure ==
    /\ calling
    /\ failures < MaxFailures
    /\ failures' = failures + 1
    /\ backoff' \in Delays(failures + 1)
    /\ calling' = FALSE
    /\ idleFor' = 0
    /\ UNCHANGED <<untilTick, ticked, others, dueFor>>

recordPeerSuccess ==
    /\ calling
    /\ failures' = 0
    /\ backoff' = 0
    /\ calling' = FALSE
    /\ idleFor' = 0
    /\ UNCHANGED <<untilTick, ticked, others, dueFor>>

(* The last of the other calls of the round returns. *)
OthersReturn ==
    /\ others
    /\ others' = FALSE
    /\ UNCHANGED <<failures, backoff, untilTick, ticked, calling, idleFor, dueFor>>

(* 5 seconds pass.  A round that is due starts before.                     *)
Tick ==
    /\ ~(ticked /\ ~calling /\ ~others)
    /\ backoff' = IF backoff > 0 THEN backoff - 1 ELSE 0
    /\ untilTick' = IF untilTick > 1 THEN untilTick - 1 ELSE SyncInterval
    /\ ticked' = (ticked \/ untilTick = 1)
    /\ idleFor' = IF calling THEN 0 ELSE IF idleFor < MaxTicks THEN idleFor + 1 ELSE idleFor
    /\ dueFor' = IF calling \/ others \/ backoff > 0 THEN 0
                 ELSE IF dueFor <= SyncInterval THEN dueFor + 1 ELSE dueFor
    /\ UNCHANGED <<failures, calling, others>>

(* HealthStatus of the peer relay, and the status /health reports for a    *)
(* relay with this one peer.                                               *)
HealthStatus == [healthyPeers |-> IF backoff > 0 THEN 0 ELSE 1, failures |-> failures]

handleHealth == IF HealthStatus.healthyPeers < 1 THEN "degraded" ELSE "healthy"

Next ==
    SyncRound \/ recordPeerFailure \/ recordPeerSuccess \/ OthersReturn \/ Tick

Spec == Init /\ [][Next]_vars

-----------------------------------------------------------------------------
(* Properties *)

(* What recordPeerFailure sets is, after all overflows, neither negative   *)
(* nor more than five minutes away.                                        *)
TypeOK ==
    /\ failures \in 0 .. MaxFailures
    /\ backoff \in 0 .. MaxTicks
    /\ untilTick \in 1 .. SyncInterval
    /\ ticked \in BOOLEAN
    /\ calling \in BOOLEAN
    /\ others \in BOOLEAN
    /\ idleFor \in 0 .. MaxTicks
    /\ dueFor \in 0 .. SyncInterval + 1

(* A peer relay that fails is not given up: once its backoff has ended,    *)
(* and TypeOK bounds that by 5 minutes, it is called again within one sync *)
(* interval, however often it has failed, not counting the time in which   *)
(* the round still waits for other relays: their calls have no deadline,   *)
(* and nothing bounds that wait.                                           *)
RetriedInTime == dueFor <= SyncInterval

(* The backoff the code means: 5 s, 10 s, 20 s, ... up to 5 minutes.       *)
IntendedTicks(n) ==
    IF n = 0 THEN 0 ELSE IF n <= 6 THEN 2 ^ (n - 1) ELSE MaxTicks

(* The call that starts in this step comes no sooner than the intended     *)
(* backoff after the last failure.                                         *)
StartsRested == ~calling /\ calling' => idleFor >= IntendedTicks(failures)

(* Through the first 31 failures in a row a peer relay is left alone for   *)
(* the whole of an exponentially growing backoff, and after a success for  *)
(* none.                                                                   *)
BackoffHonoured == [][failures <= 31 => StartsRested]_vars

(* What /health says of a peer relay that is down, through the first 31    *)
(* failures: the relay is degraded for exactly the intended backoff after  *)
(* the last failure, whatever rounds were skipped or missed meanwhile.     *)
(* (After it /health says healthy, before any call has succeeded.)         *)
HealthTellsFailures ==
    (failures \in 1 .. 31 /\ ~calling) =>
        (handleHealth = "degraded" <=> idleFor < IntendedTicks(failures))

(* The circuit breaker sets a backoff on every failure, and syncPeer       *)
(* respects it.                                                            *)
EveryFailureBacksOff == [][StartsRested]_vars

=============================================================================
