SPECIFICATION FairSpec
CONSTANTS
    Peers = {p1, p2}
    s1 = s1
    s2 = s2
    SkillIDs = {s1}
    Tags = {}
    Relays = {1, 2}
    NoID = NoID
    NoTag = NoTag
    TTL = 1
    MaxRegistrations = 2
    MaxFederatedRegistrations = 1
    DefaultDiscoverLimit = 1
    MaxDiscoverLimit = 1
    PeerRelays <- Mesh
    Skew <- Skewed
    SkillLists <- OneSkill
    AgentRelays = {2}
    SyncLimit = 2
    Pullers = {1}
    MaxTime = 1
    MaxPushes = 1
    MaxRestarts = 1
INVARIANTS TypeOK  BoundedStaleness CopyNeverAhead
PROPERTIES ReplyApplied OnlySilenceStopsRounds
