SPECIFICATION Spec
CONSTANTS
    Peers = {p1}
    s1 = s1
    s2 = s2
    SkillIDs = {s1}
    Tags = {}
    Relays = {1, 2}
    NoID = NoID
    NoTag = NoTag
    TTL = 2
    MaxRegistrations = 2
    MaxFederatedRegistrations = 2
    DefaultDiscoverLimit = 1
    MaxDiscoverLimit = 1
    PeerRelays <- OneWay
    Skew <- NoSkew
    SkillLists <- OneSkill
    AgentRelays = {2}
    SyncLimit = 2
    Pullers = {1}
    MaxTime = 4
    MaxPushes = 0
    MaxRestarts = 0
PROPERTIES HeartbeatsReachPeers
