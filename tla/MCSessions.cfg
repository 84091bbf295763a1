SPECIFICATION SFairSpec
CONSTANTS
    Peers = {p1}
    s1 = s1
    s2 = s2
    SkillIDs = {s1, s2}
    Tags = {}
    Relays = {2}
    NoID = NoID
    NoTag = NoTag
    TTL = 1
    MaxRegistrations = 2
    MaxFederatedRegistrations = 1
    DefaultDiscoverLimit = 1
    MaxDiscoverLimit = 2
    CleanupInterval = 2
    MaxTime = 4
    SkillLists <- MCSkillLists
    FedUpdates <- OneFedUpdate
    Connectedness = {Connected, Limited, NotConnected}
    NotConnected = NotConnected
    EventBuffer = 3
INVARIANTS STypeOK DisconnectNoticed
PROPERTIES ExpiredAreEvicted GoneAreRemoved
