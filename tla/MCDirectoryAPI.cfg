SPECIFICATION APISpec
CONSTANTS
    Peers = {1, 2, 3}
    s1 = s1
    s2 = s2
    SkillIDs = {s1, s2}
    Tags = {}
    Relays = {2}
    NoID = NoID
    NoTag = NoTag
    TTL = 2
    MaxRegistrations = 2
    MaxFederatedRegistrations = 1
    DefaultDiscoverLimit = 1
    MaxDiscoverLimit = 2
    CleanupInterval = 2
    MaxTime = 1
    SkillLists <- MCSkillLists
    FedUpdates <- MCFedUpdates
    DefaultPage = 2
    MaxPage = 3
    McpLimit = 1
    AskedSkills = {s1, NoID}
    AskedLimits = {1}
INVARIANTS APITypeOK MissedOnlyByShift 
