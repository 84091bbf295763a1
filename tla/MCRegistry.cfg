SPECIFICATION Spec
CONSTANTS
    Peers = {p1, p2, p3}
    s1 = s1
    s2 = s2
    t1 = t1
    SkillIDs = {s1, s2}
    Tags = {t1}
    Relays = {2, 3}
    NoID = NoID
    NoTag = NoTag
    TTL = 1
    MaxRegistrations = 2
    MaxFederatedRegistrations = 1
    DefaultDiscoverLimit = 1
    MaxDiscoverLimit = 2
    CleanupInterval = 2
    MaxTime = 3
    SkillLists <- MCSkillLists
    FedUpdates <- MCFedUpdates
SYMMETRY Symmetry
INVARIANTS TypeOK IndexConsistent CountsHonest SlotsOfferSkills DiscoverExact
PROPERTIES FederatedNeverRegresses ImplementsDirectory
