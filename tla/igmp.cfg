SPECIFICATION FairSpec
CONSTANTS
    h1 = h1
    h2 = h2
    Host <- Hosts
    home <- OneLan
    Down = {"br0"}
    Up = {"wan", "ppp"}
    Main = "wan"
    Group = {"g"}
    QI = 2
    QRI = 2
    RV = 2
    Response = 1
    MaxMemberships = 1
    Rivals = {"br0"}
    Signals = TRUE
    MaxInbox = 2
    MaxCopies = 1
INVARIANTS
    SteadyServed QueriesKeepComing RulesFollowGroups MembershipFollowsGroups
PROPERTIES
    UnwantedDropped
