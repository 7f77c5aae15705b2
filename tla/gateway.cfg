SPECIFICATION FairSpec
CONSTANTS
    Cell = {1, 2}
    Requests <- ManyRequests
    ForwardRules = TRUE
    Default = 0
    Day = 4
    Soon = 1
    MaxJobs = 2
    Signals = {"USR1", "TERM"}
    MaxId = 3
    MaxTime = 2
CHECK_DEADLOCK FALSE
INVARIANTS
    OneMappingPerPort RulesFollowList EventsFollowList
PROPERTIES
    ImplementsPortBook ExpiredOnlyWhenDue MappingsExpire
