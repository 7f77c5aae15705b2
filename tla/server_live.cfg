SPECIFICATION FairSpec
CONSTANTS
    c1 = c1
    c2 = c2
    Client <- Clients
    Blank = Blank
    Addr <- MCAddr
    HostName = {}
    NoName = NoName
    MaxLeases = 2
    NetSize = 8
    LanAddrs <- MCLan
    PoolOf <- MCPool
    Packets <- LivePackets
    Signals = {"USR1", "USR2", "TERM", "KILL"}
    NoWrite = {}
    Octet = 8
    LeaseTime = 2
    MinLease = 1
    OfferTime = 1
    ConflictTime = 1
    DeclineTime = 2
    AutoTime = 1
    Remaining = FALSE
    MaxTime = 3
PROPERTIES
    HandlersEnd AutoSaved
