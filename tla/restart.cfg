SPECIFICATION Spec
CONSTANTS
    c1 = c1
    c2 = c2
    Client <- Clients
    Blank = Blank
    Addr <- MCAddr
    HostName = {c2}
    NoName = NoName
    MaxLeases = 2
    NetSize = 8
    LanAddrs <- TwoPools
    PoolOf <- TwoPoolsOf
    Packets <- RestartPackets
    Signals = {"USR1", "USR2", "TERM", "KILL", "POWER"}
    NoWrite = {}
    Octet = 8
    LeaseTime = 2
    MinLease = 1
    OfferTime = 1
    ConflictTime = 1
    DeclineTime = 2
    AutoTime = 2
    Remaining = TRUE
    MaxTime = 3
INVARIANTS
    TypeOK LanNeverAcked OneLeasePerAddress ReloadComplete SaveComplete
