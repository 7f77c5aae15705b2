SPECIFICATION Spec
CONSTANTS
    c1 = c1
    c2 = c2
    Client <- Clients
    Blank = Blank
    Addr <- MCAddr
    HostName = {}
    NoName = NoName
    MaxLeases = 2
    NetSize = 8
    LanAddrs <- MCLan
    PoolOf <- MCPool
    Packets <- ProtocolPackets
    Signals = {}
    NoWrite = {}
    Octet = 8
    LeaseTime = 3
    MinLease = 2
    OfferTime = 1
    ConflictTime = 1
    DeclineTime = 2
    AutoTime = 0
    Remaining = TRUE
    MaxTime = 4
PROPERTY RequestedOnlyToItsOwner
