SPECIFICATION Spec
CONSTANTS
    Addr <- Addrs
    Server <- Servers
    Xid = {1, 2}
    LeaseTime <- Times
    Messages <- ProtocolMessages
    Signals = {"USR1", "USR2", "TERM"}
    Request = 10
    AbortIfNoLease = TRUE
    QuitAfterLease = FALSE
    MaxLeft = 4
INVARIANTS
    ListenMatchesState HeldWhileValid ConfiguredAsLeased UnleasedIsDeconfigured
PROPERTIES
    LostOnlyAtEnd RenewalTried
