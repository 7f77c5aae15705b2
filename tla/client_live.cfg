SPECIFICATION FairSpec
CONSTANTS
    Addr <- Addrs
    Server <- Servers
    Xid = {1}
    LeaseTime = {5, 9}
    Messages <- LiveMessages
    Signals = {"USR1", "USR2", "TERM"}
    Request = 0
    AbortIfNoLease = FALSE
    QuitAfterLease = FALSE
    MaxLeft = 4
PROPERTIES
    LeaseEnds EventuallyBound
