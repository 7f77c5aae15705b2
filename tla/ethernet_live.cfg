SPECIFICATION FairSpec
CONSTANTS
    TxDescs = 10
    PktDescs = 2
    LenPerDs = 8
    Lens = {12}
    RxDescs = 2
    Weight = 1
    Speeds = {"fast"}
    Events = {"watchdog", "stress"}
    Fatal = {"watchdog"}
INVARIANTS
    AssertionsHold
PROPERTIES
    QueueRestarts
    RxDelivered
    RxRestarts
