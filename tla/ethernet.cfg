SPECIFICATION Spec
CONSTANTS
    TxDescs = 10
    PktDescs = 2
    LenPerDs = 8
    Lens = {12}
    RxDescs = 2
    Weight = 2
    Speeds = {"fast"}
    Events = {"cable", "close", "watchdog", "nomem"}
    Fatal = {"cable", "watchdog"}
INVARIANTS
    AssertionsHold
    TxLockless
    DmaHasBuffer
    NoPacketLost
