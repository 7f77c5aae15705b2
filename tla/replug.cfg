SPECIFICATION Spec
CONSTANTS
    TxDescs = 8
    PktDescs = 2
    LenPerDs = 8
    Lens = {12}
    RxDescs = 2
    Weight = 1
    Speeds = {"fast"}
    Events = {"cable"}
    Fatal = {}
INVARIANT InterruptLeavesRing
