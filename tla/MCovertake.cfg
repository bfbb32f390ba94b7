\* A halt set by the tick or by broadcast_now while other threads are past their
\* gate, in a batch or resending; two transactions for immediate broadcast.
SPECIFICATION HaltSpec
CONSTANTS
    LockThreshold = 2
    MaxNow = 3
    Prices = {1}
    Ids = {1, 2}
    NoId = 0
    Txs = {"first", "second"}
    TxOf <- TwoRows
    OwnLock <- NoLock
    Callers = {c1}
    Loops = {"tick", "rebroadcast"}
    Ops = {"ingest", "random", "now", "acknowledge"}
    Faults = {}
    Sources = {"other"}
    CfgModes = {"immediate"}
    VirtualTargets = {}
    CoreConfigured = TRUE
    MaxHeight = 0
    MaxLag = 0
INVARIANT HaltLeaksWhatOvertookIt
