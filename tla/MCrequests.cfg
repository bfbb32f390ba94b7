\* Two concurrent API requests of every kind on one row, against the tick
\* and the price monitor.
SPECIFICATION Spec
CONSTANTS
    LockThreshold = 2
    MaxNow = 4
    Prices = {1}
    Ids = {1}
    NoId = 0
    Txs = {"free"}
    TxOf <- OneFree
    OwnLock <- MCOwnLock
    Callers = {c1, c2}
    Loops = {"tick", "price"}
    Ops = {"import", "schedule_at", "by_price", "retry", "remove", "now", "flush", "acknowledge"}
    Faults = {"reject"}
    Sources = {"other"}
    CfgModes = {"manual"}
    VirtualTargets = {}
    CoreConfigured = TRUE
    MaxHeight = 1
    MaxLag = 0
SYMMETRY CallerSymmetry
INVARIANT UnsealedHasOwner
INVARIANT NoRowForgotten
