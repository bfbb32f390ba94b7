\* The block monitor's mark_due and the tick on one honest row: the tick
\* may read the row between the UPDATE and its reseal.
SPECIFICATION Spec
CONSTANTS
    LockThreshold = 2
    MaxNow = 5
    Prices = {1}
    Ids = {1}
    NoId = 0
    Txs = {"height"}
    TxOf <- OneHeight
    OwnLock <- MCOwnLock
    Callers = {c1}
    Loops = {"tick", "block"}
    Ops = {"ingest"}
    Faults = {}
    Sources = {"other"}
    CfgModes = {"manual"}
    VirtualTargets = {}
    CoreConfigured = TRUE
    MaxHeight = 1
    MaxLag = 1
INVARIANT NoFalseAlarm
CHECK_DEADLOCK FALSE
