\* The scheduler loops against each other: two rows, one held by a height
\* and one by a time, refused, lost and evicted sends, an unreadable chain.
SPECIFICATION Spec
CONSTANTS
    LockThreshold = 2
    MaxNow = 5
    Prices = {1}
    Ids = {1, 2}
    NoId = 0
    Txs = {"height", "time"}
    TxOf <- HeightTime
    OwnLock <- MCOwnLock
    Callers = {c1}
    Loops = {"tick", "block", "rebroadcast"}
    Ops = {"ingest"}
    Faults = {"evict", "lost_reply", "no_clock"}
    Sources = {"other"}
    CfgModes = {"manual"}
    VirtualTargets = {}
    CoreConfigured = FALSE
    MaxHeight = 1
    MaxLag = 1
INVARIANT TypeOK
INVARIANT BroadcastMeansAccepted
INVARIANT UnsealedHasOwner
PROPERTY FirstSendIsGated
