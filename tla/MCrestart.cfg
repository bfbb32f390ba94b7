\* The process dies anywhere: every ingest plan (Liana virtual targets and
\* each configured mode), retention and every kind of write, without an
\* nLockTime of the transaction itself to hide behind.
SPECIFICATION Spec
CONSTANTS
    LockThreshold = 3
    MaxNow = 5
    Prices = {1}
    Ids = {1}
    NoId = 0
    Txs = {"free"}
    TxOf <- OneFree
    OwnLock <- MCOwnLock
    Callers = {c1}
    Loops = {"tick", "block", "retain"}
    Ops = {"ingest", "random", "now"}
    Faults = {"crash", "lost_reply", "no_clock"}
    Sources = {"liana", "sparrow", "other"}
    CfgModes = {"immediate", "scheduled", "by_block"}
    VirtualTargets = {2}
    CoreConfigured = FALSE
    MaxHeight = 2
    MaxLag = 1
INVARIANT BroadcastMeansAccepted
INVARIANT NoEarlyRelease
INVARIANT NoRowForgotten
INVARIANT NoRowDropped
PROPERTY KeepsPromise
