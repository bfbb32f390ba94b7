\* Liveness: a time-locked transaction, scheduled for its own nLockTime or
\* held by a Liana block target, and sent by broadcast_now beside the tick,
\* while the chain sources come and go and Bitcoin Core does not always answer.
SPECIFICATION FairSpec
CONSTANTS
    LockThreshold = 2
    MaxNow = 5
    Prices = {1}
    Ids = {1}
    NoId = 0
    Txs = {"time"}
    TxOf <- OneTime
    OwnLock <- MCOwnLock
    Callers = {c1}
    Loops = {"tick", "block", "confirm"}
    Ops = {"ingest", "now"}
    Faults = {"no_clock", "no_core"}
    Sources = {"liana", "other"}
    CfgModes = {"manual"}
    VirtualTargets = {1}
    CoreConfigured = TRUE
    MaxHeight = 1
    MaxLag = 0
PROPERTY EventuallyReleased
PROPERTY EventuallyConfirmed
