\* Two threads refresh the snapshot and disarm, another checks a height and a
\* user arms the block, while both backends come and go, Bitcoin Core through an
\* initial block download.
SPECIFICATION FairSpec
CONSTANTS
    Txs = {}
    NoTx = NoTx
    NoTarget = NoTarget
    Wallets = {}
    Refreshers = {"poller", "diagnostics"}
    Poller = "poller"
    Monitors = {"block"}
    Dashboards = {"dashboard"}
    Targets = {3}
    Requests <- On
    Faults = {"indexer", "core"}
    DisarmAfter = 1
    MaxGap = 3
    MaxHeight = 2
    MaxEpoch = 1
    MaxLife = 0
INVARIANT ClockNeverAhead
PROPERTY ClockRecovers
PROPERTY AutoDisarms
