\* Two wallets broadcast while the user changes the configuration, the poller
\* disarms, a write of the file or an import may fail and the process dies.
SPECIFICATION Spec
CONSTANTS
    Txs = {t1, t2}
    NoTx = NoTx
    NoTarget = NoTarget
    Wallets = {w1, w2}
    Refreshers = {"poller"}
    Poller = "poller"
    Monitors = {}
    Dashboards = {"dashboard"}
    Targets = {0, 3}
    Requests <- AllKinds
    Faults = {"crash", "disk", "import"}
    DisarmAfter = 1
    MaxGap = 3
    MaxHeight = 2
    MaxEpoch = 1
    MaxLife = 1
INVARIANT TypeOK
INVARIANT DistinctTargets
