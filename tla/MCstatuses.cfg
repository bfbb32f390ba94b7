\* One wallet, its own transaction and an old payment, every fault.
SPECIFICATION Spec
CONSTANTS
    Sessions = {"wallet"}
    Scripthashes = {"from", "to"}
    Txs = {"pay", "gift"}
    Old = {"gift"}
    OutputsOf <- MCOutputsOf
    InputsOf <- MCInputsOf
    Wanted = {"from"}
    Workers = {"loop"}
    None = None
    Untold = Untold
    Faults = {"ingest", "prev_tx", "history", "relay", "crash",
              "rehydrate"}
    Capacity = 2
INVARIANT TypeOK
INVARIANT PoolReachesWallets
INVARIANT StatusIsReal
INVARIANT RelayHoldsItsSet
