\* Three indexers, of two chains, come and go with Bitcoin Core while two
\* requests change the network, the file cannot always be written and the
\* process dies, on Umbrel and elsewhere.
SPECIFICATION FairSpec
CONSTANTS
    Nodes = {"electrs", "lan", "own"}
    Electrs = {"electrs"}
    Scanned = {"electrs", "lan"}
    Known = {"lan"}
    WalletLan = {"lan"}
    ChainOf <- MCChainOf
    Tls = {"own"}
    Chains = {"main", "signet"}
    Installs = {"umbrel", "lan"}
    Pins <- MCPins
    Nets = {"signet", None}
    Files <- MCFiles
    Cores = {"main", None}
    Requests = {"first", "second"}
    Faults = {"disk", "crash"}
    None = None
    MaxAttempts = 2
INVARIANT TypeOK
INVARIANT OnNetwork
INVARIANT ClientFollows
PROPERTY ManualSurvives
PROPERTY UmbrelConnects
