\* The poller and a spawned refresh feed a session, Sparrow's or Liana's, while
\* blocks arrive, one is lost to a reorganisation and a height is armed.
SPECIFICATION FairSpec
CONSTANTS
    Sessions = {"session"}
    Label <- MCLabel
    Refreshers = {"poller", "spawned"}
    Poller = "poller"
    None = None
    Targets = {3}
    MaxHeight = 2
    MaxReorgs = 1
INVARIANT TypeOK
INVARIANT NoFictionElsewhere
INVARIANT TipSettled
PROPERTY TipReachesWallets
PROPERTY FeedsTips
