\* Two requests at once set, unlock, use and lock the archive of two passwords
\* while retention seals rows, statuses are polled, writes fail and the
\* process dies.
SPECIFICATION Spec
CONSTANTS
    Requests = {r1, r2}
    Passwords = {p1, p2}
    Rows = {a}
    TTL = 2
    Interval = 3
    None = None
    MaxSalts = 2
    MaxNow = 4
SYMMETRY Symmetry
INVARIANT TypeOK
INVARIANT ArchiveOpens
INVARIANT AutoLocks
PROPERTY KeepsVault
