\* Two processes race on the one candidate whose documents alternate.
CONSTANTS
    Candidate = {c1}
    Docs = {d1, d2}
    Worker = {w1, w2}
    Caller = {p1, p2}
    Evidence = {e1}
    Nil = Nil
    RetryBudget = 1
    Tick = {0, 1}
    LeaseLengths = {1}
    MaxEpoch = 3
    MaxVersion = 3
SPECIFICATION EngineSpec
SYMMETRY Symmetry
INVARIANTS StoreInvariant
PROPERTIES SettledStays OnlyLastLeaseCommits
CHECK_DEADLOCK FALSE
