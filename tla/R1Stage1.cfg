\* Two invocations; one candidate with two documents.
CONSTANTS
    Candidate = {c1}
    Docs = {d1, d2}
    Worker = {w1}
    Evidence = {e1}
    Nil = Nil
    RetryBudget = 0
    Invocation = {i1, i2}
    Solo = {i3}
    Envelope <- MCEnvelope
    Tick <- MCTick
    LeaseTicks = 3
    MaxTerminal = 1
    StrictClaim = FALSE
    MayClose = TRUE
    MaxCrash = 1
    MaxEpoch = 9
    MaxVersion = 2
SPECIFICATION StageSpec
SYMMETRY Symmetry
INVARIANTS StageInvariant ReviewInvariant
PROPERTIES WritesInOrder
CHECK_DEADLOCK FALSE
