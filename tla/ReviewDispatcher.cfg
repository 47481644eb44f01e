\* Two requests of each build's lane, three where only the Lab's builds run; reads late by a comment.
SPECIFICATION DispatcherSpec
CONSTANTS
    LabBuild = {l1, l2}
    AuditorBuild = {a1, a2}
    MaxLabRequest = 2
    MaxAuditorRequest = 1
    MaxLog = 8
    MaxReads = 2
    Lag = {0, 1}
    MaxFault = 1
    Mark = {"token", "namesake", "secret"}
    Method = {"POST"}
    Public = {"public"}
    Private = {"private"}
    Attempts = 2
    TTL = 1
    MaxClock = 2
    MaxDrift = 1
SYMMETRY BuildSymmetry
INVARIANTS ReceiptInvariant FixedReviewInvariant
PROPERTIES WinnersStable
CHECK_DEADLOCK FALSE
