\* The chain: one collector, three races, two contents, six collections.
\* A capture: two entrants and numbers, two of everything else a profile
\* says, two jobs and one change of the site; a race has five units of time,
\* from its racecard six.
CONSTANTS
    Collector = {p1}
    Race = {r1, r2, r3}
    Content = {x, y}
    Offset = {0, 99, 100}
    Age <- MCAge
    Before <- MCBefore
    MaxStart = 6
    None = None
    Riders = 2
    Name = {n1, n2}
    Full1 = Full1
    Full2 = Full2
    Short1 = Short1
    Short2 = Short2
    Kyoto1 = Kyoto1
    Kyoto2 = Kyoto2
    Kyo1 = Kyo1
    Kyo2 = Kyo2
    Group <- Writings
    Racecards <- RacecardsMC
    Option = {Full1, Full2}
    Canon <- CanonPref
    Snum = {s1, s2}
    Form = {f1, f2}
    Absent = Absent
    Spacing = 1
    CardSpacing = 2
    MaxBatch = 5
    MaxWindow = 6
    MaxLocate = 3
    MaxListed = 2
    MaxDelay = 1
    MaxIdle = 2
    MaxJobs = 2
    MaxEdits = 1
    RaceOrder <- OrderMC
    Car = {1, 2, 3, 4}
    Page <- PageMC
    Shelf <- Shelves
    MaxRun = 2
    MaxChange = 1
    Missing = Missing
SYMMETRY CaptureSymmetry
SPECIFICATION CollectSpec
INVARIANTS ChainInvariant CaptureInvariant RecoveryInvariant
PROPERTY OnlyAppended
CHECK_DEADLOCK FALSE
