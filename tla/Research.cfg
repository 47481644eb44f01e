\* Two requests, two answers, one binding; two snapshots, two attestations; three arrivals;
\* two tasks and one of what is accepted; one record of Phase B and one packet.
CONSTANTS
    Assignment <- AssignmentMC
    Model = {"m", "n"}
    Text <- TextMC
    Ending <- EndingMC
    Empty = Empty
    Prose = Prose
    MaxTime = 1
    MaxRequests = 2
    MaxAnswers = 2
    MaxBound = 1
    gem = gem  cla = cla  sch1 = sch1  sch2 = sch2
    Provider = {gem, cla}
    PriceList <- PriceListMC
    Scale = 2
    Window = 1
    MaxTokens = 3
    Ceiling = {1, 3}
    Usage = 1
    MaxCost = 3
    MaxClock = 2
    MaxMain = 1
    MaxCatalog = 2
    MaxAttested = 2
    MaxLaunch = 1
    TaskShape <- TaskShapeMC
    ListedModel <- ListedModelMC
    Variation <- VariationMC
    AnySchema = {sch1, sch2}
    PilotRole = "ac"
    Seconds = 2  Bytes = 4  LeastBytes = 1  ResultBytes = 2
    Mixed <- MixedMC
    MaxTask = 2
    MaxEdit = 1
    MaxReady = 1
    Target <- TargetMC
    Planned <- PlannedMC
    Requested = {"r1", "r2", "r3"}
    Claim = {sch1}
    Moment = {1}
    MaxId = 3
    MaxArrivals = 3
    Google = gem  Anthropic = cla  Pinned = gem
    Listed <- ListedMC
    Topic = sch1
    Rank <- RankMC
    Splice <- SpliceMC
    MaxRecords = 1
SPECIFICATION ResearchSpec
INVARIANTS CallInvariant RequestInvariant BatchInvariant PhaseInvariant
PROPERTIES ReportsStand
CHECK_DEADLOCK FALSE
