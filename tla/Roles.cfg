\* Relay: two jobs, two workers, three mishaps, an answer complete refuses.
\* Orchestrator: one process at a time.  Stores: four classes on one file.
\* Core: two tasks, two executors, a verifier that is also a provider.
CONSTANTS
    Key = {k1, k2}
    Worker = {w1, w2}
    Token <- MCToken
    Result = {fit, other, unfit}
    Unfit = {unfit}
    MaxMishap = 3
    Orch = {o1}
    ClaimId <- MCClaim
    SemBudget = 2
    TransBudget = 1
    MaxCrash = 1
    Code = {f1}
    MaxSteps = 20
    d1 = d1  d2 = d2  b1 = b1  b2 = b2  m1 = m1  m2 = m2
    StoreKey = {s1, s2}
    Pair <- PairMC
    Main = {m1, m2}
    V3Branch = b1
    Policy <- PolicyMC
    Source <- SourceMC
    Proposal <- ProposalMC
    Objective = {j1, j2}
    Commit = {h1, h2}
    Request = {r1, r2}
    x1 = x1  x2 = x2
    CoreTask = {c1, c2}
    CoreKey = {i1}
    Executor = {e1, e2}
    Provider = {q1}
    Verifier = {q1, auditor}
    Receipt = {v1}
    Amount = {0, 1}
    Content = {x1, x2}
    MaxFault = 1
    MaxLog = 1
    Nil = Nil  None = None  Unset = Unset  Null = Null
SPECIFICATION RolesSpec
INVARIANTS RelayInvariant OrchestratorInvariant StoresInvariant CoreInvariant
PROPERTIES ImplementsPromise SettledForGood
