\* One task, two processes under one worker id, and a round of rework.
CONSTANTS
    w1 = w1
    Task = {t1}
    Process = {p1, p2}
    Worker = {w1}
    WorkerOf <- OneWorker
    Rank <- OnlyTask
    LeaseSeconds = 1
    MaxGeneration = 2
    MaxRound = 2
    Nil = Nil
SPECIFICATION Spec
INVARIANTS SharedInvariant
PROPERTIES ImplementsTaskFlow RecordsKept
CHECK_DEADLOCK FALSE
