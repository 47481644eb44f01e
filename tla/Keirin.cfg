\* One notebook of Stage 7 or the other, two configurations, three cuts, one --overwrite;
\* two chunks of Stage 3; four stake policies.
CONSTANTS
    Config = {c1, c2}
    Use <- OneNotebook
    BatchOrder = {o1, o2}
    MaxCut = 3
    MaxBegun = 5
    MaxOverwrite = 1
    Row <- MCRow
    Chunks = 2
    ChunkSize = 2
    MaxKill = 1
    MaxDamage = 1
    Bound = {TRUE, FALSE}
    Torn = Torn
    Unset = Unset
    Policy = {"FLAT100", "RACE2PCT_EQUAL", "FK10_R2", "FK25_R3"}
    Nil = Nil
SPECIFICATION KeirinSpec
INVARIANTS TrialInvariant TicketsInvariant
PROPERTIES ImplementsOneTrial OpenedInOrder ChunksKept ComesToItsEnd
CHECK_DEADLOCK FALSE
