----------------------------- MODULE MCR1Stage1 -----------------------------
(* The Stage 1 runtime for TLC, twice: one task may finish where two could *)
(* (part "ceiling"); documents change while reviews disagree (part         *)
(* "retry"); and one invocation after the other meets documents that       *)
(* change back (part "return").  What is not run rests.  A lease of        *)
(* three ticks outlives the commit, which is two ticks after it was        *)
(* granted, and has expired at the next tick here.                         *)
EXTENDS R1Stage1, TLC

CONSTANT Solo       \* the one invocation at a time of part "return"

VARIABLES part, control2, r2, high2, expired2, over2, current2, pc2, job2, copy2, crashes2

MCTick == {0, 3}

Reviewed == [state |-> "REVIEWED_NO_ADMISSION", evidence |-> {}]
Rejected == [state |-> "EXPLICIT_INELIGIBLE", evidence |-> Evidence]

Enqueued(verdicts) == [candidate : Candidate, docs : Docs, worker : Worker, verdict : verdicts]

(* Every document is enqueued with one verdict.                            *)
MCEnvelope == Enqueued({Reviewed})

(* One document is enqueued with two verdicts.                             *)
MCEnvelopeOneConflict ==
    LET d == CHOOSE x \in Docs : TRUE
    IN  MCEnvelope \cup {e \in Enqueued({Rejected}) : e.docs = d}

Retry == INSTANCE R1Stage1 WITH
    Envelope <- MCEnvelopeOneConflict, MaxTerminal <- 2, MayClose <- FALSE, MaxCrash <- 0,
    MaxEpoch <- 2, MaxVersion <- 2,
    control <- control2, r1 <- r2, high <- high2, expired <- expired2, over <- over2,
    current <- current2, pc <- pc2, job <- job2, copy <- copy2, crashes <- crashes2

Return == INSTANCE R1Stage1 WITH
    Envelope <- MCEnvelopeOneConflict, Invocation <- Solo, MaxTerminal <- 3, MayClose <- FALSE,
    MaxCrash <- 1, MaxEpoch <- 3, MaxVersion <- 6,
    control <- control2, r1 <- r2, high <- high2, expired <- expired2, over <- over2,
    current <- current2, pc <- pc2, job <- job2, copy <- copy2, crashes <- crashes2

Symmetry == Permutations(Invocation)

retryVars == <<control2, r2, high2, expired2, over2, current2, pc2, job2, copy2, crashes2>>

StageInit ==
    /\ Init
    /\ \/ part \in {"ceiling", "retry"} /\ Retry!Init
       \/ part = "return" /\ Return!Init
StageNext ==
    /\ UNCHANGED part
    /\ \/ part = "ceiling" /\ Next /\ UNCHANGED retryVars
       \/ part = "retry" /\ Retry!Next /\ UNCHANGED vars
       \/ part = "return" /\ Return!Next /\ UNCHANGED vars
StageSpec == StageInit /\ [][StageNext]_<<part, vars, retryVars>>

(* What is reviewed where documents change while reviews disagree: each    *)
(* part keeps ReviewsSound on documents that are enqueued again.         *)
ReviewInvariant ==
    /\ part = "retry" => Retry!ReviewsSound
    /\ part = "return" => Return!ReviewsSound
=============================================================================
