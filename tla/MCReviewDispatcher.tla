------------------------- MODULE MCReviewDispatcher -------------------------
(* The fixed review dispatcher for TLC: two builds of the Lab's pipeline,  *)
(* one of the Lab's with two of the Auditor's, which conclude with a T2,   *)
(* and one review from its job to its verdict.  part says which of them a  *)
(* behaviour is of, and the others rest; builds of one pipeline are alike. *)
EXTENDS ReviewDispatcher, FixedReview, TLC

VARIABLE part

Lab == INSTANCE ReviewDispatcher WITH
    MaxLabRequest <- 3, MaxAuditorRequest <- 0, MaxLog <- 6

ASSUME ReviewDispatcherAssumption /\ Lab!ReviewDispatcherAssumption

BuildSymmetry == Permutations(LabBuild) \cup Permutations(AuditorBuild)

(* Where builds of the Auditor run there is one of the Lab.                *)
OneLabBuild == Cardinality({b \in LabBuild : build'[b] # Fresh}) <= 1
LabAlone == \A b \in AuditorBuild : build'[b] = Fresh

(* The commit of a preflight would not pass, whatever its checkout holds.  *)
PoorCommit == review.as = "preflight" => commit = {}

DispatcherInit ==
    /\ part \in {"lab", "t2", "review"} /\ Init
    /\ IF part = "review" THEN ReviewInit /\ PoorCommit ELSE Resting
DispatcherNext ==
    /\ UNCHANGED part
    /\ \/ part = "lab" /\ Lab!Next /\ LabAlone /\ UNCHANGED reviewVars
       \/ part = "t2" /\ Next /\ OneLabBuild /\ UNCHANGED reviewVars
       \/ part = "review" /\ ReviewNext /\ UNCHANGED vars
DispatcherSpec == DispatcherInit /\ [][DispatcherNext]_<<part, vars, reviewVars>>
=============================================================================
