----------------------------- MODULE MCResearch ------------------------------
(* The research federation for TLC: the call of a provider, the documents  *)
(* of a request and of a launch, the aggregation of results and the        *)
(* records of Phase B.  part says which of them a behaviour is of, and the *)
(* others rest.                                                            *)
EXTENDS ProviderCall, PhaseB, RequestDocuments, TLC

CONSTANTS gem, cla, sch1, sch2

VARIABLE part

(* Calls: two roles of one Gemini model and one assignment of a Claude     *)
(* model; an answer in time and one dated ahead, one that names another    *)
(* role, one that says it refuses.                                         *)
A1 == [provider |-> "gemini", model |-> "m", role |-> "r1"]
A2 == [provider |-> "gemini", model |-> "m", role |-> "r2"]
A3 == [provider |-> "claude", model |-> "n", role |-> "r1"]
AssignmentMC == {A1, A2, A3}

Says(a, b, s, t) == [for |-> a, by |-> b, status |-> s, at |-> t]
TextMC ==
    {Empty, Prose, Says(A1, A1, "COMPLETED", 0), Says(A1, A1, "COMPLETED", 1), Says(A1, A2, "COMPLETED", 0),
     Says(A3, A3, "COMPLETED", 0), Says(A3, A3, "REFUSED", 0)}
EndingMC ==
    [gemini |-> {<<"completed", FALSE>>, <<"failed", FALSE>>},
     claude |-> {<<"end_turn", FALSE>>, <<"end_turn", TRUE>>, <<"max_tokens", FALSE>>,
                 <<"tool_use", FALSE>>}]

(* Launches: two providers; prices rise or fall between snapshots, and one *)
(* is above what a first call may cost.  A window is one unit of time.     *)
PriceListMC == {(gem :> 1) @@ (cla :> 2), (gem :> 2) @@ (cla :> 1), (gem :> 1) @@ (cla :> 4)}

(* Batches: one model in two roles and one of another provider; a third    *)
(* role is requested and planned for nobody.                               *)
PlannedMC == {[provider |-> "p", model |-> "m", role |-> "r1"],
              [provider |-> "p", model |-> "m", role |-> "r2"],
              [provider |-> "q", model |-> "n", role |-> "r1"]}
TargetMC == PlannedMC \cup {[provider |-> "q", model |-> "n", role |-> "r2"]}

(* Phase B: the two providers answer in one role.                          *)
ListedMC ==
    [l \in PriceListMC |->
        (gem :> [provider |-> "p", model |-> "m", role |-> "r1"]) @@
        (cla :> [provider |-> "q", model |-> "n", role |-> "r1"])]
SpliceMC == {{}, {"receipt"}, {"receipt", "hashes"}, {"verification"}, {"snapshot", "receipt"}, {"head"},
             {"snapshot", "comparison", "selection"}, {"matrix"}, {"strict", "wire"}}
RankMC == (gem :> 2) @@ (cla :> 1)

(* Nothing is attested: an attestation has no part in these records.  Only *)
(* the first snapshot may expire, and a behaviour ends with the first      *)
(* record, which nothing takes back.                                       *)
PhaseBNext ==
    \/ /\ ClockTicks \/ MoveMain \/ Observe
       /\ \A s \in catalog' \ catalog : catalog = {} \/ s.through = MaxClock
       /\ UNCHANGED phaseVars
    \/ (ConfirmFederation \/ ConfirmChain \/ ConfirmPacket) /\ UNCHANGED launchVars

(* Requests: a task with little time and one with little room; what is     *)
(* straightforward for either provider, and each way to go wrong once.     *)
TaskShapeMC ==
    {[roles |-> {"ac", "r2"}, evidence |-> {"NORMALIZED_JSON_SHA256"}, seconds |-> 1, bytes |-> 3, network |-> FALSE],
     [roles |-> {"ac"}, evidence |-> {"RAW"}, seconds |-> 3, bytes |-> 1, network |-> TRUE]}
ListedModelMC == [l \in PriceListMC |-> (gem :> IF l[gem] = 1 THEN "m" ELSE "m2") @@ (cla :> "n")]
Plain ==
    [to |-> gem, aim |-> gem, named |-> gem, bound |-> gem, role |-> "ac", spoken |-> "ac", model |-> "m", schema |-> sch1,
     created |-> 0, asked |-> 0, adapter |-> 0, network |-> FALSE, seconds |-> 1, bytes |-> 1, tokens |-> 3,
     cost |-> 3]
VariationMC ==
    {Plain, [Plain EXCEPT !.to = cla, !.named = cla, !.bound = cla],
     [Plain EXCEPT !.spoken = "r2"], [Plain EXCEPT !.role = "r2", !.spoken = "r2"],
     [Plain EXCEPT !.named = cla], [Plain EXCEPT !.bound = cla],
     [Plain EXCEPT !.created = 1, !.asked = 1, !.schema = sch2], [Plain EXCEPT !.created = 1],
     [Plain EXCEPT !.seconds = 3, !.network = TRUE], [Plain EXCEPT !.cost = 4]}
MixedMC == {{"task"}, {"prompt", "schema", "render"}, {"prep"}}

(* Of the prices the first are left out, and they hold; the clock ticks    *)
(* once, and a behaviour ends with what is accepted first; reports         *)
(* have no part in the adapters.                                           *)
DocsNext ==
    /\ ready = {} /\ pilots = {} /\ trips = {}
    /\ \/ /\ ClockTicks \/ Observe
          /\ clock' <= 1 /\ \A s \in catalog' : s.through = MaxClock /\ s.price[cla] # 2
          /\ UNCHANGED requestVars
       \/ /\ WriteTask \/ EditAdapter \/ (adapter = 0 /\ Prepare) \/ ConfirmPilot \/ ConfirmTrip
          /\ UNCHANGED launchVars

ResearchInit ==
    part \in {"call", "launch", "docs", "batch", "phase"} /\ Init /\ RequestInit /\ PhaseInit /\ BatchInit
ResearchNext ==
    /\ UNCHANGED part
    /\ \/ part = "call" /\ Next /\ UNCHANGED <<launchVars, requestVars, arrived, phaseVars>>
       \/ part = "launch" /\ LaunchNext /\ UNCHANGED <<vars, requestVars, arrived, phaseVars>>
       \/ part = "docs" /\ DocsNext /\ UNCHANGED <<vars, arrived, phaseVars>>
       \/ part = "batch" /\ BatchNext /\ UNCHANGED <<vars, launchVars, requestVars, phaseVars>>
       \/ /\ part = "phase" /\ confirmed = {} /\ packets = {} /\ PhaseBNext
          /\ UNCHANGED <<vars, requestVars, arrived>>
ResearchSpec == ResearchInit /\ [][ResearchNext]_<<part, vars, launchVars, requestVars, arrived, phaseVars>>
===============================================================================
