--------------------------------- MODULE PhaseB ---------------------------------
(***************************************************************************)
(* automation/multimodel_research_v1, Phase B: the records that are laid   *)
(* before the owner ahead of the first paid call.                          *)
(*                                                                         *)
(*   - the federation rehearsal (federation_rehearsal.py) carries both     *)
(*     providers through launch and simulated answer, and the two of them  *)
(*     through a fan-out (dual_provider_fanout.py) and an aggregate        *)
(*     (dual_provider_research.py) whose outcome is demanded;              *)
(*   - the launch chain (phase_b_launch_chain.py) does the same for one    *)
(*     recorded generation of the repository (launch_generation.py);       *)
(*   - the execution packet (phase_b_execution_packet.py) picks the        *)
(*     provider that is called first.                                      *)
(*                                                                         *)
(* A record carries digests of what it was built of.  Its validator builds *)
(* a record again, of the snapshot it is handed and of the head, times and *)
(* prices its own version of the code has as constants, and compares.      *)
(* Those constants are written by hand: nothing compares them with main or *)
(* the clock, and the attestation in a record repeats them.                *)
(*                                                                         *)
(* Texts, schemas and the authority flags, which are all constant, only    *)
(* deny and are left out.  A catalog lists a model for each provider, next *)
(* to its prices.                                                          *)
(***************************************************************************)
EXTENDS LaunchChain, ResearchBatch

CONSTANTS
    Google,         \* one of the two providers that are rehearsed
    Anthropic,      \* the other
    Listed,         \* with some prices: whom a call of the provider is aimed at
    Topic,          \* the claim of the synthetic results
    Rank,           \* the place of a provider's name among the names
    Pinned,         \* the provider the packet has to select
    Splice,         \* bound: the parts of a packet that may be of another
    MaxRecords      \* bound: records accepted, and packets

ASSUME PhaseAssumption ==
    /\ {Google, Anthropic} \subseteq Provider /\ Topic \in Claim
    /\ Listed \in [PriceList -> [Provider -> Target]]
    /\ \A l \in PriceList : Listed[l][Google].provider # Listed[l][Anthropic].provider
    /\ Rank \in [Provider -> Nat] /\ Pinned \in Provider /\ MaxRecords \in Nat

VARIABLES
    confirmed,      \* records a validator accepted: [handed, record]
    packets         \* packets a validator accepted: [expected, packet]

phaseVars == <<confirmed, packets>>

(* What a record is built on: a snapshot, and the head and time of a       *)
(* version of the code.                                                    *)
Basis == [snapshot: Snapshot, head: 0..MaxMain, checked: LaunchTime]

(* What the packet's version of the code expects: PROVIDER_EXPECTATIONS,   *)
(* CATALOG_CHECKED_AT and CANONICAL_MAIN.                                  *)
Expectation == [price: PriceList, checked: LaunchTime, head: 0..MaxMain]

PhaseInit == LaunchInit /\ confirmed = {} /\ packets = {}

-----------------------------------------------------------------------------
(* One provider, from the plan to the simulated answer.                    *)

(* Slip: the time is the one the catalog was observed at.                  *)
RestatedObserved(b) == [at |-> b.snapshot.observed, head |-> b.head]

(* _time_attestation: the Control's clock is not asked.                    *)
Restated(b) == [at |-> b.checked, head |-> b.head]

EvidenceOn(b, p) ==
    [matrix |-> [snapshot |-> b.snapshot, provider |-> p],
     plan |-> [snapshot |-> b.snapshot, provider |-> p, head |-> b.head, tokens |-> MaxTokens],
     receipt |-> [snapshot |-> b.snapshot, checked |-> b.checked],
     attestation |-> Restated(b)]

(* _provider_rehearsal.                                                    *)
ProviderRehearsed(b, p) ==
    LET e == EvidenceOn(b, p)
        rt == [matrix |-> e.matrix, tokens |-> Usage]
    IN  /\ EvidenceFits(b.snapshot, e)
        /\ RoundtripFits(b.snapshot, e, rt) /\ WithinPreflight(b.snapshot, e, rt)

(* _provider_chain: the same, and the parts are of the generation.         *)
ProviderChained(g, p) ==
    LET e == EvidenceOn(g, p)
    IN  /\ ProviderRehearsed(g, p)
        /\ e.plan.snapshot = g.snapshot /\ e.plan.head = g.head
        /\ e.receipt.checked = g.checked /\ e.attestation.at = g.checked

-----------------------------------------------------------------------------
(* Both providers on one task: two synthetic results, and what has to come *)
(* of them.                                                                *)

Aim(s, p) == Listed[s.price][p]

(* Slip: every synthetic result has the same submission id.                *)
SyntheticSameId(id, s, p, status, position) ==
    [id |-> 1, assignment |-> Aim(s, p), by |-> Aim(s, p), status |-> status,
     position |-> [c \in IF status = "COMPLETED" THEN {Topic} ELSE {} |-> position],
     at |-> s.observed]

(* _result and _result_v2: as the provider would answer its assignment.    *)
Synthetic(id, s, p, status, position) ==
    [id |-> id, assignment |-> Aim(s, p), by |-> Aim(s, p), status |-> status,
     position |-> [c \in IF status = "COMPLETED" THEN {Topic} ELSE {} |-> position],
     at |-> s.observed]

FromGoogle(s, position) == Synthetic(2, s, Google, "COMPLETED", position)
FromAnthropic(s, position) == Synthetic(1, s, Anthropic, "COMPLETED", position)
AnthropicRefuses(s) == Synthetic(1, s, Anthropic, "REFUSED", "OPPOSE")

(* Both are asked for one role, which the task has to request.             *)
Askable(s) == {Aim(s, Google).role, Aim(s, Anthropic).role} \subseteq Requested

(* The batches of the fan-out: both answer, one is missing, one refuses.   *)
FanoutLists(s) ==
    [full |-> <<FromGoogle(s, "UNKNOWN"), FromAnthropic(s, "UNKNOWN")>>,
     missing |-> <<FromGoogle(s, "UNKNOWN")>>,
     failure |-> <<FromGoogle(s, "UNKNOWN"), AnthropicRefuses(s)>>]

FanoutOutcome(s) ==
    [x \in {"full", "missing", "failure"} |->
        SummaryOf({Aim(s, Google), Aim(s, Anthropic)}, FanoutLists(s)[x])]

(* A batch is whole only with both answers, and complete only if neither   *)
(* is a refusal.                                                           *)
FanoutPasses(f) ==
    /\ Cardinality(f.full.observed) = 2 /\ Cardinality(f.full.completed) = 2
    /\ f.full.missing = {} /\ f.full.all_observed /\ f.full.all_completed
    /\ Cardinality(f.missing.observed) = 1 /\ Cardinality(f.missing.completed) = 1
    /\ Cardinality(f.missing.missing) = 1 /\ ~ f.missing.all_observed /\ ~ f.missing.all_completed
    /\ Cardinality(f.failure.observed) = 2 /\ Cardinality(f.failure.completed) = 1
    /\ f.failure.missing = {} /\ f.failure.all_observed /\ ~ f.failure.all_completed

(* What is aggregated: opposite answers, answers that agree, a refusal.    *)
ResearchLists(s) ==
    [opposed |-> <<FromGoogle(s, "SUPPORT"), FromAnthropic(s, "OPPOSE")>>,
     agreed |-> <<FromGoogle(s, "SUPPORT"), FromAnthropic(s, "SUPPORT")>>,
     refused |-> <<FromGoogle(s, "SUPPORT"), AnthropicRefuses(s)>>]

ResearchOutcome(s) == [x \in {"opposed", "agreed", "refused"} |-> Aggregate(ResearchLists(s)[x])]

(* Opposite answers diverge, across models and providers, and stay open.   *)
OppositionDiverges(a) ==
    /\ a.completed.providers = 2 /\ a.completed.models = 2
    /\ DOMAIN a.claims = {Topic} /\ a.unresolved = {Topic}
    /\ a.claims[Topic].label = "DIVERGENT"
    /\ a.claims[Topic].diversity =
           [within_model |-> FALSE, cross_model |-> TRUE, cross_provider |-> TRUE]

(* Answers that agree do not diverge.                                      *)
SupportOnly(a) ==
    /\ DOMAIN a.claims = {Topic} /\ a.unresolved = {}
    /\ a.claims[Topic].label = "SUPPORT_ONLY"
    /\ ~ a.claims[Topic].diversity.cross_model /\ ~ a.claims[Topic].diversity.cross_provider

(* _refusal_control: a refusal is heard and is no opinion.                 *)
RefusalIsSilent(a) ==
    /\ SupportOnly(a)
    /\ a.observed.providers = 2 /\ a.completed.providers = 1
    /\ Cardinality(a.noncompleted) = 1
    /\ Cardinality({n \in a.noncompleted : n.status = "REFUSED"}) = 1

ResearchPasses(r) ==
    OppositionDiverges(r.opposed) /\ SupportOnly(r.agreed) /\ RefusalIsSilent(r.refused)

(* What the federation reads from both.                                    *)
FederationPasses(f, r) ==
    /\ f.full.all_completed /\ ~ f.missing.all_completed
    /\ f.failure.all_observed /\ ~ f.failure.all_completed
    /\ r.opposed.claims[Topic].diversity.cross_provider
    /\ ~ r.agreed.claims[Topic].diversity.cross_provider
    /\ r.refused.claims[Topic].label = "SUPPORT_ONLY" /\ r.refused.completed.providers = 1
    /\ ~ r.refused.claims[Topic].diversity.cross_provider

(* The lists are accepted, and what comes of them is what is demanded.     *)
RehearsalsPass(s) ==
    /\ Askable(s)
    /\ \A x \in DOMAIN FanoutLists(s) : Summarizable(FanoutLists(s)[x])
    /\ \A x \in DOMAIN ResearchLists(s) : Aggregable(ResearchLists(s)[x])
    /\ LET f == FanoutOutcome(s)
           r == ResearchOutcome(s)
       IN  FanoutPasses(f) /\ ResearchPasses(r) /\ FederationPasses(f, r)

-----------------------------------------------------------------------------
(* The records that are rebuilt and compared.                              *)

RecordOn(b) ==
    [head |-> b.head, checked |-> b.checked,
     evidence |-> [p \in {Google, Anthropic} |-> EvidenceOn(b, p)]]

(* What a version of the code can be written on by now.                    *)
BasesOn(snapshots) ==
    [snapshot: snapshots, head: {head[t] : t \in 0..clock}, checked: LaunchTime]

(* The rehearsals read of a snapshot what it lists and when.               *)
Rehearsable == {<<s.price, s.observed>> : s \in {t \in Snapshot : RehearsalsPass(t)}}

Passing == {s \in catalog : <<s.price, s.observed>> \in Rehearsable}

(* build_dual_provider_federation_rehearsal.                               *)
FederationBuilds(b) == \A p \in {Google, Anthropic} : ProviderRehearsed(b, p)

Federations == {b \in BasesOn(Passing) : FederationBuilds(b)}

(* validate_current_canonical_launch_generation.                           *)
GenerationFits(s, g) ==
    g.snapshot = s /\ FreshnessFits(s, [snapshot |-> s, checked |-> g.checked])

(* _build_unchecked of the launch chain.                                   *)
ChainBuilds(g) ==
    GenerationFits(g.snapshot, g) /\ \A p \in {Google, Anthropic} : ProviderChained(g, p)

Chains == {g \in BasesOn(Passing) : ChainBuilds(g)}

(* Slip: the head and the time are compared, the digests are not.          *)
MatchesHeadAndTime(r, b) == r.head = b.head /\ r.checked = b.checked

(* The record is the one that is built of what was handed over.            *)
Matches(r, b) == r = RecordOn(b)

Confirm(made, handed) ==
    /\ Matches(RecordOn(made), handed)
    /\ confirmed' = confirmed \cup {[handed |-> handed, record |-> RecordOn(made)]}
    /\ UNCHANGED packets

(* validate_dual_provider_federation_rehearsal, of a record built anywhere.*)
ConfirmFederation ==
    /\ Cardinality(confirmed) < MaxRecords
    /\ LET built == Federations IN \E made, handed \in built : Confirm(made, handed)

(* validate_phase_b_current_canonical_launch_chain.                        *)
ConfirmChain ==
    /\ Cardinality(confirmed) < MaxRecords
    /\ LET built == Chains IN \E made, handed \in built : Confirm(made, handed)

-----------------------------------------------------------------------------
(* The first provider.                                                     *)

(* Slip: a verification of another snapshot will do.                       *)
VerificationFitsAny(s, v, x) ==
    /\ v.checked = x.checked
    /\ \A p \in Provider : v.price[p] = s.price[p] /\ s.price[p] = x.price[p] /\ p \in v.wire

(* validate_official_verification: pages, snapshot and code say the same   *)
(* of every provider, which can answer in the schema that goes out.        *)
VerificationFits(s, v, x) ==
    /\ v.checked = x.checked /\ v.of = s
    /\ \A p \in Provider : v.price[p] = s.price[p] /\ s.price[p] = x.price[p] /\ p \in v.wire

(* build_eligible_provider_comparison.                                     *)
Comparison(s, v) ==
    [p \in Provider |-> [eligible |-> p \in v.wire, cost |-> Cost(s, p, MaxTokens)]]

(* Slip: the provider the packet was written for.                          *)
SelectedPinned(rows) == Pinned

(* mechanically_select_provider: of those that are eligible the cheapest,  *)
(* and of those the first by name.                                         *)
Selected(rows) ==
    LET eligible == {p \in Provider : rows[p].eligible}
    IN  CHOOSE p \in eligible : \A o \in eligible :
            \/ rows[p].cost < rows[o].cost
            \/ rows[p].cost = rows[o].cost /\ Rank[p] <= Rank[o]

Selection(rows) ==
    LET p == Selected(rows)
    IN  [provider |-> p, cost |-> rows[p].cost,
         among |-> Cardinality({o \in Provider : rows[o].eligible})]

(* The schema of a result, as it is checked locally, and as it is sent:    *)
(* without the bounds that not every provider understands.                 *)
StrictSchema(assignment) == [for |-> assignment, keys |-> {"shape", "bounds"}]
WireSchema(schema) == [schema EXCEPT !.keys = @ \ {"bounds"}]

(* The request matrix of a provider, with the schema that is sent.         *)
MatrixOf(s, p) ==
    [snapshot |-> s, provider |-> p, assignment |-> Aim(s, p),
     schema |-> WireSchema(StrictSchema(Aim(s, p)))]

(* What an answer has to keep to, and what the receipt of its end.         *)
Ingestion(m, strict, wire) == [assignment |-> m.assignment, strict |-> strict, wire |-> wire]
Termination(m) == [assignment |-> m.assignment, request |-> m]

(* The parts of a packet that its hashes are taken of.                     *)
HashesOf(k) ==
    [strict |-> k.strict, wire |-> k.wire, matrix |-> k.matrix, receipt |-> k.receipt,
     verification |-> k.verification, ingestion |-> k.ingestion, termination |-> k.termination]

(* build_first_provider_execution_packet, by the version x of the code.    *)
PacketOf(s, v, x) ==
    LET rows == Comparison(s, v)
        m == MatrixOf(s, Selected(rows))
        strict == StrictSchema(m.assignment)
        parts == [head |-> x.head, snapshot |-> s, receipt |-> [snapshot |-> s, checked |-> x.checked],
                  verification |-> v, comparison |-> rows, selection |-> Selection(rows),
                  strict |-> strict, wire |-> m.schema, matrix |-> m,
                  ingestion |-> Ingestion(m, strict, m.schema), termination |-> Termination(m),
                  limits |-> [tokens |-> MaxTokens, cost |-> Cost(s, m.provider, MaxTokens)]]
    IN  [parts |-> parts, hashes |-> HashesOf(parts)]

(* It refuses to build what its checks on the way do not let through.      *)
PacketBuilds(s, v, x) ==
    /\ FreshnessFits(s, [snapshot |-> s, checked |-> x.checked]) /\ VerificationFits(s, v, x)
    /\ Selected(Comparison(s, v)) = Pinned /\ Candidate(s, Pinned, MaxTokens)

(* What every part of a packet is compared with.                           *)
PartsFit(x, k) ==
    /\ k.head = x.head
    /\ FreshnessFits(k.snapshot, k.receipt) /\ VerificationFits(k.snapshot, k.verification, x)
    /\ k.comparison = Comparison(k.snapshot, k.verification)
    /\ k.selection = Selection(k.comparison) /\ k.selection.provider = Pinned
    /\ k.strict = StrictSchema(k.matrix.assignment) /\ k.wire = WireSchema(k.strict)
    /\ k.matrix = MatrixOf(k.snapshot, k.matrix.provider) /\ k.matrix.schema = k.wire
    /\ k.matrix.provider = k.selection.provider
    /\ k.limits.tokens = MaxTokens /\ k.limits.cost = Cost(k.snapshot, k.matrix.provider, MaxTokens)
    /\ k.limits.cost = k.selection.cost /\ k.limits.cost <= MaxCost
    /\ k.ingestion = Ingestion(k.matrix, k.strict, k.wire) /\ k.termination = Termination(k.matrix)

(* Slip: the hashes in the packet are not compared with its parts.         *)
PacketFitsUnhashed(x, packet) == PartsFit(x, packet.parts)

(* validate_first_provider_execution_packet, by the version x.             *)
PacketFits(x, packet) == PartsFit(x, packet.parts) /\ packet.hashes = HashesOf(packet.parts)

(* The checks of phase_b_execution_packet_validator, which looks into a    *)
(* packet by itself and compares its requirements with its hashes.         *)
Validated(x, packet) ==
    LET k == packet.parts  hashes == packet.hashes
    IN  /\ k.head = x.head /\ k.receipt.checked - k.receipt.snapshot.observed \in 0..Window
        /\ k.selection.among = Cardinality(Provider)
        /\ k.selection.provider = Pinned /\ k.selection.cost <= MaxCost
        /\ hashes.strict # hashes.wire
        /\ k.ingestion.strict = hashes.strict /\ k.ingestion.wire = hashes.wire
        /\ k.termination.assignment = hashes.matrix.assignment /\ k.termination.request = hashes.matrix

(* What a version of the code can expect by now.                           *)
Expectations ==
    [price: PriceList, checked: LaunchTime, head: {head[t] : t \in 0..clock}]

(* What the vendors' pages were read to say, written down for a snapshot.  *)
Verifications == [of: catalog, checked: LaunchTime, price: PriceList, wire: SUBSET Provider]

(* The packets anybody can have built so far.                              *)
Builds == {b \in catalog \X Verifications \X Expectations : PacketBuilds(b[1], b[2], b[3])}
Packets == {PacketOf(b[1], b[2], b[3]) : b \in Builds}

(* A packet, or what is put together of two of them.                       *)
Spliced(a, b, names) ==
    [parts |-> [f \in DOMAIN a.parts |-> IF f \in names THEN b.parts[f] ELSE a.parts[f]],
     hashes |-> IF "hashes" \in names THEN b.hashes ELSE a.hashes]

(* A packet of any origin is validated.                                    *)
ConfirmPacket ==
    /\ Cardinality(packets) < MaxRecords
    /\ LET built == Packets
       IN  \E a, b \in built, names \in Splice, y \in Expectations :
              /\ PacketFits(y, Spliced(a, b, names))
              /\ packets' = packets \cup {[expected |-> y, packet |-> Spliced(a, b, names)]}
    /\ UNCHANGED confirmed

PhaseNext ==
    \/ LaunchNext /\ UNCHANGED phaseVars
    \/ (ConfirmFederation \/ ConfirmChain \/ ConfirmPacket) /\ UNCHANGED launchVars

PhaseSpec == PhaseInit /\ [][PhaseNext]_<<launchVars, phaseVars>>

-----------------------------------------------------------------------------
(* Properties.                                                             *)

(* A record that is accepted is of the generation it was handed with: its  *)
(* plans and requests name the head and the prices of that one, a head     *)
(* main has had, prices that held and had been observed at most a window   *)
(* before the time it was checked at, and what either call may cost is     *)
(* covered by the cost shown, and that by the ceiling                      *)
(* (PHASE_B_LAUNCH_CHAIN_EXACT_MISMATCH, FEDERATION_EXACT_MISMATCH).       *)
OneGeneration ==
    \A x \in confirmed, p \in {Google, Anthropic} :
        LET e == x.record.evidence[p]
            s == x.handed.snapshot
        IN  /\ s \in catalog /\ \E t \in 0..clock : head[t] = e.plan.head
            /\ e.plan.head = x.handed.head /\ e.plan.snapshot = s /\ e.matrix.snapshot = s
            /\ s.observed <= e.attestation.at /\ e.attestation.at <= s.observed + Window
            /\ e.attestation.at <= s.through
            /\ MaxTokens * s.price[p] <= Scale * Cost(s, p, e.plan.tokens)
            /\ Cost(s, p, e.plan.tokens) <= MaxCost

(* The many demands of a rehearsal are never in its own way: as long as    *)
(* the catalog is fresh, both models are within the ceiling and the role   *)
(* is requested, the chain can be built, and with it the federation it     *)
(* goes beyond, whichever models are listed: each answer that is missing,  *)
(* refused, opposed or alike comes out as the demands have it.             *)
NothingInTheWay ==
    LET fit == {s \in catalog : Askable(s) /\ \A p \in {Google, Anthropic} : Candidate(s, p, MaxTokens)}
        fresh == {b \in BasesOn(fit) :
                     FreshnessFits(b.snapshot, [snapshot |-> b.snapshot, checked |-> b.checked])}
    IN  fit \subseteq Passing /\ \A b \in fresh : ChainBuilds(b)

(* A packet that is accepted selects a provider whose request costs no     *)
(* more than any other's, to less than a unit at the exact prices, within  *)
(* the ceiling, at prices the validator expects and that were fresh when   *)
(* the vendors' pages were read (PACKET_LOWEST_COST_PROVIDER_CHANGED).     *)
PacketCheapest ==
    \A x \in packets :
        LET k == x.packet.parts
            s == k.snapshot
        IN  /\ s \in catalog /\ k.verification.of = s /\ s.price = x.expected.price
            /\ s.observed <= x.expected.checked /\ x.expected.checked <= s.observed + Window
            /\ x.expected.checked <= s.through
            /\ MaxTokens * s.price[k.matrix.provider] <= Scale * k.limits.cost /\ k.limits.cost <= MaxCost
            /\ \A o \in Provider :
                   /\ k.limits.cost <= Cost(s, o, MaxTokens)
                   /\ MaxTokens * s.price[k.matrix.provider] < MaxTokens * s.price[o] + Scale

(* Whatever it was put together of, a packet that is accepted is the one   *)
(* its validator's version builds of the snapshot and the verification in  *)
(* it: nothing compares the time of its freshness receipt with that of the *)
(* verification, but the hashes bind the two (PACKET_HASH_BINDING_DRIFT).  *)
PacketOfOnePiece ==
    \A x \in packets :
        LET k == x.packet.parts IN x.packet = PacketOf(k.snapshot, k.verification, x.expected)

(* The two validators of a packet agree: one takes it apart and compares   *)
(* its parts, the other looks at ages, counts and hashes, and whatever the *)
(* first accepts has no finding in the second                              *)
(* (phase_b_execution_packet_validator.py).                                *)
ValidatorsAgree == \A x \in packets : Validated(x.expected, x.packet)

(* Phase B: accepted records are of one generation, they can be built, and *)
(* the packet names the cheapest provider and is of one piece, of which    *)
(* either validator is convinced.                                          *)
PhaseInvariant ==
    OneGeneration /\ NothingInTheWay /\ PacketCheapest /\ PacketOfOnePiece /\ ValidatorsAgree
==================================================================================
