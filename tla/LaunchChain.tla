------------------------------ MODULE LaunchChain ------------------------------
(***************************************************************************)
(* automation/multimodel_research_v1, the send side: what has to fit       *)
(* together before a provider may be called, and the rehearsal that pairs  *)
(* it with a simulated answer.                                             *)
(*                                                                         *)
(* Documents are built by whoever prepares a call, at any time and in any  *)
(* order, and are handed over side by side: a catalog snapshot, a receipt  *)
(* that says when it was checked, a plan for one provider on one candidate *)
(* head, the Control's attestation of a time and a head, and the request   *)
(* matrix.  Meanwhile the clock runs, main moves and new snapshots are     *)
(* observed.  A validator sees only what it is handed; nothing reads the   *)
(* clock.                                                                  *)
(*                                                                         *)
(* A digest stands for the document it is taken of.  A binding (of a plan  *)
(* and a receipt, of a receipt and an attestation) is two digests and can  *)
(* be built whenever they fit; it is modelled by that condition, and so is *)
(* the bundle.  The seal blob goes with the head, and the time of          *)
(* recording with the attested one: their distance, 60 seconds at most, is *)
(* far below the unit of time.                                             *)
(***************************************************************************)
EXTENDS Naturals, FiniteSets

CONSTANTS
    Provider,       \* the providers of a catalog
    PriceList,      \* what the official prices may be: for each provider, of Scale tokens
    Scale,          \* tokens a price is quoted for
    Window,         \* MAX_EXECUTION_CATALOG_AGE_SECONDS
    MaxTokens,      \* the ceiling of the first call
    Ceiling,        \* a plan may be built with any of these ceilings
    Usage,          \* tokens the simulated answer reports
    MaxCost,        \* 1_000_000 micros
    MaxClock,       \* bound of the clock
    MaxMain,        \* bound: times main moves
    MaxCatalog,     \* bound: snapshots observed
    MaxAttested,    \* bound: attestations recorded
    MaxLaunch       \* bound: launch evidences accepted

ASSUME LaunchAssumption ==
    /\ PriceList \subseteq [Provider -> Nat \ {0}] /\ Scale \in Nat \ {0} /\ Window \in Nat \ {0}
    /\ MaxTokens \in Ceiling /\ Ceiling \subseteq 1..MaxTokens /\ Usage \in 0..MaxTokens
    /\ MaxCost \in Nat /\ MaxClock \in Nat /\ MaxMain \in Nat
    /\ MaxCatalog \in Nat /\ MaxAttested \in Nat /\ MaxLaunch \in Nat

VARIABLES
    clock,          \* the clock
    head,           \* the candidate head main stood at, at each time until now
    catalog,        \* snapshots observed: [observed, price, through]
    attested,       \* the Control's attestations: [at, head]
    launched,       \* launch evidences accepted, with what they were made of
    rehearsed       \* rehearsals accepted: [launch, roundtrip]

launchVars == <<clock, head, catalog, attested, launched, rehearsed>>

LaunchTime == 0..MaxClock
Snapshot == [observed: LaunchTime, price: PriceList, through: LaunchTime]
Attestation == [at: LaunchTime, head: 0..MaxMain]
Receipt == [snapshot: Snapshot, checked: LaunchTime]
Plan == [snapshot: Snapshot, provider: Provider, head: 0..MaxMain, tokens: Ceiling]
Matrix == [snapshot: Snapshot, provider: Provider]

(* Slip: the cost is rounded down.                                         *)
CostDown(s, p, tokens) == (tokens * s.price[p]) \div Scale

(* estimate_smoke_cost_usd_micros, rounded up.                             *)
Cost(s, p, tokens) == (tokens * s.price[p] + Scale - 1) \div Scale

Candidate(s, p, tokens) == Cost(s, p, tokens) <= MaxCost

LaunchInit ==
    /\ clock = 0 /\ head = [t \in {0} |-> 0]
    /\ catalog = {} /\ attested = {} /\ launched = {} /\ rehearsed = {}

-----------------------------------------------------------------------------
(* What goes on around the repository.                                     *)

ClockTicks ==
    /\ clock < MaxClock
    /\ clock' = clock + 1
    /\ head' = [t \in 0..(clock + 1) |-> IF t <= clock THEN head[t] ELSE head[clock]]
    /\ UNCHANGED <<catalog, attested, launched, rehearsed>>

(* Main moves between two readings of the clock.                           *)
MoveMain ==
    /\ clock < MaxClock /\ head[clock] < MaxMain
    /\ clock' = clock + 1
    /\ head' = [t \in 0..(clock + 1) |-> IF t <= clock THEN head[t] ELSE head[clock] + 1]
    /\ UNCHANGED <<catalog, attested, launched, rehearsed>>

(* Official prices are read; through is the last day they hold.            *)
Observe ==
    /\ Cardinality(catalog) < MaxCatalog
    /\ \E price \in PriceList, through \in clock..MaxClock :
          catalog' = catalog \cup {[observed |-> clock, price |-> price, through |-> through]}
    /\ UNCHANGED <<clock, head, attested, launched, rehearsed>>

(* Slip: the Control attests the head it is about to move main to.         *)
AttestAhead ==
    /\ Cardinality(attested) < MaxAttested
    /\ attested' = attested \cup {[at |-> clock, head |-> head[clock] + 1]}
    /\ UNCHANGED <<clock, head, catalog, launched, rehearsed>>

(* The Control reads its clock and the head of the candidate.              *)
Attest ==
    /\ Cardinality(attested) < MaxAttested
    /\ attested' = attested \cup {[at |-> clock, head |-> head[clock]]}
    /\ UNCHANGED <<clock, head, catalog, launched, rehearsed>>

-----------------------------------------------------------------------------
(* What the validators compare.                                            *)

(* Slip: the age is not limited.                                           *)
FreshnessFitsAnyAge(s, r) ==
    r.snapshot = s /\ r.checked >= s.observed /\ r.checked <= s.through

(* Slip: the receipt may be for an earlier snapshot.                       *)
FreshnessFitsAnySnapshot(s, r) ==
    r.checked >= r.snapshot.observed /\ r.checked - r.snapshot.observed <= Window
    /\ r.checked <= r.snapshot.through

(* validate_catalog_freshness_receipt: checked_at is the caller's.         *)
FreshnessFits(s, r) ==
    /\ r.snapshot = s
    /\ r.checked >= s.observed /\ r.checked - s.observed <= Window
    /\ r.checked <= s.through

(* validate_first_provider_pilot_dry_run: the head is the caller's.        *)
PlanFits(s, pl) == pl.snapshot = s /\ Candidate(s, pl.provider, pl.tokens)

(* The pilot freshness binding: the receipt is for the plan's catalog.     *)
SameCatalog(pl, r) == pl.snapshot = r.snapshot

(* Slip: any attestation made since the check will do.                     *)
SameTimeOrLater(r, a) == a.at >= r.checked

(* The freshness and time binding.                                         *)
SameTime(r, a) == r.checked = a.at

(* Slip: the plan's head is taken as it is.                                *)
SameHeadNot(pl, a) == TRUE

(* The pre-execution bundle.                                               *)
SameHead(pl, a) == pl.head = a.head

(* validate_provider_pilot_matrix builds the matrix again and compares.    *)
MatrixFits(s, m) == m.snapshot = s /\ Candidate(s, m.provider, MaxTokens)

(* Slip: the ceilings are not compared.                                    *)
AlignedProvider(m, pl) == m.provider = pl.provider

(* _aligned_context: provider, token ceiling and highest cost.             *)
Aligned(m, pl) ==
    /\ m.provider = pl.provider
    /\ pl.tokens = MaxTokens
    /\ Cost(m.snapshot, m.provider, MaxTokens) = Cost(pl.snapshot, pl.provider, pl.tokens)

(* validate_provider_launch_evidence, against the snapshot it is handed.   *)
EvidenceFits(s, e) ==
    /\ MatrixFits(s, e.matrix) /\ PlanFits(s, e.plan) /\ FreshnessFits(s, e.receipt)
    /\ SameCatalog(e.plan, e.receipt)
    /\ SameTime(e.receipt, e.attestation) /\ SameHead(e.plan, e.attestation)
    /\ Aligned(e.matrix, e.plan)

(* The documents anybody can have built so far.                            *)
Plans == {pl \in [snapshot: catalog, provider: Provider, head: {head[t] : t \in 0..clock}, tokens: Ceiling] :
            PlanFits(pl.snapshot, pl)}
Receipts == {r \in [snapshot: catalog, checked: LaunchTime] : FreshnessFits(r.snapshot, r)}
Matrices == {m \in [snapshot: catalog, provider: Provider] : MatrixFits(m.snapshot, m)}
Roundtrips == {[matrix |-> m, tokens |-> Usage] : m \in Matrices}

(* Launch evidence is built and validated from documents of any origin.    *)
Launch ==
    /\ Cardinality(launched) < MaxLaunch
    /\ \E s \in catalog, m \in Matrices, pl \in Plans, r \in Receipts, a \in attested :
          LET e == [matrix |-> m, plan |-> pl, receipt |-> r, attestation |-> a] IN
          /\ EvidenceFits(s, e)
          /\ launched' = launched \cup {e}
    /\ UNCHANGED <<clock, head, catalog, attested, rehearsed>>

(* Slip: only the provider of the round trip is compared.                  *)
RoundtripFitsProvider(s, e, rt) == rt.matrix.provider = e.matrix.provider

(* validate_provider_pilot_roundtrip builds the round trip again; then the *)
(* matrix it went through must be the launch's.                            *)
RoundtripFits(s, e, rt) == MatrixFits(s, rt.matrix) /\ rt.matrix = e.matrix

(* The simulated use is within the launch's ceilings.                      *)
WithinPreflight(s, e, rt) ==
    /\ rt.tokens <= e.plan.tokens
    /\ Cost(s, e.matrix.provider, rt.tokens) <= Cost(e.plan.snapshot, e.plan.provider, e.plan.tokens)

(* build_provider_rehearsal_convergence: a launch is paired with a         *)
(* simulated answer, a round trip through the matrix of some snapshot.     *)
Rehearse ==
    /\ \E e \in launched, s \in catalog, rt \in Roundtrips :
          /\ EvidenceFits(s, e) /\ RoundtripFits(s, e, rt) /\ WithinPreflight(s, e, rt)
          /\ rehearsed' = rehearsed \cup {[launch |-> e, roundtrip |-> rt]}
    /\ UNCHANGED <<clock, head, catalog, attested, launched>>

LaunchNext == ClockTicks \/ MoveMain \/ Observe \/ Attest \/ Launch \/ Rehearse

LaunchSpec == LaunchInit /\ [][LaunchNext]_launchVars

-----------------------------------------------------------------------------
(* Properties.                                                             *)

(* Types, and the clock's and main's history.                              *)
LaunchTypeOK ==
    /\ clock \in LaunchTime /\ head \in [0..clock -> 0..MaxMain]
    /\ catalog \subseteq Snapshot /\ attested \subseteq Attestation
    /\ launched \subseteq [matrix: Matrix, plan: Plan, receipt: Receipt, attestation: Attestation]
    /\ rehearsed \subseteq [launch: launched, roundtrip: [matrix: Matrix, tokens: {Usage}]]

(* At the moment the Control attested, the head the plan names was main's, *)
(* and the prices it reckons with had been observed at most a window       *)
(* earlier and still held: nothing of another generation gets into an      *)
(* accepted launch (pre_execution_bundle.py, launch_evidence.py).          *)
LaunchVouched ==
    \A e \in launched : LET t == e.attestation.at IN
        /\ t <= clock /\ head[t] = e.plan.head
        /\ LET s == e.plan.snapshot IN
             s \in catalog /\ s.observed <= t /\ t <= s.observed + Window /\ t <= s.through

(* What the request of a launch may cost, at the prices vouched for at the *)
(* attested moment, is covered by the cost its plan shows, and that by the *)
(* repository's ceiling, whole units against exact ones.                   *)
RequestCovered ==
    \A e \in launched :
        /\ MaxTokens * e.receipt.snapshot.price[e.matrix.provider]
               <= Scale * Cost(e.plan.snapshot, e.plan.provider, e.plan.tokens)
        /\ Cost(e.plan.snapshot, e.plan.provider, e.plan.tokens) <= MaxCost

(* A rehearsal pairs a launch with an answer of its own generation: what   *)
(* the answer used, at the prices of the catalog it went through, is       *)
(* within the launch's cost (rehearsal_convergence.py).                    *)
RehearsalOfLaunch ==
    \A x \in rehearsed : LET m == x.roundtrip.matrix  e == x.launch IN
        /\ m.provider = e.plan.provider /\ m.snapshot = e.receipt.snapshot
        /\ x.roundtrip.tokens * m.snapshot.price[m.provider]
               <= Scale * Cost(e.plan.snapshot, e.plan.provider, e.plan.tokens)

(* A launch (pre_execution_bundle.py, launch_evidence.py): its documents   *)
(* are of one generation, its request is covered by the cost it shows, and *)
(* so is the rehearsal paired with it.                                     *)
LaunchInvariant == LaunchTypeOK /\ LaunchVouched /\ RequestCovered /\ RehearsalOfLaunch
=============================================================================
