----------------------------- MODULE ResearchBatch -----------------------------
(***************************************************************************)
(* automation/multimodel_research_v1: the results of one research task, as *)
(* they arrive, and the two views taken of whatever has arrived so far:    *)
(* the aggregate (aggregator.py, v2) and the batch summary (fanout.py).    *)
(*                                                                         *)
(* A plan assigns one task to distinct targets, provider, model and role,  *)
(* so that an assignment is named by its target.  Answers arrive in any    *)
(* order.  A provider may refuse or fail, an answer may be delivered again *)
(* under a fresh submission id, and an assignment may be carried out again *)
(* with another outcome.  Nobody removes an answer.  Both views are pure   *)
(* functions of the list of arrivals and deny a list as a whole.           *)
(*                                                                         *)
(* A result keeps what the views read: who answered, for which assignment, *)
(* the status, the position taken on each claim that has a finding, and    *)
(* when it was produced.  Texts, evidence digests and size limits are      *)
(* checked by validate_result_for_task and only deny.                      *)
(***************************************************************************)
EXTENDS Naturals, Sequences, FiniteSets

CONSTANTS
    Target,         \* targets [provider, model, role] somebody may answer as
    Planned,        \* those the fanout plan assigns the task to
    Requested,      \* the task's requested_roles
    Claim,          \* claim keys
    Moment,         \* times a result can be produced at
    MaxId,          \* bound: submission ids are 1..MaxId, ordered as the strings are
    MaxArrivals     \* bound: results that arrive

ASSUME ResearchAssumption ==
    /\ Planned \subseteq Target /\ IsFiniteSet(Planned)
    /\ \A a \in Planned : a.role \in Requested
    /\ MaxId \in Nat /\ MaxArrivals \in Nat

VARIABLE arrived    \* the results handed to both views, in the order of arrival

Position == {"SUPPORT", "OPPOSE", "UNKNOWN"}
Incomplete == {"UNSUPPORTED", "REFUSED", "INFRA_FAILURE"}
ResultStatus == {"COMPLETED"} \cup Incomplete

(* The positions of a result: none unless it is completed, and then at     *)
(* least one; a claim key occurs once in a result.                         *)
Positions(status) ==
    IF status = "COMPLETED"
    THEN UNION {[C -> Position] : C \in (SUBSET Claim) \ {{}}}
    ELSE [{} -> Position]

BatchResult == UNION {[id: 1..MaxId, assignment: Target, by: Target, status: {s},
                  position: Positions(s), at: Moment] : s \in ResultStatus}

BatchInit == arrived = <<>>

-----------------------------------------------------------------------------
(* The aggregate of a list of results.                                     *)

(* Slip: it is not compared who answered.                                  *)
ForAssignmentOnly(r) == r.assignment \in Planned

(* validate_result_v2_for_assignment: the identity is the one assigned.    *)
ForAssignment(r) == r.assignment \in Planned /\ r.by = r.assignment

(* What the digest is taken of: everything but the submission id.          *)
Content(r) == <<r.by, r.status, r.position, r.at>>

Identities(rs) == {rs[k].by : k \in DOMAIN rs}
Of(rs, i) == {k \in DOMAIN rs : rs[k].by = i}

Fresh(rs) == \A k, l \in DOMAIN rs : rs[k].id = rs[l].id => k = l

(* Slip: the first answer to arrive stands for its identity.               *)
CanonicalFirst(rs, i) == CHOOSE k \in Of(rs, i) : \A l \in Of(rs, i) : k <= l

(* The answer that stands for an identity has the lowest submission id.    *)
Canonical(rs, i) == CHOOSE k \in Of(rs, i) : \A l \in Of(rs, i) : rs[k].id <= rs[l].id

(* Slip: failures are retried, so only completed answers are compared.     *)
OneContentIfCompleted(rs, i) ==
    \A k, l \in Of(rs, i) : rs[k].status = "COMPLETED" /\ rs[l].status = "COMPLETED" =>
        Content(rs[k]) = Content(rs[l])

(* Slip: the newest answer is compared with the canonical one only.        *)
OneContentLately(rs, i) ==
    LET newest == CHOOSE k \in Of(rs, i) : \A l \in Of(rs, i) : l <= k
    IN  Content(rs[newest]) = Content(rs[Canonical(rs, i)])

(* An identity has one distinct result (MODEL_IDENTITY_CONTENT_CONFLICT).  *)
OneContent(rs, i) == \A k, l \in Of(rs, i) : Content(rs[k]) = Content(rs[l])

Aggregable(rs) ==
    rs # <<>> /\ Fresh(rs) /\ \A i \in Identities(rs) : OneContent(rs, i)

(* Slip: every submission counts.                                          *)
UniqueNot(rs) == DOMAIN rs

Unique(rs) == {Canonical(rs, i) : i \in Identities(rs)}

Acknowledged(rs) ==
    {[submission |-> rs[k].id, duplicate_of |-> rs[Canonical(rs, rs[k].by)].id] :
        k \in DOMAIN rs \ Unique(rs)}

(* The results that take position p on claim c.                            *)
Holding(rs, c, p) ==
    {k \in Unique(rs) : /\ rs[k].status = "COMPLETED" /\ c \in DOMAIN rs[k].position
                        /\ rs[k].position[c] = p}

Raised(rs) == {c \in Claim : \E p \in Position : Holding(rs, c, p) # {}}

(* The results that take a position on a claim.                            *)
Speaking(rs) ==
    {k \in Unique(rs) : \E c \in Raised(rs), p \in Position : k \in Holding(rs, c, p)}

Label(rs, c) ==
    LET support == Holding(rs, c, "SUPPORT") # {}
        oppose  == Holding(rs, c, "OPPOSE") # {}
        unknown == Holding(rs, c, "UNKNOWN") # {}
    IN  CASE support /\ oppose -> "DIVERGENT"
          [] support /\ ~ oppose -> IF unknown THEN "SUPPORT_WITH_UNKNOWN" ELSE "SUPPORT_ONLY"
          [] oppose /\ ~ support -> IF unknown THEN "OPPOSE_WITH_UNKNOWN" ELSE "OPPOSE_ONLY"
          [] OTHER -> "UNKNOWN_ONLY"

ModelOf(i) == <<i.provider, i.model>>

(* Slip: nobody is in both camps.                                          *)
ApartDisjoint(one, other) == one # {} /\ other # {} /\ one \cap other = {}

(* Two camps that are not one and the same participant.                    *)
Apart(one, other) == one # {} /\ other # {} /\ Cardinality(one \cup other) > 1

(* _claim_diversity_metadata.                                              *)
Diversity(rs, c) ==
    LET models(p) == {ModelOf(rs[k].by) : k \in Holding(rs, c, p)}
        providers(p) == {rs[k].by.provider : k \in Holding(rs, c, p)}
    IN  [within_model |-> models("SUPPORT") \cap models("OPPOSE") # {},
         cross_model |-> Apart(models("SUPPORT"), models("OPPOSE")),
         cross_provider |-> Apart(providers("SUPPORT"), providers("OPPOSE"))]

Entries(rs, ks) == {[id |-> rs[k].id, by |-> rs[k].by, at |-> rs[k].at] : k \in ks}

ClaimEntry(rs, c) ==
    [label |-> Label(rs, c),
     counts |-> [p \in Position |-> Cardinality(Holding(rs, c, p))],
     holders |-> [p \in Position |-> Entries(rs, Holding(rs, c, p))],
     diversity |-> Diversity(rs, c)]

RolesWithout(rs, statuses) ==
    {q \in Requested : ~ \E k \in Unique(rs) : rs[k].by.role = q /\ rs[k].status \in statuses}

Noncompleted(rs) ==
    {[id |-> rs[k].id, by |-> rs[k].by, status |-> rs[k].status, at |-> rs[k].at] :
        k \in {u \in Unique(rs) : rs[u].status # "COMPLETED"}}

Diversities(ids) ==
    [identities |-> Cardinality(ids), models |-> Cardinality({ModelOf(i) : i \in ids}),
     providers |-> Cardinality({i.provider : i \in ids})]

(* aggregate_results_v2.                                                   *)
Aggregate(rs) ==
    LET raised == Raised(rs)
    IN  [submissions |-> Len(rs), acknowledged |-> Acknowledged(rs),
         claims |-> [c \in raised |-> ClaimEntry(rs, c)],
         unresolved |-> {c \in raised : Label(rs, c) = "DIVERGENT"},
         noncompleted |-> Noncompleted(rs),
         missing_roles |-> RolesWithout(rs, ResultStatus),
         roles_without_completed |-> RolesWithout(rs, {"COMPLETED"}),
         observed |-> Diversities({rs[k].by : k \in Unique(rs)}),
         completed |-> Diversities({rs[k].by : k \in Speaking(rs)})]

-----------------------------------------------------------------------------
(* The batch summary of a list of results: one result per assignment.      *)

Summarizable(rs) ==
    Fresh(rs) /\ \A k, l \in DOMAIN rs : rs[k].assignment = rs[l].assignment => k = l

(* Slip: an observed answer completes its assignment.                      *)
CompletedObserved(rs) == {rs[k].assignment : k \in DOMAIN rs}

Completed(rs) == {rs[k].assignment : k \in {l \in DOMAIN rs : rs[l].status = "COMPLETED"}}

SummaryOf(planned, rs) ==
    LET observed == {rs[k].assignment : k \in DOMAIN rs}
    IN  [observed |-> observed, completed |-> Completed(rs), missing |-> planned \ observed,
         all_observed |-> planned \subseteq observed,
         all_completed |-> planned \subseteq observed /\ Cardinality(Completed(rs)) = Cardinality(planned)]

Summary(rs) == SummaryOf(Planned, rs)

-----------------------------------------------------------------------------
(* An answer is taken in, under any submission id.  One that was delivered *)
(* before arrives with the content of an earlier one.                      *)
Arrive ==
    /\ Len(arrived) < MaxArrivals
    /\ \E r \in BatchResult : ForAssignment(r) /\ arrived' = Append(arrived, r)

BatchNext == Arrive

BatchSpec == BatchInit /\ [][BatchNext]_arrived

-----------------------------------------------------------------------------
(* Properties.                                                             *)

Reordered == {[k \in DOMAIN arrived |-> arrived[f[k]]] :
                 f \in {g \in [DOMAIN arrived -> DOMAIN arrived] :
                           \A k, l \in DOMAIN arrived : g[k] = g[l] => k = l}}

(* What arrived is results by planned targets.                             *)
BatchTypeOK ==
    /\ Len(arrived) <= MaxArrivals
    /\ \A k \in DOMAIN arrived : arrived[k] \in BatchResult /\ arrived[k].by \in Planned

(* "Aggregation is deterministic over the same logical result multiset":   *)
(* both views deny, or accept with the same outcome, in whatever order the *)
(* same submissions are listed.                                            *)
OrderFree ==
    LET accepted == Aggregable(arrived)
        whole == Summarizable(arrived)
        aggregate == Aggregate(arrived)
        summary == Summary(arrived)
    IN  \A rs \in Reordered :
            /\ Aggregable(rs) = accepted /\ (accepted => Aggregate(rs) = aggregate)
            /\ Summarizable(rs) = whole /\ (whole => Summary(rs) = summary)

(* "One identity contributes at most one position to each exact claim      *)
(* key", however often its answer is delivered, and an answer that is not  *)
(* completed contributes none ("never completed research diversity").      *)
OneVoice ==
    Aggregable(arrived) =>
        LET a == Aggregate(arrived)
            speakers == {i \in Identities(arrived) : \A k \in Of(arrived, i) : arrived[k].status = "COMPLETED"}
        IN  /\ \A c \in DOMAIN a.claims : \A p \in Position :
                   a.claims[c].counts[p] = Cardinality({i \in speakers :
                       \E k \in Of(arrived, i) : c \in DOMAIN arrived[k].position /\ arrived[k].position[c] = p})
            /\ a.completed.identities = Cardinality(speakers)
            /\ a.submissions = a.observed.identities + Cardinality(a.acknowledged)

(* The three kinds of divergence explain the label: a claim is divergent   *)
(* exactly if one model contradicts itself or two models each other, and   *)
(* across providers exactly if two providers hold the opposite positions.  *)
DivergenceExplained ==
    Aggregable(arrived) =>
        LET claims == Aggregate(arrived).claims
        IN  \A c \in DOMAIN claims :
            LET e == claims[c]
                d == e.diversity
            IN  /\ (e.label = "DIVERGENT") = (d.within_model \/ d.cross_model)
                /\ d.cross_provider => d.cross_model
                /\ d.cross_provider = \E s \in e.holders["SUPPORT"], o \in e.holders["OPPOSE"] :
                                          s.by.provider # o.by.provider

(* A batch that is complete is one the aggregate accepts without a         *)
(* duplicate, with every planned target heard and every role it was        *)
(* planned for covered ("observed but never as completed").                *)
CompleteBatchCovers ==
    Summarizable(arrived) /\ Summary(arrived).all_completed /\ arrived # <<>> =>
        /\ Aggregable(arrived)
        /\ LET a == Aggregate(arrived)
           IN  /\ a.acknowledged = {} /\ a.noncompleted = {}
               /\ a.completed.identities = Cardinality(Planned)
               /\ a.roles_without_completed = Requested \ {t.role : t \in Planned}

(* A divergence, once reported, stays: no later answer, repetition or      *)
(* retry makes an aggregate that is accepted report the claim as settled.  *)
DivergenceKept ==
    [][Aggregable(arrived) /\ Aggregable(arrived') =>
           Aggregate(arrived).unresolved \subseteq Aggregate(arrived').unresolved]_arrived

(* "Conflicting resubmissions from the same identity fail closed": no      *)
(* further answer makes the aggregate accept them again.                   *)
ConflictStays == [][arrived # <<>> /\ ~ Aggregable(arrived) => ~ Aggregable(arrived')]_arrived

(* An aggregate (aggregator.py, batch summary): the same for every order   *)
(* of arrival, with one voice for each identity and claim, divergences     *)
(* that are explained, and batches that are complete when they say so.     *)
BatchInvariant ==
    BatchTypeOK /\ OrderFree /\ OneVoice /\ DivergenceExplained /\ CompleteBatchCovers

(* What was reported stays: neither a divergence nor a refusal over a      *)
(* conflicting resubmission goes away with later answers.                  *)
ReportsStand == DivergenceKept /\ ConflictStays
=============================================================================
