--------------------------- MODULE RequestDocuments ---------------------------
(***************************************************************************)
(* automation/multimodel_research_v1, what one request is prepared with:   *)
(* an assignment of a task, the fan-out plan that lists it, the policies   *)
(* for its model and its capabilities, the prompt, the request as it is    *)
(* rendered for a provider, the envelope, the smoke profile and the        *)
(* execution prep.  Each of them names others by digest, and each has a    *)
(* validator.  A readiness report says that all of them passed.            *)
(*                                                                         *)
(* The documents are handed over side by side and may come from anybody.   *)
(* The pilot matrix (pilot_matrix.py) is built of a task and a catalog and *)
(* accepted if building it again gives the same; so are the round trips    *)
(* (pilot_roundtrip.py, pilot_roundtrip_v2.py), which take a matrix        *)
(* through a simulated answer.  Meanwhile tasks are written, catalogs are  *)
(* observed and the adapters' sources change.                              *)
(*                                                                         *)
(* A digest is the document it is taken of.  Identifiers, texts and the    *)
(* fields that may only have one value are left out.                       *)
(***************************************************************************)
EXTENDS LaunchChain

CONSTANTS
    TaskShape,      \* what tasks may ask for: [roles, evidence, seconds, bytes, network]
    ListedModel,    \* with some prices: the model a catalog lists for a provider
    Variation,      \* bound: how a writer of documents may go his own way
    AnySchema,      \* schemas a caller may ask for an answer in
    PilotRole,      \* the role of a matrix: "architecture_challenge"
    Seconds, Bytes, \* what a pilot's assignment takes at most: 120, and 50_000
    LeastBytes,     \* what an assignment has to allow: 1024
    ResultBytes,    \* the length of the simulated result
    Mixed,          \* bound: the documents that may be another writer's
    MaxTask,        \* bound: tasks written
    MaxEdit,        \* bound: changes of the adapters
    MaxReady        \* bound: accepted of each kind

ASSUME RequestAssumption ==
    /\ \A x \in TaskShape : x.seconds \in Nat \ {0} /\ x.bytes \in Nat /\ x.bytes >= LeastBytes
    /\ \A x \in TaskShape : x.network \in BOOLEAN
    /\ {MaxTask, MaxEdit, MaxReady, ResultBytes} \subseteq Nat
    /\ Seconds \in Nat \ {0} /\ LeastBytes \in Nat /\ Bytes \in Nat /\ LeastBytes <= Bytes
    /\ MaxCost \in Nat \ {0}

VARIABLES
    tasks,          \* tasks written: [shape, created]
    adapter,        \* the version of the adapters' sources
    ready,          \* readiness reports: [docs, report]
    pilots,         \* matrices accepted: [task, snapshot, schema, matrix, at]
    trips           \* round trips accepted: [task, snapshot, provider, trip, at]

requestVars == <<tasks, adapter, ready, pilots, trips>>

RequestInit ==
    /\ LaunchInit /\ tasks = {} /\ adapter = 0
    /\ ready = {} /\ pilots = {} /\ trips = {}

Least(a, b) == IF a <= b THEN a ELSE b

-----------------------------------------------------------------------------
(* The documents, each as its writer makes it of those before.             *)

AssignmentOf(t, d) ==
    [task |-> t, created |-> d.created, provider |-> d.aim, model |-> d.model, role |-> d.role,
     adapter |-> d.adapter, transport |-> d.aim, network |-> d.network,
     seconds |-> d.seconds, bytes |-> d.bytes]

FanoutOf(a) == [task |-> a.task, created |-> a.created, of |-> {a}]
TargetOf(a, s) == [of |-> a, provider |-> a.provider, model |-> a.model, evidence |-> s]
CapabilityOf(a, target) == [of |-> a, target |-> target]

(* build_provider_neutral_prompt.                                          *)
PromptOf(t, role, schema) ==
    [task |-> t, role |-> role, evidence |-> t.shape.evidence, schema |-> schema]

(* render_gemini_interactions_v1, render_claude_messages_request.          *)
RenderOf(provider, a, prompt, schema) ==
    [provider |-> provider, model |-> a.model, input |-> prompt, schema |-> schema,
     tokens |-> MaxTokens]

EnvelopeOf(a, target, capability, prompt, render, at) ==
    [task |-> a.task, of |-> a, target |-> target, capability |-> capability, prompt |-> prompt,
     transport |-> a.transport, created |-> at, egress |-> a.task.shape.evidence, payload |-> render]

SmokeOf(plan, a, target, capability, envelope) ==
    [plan |-> plan, of |-> a, target |-> target, capability |-> capability, envelope |-> envelope]

BindingOf(k) == [provider |-> k.render.provider, envelope |-> k.envelope, render |-> k.render]

(* What a writer makes for a task and a catalog when he decides d: for     *)
(* whom he assigns (aim) and renders (to), the role he assigns and the one *)
(* he speaks of, whose rendering the envelope names and the prep is bound  *)
(* to.                                                                     *)
DocsOf(t, s, d) ==
    LET a == AssignmentOf(t, d)
        target == TargetOf(a, s)
        capability == CapabilityOf(a, target)
        prompt == PromptOf(t, d.spoken, d.schema)
        envelope == EnvelopeOf(a, target, capability, prompt, RenderOf(d.named, a, prompt, d.schema), d.asked)
        smoke == SmokeOf(FanoutOf(a), a, target, capability, envelope)
        bound == RenderOf(d.bound, a, prompt, d.schema)
    IN  [task |-> t, assignment |-> a, fanout |-> FanoutOf(a), target |-> target,
         capability |-> capability, prompt |-> prompt, schema |-> d.schema,
         render |-> RenderOf(d.to, a, prompt, d.schema), envelope |-> envelope, smoke |-> smoke,
         prep |-> [provider |-> d.to, host |-> d.to, smoke |-> smoke, tokens |-> d.tokens, cost |-> d.cost,
                   binding |-> [provider |-> d.bound, envelope |-> envelope, render |-> bound]]]

-----------------------------------------------------------------------------
(* What the validators ask of the documents k they are handed.             *)

(* Slip: the task's limits are not compared.                               *)
AssignmentFitsWide(k) ==
    LET a == k.assignment  t == k.task
    IN  a.task = t /\ a.created >= t.created /\ a.role \in t.shape.roles /\ a.bytes >= LeastBytes

(* validate_assignment.                                                    *)
AssignmentFits(k) ==
    LET a == k.assignment  t == k.task
    IN  /\ a.task = t /\ a.created >= t.created /\ a.role \in t.shape.roles
        /\ a.network => t.shape.network
        /\ 1 <= a.seconds /\ a.seconds <= t.shape.seconds
        /\ LeastBytes <= a.bytes /\ a.bytes <= t.shape.bytes

(* validate_fanout_plan, of the one assignment.                            *)
FanoutFits(k) ==
    /\ k.fanout.task = k.task /\ k.fanout.of = {k.assignment}
    /\ k.fanout.created >= k.assignment.created

(* validate_model_target_policy: the catalog it cites is not looked at.    *)
TargetFits(k) ==
    /\ k.target.of = k.assignment
    /\ k.target.provider = k.assignment.provider /\ k.target.model = k.assignment.model

(* validate_capability_policy.                                             *)
CapabilityFits(k) == k.capability = CapabilityOf(k.assignment, k.target)

(* validate_provider_neutral_prompt builds it again.                       *)
PromptFits(k) ==
    /\ k.prompt.role \in k.task.shape.roles
    /\ k.prompt = PromptOf(k.task, k.prompt.role, k.prompt.schema)

(* Slip: the prompt may be in another role of the task.                    *)
EnvelopeFitsAnyRole(k) ==
    LET e == k.envelope
    IN  /\ e.task = k.task /\ e.of = k.assignment
        /\ e.target = k.target /\ e.capability = k.capability /\ e.prompt = k.prompt
        /\ e.transport = k.assignment.transport /\ e.created >= k.assignment.created
        /\ e.egress = k.task.shape.evidence

(* validate_request_envelope.                                              *)
EnvelopeFits(k) ==
    LET e == k.envelope
    IN  /\ e.task = k.task /\ e.of = k.assignment
        /\ e.target = k.target /\ e.capability = k.capability /\ e.prompt = k.prompt
        /\ k.prompt.role = k.assignment.role
        /\ e.transport = k.assignment.transport /\ e.created >= k.assignment.created
        /\ e.egress = k.task.shape.evidence

(* Slip: the payload is not compared with what the envelope says of it.    *)
RenderFitsUnbound(k) ==
    /\ k.schema = k.prompt.schema
    /\ k.render = RenderOf(k.render.provider, k.assignment, k.prompt, k.schema)

(* validate_transport_binding renders again, for the provider that the     *)
(* rendered request names.                                                 *)
RenderFits(k) ==
    /\ k.schema = k.prompt.schema
    /\ k.render = RenderOf(k.render.provider, k.assignment, k.prompt, k.schema)
    /\ k.envelope.payload = k.render

(* validate_live_smoke_profile.                                            *)
SmokeFits(k) == k.smoke = SmokeOf(k.fanout, k.assignment, k.target, k.capability, k.envelope)

(* Slip: the transport binding in the prep may be of another request.      *)
PrepFitsUnbound(k) ==
    /\ k.prep.provider = k.render.provider /\ k.prep.host = k.prep.provider /\ k.prep.smoke = k.smoke
    /\ 1 <= k.prep.tokens /\ k.prep.tokens <= MaxTokens /\ 1 <= k.prep.cost /\ k.prep.cost <= MaxCost

(* validate_live_execution_prep, what is its own.                          *)
PrepFits(k) ==
    /\ k.prep.provider = k.render.provider /\ k.prep.host = k.prep.provider /\ k.prep.smoke = k.smoke
    /\ k.prep.binding = BindingOf(k)
    /\ 1 <= k.prep.tokens /\ k.prep.tokens <= MaxTokens /\ 1 <= k.prep.cost /\ k.prep.cost <= MaxCost

(* The validators call each other; together they ask all of it.            *)
DocsFit(k) ==
    /\ AssignmentFits(k) /\ FanoutFits(k) /\ TargetFits(k) /\ CapabilityFits(k) /\ PromptFits(k)
    /\ EnvelopeFits(k) /\ RenderFits(k) /\ SmokeFits(k) /\ PrepFits(k)

(* build_live_provider_readiness_report.                                   *)
ReportOf(k) ==
    [provider |-> k.prep.provider, smoke |-> k.smoke, binding |-> BindingOf(k), prep |-> k.prep]

-----------------------------------------------------------------------------
(* The pilot matrix, built with version v of the adapters.                 *)

Pilot(t, s, p, schema, role, v) ==
    LET d == [to |-> p, aim |-> p, named |-> p, bound |-> p, role |-> role, spoken |-> role,
              model |-> ListedModel[s.price][p], schema |-> schema, created |-> s.observed, asked |-> s.observed, adapter |-> v, network |-> FALSE,
              seconds |-> Least(Seconds, t.shape.seconds), bytes |-> Least(Bytes, t.shape.bytes),
              tokens |-> MaxTokens, cost |-> Cost(s, p, MaxTokens)]
        k == DocsOf(t, s, d)
    IN  [provider |-> p, entry |-> s, adapter |-> v, docs |-> k, report |-> ReportOf(k)]

(* build_provider_pilot_matrix refuses what its own documents do not pass. *)
PilotBuilds(t, s, p, schema, role, v) ==
    /\ role \in t.shape.roles /\ Candidate(s, p, MaxTokens)
    /\ \E k \in {Pilot(t, s, p, schema, role, v).docs} : DocsFit(k)

(* Slip: it is built again with the version that the matrix names.         *)
PilotFitsAnyVersion(t, s, schema, m) ==
    LET role == m.docs.assignment.role
    IN  /\ PilotBuilds(t, s, m.provider, schema, role, m.adapter)
        /\ m = Pilot(t, s, m.provider, schema, role, m.adapter)

(* validate_provider_pilot_matrix.                                         *)
PilotFits(t, s, schema, m) ==
    LET role == m.docs.assignment.role
    IN  /\ PilotBuilds(t, s, m.provider, schema, role, adapter)
        /\ m = Pilot(t, s, m.provider, schema, role, adapter)

-----------------------------------------------------------------------------
(* The round trip: the first, whose simulated answer is a fixed text, and  *)
(* the second, whose answer is the result itself, in the schema that is    *)
(* made for the assignment.  Times are seconds after the envelope.         *)

Again == "second"
First == "first"

(* build_result_v2_response_schema.                                        *)
ResultSchema(a) == [for |-> a]

(* The second builds a matrix first to know the assignment.                *)
TripPilot(kind, t, s, p, schema, v) ==
    LET known == Pilot(t, s, p, schema, PilotRole, v).docs.assignment
    IN  Pilot(t, s, p, IF kind = Again THEN ResultSchema(known) ELSE schema, PilotRole, v)

(* _synthetic_evidence: of a task's evidence, what a result may cite.      *)
Citable(kind, t) ==
    IF kind = Again THEN t.shape.evidence ELSE t.shape.evidence \cap {"NORMALIZED_JSON_SHA256"}

(* Slip: the result is dated before its answer came.                       *)
SimulatedEarly(a) ==
    [for |-> a, by |-> [provider |-> a.provider, model |-> a.model, role |-> a.role],
     status |-> "COMPLETED", at |-> 4]

(* _synthetic_result.                                                      *)
Simulated(a) ==
    [for |-> a, by |-> [provider |-> a.provider, model |-> a.model, role |-> a.role],
     status |-> "COMPLETED", at |-> 6]

(* _simulated_response, as it is parsed.                                   *)
SeenOf(kind, p, a) ==
    [provider |-> p, model |-> a.model, state |-> "COMPLETED",
     text |-> IF kind = Again THEN Simulated(a) ELSE [status |-> "ok"]]

(* What becomes of matrix m.                                               *)
TripOn(kind, t, p, m) ==
    LET a == m.docs.assignment
        seen == SeenOf(kind, p, a)
        ended == [of |-> a, request |-> m.docs.envelope, state |-> seen.state, at |-> 5]
    IN  [kind |-> kind, matrix |-> m, seen |-> seen, ended |-> ended, result |-> Simulated(a),
         receipt |-> [task |-> t, of |-> a, request |-> m.docs.envelope, ended |-> ended,
                      result |-> Simulated(a), provider |-> a.provider, model |-> seen.model,
                      adapter |-> a.adapter, answer |-> seen.text, started |-> 1, received |-> 5,
                      recorded |-> 7]]

(* validate_termination_record.                                            *)
EndedFits(k, x) == x.ended.of = k.assignment /\ x.ended.request = k.envelope /\ x.ended.at >= 0

(* validate_result_v2_for_assignment.                                      *)
ResultFits(k, r) ==
    /\ r.for = k.assignment
    /\ r.by = [provider |-> k.assignment.provider, model |-> k.assignment.model, role |-> k.assignment.role]

(* build_provider_result_ingestion: what the answer's text is decoded to.  *)
DecodedFits(k, x) ==
    /\ x.seen.model = k.assignment.model /\ x.seen.state = "COMPLETED"
    /\ ResultBytes <= k.assignment.bytes
    /\ ResultFits(k, x.seen.text) /\ x.seen.text = x.result

(* validate_execution_receipt, of an attested answer.                      *)
ReceiptAccepted(k, x) ==
    LET r == x.receipt
    IN  /\ r.task = k.task /\ r.of = k.assignment /\ r.request = k.envelope /\ r.ended = x.ended
        /\ r.result = x.result /\ r.provider = k.assignment.provider /\ r.model = k.target.model
        /\ r.adapter = k.assignment.adapter
        /\ r.started >= 0 /\ r.received >= r.started /\ r.received = x.ended.at
        /\ x.result.at >= r.received /\ r.recorded >= x.result.at
        /\ (x.result.status = "COMPLETED") = (x.ended.state = "COMPLETED")

(* validate_provider_observation_binding.                                  *)
SeenFits(x) ==
    x.seen.state = x.ended.state /\ x.seen.model = x.receipt.model /\ x.seen.text = x.receipt.answer

(* What _build_artifacts validates of an answer, and that there is         *)
(* something to cite.                                                      *)
TripFits(kind, t, x) ==
    LET k == x.matrix.docs
    IN  /\ Citable(kind, t) # {}
        /\ EndedFits(k, x) /\ ResultFits(k, x.result)
        /\ (kind = Again => DecodedFits(k, x))
        /\ ReceiptAccepted(k, x) /\ SeenFits(x)

(* _build_artifacts.                                                       *)
TripBuilds(kind, t, s, p, schema, v) ==
    /\ PilotBuilds(t, s, p, schema, PilotRole, v)
    /\ \E m \in {TripPilot(kind, t, s, p, schema, v)} :
          DocsFit(m.docs) /\ TripFits(kind, t, TripOn(kind, t, p, m))

-----------------------------------------------------------------------------
(* Steps.                                                                  *)

WriteTask ==
    /\ Cardinality(tasks) < MaxTask
    /\ \E shape \in TaskShape : tasks' = tasks \cup {[shape |-> shape, created |-> clock]}
    /\ UNCHANGED <<adapter, ready, pilots, trips>>

EditAdapter ==
    /\ adapter < MaxEdit /\ adapter' = adapter + 1
    /\ UNCHANGED <<tasks, ready, pilots, trips>>

(* The documents that writers have made so far, each his own way.          *)
Drafted ==
    {DocsOf(x[1], x[2], [x[3] EXCEPT !.model = ListedModel[x[2].price][x[3].aim]]) :
        x \in tasks \X catalog \X Variation}

(* The documents of one, and those that names says of another.             *)
Mix(k, l, names) == [n \in DOMAIN k |-> IF n \in names THEN l[n] ELSE k[n]]

(* A report on documents of any origin.                                    *)
Prepare ==
    /\ Cardinality(ready) < MaxReady
    /\ LET drafted == Drafted
       IN  \E k, l \in drafted, names \in Mixed :
              LET x == Mix(k, l, names)
              IN  DocsFit(x) /\ ready' = ready \cup {[docs |-> x, report |-> ReportOf(x)]}
    /\ UNCHANGED <<tasks, adapter, pilots, trips>>

(* A matrix of any origin, built with the adapters of then, is validated.  *)
ConfirmPilot ==
    /\ Cardinality(pilots) < MaxReady
    /\ \E t, u \in tasks, s, r \in catalog, p \in Provider, schema, other \in AnySchema, v \in 0..adapter :
          \E role \in u.shape.roles :
              LET m == Pilot(u, r, p, other, role, v)
              IN  /\ PilotFits(t, s, schema, m)
                  /\ pilots' = pilots \cup
                         {[task |-> t, snapshot |-> s, schema |-> schema, matrix |-> m, at |-> adapter]}
    /\ UNCHANGED <<tasks, adapter, ready, trips>>

(* validate_provider_pilot_roundtrip, validate_provider_pilot_roundtrip_v2:*)
(* it is built again, and compared with a round trip of any origin.        *)
ConfirmTrip ==
    /\ Cardinality(trips) < MaxReady
    /\ \E kind \in {First, Again}, t, u \in tasks, s, r \in catalog, p, q \in Provider,
          schema \in AnySchema, v \in 0..adapter :
          \E m \in {TripPilot(kind, u, r, q, schema, v)}, n \in {TripPilot(kind, t, s, p, schema, adapter)} :
              /\ TripBuilds(kind, t, s, p, schema, adapter)
              /\ TripOn(kind, u, q, m) = TripOn(kind, t, p, n)
              /\ trips' = trips \cup
                     {[task |-> t, snapshot |-> s, provider |-> p, trip |-> TripOn(kind, u, q, m),
                       at |-> adapter]}
    /\ UNCHANGED <<tasks, adapter, ready, pilots>>

RequestNext ==
    \/ (ClockTicks \/ Observe) /\ UNCHANGED requestVars
    \/ (WriteTask \/ EditAdapter \/ Prepare \/ ConfirmPilot \/ ConfirmTrip) /\ UNCHANGED launchVars

RequestSpec == RequestInit /\ [][RequestNext]_<<launchVars, requestVars>>

-----------------------------------------------------------------------------
(* Properties.                                                             *)

(* The three parts of an accepted report that only a chain of digests      *)
(* holds together.                                                         *)
OneRequest(k) ==
    LET a == k.assignment  sent == k.render
    IN  /\ sent.input.task = k.task /\ sent.input.role = a.role /\ sent.input.evidence = k.task.shape.evidence
        /\ sent.model = a.model /\ sent.schema = k.prompt.schema
        /\ k.envelope.payload = sent /\ k.prep.host = sent.provider

WithinTask(k) ==
    LET a == k.assignment
    IN  /\ k.task.created <= a.created /\ a.created <= k.envelope.created
        /\ a.role \in k.task.shape.roles /\ (a.network => k.task.shape.network)
        /\ a.seconds <= k.task.shape.seconds /\ a.bytes <= k.task.shape.bytes
        /\ 1 <= k.prep.tokens /\ k.prep.tokens <= MaxTokens /\ 1 <= k.prep.cost /\ k.prep.cost <= MaxCost

ReportOn(k, r) ==
    /\ r.smoke.plan.of = {k.assignment} /\ r.smoke.target.of = k.assignment
    /\ r.smoke.envelope.payload = r.binding.render /\ r.binding.render.input = k.smoke.envelope.prompt
    /\ r.prep.binding = r.binding /\ r.provider = r.binding.render.provider

(* What a readiness report calls ready is one request: what goes to the    *)
(* host is the prompt of the report's own task, with that task's evidence, *)
(* for the role and model that were assigned, in the schema that was       *)
(* asked, at times in order and within the limits of the task; and the     *)
(* report's digests are of nothing else (readiness.py), whoever made the   *)
(* documents.                                                              *)
ReadyIsOneRequest ==
    \A x \in ready : OneRequest(x.docs) /\ WithinTask(x.docs) /\ ReportOn(x.docs, x.report)

(* A matrix that was accepted was made of its own task and catalog with    *)
(* the adapters there were when it was accepted; it goes to the provider   *)
(* it was assigned to, for the model the catalog lists, never before the   *)
(* task was written, and what it may use is covered by the cost it shows   *)
(* (validate_provider_pilot_matrix).  Its documents pass one by one.       *)
PilotIsCurrent ==
    \A y \in pilots :
        LET k == y.matrix.docs  a == k.assignment  host == k.prep.host
        IN  /\ k.task = y.task /\ y.matrix.entry = y.snapshot /\ a.adapter = y.at
            /\ a.provider = host /\ k.render.provider = host
            /\ k.render.model = ListedModel[y.snapshot.price][host]
            /\ MaxTokens * y.snapshot.price[host] <= Scale * k.prep.cost /\ k.prep.cost <= MaxCost
            /\ y.task.created <= y.snapshot.observed /\ k.envelope.created = y.snapshot.observed
            /\ OneRequest(k) /\ WithinTask(k) /\ ReportOn(k, y.matrix.report)

(* A round trip that was accepted is of one request, its own: the answer,  *)
(* how it ended, the result and the receipt name the assignment of that    *)
(* matrix, and of the second kind the result is what the answer's text     *)
(* says, no longer than was assigned (pilot_roundtrip.py,                  *)
(* pilot_roundtrip_v2.py).                                                 *)
TripIsDecoded ==
    \A z \in trips :
        LET x == z.trip  k == x.matrix.docs
        IN  /\ k.task = z.task /\ k.assignment.provider = z.provider /\ k.assignment.adapter = z.at
            /\ k.target.evidence = z.snapshot /\ x.seen.provider = k.prep.host
            /\ x.ended.request = k.envelope /\ x.receipt.ended = x.ended /\ x.receipt.result = x.result
            /\ x.result.for = k.assignment /\ x.seen.model = k.render.model
            /\ x.receipt.answer = x.seen.text /\ x.receipt.received <= x.result.at
            /\ (x.kind = Again =>
                    /\ x.seen.text = x.result /\ ResultBytes <= k.task.shape.bytes
                    /\ k.render.schema = ResultSchema(k.assignment))

(* What the repository makes itself its validators do not refuse: a matrix *)
(* can be built of any task that asks for its role and any affordable      *)
(* entry of a later catalog, and a round trip of such a task with          *)
(* something to cite and room for the result.                              *)
NothingRefused ==
    \A t \in tasks, s \in catalog, host \in Provider, schema \in AnySchema :
        (PilotRole \in t.shape.roles /\ Candidate(s, host, MaxTokens) /\ t.created <= s.observed) =>
            /\ PilotBuilds(t, s, host, schema, PilotRole, adapter)
            /\ \A kind \in {First, Again} :
                  (Citable(kind, t) # {} /\ ResultBytes <= Least(Bytes, t.shape.bytes)) =>
                      TripBuilds(kind, t, s, host, schema, adapter)

(* From the documents of one request to the launch that is made of them:   *)
(* what was found ready is one request, what is rebuilt is current, no     *)
(* document that fits is refused; and what a launch says is so.            *)
RequestInvariant ==
    LaunchInvariant /\ ReadyIsOneRequest /\ PilotIsCurrent /\ TripIsDecoded /\ NothingRefused
=============================================================================
