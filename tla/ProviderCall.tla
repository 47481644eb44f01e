------------------------------ MODULE ProviderCall ------------------------------
(***************************************************************************)
(* automation/multimodel_research_v1, the receiving side: requests for the *)
(* assignments of one task, the providers' answers, and the two records    *)
(* made of an answer.  The ingestion (provider_result_ingestion.py) takes  *)
(* the result out of the answer's text.  The binding                       *)
(* (observation_binding.py) ties what the parser saw to a termination      *)
(* record, a result and an execution receipt that name one request.        *)
(*                                                                         *)
(* Requests may be repeated; answers come late, to either request, from a  *)
(* model that need not be the one asked for.  Whoever makes the records is *)
(* honest about an answer but may take it for the answer to any request.   *)
(* All functions are pure and deny; what they accepted is kept here.       *)
(* Digests stand for documents: a result names an assignment, not a hash.  *)
(***************************************************************************)
EXTENDS Naturals, Sequences, FiniteSets

CONSTANTS
    Assignment,     \* assignments [provider, model, role] of the task
    Model,          \* models that may answer
    Text,           \* texts an answer may carry: Empty, Prose or a result
    Ending,         \* endings <<native reason, refusal details?>> of each provider's answers
    Empty, Prose,   \* no text, and a text that is no result object
    MaxTime,        \* bound: the clock
    MaxRequests,    \* bound: requests written
    MaxAnswers,     \* bound: answers received
    MaxBound        \* bound: bindings kept

VARIABLES
    now,            \* the caller's clock
    requests,       \* request envelopes [for, created], in the order written
    answers,        \* answers [to, ending, model, text, at], in the order received
    ingested,       \* accepted ingestions [answer, for, result]
    bound           \* accepted bindings [answer, request, result, attested]

vars == <<now, requests, answers, ingested, bound>>

Time == 0..MaxTime
Status == {"COMPLETED", "UNSUPPORTED", "REFUSED", "INFRA_FAILURE"}

(* RESULT v2: for which assignment, by whom, how it went and since when.   *)
Result == [for: Assignment, by: Assignment, status: Status, at: Time]

NormalizedState ==
    {"COMPLETED", "PROVIDER_REFUSED", "PROVIDER_BLOCKED", "PROVIDER_TRUNCATED", "PROVIDER_EMPTY",
     "TRANSPORT_FAILURE"}

GeminiReason == {"completed", "failed", "cancelled", "incomplete"}
ClaudeReason == {"end_turn", "max_tokens", "stop_sequence", "refusal",
                 "model_context_window_exceeded", "tool_use", "pause_turn"}

ASSUME CallAssumption ==
    /\ Empty # Prose /\ Text \subseteq {Empty, Prose} \cup Result
    /\ \A a \in Assignment : a.provider \in {"gemini", "claude"} /\ a.model \in Model
    /\ Ending["gemini"] \subseteq GeminiReason \X {FALSE}
    /\ Ending["claude"] \subseteq ClaudeReason \X BOOLEAN
    /\ {MaxTime, MaxRequests, MaxAnswers, MaxBound} \subseteq Nat

Init ==
    /\ now = 0 /\ requests = <<>> /\ answers = <<>>
    /\ ingested = {} /\ bound = {}

Tick == now < MaxTime /\ now' = now + 1 /\ UNCHANGED <<requests, answers, ingested, bound>>

-----------------------------------------------------------------------------
(* A request for an assignment, the first or a repeated one.               *)
Ask(a) ==
    /\ Len(requests) < MaxRequests
    /\ requests' = Append(requests, [for |-> a, created |-> now])
    /\ UNCHANGED <<now, answers, ingested, bound>>

(* The provider asked answers.  The response schema pins task, assignment  *)
(* and identity; a model can only know the digest its own prompt shows it. *)
(* It has no clock: produced_at is what it writes.                         *)
Answer(k) ==
    /\ Len(answers) < MaxAnswers
    /\ \E e \in Ending[requests[k].for.provider], m \in Model, t \in Text :
        /\ t \in Result => t.for = requests[k].for
        /\ answers' = Append(answers, [to |-> k, ending |-> e, model |-> m, text |-> t, at |-> now])
    /\ UNCHANGED <<now, requests, ingested, bound>>

-----------------------------------------------------------------------------
(* What the parser makes of an answer, by its ending and its text.         *)
ProviderOf(x) == requests[x.to].for.provider

WhenText(x) == IF x.text = Empty THEN "PROVIDER_EMPTY" ELSE "COMPLETED"

(* Slip: a failure keeps its native name.                                  *)
GeminiNative(x) ==
    CASE x.ending[1] = "completed"  -> WhenText(x)
      [] x.ending[1] = "incomplete" -> "PROVIDER_TRUNCATED"
      [] OTHER                      -> x.ending[1]

Gemini(x) ==
    CASE x.ending[1] = "completed"  -> WhenText(x)
      [] x.ending[1] = "incomplete" -> "PROVIDER_TRUNCATED"
      [] OTHER                      -> "TRANSPORT_FAILURE"

(* Slip: what has a text and no refusal as its reason is complete.         *)
ClaudeByText(x) ==
    CASE x.ending[1] = "refusal"  -> "PROVIDER_REFUSED"
      [] x.ending[1] = "end_turn" -> WhenText(x)
      [] OTHER -> IF x.text = Empty THEN "PROVIDER_TRUNCATED" ELSE "COMPLETED"

Claude(x) ==
    CASE x.ending[1] = "refusal" \/ x.ending[2] -> "PROVIDER_REFUSED"
      [] x.ending[1] = "end_turn" /\ ~ x.ending[2] -> WhenText(x)
      [] OTHER -> "PROVIDER_TRUNCATED"

Observed(x) == IF ProviderOf(x) = "gemini" THEN Gemini(x) ELSE Claude(x)

(* Tools are forbidden: the parser denies an answer that ends with one.    *)
Parses(x) ==
    ProviderOf(x) = "claude" =>
        x.ending[2] \/ x.ending[1] \notin {"tool_use", "pause_turn"}

-----------------------------------------------------------------------------
(* Slip: the identity says for which assignment a result is.               *)
ResultForIdentity(a, r) == r.by = a

(* validate_result_v2_for_assignment.                                      *)
ResultFor(a, r) == r.for = a /\ r.by = a

(* Slip: the model the result names.                                       *)
ServedAsNamed(a, x) == x.text \in Result => x.text.by.model = a.model

(* validate_resolved_model_id, and the same check of the ingestion.        *)
Served(a, x) == x.model = a.model

(* An answer is ingested for an assignment.                                *)
Ingest(a, k) ==
    LET x == answers[k]
    IN  /\ Parses(x) /\ Observed(x) = "COMPLETED"
        /\ ProviderOf(x) = a.provider         \* the caller parses with the right parser
        /\ Served(a, x)
        /\ x.text \in Result /\ ResultFor(a, x.text)
        /\ ingested' = ingested \cup {[answer |-> k, for |-> a, result |-> x.text]}
        /\ UNCHANGED <<now, requests, answers, bound>>

-----------------------------------------------------------------------------
(* Slip: a block or refusal is taken for an answer.                        *)
StatusOfLoose(state) ==
    CASE state \in {"COMPLETED", "PROVIDER_REFUSED", "PROVIDER_BLOCKED"} -> "COMPLETED"
      [] OTHER -> "INFRA_FAILURE"

(* TERMINATION_TO_RESULT_STATUS.                                           *)
StatusOf(state) ==
    CASE state = "COMPLETED" -> "COMPLETED"
      [] state \in {"PROVIDER_REFUSED", "PROVIDER_BLOCKED"} -> "REFUSED"
      [] OTHER -> "INFRA_FAILURE"

(* The results that may be handed over with an answer: the answer's own,   *)
(* and one its caller writes for the request's assignment now.             *)
HandedOver(x, a) ==
    ({x.text} \cap Result) \cup {[for |-> a, by |-> a, status |-> s, at |-> now] : s \in Status}

(* validate_termination_record: the answer came after the envelope.        *)
Terminated(x, q) == Parses(x) /\ x.at >= requests[q].created

(* validate_execution_receipt.  The request is started between its         *)
(* envelope and the answer, and the receipt is created now.                *)
ReceiptFits(x, q, r, attested) ==
    /\ ResultFor(requests[q].for, r)
    /\ attested => Served(requests[q].for, x)
    /\ r.at >= x.at /\ now >= r.at
    /\ r.status = StatusOf(Observed(x))

(* Every other field of the records is copied from what the parser saw, so *)
(* that the equalities of the binding hold.                                *)
Bind(k, q) ==
    /\ Cardinality(bound) < MaxBound
    /\ Terminated(answers[k], q)
    /\ \E r \in HandedOver(answers[k], requests[q].for), attested \in BOOLEAN :
        /\ ReceiptFits(answers[k], q, r, attested)
        /\ bound' = bound \cup {[answer |-> k, request |-> q, result |-> r, attested |-> attested]}
    /\ UNCHANGED <<now, requests, answers, ingested>>

Next ==
    \/ Tick
    \/ \E a \in Assignment : Ask(a)
    \/ \E k \in DOMAIN requests : Answer(k)
    \/ \E a \in Assignment, k \in DOMAIN answers : Ingest(a, k)
    \/ \E k \in DOMAIN answers, q \in DOMAIN requests : Bind(k, q)

Spec == Init /\ [][Next]_vars

-----------------------------------------------------------------------------
(* Properties.                                                             *)

(* What is kept names requests and answers that exist, and a parsed answer *)
(* is in one of the states a termination record may have.                  *)
CallTypeOK ==
    /\ now \in Time
    /\ \A k \in DOMAIN requests : requests[k] \in [for: Assignment, created: Time]
    /\ \A k \in DOMAIN answers :
        /\ answers[k].to \in DOMAIN requests /\ answers[k].at \in Time
        /\ Parses(answers[k]) => Observed(answers[k]) \in NormalizedState
    /\ ingested \subseteq [answer: DOMAIN answers, for: Assignment, result: Result]
    /\ bound \subseteq [answer: DOMAIN answers, request: DOMAIN requests, result: Result, attested: BOOLEAN]

(* The answer ended by itself, was not refused, and says something.        *)
Finished(x) ==
    x.ending \in {<<"completed", FALSE>>, <<"end_turn", FALSE>>} /\ x.text # Empty

(* "Only completed provider termination can map to COMPLETED": an answer   *)
(* that was cut off, refused, empty or failed never becomes a completed    *)
(* result in either record, whatever text came with it, and one that is    *)
(* finished is never recorded as a failure.                                *)
FailureNotResearch ==
    /\ \A i \in ingested : Finished(answers[i.answer])
    /\ \A b \in bound : (b.result.status = "COMPLETED") = Finished(answers[b.answer])

(* "LIVE_ATTESTED requires the observed model ID to match the exact        *)
(* requested" target: an attested binding is of an answer that the asked   *)
(* model gave, also if the answer was to another request.                  *)
AttestedServed ==
    \A b \in bound : b.attested => answers[b.answer].model = requests[b.request].for.model

(* What is ingested for an assignment is what the assigned model answered  *)
(* when it was asked for that assignment: neither a late answer to another *)
(* one nor another model's can stand in for it, and no answer counts for   *)
(* two assignments.                                                        *)
IngestedWasAsked ==
    /\ \A i \in ingested :
        LET x == answers[i.answer]
        IN  /\ requests[x.to].for = i.for /\ x.model = i.for.model
            /\ i.result.by = i.for
    /\ \A i, j \in ingested : i.answer = j.answer => i = j

(* A call (gemini_adapter.py, claude_adapter.py, provider_result_ingestion *)
(* .py): failures never become research, an attested answer is of the      *)
(* asked model, and what is ingested was asked for.                        *)
CallInvariant == CallTypeOK /\ FailureNotResearch /\ AttestedServed /\ IngestedWasAsked
=============================================================================
