------------------------------ MODULE FixedReview ------------------------------
(***************************************************************************)
(* One review by the fixed review dispatcher (review.py), from the job     *)
(* that dispatcher.py writes to the verdict, as a build's audit step or as *)
(* a one-shot preflight makes it, while the world moves: the pull request  *)
(* and main, the files (the candidate's tests and validators run in the    *)
(* checkout), the endpoint's service, and what its name resolves to.       *)
(*                                                                         *)
(* A recipe is about the files (a source rule of two tokens whose first 20 *)
(* characters agree, a test module, a validator, a secret scan) or about   *)
(* the endpoint (a GET and the denied methods); its other lists are empty. *)
(* The upstream of an Auditor's review is in                               *)
(* ReviewDispatcher; durable comments and subtrees are part of "bound".    *)
(* A process of the candidate that leaves its session is out of the code's *)
(* reach and of this module's.                                             *)
(*                                                                         *)
(* A build checks the head out before it reviews.  A preflight reviews the *)
(* checkout it is run in: it asks whether HEAD is the head, never whether  *)
(* the files are those of HEAD.  Nobody edits them during a review, but    *)
(* the candidate's own processes.                                          *)
(***************************************************************************)
EXTENDS Naturals, FiniteSets

CONSTANTS
    Mark,               \* what a file may contain: the tokens and "secret"
    Method,             \* deny.methods
    Public, Private,    \* addresses _address_allowed accepts, and the others
    Attempts,           \* attempts of a GET of the endpoint (6)
    TTL,                \* SAME_BUILD_CACHE_TTL_SECONDS
    MaxClock, MaxDrift  \* bounds: time, and changes of the service by others

ASSUME FixedReviewAssumption ==
    /\ "secret" \in Mark /\ Cardinality(Mark) >= 2
    /\ Attempts \in Nat \ {0} /\ TTL \in Nat /\ MaxClock \in Nat /\ MaxDrift \in Nat
    /\ Public \cap Private = {} /\ Public # {}

VARIABLES
    clock,
    moved,      \* when the pull request and main left what the job binds
    commit,     \* the file as the head has it
    file,       \* the file as it is
    group,      \* a process of the candidate is alive
    service,    \* [state, drift, applied: methods that had an effect, sent, reached]
    review      \* the review: its step, checks, findings, what it read and found

reviewVars == <<clock, moved, commit, file, group, service, review>>

Never == MaxClock + 1
Subject == {"pr", "main"}
Token == Mark \ {"secret"}

(* Where a check is recorded: the two tokens share a key.                  *)
Name == {"bound", "source", "tests", "validator", "scan",
         "get", "before", "denied", "after", "unchanged"}

(* found: the file as it was when the review began (history).              *)
Job(as, recipe, captured) ==
    [pc |-> "dispatch", as |-> as, recipe |-> recipe, captured |-> captured, found |-> file,
     cached |-> 0, asked |-> [x \in Subject |-> 0], read |-> [x \in Subject |-> TRUE],
     refused |-> {}, findings |-> {}, before |-> <<>>, left |-> Method, try |-> 0, out |-> "none"]

Untouched ==
    /\ clock = 0 /\ moved = [x \in Subject |-> Never]
    /\ group = FALSE
    /\ service = [state |-> 0, drift |-> 0, applied |-> {},
                  sent |-> [m \in Method |-> 0], reached |-> {}]

(* Nobody asks for a review.                                               *)
Resting == commit = {} /\ file = {} /\ Untouched /\ review = Job("build", "files", TRUE)

CheckedOut == file = commit                     \* by Buildkite, before the step

ReviewInit ==
    /\ Untouched
    /\ \E as \in {"build", "preflight"} :
          \/ /\ commit \in SUBSET Mark /\ file \in SUBSET Mark
             /\ as = "build" => CheckedOut
             /\ review = Job(as, "files", TRUE)
          \/ \E captured \in BOOLEAN :
                commit = {} /\ file = {} /\ review = Job(as, "endpoint", captured)

-----------------------------------------------------------------------------
(* The world. *)

(* The binding is read at the start: time and the moves of the world count *)
(* until then.                                                             *)
Unread == review.pc \in {"dispatch", "pr", "main"}

Tick == /\ Unread /\ clock < MaxClock /\ clock' = clock + 1
        /\ UNCHANGED <<moved, commit, file, group, service, review>>

Move(x) == /\ Unread /\ moved[x] = Never /\ moved' = [moved EXCEPT ![x] = clock]
           /\ UNCHANGED <<clock, commit, file, group, service, review>>

(* A process of the candidate writes to the checkout.                      *)
Touch == /\ group /\ \E f \in SUBSET Mark : file' = f
         /\ UNCHANGED <<clock, moved, commit, group, service, review>>

Drift == /\ review.pc \in {"get", "before", "deny"} /\ service.drift < MaxDrift
         /\ service' = [service EXCEPT !.drift = @ + 1, !.state = @ + 1]
         /\ UNCHANGED <<clock, moved, commit, file, group, review>>

-----------------------------------------------------------------------------
(* What a check leaves behind: a finding when it fails, and its outcome in *)
(* checks (refused: those that are FIX_REQUIRED), where the next check of  *)
(* the same name overwrites it.                                            *)

World == UNCHANGED <<clock, moved, commit, file, group, service>>
OnStep(pc) == review.pc = pc

(* Slip: what failed is taken from the checks.                             *)
VerdictByChecks(r) == IF r.refused = {} THEN "PASS" ELSE "FIX_REQUIRED"
Verdict(r) == IF r.findings = {} THEN "PASS" ELSE "FIX_REQUIRED"

Check(r, n, ok) == [r EXCEPT !.refused = IF ok THEN @ \ {n} ELSE @ \cup {n},
                             !.findings = IF ok THEN @ ELSE @ \cup {n}]

Raise(why) == review' = [review EXCEPT !.pc = "end", !.out = why]

-----------------------------------------------------------------------------
(* dispatcher.py: the job binds what the pull request and main are now.    *)

Dispatch ==                                     \* discover_request, the preflight
    /\ OnStep("dispatch")
    /\ \/ /\ moved = [x \in Subject |-> Never]
          /\ \/ review' = [review EXCEPT !.pc = "pr", !.cached = clock]
             \/ /\ review.as = "preflight"    \* the dispatcher's ref is not main
                /\ Raise("DISPATCHER_JOB_BINDING_MISMATCH")
       \/ Raise("DISPATCHER_CONTRACT_FAILURE")
       \/ Raise("DISPATCHER_EXECUTION_FAILURE")
    /\ World

(* Slip: an entry of the build's cache never grows old.                    *)
CachedForGood == TRUE
Cached == clock <= review.cached + TTL          \* _valid_cache_entry

(* Rate limits make a read wait, up to three times: time passes before it. *)
Read(x, next) ==                                \* github_json_request
    /\ OnStep(x)
    /\ \/ review' = [review EXCEPT !.pc = next, !.asked[x] = clock,
                                   !.read[x] = Cached \/ moved[x] = Never]
       \/ Raise("read")
    /\ World

Bind ==                                         \* run_review up to _check_comments
    /\ OnStep("bind")
    /\ \E rest \in BOOLEAN :                      \* the environment, the commit checked out, comments
         LET bound == rest /\ review.read["pr"] /\ review.read["main"]
         IN review' = [Check(review, "bound", bound)
                       EXCEPT !.pc = IF review.recipe = "files" THEN "source" ELSE "get"]
    /\ World

-----------------------------------------------------------------------------
(* The files. *)

(* The tokens of a rule, one after the other in any order of the recipe.   *)
Source ==                                       \* _check_source_rules
    /\ OnStep("source")
    /\ \E last \in Token :
         LET rest == Token \ {last}
             noted == Check(review, "source", rest \subseteq file)
         IN review' = [Check(noted, "source", last \in file) EXCEPT !.pc = "tests"]
    /\ World

Start(pc, next) ==                              \* Popen, in a session of its own
    /\ OnStep(pc) /\ group' = TRUE /\ review' = [review EXCEPT !.pc = next]
    /\ UNCHANGED <<clock, moved, commit, file, service>>

(* Slip: the group is killed when it is late.                              *)
ReapLate(late) == group' = (group /\ ~late)
Reap(late) == group' = FALSE                    \* killpg, in the finally

(* Late: exit 124, and what it printed counts.                             *)
Tests ==                                        \* _run_unittests
    /\ OnStep("testing")
    /\ \E exit, late, counted \in BOOLEAN :         \* counted: one summary, of as many tests
         /\ Reap(late)
         /\ review' = [Check(review, "tests", exit /\ ~late /\ counted) EXCEPT !.pc = "validate"]
    /\ UNCHANGED <<clock, moved, commit, file, service>>

Validate ==                                     \* _run_validators
    /\ OnStep("validating")
    /\ \E exit, late, expected \in BOOLEAN :
         /\ Reap(late)
         /\ review' = [Check(review, "validator", exit /\ ~late /\ expected) EXCEPT !.pc = "scan"]
    /\ UNCHANGED <<clock, moved, commit, file, service>>

Scan ==                                         \* _scan_secrets
    /\ OnStep("scan")
    /\ review' = [Check(review, "scan", "secret" \notin file) EXCEPT !.pc = "verdict"]
    /\ World

-----------------------------------------------------------------------------
(* The endpoint. *)

(* Slip: the name is resolved once more when the connection is opened.     *)
ConnectByName(found, a) == a \in Public \cup Private
Connect(found, a) == a \in found                \* _PinnedHTTPSConnection

Deliver(s, m) == [s EXCEPT !.sent[m] = @ + 1]

(* A denied method that takes effect all the same.                         *)
Effect(s, m) == [s EXCEPT !.sent[m] = @ + 1, !.state = @ + 1, !.applied = @ \cup {m}]

(* One attempt of endpoint: the name resolves to public addresses only, a  *)
(* connection to one of them, and s is what the service makes of it.       *)
Exchange(s) ==
    /\ \E found \in (SUBSET Public) \ {{}}, a \in Public \cup Private :
         Connect(found, a) /\ service' = [s EXCEPT !.reached = @ \cup {a}]
    /\ UNCHANGED <<clock, moved, commit, file, group>>

Replied(s, attempts, status) ==                \* the last 503 is an answer
    Exchange(s) /\ (status = "503" => review.try + 1 >= attempts)

Unanswered(s, attempts) ==
    \/ Raise("PRIVATE_OR_SPECIAL_DNS_IP_DENIED") /\ World
    \/ Exchange(s) /\ Raise("HTTP_REDIRECT_DENIED")
    \/ /\ Exchange(s)                           \* 502 to 504, or the answer is lost
       /\ IF review.try + 1 < attempts THEN review' = [review EXCEPT !.try = @ + 1]
                                       ELSE Raise("lost")

Status == {"200", "503", "other"}
Body(status, s) == IF status = "200" THEN <<s.state>> ELSE <<>>

Get ==                                          \* the GETs of the recipe
    /\ OnStep("get")
    /\ \/ Unanswered(service, Attempts)
       \/ \E status \in Status, equal \in BOOLEAN :
            LET noted == Check(review, "get", status = "200" /\ equal)
            IN /\ Replied(service, Attempts, status)
               /\ review' = [noted EXCEPT !.try = 0,
                                !.before = IF review.captured THEN Body(status, service) ELSE @,
                                !.pc = IF review.captured THEN "deny" ELSE "before"]

Before ==                                       \* the evidence was not among them
    /\ OnStep("before")
    /\ \/ Unanswered(service, Attempts)
       \/ \E status \in Status :
            LET noted == Check(review, "before", status = "200")
            IN /\ Replied(service, Attempts, status)
               /\ review' = [noted EXCEPT !.try = 0, !.pc = "deny",
                                          !.before = Body(status, service)]

(* Slip: as often as a GET.                                                *)
DenyAttemptsDefault == Attempts
DenyAttempts == 1

Deny(m) ==
    /\ OnStep("deny") /\ m \in review.left
    /\ \E s \in {Deliver(service, m), Effect(service, m)} :
         \/ Unanswered(s, DenyAttempts)
         \/ \E status \in Status, denied \in BOOLEAN :
              /\ Replied(s, DenyAttempts, status)
              /\ review' = [Check(review, "denied", denied) EXCEPT !.try = 0, !.left = @ \ {m}]

(* Slip: only the status of the last read is looked at.                    *)
UnchangedUnseen(r, body) == TRUE
Unchanged(r, body) == body = r.before

After ==
    /\ OnStep("deny") /\ review.left = {}
    /\ \/ Unanswered(service, Attempts)
       \/ \E status \in Status :
            LET noted == Check(review, "after", status = "200")
            IN /\ Replied(service, Attempts, status)
               /\ review' = [Check(noted, "unchanged", Unchanged(noted, Body(status, service)))
                             EXCEPT !.try = 0, !.pc = "verdict"]

-----------------------------------------------------------------------------
(* The verdict: the artifact is written, and the exit code says the same   *)
(* unless the process dies first.                                          *)

Judge ==                                        \* the end of run_review, classify_review_outcome
    /\ OnStep("verdict")
    /\ \E dies \in BOOLEAN :
         LET v == Verdict(review)
         IN review' = [review EXCEPT !.pc = "end", !.out =
              CASE v = "FIX_REQUIRED" -> "REVIEW_RECIPE_OR_CANDIDATE_FAILURE"
                [] v = "PASS" /\ dies -> "REVIEW_EXECUTION_FAILURE"
                [] OTHER -> "PASS"]
    /\ World

ReviewNext ==
    \/ Tick \/ Touch \/ Drift \/ \E x \in Subject : Move(x)
    \/ Dispatch \/ Read("pr", "main") \/ Read("main", "bind") \/ Bind
    \/ Source \/ Start("tests", "testing") \/ Tests
    \/ Start("validate", "validating") \/ Validate \/ Scan
    \/ Get \/ Before \/ After \/ \E m \in Method : Deny(m)
    \/ Judge

ReviewSpec == ReviewInit /\ [][ReviewNext]_reviewVars

-----------------------------------------------------------------------------
(* Properties. *)

ReviewTypeOK ==
    /\ clock \in 0..MaxClock /\ moved \in [Subject -> 0..Never]
    /\ {commit, file, review.found} \subseteq SUBSET Mark /\ group \in BOOLEAN
    /\ service.applied \subseteq Method /\ review.findings \subseteq Name
    /\ review.refused \subseteq review.findings
    /\ review.left \subseteq Method /\ review.try \in 0..(Attempts - 1)

Passed == review.out = "PASS"

(* A build's PASS says of the commit that it has every token, also the one *)
(* whose check was overwritten by its namesake's, whatever the tests made  *)
(* of the file since; a preflight's says it of the checkout it began with, *)
(* which may be another one than the commit's.  Either says that no secret *)
(* was left in the checkout, by the tests or by a process that outlived    *)
(* them.                                                                   *)
PassIsOfTheFiles ==
    Passed /\ review.recipe = "files" =>
        /\ Token \subseteq (IF review.as = "build" THEN commit ELSE review.found)
        /\ "secret" \notin file /\ ~group

(* PASS says that the pull request and main were what the job binds within *)
(* the cache's lifetime before they were read.                             *)
PassIsFresh == Passed => \A x \in Subject : review.asked[x] <= moved[x] + TTL

(* PASS after denied methods says that none of them had an effect, however *)
(* the answers were lost or repeated on the way.                           *)
PassIsDenied == Passed => service.applied = {}

(* A denied method reaches the service at most once, and no request        *)
(* reaches an address that was not checked.                                *)
EndpointRespected ==
    /\ \A m \in Method : service.sent[m] <= 1
    /\ service.reached \cap Private = {}

FixedReviewInvariant ==
    /\ ReviewTypeOK /\ PassIsOfTheFiles /\ PassIsFresh
    /\ PassIsDenied /\ EndpointRespected
=============================================================================
