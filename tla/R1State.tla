------------------------------- MODULE R1State -------------------------------
(***************************************************************************)
(* The R1 source-review state (tools/multiverse_r1_state_v1.py) and the    *)
(* mutations of R1Engine on it (tools/multiverse_r1_engine_v1.py), as      *)
(* operators on a state record                                             *)
(*                                                                         *)
(*   [cache, tasks, receipts]                                              *)
(*                                                                         *)
(* so that the store of one process (R1Engine.tla) and the ledger shared   *)
(* by several invocations (R1Stage1.tla) use the same definitions.  Every  *)
(* mutation Op(s, ...) comes with OpOK(s, ...), the conjunction of the     *)
(* checks that raise before the state is touched: an operation whose OpOK  *)
(* is FALSE raises and leaves the state alone.  A definition called a slip *)
(* is the one that follows it with a plausible mistake; no specification   *)
(* uses it, it is there to see that some property would notice.            *)
(*                                                                         *)
(* What the code identifies by a digest is identified here by what the     *)
(* digest is taken of: a task by its idempotency key <<candidate, docs>>,  *)
(* a receipt by its task and payload.  task_by_idempotency is then the     *)
(* identity on DOMAIN tasks and is not a component of its own.  Fields     *)
(* that no decision reads (heartbeat_at, last_checked_at, the freshness    *)
(* wording, authorization_ref) are left out.                               *)
(***************************************************************************)
EXTENDS Integers, FiniteSets

CONSTANTS
    Candidate,      \* source candidates
    Docs,           \* digests of a candidate's terms/documents
    Worker,         \* actor instances that may hold a task lease
    Evidence,       \* evidence references
    Nil,            \* "no lease owner": Python's None
    RetryBudget,    \* retry_budget of a new task (2 in the code)
    Tick,           \* ticks callers may give as the time
    MaxEpoch,       \* bound: leases granted per task
    MaxVersion      \* bound: versions of a cache entry

ASSUME R1StateAssumption ==
    /\ RetryBudget \in Nat
    /\ Tick \subseteq Nat
    /\ MaxEpoch \in Nat /\ MaxVersion \in Nat
    /\ Nil \notin Worker

-----------------------------------------------------------------------------
(* Types. *)

Pending == {"REVIEW_REQUIRED", "CHANGED_REVIEW_REQUIRED"}
Final   == {"REVIEWED_NO_ADMISSION", "EXPLICIT_INELIGIBLE"}

Idem == Candidate \X Docs

(* What a reviewer commits.  verdict_reason adds nothing to the payload    *)
(* that a change of evidence does not.                                     *)
Payload == [state : Final, evidence : SUBSET Evidence]

CacheEntry == [docs_hash   : Docs,
               seen        : SUBSET Docs,       \* terms_or_docs_hashes
               audit_state : Pending \cup Final,
               version     : Nat]

Task == [attempt_count          : Nat,
         lease_owner            : Worker \cup {Nil},
         lease_expires_at       : Nat,          \* meaningful with an owner
         lease_epoch            : Nat,
         expected_cache_version : Nat,
         checkpointed           : BOOLEAN,      \* checkpoint_ref is not None
         dead                   : BOOLEAN,      \* dead_letter_reason is not None
         receipted              : BOOLEAN]      \* durable_receipt_ref is not None

Receipt == [payload             : Payload,
            cache_version_after : Nat,
            lease_epoch         : Nat,
            worker_id           : Worker]

(* f is a function from a subset of D to R: a Python dict.                 *)
IsMap(f, D, R) == /\ DOMAIN f \in SUBSET D
                  /\ f \in [DOMAIN f -> R]

Put(f, k, v) == [x \in DOMAIN f \cup {k} |-> IF x = k THEN v ELSE f[x]]

StateType(s) ==
    /\ s = [cache |-> s.cache, tasks |-> s.tasks, receipts |-> s.receipts]
    /\ IsMap(s.cache, Candidate, CacheEntry)
    /\ IsMap(s.tasks, Idem, Task)
    /\ IsMap(s.receipts, Idem, Receipt)

EmptyMap == [x \in {} |-> 0]

empty_state == [cache |-> EmptyMap, tasks |-> EmptyMap, receipts |-> EmptyMap]

(* The referential part of validate_state: what transact and every ledger  *)
(* write check of a state before they store it.                            *)
validate_state(s) ==
    /\ \A c \in DOMAIN s.cache : s.cache[c].docs_hash \in s.cache[c].seen
    /\ \A t \in DOMAIN s.tasks : t[1] \in DOMAIN s.cache
    /\ \A t \in DOMAIN s.receipts : t \in DOMAIN s.tasks /\ s.tasks[t].receipted

-----------------------------------------------------------------------------
(* inspect_candidate.                                                      *)

AlreadyFinal(s, c, d) ==
    /\ c \in DOMAIN s.cache
    /\ s.cache[c].docs_hash = d
    /\ s.cache[c].audit_state \in Final

KnownTask(s, c, d) ==
    /\ c \in DOMAIN s.cache
    /\ s.cache[c].docs_hash = d
    /\ <<c, d>> \in DOMAIN s.tasks

(* Slip: a change of documents starts the entry's versions over.           *)
StagedEntryFromZero(s, c, d) ==
    [docs_hash |-> d, seen |-> {d}, audit_state |-> "REVIEW_REQUIRED", version |-> 0]

(* The cache entry of c once d has been staged for review.                 *)
StagedEntry(s, c, d) ==
    IF c \notin DOMAIN s.cache
    THEN [docs_hash |-> d, seen |-> {d}, audit_state |-> "REVIEW_REQUIRED", version |-> 0]
    ELSE [docs_hash   |-> d,
          seen        |-> s.cache[c].seen \cup {d},
          audit_state |-> "CHANGED_REVIEW_REQUIRED",
          version     |-> s.cache[c].version + 1]

(* Slip: the task expects the version before the staging.                  *)
NewTaskBehind(v) ==
    [attempt_count |-> 0, lease_owner |-> Nil, lease_expires_at |-> 0,
     lease_epoch |-> 0, expected_cache_version |-> v - 1,
     checkpointed |-> FALSE, dead |-> FALSE, receipted |-> FALSE]

NewTask(v) ==
    [attempt_count |-> 0, lease_owner |-> Nil, lease_expires_at |-> 0,
     lease_epoch |-> 0, expected_cache_version |-> v,
     checkpointed |-> FALSE, dead |-> FALSE, receipted |-> FALSE]

(* Slip: every inspection stages the documents again.                      *)
inspect_candidate_afresh(s, c, d) ==
    LET x == StagedEntry(s, c, d)
    IN  [s EXCEPT !.cache = Put(@, c, x), !.tasks = Put(@, <<c, d>>, NewTask(x.version))]

(* Slip: only the first documents of a candidate get a task.               *)
inspect_candidate_once(s, c, d) ==
    IF AlreadyFinal(s, c, d) \/ KnownTask(s, c, d)
    THEN s
    ELSE LET x == StagedEntry(s, c, d)
         IN  [s EXCEPT !.cache = Put(@, c, x),
                       !.tasks = IF c \in DOMAIN s.cache THEN @
                                 ELSE Put(@, <<c, d>>, NewTask(x.version))]

(* A final verdict on the same documents and a task already open for them  *)
(* leave the state alone; a task of an earlier visit to the same documents *)
(* is handed out again as it is, the cache entry having moved on.          *)
inspect_candidate(s, c, d) ==
    IF AlreadyFinal(s, c, d) \/ KnownTask(s, c, d)
    THEN s
    ELSE LET x == StagedEntry(s, c, d)
         IN  [s EXCEPT !.cache = Put(@, c, x),
                       !.tasks = IF <<c, d>> \in DOMAIN @ THEN @
                                 ELSE Put(@, <<c, d>>, NewTask(x.version))]

-----------------------------------------------------------------------------
(* Leases.                                                                 *)

SetTask(s, t, x) == [s EXCEPT !.tasks[t] = x]

(* Slip: a dead letter does not end a task.                                *)
LiveTaskOrDead(s, t) == t \in DOMAIN s.tasks

LiveTask(s, t) == t \in DOMAIN s.tasks /\ ~ s.tasks[t].dead

(* Slip: the owner alone is checked, any epoch of its passes.              *)
HoldsLeaseOfAnyEpoch(s, t, w, e, n) ==
    s.tasks[t].lease_owner = w /\ n < s.tasks[t].lease_expires_at

(* R1Engine._lease: w holds the lease of epoch e, unexpired at tick n.     *)
HoldsLease(s, t, w, e, n) ==
    /\ s.tasks[t].lease_owner = w
    /\ s.tasks[t].lease_epoch = e
    /\ n < s.tasks[t].lease_expires_at

acquire_leaseOK(s, t, n) ==
    /\ LiveTask(s, t)
    /\ s.tasks[t].lease_owner = Nil \/ n >= s.tasks[t].lease_expires_at

(* Slip: a worker that renews its lease keeps the epoch.                   *)
acquire_lease_renewing(s, t, w, n, ticks) ==
    SetTask(s, t, [s.tasks[t] EXCEPT
                       !.lease_epoch      = IF s.tasks[t].lease_owner = w THEN @ ELSE @ + 1,
                       !.lease_owner      = w,
                       !.lease_expires_at = n + ticks])

acquire_lease(s, t, w, n, ticks) ==
    SetTask(s, t, [s.tasks[t] EXCEPT !.lease_epoch      = @ + 1,
                                     !.lease_owner      = w,
                                     !.lease_expires_at = n + ticks])

FencedOK(s, t, w, e, n) == LiveTask(s, t) /\ HoldsLease(s, t, w, e, n)

checkpoint(s, t) == SetTask(s, t, [s.tasks[t] EXCEPT !.checkpointed = TRUE])

(* Slip: the budget counts the first attempt.                              *)
record_failure_early(s, t) ==
    SetTask(s, t, [s.tasks[t] EXCEPT
                       !.attempt_count = @ + 1,
                       !.dead          = s.tasks[t].attempt_count + 1 >= RetryBudget])

record_failure(s, t) ==
    SetTask(s, t, [s.tasks[t] EXCEPT
                       !.attempt_count = @ + 1,
                       !.dead          = s.tasks[t].attempt_count + 1 > RetryBudget])

-----------------------------------------------------------------------------
(* commit_review.                                                          *)

PayloadOK(p) == p.state = "EXPLICIT_INELIGIBLE" => p.evidence # {}

(* Slip: no compare-and-set.                                               *)
CacheMatchesAny(s, t) == t[1] \in DOMAIN s.cache

(* The cache compare-and-set: the entry is the one the task was opened on. *)
CacheMatches(s, t) ==
    /\ t[1] \in DOMAIN s.cache
    /\ s.cache[t[1]].version = s.tasks[t].expected_cache_version
    /\ s.cache[t[1]].docs_hash = t[2]

commit_reviewOK(s, t, w, e, n, p) ==
    /\ PayloadOK(p)
    /\ FencedOK(s, t, w, e, n)
    /\ IF t \in DOMAIN s.receipts THEN s.receipts[t].payload = p ELSE CacheMatches(s, t)

(* A repeated commit returns the stored receipt and writes nothing.        *)
NewReceipt(s, t, w, e, p) ==
    [payload |-> p, cache_version_after |-> s.cache[t[1]].version + 1,
     lease_epoch |-> e, worker_id |-> w]

(* Slip: a repeated commit writes its receipt again.                       *)
commit_review_again(s, t, w, e, p) ==
    [cache    |-> [s.cache EXCEPT ![t[1]].audit_state = p.state,
                                  ![t[1]].version     = @ + 1],
     tasks    |-> [s.tasks EXCEPT ![t].receipted = TRUE],
     receipts |-> Put(s.receipts, t, NewReceipt(s, t, w, e, p))]

(* Slip: the task does not learn of its receipt.                           *)
commit_review_unlinked(s, t, w, e, p) ==
    IF t \in DOMAIN s.receipts
    THEN s
    ELSE [s EXCEPT !.cache[t[1]].audit_state = p.state,
                   !.cache[t[1]].version     = @ + 1,
                   !.receipts = Put(@, t, NewReceipt(s, t, w, e, p))]

commit_review(s, t, w, e, p) ==
    IF t \in DOMAIN s.receipts
    THEN s
    ELSE [cache    |-> [s.cache EXCEPT ![t[1]].audit_state = p.state,
                                       ![t[1]].version     = @ + 1],
          tasks    |-> [s.tasks EXCEPT ![t].receipted = TRUE],
          receipts |-> Put(s.receipts, t, NewReceipt(s, t, w, e, p))]

-----------------------------------------------------------------------------
(* What every reachable state satisfies, said of a state s: R1Engine says  *)
(* it of the store, R1Stage1 of the ledger.                                *)

(* A final cache entry is vouched for by the receipt of the task for the   *)
(* very documents the entry is about, with the same verdict, written when  *)
(* the entry reached its present version.                                  *)
FinalVouched(s) ==
    \A c \in DOMAIN s.cache :
        LET t == <<c, s.cache[c].docs_hash>>
        IN  s.cache[c].audit_state \in Final =>
                /\ t \in DOMAIN s.receipts
                /\ s.receipts[t].payload.state = s.cache[c].audit_state
                /\ s.receipts[t].cache_version_after = s.cache[c].version

(* Two receipts of one candidate never claim the same cache version.       *)
VersionsDistinct(s) ==
    \A t, u \in DOMAIN s.receipts :
        /\ t[1] = u[1]
        /\ s.receipts[t].cache_version_after = s.receipts[u].cache_version_after
        => t = u

(* The retry ceiling: a task is dead exactly when it failed once more than *)
(* its budget, and fails no more after that.                               *)
FailuresBounded(s) ==
    \A t \in DOMAIN s.tasks :
        /\ s.tasks[t].attempt_count <= RetryBudget + 1
        /\ s.tasks[t].dead <=> s.tasks[t].attempt_count = RetryBudget + 1

(* An entry that awaits review has a task for the documents it awaits.     *)
ReviewsHaveTasks(s) ==
    \A c \in DOMAIN s.cache :
        s.cache[c].audit_state \in Pending => <<c, s.cache[c].docs_hash>> \in DOMAIN s.tasks
=============================================================================
