------------------------------- MODULE R1Engine -------------------------------
(***************************************************************************)
(* R1Engine over one PersistentStore, called by several processes.         *)
(*                                                                         *)
(* PersistentStore.transact holds an exclusive flock from the read of the  *)
(* file to its atomic replacement, so each engine call is one step.  What  *)
(* interleaves are the calls: a caller keeps the epoch that acquire_lease  *)
(* returned to it and uses it later, when the lease may have expired, the  *)
(* task may have been leased again or dead-lettered, and the cache entry   *)
(* may have moved on.  Several processes may act as one worker instance.   *)
(* Ticks are the caller's: no two calls need agree on the time, so a call  *)
(* may carry any tick.                                                     *)
(***************************************************************************)
EXTENDS R1State, TLC

CONSTANTS
    Caller,         \* processes that call the engine
    LeaseLengths    \* lease lengths callers ask for

ASSUME R1EngineAssumption == LeaseLengths \subseteq Nat \ {0}

(* For model checking: no operation tells processes, workers or documents  *)
(* apart otherwise than by equality.                                       *)
Symmetry == Permutations(Worker) \cup Permutations(Caller) \cup Permutations(Docs)

VARIABLES
    store,          \* r1_state.json
    held            \* held[p]: the lease p last got from acquire_lease

engineVars == <<store, held>>

NoLease == [task |-> Nil, worker |-> Nil, epoch |-> 0]

HeldLease == [task : Idem, worker : Worker, epoch : Nat]

Holding(p) == held[p] # NoLease

EngineInit == /\ store = empty_state
              /\ held = [p \in Caller |-> NoLease]

-----------------------------------------------------------------------------

InspectCandidate(c, d) ==
    /\ c \in DOMAIN store.cache => store.cache[c].version < MaxVersion
    /\ store' = inspect_candidate(store, c, d)
    /\ UNCHANGED held

Acquire(p, w, t, n, k) ==
    /\ acquire_leaseOK(store, t, n)
    /\ store.tasks[t].lease_epoch < MaxEpoch
    /\ store' = acquire_lease(store, t, w, n, k)
    /\ held' = [held EXCEPT ![p] = [task |-> t, worker |-> w,
                                    epoch |-> store'.tasks[t].lease_epoch]]

(* The three fenced calls use whatever lease the caller remembers.         *)
CheckpointTask(p, n) ==
    /\ Holding(p)
    /\ FencedOK(store, held[p].task, held[p].worker, held[p].epoch, n)
    /\ store' = checkpoint(store, held[p].task)
    /\ UNCHANGED held

RecordFailure(p, n) ==
    /\ Holding(p)
    /\ FencedOK(store, held[p].task, held[p].worker, held[p].epoch, n)
    /\ store' = record_failure(store, held[p].task)
    /\ UNCHANGED held

CommitReview(p, n, v) ==
    /\ Holding(p)
    /\ commit_reviewOK(store, held[p].task, held[p].worker, held[p].epoch, n, v)
    /\ store' = commit_review(store, held[p].task, held[p].worker, held[p].epoch, v)
    /\ UNCHANGED held

(* The process ends, and its successor knows no epoch.                     *)
CallerDies(p) ==
    /\ Holding(p)
    /\ held' = [held EXCEPT ![p] = NoLease]
    /\ UNCHANGED store

EngineNext ==
    \/ \E c \in Candidate, d \in Docs : InspectCandidate(c, d)
    \/ \E p \in Caller, w \in Worker, t \in Idem, n \in Tick, k \in LeaseLengths :
           Acquire(p, w, t, n, k)
    \/ \E p \in Caller, n \in Tick : CheckpointTask(p, n)
    \/ \E p \in Caller, n \in Tick : RecordFailure(p, n)
    \/ \E p \in Caller, n \in Tick, v \in Payload : CommitReview(p, n, v)
    \/ \E p \in Caller : CallerDies(p)

EngineSpec == EngineInit /\ [][EngineNext]_engineVars

-----------------------------------------------------------------------------
(* Properties. *)

(* Every stored state and remembered lease has its type.                   *)
EngineTypeOK ==
    /\ StateType(store)
    /\ held \in [Caller -> HeldLease \cup {NoLease}]

(* transact never writes, and __init__ never meets on disk, a state that   *)
(* validate_state rejects: no order of calls makes the store unreadable.   *)
StoreReadable == validate_state(store)

(* A lease epoch of a task is held by at most one process, however leases  *)
(* expire, processes die and clocks disagree: the fencing token is unique. *)
EpochUnique ==
    \A p, q \in Caller :
        /\ Holding(p) /\ Holding(q)
        /\ held[p].task = held[q].task
        /\ held[p].epoch = held[q].epoch
        => p = q

(* A final verdict in the cache is the one of the durable receipt for the *)
(* documents now in the cache: commit_review never lets a review of older  *)
(* documents decide on newer ones.                                         *)
FinalHasReceipt == FinalVouched(store)

(* Of the tasks opened on a candidate, at most one commits on each version *)
(* of its cache entry: the compare-and-set on expected_cache_version.      *)
OneReceiptPerVersion == VersionsDistinct(store)

(* A task is dead-lettered at its failure number RetryBudget + 1, and no   *)
(* failure is recorded after it, whoever holds the lease.                  *)
RetryCeiling == FailuresBounded(store)

(* No review is awaited that no task can be worked on for.                 *)
ReviewHasTask == ReviewsHaveTasks(store)

(* A receipt, once durable, is never changed and never disappears.         *)
KeepsReceipts ==
    \A t \in DOMAIN store.receipts :
        t \in DOMAIN store'.receipts /\ store'.receipts[t] = store.receipts[t]

ReceiptsDurable == [][KeepsReceipts]_engineVars

(* A receipt is written under the lease of its task that was granted last, *)
(* by a process that got that lease: no fenced-out process commits, even   *)
(* one acting as the worker instance that holds the lease now.             *)
CommitsUnderLastLease ==
    \A t \in DOMAIN store'.receipts \ DOMAIN store.receipts :
        LET x == store.tasks[t]
            r == store'.receipts[t]
        IN  /\ r.lease_epoch = x.lease_epoch
            /\ r.worker_id = x.lease_owner
            /\ \E p \in Caller :
                   held[p] = [task |-> t, worker |-> r.worker_id, epoch |-> r.lease_epoch]

OnlyLastLeaseCommits == [][CommitsUnderLastLease]_engineVars

(* A dead-lettered task is never worked on again.                          *)
LeavesDeadTasks ==
    \A t \in DOMAIN store.tasks :
        store.tasks[t].dead => t \in DOMAIN store'.tasks /\ store'.tasks[t] = store.tasks[t]

DeadLetterFinal == [][LeavesDeadTasks]_engineVars

(* A verdict is dropped from the cache only when other documents replace   *)
(* the ones it was about.                                                  *)
KeepsVerdicts ==
    \A c \in DOMAIN store.cache :
        /\ store.cache[c].audit_state \in Final
        /\ store'.cache[c].audit_state # store.cache[c].audit_state
        => store'.cache[c].docs_hash # store.cache[c].docs_hash

VerdictKeptForSameDocs == [][KeepsVerdicts]_engineVars

(* What every state of the store promises (validate_state, acquire_lease,  *)
(* commit_review, record_failure): it is readable, no verdict without its  *)
(* receipt, one commit for a version, one holder of an epoch, no failure   *)
(* past the ceiling, and no awaited review without a task.                 *)
StoreInvariant ==
    /\ EngineTypeOK /\ StoreReadable /\ EpochUnique
    /\ FinalHasReceipt /\ OneReceiptPerVersion /\ RetryCeiling /\ ReviewHasTask

(* What is settled stays (commit_review, record_failure,                   *)
(* inspect_candidate): receipts, dead letters, and verdicts on the same    *)
(* documents.                                                              *)
SettledStays == ReceiptsDurable /\ DeadLetterFinal /\ VerdictKeptForSameDocs
=============================================================================
