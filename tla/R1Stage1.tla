------------------------------- MODULE R1Stage1 -------------------------------
(***************************************************************************)
(* The Stage 1 runtime (tools/multiverse_r1_stage1_runtime_v1.py): several *)
(* invocations of process_one_controlled share one remote control plane.   *)
(*                                                                         *)
(* An invocation loads a snapshot, claims the control plane, and then      *)
(* alternates an engine call on its own copy of the R1 state with an       *)
(* adapter call that replaces the remote state.  Every adapter call is a   *)
(* compare-and-set on the remote head and is one step; the engine call     *)
(* before it touches only the invocation's copy and belongs to that step.  *)
(* An exception ends the invocation and leaves its claim to expire.  What  *)
(* an invocation asks the authority for before its claim (the sealed       *)
(* decision bundle, tools/..._runtime_v1.py:467-538) changes no state: a   *)
(* denied bundle is an invocation that never starts.                       *)
(***************************************************************************)
EXTENDS R1State

CONSTANTS
    Invocation,     \* invocations, each with a claim_id of its own
    Envelope,       \* the enqueued envelopes: what to review and the verdict asked for
    LeaseTicks,     \* lease_ticks (10 in the code)
    MaxTerminal,    \* MAX_TERMINAL_TASKS (25 in the code)
    StrictClaim,    \* the GitHub ledger adapter: a claim may change the claim alone
    MayClose,       \* whether the seven days may pass
    MaxCrash        \* bound: invocations that die between two calls

ASSUME R1Stage1Assumption ==
    /\ Envelope \subseteq [candidate : Candidate, docs : Docs, worker : Worker, verdict : Payload]
    /\ \A e \in Envelope : PayloadOK(e.verdict)
    /\ LeaseTicks \in Nat /\ LeaseTicks > 2
    /\ MaxTerminal \in Nat \ {0}
    /\ StrictClaim \in BOOLEAN /\ MayClose \in BOOLEAN
    /\ MaxCrash \in Nat
    /\ Nil \notin Invocation

VARIABLES
    control,        \* the remote control record
    r1,             \* the remote R1 state
    high,           \* the remote high-water mark of the terminal count
    expired,        \* the deadline of the present claim has passed
    over,           \* the seven-day window has passed
    current,        \* running invocations whose snapshot has the remote's present head
    pc,             \* pc[i]: the adapter call invocation i makes next
    job,            \* job[i]: the envelope and now_tick of i
    copy,           \* copy[i]: control and R1 state as i last saw or wrote them
    crashes

vars == <<control, r1, high, expired, over, current, pc, job, copy, crashes>>

remote == <<control, r1, high>>

Control == [counted : SUBSET Idem,      \* counted_receipt_ids
            paused  : BOOLEAN,
            claim   : Invocation \cup {Nil}]

Step == {"idle", "claim", "inspect", "lease", "failure", "checkpoint", "commit", "release"}

NoJob == [env |-> Nil, tick |-> 0]
NoCopy == [control |-> Nil, r1 |-> Nil]

empty_control == [counted |-> {}, paused |-> FALSE, claim |-> Nil]

Init == /\ control = empty_control
        /\ r1 = empty_state
        /\ high = 0
        /\ expired = FALSE
        /\ over = FALSE
        /\ current = {}
        /\ pc = [i \in Invocation |-> "idle"]
        /\ job = [i \in Invocation |-> NoJob]
        /\ copy = [i \in Invocation |-> NoCopy]
        /\ crashes = 0

-----------------------------------------------------------------------------
(* Control records.                                                        *)

terminal_count(c) == Cardinality(c.counted)

(* Slip: receipts that are durable already are left uncounted.             *)
reconcile_terminal_receipts_pausing(c, s) ==
    [c EXCEPT !.paused = @ \/ Cardinality(c.counted \cup DOMAIN s.receipts) >= MaxTerminal]

(* Every durable receipt is counted, and the ceiling pauses the stage.     *)
reconcile_terminal_receipts(c, s) ==
    [c EXCEPT !.counted = @ \cup DOMAIN s.receipts,
              !.paused  = @ \/ Cardinality(c.counted \cup DOMAIN s.receipts) >= MaxTerminal]

ReconcileOK(s) == Cardinality(DOMAIN s.receipts) <= MaxTerminal

(* Slip: a full stage lets one more invocation in.                         *)
assert_ceiling_and_integrity_late(c) ==
    /\ terminal_count(c) >= high
    /\ terminal_count(c) <= MaxTerminal
    /\ ~ over

(* Slip: the activation window is not looked at.                           *)
assert_ceiling_and_integrity_timeless(c) ==
    /\ terminal_count(c) >= high
    /\ ~ c.paused
    /\ terminal_count(c) < MaxTerminal

(* What an invocation checks of the reconciled snapshot.  The seven days   *)
(* and the claim's deadline are judged by the trusted clock at that time.  *)
assert_ceiling_and_integrity(c) ==
    /\ terminal_count(c) >= high
    /\ ~ c.paused
    /\ terminal_count(c) < MaxTerminal
    /\ ~ over

(* Slip: a claim has no deadline.                                          *)
ClaimFreeOnRelease(c) == c.claim = Nil

ClaimFree(c) == c.claim = Nil \/ expired

claim_control(c, i) == [c EXCEPT !.claim = i]

release_control(c) == [c EXCEPT !.claim = Nil]

-----------------------------------------------------------------------------
(* Adapter calls.                                                          *)

TaskOf(i) == <<job[i].env.candidate, job[i].env.docs>>

(* The head is the one i saw, and the claim is still its own.              *)
HeadUnmoved(i) == i \in current
OwnsClaim(i) == control.claim = i

End(i) == /\ pc' = [pc EXCEPT ![i] = "idle"]
          /\ job' = [job EXCEPT ![i] = NoJob]
          /\ copy' = [copy EXCEPT ![i] = NoCopy]

(* The remote takes control c and R1 state s and moves its head.           *)
Write(c, s) == control' = c /\ r1' = s

(* Slip: the adapter takes a state from whoever sends it.                  *)
PersistBlindly(i, s, next) ==
    /\ Write(control, s)
    /\ current' = {i}
    /\ copy' = [copy EXCEPT ![i] = [control |-> control, r1 |-> s]]
    /\ pc' = [pc EXCEPT ![i] = next]
    /\ UNCHANGED <<high, expired, over, job, crashes>>

(* persist_r1_state of the state s that an engine call made of i's copy.   *)
Persist(i, s, next) ==
    /\ HeadUnmoved(i) /\ OwnsClaim(i)
    /\ Write(control, s)
    /\ current' = {i}
    /\ copy' = [copy EXCEPT ![i] = [control |-> control, r1 |-> s]]
    /\ pc' = [pc EXCEPT ![i] = next]
    /\ UNCHANGED <<high, expired, over, job, crashes>>

-----------------------------------------------------------------------------
(* _process_one_controlled and _process_claimed, one action per adapter    *)
(* call.                                                                   *)

Load(i, e, n) ==
    LET c == reconcile_terminal_receipts(control, r1)
    IN  /\ pc[i] = "idle"
        /\ ReconcileOK(r1)
        /\ assert_ceiling_and_integrity(c)
        /\ ClaimFree(c)
        /\ job' = [job EXCEPT ![i] = [env |-> e, tick |-> n]]
        /\ copy' = [copy EXCEPT ![i] = [control |-> c, r1 |-> r1]]
        /\ current' = current \cup {i}
        /\ pc' = [pc EXCEPT ![i] = "claim"]
        /\ UNCHANGED <<control, r1, high, expired, over, crashes>>

(* Slip: a claim does not compare the head.                                *)
ClaimAcceptedAnyHead(i) == StrictClaim => copy[i].control = control

(* With the ledger adapter a claim whose reconciliation counts a receipt   *)
(* is refused.                                                             *)
ClaimAccepted(i) ==
    /\ HeadUnmoved(i)
    /\ StrictClaim => copy[i].control = control

Claim(i) ==
    LET c == claim_control(copy[i].control, i)
    IN  /\ pc[i] = "claim"
        /\ ClaimAccepted(i)
        /\ Write(c, r1)
        /\ current' = {i}
        /\ copy' = [copy EXCEPT ![i] = [control |-> c, r1 |-> r1]]
        /\ expired' = FALSE
        /\ pc' = [pc EXCEPT ![i] = "inspect"]
        /\ UNCHANGED <<high, over, job, crashes>>

(* A final verdict on the same documents ends the invocation's work.       *)
Inspect(i) ==
    LET s == copy[i].r1
        e == job[i].env
    IN  /\ pc[i] = "inspect"
        /\ e.candidate \in DOMAIN s.cache => s.cache[e.candidate].version < MaxVersion
        /\ Persist(i, inspect_candidate(s, e.candidate, e.docs),
                   IF AlreadyFinal(s, e.candidate, e.docs) THEN "release" ELSE "lease")

(* Slip: every lease but the first is charged as a failure.                *)
PreviousAttemptAny(t) == t.lease_epoch > 0

(* The lease is taken over from an attempt that left no receipt.  That the *)
(* attempt's lease has expired is what acquire_lease has just checked.     *)
PreviousAttemptFailed(t) == t.lease_epoch > 0 /\ ~ t.receipted

Lease(i) ==
    LET s == copy[i].r1
        t == TaskOf(i)
    IN  /\ pc[i] = "lease"
        /\ acquire_leaseOK(s, t, job[i].tick)
        /\ s.tasks[t].lease_epoch < MaxEpoch
        /\ Persist(i, acquire_lease(s, t, job[i].env.worker, job[i].tick, LeaseTicks),
                   IF PreviousAttemptFailed(s.tasks[t]) THEN "failure" ELSE "checkpoint")

Failure(i) ==
    LET s == copy[i].r1
        t == TaskOf(i)
        f == record_failure(s, t)
    IN  /\ pc[i] = "failure"
        /\ FencedOK(s, t, job[i].env.worker, s.tasks[t].lease_epoch, job[i].tick)
        /\ Persist(i, f, IF f.tasks[t].dead THEN "release" ELSE "checkpoint")

Checkpoint(i) ==
    LET s == copy[i].r1
        t == TaskOf(i)
    IN  /\ pc[i] = "checkpoint"
        /\ FencedOK(s, t, job[i].env.worker, s.tasks[t].lease_epoch, job[i].tick + 1)
        /\ Persist(i, checkpoint(s, t), "commit")

CommitAccepted(i) ==
    LET s == copy[i].r1
        t == TaskOf(i)
    IN  commit_reviewOK(s, t, job[i].env.worker, s.tasks[t].lease_epoch,
                        job[i].tick + 2, job[i].env.verdict)

Commit(i) ==
    LET s == copy[i].r1
        t == TaskOf(i)
    IN  /\ pc[i] = "commit"
        /\ CommitAccepted(i)
        /\ Persist(i, commit_review(s, t, job[i].env.worker, s.tasks[t].lease_epoch,
                                    job[i].env.verdict),
                   "release")

(* _release_remote: whatever the copy's R1 state has durable is counted.   *)
Release(i) ==
    LET c == release_control(reconcile_terminal_receipts(copy[i].control, copy[i].r1))
    IN  /\ pc[i] = "release"
        /\ HeadUnmoved(i) /\ OwnsClaim(i)
        /\ ReconcileOK(copy[i].r1)
        /\ Write(c, r1)
        /\ current' = {}
        /\ high' = IF terminal_count(c) > high THEN terminal_count(c) ELSE high
        /\ End(i)
        /\ UNCHANGED <<expired, over, crashes>>

(* The exceptions: the adapter refuses the write, or the engine the call.  *)
Raise(i) ==
    /\ \/ pc[i] = "claim" /\ ~ ClaimAccepted(i)
       \/ pc[i] \notin {"idle", "claim"} /\ ~ (HeadUnmoved(i) /\ OwnsClaim(i))
       \/ pc[i] = "lease" /\ ~ acquire_leaseOK(copy[i].r1, TaskOf(i), job[i].tick)
       \/ pc[i] = "commit" /\ ~ CommitAccepted(i)
       \/ pc[i] = "release" /\ ~ ReconcileOK(copy[i].r1)
    /\ End(i)
    /\ current' = current \ {i}
    /\ UNCHANGED <<control, r1, high, expired, over, crashes>>

(* The process dies between two calls, or dies of a call whose answer is   *)
(* lost: its claim stays.                                                  *)
Crash(i) ==
    /\ pc[i] # "idle"
    /\ crashes < MaxCrash
    /\ crashes' = crashes + 1
    /\ End(i)
    /\ current' = current \ {i}
    /\ UNCHANGED <<control, r1, high, expired, over>>

(* Five minutes pass on the trusted clock.                                 *)
Expire ==
    /\ control.claim # Nil /\ ~ expired
    /\ expired' = TRUE
    /\ UNCHANGED <<control, r1, high, over, current, pc, job, copy, crashes>>

(* Seven days have passed since the activation.                            *)
CloseWindow ==
    /\ MayClose /\ ~ over
    /\ over' = TRUE
    /\ UNCHANGED <<control, r1, high, expired, current, pc, job, copy, crashes>>

Work(i) == \/ Claim(i) \/ Inspect(i) \/ Lease(i) \/ Failure(i) \/ Checkpoint(i)
           \/ Commit(i) \/ Release(i) \/ Raise(i)

Start(i) == \E e \in Envelope, n \in Tick : Load(i, e, n)

Next == \/ \E i \in Invocation : Start(i) \/ Work(i) \/ Crash(i)
        \/ Expire
        \/ CloseWindow

Spec == Init /\ [][Next]_vars

(* The stage keeps being invoked, an invocation that does not die goes on, *)
(* and the trusted clock reaches the deadline of a claim.                  *)
Fairness == /\ \A i \in Invocation : WF_vars(Start(i)) /\ WF_vars(Work(i))
            /\ WF_vars(Expire)

-----------------------------------------------------------------------------
(* Properties. *)

(* Every value has its type.                                               *)
TypeOK ==
    /\ control \in Control
    /\ StateType(r1)
    /\ high \in Nat
    /\ expired \in BOOLEAN /\ over \in BOOLEAN
    /\ current \subseteq Invocation
    /\ pc \in [Invocation -> Step]
    /\ job \in [Invocation -> [env : Envelope, tick : Tick] \cup {NoJob}]
    /\ \A i \in Invocation :
           copy[i] # NoCopy => copy[i].control \in Control /\ StateType(copy[i].r1)
    /\ crashes \in 0..MaxCrash

(* The shared R1 state keeps what R1Engine promises of its store, though   *)
(* each invocation computes on a copy it took some calls ago.              *)
LedgerSound ==
    /\ validate_state(r1)
    /\ FinalVouched(r1)
    /\ VersionsDistinct(r1)
    /\ FailuresBounded(r1)

(* A receipt is counted only once it is durable, and when no invocation    *)
(* has a claim, every durable receipt is counted.                          *)
CountedAreDurable ==
    /\ control.counted \subseteq DOMAIN r1.receipts
    /\ control.claim = Nil => control.counted = DOMAIN r1.receipts

(* Receipts made durable never exceed the ceiling, counted or not: no      *)
(* crash lets MAX_TERMINAL_TASKS + 1 through.                              *)
CeilingHolds == Cardinality(DOMAIN r1.receipts) <= MaxTerminal

(* The control record never falls behind the high-water mark: no run of    *)
(* the runtime itself is taken for a rollback.                             *)
NoFalseRollback == high <= terminal_count(control)

(* A task that ran out of retries has no receipt: a finished task is not   *)
(* charged for leases taken after it was finished.                         *)
DeadLettersUnfinished ==
    \A t \in DOMAIN r1.tasks : r1.tasks[t].dead => t \notin DOMAIN r1.receipts

(* What is reviewed on R1 state copied calls ago: the shared state is as   *)
(* sound as the engine keeps its own, and a task that ran out of retries   *)
(* was not finished.                                                       *)
ReviewsSound == TypeOK /\ LedgerSound /\ DeadLettersUnfinished

(* With what is counted (assert_ceiling_and_integrity,                     *)
(* reconcile_terminal_receipts): durable receipts and, with no claim, all  *)
(* of them; never more than the ceiling; never behind the high-water mark. *)
StageInvariant == ReviewsSound /\ CountedAreDurable /\ CeilingHolds /\ NoFalseRollback

(* No invocation overwrites the work of another: receipts, counts, the     *)
(* pause, lease epochs, failures and cache versions only ever advance.     *)
Advances ==
    /\ control.counted \subseteq control'.counted
    /\ control.paused => control'.paused
    /\ \A t \in DOMAIN r1.receipts :
           t \in DOMAIN r1'.receipts /\ r1'.receipts[t] = r1.receipts[t]
    /\ \A t \in DOMAIN r1.tasks :
           /\ t \in DOMAIN r1'.tasks
           /\ r1'.tasks[t].lease_epoch >= r1.tasks[t].lease_epoch
           /\ r1'.tasks[t].attempt_count >= r1.tasks[t].attempt_count
    /\ \A c \in DOMAIN r1.cache :
           c \in DOMAIN r1'.cache /\ r1'.cache[c].version >= r1.cache[c].version

NoLostUpdate == [][Advances]_vars

(* A paused stage changes nothing any more, not even on behalf of the      *)
(* invocations that were under way when it was paused.                     *)
PauseHolds == [][control.paused => UNCHANGED remote]_vars

(* After the seven days the invocations under way may finish; once none of *)
(* them has the current head the remote is never written again.            *)
Settled == over /\ current = {}

WindowHolds == [][Settled => Settled' /\ UNCHANGED remote]_vars

(* Writes (persist_r1_state, pause, the window of seven days): none is     *)
(* lost, none follows a pause, none follows a window that has settled.     *)
WritesInOrder == NoLostUpdate /\ PauseHolds /\ WindowHolds

(* Every durable receipt is counted in the end, whatever died on the way:  *)
(* DURABLE_RECEIPT_COUNTED_EXACTLY_ONCE_AFTER_RESTART.                     *)
ReceiptEventuallyCounted ==
    \A t \in Idem : (t \in DOMAIN r1.receipts) ~> (t \in control.counted)
=============================================================================
