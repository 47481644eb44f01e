------------------------------ MODULE RoleRelay ------------------------------
(***************************************************************************)
(* The role relay (orchestrator_role_relay_v3.py): a queue of jobs, one    *)
(* per operation key, in an SQLite file, and workers that claim the oldest *)
(* job under a lease, execute it through a durable receipt store (also     *)
(* orchestrator_provider_adapter_v7.py) and complete it.                   *)
(*                                                                         *)
(* A transaction is one step; a worker is several, and may stop between    *)
(* any two.  A lease is live or over: how long it lasts is left out, and   *)
(* the clock may run out at any time.  Bindings of a job to a head, branch *)
(* and main are part of its key here.                                      *)
(***************************************************************************)
EXTENDS Naturals, Sequences, SequencesExt

CONSTANTS
    Key,            \* operation keys
    Worker,         \* workers of the relay
    Token,          \* claim tokens (uuid4): there is always one nobody has
    Result,         \* what a provider may answer
    Unfit,          \* answers complete raises on (head or evidence)
    MaxMishap,      \* bound: workers that die or outlive their lease
    Nil

ASSUME RoleRelayAssumption ==
    /\ MaxMishap \in Nat
    /\ Unfit \subseteq Result
    /\ Nil \notin Result \cup Token \cup Key
    /\ \A f \in [Key -> Token \cup {Nil}], g \in [Worker -> Token \cup {Nil}] :
           \E t \in Token : (\A k \in Key : f[k] # t) /\ (\A w \in Worker : g[w] # t)

VARIABLES
    jobs,           \* the jobs table
    order,          \* the keys in the order of created_at
    work,           \* work[w]: how far w's process_one is
    receipts,       \* the receipt store's receipts
    executions,     \* how often the provider has been called for a key
    mishaps

relayVars == <<jobs, order, work, receipts, executions, mishaps>>

Job == [status : {"ABSENT", "QUEUED", "CLAIMED", "COMPLETE"}, token : Token \cup {Nil},
        lease : {"none", "live", "over"}, result : Result \cup {Nil}]

Work == [step : {"idle", "claim", "execute", "complete"}, key : Key \cup {Nil},
         token : Token \cup {Nil}]

Absent == [status |-> "ABSENT", token |-> Nil, lease |-> "none", result |-> Nil]
Resting == [step |-> "idle", key |-> Nil, token |-> Nil]

RelayInit == /\ jobs = [k \in Key |-> Absent]
             /\ order = <<>>
             /\ work = [w \in Worker |-> Resting]
             /\ receipts = [k \in Key |-> Nil]
             /\ executions = [k \in Key |-> 0]
             /\ mishaps = 0

-----------------------------------------------------------------------------
(* The client's side. *)

(* Slip: a repeated request starts its job anew.                           *)
EnqueuedAnew(k) == [jobs EXCEPT ![k] = [Absent EXCEPT !.status = "QUEUED"]]
Enqueued(k) == IF jobs[k] = Absent
                 THEN [jobs EXCEPT ![k] = [Absent EXCEPT !.status = "QUEUED"]]
                 ELSE jobs

Enqueue(k) ==                                                   \* enqueue
    /\ jobs' = Enqueued(k)
    /\ order' = IF jobs[k] = Absent THEN Append(order, k) ELSE order
    /\ UNCHANGED <<work, receipts, executions, mishaps>>

(* What result(k) returns: Nil while the job is not complete.              *)
ResultOf(k) == IF jobs[k].status = "COMPLETE" THEN jobs[k].result ELSE Nil

-----------------------------------------------------------------------------
(* A worker. *)

At(w, step) == work[w].step = step
To(w, step) == work' = [work EXCEPT ![w].step = step]
Rest(w) == work' = [work EXCEPT ![w] = Resting]

(* Slip: only a job nobody ever claimed is on offer.                       *)
ExpiredNever(k) == FALSE
Expired(k) == jobs[k].status = "CLAIMED" /\ jobs[k].lease = "over"

Requeued(k) == [jobs[k] EXCEPT !.status = "QUEUED", !.token = Nil, !.lease = "none"]

RecoverExpired(w) ==                                            \* recover_expired
    /\ At(w, "idle")
    /\ jobs' = [k \in Key |-> IF Expired(k) THEN Requeued(k) ELSE jobs[k]]
    /\ To(w, "claim")
    /\ UNCHANGED <<order, receipts, executions, mishaps>>

Queued == {k \in Key : jobs[k].status = "QUEUED"}

Oldest(k) == \E i \in DOMAIN order :
                order[i] = k /\ \A j \in 1..i - 1 : order[j] \notin Queued

(* Slip: a token is unique among the jobs claimed at the moment.           *)
FreshAmongJobs(t) == \A k \in Key : jobs[k].token # t
Fresh(t) == /\ \A k \in Key : jobs[k].token # t
            /\ \A w \in Worker : work[w].token # t

ClaimNext(w) ==                                                 \* claim_next
    /\ At(w, "claim")
    /\ \/ Queued = {} /\ Rest(w) /\ UNCHANGED jobs
       \/ \E k \in Queued :
             LET t == CHOOSE u \in Token : Fresh(u)
             IN /\ Oldest(k)
                /\ jobs' = [jobs EXCEPT ![k] = [@ EXCEPT !.status = "CLAIMED",
                                                        !.token = t, !.lease = "live"]]
                /\ work' = [work EXCEPT ![w] = [step |-> "execute", key |-> k, token |-> t]]
    /\ UNCHANGED <<order, receipts, executions, mishaps>>

(* Slip: the provider is called although it has answered already.          *)
AnswersAgain(k) == Result
AnswersOf(k) == IF receipts[k] = Nil THEN Result ELSE {receipts[k]}

Execute(w) ==                                                   \* execute_local_once
    LET k == work[w].key
    IN /\ At(w, "execute")
       /\ \E r \in AnswersOf(k) :
            /\ receipts' = [receipts EXCEPT ![k] = r]
            /\ executions' = IF receipts[k] = r THEN executions
                                                ELSE [executions EXCEPT ![k] = @ + 1]
       /\ To(w, "complete")
       /\ UNCHANGED <<jobs, order, mishaps>>

Holds(w, k) == jobs[k].status = "CLAIMED" /\ jobs[k].token = work[w].token

(* Slip: whoever has a job in hand may complete it.                        *)
CompletableByAll(w, k) == jobs[k].status # "COMPLETE"
Completable(w, k) == Holds(w, k)

(* A late worker finds its claim gone, or its job complete: it raises, or  *)
(* its equal result is a repetition; either way nothing is written.        *)
Complete(w) ==                                                  \* complete
    LET k == work[w].key
        r == receipts[k]
    IN /\ At(w, "complete")
       /\ jobs' = IF Completable(w, k) /\ r \notin Unfit
                    THEN [jobs EXCEPT ![k] = [@ EXCEPT !.status = "COMPLETE",
                                                       !.lease = "none", !.result = r]]
                    ELSE jobs
       /\ Rest(w)
       /\ UNCHANGED <<order, receipts, executions, mishaps>>

Heartbeat(w) ==                                                 \* heartbeat
    LET k == work[w].key
    IN /\ At(w, "execute") \/ At(w, "complete")
       /\ Holds(w, k)                                           \* RELAY_STALE_CLAIM
       /\ jobs' = [jobs EXCEPT ![k].lease = "live"]
       /\ UNCHANGED <<order, work, receipts, executions, mishaps>>

(* The process dies, or an exception ends it (crash_after_receipt).        *)
WorkerDies(w) ==
    /\ mishaps < MaxMishap
    /\ ~At(w, "idle")
    /\ mishaps' = mishaps + 1
    /\ Rest(w)
    /\ UNCHANGED <<jobs, order, receipts, executions>>

InHand(k) == \E w \in Worker : work[w].key = k /\ Holds(w, k)

(* The time of a lease runs out, which is a mishap if its worker is alive. *)
LeaseRunsOut(k) ==
    /\ jobs[k].lease = "live"
    /\ InHand(k) => mishaps < MaxMishap
    /\ mishaps' = IF InHand(k) THEN mishaps + 1 ELSE mishaps
    /\ jobs' = [jobs EXCEPT ![k].lease = "over"]
    /\ UNCHANGED <<order, work, receipts, executions>>

WorkerStep(w) == RecoverExpired(w) \/ ClaimNext(w) \/ Execute(w) \/ Complete(w)

RelayNext == \/ \E w \in Worker : WorkerStep(w) \/ Heartbeat(w) \/ WorkerDies(w)
             \/ \E k \in Key : LeaseRunsOut(k)

Spec == RelayInit /\ [][RelayNext \/ \E k \in Key : Enqueue(k)]_relayVars

(* Workers are called again and again, and the lease of a dead one ends.   *)
Fairness == /\ \A w \in Worker : WF_relayVars(WorkerStep(w))
            /\ \A k \in Key : WF_relayVars(LeaseRunsOut(k))

LiveSpec == Spec /\ Fairness

-----------------------------------------------------------------------------
(* Properties. *)

(* Every variable has its type, a token is carried by a claimed or a       *)
(* completed job only, and the order lists the jobs there are.             *)
RelayTypeOK ==
    /\ jobs \in [Key -> Job]
    /\ \A k \in Key : /\ jobs[k].token # Nil <=> jobs[k].status \in {"CLAIMED", "COMPLETE"}
                      /\ jobs[k].lease # "none" <=> jobs[k].status = "CLAIMED"
    /\ order \in Seq(Key)
    /\ ToSet(order) = {k \in Key : jobs[k] # Absent}
    /\ work \in [Worker -> Work]
    /\ receipts \in [Key -> Result \cup {Nil}]
    /\ executions \in [Key -> Nat]
    /\ mishaps \in 0..MaxMishap

(* Workers that die after the receipt, or are overtaken after their lease: *)
(* no operation key reaches the provider twice.                            *)
ExecutedOnce == \A k \in Key : executions[k] <= 1

(* A worker that was overtaken cannot get at the job any more, neither to  *)
(* complete it nor to prolong the lease of the one that has it now.        *)
OneHolder == \A v, w \in Worker, k \in Key :
    /\ work[v].key = k /\ Holds(v, k)
    /\ work[w].key = k /\ Holds(w, k)
    => v = w

(* What clients are told is the durable receipt of the one execution.      *)
ToldTheReceipt == \A k \in Key : ResultOf(k) \in {Nil, receipts[k]}

(* The relay (orchestrator_role_relay_v3.py), with workers that die after  *)
(* the receipt or are overtaken after their lease: no operation key        *)
(* reaches the provider twice, no two workers can get at one job, and what *)
(* clients are told is the durable receipt of the one execution.           *)
RelayInvariant == RelayTypeOK /\ ExecutedOnce /\ OneHolder /\ ToldTheReceipt

Promise == INSTANCE OneAnswer WITH
    asked  <- {k \in Key : jobs[k] # Absent},
    answer <- [k \in Key |-> ResultOf(k)]

(* The relay gives every operation key one answer that never changes.      *)
ImplementsPromise == Promise!Spec

(* A job whose worker died, or was too slow, is done by another one.       *)
AnsweredInTheEnd ==
    \A k \in Key : jobs[k].status = "QUEUED" ~> (ResultOf(k) # Nil \/ receipts[k] \in Unfit)
===============================================================================
