----------------------------- MODULE SharedEngine -----------------------------
(***************************************************************************)
(* The shared engine (automation/shared_engine): tasks in a SQLite store,  *)
(* worked on by processes that hold fenced leases.                         *)
(*                                                                         *)
(* A call of db.py reads the clock and the task and writes it in one       *)
(* BEGIN IMMEDIATE transaction: one step.  execute_role is a sequence of   *)
(* separate transactions on three databases (task store, provider's        *)
(* receipts, bridge's receipts): the fence is checked, the state is        *)
(* checked, the provider executes, the bridge records, the task is read    *)
(* again and moved.  The lease may run out, the task be taken over and the *)
(* process die between any two of them.  Time is kept as what is left of   *)
(* each lease: lease_until - now, with -1 for every lease that is over.    *)
(* A failing check raises: the call ends, what was stored stays.           *)
(***************************************************************************)
EXTENDS Integers, FiniteSets

CONSTANTS
    Task,
    Process,        \* programs that call the engine
    Worker,         \* worker ids
    WorkerOf,       \* WorkerOf[p]: the id p works under
    Rank,           \* Rank[t]: place of t by priority and age, lowest first
    LeaseSeconds,   \* LEASE_SECONDS (120 in the code)
    MaxGeneration,  \* bound: claims of a task
    MaxRound,       \* bound: implementation rounds of a task
    Nil             \* no worker, no answer

ASSUME SharedEngineAssumption ==
    /\ WorkerOf \in [Process -> Worker]
    /\ Rank \in [Task -> Nat]
    /\ \A t, u \in Task : Rank[t] = Rank[u] => t = u
    /\ LeaseSeconds \in Nat \ {0}
    /\ MaxGeneration \in Nat /\ MaxRound \in Nat
    /\ Nil \notin Worker \cup {"PASS", "FIX_REQUIRED"}

VARIABLES
    task,           \* the tasks table
    round,          \* round[t]: transitions to IN_IMPLEMENT in the events of t
    provided,       \* receipts of the provider adapter's store, by operation key
    executions,     \* executions of the provider, by operation key
    recorded,       \* receipts of the bridge's store, by operation key
    token,          \* token[p][t]: the generation p last got for t, 0 if none
    call            \* call[p]: how far p's claim_and_start or execute_role is

vars == <<task, round, provided, executions, recorded, token, call>>
stores == <<provided, executions, recorded>>

Role == {"IMPLEMENT", "LAB", "AUDIT"}
Verdict == {"PASS", "FIX_REQUIRED"}
Key == Task \X Role \X (1..MaxRound)

ALLOWED_TRANSITIONS ==
    [PENDING            |-> {"IN_IMPLEMENT", "BLOCKED_TECHNICAL", "FAILED_CLOSED", "OWNER_GATE"},
     IN_IMPLEMENT       |-> {"IN_LAB", "BLOCKED_TECHNICAL", "FAILED_CLOSED", "OWNER_GATE"},
     IN_LAB             |-> {"IN_AUDIT", "LAB_FIX_REQUIRED", "BLOCKED_TECHNICAL",
                             "FAILED_CLOSED", "OWNER_GATE"},
     LAB_FIX_REQUIRED   |-> {"IN_IMPLEMENT", "BLOCKED_TECHNICAL", "FAILED_CLOSED", "OWNER_GATE"},
     IN_AUDIT           |-> {"DONE", "AUDIT_FIX_REQUIRED", "BLOCKED_TECHNICAL",
                             "FAILED_CLOSED", "OWNER_GATE"},
     AUDIT_FIX_REQUIRED |-> {"IN_IMPLEMENT", "BLOCKED_TECHNICAL", "FAILED_CLOSED", "OWNER_GATE"},
     BLOCKED_TECHNICAL  |-> {"PENDING", "FAILED_CLOSED", "OWNER_GATE"},
     FAILED_CLOSED |-> {}, OWNER_GATE |-> {}, DONE |-> {}, ROLLED_BACK |-> {}]

State == DOMAIN ALLOWED_TRANSITIONS
RECOVERABLE_ACTIVE_STATES == {"IN_IMPLEMENT", "IN_LAB", "LAB_FIX_REQUIRED", "IN_AUDIT",
                              "AUDIT_FIX_REQUIRED", "BLOCKED_TECHNICAL"}
RELEASE_SAFE_STATES == {"PENDING", "FAILED_CLOSED", "OWNER_GATE", "DONE", "ROLLED_BACK"}
ROLE_NEXT_STATE == [IMPLEMENT |-> "IN_LAB", LAB |-> "IN_AUDIT", AUDIT |-> "DONE"]
ROLE_EXPECTED_STATES == [IMPLEMENT |-> "IN_IMPLEMENT", LAB |-> "IN_LAB", AUDIT |-> "IN_AUDIT"]

Absent == [state |-> "ABSENT", claimed_by |-> Nil, generation |-> 0, left |-> -1]
Idle == [step |-> "idle"]

TaskRecord == [state : State \cup {"ABSENT"}, claimed_by : Worker \cup {Nil},
               generation : 0..MaxGeneration, left : -1..LeaseSeconds]

(* A call remembers its arguments, the receipt it has, and its next step.  *)
Call == {Idle}
   \cup [step : {"start"}, task : Task, generation : 1..MaxGeneration]
   \cup [step : {"state", "provide", "record", "read", "apply"}, key : Key,
         generation : 1..MaxGeneration, verdict : Verdict \cup {Nil}]

Init == /\ task = [t \in Task |-> Absent]
        /\ round = [t \in Task |-> 0]
        /\ provided = [k \in Key |-> Nil]
        /\ executions = [k \in Key |-> 0]
        /\ recorded = [k \in Key |-> Nil]
        /\ token = [p \in Process |-> [t \in Task |-> 0]]
        /\ call = [p \in Process |-> Idle]

-----------------------------------------------------------------------------
(* The task store, db.py. *)

(* Slip: the generation is not looked at.                                  *)
OwnsByName(t, p, g) == task[t].claimed_by = WorkerOf[p]
Owns(t, p, g) == task[t].claimed_by = WorkerOf[p] /\ task[t].generation = g

Live(t) == task[t].left > 0                     \* lease_until > now
(* Slip: a lease may be taken over while it still runs.                    *)
ExpiredAlways(t) == TRUE
(* Slip: a lease that is over is not seen to be.                           *)
ExpiredNever(t) == FALSE
Expired(t) == task[t].left < 0                  \* lease_until < now

Claimable(t) == /\ task[t].state = "PENDING"
                /\ task[t].claimed_by = Nil \/ Expired(t)

(* Slip: the fencing generation stays.                                     *)
GrantSame(t, p) == [task[t] EXCEPT !.claimed_by = WorkerOf[p], !.left = LeaseSeconds,
                                   !.generation = IF @ = 0 THEN 1 ELSE @]
Grant(t, p) == [task[t] EXCEPT !.claimed_by = WorkerOf[p], !.left = LeaseSeconds,
                               !.generation = @ + 1]

(* What a claim of t by p leaves: a lease, and the generation returned.    *)
Claim(t, p) ==
    /\ task[t].generation < MaxGeneration
    /\ task' = [task EXCEPT ![t] = Grant(t, p)]
    /\ token' = [token EXCEPT ![p][t] = task'[t].generation]

(* What a transition leaves, for the fence (worker, g) of p.               *)
(* Slip: any target may release the claim.                                 *)
ReleasableAny(to) == TRUE
Releasable(to) == to \in RELEASE_SAFE_STATES
TransitionOK(t, p, g, to, release) ==
    /\ Owns(t, p, g) /\ Live(t)
    /\ to \in ALLOWED_TRANSITIONS[task[t].state]
    /\ release => Releasable(to)
Moved(t, to, release) ==
    IF release THEN [task[t] EXCEPT !.state = to, !.claimed_by = Nil, !.left = -1]
               ELSE [task[t] EXCEPT !.state = to]
Transition(t, p, g, to, release) ==
    /\ TransitionOK(t, p, g, to, release)
    /\ to = "IN_IMPLEMENT" => round[t] < MaxRound
    /\ task' = [task EXCEPT ![t] = Moved(t, to, release)]
    /\ round' = [round EXCEPT ![t] = IF to = "IN_IMPLEMENT" THEN @ + 1 ELSE @]

-----------------------------------------------------------------------------
(* Calls that are one transaction. *)

Submit(t) ==                                                    \* create_task
    /\ task[t] = Absent
    /\ task' = [task EXCEPT ![t] = [Absent EXCEPT !.state = "PENDING"]]
    /\ UNCHANGED <<round, stores, token, call>>

ClaimNext(p) ==                                                 \* claim_next_task
    /\ call[p] = Idle
    /\ \E t \in Task : /\ Claimable(t)
                       /\ \A u \in Task : Claimable(u) => Rank[t] <= Rank[u]
                       /\ Claim(t, p)
    /\ UNCHANGED <<round, stores, call>>

(* Slip: the renewal is added to what is left of the lease.                *)
RenewedBeyond(t) == task[t].left + LeaseSeconds
(* max(lease_until, now + lease_seconds)                                   *)
Renewed(t) == LeaseSeconds

Renew(p, t) ==                                                  \* renew_lease
    /\ call[p] = Idle
    /\ task[t].state \in RECOVERABLE_ACTIVE_STATES
    /\ Owns(t, p, token[p][t]) /\ Live(t)
    /\ task' = [task EXCEPT ![t].left = Renewed(t)]
    /\ UNCHANGED <<round, stores, token, call>>

Reclaim(p, t) ==                                                \* reclaim_expired_task
    /\ call[p] = Idle
    /\ task[t].state \in RECOVERABLE_ACTIVE_STATES
    /\ task[t].claimed_by # Nil /\ Expired(t)
    /\ Claim(t, p)
    /\ UNCHANGED <<round, stores, call>>

(* A transition a worker asks for itself: the start of a (re)work, blocked *)
(* and unblocked, closed, handed to the owner.  The targets of receipts    *)
(* are left to execute_role.                                               *)
Move(p, t, to, release) ==                                      \* transition
    /\ call[p] = Idle
    /\ to \in {"IN_IMPLEMENT", "BLOCKED_TECHNICAL", "PENDING", "FAILED_CLOSED", "OWNER_GATE"}
    /\ Transition(t, p, token[p][t], to, release)
    /\ UNCHANGED <<stores, token, call>>

-----------------------------------------------------------------------------
(* claim_and_start: two transactions. *)

ClaimTask(p, t) ==                                              \* claim_task
    /\ call[p] = Idle
    /\ Claimable(t)
    /\ Claim(t, p)
    /\ call' = [call EXCEPT ![p] = [step |-> "start", task |-> t,
                                    generation |-> task'[t].generation]]
    /\ UNCHANGED <<round, stores>>

Start(p) ==
    /\ call[p].step = "start"
    /\ Transition(call[p].task, p, call[p].generation, "IN_IMPLEMENT", FALSE)
    /\ call' = [call EXCEPT ![p] = Idle]
    /\ UNCHANGED <<stores, token>>

-----------------------------------------------------------------------------
(* execute_role.  The operation key is the role and the round it works in. *)

Goto(p, step) == call' = [call EXCEPT ![p].step = step]
KeyOf(p)  == call[p].key
TaskOf(p) == call[p].key[1]
RoleOf(p) == call[p].key[2]

ExecuteRole(p, t, role) ==                                      \* assert_unexpired_fence
    /\ call[p] = Idle
    /\ round[t] > 0
    /\ Owns(t, p, token[p][t]) /\ Live(t)
    /\ call' = [call EXCEPT ![p] = [step |-> "state", key |-> <<t, role, round[t]>>,
                                    generation |-> token[p][t], verdict |-> Nil]]
    /\ UNCHANGED <<task, round, stores, token>>

CheckState(p) ==
    /\ call[p].step = "state"
    /\ task[TaskOf(p)].state = ROLE_EXPECTED_STATES[RoleOf(p)]
    /\ Goto(p, "provide")
    /\ UNCHANGED <<task, round, stores, token>>

(* Slip: the stored receipt is not looked for before the provider runs.    *)
ExecuteAgain(k, verdict) ==
    /\ provided' = [provided EXCEPT ![k] = verdict]
    /\ executions' = [executions EXCEPT ![k] = @ + 1]

(* One transaction: a stored receipt is the answer to a repeated request,  *)
(* otherwise the provider executes.                                        *)
ExecuteLocalOnce(k, verdict) ==
    IF provided[k] # Nil
      THEN verdict = provided[k] /\ UNCHANGED <<provided, executions>>
      ELSE /\ provided' = [provided EXCEPT ![k] = verdict]
           /\ executions' = [executions EXCEPT ![k] = @ + 1]

Provide(p) ==                                                   \* execute_local_once
    /\ call[p].step = "provide"
    /\ \E v \in Verdict :
           /\ RoleOf(p) = "IMPLEMENT" => v = "PASS"
           /\ ExecuteLocalOnce(KeyOf(p), v)
           /\ call' = [call EXCEPT ![p].step = "record", ![p].verdict = v]
    /\ UNCHANGED <<task, round, recorded, token>>

Record(p) ==                                                    \* DurableReceiptBoundary.record
    /\ call[p].step = "record"
    /\ recorded[KeyOf(p)] \in {Nil, call[p].verdict}
    /\ recorded' = [recorded EXCEPT ![KeyOf(p)] = call[p].verdict]
    /\ Goto(p, "read")
    /\ UNCHANGED <<task, round, provided, executions, token>>

Read(p) ==                                                      \* apply_receipt, its read
    /\ call[p].step = "read"
    /\ Owns(TaskOf(p), p, call[p].generation)
    /\ task[TaskOf(p)].state = ROLE_EXPECTED_STATES[RoleOf(p)]
    /\ Goto(p, "apply")
    /\ UNCHANGED <<task, round, stores, token>>

(* Slip: a review that asks for a fix is taken for one that passes.        *)
TargetPass(role, verdict) == ROLE_NEXT_STATE[role]
Target(role, verdict) ==
    IF verdict = "FIX_REQUIRED"
      THEN IF role = "LAB" THEN "LAB_FIX_REQUIRED" ELSE "AUDIT_FIX_REQUIRED"
      ELSE ROLE_NEXT_STATE[role]

Apply(p) ==                                                     \* apply_receipt, its move
    /\ call[p].step = "apply"
    /\ LET to == Target(RoleOf(p), call[p].verdict)
       IN Transition(TaskOf(p), p, call[p].generation, to, to = "DONE")
    /\ call' = [call EXCEPT ![p] = Idle]
    /\ UNCHANGED <<stores, token>>

-----------------------------------------------------------------------------

(* A check that fails, a result the provider's store refuses, or an answer *)
(* from elsewhere: an exception ends the call.                             *)
Raise(p) ==
    /\ call[p] # Idle
    /\ call' = [call EXCEPT ![p] = Idle]
    /\ UNCHANGED <<task, round, stores, token>>

(* The process dies; what runs next under its worker id knows no token.    *)
Crash(p) ==
    /\ call[p] # Idle \/ \E t \in Task : token[p][t] > 0
    /\ call' = [call EXCEPT ![p] = Idle]
    /\ token' = [token EXCEPT ![p] = [t \in Task |-> 0]]
    /\ UNCHANGED <<task, round, stores>>

TimePasses ==
    /\ \E t \in Task : task[t].left >= 0
    /\ task' = [t \in Task |-> [task[t] EXCEPT !.left = IF @ >= 0 THEN @ - 1 ELSE @]]
    /\ UNCHANGED <<round, stores, token, call>>

Next ==
    \/ TimePasses
    \/ \E t \in Task : Submit(t)
    \/ \E p \in Process :
        \/ ClaimNext(p) \/ Start(p)
        \/ CheckState(p) \/ Provide(p) \/ Record(p) \/ Read(p) \/ Apply(p)
        \/ Raise(p) \/ Crash(p)
    \/ \E p \in Process, t \in Task : ClaimTask(p, t) \/ Renew(p, t) \/ Reclaim(p, t)
    \/ \E p \in Process, t \in Task, role \in Role : ExecuteRole(p, t, role)
    \/ \E p \in Process, t \in Task, to \in State, release \in BOOLEAN : Move(p, t, to, release)

Spec == Init /\ [][Next]_vars

(* Time passes, and somebody keeps asking for tasks whose lease is over.   *)
Fairness ==
    /\ WF_vars(TimePasses)
    /\ \A t \in Task : WF_vars(\E p \in Process : Reclaim(p, t) \/ ClaimTask(p, t))
    /\ \A p \in Process : WF_vars(Raise(p))

LiveSpec == Spec /\ Fairness

-----------------------------------------------------------------------------
(* Properties. *)

(* Every variable has its type.                                            *)
TypeOK ==
    /\ task \in [Task -> TaskRecord]
    /\ round \in [Task -> 0..MaxRound]
    /\ provided \in [Key -> Verdict \cup {Nil}]
    /\ executions \in [Key -> Nat]
    /\ recorded \in [Key -> Verdict \cup {Nil}]
    /\ token \in [Process -> [Task -> 0..MaxGeneration]]
    /\ call \in [Process -> Call]

(* A task in an active state has a holder on record: only then does        *)
(* reclaim_expired_task accept it, and claim_task takes PENDING alone, so  *)
(* an active task without one would be nobody's for good.                  *)
NoOrphan == \A t \in Task : task[t].state \in RECOVERABLE_ACTIVE_STATES => task[t].claimed_by # Nil

(* At most one process can pass the fence of a task, also among processes  *)
(* that share a worker id, whatever they remember of earlier claims.       *)
FenceUnique ==
    \A t \in Task : \A p, q \in Process :
        /\ Owns(t, p, token[p][t]) /\ Owns(t, q, token[q][t])
        => p = q

(* A claim never takes a task from a holder that could still use its lease.*)
NeverStolen ==
    [][\A t \in Task :
           task[t].generation # task'[t].generation /\ task[t].claimed_by # Nil
               => ~Live(t)]_vars

(* However often a role is tried, by however many workers, with crashes    *)
(* between the stores: its provider executes at most once per operation.   *)
ExecutesOnce == \A k \in Key : executions[k] <= 1

(* What a bridge receipt says is what the provider's receipt said, and     *)
(* neither is ever replaced.                                               *)
ReceiptsAgree ==
    [][\A k \in Key : /\ provided[k] # Nil => provided'[k] = provided[k]
                      /\ recorded'[k] # Nil => recorded'[k] = provided'[k]]_vars

(* All of it together, at every step of calls that are overtaken or die.   *)
SharedInvariant == TypeOK /\ NoOrphan /\ FenceUnique /\ ExecutesOnce
RecordsKept == NeverStolen /\ ReceiptsAgree

(* The engine is a SharedTaskFlow: tasks go through their stages on the    *)
(* results of the present round only, DONE only by its two PASSes, though  *)
(* workers are overtaken with receipts in hand and others go on with them. *)
Flow == INSTANCE SharedTaskFlow WITH
            stage <- [t \in Task |-> task[t].state], result <- provided, NoResult <- Nil
ImplementsTaskFlow == Flow!Spec

(* A lease that is over is replaced: a claimed task whose worker died, at  *)
(* whatever point, finds a new holder, until the bound on claims is met.   *)
TakenOver ==
    \A t \in Task : \A g \in 1..MaxGeneration :
        task[t].generation = g /\ task[t].left <= 0
            ~> \/ task[t].generation > g \/ g = MaxGeneration
               \/ task[t].state \notin RECOVERABLE_ACTIVE_STATES \cup {"PENDING"}
===============================================================================
