------------------------------ MODULE CoreTasks ------------------------------
(***************************************************************************)
(* The core task state (core_state.py), its queue, the executor and the    *)
(* provider switch (config/): one SQLite file, several processes.          *)
(*                                                                         *)
(* A method is one BEGIN IMMEDIATE transaction (mark_task_failed takes the *)
(* write lock with its UPDATE) and appends to the hash-chained audit log   *)
(* in it: one step.  run_next_task is several: it fetches a task, asks the *)
(* router for a provider and reads that provider's switch, generates, and  *)
(* records the claim or the failure.  Anything may happen in between.      *)
(* A transaction may also raise (a locked database): the methods catch     *)
(* that and answer False or None.  The queue's order and the router's      *)
(* choice are data here: any queued task, any registered provider.         *)
(***************************************************************************)
EXTENDS Naturals, Sequences

CONSTANTS
    CoreTask,       \* task ids, fresh for every task added
    CoreKey,        \* idempotency keys of the clients
    Content,        \* what a request asks for: its fingerprint
    Executor,       \* processes in run_next_task
    Provider,       \* registered, executable providers
    Verifier,       \* CANONICAL_TRUSTED_VERIFIERS
    Receipt,        \* receipt ids
    Amount,         \* amounts realized
    MaxFault,       \* bound: executors that die, transactions that raise
    MaxLog,         \* bound: entries of the audit log about no task
    Null

ASSUME CoreTasksAssumption ==
    /\ Amount \subseteq Nat
    /\ MaxFault \in Nat /\ MaxLog \in Nat
    /\ Null \notin CoreKey \cup Provider \cup CoreTask

VARIABLES
    tasks,          \* the tasks table
    vouched,        \* verification_receipts
    revenues,       \* revenues, by source_task_id
    disabled,       \* provider_controls with enabled = 0
    audit,          \* audit_logs
    run,            \* run[e]: how far e's run_next_task is
    answered,       \* what add_task has answered: request and task id
    faults

coreVars == <<tasks, vouched, revenues, disabled, audit, run, answered, faults>>

Status == {"ABSENT", "QUEUED", "RUNNING", "SUCCESS_CLAIMED", "VERIFIED", "CLOSED", "FAILED"}
NoTask == [status |-> "ABSENT", key |-> Null, content |-> Null, provider |-> Null]
Idle   == [step |-> "idle", task |-> Null, provider |-> Null]

Entry == [event : {"TASK_ADDED", "TASK_STARTED", "TASK_RESULT_CLAIMED", "TASK_FAILED",
                   "TASK_VERIFICATION_RECEIPT_ACCEPTED", "TASK_CLOSED",
                   "IDEMPOTENCY_CONTENT_MISMATCH", "FAIL_CLOSED_PROVIDER_DISABLE"},
          task : CoreTask \cup {Null}, provider : Provider \cup {Null}]

Log(event, t, q) == Append(audit, [event |-> event, task |-> t, provider |-> q])
Free(event) == Len(SelectSeq(audit, LAMBDA a : a.event = event)) < MaxLog

CoreInit ==
    /\ tasks = [t \in CoreTask |-> NoTask]
    /\ vouched = {}
    /\ revenues = [t \in CoreTask |-> Null]
    /\ disabled = {}
    /\ audit = <<>>
    /\ run = [e \in Executor |-> Idle]
    /\ answered = {}
    /\ faults = 0

-----------------------------------------------------------------------------
(* Intake. *)

Holder(k) == {t \in CoreTask : tasks[t].key = k /\ k # Null}

(* Slip: a known key is answered without a look at the content.            *)
SameRequestByKey(t, c) == TRUE
SameRequest(t, c) == tasks[t].content = c

AddTask(k, c) ==                                                \* add_task
    LET Known == \E t \in Holder(k) : TRUE
    IN \/ /\ \E t \in Holder(k) :
               /\ SameRequest(t, c)
               /\ answered' = answered \cup {[key |-> k, content |-> c, task |-> t]}
          /\ UNCHANGED <<tasks, vouched, revenues, disabled, audit, run, faults>>
       \/ /\ \E t \in Holder(k) : ~SameRequest(t, c)
          /\ Free("IDEMPOTENCY_CONTENT_MISMATCH")
          /\ audit' = Log("IDEMPOTENCY_CONTENT_MISMATCH", Null, Null)
          /\ UNCHANGED <<tasks, vouched, revenues, disabled, run, answered, faults>>
       \/ /\ ~Known
          /\ \E t \in CoreTask :
               /\ tasks[t] = NoTask
               /\ tasks' = [tasks EXCEPT ![t] = [NoTask EXCEPT !.status = "QUEUED",
                                                               !.key = k, !.content = c]]
               /\ audit' = Log("TASK_ADDED", t, Null)
               /\ answered' = answered \cup {[key |-> k, content |-> c, task |-> t]}
          /\ UNCHANGED <<vouched, revenues, disabled, run, faults>>

-----------------------------------------------------------------------------
(* Execution, run_next_task. *)

InRun(e, step) == run[e].step = step
Goto(e, step) == run' = [run EXCEPT ![e].step = step]
(* Slip: the executor keeps hold of the task it has given up.              *)
EndHolding(e) == Goto(e, "idle")
End(e) == run' = [run EXCEPT ![e] = Idle]

(* Slip: a task is fetched until somebody has verified it.                 *)
FetchableUnverified(t) == tasks[t].status \in {"QUEUED", "SUCCESS_CLAIMED"}
Fetchable(t) == tasks[t].status = "QUEUED"

Fetch(e) ==                                                     \* fetch_next_task
    /\ InRun(e, "idle")
    /\ \E t \in CoreTask :
         /\ Fetchable(t)
         /\ tasks' = [tasks EXCEPT ![t].status = "RUNNING"]
         /\ audit' = Log("TASK_STARTED", t, Null)
         /\ run' = [run EXCEPT ![e] = [step |-> "route", task |-> t, provider |-> Null]]
    /\ UNCHANGED <<vouched, revenues, disabled, answered, faults>>

(* Slip: the switch is looked at no more.                                  *)
EnabledAlways(q) == TRUE
Enabled(q) == q \notin disabled                                 \* is_provider_enabled

(* Slip: a task whose provider is switched off is left as it is.           *)
AfterSwitchForgetful(q) == IF Enabled(q) THEN "claim" ELSE "idle"
AfterSwitch(q) == IF Enabled(q) THEN "claim" ELSE "fail"

(* The router selects, or finds no eligible provider; the switch is read.  *)
Route(e) ==
    /\ InRun(e, "route")
    /\ \E q \in Provider :
         run' = [run EXCEPT ![e].provider = q, ![e].step = AfterSwitch(q)]
    /\ UNCHANGED <<tasks, vouched, revenues, disabled, audit, answered, faults>>

(* An exception: no eligible provider, or a provider that raises.          *)
RunRaises(e) ==
    /\ InRun(e, "route") \/ InRun(e, "claim")
    /\ Goto(e, "fail")
    /\ UNCHANGED <<tasks, vouched, revenues, disabled, audit, answered, faults>>

RecordClaim(e) ==                                               \* record_task_claim
    LET t == run[e].task
    IN /\ InRun(e, "claim")
       /\ IF tasks[t].status = "RUNNING"
            THEN /\ tasks' = [tasks EXCEPT ![t].status = "SUCCESS_CLAIMED",
                                           ![t].provider = run[e].provider]
                 /\ audit' = Log("TASK_RESULT_CLAIMED", t, run[e].provider)
                 /\ End(e)
            ELSE Goto(e, "fail") /\ UNCHANGED <<tasks, audit>>
       /\ UNCHANGED <<vouched, revenues, disabled, answered, faults>>

(* Slip: a failure leaves no trace.                                        *)
FailureUnlogged(t) == UNCHANGED audit
FailureLogged(t) == IF tasks[t].status = "RUNNING" THEN audit' = Log("TASK_FAILED", t, Null)
                                                   ELSE UNCHANGED audit

Fail(e) ==                                                      \* mark_task_failed
    LET t == run[e].task
    IN /\ InRun(e, "fail")
       /\ tasks' = IF tasks[t].status = "RUNNING"
                     THEN [tasks EXCEPT ![t].status = "FAILED"] ELSE tasks
       /\ FailureLogged(t)
       /\ End(e)
       /\ UNCHANGED <<vouched, revenues, disabled, answered, faults>>

(* The transaction raises and answers False: a claim turns into a failure, *)
(* a failure is given up.                                                  *)
StoreRaises(e) ==
    /\ faults < MaxFault
    /\ faults' = faults + 1
    /\ \/ InRun(e, "claim") /\ Goto(e, "fail")
       \/ InRun(e, "fail") /\ End(e)
    /\ UNCHANGED <<tasks, vouched, revenues, disabled, audit, answered>>

ExecutorDies(e) ==
    /\ faults < MaxFault
    /\ faults' = faults + 1
    /\ run[e] # Idle
    /\ End(e)
    /\ UNCHANGED <<tasks, vouched, revenues, disabled, audit, answered>>

-----------------------------------------------------------------------------
(* Verification, closing, and the switch. *)

(* Slip: a provider may vouch for its own result.                          *)
IndependentAny(t, v) == TRUE
Independent(t, v) == v # tasks[t].provider

ApplyReceipt(t, r, v) ==                                        \* apply_verification_receipt
    /\ tasks[t].status = "SUCCESS_CLAIMED"
    /\ Independent(t, v)
    /\ ~\E s \in vouched : s.id = r \/ s.task = t               \* PRIMARY KEY, UNIQUE
    /\ vouched' = vouched \cup {[id |-> r, task |-> t, verifier |-> v]}
    /\ tasks' = [tasks EXCEPT ![t].status = "VERIFIED"]
    /\ audit' = Log("TASK_VERIFICATION_RECEIPT_ACCEPTED", t, Null)
    /\ UNCHANGED <<revenues, disabled, run, answered, faults>>

Closable(t) == tasks[t].status = "VERIFIED" /\ \E r \in vouched : r.task = t

RealizeAndClose(t, amount) ==                                   \* realize_revenue_and_close
    /\ Closable(t)
    /\ amount > 0 => revenues[t] = Null                          \* UNIQUE
    /\ revenues' = IF amount > 0 THEN [revenues EXCEPT ![t] = amount] ELSE revenues
    /\ tasks' = [tasks EXCEPT ![t].status = "CLOSED"]
    /\ audit' = Log("TASK_CLOSED", t, Null)
    /\ UNCHANGED <<vouched, disabled, run, answered, faults>>

DisableProvider(q) ==                                           \* disable_provider
    /\ Free("FAIL_CLOSED_PROVIDER_DISABLE")
    /\ disabled' = disabled \cup {q}
    /\ audit' = Log("FAIL_CLOSED_PROVIDER_DISABLE", Null, q)
    /\ UNCHANGED <<tasks, vouched, revenues, run, answered, faults>>

CoreNext ==
    \/ \E k \in CoreKey \cup {Null}, c \in Content : AddTask(k, c)
    \/ \E e \in Executor : \/ Fetch(e) \/ Route(e) \/ RunRaises(e) \/ RecordClaim(e) \/ Fail(e)
                           \/ StoreRaises(e) \/ ExecutorDies(e)
    \/ \E t \in CoreTask, r \in Receipt, v \in Verifier : ApplyReceipt(t, r, v)
    \/ \E t \in CoreTask, amount \in Amount : RealizeAndClose(t, amount)
    \/ \E q \in Provider : DisableProvider(q)

CoreSpec == CoreInit /\ [][CoreNext]_coreVars

(* run_next_task is sequential code: what is begun goes on.                *)
CoreFairness == \A e \in Executor : WF_coreVars(Route(e) \/ RunRaises(e) \/ RecordClaim(e) \/ Fail(e))
CoreLiveSpec == CoreSpec /\ CoreFairness

-----------------------------------------------------------------------------
(* Properties. *)

(* Every variable has its type, and an executor has a task while it runs.  *)
CoreTypeOK ==
    /\ \A e \in Executor : InRun(e, "idle") <=> run[e].task = Null
    /\ tasks \in [CoreTask -> [status : Status, key : CoreKey \cup {Null},
                               content : Content \cup {Null}, provider : Provider \cup {Null}]]
    /\ vouched \subseteq [id : Receipt, task : CoreTask, verifier : Verifier]
    /\ revenues \in [CoreTask -> Amount \cup {Null}]
    /\ disabled \subseteq Provider
    /\ audit \in Seq(Entry)
    /\ run \in [Executor -> [step : {"idle", "route", "claim", "fail"},
                             task : CoreTask \cup {Null}, provider : Provider \cup {Null}]]
    /\ answered \subseteq [key : CoreKey \cup {Null}, content : Content, task : CoreTask]
    /\ faults \in 0..MaxFault

(* Clients that repeat a request under its key, or race with it, are all   *)
(* told one task, and never a task that does something else.               *)
RequestsAgree ==
    \A a, b \in answered : a.key # Null /\ a.key = b.key => a = b

(* Revenue is realized for a closed task only, on the receipt of a trusted *)
(* verifier that is not the provider whose result it vouches for.          *)
RevenueVouched ==
    \A t \in CoreTask : revenues[t] # Null =>
        /\ tasks[t].status = "CLOSED"
        /\ \E r \in vouched : r.task = t /\ r.verifier # tasks[t].provider

(* Claims, receipts and closings in any order, by executors that were      *)
(* overtaken: a result that was claimed keeps its provider, and its task   *)
(* is never executed again.                                                *)
ResultFixed ==
    [][\A t \in CoreTask : tasks[t].provider # Null =>
           /\ tasks'[t].provider = tasks[t].provider
           /\ tasks'[t].status \notin {"ABSENT", "QUEUED", "RUNNING"}]_coreVars

StatusAfter(event) ==
    CASE event = "TASK_ADDED"          -> "QUEUED"
      [] event = "TASK_STARTED"        -> "RUNNING"
      [] event = "TASK_RESULT_CLAIMED" -> "SUCCESS_CLAIMED"
      [] event = "TASK_FAILED"         -> "FAILED"
      [] event = "TASK_CLOSED"         -> "CLOSED"
      [] event = "TASK_VERIFICATION_RECEIPT_ACCEPTED" -> "VERIFIED"

(* The audit log tells the whole story: the last entry about a task is the *)
(* one that stands for the status the table has.                           *)
AuditTellsAll ==
    \A t \in CoreTask :
        LET about == {i \in DOMAIN audit : audit[i].task = t}
        IN  \/ about = {} /\ tasks[t].status = "ABSENT"
            \/ \E i \in about : /\ \A j \in about : j <= i
                               /\ tasks[t].status = StatusAfter(audit[i].event)

(* A provider that is switched off delivers no result for a task started   *)
(* afterwards: at most the tasks under way slip through.                   *)
SwitchHolds ==
    \A i, j, k \in 1..Len(audit) :
        /\ audit[i].event = "FAIL_CLOSED_PROVIDER_DISABLE"
        /\ audit[j].event = "TASK_STARTED"
        /\ audit[k].event = "TASK_RESULT_CLAIMED"
        /\ audit[k].task = audit[j].task /\ audit[k].provider = audit[i].provider
        => j < i

(* The core (core_state.py, config/executor.py): repeated requests are     *)
(* told one task; no revenue without the receipt of another than the       *)
(* provider; the audit log tells every status; a provider switched off     *)
(* delivers nothing for tasks started later.                               *)
CoreInvariant == CoreTypeOK /\ RequestsAgree /\ RevenueVouched /\ AuditTellsAll /\ SwitchHolds

(* Without faults a started task gets its result or its failure.           *)
RunningSettles == \A t \in CoreTask : tasks[t].status = "RUNNING" ~> tasks[t].status # "RUNNING"
===============================================================================
