------------------------------- MODULE MCLive -------------------------------
(* What has to happen in the end, for TLC: small instances of the Stage 1  *)
(* runtime, the shared engine, the relay, the orchestrator and the review  *)
(* dispatcher, each under the fairness its module states.  part says which *)
(* of them a behaviour is of, and the others rest.                         *)
EXTENDS Naturals

CONSTANTS
    Parts,          \* the parts to run
    Strict,         \* whether the ledger lets a claim change the claim alone
    Nil, c1, d1, e1, i1, i2, k1, k2, p1, p2, task1, o, fit1, l1, l2

VARIABLES
    part,
    control, r1, high, expired, over, current, pc, job, copy, crashes,
    etask, eround, provided, eruns, recorded, etoken, call,
    jobs, order, work, relayed, rruns, mishaps,
    otask, fresh, proc, asked, answer, ocrashes,
    log, build, posted, faults

(* A lease of three ticks outlives the commit and has expired a tick later. *)
Stage1 == INSTANCE R1Stage1 WITH
    Candidate <- {c1}, Docs <- {d1}, Worker <- {p1}, Evidence <- {e1}, RetryBudget <- 0,
    Invocation <- {i1, i2}, Tick <- {0, 3}, LeaseTicks <- 3, MaxTerminal <- 2,
    StrictClaim <- Strict, MayClose <- FALSE, MaxCrash <- 1, MaxEpoch <- 9, MaxVersion <- 5,
    Envelope <- [candidate : {c1}, docs : {d1}, worker : {p1},
                 verdict : {[state |-> "REVIEWED_NO_ADMISSION", evidence |-> {}]}]

Shared == INSTANCE SharedEngine WITH
    Task <- {task1}, Process <- {p1, p2}, Worker <- {p1, p2}, WorkerOf <- [p \in {p1, p2} |-> p],
    Rank <- [x \in {task1} |-> 1], LeaseSeconds <- 1, MaxGeneration <- 2, MaxRound <- 1,
    task <- etask, round <- eround, executions <- eruns, token <- etoken

(* Every answer is fit: no client asks for another head.                   *)
Relay == INSTANCE RoleRelay WITH
    Key <- {k1, k2}, Worker <- {p1, p2}, Token <- 1..5, Result <- {"fit"}, Unfit <- {}, MaxMishap <- 2,
    receipts <- relayed, executions <- rruns

Orchestrator == INSTANCE Orchestrator WITH
    Orch <- {o}, ClaimId <- 1..3, Code <- {fit1}, SemBudget <- 1, TransBudget <- 1, MaxSteps <- 20, MaxCrash <- 1,
    None <- Nil,
    task <- otask, crashes <- ocrashes

Dispatcher == INSTANCE ReviewDispatcher WITH
    LabBuild <- {l1, l2}, AuditorBuild <- {}, MaxLabRequest <- 2, MaxAuditorRequest <- 0,
    MaxLog <- 5, MaxReads <- 2, Lag <- {0}, MaxFault <- 1, receipts <- posted

stage1Vars == <<control, r1, high, expired, over, current, pc, job, copy, crashes>>
engineVars == <<etask, eround, provided, eruns, recorded, etoken, call>>
roleVars == <<jobs, order, work, relayed, rruns, mishaps>>
orchestratorVars == <<otask, fresh, proc, asked, answer, ocrashes>>
buildVars == <<log, build, posted, faults>>

LiveInit ==
    /\ part \in Parts
    /\ Stage1!Init /\ Shared!Init /\ Relay!RelayInit /\ Orchestrator!OrchInit /\ Dispatcher!Init

LiveNext ==
    /\ UNCHANGED part
    /\ \/ /\ part = "stage1" /\ Stage1!Next
          /\ UNCHANGED <<engineVars, roleVars, orchestratorVars, buildVars>>
       \/ /\ part = "engine" /\ Shared!Next
          /\ UNCHANGED <<stage1Vars, roleVars, orchestratorVars, buildVars>>
       \/ /\ part = "relay" /\ (Relay!RelayNext \/ \E k \in {k1, k2} : Relay!Enqueue(k))
          /\ UNCHANGED <<stage1Vars, engineVars, orchestratorVars, buildVars>>
       \/ /\ part = "orchestrator" /\ Orchestrator!OrchNext
          /\ UNCHANGED <<stage1Vars, engineVars, roleVars, buildVars>>
       \/ /\ part = "dispatcher" /\ Dispatcher!Next
          /\ UNCHANGED <<stage1Vars, engineVars, roleVars, orchestratorVars>>

(* The fairness of each module, for the part it is of.                     *)
Fairness ==
    /\ \A i \in {i1, i2} : /\ WF_stage1Vars(part = "stage1" /\ Stage1!Start(i))
                           /\ WF_stage1Vars(part = "stage1" /\ Stage1!Work(i))
    /\ WF_stage1Vars(part = "stage1" /\ Stage1!Expire)
    /\ WF_engineVars(part = "engine" /\ Shared!TimePasses)
    /\ WF_engineVars(part = "engine" /\ \E p \in {p1, p2} : Shared!Reclaim(p, task1) \/ Shared!ClaimTask(p, task1))
    /\ \A p \in {p1, p2} : /\ WF_engineVars(part = "engine" /\ Shared!Raise(p))
                           /\ WF_roleVars(part = "relay" /\ Relay!WorkerStep(p))
    /\ \A k \in {k1, k2} : WF_roleVars(part = "relay" /\ Relay!LeaseRunsOut(k))
    /\ WF_orchestratorVars(part = "orchestrator" /\ Orchestrator!Call(o))
    /\ WF_orchestratorVars(part = "orchestrator" /\ Orchestrator!StepOf(o))
    /\ SF_orchestratorVars(part = "orchestrator" /\ Orchestrator!RecoverRead(o))
    /\ WF_orchestratorVars(part = "orchestrator" /\ Orchestrator!TimePasses)
    /\ \A b \in {l1, l2} : WF_buildVars(part = "dispatcher" /\ Dispatcher!BuildStep(b))

LiveSpec ==
    /\ LiveInit
    /\ [][LiveNext]_<<part, stage1Vars, engineVars, roleVars, orchestratorVars, buildVars>>
    /\ Fairness

(* DURABLE_RECEIPT_COUNTED_EXACTLY_ONCE_AFTER_RESTART (Stage 1 runtime).    *)
ReceiptCounted == Stage1!ReceiptEventuallyCounted

(* Work is done in the end: a receipt that invocations of Stage 1 made     *)
(* durable is counted (reconcile_terminal_receipts), a task of the shared  *)
(* engine (reclaim_expired_task) and a job of the relay (recover_expired)  *)
(* whose worker died or was overtaken find another one, a task of the      *)
(* orchestrator ends (run_until_terminal), and what a build set out to     *)
(* publish gets its receipt (recover_publish_receipt).                     *)
WorkEnds ==
    /\ ReceiptCounted
    /\ Shared!TakenOver /\ Relay!AnsweredInTheEnd
    /\ part = "orchestrator" => Orchestrator!Terminates
    /\ part = "dispatcher" => Dispatcher!Answered
=============================================================================
