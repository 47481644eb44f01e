----------------------------- MODULE Orchestrator -----------------------------
(***************************************************************************)
(* The orchestrator (orchestrator_mvp_v2.py) taking one task through       *)
(* IMPLEMENT, LAB and AUDIT, over a relay that gives every operation key   *)
(* one answer (OneAnswer, which RoleRelay implements).                     *)
(*                                                                         *)
(* A transaction on the store is one step, with the read that decides it   *)
(* where nothing of the process lies between; rollback and recover_stale   *)
(* read in one transaction and write in another, so they are two.  Which   *)
(* check of a gate failed is a code; what the codes say is left out.       *)
(***************************************************************************)
EXTENDS Naturals

CONSTANTS
    Orch,           \* processes at work on the store
    ClaimId,        \* claims, fresh for every step started
    Code,           \* codes with which a gate or a reviewer asks for a fix
    SemBudget,      \* semantic_retry_budget
    TransBudget,    \* transient_retry_budget
    MaxSteps,       \* max_steps of run_until_terminal
    MaxCrash,       \* bound: processes that die
    None

VARIABLES
    task,           \* the row of the task
    fresh,          \* its heartbeat is younger than heartbeat_timeout_seconds
    proc,           \* proc[o]: how far o is, and what it remembers
    asked,          \* operation keys the relay has been asked
    answer,         \* what the relay answers
    crashes

orchVars == <<task, fresh, proc, asked, answer, crashes>>

Role == {"IMPLEMENT", "LAB", "AUDIT"}
Terminal == {"OWNER_GATE", "DONE", "ROLLED_BACK"}               \* TERMINAL_STATES
Entering == {"PENDING", "MECH_GATE_FAIL", "LAB_FIX_REQUIRED", "AUDIT_FIX_REQUIRED"}
State == Terminal \cup Entering \cup {"IN_IMPLEMENT", "IN_LAB", "IN_AUDIT"}

OperationKey == [role : Role, gen : 0..SemBudget]                        \* operation_key
Outcome == {"PASS", "BLOCK"} \cup Code
Fingerprint == (Role \cup {"MECH"}) \X (Outcome \cup {"TIMEOUT"})

ASSUME OrchestratorAssumption ==
    /\ SemBudget \in 0..2 /\ TransBudget \in 0..3
    /\ MaxSteps \in Nat /\ MaxCrash \in Nat
    /\ ClaimId # {} /\ \A v \in {ClaimId, Outcome, Fingerprint} : None \notin v

Relay == INSTANCE OneAnswer WITH Key <- OperationKey, Result <- Outcome, Nil <- None

FailState == [r \in Role |-> CASE r = "IMPLEMENT" -> "MECH_GATE_FAIL"
                               [] r = "LAB"       -> "LAB_FIX_REQUIRED"
                               [] r = "AUDIT"     -> "AUDIT_FIX_REQUIRED"]
PassState == [r \in Role |-> CASE r = "IMPLEMENT" -> "IN_LAB"
                               [] r = "LAB"       -> "IN_AUDIT"
                               [] r = "AUDIT"     -> "DONE"]
RoleOf(s) == CASE s = "IN_LAB"   -> "LAB"
               [] s = "IN_AUDIT" -> "AUDIT"
               [] OTHER          -> "IMPLEMENT"

Place == {"idle", "begin", "start", "ask", "wait", "finish", "judge", "rollback", "recover"}

Ready == [pc |-> "idle", seen |-> "PENDING", key |-> None, claim |-> None,
          out |-> None, steps |-> 0]

OrchInit ==
    /\ task = [state |-> "PENDING", sem |-> 0, trans |-> 0, fp |-> None, rep |-> 0,
               claim |-> None]
    /\ fresh = FALSE
    /\ proc = [o \in Orch |-> Ready]
    /\ Relay!Init
    /\ crashes = 0

-----------------------------------------------------------------------------
(* What a transaction writes. *)

AtStep(o, pc) == proc[o].pc = pc
RoleNow(o) == RoleOf(proc[o].seen)
(* One call of step is over; run_until_terminal goes on.                   *)
Back(o) == [proc EXCEPT ![o] = [Ready EXCEPT !.steps = proc[o].steps]]
(* An exception ends run_until_terminal.                                   *)
Raised(o) == [proc EXCEPT ![o] = Ready]

Moved(s) == [task EXCEPT !.state = s, !.claim = None]
Gated == Moved("OWNER_GATE")                                    \* _owner_gate

(* Slip: the budget is compared with the retries before this one.          *)
ExhaustedLate(n, budget) == n > budget + 1
Exhausted(n, budget) == n > budget

SemanticFailed(role, stage, code) ==                            \* _semantic_fail
    LET fp  == <<stage, code>>
        rep == IF task.fp = fp THEN task.rep + 1 ELSE 1
    IN IF rep >= 2 \/ Exhausted(task.sem + 1, SemBudget) THEN Gated
       ELSE [Moved(FailState[role]) EXCEPT !.sem = @ + 1, !.fp = fp, !.rep = rep]

(* Slip: a step that may be repeated costs nothing.                        *)
TransientFree == Moved(task.state)
TransientFailed ==                                              \* _transient_fail
    IF Exhausted(task.trans + 1, TransBudget) THEN Gated
    ELSE [Moved(task.state) EXCEPT !.trans = @ + 1]

Passed(role) == [task EXCEPT !.state = PassState[role],
                             !.fp = IF role = "IMPLEMENT" THEN @ ELSE None,
                             !.rep = IF role = "IMPLEMENT" THEN @ ELSE 0]

(* Slip: the mechanical gate's verdict is not looked at.                  *)
JudgedLenient(role, out) ==
    IF out = "PASS" \/ role = "IMPLEMENT" THEN Passed(role)
    ELSE IF out \in Code THEN SemanticFailed(role, role, out) ELSE Gated
(* mechanical_gate asks for a fix whatever it misses; a review that is     *)
(* neither PASS nor FIX_REQUIRED, or not bound to the head, is the owner's.*)
Judged(role, out) ==
    IF out = "PASS" THEN Passed(role)
    ELSE IF role = "IMPLEMENT" THEN SemanticFailed(role, "MECH", out)
    ELSE IF out \in Code THEN SemanticFailed(role, role, out) ELSE Gated

-----------------------------------------------------------------------------
(* run_until_terminal and step.  At the ceiling the state is not looked    *)
(* at: a task that ended with the last step is handed to the owner.        *)

Call(o) ==
    /\ AtStep(o, "idle")
    /\ IF proc[o].steps = MaxSteps
         THEN task' = Gated /\ proc' = Raised(o)                \* ORCHESTRATOR_STEP_CEILING
         ELSE /\ task.state \notin Terminal
              /\ proc' = [proc EXCEPT ![o] = [proc[o] EXCEPT
                              !.pc = "begin", !.steps = proc[o].steps + 1, !.seen = task.state]]
              /\ UNCHANGED task
    /\ UNCHANGED <<fresh, asked, answer, crashes>>

(* The binding or the safety flags do not hold any more.                   *)
Unbound(o) ==                                                   \* _binding_and_safety
    /\ AtStep(o, "begin")
    /\ task' = Gated
    /\ proc' = Back(o)
    /\ UNCHANGED <<fresh, asked, answer, crashes>>

NextState(o) == IF proc[o].seen \in Entering THEN "IN_IMPLEMENT" ELSE task.state

Begin(o) ==
    /\ AtStep(o, "begin")
    /\ task' = [task EXCEPT !.state = NextState(o)]
    /\ proc' = [proc EXCEPT ![o].pc = "start"]
    /\ UNCHANGED <<fresh, asked, answer, crashes>>

FreshClaim(c) == c # task.claim /\ \A o \in Orch : proc[o].claim # c

(* Slip: the operation key leaves out the semantic generation.             *)
KeyWithoutGeneration(role) == [role |-> role, gen |-> 0]
KeyFor(role) == [role |-> role, gen |-> task.sem]

Start(o) ==                                                     \* start_step
    /\ AtStep(o, "start")
    /\ IF task.claim # None
         THEN proc' = Raised(o) /\ UNCHANGED <<task, fresh>>    \* ACTIVE_CLAIM_EXISTS
         ELSE LET c == CHOOSE d \in ClaimId : FreshClaim(d)
              IN /\ task' = [task EXCEPT !.claim = c]
                 /\ fresh' = TRUE
                 /\ proc' = [proc EXCEPT ![o] = [proc[o] EXCEPT
                                 !.pc = "ask", !.claim = c, !.key = KeyFor(RoleNow(o))]]
    /\ UNCHANGED <<asked, answer, crashes>>

Ask(o) ==                                                       \* RelayRoleWorker.run
    /\ AtStep(o, "ask")
    /\ Relay!Ask(proc[o].key)
    /\ proc' = [proc EXCEPT ![o].pc = "wait"]
    /\ UNCHANGED <<task, fresh, crashes>>

HeartbeatStep(o) ==                                             \* heartbeat
    /\ AtStep(o, "ask") \/ AtStep(o, "wait")
    /\ IF task.claim = proc[o].claim
         THEN fresh' = TRUE /\ UNCHANGED proc
         ELSE proc' = Raised(o) /\ UNCHANGED fresh              \* STALE_STEP_CLAIM
    /\ UNCHANGED <<task, asked, answer, crashes>>

Return(o) ==
    /\ AtStep(o, "wait")
    /\ answer[proc[o].key] # None
    /\ proc' = [proc EXCEPT ![o] = [proc[o] EXCEPT !.pc = "finish", !.out = answer[proc[o].key]]]
    /\ UNCHANGED <<task, fresh, asked, answer, crashes>>

NoResult(o) ==                                                  \* RELAY_RESULT_NOT_READY
    /\ AtStep(o, "wait")
    /\ task' = TransientFailed
    /\ proc' = Back(o)
    /\ UNCHANGED <<fresh, asked, answer, crashes>>

Timeout(o) ==                                                   \* WorkerTimeout
    /\ AtStep(o, "ask") \/ AtStep(o, "wait")
    /\ task' = SemanticFailed(RoleNow(o), RoleNow(o), "TIMEOUT")
    /\ proc' = Back(o)
    /\ UNCHANGED <<fresh, asked, answer, crashes>>

WorkerFails(o) ==                                               \* WorkerFailure
    /\ AtStep(o, "ask")
    /\ task' = Gated
    /\ proc' = Back(o)
    /\ UNCHANGED <<fresh, asked, answer, crashes>>

Finish(o) ==                                                    \* finish_step
    /\ AtStep(o, "finish")
    /\ IF task.claim = proc[o].claim
         THEN /\ task' = [task EXCEPT !.claim = None]
              /\ proc' = [proc EXCEPT ![o].pc = "judge"]
         ELSE proc' = Raised(o) /\ UNCHANGED task
    /\ UNCHANGED <<fresh, asked, answer, crashes>>

Judge(o) ==
    /\ AtStep(o, "judge")
    /\ task' = Judged(RoleNow(o), proc[o].out)
    /\ proc' = Back(o)
    /\ UNCHANGED <<fresh, asked, answer, crashes>>

-----------------------------------------------------------------------------
(* The owner's rollback, recovery, and what may happen. *)

(* Slip: any task may be rolled back.                                      *)
RollableAny == TRUE
Rollable == task.state \notin Terminal                          \* ROLLBACK_TERMINAL

RollbackRead(o) ==
    /\ AtStep(o, "idle") /\ Rollable
    /\ proc' = [proc EXCEPT ![o] = [Ready EXCEPT !.pc = "rollback"]]
    /\ UNCHANGED <<task, fresh, asked, answer, crashes>>

Rollback(o) ==                                                  \* rollback
    /\ AtStep(o, "rollback")
    /\ task' = Moved("ROLLED_BACK")
    /\ proc' = Back(o)
    /\ UNCHANGED <<fresh, asked, answer, crashes>>

(* Slip: a claim is never stale.                                           *)
StaleNever == FALSE
Stale == task.claim # None /\ ~fresh

RecoverRead(o) ==
    /\ AtStep(o, "idle") /\ Stale
    /\ proc' = [proc EXCEPT ![o] = [Ready EXCEPT !.pc = "recover"]]
    /\ UNCHANGED <<task, fresh, asked, answer, crashes>>

RecoverStale(o) ==                                              \* recover_stale
    /\ AtStep(o, "recover")
    /\ task' = [task EXCEPT !.claim = None]
    /\ proc' = Back(o)
    /\ UNCHANGED <<fresh, asked, answer, crashes>>

TimePasses == /\ task.claim # None /\ fresh
              /\ fresh' = FALSE
              /\ UNCHANGED <<task, proc, asked, answer, crashes>>

OrchCrash(o) ==
    /\ crashes < MaxCrash
    /\ crashes' = crashes + 1
    /\ ~AtStep(o, "idle")
    /\ proc' = Raised(o)
    /\ UNCHANGED <<task, fresh, asked, answer>>

(* The relay's workers answer.                                             *)
Answer == /\ \E k \in OperationKey, r \in Outcome : Relay!Answer(k, r)
          /\ UNCHANGED <<task, fresh, proc, crashes>>

StepOf(o) == \/ Begin(o) \/ Unbound(o) \/ Start(o) \/ Ask(o) \/ Return(o) \/ NoResult(o)
             \/ Timeout(o) \/ WorkerFails(o) \/ Finish(o) \/ Judge(o)
             \/ Rollback(o) \/ RecoverStale(o)

OrchNext ==
    \/ \E o \in Orch : \/ Call(o) \/ StepOf(o) \/ HeartbeatStep(o)
                       \/ RollbackRead(o) \/ RecoverRead(o) \/ OrchCrash(o)
    \/ TimePasses \/ Answer
    \/ task.state \in Terminal /\ UNCHANGED orchVars

OrchSpec == OrchInit /\ [][OrchNext]_orchVars

(* step is sequential code with a deadline on every wait; whoever runs the *)
(* orchestrator calls it, and recover_stale, again and again; claims age.  *)
OrchFairness ==
    /\ \A o \in Orch : /\ WF_orchVars(Call(o)) /\ WF_orchVars(StepOf(o))
                       /\ SF_orchVars(RecoverRead(o))
    /\ WF_orchVars(TimePasses)

OrchLiveSpec == OrchSpec /\ OrchFairness

-----------------------------------------------------------------------------
(* Properties. *)

(* Every variable has its type; the retries stay within their budgets, and *)
(* a failure is remembered as often as it was repeated.                    *)
OrchTypeOK ==
    /\ task \in [state : State, sem : 0..SemBudget, trans : 0..TransBudget, rep : 0..1,
                 fp : Fingerprint \cup {None}, claim : ClaimId \cup {None}]
    /\ task.rep = 0 <=> task.fp = None
    /\ fresh \in BOOLEAN
    /\ asked \subseteq OperationKey /\ answer \in [OperationKey -> Outcome \cup {None}]
    /\ proc \in [Orch -> [pc : Place, seen : State, key : OperationKey \cup {None},
                         claim : ClaimId \cup {None}, out : Outcome \cup {None},
                         steps : 0..MaxSteps]]
    /\ crashes \in 0..MaxCrash

PassedBy(role, g) == answer[[role |-> role, gen |-> g]] = "PASS"

(* Across crashes, replays, timeouts and late answers: a task is DONE only *)
(* when all three roles passed the work of its present generation.         *)
DoneReviewed ==
    task.state = "DONE" => \A role \in Role : PassedBy(role, task.sem)

(* No reviewer is asked about a generation that the role before it has not *)
(* passed.                                                                 *)
AskedInOrder ==
    \A k \in asked : /\ k.gen <= task.sem
                     /\ k.role = "LAB" => PassedBy("IMPLEMENT", k.gen)
                     /\ k.role = "AUDIT" => PassedBy("LAB", k.gen)

(* A task that has ended stays as it ended; where the steps are enough, as *)
(* they are with the ceiling the code has (50) and the most its budgets    *)
(* allow (12).                                                             *)
EnoughSteps == MaxSteps > 3 * (SemBudget + 1) + TransBudget
TerminalFinal == [][task.state \in Terminal => task' = task]_orchVars

(* The ceiling of run_until_terminal is never what ends a task: the two    *)
(* budgets do.                                                             *)
CeilingUnneeded == \A o \in Orch : proc[o].steps <= 3 * (SemBudget + 1) + TransBudget

(* The orchestrator (orchestrator_mvp_v2.py), across crashes, timeouts and *)
(* late answers: DONE only on three passes of the present generation, no   *)
(* reviewer asked before the one before it passed, and budgets that end a  *)
(* task before the ceiling of steps does.                                  *)
OrchestratorInvariant == OrchTypeOK /\ DoneReviewed /\ AskedInOrder /\ CeilingUnneeded

(* Whatever dies, and if no worker ever answers, the task ends.            *)
Terminates == <>(task.state \in Terminal)

(* What rollback asserts, ROLLBACK_TERMINAL: a task that has ended is not  *)
(* rolled back.                                                            *)
EndedNotRolledBack ==
    [][task.state \in Terminal /\ task' # task => task'.state # "ROLLED_BACK"]_orchVars
===============================================================================
