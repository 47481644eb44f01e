---------------------------- MODULE SharedTaskFlow ----------------------------
(***************************************************************************)
(* What the shared engine promises of a task, with no leases, workers or   *)
(* stores: implementation, lab and audit follow each other, each on the    *)
(* one result its provider gave for the present round, and a task is done  *)
(* only by the lab's and the auditor's PASS of that round.  A round starts *)
(* whenever implementation does.                                           *)
(***************************************************************************)
EXTENDS Naturals

CONSTANTS
    Task,
    MaxRound,       \* bound: implementation rounds of a task
    NoResult        \* a provider that has not answered

Role == {"IMPLEMENT", "LAB", "AUDIT"}
Verdict == {"PASS", "FIX_REQUIRED"}
Key == Task \X Role \X (1..MaxRound)

(* The state in which a role works, and where each verdict leads.          *)
StateOf(role) == CASE role = "IMPLEMENT" -> "IN_IMPLEMENT"
                   [] role = "LAB"       -> "IN_LAB"
                   [] role = "AUDIT"     -> "IN_AUDIT"
PassState(role) == CASE role = "IMPLEMENT" -> "IN_LAB"
                     [] role = "LAB"       -> "IN_AUDIT"
                     [] role = "AUDIT"     -> "DONE"
FixState(role) == IF role = "LAB" THEN "LAB_FIX_REQUIRED" ELSE "AUDIT_FIX_REQUIRED"
After(role, verdict) == IF verdict = "PASS" THEN PassState(role) ELSE FixState(role)

Startable == {"PENDING", "LAB_FIX_REQUIRED", "AUDIT_FIX_REQUIRED"}
Working   == {"IN_IMPLEMENT", "IN_LAB", "IN_AUDIT"}
Aside     == {"BLOCKED_TECHNICAL", "FAILED_CLOSED", "OWNER_GATE"}

VARIABLES
    stage,          \* stage[t]: the state of the task
    round,          \* round[t]: implementations started
    result          \* result[k]: what the provider answered for a role and round

flow == <<stage, round, result>>

Init == /\ stage = [t \in Task |-> "ABSENT"]
        /\ round = [t \in Task |-> 0]
        /\ result = [k \in Key |-> NoResult]

Submit(t) == /\ stage[t] = "ABSENT"
             /\ stage' = [stage EXCEPT ![t] = "PENDING"]
             /\ UNCHANGED <<round, result>>

Begin(t) == /\ stage[t] \in Startable
            /\ stage' = [stage EXCEPT ![t] = "IN_IMPLEMENT"]
            /\ round' = [round EXCEPT ![t] = @ + 1]
            /\ UNCHANGED result

Answer(k, verdict) == /\ result[k] = NoResult
                      /\ k[3] <= round[k[1]]
                      /\ k[2] = "IMPLEMENT" => verdict = "PASS"
                      /\ result' = [result EXCEPT ![k] = verdict]
                      /\ UNCHANGED <<stage, round>>

Advance(t, role) ==
    /\ stage[t] = StateOf(role)
    /\ result[<<t, role, round[t]>>] # NoResult
    /\ stage' = [stage EXCEPT ![t] = After(role, result[<<t, role, round[t]>>])]
    /\ UNCHANGED <<round, result>>

(* Blocking, closing or handing a task to the owner, and its return.       *)
SetAside(t, to) ==
    /\ to \in Aside
    /\ stage[t] \in Startable \cup Working \cup {"BLOCKED_TECHNICAL"}
    /\ stage' = [stage EXCEPT ![t] = to]
    /\ UNCHANGED <<round, result>>

Resume(t) == /\ stage[t] = "BLOCKED_TECHNICAL"
             /\ stage' = [stage EXCEPT ![t] = "PENDING"]
             /\ UNCHANGED <<round, result>>

Next == \/ \E t \in Task : Submit(t) \/ Begin(t) \/ Resume(t)
        \/ \E t \in Task, to \in Aside : SetAside(t, to)
        \/ \E t \in Task, role \in Role : Advance(t, role)
        \/ \E k \in Key, v \in Verdict : Answer(k, v)

Spec == Init /\ [][Next]_flow
===============================================================================
