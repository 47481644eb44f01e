--------------------------- MODULE SharedEngineProofs ---------------------------
(***************************************************************************)
(* The shared engine keeps SharedInvariant and RecordsKept and implements  *)
(* SharedTaskFlow, for any tasks, processes, workers, leases and bounds.   *)
(*                                                                         *)
(* The inductive invariant adds what makes a fence work: a task that is    *)
(* held has a generation, no generation is known to two processes, and the *)
(* round in the key of a call is the present one as long as the call has   *)
(* the task's generation (nobody else can have begun another since).       *)
(***************************************************************************)
EXTENDS SharedEngine, TLAPS

KeyedStep == {"state", "provide", "record", "read", "apply"}
KeyedCall == [step : KeyedStep, key : Key, generation : 1..MaxGeneration, verdict : Verdict \cup {Nil}]

Keyed(p) == call[p].step \in KeyedStep

(* Only a submitted task is held, and under a generation of its own.       *)
HeldSubmitted == \A t \in Task : task[t].claimed_by # Nil =>
                     task[t].generation > 0 /\ task[t].state \in State

TokensApart ==
    /\ \A p \in Process, t \in Task : token[p][t] <= task[t].generation
    /\ \A p, q \in Process, t \in Task :
           p # q /\ token[p][t] = token[q][t] => token[p][t] = 0

CallsFenced ==
    \A p \in Process :
        /\ call[p].step = "start" => call[p].generation = token[p][call[p].task]
        /\ Keyed(p) => /\ call[p].generation = token[p][TaskOf(p)]
                       /\ call[p].key[3] <= round[TaskOf(p)]
                       /\ task[TaskOf(p)].generation = call[p].generation
                              => call[p].key[3] = round[TaskOf(p)]

AnswersStored ==
    /\ \A k \in Key : executions[k] = IF provided[k] = Nil THEN 0 ELSE 1
    /\ \A k \in Key : recorded[k] # Nil => recorded[k] = provided[k]
    /\ \A k \in Key : k[2] = "IMPLEMENT" => provided[k] \in {Nil, "PASS"}
    /\ \A p \in Process : call[p].step \in {"record", "read", "apply"} =>
           call[p].verdict \in Verdict /\ call[p].verdict = provided[KeyOf(p)]

IInv == TypeOK /\ NoOrphan /\ HeldSubmitted /\ TokensApart /\ CallsFenced /\ AnswersStored

-----------------------------------------------------------------------------
(* The records and the table of transitions.                               *)

(* What a call is, by the step it has reached.                             *)
LEMMA CallKinds ==
    ASSUME NEW c \in Call
    PROVE  /\ c = Idle <=> c.step = "idle"
           /\ c.step = "start" => c.task \in Task /\ c.generation \in 1..MaxGeneration
           /\ c.step \in KeyedStep => c \in KeyedCall
           /\ c.step \in KeyedStep \cup {"idle", "start"}
  BY DEF Call, Idle, KeyedStep, KeyedCall

(* A call that goes on keeps its arguments.                                *)
LEMMA CallGoesOn ==
    ASSUME NEW c \in KeyedCall, NEW s \in KeyedStep, NEW v \in Verdict
    PROVE  /\ [c EXCEPT !.step = s] \in KeyedCall
           /\ [c EXCEPT !.step = s].step = s
           /\ [c EXCEPT !.step = s].key = c.key
           /\ [c EXCEPT !.step = s].generation = c.generation
           /\ [c EXCEPT !.step = s].verdict = c.verdict
           /\ [c EXCEPT !.step = s, !.verdict = v] \in KeyedCall
           /\ [c EXCEPT !.step = s, !.verdict = v].step = s
           /\ [c EXCEPT !.step = s, !.verdict = v].key = c.key
           /\ [c EXCEPT !.step = s, !.verdict = v].generation = c.generation
           /\ [c EXCEPT !.step = s, !.verdict = v].verdict = v
  BY DEF KeyedCall

(* The states there are.                                                   *)
LEMMA States ==
    State = {"PENDING", "IN_IMPLEMENT", "IN_LAB", "LAB_FIX_REQUIRED", "IN_AUDIT",
             "AUDIT_FIX_REQUIRED", "BLOCKED_TECHNICAL", "FAILED_CLOSED", "OWNER_GATE",
             "DONE", "ROLLED_BACK"}
  BY DEF State, ALLOWED_TRANSITIONS

(* From where each target can be reached.                                  *)
LEMMA TransitionTable ==
    ASSUME NEW s \in State, NEW to \in ALLOWED_TRANSITIONS[s]
    PROVE  /\ to \in State
           /\ to = "PENDING" => s = "BLOCKED_TECHNICAL"
           /\ to = "IN_IMPLEMENT" => s \in {"PENDING", "LAB_FIX_REQUIRED", "AUDIT_FIX_REQUIRED"}
           /\ to = "IN_LAB" => s = "IN_IMPLEMENT"
           /\ to \in {"IN_AUDIT", "LAB_FIX_REQUIRED"} => s = "IN_LAB"
           /\ to \in {"DONE", "AUDIT_FIX_REQUIRED"} => s = "IN_AUDIT"
           /\ s \in {"PENDING", "IN_IMPLEMENT", "IN_LAB", "LAB_FIX_REQUIRED", "IN_AUDIT",
                     "AUDIT_FIX_REQUIRED", "BLOCKED_TECHNICAL"}
  <1>1. CASE s = "PENDING"
    BY <1>1, States DEF ALLOWED_TRANSITIONS
  <1>2. CASE s = "IN_IMPLEMENT"
    BY <1>2, States DEF ALLOWED_TRANSITIONS
  <1>3. CASE s = "IN_LAB"
    BY <1>3, States DEF ALLOWED_TRANSITIONS
  <1>4. CASE s = "LAB_FIX_REQUIRED"
    BY <1>4, States DEF ALLOWED_TRANSITIONS
  <1>5. CASE s = "IN_AUDIT"
    BY <1>5, States DEF ALLOWED_TRANSITIONS
  <1>6. CASE s = "AUDIT_FIX_REQUIRED"
    BY <1>6, States DEF ALLOWED_TRANSITIONS
  <1>7. CASE s = "BLOCKED_TECHNICAL"
    BY <1>7, States DEF ALLOWED_TRANSITIONS
  <1>8. CASE s \in {"FAILED_CLOSED", "OWNER_GATE", "DONE", "ROLLED_BACK"}
    BY <1>8, States DEF ALLOWED_TRANSITIONS
  <1> QED
    BY <1>1, <1>2, <1>3, <1>4, <1>5, <1>6, <1>7, <1>8, States

-----------------------------------------------------------------------------
(* Steps that are common to several actions.                               *)

(* What the fields of a task and a token are.                              *)
LEMMA TaskFields ==
    ASSUME TypeOK, NEW t \in Task
    PROVE  /\ task[t] \in TaskRecord
           /\ task[t].generation \in 0..MaxGeneration /\ task[t].generation \in Nat
           /\ task[t].claimed_by \in Worker \cup {Nil}
           /\ task[t].state \in State \cup {"ABSENT"}
           /\ task[t].left \in Int
           /\ round[t] \in Nat
           /\ \A p \in Process : token[p][t] \in Nat
  BY SharedEngineAssumption DEF TypeOK, TaskRecord

(* The records that a renewal and a transition leave.                      *)
LEMMA LeaseRecord ==
    ASSUME NEW r \in TaskRecord, NEW n \in -1..LeaseSeconds
    PROVE  /\ [r EXCEPT !.left = n] \in TaskRecord
           /\ [r EXCEPT !.left = n].claimed_by = r.claimed_by
           /\ [r EXCEPT !.left = n].generation = r.generation
           /\ [r EXCEPT !.left = n].state = r.state
  BY DEF TaskRecord

LEMMA MovedRecord ==
    ASSUME NEW r \in TaskRecord, NEW s \in State
    PROVE  /\ [r EXCEPT !.state = s] \in TaskRecord
           /\ [r EXCEPT !.state = s].claimed_by = r.claimed_by
           /\ [r EXCEPT !.state = s].generation = r.generation
           /\ [r EXCEPT !.state = s].state = s
           /\ -1 \in -1..LeaseSeconds =>
                 /\ [r EXCEPT !.state = s, !.claimed_by = Nil, !.left = -1] \in TaskRecord
                 /\ [r EXCEPT !.state = s, !.claimed_by = Nil, !.left = -1].claimed_by = Nil
                 /\ [r EXCEPT !.state = s, !.claimed_by = Nil, !.left = -1].generation = r.generation
                 /\ [r EXCEPT !.state = s, !.claimed_by = Nil, !.left = -1].state = s
  BY DEF TaskRecord

(* A claim grants the generation after every one that was ever granted: it *)
(* is new to all processes, and no call under way has it.                  *)
LEMMA ClaimKeeps ==
    ASSUME IInv, NEW p \in Process, NEW t \in Task, Claim(t, p), task[t].state \in State,
           call[p] = Idle, UNCHANGED <<round, stores>>,
           call' = call \/ call' = [call EXCEPT ![p] = [step |-> "start", task |-> t,
                                                       generation |-> task'[t].generation]]
    PROVE  /\ IInv'
           /\ \A u \in Task : task'[u].state = task[u].state
           /\ \A u \in Task : u # t => task'[u] = task[u]
  <1> DEFINE g == task[t].generation + 1
             y == [task[t] EXCEPT !.claimed_by = WorkerOf[p], !.left = LeaseSeconds, !.generation = g]
  <1>1. TypeOK /\ task[t] \in TaskRecord /\ task[t].generation \in Nat /\ task[t].generation < MaxGeneration
    BY TaskFields DEF IInv, Claim
  <1>2. g \in 0..MaxGeneration /\ g \in 1..MaxGeneration /\ g > task[t].generation
    BY <1>1, SharedEngineAssumption
  <1>3. task' = [task EXCEPT ![t] = y] /\ task' = [task EXCEPT ![t] = Grant(t, p)]
    BY DEF Claim, Grant
  <1>4. task \in [Task -> TaskRecord] /\ token \in [Process -> [Task -> 0..MaxGeneration]]
    BY <1>1 DEF TypeOK
  <1>5. WorkerOf[p] \in Worker /\ WorkerOf[p] # Nil
    BY SharedEngineAssumption
  <1> HIDE DEF g
  <1>6. /\ y \in TaskRecord /\ y.claimed_by = WorkerOf[p] /\ y.generation = g
        /\ y.state = task[t].state
    <2>1. LeaseSeconds \in -1..LeaseSeconds /\ WorkerOf[p] \in Worker \cup {Nil}
      BY <1>5, SharedEngineAssumption
    <2> DEFINE r == task[t]
               w == WorkerOf[p]
    <2>2. r \in TaskRecord /\ w \in Worker \cup {Nil} /\ g \in 0..MaxGeneration
      BY <2>1, <1>1, <1>2
    <2>3. y = [r EXCEPT !.claimed_by = w, !.left = LeaseSeconds, !.generation = g]
      OBVIOUS
    <2> HIDE DEF r, w
    <2>4. /\ [r EXCEPT !.claimed_by = w, !.left = LeaseSeconds, !.generation = g] \in TaskRecord
          /\ [r EXCEPT !.claimed_by = w, !.left = LeaseSeconds, !.generation = g].claimed_by = w
          /\ [r EXCEPT !.claimed_by = w, !.left = LeaseSeconds, !.generation = g].generation = g
          /\ [r EXCEPT !.claimed_by = w, !.left = LeaseSeconds, !.generation = g].state = r.state
      BY <2>1, <2>2 DEF TaskRecord
    <2> HIDE DEF y
    <2> QED
      BY <2>3, <2>4 DEF r, w
  <1> HIDE DEF y
  <1>7. /\ task' \in [Task -> TaskRecord]
        /\ task'[t] = y
        /\ \A u \in Task : u # t => task'[u] = task[u]
    BY <1>3, <1>4, <1>6
  <1>8. token' = [token EXCEPT ![p][t] = g]
    BY <1>6, <1>7 DEF Claim
  <1>9. /\ token' \in [Process -> [Task -> 0..MaxGeneration]]
        /\ token'[p][t] = g
        /\ \A q \in Process, u \in Task : q # p \/ u # t => token'[q][u] = token[q][u]
    BY <1>2, <1>4, <1>8
  <1>10. \A u \in Task : task'[u].state = task[u].state
    BY <1>6, <1>7
  <1>11. call' \in [Process -> Call] /\ \A q \in Process : q # p => call'[q] = call[q]
    BY <1>1, <1>2, <1>6, <1>7 DEF TypeOK, Call
  <1>12. TypeOK'
    BY <1>1, <1>7, <1>9, <1>11 DEF TypeOK, stores
  <1>13. NoOrphan'
    BY <1>5, <1>6, <1>7, <1>10 DEF IInv, NoOrphan
  <1>14. HeldSubmitted'
    BY <1>2, <1>6, <1>7, <1>10 DEF IInv, HeldSubmitted
  <1>15. TokensApart'
    <2>1. \A q \in Process, u \in Task : token[q][u] <= task[u].generation /\ token[q][u] \in Nat
      BY <1>1, TaskFields DEF IInv, TokensApart
    <2>2. \A q \in Process : token[q][t] # g
      BY <1>1, <1>2, <2>1
    <2>3. \A q \in Process, u \in Task : token'[q][u] <= task'[u].generation
      BY <1>1, <1>2, <1>6, <1>7, <1>9, <2>1
    <2> QED
      BY <1>2, <1>9, <2>2, <2>3 DEF IInv, TokensApart
  <1>16. CallsFenced'
    <2> SUFFICES ASSUME NEW q \in Process
                 PROVE  /\ call'[q].step = "start" => call'[q].generation = token'[q][call'[q].task]
                        /\ Keyed(q)' => /\ call'[q].generation = token'[q][TaskOf(q)']
                                        /\ call'[q].key[3] <= round'[TaskOf(q)']
                                        /\ task'[TaskOf(q)'].generation = call'[q].generation
                                               => call'[q].key[3] = round'[TaskOf(q)']
      BY DEF CallsFenced
    <2>1. CASE q = p
      <3>1. call'[p] = Idle \/ call'[p] = [step |-> "start", task |-> t, generation |-> task'[t].generation]
        BY <1>1 DEF TypeOK
      <3> QED
        BY <2>1, <3>1, <1>6, <1>7, <1>9 DEF Idle, Keyed, KeyedStep
    <2>2. CASE q # p
      <3>1. call'[q] = call[q] /\ call[q] \in Call
        BY <2>2, <1>1, <1>11 DEF TypeOK
      <3>2. CASE call[q].step = "start"
        <4>1. call[q].task \in Task
          BY <3>1, <3>2, CallKinds
        <4> QED
          BY <2>2, <3>1, <3>2, <4>1, <1>9 DEF IInv, CallsFenced, Keyed, KeyedStep
      <3>3. CASE Keyed(q)
        <4>1. call[q] \in KeyedCall /\ TaskOf(q) \in Task
          BY <3>1, <3>3, CallKinds DEF Keyed, KeyedCall, Key, TaskOf
        <4>2. call[q].generation <= task[TaskOf(q)].generation /\ call[q].generation \in Nat
          BY <3>3, <4>1, <1>1, TaskFields DEF IInv, CallsFenced, TokensApart, KeyedCall
        <4>3. task'[TaskOf(q)].generation = call[q].generation => TaskOf(q) # t
          BY <4>2, <1>1, <1>2, <1>6, <1>7
        <4> QED
          BY <2>2, <3>1, <3>3, <4>1, <4>3, <1>7, <1>9 DEF IInv, CallsFenced, Keyed, KeyedStep, TaskOf, stores
      <3> QED
        BY <3>1, <3>2, <3>3 DEF Keyed
    <2> QED
      BY <2>1, <2>2
  <1>17. AnswersStored'
    <2> SUFFICES ASSUME NEW q \in Process, call'[q].step \in {"record", "read", "apply"}
                 PROVE  call'[q].verdict \in Verdict /\ call'[q].verdict = provided'[KeyOf(q)']
      BY DEF IInv, AnswersStored, stores
    <2>1. call'[q] = call[q]
      BY <1>1, <1>11 DEF TypeOK, Idle
    <2> QED
      BY <2>1 DEF IInv, AnswersStored, stores, KeyOf
  <1> QED
    BY <1>7, <1>10, <1>12, <1>13, <1>14, <1>15, <1>16, <1>17 DEF IInv

(* A transition is made by the one process that knows the generation, and  *)
(* its call ends with it: a round begins with no other call of the present *)
(* generation under way, and a task is let go only where that is safe.     *)
LEMMA TransitionKeeps ==
    ASSUME IInv, NEW p \in Process, NEW t \in Task, NEW to, NEW release \in BOOLEAN,
           Transition(t, p, token[p][t], to, release), UNCHANGED <<stores, token>>,
           call' = [call EXCEPT ![p] = Idle]
    PROVE  /\ IInv'
           /\ task[t].state \in State /\ to \in ALLOWED_TRANSITIONS[task[t].state]
           /\ task'[t].state = to /\ task'[t].generation = task[t].generation
           /\ \A u \in Task : u # t => task'[u] = task[u]
           /\ round' = [round EXCEPT ![t] = IF to = "IN_IMPLEMENT" THEN @ + 1 ELSE @]
  <1> DEFINE r == task[t]
             g == token[p][t]
             n == IF to = "IN_IMPLEMENT" THEN round[t] + 1 ELSE round[t]
             y == IF release THEN [r EXCEPT !.state = to, !.claimed_by = Nil, !.left = -1]
                             ELSE [r EXCEPT !.state = to]
  <1>1. TypeOK /\ NoOrphan /\ HeldSubmitted /\ TokensApart /\ CallsFenced /\ AnswersStored
    BY DEF IInv
  <1>2. /\ r \in TaskRecord /\ r.claimed_by # Nil /\ r.generation = g
        /\ r.generation \in Nat /\ g > 0 /\ r.state \in State
    BY <1>1, TaskFields, SharedEngineAssumption DEF Transition, TransitionOK, Owns, HeldSubmitted
  <1>3. to \in ALLOWED_TRANSITIONS[r.state] /\ to \in State
    BY <1>2, TransitionTable DEF Transition, TransitionOK
  <1>4. release => to \in RELEASE_SAFE_STATES
    BY DEF Transition, TransitionOK, Releasable
  <1>5. task' = [task EXCEPT ![t] = y] /\ task \in [Task -> TaskRecord]
    BY <1>1 DEF Transition, Moved, TypeOK
  <1>6. /\ round \in [Task -> 0..MaxRound] /\ round[t] \in Nat
        /\ to = "IN_IMPLEMENT" => round[t] < MaxRound
        /\ round' = [round EXCEPT ![t] = n]
    BY <1>1, TaskFields DEF Transition, TypeOK
  <1>7. n \in 0..MaxRound /\ round[t] <= n
    BY <1>6, SharedEngineAssumption
  <1> HIDE DEF n, r
  <1>8. /\ y \in TaskRecord /\ y.state = to /\ y.generation = r.generation
        /\ y.claimed_by = IF release THEN Nil ELSE r.claimed_by
    <2>1. -1 \in -1..LeaseSeconds
      BY SharedEngineAssumption
    <2> QED
      BY <1>2, <1>3, <2>1 DEF TaskRecord
  <1> HIDE DEF y, g
  <1>9. /\ task' \in [Task -> TaskRecord] /\ task'[t] = y
        /\ \A u \in Task : u # t => task'[u] = task[u]
    BY <1>5, <1>8
  <1>10. /\ round' \in [Task -> 0..MaxRound] /\ round'[t] = n
         /\ \A u \in Task : u # t => round'[u] = round[u]
    BY <1>6, <1>7
  <1>11. /\ call' \in [Process -> Call] /\ call'[p] = Idle
         /\ \A q \in Process : q # p => call'[q] = call[q]
    BY <1>1 DEF TypeOK, Call
  <1>12. TypeOK'
    BY <1>1, <1>9, <1>10, <1>11 DEF TypeOK, stores
  <1>13. NoOrphan'
    <2>1. release => to \notin RECOVERABLE_ACTIVE_STATES
      BY <1>4 DEF RELEASE_SAFE_STATES, RECOVERABLE_ACTIVE_STATES
    <2> QED
      BY <1>1, <1>2, <1>8, <1>9, <2>1 DEF NoOrphan
  <1>14. HeldSubmitted'
    BY <1>1, <1>2, <1>3, <1>8, <1>9 DEF HeldSubmitted
  <1>15. \A u \in Task : task'[u].generation = task[u].generation
    BY <1>8, <1>9 DEF r
  <1>16. TokensApart'
    BY <1>1, <1>15 DEF TokensApart
  <1>17. CallsFenced'
    <2> SUFFICES ASSUME NEW q \in Process
                 PROVE  /\ call'[q].step = "start" => call'[q].generation = token'[q][call'[q].task]
                        /\ Keyed(q)' => /\ call'[q].generation = token'[q][TaskOf(q)']
                                        /\ call'[q].key[3] <= round'[TaskOf(q)']
                                        /\ task'[TaskOf(q)'].generation = call'[q].generation
                                               => call'[q].key[3] = round'[TaskOf(q)']
      BY DEF CallsFenced
    <2>1. CASE q = p
      BY <2>1, <1>11 DEF Idle, Keyed, KeyedStep
    <2>2. CASE q # p
      <3>1. call'[q] = call[q] /\ call[q] \in Call
        BY <2>2, <1>1, <1>11 DEF TypeOK
      <3>2. CASE ~ Keyed(q)
        BY <3>1, <3>2, <1>1 DEF CallsFenced, Keyed
      <3>3. CASE Keyed(q)
        <4>1. /\ call[q] \in KeyedCall /\ TaskOf(q) \in Task
              /\ call[q].generation \in Nat \ {0} /\ call[q].key[3] \in Nat
          BY <3>1, <3>3, CallKinds, SharedEngineAssumption DEF Keyed, KeyedCall, Key, TaskOf
        <4>2. /\ call[q].generation = token[q][TaskOf(q)]
              /\ call[q].key[3] <= round[TaskOf(q)]
              /\ task[TaskOf(q)].generation = call[q].generation
                     => call[q].key[3] = round[TaskOf(q)]
          BY <3>3, <1>1 DEF CallsFenced
        <4>3. call[q].step # "start" /\ TaskOf(q)' = TaskOf(q)
          BY <3>1, <3>3 DEF Keyed, KeyedStep, TaskOf
        <4>4. CASE TaskOf(q) = t
          <5>1. task[t].generation # call[q].generation
            BY <2>2, <4>1, <4>2, <4>4, <1>1, <1>2 DEF TokensApart, r, g
          <5>2. call[q].key[3] <= n
            BY <4>1, <4>2, <4>4, <1>6, <1>7
          <5> QED
            BY <3>1, <4>2, <4>3, <4>4, <5>1, <5>2, <1>10, <1>15
        <4>5. CASE TaskOf(q) # t
          BY <3>1, <4>1, <4>2, <4>3, <4>5, <1>9, <1>10
        <4> QED
          BY <4>4, <4>5
      <3> QED
        BY <3>2, <3>3
    <2> QED
      BY <2>1, <2>2
  <1>18. AnswersStored'
    <2> SUFFICES ASSUME NEW q \in Process, call'[q].step \in {"record", "read", "apply"}
                 PROVE  call'[q].verdict \in Verdict /\ call'[q].verdict = provided'[KeyOf(q)']
      BY <1>1 DEF AnswersStored, stores
    <2>1. call'[q] = call[q]
      BY <1>11 DEF Idle
    <2> QED
      BY <1>1, <2>1 DEF AnswersStored, stores, KeyOf
  <1> QED
    BY <1>2, <1>3, <1>6, <1>8, <1>9, <1>12, <1>13, <1>14, <1>16, <1>17, <1>18 DEF IInv, n, r

(* A step that changes one call only: it ends, begins with the fence, or   *)
(* goes on with the same key and generation.                               *)
LEMMA CallStepKeeps ==
    ASSUME IInv, NEW p \in Process, NEW c \in Call, call' = [call EXCEPT ![p] = c],
           UNCHANGED <<task, round, token>>,
           \/ c = Idle
           \/ /\ c.step \in KeyedStep
              /\ c.generation = token[p][c.key[1]]
              /\ c.key[3] <= round[c.key[1]]
              /\ task[c.key[1]].generation = c.generation => c.key[3] = round[c.key[1]]
    PROVE  /\ NoOrphan' /\ HeldSubmitted' /\ TokensApart' /\ CallsFenced'
           /\ call' \in [Process -> Call] /\ call'[p] = c
           /\ \A q \in Process : q # p => call'[q] = call[q]
  <1>1. /\ call' \in [Process -> Call] /\ call'[p] = c
        /\ \A q \in Process : q # p => call'[q] = call[q]
    BY DEF IInv, TypeOK
  <1>2. NoOrphan' /\ HeldSubmitted' /\ TokensApart'
    BY DEF IInv, NoOrphan, HeldSubmitted, TokensApart
  <1>3. CallsFenced'
    <2> SUFFICES ASSUME NEW q \in Process
                 PROVE  /\ call'[q].step = "start" => call'[q].generation = token[q][call'[q].task]
                        /\ Keyed(q)' => /\ call'[q].generation = token[q][TaskOf(q)']
                                        /\ call'[q].key[3] <= round[TaskOf(q)']
                                        /\ task[TaskOf(q)'].generation = call'[q].generation
                                               => call'[q].key[3] = round[TaskOf(q)']
      BY DEF CallsFenced
    <2>1. CASE q # p
      BY <2>1, <1>1 DEF IInv, CallsFenced, Keyed, TaskOf
    <2>2. CASE q = p
      BY <2>2, <1>1 DEF Idle, Keyed, KeyedStep, TaskOf
    <2> QED
      BY <2>1, <2>2
  <1> QED
    BY <1>1, <1>2, <1>3

(* The call of p when it is in the middle of a role.                       *)
LEMMA CallUnderWay ==
    ASSUME IInv, NEW p \in Process, Keyed(p)
    PROVE  /\ call[p] \in KeyedCall /\ KeyOf(p) \in Key /\ KeyOf(p) = call[p].key
           /\ TaskOf(p) \in Task /\ RoleOf(p) \in Role /\ KeyOf(p)[3] \in 1..MaxRound
           /\ KeyOf(p) = <<TaskOf(p), RoleOf(p), KeyOf(p)[3]>>
           /\ call[p].generation = token[p][call[p].key[1]]
           /\ call[p].key[3] <= round[call[p].key[1]]
           /\ task[call[p].key[1]].generation = call[p].generation
                  => call[p].key[3] = round[call[p].key[1]]
  <1>1. call[p] \in KeyedCall
    BY CallKinds DEF IInv, TypeOK, Keyed
  <1> QED
    BY <1>1 DEF IInv, CallsFenced, KeyedCall, Key, KeyOf, TaskOf, RoleOf

LEMMA KeyedCallsAreCalls == KeyedCall \subseteq Call
  BY DEF KeyedCall, KeyedStep, Call

LEMMA SubmitKeeps == ASSUME IInv, NEW t \in Task, Submit(t) PROVE IInv'
  <1> DEFINE y == [Absent EXCEPT !.state = "PENDING"]
  <1>1. y = [state |-> "PENDING", claimed_by |-> Nil, generation |-> 0, left |-> -1]
    BY DEF Absent
  <1>2. task[t].generation = 0 /\ task[t].claimed_by = Nil
    BY DEF Submit, Absent
  <1>3. task' = [task EXCEPT ![t] = y] /\ task \in [Task -> TaskRecord]
    BY DEF Submit, IInv, TypeOK
  <1>4. y \in TaskRecord /\ y.state = "PENDING" /\ y.claimed_by = Nil /\ y.generation = 0
    BY <1>1, States, SharedEngineAssumption DEF TaskRecord
  <1> HIDE DEF y
  <1>5. task' \in [Task -> TaskRecord] /\ task'[t] = y /\ \A u \in Task : u # t => task'[u] = task[u]
    BY <1>3, <1>4
  <1>6. UNCHANGED <<round, stores, token, call>>
    BY DEF Submit
  <1>7. TypeOK'
    BY <1>5, <1>6 DEF IInv, TypeOK, stores
  <1>8. NoOrphan' /\ HeldSubmitted'
    BY <1>4, <1>5 DEF IInv, NoOrphan, HeldSubmitted, RECOVERABLE_ACTIVE_STATES
  <1>9. \A u \in Task : task'[u].generation = task[u].generation
    BY <1>2, <1>4, <1>5
  <1>10. TokensApart' /\ AnswersStored'
    BY <1>6, <1>9 DEF IInv, TokensApart, AnswersStored, stores, KeyOf
  <1>11. CallsFenced'
    <2> SUFFICES ASSUME NEW q \in Process
                 PROVE  /\ call[q].step = "start" => call[q].generation = token[q][call[q].task]
                        /\ Keyed(q) => /\ call[q].generation = token[q][TaskOf(q)]
                                       /\ call[q].key[3] <= round[TaskOf(q)]
                                       /\ task'[TaskOf(q)].generation = call[q].generation
                                              => call[q].key[3] = round[TaskOf(q)]
      BY <1>6 DEF CallsFenced, Keyed, TaskOf
    <2>1. Keyed(q) => TaskOf(q) \in Task
      BY CallUnderWay
    <2> QED
      BY <1>9, <2>1 DEF IInv, CallsFenced
  <1> QED
    BY <1>7, <1>8, <1>10, <1>11 DEF IInv

(* A renewal and the clock change no more than what is left of leases.     *)
LEMMA LeasesOnlyKeeps ==
    ASSUME IInv, UNCHANGED <<round, stores, token, call>>, task' \in [Task -> TaskRecord],
           \A u \in Task : /\ task'[u].state = task[u].state
                           /\ task'[u].claimed_by = task[u].claimed_by
                           /\ task'[u].generation = task[u].generation
    PROVE  IInv'
  <1>1. TypeOK'
    BY DEF IInv, TypeOK, stores
  <1>2. NoOrphan' /\ HeldSubmitted'
    BY DEF IInv, NoOrphan, HeldSubmitted
  <1>3. TokensApart' /\ AnswersStored'
    BY DEF IInv, TokensApart, AnswersStored, stores, KeyOf
  <1>4. CallsFenced'
    <2> SUFFICES ASSUME NEW q \in Process
                 PROVE  /\ call[q].step = "start" => call[q].generation = token[q][call[q].task]
                        /\ Keyed(q) => /\ call[q].generation = token[q][TaskOf(q)]
                                       /\ call[q].key[3] <= round[TaskOf(q)]
                                       /\ task'[TaskOf(q)].generation = call[q].generation
                                              => call[q].key[3] = round[TaskOf(q)]
      BY DEF CallsFenced, Keyed, TaskOf
    <2>1. Keyed(q) => TaskOf(q) \in Task
      BY CallUnderWay
    <2> QED
      BY <2>1 DEF IInv, CallsFenced
  <1> QED
    BY <1>1, <1>2, <1>3, <1>4 DEF IInv

LEMMA RenewKeeps == ASSUME IInv, NEW p \in Process, NEW t \in Task, Renew(p, t) PROVE IInv'
  <1> DEFINE r == task[t]
  <1>1. task \in [Task -> TaskRecord] /\ r \in TaskRecord /\ LeaseSeconds \in -1..LeaseSeconds
    BY SharedEngineAssumption DEF IInv, TypeOK
  <1>2. task' = [task EXCEPT ![t] = [r EXCEPT !.left = LeaseSeconds]]
    BY DEF Renew, Renewed
  <1>3. /\ [r EXCEPT !.left = LeaseSeconds] \in TaskRecord
        /\ [r EXCEPT !.left = LeaseSeconds].state = r.state
        /\ [r EXCEPT !.left = LeaseSeconds].claimed_by = r.claimed_by
        /\ [r EXCEPT !.left = LeaseSeconds].generation = r.generation
    BY <1>1, LeaseRecord
  <1> QED
    BY <1>1, <1>2, <1>3, LeasesOnlyKeeps DEF Renew

LEMMA TimePassesKeeps == ASSUME IInv, TimePasses PROVE IInv'
  <1> SUFFICES ASSUME NEW u \in Task
               PROVE  /\ task'[u] \in TaskRecord /\ task'[u].state = task[u].state
                      /\ task'[u].claimed_by = task[u].claimed_by
                      /\ task'[u].generation = task[u].generation
    BY LeasesOnlyKeeps DEF TimePasses
  <1> DEFINE r == task[u]
             n == IF r.left >= 0 THEN r.left - 1 ELSE r.left
  <1>1. r \in TaskRecord /\ n \in -1..LeaseSeconds
    BY SharedEngineAssumption DEF IInv, TypeOK, TaskRecord
  <1>2. task'[u] = [r EXCEPT !.left = n]
    BY DEF TimePasses
  <1> HIDE DEF n
  <1> QED
    BY <1>1, <1>2, LeaseRecord

(* A role starts under the present fence, for the present round.           *)
LEMMA ExecuteRoleKeeps ==
    ASSUME IInv, NEW p \in Process, NEW t \in Task, NEW role \in Role, ExecuteRole(p, t, role)
    PROVE  IInv'
  <1> DEFINE c == [step |-> "state", key |-> <<t, role, round[t]>>,
                   generation |-> token[p][t], verdict |-> Nil]
  <1>1. round[t] \in 1..MaxRound
    BY SharedEngineAssumption DEF ExecuteRole, IInv, TypeOK
  <1>2. token[p][t] = task[t].generation /\ token[p][t] \in 1..MaxGeneration
    <2>1. task[t].generation \in 0..MaxGeneration
      BY TaskFields DEF IInv
    <2>2. token[p][t] = task[t].generation /\ task[t].claimed_by # Nil
      BY SharedEngineAssumption DEF ExecuteRole, Owns
    <2> QED
      BY <2>1, <2>2, SharedEngineAssumption DEF IInv, HeldSubmitted
  <1>3. c \in KeyedCall /\ c \in Call
    BY <1>1, <1>2, KeyedCallsAreCalls DEF KeyedCall, KeyedStep, Key
  <1>4. /\ c.step = "state" /\ c.generation = token[p][c.key[1]] /\ c.key[3] = round[c.key[1]]
        /\ c.step \in KeyedStep
    BY DEF KeyedStep
  <1>5. call' = [call EXCEPT ![p] = c] /\ UNCHANGED <<task, round, stores, token>>
    BY DEF ExecuteRole
  <1>6. c.key[3] <= round[c.key[1]]
    BY <1>1, <1>4
  <1> HIDE DEF c
  <1>7. /\ NoOrphan' /\ HeldSubmitted' /\ TokensApart' /\ CallsFenced'
        /\ call' \in [Process -> Call] /\ call'[p] = c
        /\ \A q \in Process : q # p => call'[q] = call[q]
    BY <1>3, <1>4, <1>5, <1>6, CallStepKeeps
  <1>8. TypeOK'
    BY <1>5, <1>7 DEF IInv, TypeOK, stores
  <1>9. AnswersStored'
    BY <1>4, <1>5, <1>7 DEF IInv, AnswersStored, stores, KeyOf
  <1> QED
    BY <1>7, <1>8, <1>9 DEF IInv

(* A call goes on with the receipt v, by a step after which the provider's *)
(* store has the receipt.                                                  *)
LEMMA GoOnKeeps ==
    ASSUME IInv, NEW p \in Process, Keyed(p), NEW s \in KeyedStep,
           NEW c \in KeyedCall, c.step = s, c.key = call[p].key, c.generation = call[p].generation,
           call' = [call EXCEPT ![p] = c],
           UNCHANGED <<task, round, token>>,
           provided' \in [Key -> Verdict \cup {Nil}], executions' \in [Key -> Nat],
           recorded' \in [Key -> Verdict \cup {Nil}],
           \A k \in Key : executions'[k] = IF provided'[k] = Nil THEN 0 ELSE 1,
           \A k \in Key : recorded'[k] # Nil => recorded'[k] = provided'[k],
           \A k \in Key : provided[k] # Nil => provided'[k] = provided[k],
           \A k \in Key : k[2] = "IMPLEMENT" => provided'[k] \in {Nil, "PASS"},
           s \in {"record", "read", "apply"} =>
               c.verdict \in Verdict /\ c.verdict = provided'[KeyOf(p)]
    PROVE  IInv'
  <1>1. /\ c.generation = token[p][c.key[1]] /\ c.key[3] <= round[c.key[1]]
        /\ task[c.key[1]].generation = c.generation => c.key[3] = round[c.key[1]]
        /\ c \in Call
    BY CallUnderWay, KeyedCallsAreCalls
  <1>2. /\ NoOrphan' /\ HeldSubmitted' /\ TokensApart' /\ CallsFenced'
        /\ call' \in [Process -> Call] /\ call'[p] = c
        /\ \A q \in Process : q # p => call'[q] = call[q]
    BY <1>1, CallStepKeeps
  <1>3. TypeOK'
    BY <1>2 DEF IInv, TypeOK
  <1>4. AnswersStored'
    <2> SUFFICES ASSUME NEW q \in Process, call'[q].step \in {"record", "read", "apply"}
                 PROVE  call'[q].verdict \in Verdict /\ call'[q].verdict = provided'[KeyOf(q)']
      BY DEF AnswersStored
    <2>1. CASE q = p
      BY <2>1, <1>2 DEF KeyOf
    <2>2. CASE q # p
      <3>1. /\ call'[q] = call[q]
            /\ call[q].verdict \in Verdict /\ call[q].verdict = provided[KeyOf(q)]
        BY <2>2, <1>2 DEF IInv, AnswersStored
      <3>2. KeyOf(q) \in Key
        BY <3>1, CallUnderWay DEF Keyed, KeyedStep
      <3>3. provided[KeyOf(q)] # Nil
        BY <3>1, SharedEngineAssumption DEF Verdict
      <3> QED
        BY <3>1, <3>2, <3>3 DEF KeyOf
    <2> QED
      BY <2>1, <2>2
  <1> QED
    BY <1>2, <1>3, <1>4 DEF IInv

LEMMA CheckStateKeeps == ASSUME IInv, NEW p \in Process, CheckState(p) PROVE IInv'
  <1> DEFINE c == [call[p] EXCEPT !.step = "provide"]
  <1>1. Keyed(p) /\ "provide" \in KeyedStep
    BY DEF CheckState, Keyed, KeyedStep
  <1>2. call[p] \in KeyedCall
    BY <1>1, CallUnderWay
  <1>3. /\ c \in KeyedCall /\ c.step = "provide" /\ c.key = call[p].key
        /\ c.generation = call[p].generation
    BY <1>2 DEF KeyedCall, KeyedStep
  <1>4. call' = [call EXCEPT ![p] = c] /\ UNCHANGED <<task, round, stores, token>>
    BY DEF CheckState, Goto
  <1> HIDE DEF c
  <1> QED
    BY <1>1, <1>3, <1>4, GoOnKeeps DEF IInv, TypeOK, AnswersStored, stores

LEMMA ReadKeeps == ASSUME IInv, NEW p \in Process, Read(p) PROVE IInv'
  <1> DEFINE c == [call[p] EXCEPT !.step = "apply"]
  <1>1. Keyed(p) /\ "apply" \in KeyedStep
    BY DEF Read, Keyed, KeyedStep
  <1>2. call[p] \in KeyedCall
    BY <1>1, CallUnderWay
  <1>3. /\ c \in KeyedCall /\ c.step = "apply" /\ c.key = call[p].key
        /\ c.generation = call[p].generation /\ c.verdict = call[p].verdict
    BY <1>2 DEF KeyedCall, KeyedStep
  <1>4. call' = [call EXCEPT ![p] = c] /\ UNCHANGED <<task, round, stores, token>>
    BY DEF Read, Goto
  <1>5. c.verdict \in Verdict /\ c.verdict = provided[KeyOf(p)]
    BY <1>3 DEF Read, IInv, AnswersStored
  <1> HIDE DEF c
  <1> QED
    BY <1>1, <1>3, <1>4, <1>5, GoOnKeeps DEF IInv, TypeOK, AnswersStored, stores

LEMMA RecordKeeps == ASSUME IInv, NEW p \in Process, Record(p) PROVE IInv'
  <1> DEFINE c == [call[p] EXCEPT !.step = "read"]
             k == KeyOf(p)
             v == call[p].verdict
  <1>1. Keyed(p) /\ "read" \in KeyedStep
    BY DEF Record, Keyed, KeyedStep
  <1>2. call[p] \in KeyedCall /\ k \in Key
    BY <1>1, CallUnderWay
  <1>3. /\ c \in KeyedCall /\ c.step = "read" /\ c.key = call[p].key
        /\ c.generation = call[p].generation /\ c.verdict = v
    BY <1>2 DEF KeyedCall, KeyedStep
  <1>4. /\ call' = [call EXCEPT ![p] = c] /\ UNCHANGED <<task, round, provided, executions, token>>
        /\ recorded' = [recorded EXCEPT ![k] = v]
    BY DEF Record, Goto
  <1>5. v \in Verdict /\ v = provided[k]
    BY DEF Record, IInv, AnswersStored
  <1> HIDE DEF c, k, v
  <1>6. recorded' \in [Key -> Verdict \cup {Nil}]
    BY <1>2, <1>4, <1>5 DEF IInv, TypeOK
  <1>7. \A j \in Key : recorded'[j] # Nil => recorded'[j] = provided'[j]
    BY <1>2, <1>4, <1>5 DEF IInv, TypeOK, AnswersStored
  <1>8. c.verdict = provided'[KeyOf(p)]
    BY <1>3, <1>4, <1>5 DEF k
  <1> QED
    BY <1>1, <1>3, <1>4, <1>5, <1>6, <1>7, <1>8, GoOnKeeps DEF IInv, TypeOK, AnswersStored

(* The provider's transaction: its store has the answer, and it was given  *)
(* by the one execution.                                                   *)
LEMMA ProvideKeeps ==
    ASSUME IInv, NEW p \in Process, Provide(p)
    PROVE  /\ IInv'
           /\ \A k \in Key : provided[k] # Nil => provided'[k] = provided[k]
           /\ KeyOf(p) \in Key /\ KeyOf(p)[3] <= round[KeyOf(p)[1]]
           /\ \/ provided' = provided
              \/ \E v \in Verdict : /\ provided[KeyOf(p)] = Nil
                                    /\ KeyOf(p)[2] = "IMPLEMENT" => v = "PASS"
                                    /\ provided' = [provided EXCEPT ![KeyOf(p)] = v]
  <1> DEFINE k == KeyOf(p)
  <1>1. PICK v \in Verdict : /\ RoleOf(p) = "IMPLEMENT" => v = "PASS"
                             /\ ExecuteLocalOnce(k, v)
                             /\ call' = [call EXCEPT ![p].step = "record", ![p].verdict = v]
    BY DEF Provide
  <1> DEFINE c == [call[p] EXCEPT !.step = "record", !.verdict = v]
  <1>2. Keyed(p) /\ "record" \in KeyedStep /\ v # Nil
    BY SharedEngineAssumption DEF Provide, Keyed, KeyedStep, Verdict
  <1>3. /\ call[p] \in KeyedCall /\ k \in Key /\ k[3] <= round[k[1]] /\ RoleOf(p) = k[2]
        /\ call \in [Process -> Call]
    BY <1>2, CallUnderWay DEF RoleOf, KeyOf, IInv, TypeOK
  <1>4. /\ c \in KeyedCall /\ c.step = "record" /\ c.key = call[p].key
        /\ c.generation = call[p].generation /\ c.verdict = v
    <2> DEFINE d == call[p]
    <2>1. d \in KeyedCall
      BY <1>3
    <2> HIDE DEF d
    <2>2. LET e == [d EXCEPT !.step = "record", !.verdict = v]
          IN /\ e \in KeyedCall /\ e.step = "record" /\ e.key = d.key
             /\ e.generation = d.generation /\ e.verdict = v
      BY <2>1 DEF KeyedCall, KeyedStep
    <2> QED
      BY <2>2 DEF d
  <1>5. call' = [call EXCEPT ![p] = c]
    BY <1>1, <1>3
  <1>6. UNCHANGED <<task, round, recorded, token>>
    BY DEF Provide
  <1> HIDE DEF c, k
  <1>7. /\ provided' \in [Key -> Verdict \cup {Nil}] /\ executions' \in [Key -> Nat]
        /\ \A j \in Key : executions'[j] = IF provided'[j] = Nil THEN 0 ELSE 1
        /\ \A j \in Key : provided[j] # Nil => provided'[j] = provided[j]
        /\ \A j \in Key : j[2] = "IMPLEMENT" => provided'[j] \in {Nil, "PASS"}
        /\ provided'[k] = v
        /\ provided' = provided \/ (provided[k] = Nil /\ provided' = [provided EXCEPT ![k] = v])
    <2>1. CASE provided[k] # Nil
      BY <2>1, <1>1, <1>2, <1>3 DEF ExecuteLocalOnce, IInv, TypeOK, AnswersStored
    <2>2. CASE provided[k] = Nil
      <3>1. /\ provided' = [provided EXCEPT ![k] = v]
            /\ executions' = [executions EXCEPT ![k] = executions[k] + 1]
        BY <2>2, <1>1 DEF ExecuteLocalOnce
      <3>2. /\ provided \in [Key -> Verdict \cup {Nil}] /\ executions \in [Key -> Nat]
            /\ \A j \in Key : executions[j] = IF provided[j] = Nil THEN 0 ELSE 1
            /\ \A j \in Key : j[2] = "IMPLEMENT" => provided[j] \in {Nil, "PASS"}
        BY DEF IInv, TypeOK, AnswersStored
      <3>3. executions[k] + 1 = 1
        BY <2>2, <1>3, <3>2
      <3>4. /\ provided' \in [Key -> Verdict \cup {Nil}] /\ provided'[k] = v
            /\ \A j \in Key : j # k => provided'[j] = provided[j]
        BY <1>3, <3>1, <3>2
      <3>5. /\ executions' \in [Key -> Nat] /\ executions'[k] = 1
            /\ \A j \in Key : j # k => executions'[j] = executions[j]
        BY <1>3, <3>1, <3>2, <3>3
      <3> QED
        BY <2>2, <1>1, <1>2, <1>3, <3>1, <3>2, <3>4, <3>5
    <2> QED
      BY <2>1, <2>2
  <1>8. \A j \in Key : recorded'[j] # Nil => recorded'[j] = provided'[j]
    BY <1>6, <1>7 DEF IInv, AnswersStored
  <1>9. c.verdict = provided'[KeyOf(p)]
    BY <1>4, <1>7 DEF k
  <1>10. recorded' \in [Key -> Verdict \cup {Nil}]
    BY <1>6 DEF IInv, TypeOK
  <1>11. IInv'
    BY <1>2, <1>4, <1>5, <1>6, <1>7, <1>8, <1>9, <1>10, GoOnKeeps
  <1> QED
    BY <1>1, <1>3, <1>7, <1>11 DEF k

(* A call that ends leaves its receipts; a process that dies forgets the   *)
(* generations it was given.                                               *)
LEMMA RaiseKeeps == ASSUME IInv, NEW p \in Process, Raise(p) PROVE IInv'
  <1>1. call' = [call EXCEPT ![p] = Idle] /\ UNCHANGED <<task, round, stores, token>> /\ Idle \in Call
    BY DEF Raise, Call
  <1>2. /\ NoOrphan' /\ HeldSubmitted' /\ TokensApart' /\ CallsFenced'
        /\ call' \in [Process -> Call] /\ call'[p] = Idle
        /\ \A q \in Process : q # p => call'[q] = call[q]
    BY <1>1, CallStepKeeps
  <1>3. TypeOK'
    BY <1>1, <1>2 DEF IInv, TypeOK, stores
  <1>4. AnswersStored'
    BY <1>1, <1>2 DEF IInv, AnswersStored, stores, KeyOf, Idle
  <1> QED
    BY <1>2, <1>3, <1>4 DEF IInv

LEMMA CrashKeeps == ASSUME IInv, NEW p \in Process, Crash(p) PROVE IInv'
  <1> DEFINE none == [t \in Task |-> 0]
  <1>1. /\ UNCHANGED <<task, round, stores>>
        /\ call' = [call EXCEPT ![p] = Idle] /\ token' = [token EXCEPT ![p] = none]
        /\ call \in [Process -> Call] /\ token \in [Process -> [Task -> 0..MaxGeneration]]
    BY DEF Crash, IInv, TypeOK
  <1>2. none \in [Task -> 0..MaxGeneration] /\ \A t \in Task : none[t] = 0
    BY SharedEngineAssumption
  <1> HIDE DEF none
  <1>3. /\ call' \in [Process -> Call] /\ call'[p] = Idle
        /\ \A q \in Process : q # p => call'[q] = call[q]
    BY <1>1 DEF Call
  <1>4. /\ token' \in [Process -> [Task -> 0..MaxGeneration]] /\ token'[p] = none
        /\ \A q \in Process : q # p => token'[q] = token[q]
    BY <1>1, <1>2
  <1>5. TypeOK' /\ NoOrphan' /\ HeldSubmitted'
    BY <1>1, <1>3, <1>4 DEF IInv, TypeOK, stores, NoOrphan, HeldSubmitted
  <1>6. TokensApart'
    <2>1. \A q \in Process, t \in Task : token[q][t] <= task[t].generation
      BY DEF IInv, TokensApart
    <2>2. \A t \in Task : 0 <= task[t].generation
      BY TaskFields DEF IInv
    <2>3. \A q \in Process, t \in Task : token'[q][t] <= task'[t].generation
      BY <1>1, <1>2, <1>4, <2>1, <2>2
    <2>4. \A q, r \in Process, t \in Task :
             q # r /\ token'[q][t] = token'[r][t] => token'[q][t] = 0
      <3> SUFFICES ASSUME NEW q \in Process, NEW r \in Process, NEW t \in Task,
                          q # r, token'[q][t] = token'[r][t]
                   PROVE  token'[q][t] = 0
        OBVIOUS
      <3>1. CASE q = p \/ r = p
        BY <3>1, <1>2, <1>4
      <3>2. CASE q # p /\ r # p
        BY <3>2, <1>4 DEF IInv, TokensApart
      <3> QED
        BY <3>1, <3>2
    <2> QED
      BY <2>3, <2>4 DEF TokensApart
  <1>7. CallsFenced'
    <2> SUFFICES ASSUME NEW q \in Process
                 PROVE  /\ call'[q].step = "start" => call'[q].generation = token'[q][call'[q].task]
                        /\ Keyed(q)' => /\ call'[q].generation = token'[q][TaskOf(q)']
                                        /\ call'[q].key[3] <= round[TaskOf(q)']
                                        /\ task[TaskOf(q)'].generation = call'[q].generation
                                               => call'[q].key[3] = round[TaskOf(q)']
      BY <1>1 DEF CallsFenced
    <2>1. CASE q = p
      BY <2>1, <1>3 DEF Idle, Keyed, KeyedStep
    <2>2. CASE q # p
      BY <2>2, <1>3, <1>4 DEF IInv, CallsFenced, Keyed, TaskOf
    <2> QED
      BY <2>1, <2>2
  <1>8. AnswersStored'
    BY <1>1, <1>3 DEF IInv, AnswersStored, stores, KeyOf, Idle
  <1> QED
    BY <1>5, <1>6, <1>7, <1>8 DEF IInv

-----------------------------------------------------------------------------
(* The invariant holds initially and every step keeps it.                  *)

LEMMA InitIInv == Init => IInv
  <1> SUFFICES ASSUME Init PROVE IInv
    OBVIOUS
  <1>1. Absent \in TaskRecord /\ Absent.claimed_by = Nil /\ Absent.generation = 0
        /\ Absent.state = "ABSENT"
    BY SharedEngineAssumption DEF Absent, TaskRecord
  <1>2. TypeOK
    BY <1>1, SharedEngineAssumption DEF Init, TypeOK, Call
  <1>3. NoOrphan /\ HeldSubmitted
    BY <1>1 DEF Init, NoOrphan, HeldSubmitted, RECOVERABLE_ACTIVE_STATES
  <1>4. TokensApart
    BY <1>1 DEF Init, TokensApart
  <1>5. CallsFenced
    BY DEF Init, CallsFenced, Keyed, KeyedStep, Idle
  <1>6. AnswersStored
    BY DEF Init, AnswersStored, Idle
  <1> QED
    BY <1>2, <1>3, <1>4, <1>5, <1>6 DEF IInv

(* A claim is granted only where nobody's lease runs.                      *)
LEMMA ClaimedIsFree ==
    ASSUME IInv, NEW p \in Process, NEW t \in Task,
           Claimable(t) \/ (task[t].state \in RECOVERABLE_ACTIVE_STATES /\ Expired(t))
    PROVE  /\ task[t].state \in State
           /\ task[t].claimed_by # Nil => ~Live(t)
  <1>1. task[t].left \in Int
    BY TaskFields DEF IInv
  <1> QED
    BY <1>1, States DEF Claimable, Expired, Live, RECOVERABLE_ACTIVE_STATES

LEMMA ClaimNextKeeps ==
    ASSUME IInv, NEW p \in Process, ClaimNext(p)
    PROVE  /\ IInv'
           /\ \A u \in Task : /\ task'[u].state = task[u].state
                              /\ task'[u].generation # task[u].generation /\ task[u].claimed_by # Nil
                                     => ~Live(u)
  <1>1. PICK t \in Task : Claimable(t) /\ Claim(t, p)
    BY DEF ClaimNext
  <1>2. task[t].state \in State /\ (task[t].claimed_by # Nil => ~Live(t))
    BY <1>1, ClaimedIsFree
  <1> QED
    BY <1>1, <1>2, ClaimKeeps DEF ClaimNext

LEMMA ReclaimKeeps ==
    ASSUME IInv, NEW p \in Process, NEW t \in Task, Reclaim(p, t)
    PROVE  /\ IInv'
           /\ \A u \in Task : /\ task'[u].state = task[u].state
                              /\ task'[u].generation # task[u].generation /\ task[u].claimed_by # Nil
                                     => ~Live(u)
  <1>1. task[t].state \in State /\ (task[t].claimed_by # Nil => ~Live(t))
    BY ClaimedIsFree DEF Reclaim
  <1> QED
    BY <1>1, ClaimKeeps DEF Reclaim

LEMMA ClaimTaskKeeps ==
    ASSUME IInv, NEW p \in Process, NEW t \in Task, ClaimTask(p, t)
    PROVE  /\ IInv'
           /\ \A u \in Task : /\ task'[u].state = task[u].state
                              /\ task'[u].generation # task[u].generation /\ task[u].claimed_by # Nil
                                     => ~Live(u)
  <1>1. task[t].state \in State /\ (task[t].claimed_by # Nil => ~Live(t))
    BY ClaimedIsFree DEF ClaimTask
  <1> QED
    BY <1>1, ClaimKeeps DEF ClaimTask

-----------------------------------------------------------------------------
(* What each step is for the flow of the tasks.                            *)

Stage == [t \in Task |-> task[t].state]

LEMMA StageUnmoved ==
    ASSUME \A u \in Task : task'[u].state = task[u].state
    PROVE  Stage' = Stage
  BY DEF Stage

LEMMA StageMoved ==
    ASSUME NEW t \in Task, NEW to, task'[t].state = to,
           \A u \in Task : u # t => task'[u] = task[u]
    PROVE  Stage' = [Stage EXCEPT ![t] = to]
  BY DEF Stage

(* A worker's own transition begins a round, sets the task aside, or takes *)
(* it up again.                                                            *)
LEMMA MoveFlows ==
    ASSUME IInv, NEW p \in Process, NEW t \in Task, NEW release \in BOOLEAN,
           NEW to \in {"IN_IMPLEMENT", "BLOCKED_TECHNICAL", "PENDING", "FAILED_CLOSED", "OWNER_GATE"},
           Transition(t, p, token[p][t], to, release), UNCHANGED <<stores, token>>,
           call' = [call EXCEPT ![p] = Idle]
    PROVE  IInv' /\ Flow!Next /\ \A u \in Task : task'[u].generation = task[u].generation
  <1>1. /\ IInv'
        /\ task[t].state \in State /\ to \in ALLOWED_TRANSITIONS[task[t].state]
        /\ task'[t].state = to /\ task'[t].generation = task[t].generation
        /\ \A u \in Task : u # t => task'[u] = task[u]
        /\ round' = [round EXCEPT ![t] = IF to = "IN_IMPLEMENT" THEN @ + 1 ELSE @]
    BY TransitionKeeps
  <1>2. /\ Stage' = [Stage EXCEPT ![t] = to] /\ Stage[t] = task[t].state
        /\ provided' = provided /\ round \in [Task -> 0..MaxRound]
    BY <1>1, StageMoved DEF Stage, stores, IInv, TypeOK
  <1>3. CASE to = "IN_IMPLEMENT"
    <2>1. Stage[t] \in Flow!Startable
      BY <1>1, <1>2, <1>3, TransitionTable DEF Flow!Startable
    <2>2. Flow!Begin(t)
      BY <1>1, <1>2, <1>3, <2>1 DEF Flow!Begin, Stage
    <2> QED
      BY <1>1, <2>2 DEF Flow!Next
  <1>4. CASE to = "PENDING"
    <2>1. Stage[t] = "BLOCKED_TECHNICAL"
      BY <1>1, <1>2, <1>4, TransitionTable
    <2>2. Flow!Resume(t)
      BY <1>1, <1>2, <1>4, <2>1 DEF Flow!Resume, Stage
    <2> QED
      BY <1>1, <2>2 DEF Flow!Next
  <1>5. CASE to \in {"BLOCKED_TECHNICAL", "FAILED_CLOSED", "OWNER_GATE"}
    <2>1. Stage[t] \in Flow!Startable \cup Flow!Working \cup {"BLOCKED_TECHNICAL"}
      BY <1>1, <1>2, TransitionTable DEF Flow!Startable, Flow!Working
    <2>2. round' = round
      BY <1>1, <1>2, <1>5
    <2>3. to \in Flow!Aside /\ Flow!SetAside(t, to)
      BY <1>2, <1>5, <2>1, <2>2 DEF Flow!SetAside, Flow!Aside, Stage
    <2> QED
      BY <1>1, <2>3 DEF Flow!Next
  <1> QED
    BY <1>3, <1>4, <1>5

LEMMA MoveKeeps ==
    ASSUME IInv, NEW p \in Process, NEW t \in Task, NEW to \in State, NEW release \in BOOLEAN,
           Move(p, t, to, release)
    PROVE  IInv' /\ Flow!Next /\ \A u \in Task : task'[u].generation = task[u].generation
  <1>1. call' = [call EXCEPT ![p] = Idle]
    BY DEF Move, IInv, TypeOK
  <1>2. /\ to \in {"IN_IMPLEMENT", "BLOCKED_TECHNICAL", "PENDING", "FAILED_CLOSED", "OWNER_GATE"}
        /\ UNCHANGED <<stores, token>>
    BY DEF Move
  <1>3. Transition(t, p, token[p][t], to, release)
    BY DEF Move
  <1> QED
    BY <1>1, <1>2, <1>3, MoveFlows

LEMMA StartKeeps ==
    ASSUME IInv, NEW p \in Process, Start(p)
    PROVE  IInv' /\ Flow!Next /\ \A u \in Task : task'[u].generation = task[u].generation
  <1>1. call[p].task \in Task /\ call[p].generation = token[p][call[p].task]
    BY CallKinds DEF Start, IInv, TypeOK, CallsFenced
  <1> QED
    BY <1>1, MoveFlows DEF Start

(* The verdict of the present round moves the task where the flow has it.  *)
LEMMA VerdictFlows ==
    ASSUME IInv, NEW p \in Process, NEW t \in Task, NEW role \in Role, NEW v \in Verdict,
           role = "IMPLEMENT" => v = "PASS", v = provided[<<t, role, round[t]>>],
           Transition(t, p, token[p][t], Target(role, v), Target(role, v) = "DONE"),
           UNCHANGED <<stores, token>>, call' = [call EXCEPT ![p] = Idle]
    PROVE  IInv' /\ Flow!Next /\ \A u \in Task : task'[u].generation = task[u].generation
  <1> DEFINE to == Target(role, v)
  <1>1. /\ IInv'
        /\ task[t].state \in State /\ to \in ALLOWED_TRANSITIONS[task[t].state]
        /\ task'[t].state = to /\ task'[t].generation = task[t].generation
        /\ \A u \in Task : u # t => task'[u] = task[u]
        /\ round' = [round EXCEPT ![t] = IF to = "IN_IMPLEMENT" THEN @ + 1 ELSE @]
    BY TransitionKeeps, (to = "DONE") \in BOOLEAN
  <1>2. /\ to = IF v = "PASS" THEN Flow!PassState(role) ELSE Flow!FixState(role)
        /\ to \in {"IN_LAB", "IN_AUDIT", "LAB_FIX_REQUIRED", "DONE", "AUDIT_FIX_REQUIRED"}
        /\ role = "IMPLEMENT" => to = "IN_LAB"
        /\ role = "LAB" => to \in {"IN_AUDIT", "LAB_FIX_REQUIRED"}
        /\ role = "AUDIT" => to \in {"DONE", "AUDIT_FIX_REQUIRED"}
    BY DEF Target, Verdict, Role, ROLE_NEXT_STATE, Flow!PassState, Flow!FixState
  <1> HIDE DEF to
  <1>3. task[t].state = Flow!StateOf(role)
    BY <1>1, <1>2, TransitionTable DEF Role, Flow!StateOf
  <1>4. Stage' = [Stage EXCEPT ![t] = to] /\ Stage[t] = task[t].state /\ provided' = provided
    BY <1>1, StageMoved DEF Stage, stores
  <1>5. round' = round
    BY <1>1, <1>2 DEF IInv, TypeOK
  <1>6. v # Nil
    BY SharedEngineAssumption DEF Verdict
  <1>7. Flow!Advance(t, role)
    BY <1>2, <1>3, <1>4, <1>5, <1>6 DEF Flow!Advance, Flow!After, Stage
  <1>8. Flow!Next
    BY <1>7 DEF Flow!Next, Role, Flow!Role
  <1> QED
    BY <1>1, <1>8

(* A receipt is applied under the generation its round was begun with: it  *)
(* is the answer for the present round.                                    *)
LEMMA ApplyKeeps ==
    ASSUME IInv, NEW p \in Process, Apply(p)
    PROVE  IInv' /\ Flow!Next /\ \A u \in Task : task'[u].generation = task[u].generation
  <1>1. Keyed(p)
    BY DEF Apply, Keyed, KeyedStep
  <1>2. /\ TaskOf(p) \in Task /\ RoleOf(p) \in Role /\ KeyOf(p) \in Key
        /\ KeyOf(p) = <<TaskOf(p), RoleOf(p), KeyOf(p)[3]>>
        /\ call[p].generation = token[p][TaskOf(p)]
        /\ task[TaskOf(p)].generation = call[p].generation => KeyOf(p)[3] = round[TaskOf(p)]
    BY <1>1, CallUnderWay DEF TaskOf, KeyOf
  <1>3. call[p].verdict \in Verdict /\ call[p].verdict = provided[KeyOf(p)]
    BY DEF Apply, IInv, AnswersStored
  <1>4. RoleOf(p) = "IMPLEMENT" => call[p].verdict = "PASS"
    <2>1. call[p].verdict # Nil /\ KeyOf(p)[2] = RoleOf(p)
      BY <1>3, SharedEngineAssumption DEF Verdict, KeyOf, RoleOf
    <2> QED
      BY <1>2, <1>3, <2>1 DEF IInv, AnswersStored
  <1>5. /\ Transition(TaskOf(p), p, token[p][TaskOf(p)], Target(RoleOf(p), call[p].verdict),
                      Target(RoleOf(p), call[p].verdict) = "DONE")
        /\ UNCHANGED <<stores, token>> /\ call' = [call EXCEPT ![p] = Idle]
    BY <1>2 DEF Apply
  <1>6. KeyOf(p) = <<TaskOf(p), RoleOf(p), round[TaskOf(p)]>>
    BY <1>2, <1>5 DEF Transition, TransitionOK, Owns
  <1> QED
    BY <1>2, <1>3, <1>4, <1>5, <1>6, VerdictFlows

LEMMA SubmitFlows == ASSUME IInv, NEW t \in Task, Submit(t) PROVE Flow!Next
  <1>1. task[t].state = "ABSENT" /\ task \in [Task -> TaskRecord]
    BY DEF Submit, Absent, IInv, TypeOK
  <1>2. task'[t].state = "PENDING" /\ \A u \in Task : u # t => task'[u] = task[u]
    BY <1>1 DEF Submit, Absent
  <1>3. Stage' = [Stage EXCEPT ![t] = "PENDING"] /\ UNCHANGED <<round, provided>>
    BY <1>2, StageMoved DEF Submit, stores
  <1>4. Flow!Submit(t)
    BY <1>1, <1>3 DEF Flow!Submit, Stage
  <1> QED
    BY <1>4 DEF Flow!Next

LEMMA ProvideFlows == ASSUME IInv, NEW p \in Process, Provide(p) PROVE [Flow!Next]_(Flow!flow)
  <1>1. /\ KeyOf(p) \in Key /\ KeyOf(p)[3] <= round[KeyOf(p)[1]]
        /\ \/ provided' = provided
           \/ \E v \in Verdict : /\ provided[KeyOf(p)] = Nil
                                 /\ KeyOf(p)[2] = "IMPLEMENT" => v = "PASS"
                                 /\ provided' = [provided EXCEPT ![KeyOf(p)] = v]
    BY ProvideKeeps
  <1>2. task' = task /\ round' = round
    BY DEF Provide
  <1>3. CASE provided' = provided
    BY <1>2, <1>3 DEF Flow!flow
  <1>4. CASE \E v \in Verdict : /\ provided[KeyOf(p)] = Nil
                                /\ KeyOf(p)[2] = "IMPLEMENT" => v = "PASS"
                                /\ provided' = [provided EXCEPT ![KeyOf(p)] = v]
    <2>1. PICK v \in Verdict : /\ provided[KeyOf(p)] = Nil
                               /\ KeyOf(p)[2] = "IMPLEMENT" => v = "PASS"
                               /\ provided' = [provided EXCEPT ![KeyOf(p)] = v]
      BY <1>4
    <2>2. Flow!Answer(KeyOf(p), v)
      BY <1>1, <1>2, <2>1 DEF Flow!Answer
    <2>3. KeyOf(p) \in Flow!Key /\ v \in Flow!Verdict
      BY <1>1 DEF Key, Role, Verdict, Flow!Key, Flow!Role, Flow!Verdict
    <2> QED
      BY <2>2, <2>3 DEF Flow!Next
  <1> QED
    BY <1>1, <1>3, <1>4

(* No more than what a step says of the invariant, of claims, of receipts  *)
(* and of the flow.                                                        *)
StepKept ==
    /\ IInv'
    /\ \A u \in Task : task'[u].generation # task[u].generation /\ task[u].claimed_by # Nil
                           => ~Live(u)
    /\ \A k \in Key : provided[k] # Nil => provided'[k] = provided[k]
    /\ [Flow!Next]_(Flow!flow)

LEMMA Step == ASSUME IInv, [Next]_vars PROVE StepKept
  <1>1. CASE TimePasses
    <2>1. \A u \in Task : task'[u].state = task[u].state /\ task'[u].generation = task[u].generation
      BY <1>1 DEF TimePasses, IInv, TypeOK, TaskRecord
    <2>2. Stage' = Stage
      BY <2>1, StageUnmoved
    <2> QED
      BY <1>1, <2>1, <2>2, TimePassesKeeps DEF StepKept, TimePasses, stores, Stage, Flow!flow
  <1>2. ASSUME NEW t \in Task, Submit(t) PROVE StepKept
    <2>1. \A u \in Task : task[u].claimed_by # Nil => task'[u].generation = task[u].generation
      BY <1>2 DEF Submit, Absent, IInv, TypeOK
    <2> QED
      BY <1>2, <2>1, SubmitKeeps, SubmitFlows DEF StepKept, Submit, stores
  <1>3. ASSUME NEW p \in Process, ClaimNext(p) PROVE StepKept
    <2>1. Stage' = Stage
      BY <1>3, ClaimNextKeeps, StageUnmoved
    <2> QED
      BY <1>3, <2>1, ClaimNextKeeps DEF StepKept, ClaimNext, stores, Stage, Flow!flow
  <1>4. ASSUME NEW p \in Process, NEW t \in Task, Reclaim(p, t) PROVE StepKept
    <2>1. Stage' = Stage
      BY <1>4, ReclaimKeeps, StageUnmoved
    <2> QED
      BY <1>4, <2>1, ReclaimKeeps DEF StepKept, Reclaim, stores, Stage, Flow!flow
  <1>5. ASSUME NEW p \in Process, NEW t \in Task, ClaimTask(p, t) PROVE StepKept
    <2>1. Stage' = Stage
      BY <1>5, ClaimTaskKeeps, StageUnmoved
    <2> QED
      BY <1>5, <2>1, ClaimTaskKeeps DEF StepKept, ClaimTask, stores, Stage, Flow!flow
  <1>6. ASSUME NEW p \in Process, NEW t \in Task, Renew(p, t) PROVE StepKept
    <2>1. \A u \in Task : task'[u].state = task[u].state /\ task'[u].generation = task[u].generation
      BY <1>6 DEF Renew, IInv, TypeOK, TaskRecord
    <2>2. Stage' = Stage
      BY <2>1, StageUnmoved
    <2> QED
      BY <1>6, <2>1, <2>2, RenewKeeps DEF StepKept, Renew, stores, Stage, Flow!flow
  <1>7. ASSUME NEW p \in Process, NEW t \in Task, NEW to \in State, NEW release \in BOOLEAN,
               Move(p, t, to, release)
        PROVE  StepKept
    BY <1>7, MoveKeeps DEF StepKept, Move, stores
  <1>8. ASSUME NEW p \in Process, Start(p) PROVE StepKept
    BY <1>8, StartKeeps DEF StepKept, Start, stores
  <1>9. ASSUME NEW p \in Process, NEW t \in Task, NEW role \in Role, ExecuteRole(p, t, role)
        PROVE  StepKept
    BY <1>9, ExecuteRoleKeeps DEF StepKept, ExecuteRole, stores, Flow!flow
  <1>10. ASSUME NEW p \in Process, CheckState(p) PROVE StepKept
    BY <1>10, CheckStateKeeps DEF StepKept, CheckState, stores, Flow!flow
  <1>11. ASSUME NEW p \in Process, Provide(p) PROVE StepKept
    BY <1>11, ProvideKeeps, ProvideFlows DEF StepKept, Provide
  <1>12. ASSUME NEW p \in Process, Record(p) PROVE StepKept
    BY <1>12, RecordKeeps DEF StepKept, Record, Flow!flow
  <1>13. ASSUME NEW p \in Process, Read(p) PROVE StepKept
    BY <1>13, ReadKeeps DEF StepKept, Read, stores, Flow!flow
  <1>14. ASSUME NEW p \in Process, Apply(p) PROVE StepKept
    BY <1>14, ApplyKeeps DEF StepKept, Apply, stores
  <1>15. ASSUME NEW p \in Process, Raise(p) PROVE StepKept
    BY <1>15, RaiseKeeps DEF StepKept, Raise, stores, Flow!flow
  <1>16. ASSUME NEW p \in Process, Crash(p) PROVE StepKept
    BY <1>16, CrashKeeps DEF StepKept, Crash, stores, Flow!flow
  <1>17. CASE UNCHANGED vars
    <2>1. UNCHANGED <<task, round, stores, token, call>>
      BY <1>17 DEF vars, stores
    <2>2. IInv'
      BY <2>1, LeasesOnlyKeeps DEF IInv, TypeOK
    <2> QED
      BY <2>1, <2>2 DEF StepKept, stores, Flow!flow
  <1> QED
    BY <1>1, <1>2, <1>3, <1>4, <1>5, <1>6, <1>7, <1>8, <1>9, <1>10, <1>11, <1>12, <1>13,
       <1>14, <1>15, <1>16, <1>17 DEF Next

-----------------------------------------------------------------------------
(* The theorems.                                                           *)

LEMMA Invariance == Spec => []IInv
  <1>1. Init => IInv
    BY InitIInv
  <1>2. IInv /\ [Next]_vars => IInv'
    BY Step DEF StepKept
  <1> QED
    BY <1>1, <1>2, PTL DEF Spec

(* Whatever claims, crashes, takeovers and repeated calls do to a task:    *)
(* an active task has a holder on record, no two processes pass its fence, *)
(* and no operation is executed twice (db.py, execute_role).               *)
THEOREM SharedInvariantHolds == Spec => []SharedInvariant
  <1>1. IInv => SharedInvariant
    <2> SUFFICES ASSUME IInv PROVE SharedInvariant
      OBVIOUS
    <2>1. FenceUnique
      <3> SUFFICES ASSUME NEW t \in Task, NEW p \in Process, NEW q \in Process,
                          Owns(t, p, token[p][t]), Owns(t, q, token[q][t]), p # q
                   PROVE  FALSE
        BY DEF FenceUnique
      <3>1. token[p][t] = task[t].generation /\ token[q][t] = token[p][t]
            /\ task[t].claimed_by # Nil
        BY SharedEngineAssumption DEF Owns
      <3>2. task[t].generation > 0
        BY <3>1 DEF IInv, HeldSubmitted
      <3> QED
        BY <3>1, <3>2 DEF IInv, TokensApart
    <2>2. ExecutesOnce
      BY DEF IInv, AnswersStored, ExecutesOnce
    <2> QED
      BY <2>1, <2>2 DEF IInv, SharedInvariant
  <1> QED
    BY <1>1, Invariance, PTL

(* A claim never takes a task from a holder whose lease runs, and receipts *)
(* are never replaced, nor does the bridge's differ from the provider's.   *)
THEOREM RecordsAreKept == Spec => RecordsKept
  <1>1. IInv /\ [Next]_vars =>
          [\A t \in Task : task[t].generation # task'[t].generation /\ task[t].claimed_by # Nil
                               => ~Live(t)]_vars
    BY Step DEF StepKept
  <1>2. IInv /\ [Next]_vars =>
          [\A k \in Key : /\ provided[k] # Nil => provided'[k] = provided[k]
                          /\ recorded'[k] # Nil => recorded'[k] = provided'[k]]_vars
    BY Step DEF StepKept, IInv, AnswersStored
  <1> QED
    BY <1>1, <1>2, Invariance, PTL DEF Spec, RecordsKept, NeverStolen, ReceiptsAgree

(* Leases, takeovers and the three stores implement a flow in which every  *)
(* task goes through its stages on the results of the present round.       *)
THEOREM EngineImplementsTaskFlow == Spec => ImplementsTaskFlow
  <1>1. Init => Flow!Init
    BY DEF Init, Absent, Key, Role, Flow!Init, Flow!Key, Flow!Role
  <1>2. IInv /\ [Next]_vars => [Flow!Next]_(Flow!flow)
    BY Step DEF StepKept
  <1> QED
    BY <1>1, <1>2, Invariance, PTL DEF Spec, ImplementsTaskFlow, Flow!Spec
=============================================================================
