------------------------------ MODULE RolesProofs ------------------------------
(***************************************************************************)
(* The role relay, the orchestrator, the policy stores and the core task   *)
(* table keep their invariants, for any jobs, workers, answers and         *)
(* mishaps, so long as claim tokens are fresh.  The relay implements       *)
(* OneAnswer, which is what the orchestrator assumes of it.                *)
(***************************************************************************)
EXTENDS MCRoles, SequenceTheorems, TLAPS

-----------------------------------------------------------------------------
(* The relay.  The inductive invariant adds that no two workers carry one  *)
(* token, that a worker that is to complete a job finds the receipt it     *)
(* works for, and that a job has a result when it is complete, namely its  *)
(* receipt.                                                                *)

Handling == {"execute", "complete"}

(* A worker has a job and a token while it handles the job.                *)
WorkersTold ==
    \A w \in Worker :
        /\ IF work[w].step \in Handling
             THEN work[w].key \in Key /\ work[w].token \in Token
             ELSE work[w].key = Nil /\ work[w].token = Nil
        /\ At(w, "complete") => receipts[work[w].key] # Nil

TokensApart == \A v, w \in Worker :
                   v # w /\ work[v].token = work[w].token => work[v].token = Nil

ResultsAreReceipts ==
    \A k \in Key : IF jobs[k].status = "COMPLETE"
                     THEN jobs[k].result = receipts[k] /\ receipts[k] # Nil
                     ELSE jobs[k].result = Nil

ExecutionsCounted ==
    \A k \in Key : executions[k] = IF receipts[k] = Nil THEN 0 ELSE 1

IInv == RelayTypeOK /\ WorkersTold /\ TokensApart /\ ResultsAreReceipts /\ ExecutionsCounted

-----------------------------------------------------------------------------
(* What a record of the table is.                                          *)

LEMMA AbsentRecords ==
    /\ Absent \in Job /\ Absent.status = "ABSENT" /\ Absent.token = Nil
    /\ Absent.lease = "none" /\ Absent.result = Nil
    /\ [Absent EXCEPT !.status = "QUEUED"]
           = [status |-> "QUEUED", token |-> Nil, lease |-> "none", result |-> Nil]
  BY DEF Absent, Job

LEMMA AbsentJobs ==
    ASSUME IInv, NEW k \in Key
    PROVE  jobs[k] = Absent <=> jobs[k].status = "ABSENT"
  <1>1. /\ jobs[k] \in Job
        /\ jobs[k].token # Nil <=> jobs[k].status \in {"CLAIMED", "COMPLETE"}
        /\ jobs[k].lease # "none" <=> jobs[k].status = "CLAIMED"
        /\ jobs[k].status # "COMPLETE" => jobs[k].result = Nil
    BY DEF IInv, RelayTypeOK, ResultsAreReceipts
  <1> QED
    BY <1>1 DEF Absent, Job

(* There is a token nobody has.                                            *)
LEMMA FreshToken ==
    ASSUME IInv
    PROVE  /\ (CHOOSE u \in Token : Fresh(u)) \in Token
           /\ Fresh(CHOOSE u \in Token : Fresh(u))
  <1> DEFINE f == [k \in Key |-> jobs[k].token]
             g == [w \in Worker |-> work[w].token]
  <1>1. f \in [Key -> Token \cup {Nil}] /\ g \in [Worker -> Token \cup {Nil}]
    BY DEF IInv, RelayTypeOK, Job, Work
  <1>2. \E t \in Token : (\A k \in Key : f[k] # t) /\ (\A w \in Worker : g[w] # t)
    <2> HIDE DEF f, g
    <2> QED
      BY <1>1, RoleRelayAssumption
  <1>3. \E t \in Token : Fresh(t)
    BY <1>2 DEF Fresh
  <1> QED
    BY <1>3

-----------------------------------------------------------------------------
(* What a step does to a job that is there, short of completing it.        *)
Handled(j, i) ==
    /\ i \in Job
    /\ j.status \notin {"ABSENT", "COMPLETE"} /\ i.status \notin {"ABSENT", "COMPLETE"}
    /\ i.result = j.result
    /\ i.token # Nil <=> i.status = "CLAIMED"
    /\ i.lease # "none" <=> i.status = "CLAIMED"

Asked == {k \in Key : jobs[k] # Absent}
Answers == [k \in Key |-> ResultOf(k)]

(* What every step does: the invariant stays, and the step is one of the   *)
(* promise's or none of its business.                                      *)
StepKept == IInv' /\ [Promise!Next]_<<Asked, Answers>>

(* A step that handles jobs asks and answers nothing.                      *)
LEMMA TableHandled ==
    ASSUME IInv, jobs' \in [Key -> Job], order' = order, receipts' = receipts,
           \A k \in Key : jobs'[k] = jobs[k] \/ Handled(jobs[k], jobs'[k])
    PROVE  /\ \A k \in Key : /\ jobs'[k].token # Nil <=> jobs'[k].status \in {"CLAIMED", "COMPLETE"}
                             /\ jobs'[k].lease # "none" <=> jobs'[k].status = "CLAIMED"
           /\ ToSet(order') = Asked'
           /\ ResultsAreReceipts'
           /\ Asked' = Asked /\ Answers' = Answers
  <1>1. \A k \in Key : jobs[k] = Absent <=> jobs[k].status = "ABSENT"
    BY AbsentJobs
  <1>2. \A k \in Key : jobs'[k] = Absent <=> jobs[k] = Absent
    BY <1>1, AbsentRecords DEF Handled
  <1>3. Asked' = Asked
    BY <1>2 DEF Asked
  <1>4. Answers' = Answers
    BY DEF Answers, ResultOf, Handled
  <1>5. ToSet(order) = Asked
    BY DEF IInv, RelayTypeOK, Asked
  <1>6. ResultsAreReceipts'
    BY DEF IInv, ResultsAreReceipts, Handled
  <1> QED
    BY <1>3, <1>4, <1>5, <1>6 DEF IInv, RelayTypeOK, Handled

(* Such a step keeps the invariant if the workers keep theirs.             *)
LEMMA HandledKeeps ==
    ASSUME IInv, jobs' \in [Key -> Job], UNCHANGED <<order, receipts, executions>>,
           \A k \in Key : jobs'[k] = jobs[k] \/ Handled(jobs[k], jobs'[k]),
           mishaps' \in 0..MaxMishap,
           work' \in [Worker -> Work], WorkersTold', TokensApart'
    PROVE  StepKept
  <1>1. RelayTypeOK' /\ ResultsAreReceipts' /\ Asked' = Asked /\ Answers' = Answers
    BY TableHandled DEF IInv, RelayTypeOK, Asked
  <1> QED
    BY <1>1 DEF StepKept, IInv, ExecutionsCounted

(* A worker takes its next step; the others stay where they are.           *)
LEMMA WorkerGoes ==
    ASSUME IInv, NEW w \in Worker, NEW y \in Work, work' = [work EXCEPT ![w] = y],
           IF y.step \in Handling THEN y.key \in Key /\ y.token \in Token
                                  ELSE y.key = Nil /\ y.token = Nil,
           y.step = "complete" => receipts'[y.key] # Nil,
           y.token = Nil \/ y.token = work[w].token \/ \A v \in Worker : work[v].token # y.token,
           \A k \in Key : receipts[k] # Nil => receipts'[k] = receipts[k]
    PROVE  work' \in [Worker -> Work] /\ WorkersTold' /\ TokensApart'
  <1>1. work \in [Worker -> Work]
    BY DEF IInv, RelayTypeOK
  <1>2. /\ work'[w] = y /\ work' \in [Worker -> Work]
        /\ \A v \in Worker : v # w => work'[v] = work[v]
    BY <1>1
  <1>3. WorkersTold'
    BY <1>2 DEF IInv, WorkersTold, At, Handling
  <1>4. TokensApart'
    BY <1>2 DEF IInv, TokensApart
  <1> QED
    BY <1>2, <1>3, <1>4

(* A worker's records.                                                     *)
LEMMA WorkRecords ==
    ASSUME NEW y \in Work, NEW s \in {"claim", "complete"}
    PROVE  /\ [y EXCEPT !.step = s] \in Work
           /\ [y EXCEPT !.step = s].step = s
           /\ [y EXCEPT !.step = s].key = y.key
           /\ [y EXCEPT !.step = s].token = y.token
           /\ Resting \in Work /\ Resting.step = "idle" /\ Resting.key = Nil /\ Resting.token = Nil
  BY DEF Work, Resting

LEMMA EnqueueKeeps == ASSUME IInv, NEW k \in Key, Enqueue(k) PROVE StepKept
  <1> DEFINE q == [status |-> "QUEUED", token |-> Nil, lease |-> "none", result |-> Nil]
  <1>1. UNCHANGED <<work, receipts, executions, mishaps>>
    BY DEF Enqueue
  <1>2. /\ jobs \in [Key -> Job] /\ order \in Seq(Key) /\ ToSet(order) = Asked
    BY DEF IInv, RelayTypeOK, Asked
  <1>3. CASE jobs[k] = Absent
    <2>1. q \in Job /\ q # Absent /\ q.status = "QUEUED" /\ q.token = Nil /\ q.lease = "none"
          /\ q.result = Nil
      BY DEF Job, Absent
    <2>2. jobs' = [jobs EXCEPT ![k] = q] /\ order' = Append(order, k)
      BY <1>3, AbsentRecords DEF Enqueue, Enqueued
    <2> HIDE DEF q
    <2>3. /\ jobs' \in [Key -> Job] /\ jobs'[k] = q
          /\ \A l \in Key : l # k => jobs'[l] = jobs[l]
      BY <1>2, <2>1, <2>2
    <2>4. Asked' = Asked \cup {k}
      BY <2>1, <2>3 DEF Asked
    <2>5. Answers' = Answers
      BY <1>3, <2>1, <2>3, AbsentRecords DEF Answers, ResultOf
    <2>6. order' \in Seq(Key) /\ ToSet(order') = ToSet(order) \cup {k}
      <3>1. /\ order' \in Seq(Key) /\ Len(order') = Len(order) + 1
            /\ \A i \in 1..Len(order) : order'[i] = order[i]
            /\ order'[Len(order) + 1] = k
        BY <1>2, <2>2, AppendProperties
      <3>2. Len(order) \in Nat /\ DOMAIN order = 1..Len(order) /\ DOMAIN order' = 1..Len(order')
        BY <1>2, <3>1, LenProperties
      <3> QED
        BY <3>1, <3>2 DEF ToSet
    <2>7. RelayTypeOK'
      BY <1>1, <1>2, <2>1, <2>3, <2>4, <2>6 DEF IInv, RelayTypeOK, Asked
    <2>8. /\ WorkersTold' /\ TokensApart' /\ ExecutionsCounted' /\ ResultsAreReceipts'
      BY <1>1, <2>1, <2>3
         DEF IInv, WorkersTold, TokensApart, ExecutionsCounted, ResultsAreReceipts, At
    <2>9. Promise!Next
      BY <2>4, <2>5 DEF Promise!Next, Promise!Ask, Asked, Answers
    <2> QED
      BY <2>7, <2>8, <2>9 DEF StepKept, IInv
  <1>4. CASE jobs[k] # Absent
    <2>1. jobs' = jobs /\ order' = order
      BY <1>4 DEF Enqueue, Enqueued
    <2>2. IInv'
      BY <1>1, <2>1 DEF IInv, RelayTypeOK, WorkersTold, TokensApart, ResultsAreReceipts,
                        ExecutionsCounted, At
    <2> QED
      BY <1>1, <2>1, <2>2 DEF StepKept, Asked, Answers, ResultOf
  <1> QED
    BY <1>3, <1>4

LEMMA RecoverKeeps == ASSUME IInv, NEW w \in Worker, RecoverExpired(w) PROVE StepKept
  <1> DEFINE y == [work[w] EXCEPT !.step = "claim"]
  <1>1. /\ work[w].step = "idle" /\ work' = [work EXCEPT ![w].step = "claim"]
        /\ jobs' = [k \in Key |-> IF Expired(k) THEN Requeued(k) ELSE jobs[k]]
        /\ UNCHANGED <<order, receipts, executions, mishaps>>
    BY DEF RecoverExpired, At, To
  <1>2. jobs \in [Key -> Job] /\ work[w] \in Work /\ work = [v \in Worker |-> work[v]]
    BY DEF IInv, RelayTypeOK
  <1>3. ASSUME NEW k \in Key, Expired(k) PROVE Handled(jobs[k], Requeued(k))
    <2> DEFINE j == jobs[k]
               i == [j EXCEPT !.status = "QUEUED", !.token = Nil, !.lease = "none"]
    <2>1. j \in Job /\ j.status = "CLAIMED" /\ Requeued(k) = i
      BY <1>2, <1>3 DEF Expired, Requeued
    <2> HIDE DEF j
    <2>2. i \in Job /\ i.status = "QUEUED" /\ i.token = Nil /\ i.lease = "none"
          /\ i.result = j.result
      BY <2>1 DEF Job
    <2> HIDE DEF i
    <2> QED
      BY <2>1, <2>2 DEF Handled, j
  <1>4. /\ jobs' \in [Key -> Job]
        /\ \A k \in Key : jobs'[k] = jobs[k] \/ Handled(jobs[k], jobs'[k])
    BY <1>1, <1>2, <1>3 DEF Handled
  <1>5. work' = [work EXCEPT ![w] = y]
    BY <1>1, <1>2
  <1>6. y \in Work /\ y.step = "claim" /\ y.key = work[w].key /\ y.token = work[w].token
    BY <1>2, WorkRecords
  <1>7. work[w].key = Nil /\ work[w].token = Nil
    BY <1>1 DEF IInv, WorkersTold, Handling
  <1> HIDE DEF y
  <1>8. work' \in [Worker -> Work] /\ WorkersTold' /\ TokensApart'
    BY <1>1, <1>5, <1>6, <1>7, WorkerGoes DEF Handling
  <1> QED
    BY <1>1, <1>4, <1>8, HandledKeeps DEF IInv, RelayTypeOK

LEMMA ClaimKeeps == ASSUME IInv, NEW w \in Worker, ClaimNext(w) PROVE StepKept
  <1>1. At(w, "claim") /\ UNCHANGED <<order, receipts, executions, mishaps>>
    BY DEF ClaimNext
  <1>2. /\ jobs \in [Key -> Job] /\ work[w] \in Work /\ work = [v \in Worker |-> work[v]]
    BY DEF IInv, RelayTypeOK
  <1>3. CASE Rest(w) /\ UNCHANGED jobs
    <2>1. work' \in [Worker -> Work] /\ WorkersTold' /\ TokensApart'
      BY <1>1, <1>2, <1>3, WorkerGoes, WorkRecords DEF Rest, Handling
    <2> QED
      BY <1>1, <1>2, <1>3, <2>1, HandledKeeps DEF IInv, RelayTypeOK
  <1>4. ASSUME NEW k \in Queued,
               jobs' = [jobs EXCEPT ![k] = [@ EXCEPT !.status = "CLAIMED",
                                  !.token = CHOOSE u \in Token : Fresh(u), !.lease = "live"]],
               work' = [work EXCEPT ![w] = [step |-> "execute", key |-> k,
                                            token |-> CHOOSE u \in Token : Fresh(u)]]
        PROVE  StepKept
    <2> DEFINE t == CHOOSE u \in Token : Fresh(u)
               j == jobs[k]
               i == [j EXCEPT !.status = "CLAIMED", !.token = t, !.lease = "live"]
               y == [step |-> "execute", key |-> k, token |-> t]
    <2>1. t \in Token /\ t # Nil /\ Fresh(t)
      BY FreshToken, RoleRelayAssumption
    <2>2. k \in Key /\ j \in Job /\ j.status = "QUEUED"
      BY <1>2 DEF Queued
    <2>3. jobs' = [jobs EXCEPT ![k] = i] /\ work' = [work EXCEPT ![w] = y]
      BY <1>4
    <2> HIDE DEF t, j
    <2>4. i \in Job /\ i.status = "CLAIMED" /\ i.token = t /\ i.lease = "live"
          /\ i.result = j.result
      BY <2>1, <2>2 DEF Job
    <2> HIDE DEF i
    <2>5. Handled(j, i)
      BY <2>1, <2>2, <2>4 DEF Handled
    <2>6. /\ jobs' \in [Key -> Job]
          /\ \A l \in Key : jobs'[l] = jobs[l] \/ Handled(jobs[l], jobs'[l])
      BY <1>2, <2>2, <2>3, <2>4, <2>5 DEF j
    <2>7. y \in Work /\ y.step = "execute" /\ y.key \in Key /\ y.token = t
      BY <2>1, <2>2 DEF Work
    <2> HIDE DEF y
    <2>8. \A v \in Worker : work[v].token # y.token
      BY <2>1, <2>7 DEF Fresh
    <2>9. work' \in [Worker -> Work] /\ WorkersTold' /\ TokensApart'
      BY <1>1, <2>1, <2>3, <2>7, <2>8, WorkerGoes DEF Handling
    <2> QED
      BY <1>1, <2>6, <2>9, HandledKeeps DEF IInv, RelayTypeOK
  <1> QED
    BY <1>3, <1>4 DEF ClaimNext

(* The provider is called once, for the receipt that is kept.              *)
LEMMA ExecuteKeeps == ASSUME IInv, NEW w \in Worker, Execute(w) PROVE StepKept
  <1> DEFINE k == work[w].key
             y == [work[w] EXCEPT !.step = "complete"]
  <1>1. PICK r \in AnswersOf(k) :
            /\ receipts' = [receipts EXCEPT ![k] = r]
            /\ executions' = IF receipts[k] = r THEN executions ELSE [executions EXCEPT ![k] = @ + 1]
    BY DEF Execute
  <1>2. /\ work[w].step = "execute" /\ work' = [work EXCEPT ![w].step = "complete"]
        /\ UNCHANGED <<jobs, order, mishaps>>
    BY DEF Execute, At, To
  <1>3. /\ receipts \in [Key -> Result \cup {Nil}] /\ executions \in [Key -> Nat]
        /\ work[w] \in Work /\ work = [v \in Worker |-> work[v]] /\ jobs \in [Key -> Job]
    BY DEF IInv, RelayTypeOK
  <1>4. k \in Key /\ work[w].token \in Token
    BY <1>2 DEF IInv, WorkersTold, Handling
  <1>5. r \in Result /\ r # Nil /\ (receipts[k] # Nil => r = receipts[k])
    BY <1>1, <1>3, <1>4, RoleRelayAssumption DEF AnswersOf
  <1>6. work' = [work EXCEPT ![w] = y]
    BY <1>2, <1>3
  <1>7. y \in Work /\ y.step = "complete" /\ y.key = k /\ y.token = work[w].token
    BY <1>3, WorkRecords
  <1> HIDE DEF y, k
  <1>8. /\ receipts' \in [Key -> Result \cup {Nil}] /\ receipts'[k] = r
        /\ \A l \in Key : receipts[l] # Nil => receipts'[l] = receipts[l]
    BY <1>1, <1>3, <1>4, <1>5
  <1>9. executions' \in [Key -> Nat] /\ ExecutionsCounted'
    BY <1>1, <1>3, <1>4, <1>5, <1>8 DEF IInv, ExecutionsCounted
  <1>10. work' \in [Worker -> Work] /\ WorkersTold' /\ TokensApart'
    BY <1>4, <1>5, <1>6, <1>7, <1>8, WorkerGoes DEF Handling
  <1>11. ResultsAreReceipts'
    BY <1>2, <1>8 DEF IInv, ResultsAreReceipts
  <1>12. RelayTypeOK'
    BY <1>2, <1>8, <1>9, <1>10 DEF IInv, RelayTypeOK
  <1> QED
    BY <1>2, <1>9, <1>10, <1>11, <1>12 DEF StepKept, IInv, Asked, Answers, ResultOf

LEMMA CompleteKeeps == ASSUME IInv, NEW w \in Worker, Complete(w) PROVE StepKept
  <1> DEFINE k == work[w].key
             r == receipts[k]
             j == jobs[k]
             i == [j EXCEPT !.status = "COMPLETE", !.lease = "none", !.result = r]
  <1>1. /\ At(w, "complete") /\ Rest(w) /\ UNCHANGED <<order, receipts, executions, mishaps>>
    BY DEF Complete
  <1>2. /\ receipts \in [Key -> Result \cup {Nil}] /\ work \in [Worker -> Work]
        /\ jobs \in [Key -> Job]
    BY DEF IInv, RelayTypeOK
  <1>3. k \in Key /\ r # Nil /\ j \in Job
    BY <1>1, <1>2 DEF IInv, WorkersTold, Handling, At
  <1>4. work' \in [Worker -> Work] /\ WorkersTold' /\ TokensApart'
    BY <1>1, <1>2, WorkerGoes, WorkRecords DEF Rest, Handling
  <1>5. CASE ~ (Completable(w, k) /\ r \notin Unfit)
    <2>1. jobs' = jobs
      BY <1>5 DEF Complete
    <2> QED
      BY <1>1, <1>2, <1>4, <2>1, HandledKeeps DEF IInv, RelayTypeOK
  <1>6. CASE Completable(w, k) /\ r \notin Unfit
    <2>1. jobs' = [jobs EXCEPT ![k] = i]
      BY <1>6 DEF Complete
    <2>2. j.status = "CLAIMED" /\ j.token # Nil /\ r \in Result
      BY <1>2, <1>3, <1>6 DEF Completable, Holds, IInv, RelayTypeOK
    <2> HIDE DEF j, k, r
    <2>3. i \in Job /\ i.status = "COMPLETE" /\ i.token = j.token /\ i.lease = "none"
          /\ i.result = r
      BY <1>3, <2>2 DEF Job
    <2> HIDE DEF i
    <2>4. /\ jobs' \in [Key -> Job] /\ jobs'[k] = i
          /\ \A l \in Key : l # k => jobs'[l] = jobs[l]
      BY <1>2, <1>3, <2>1, <2>3
    <2>5. i # Absent /\ j # Absent
      BY <2>2, <2>3, AbsentRecords
    <2>6. Asked' = Asked /\ k \in Asked
      BY <1>3, <2>4, <2>5 DEF Asked, j
    <2>7. Answers \in [Key -> Result \cup {Nil}] /\ Answers[k] = Nil /\ Answers' = [Answers EXCEPT ![k] = r]
      BY <1>2, <1>3, <2>2, <2>3, <2>4 DEF Answers, ResultOf, Job, j
    <2>8. Promise!Next
      BY <1>3, <2>2, <2>6, <2>7 DEF Promise!Next, Promise!Answer, Asked, Answers
    <2>9. RelayTypeOK'
      BY <1>1, <1>4, <2>2, <2>3, <2>4, <2>6 DEF IInv, RelayTypeOK, Asked
    <2>10. ResultsAreReceipts'
      BY <1>1, <1>3, <2>3, <2>4 DEF IInv, ResultsAreReceipts, r
    <2> QED
      BY <1>1, <1>4, <2>8, <2>9, <2>10 DEF StepKept, IInv, ExecutionsCounted
  <1> QED
    BY <1>5, <1>6

(* A lease is prolonged or runs out.                                       *)
LEMMA LeaseMoves ==
    ASSUME IInv, NEW k \in Key, jobs[k].status = "CLAIMED", NEW l \in {"live", "over"},
           jobs' = [jobs EXCEPT ![k].lease = l], mishaps' \in 0..MaxMishap,
           UNCHANGED <<order, work, receipts, executions>>
    PROVE  StepKept
  <1> DEFINE j == jobs[k]
             i == [j EXCEPT !.lease = l]
  <1>1. jobs \in [Key -> Job] /\ j \in Job /\ j.status = "CLAIMED" /\ j.token # Nil
    BY DEF IInv, RelayTypeOK
  <1>2. jobs' = [jobs EXCEPT ![k] = i]
    BY <1>1
  <1> HIDE DEF j
  <1>3. i \in Job /\ i.status = "CLAIMED" /\ i.token = j.token /\ i.lease = l
        /\ i.result = j.result
    BY <1>1 DEF Job
  <1> HIDE DEF i
  <1>4. /\ jobs' \in [Key -> Job]
        /\ \A m \in Key : jobs'[m] = jobs[m] \/ Handled(jobs[m], jobs'[m])
    BY <1>1, <1>2, <1>3 DEF Handled, j
  <1>5. work' \in [Worker -> Work] /\ WorkersTold' /\ TokensApart'
    BY DEF IInv, RelayTypeOK, WorkersTold, TokensApart, At
  <1> QED
    BY <1>4, <1>5, HandledKeeps DEF IInv, RelayTypeOK

LEMMA HeartbeatKeeps == ASSUME IInv, NEW w \in Worker, Heartbeat(w) PROVE StepKept
  <1>1. work[w].key \in Key
    BY DEF Heartbeat, At, IInv, WorkersTold, Handling
  <1>2. mishaps' \in 0..MaxMishap
    BY DEF Heartbeat, IInv, RelayTypeOK
  <1> QED
    BY <1>1, <1>2, LeaseMoves DEF Heartbeat, Holds

LEMMA LeaseRunsOutKeeps == ASSUME IInv, NEW k \in Key, LeaseRunsOut(k) PROVE StepKept
  <1>1. jobs[k].status = "CLAIMED"
    BY DEF LeaseRunsOut, IInv, RelayTypeOK
  <1>2. mishaps' \in 0..MaxMishap
    BY RoleRelayAssumption DEF LeaseRunsOut, IInv, RelayTypeOK
  <1> QED
    BY <1>1, <1>2, LeaseMoves DEF LeaseRunsOut

LEMMA WorkerDiesKeeps == ASSUME IInv, NEW w \in Worker, WorkerDies(w) PROVE StepKept
  <1>1. /\ Rest(w) /\ UNCHANGED <<jobs, order, receipts, executions>>
    BY DEF WorkerDies
  <1>2. mishaps' \in 0..MaxMishap
    BY RoleRelayAssumption DEF WorkerDies, IInv, RelayTypeOK
  <1>3. jobs \in [Key -> Job] /\ work \in [Worker -> Work]
    BY DEF IInv, RelayTypeOK
  <1>4. work' \in [Worker -> Work] /\ WorkersTold' /\ TokensApart'
    BY <1>1, <1>3, WorkerGoes, WorkRecords DEF Rest, Handling
  <1> QED
    BY <1>1, <1>2, <1>3, <1>4, HandledKeeps DEF IInv, RelayTypeOK

-----------------------------------------------------------------------------

LEMMA InitIInv == RelayInit => IInv /\ Promise!Init
  <1> SUFFICES ASSUME RelayInit PROVE IInv /\ Promise!Init
    OBVIOUS
  <1>1. \A k \in Key : jobs[k] = Absent
    BY DEF RelayInit
  <1>2. Asked = {} /\ Answers = [k \in Key |-> Nil]
    BY <1>1, AbsentRecords DEF Asked, Answers, ResultOf
  <1>3. order \in Seq(Key) /\ ToSet(order) = {}
    BY DEF RelayInit, ToSet
  <1>4. work \in [Worker -> Work] /\ \A w \in Worker : work[w] = Resting
    BY DEF RelayInit, Work, Resting
  <1>5. RelayTypeOK
    BY <1>1, <1>2, <1>3, <1>4, AbsentRecords, RoleRelayAssumption DEF RelayInit, RelayTypeOK, Asked
  <1>6. WorkersTold /\ TokensApart /\ ResultsAreReceipts /\ ExecutionsCounted
    BY <1>1, <1>4, AbsentRecords
       DEF RelayInit, WorkersTold, TokensApart, ResultsAreReceipts, ExecutionsCounted, At,
           Resting, Handling
  <1> QED
    BY <1>2, <1>5, <1>6 DEF IInv, Promise!Init, Asked, Answers

RelayStep == RelayNext \/ \E k \in Key : Enqueue(k)

LEMMA NextKeeps == IInv /\ [RelayStep]_relayVars => StepKept
  <1> SUFFICES ASSUME IInv, [RelayStep]_relayVars PROVE StepKept
    OBVIOUS
  <1>1. ASSUME NEW w \in Worker, WorkerStep(w) PROVE StepKept
    BY <1>1, RecoverKeeps, ClaimKeeps, ExecuteKeeps, CompleteKeeps DEF WorkerStep
  <1>2. CASE UNCHANGED relayVars
    <2>1. IInv'
      BY <1>2 DEF relayVars, IInv, RelayTypeOK, WorkersTold, TokensApart, ResultsAreReceipts,
                  ExecutionsCounted, At
    <2> QED
      BY <1>2, <2>1 DEF relayVars, StepKept, Asked, Answers, ResultOf
  <1> QED
    BY <1>1, <1>2, HeartbeatKeeps, WorkerDiesKeeps, LeaseRunsOutKeeps, EnqueueKeeps
       DEF RelayStep, RelayNext

LEMMA Inductive == Spec => []IInv
  <1>1. IInv /\ [RelayStep]_relayVars => IInv'
    BY NextKeeps DEF StepKept
  <1> QED
    BY <1>1, InitIInv, PTL DEF Spec, RelayStep

(* However many workers die after the receipt or are overtaken after their *)
(* lease: no operation key reaches the provider twice, no two workers can  *)
(* get at one job, and what clients are told is the durable receipt        *)
(* (claim_next, execute_local_once, complete).                             *)
THEOREM RelayInvariantHolds == Spec => []RelayInvariant
  <1>1. IInv => RelayInvariant
    <2> SUFFICES ASSUME IInv PROVE RelayInvariant
      OBVIOUS
    <2>1. RelayTypeOK /\ ExecutedOnce
      BY DEF IInv, ExecutionsCounted, ExecutedOnce
    <2>2. OneHolder
      <3>1. \A k \in Key : jobs[k].status = "CLAIMED" => jobs[k].token # Nil
        BY DEF IInv, RelayTypeOK
      <3> QED
        BY <3>1 DEF IInv, TokensApart, OneHolder, Holds
    <2>3. ToldTheReceipt
      BY DEF IInv, ResultsAreReceipts, ToldTheReceipt, ResultOf
    <2> QED
      BY <2>1, <2>2, <2>3 DEF RelayInvariant
  <1> QED
    BY <1>1, Inductive, PTL

(* The relay, its queue, leases and receipts, gives every operation key    *)
(* one answer that never changes: what OneAnswer promises.                 *)
THEOREM RelayImplementsPromise == Spec => ImplementsPromise
  <1>1. IInv /\ [RelayStep]_relayVars => [Promise!Next]_<<Asked, Answers>>
    BY NextKeeps DEF StepKept
  <1>2. IInv /\ [RelayStep]_relayVars => [Promise!Next]_(Promise!OneAnswerVars)
    BY <1>1 DEF Promise!OneAnswerVars, Asked, Answers
  <1> QED
    BY <1>2, Inductive, InitIInv, PTL DEF Spec, RelayStep, ImplementsPromise, Promise!Spec

-----------------------------------------------------------------------------
(* The orchestrator, run by one process at a time.  The inductive          *)
(* invariant says what a process within step may take for granted of the   *)
(* row and of the answers, and counts the calls of step against the        *)
(* retries spent and the roles passed.                                     *)

OneProcess == \A p, q \in Orch : p = q

TaskRow == [state : State, sem : 0..SemBudget, trans : 0..TransBudget, rep : 0..1,
        fp : Fingerprint \cup {None}, claim : ClaimId \cup {None}]
Mind == [pc : Place, seen : State, key : OperationKey \cup {None}, claim : ClaimId \cup {None},
         out : Outcome \cup {None}, steps : 0..MaxSteps]

InState(role) == CASE role = "IMPLEMENT" -> "IN_IMPLEMENT"
                   [] role = "LAB"       -> "IN_LAB"
                   [] role = "AUDIT"     -> "IN_AUDIT"

Phase(s) == CASE s = "IN_LAB"   -> 1
              [] s = "IN_AUDIT" -> 2
              [] s \in Terminal -> 3
              [] OTHER          -> 0

Stepping == {"begin", "start", "ask", "wait", "finish", "judge"}

(* What a process is about fits the row and the answers as they are.       *)
Fits(d, t, a) ==
    /\ d.pc = "begin" => t.state = d.seen /\ t.state \notin Terminal
    /\ d.pc \in Stepping \ {"begin"} => t.state = InState(RoleOf(d.seen))
    /\ d.pc \in Stepping \ {"begin", "start"} => d.key = [role |-> RoleOf(d.seen), gen |-> t.sem]
    /\ d.pc \in {"finish", "judge"} => d.out = a[d.key] /\ d.out # None
    /\ d.pc = "judge" => t.claim = None
    /\ d.pc \in {"rollback", "recover"} => t.state \notin Terminal
    /\ d.pc \in Place \ {"ask", "wait", "finish", "judge"} => d.claim = None

(* Calls made since the last exception, against the retries and passes.    *)
Counted(d, t) ==
    d.steps <= 3 * t.sem + t.trans + Phase(t.state) + (IF d.pc \in Stepping THEN 1 ELSE 0)

(* Each role the row has left behind passed its present generation.        *)
PassesSoFar(t, a) ==
    /\ t.state \in {"IN_LAB", "IN_AUDIT", "DONE"} => a[[role |-> "IMPLEMENT", gen |-> t.sem]] = "PASS"
    /\ t.state \in {"IN_AUDIT", "DONE"} => a[[role |-> "LAB", gen |-> t.sem]] = "PASS"
    /\ t.state = "DONE" => a[[role |-> "AUDIT", gen |-> t.sem]] = "PASS"

OrchInv ==
    /\ OrchTypeOK /\ PassesSoFar(task, answer) /\ AskedInOrder
    /\ task.claim # None => task.state \notin Terminal
    /\ \A o \in Orch : Fits(proc[o], task, answer) /\ Counted(proc[o], task)

LEMMA OrchTyped ==
    ASSUME OrchInv
    PROVE  /\ task \in TaskRow /\ proc \in [Orch -> Mind]
           /\ answer \in [OperationKey -> Outcome \cup {None}] /\ asked \subseteq OperationKey
           /\ \A o \in Orch : proc[o] \in Mind
  BY DEF OrchInv, OrchTypeOK, TaskRow, Mind

LEMMA Budgets == /\ SemBudget \in Nat /\ TransBudget \in Nat /\ MaxSteps \in Nat /\ MaxCrash \in Nat
                 /\ None \notin ClaimId /\ None \notin Outcome /\ None \notin Fingerprint
  BY OrchestratorAssumption

LEMMA Phases ==
    ASSUME NEW s \in State
    PROVE  Phase(s) \in 0..3 /\ (s \notin Terminal => Phase(s) \in 0..2)
  BY DEF Phase, State, Terminal, Entering

LEMMA OrchInvImplies == OrchInv => OrchestratorInvariant
  <1> SUFFICES ASSUME OrchInv PROVE OrchestratorInvariant
    OBVIOUS
  <1>1. DoneReviewed
    BY DEF OrchInv, PassesSoFar, DoneReviewed, Role, PassedBy
  <1>2. CeilingUnneeded
    <2> SUFFICES ASSUME NEW o \in Orch PROVE proc[o].steps <= 3 * (SemBudget + 1) + TransBudget
      BY DEF CeilingUnneeded
    <2>1. /\ task \in TaskRow /\ proc[o] \in Mind /\ Fits(proc[o], task, answer) /\ Counted(proc[o], task)
      BY OrchTyped DEF OrchInv
    <2>2. task.state \in State /\ task.sem \in 0..SemBudget /\ task.trans \in 0..TransBudget
          /\ proc[o].steps \in Nat
      BY <2>1 DEF TaskRow, Mind
    <2>3. proc[o].pc \in Stepping => task.state \notin Terminal
      BY <2>1 DEF Fits, Stepping, InState, RoleOf, Terminal
    <2>4. Phase(task.state) + (IF proc[o].pc \in Stepping THEN 1 ELSE 0) <= 3
      BY <2>2, <2>3, Phases
    <2>5. PICK n \in 0..3, m \in 0..1 : /\ n = Phase(task.state)
                                        /\ m = IF proc[o].pc \in Stepping THEN 1 ELSE 0
      BY <2>2, Phases
    <2> QED
      BY <2>1, <2>2, <2>4, <2>5, Budgets DEF Counted, TaskRow
  <1> QED
    BY <1>1, <1>2 DEF OrchInv, OrchestratorInvariant

LEMMA OrchInitInv == OrchInit => OrchInv
  <1> SUFFICES ASSUME OrchInit PROVE OrchInv
    OBVIOUS
  <1>1. /\ task = [state |-> "PENDING", sem |-> 0, trans |-> 0, fp |-> None, rep |-> 0, claim |-> None]
        /\ fresh = FALSE /\ proc = [o \in Orch |-> Ready] /\ crashes = 0
        /\ asked = {} /\ answer = [k \in OperationKey |-> None]
    BY DEF OrchInit, Relay!Init
  <1>2. Ready \in Mind /\ Ready.pc = "idle" /\ Ready.steps = 0 /\ Ready.claim = None
    BY Budgets DEF Ready, Mind, Place, State, Entering
  <1>3. OrchTypeOK
    <2>1. task \in TaskRow
      BY <1>1, Budgets DEF TaskRow, State, Entering
    <2>2. task.rep = 0 /\ task.fp = None
      BY <1>1
    <2>3. proc \in [Orch -> Mind]
      BY <1>1, <1>2
    <2>4. answer \in [OperationKey -> Outcome \cup {None}] /\ asked \subseteq OperationKey
      BY <1>1
    <2>5. fresh \in BOOLEAN
      BY <1>1
    <2>6. crashes \in 0..MaxCrash
      BY <1>1, Budgets
    <2> QED
      BY <2>1, <2>2, <2>3, <2>4, <2>5, <2>6 DEF OrchTypeOK, TaskRow, Mind
  <1>4. PassesSoFar(task, answer) /\ AskedInOrder
    BY <1>1 DEF PassesSoFar, AskedInOrder
  <1>5. \A o \in Orch : Fits(proc[o], task, answer)
    BY <1>1, <1>2 DEF Fits, Stepping
  <1>6. \A o \in Orch : Counted(proc[o], task)
    <2> SUFFICES ASSUME NEW o \in Orch PROVE Counted(proc[o], task)
      OBVIOUS
    <2>1. proc[o].steps = 0 /\ proc[o].pc = "idle" /\ task.sem = 0 /\ task.trans = 0 /\ task.state = "PENDING"
      BY <1>1, <1>2
    <2>2. Phase("PENDING") = 0
      BY DEF Phase, Terminal
    <2> QED
      BY <2>1, <2>2 DEF Counted, Stepping
  <1> QED
    BY <1>1, <1>3, <1>4, <1>5, <1>6 DEF OrchInv

-----------------------------------------------------------------------------
(* What a transaction leaves of the row.                                   *)

LEMMA TaskRowIs ==
    ASSUME NEW t \in TaskRow
    PROVE  /\ t = [state |-> t.state, sem |-> t.sem, trans |-> t.trans, fp |-> t.fp,
                   rep |-> t.rep, claim |-> t.claim]
           /\ t.state \in State /\ t.sem \in 0..SemBudget /\ t.trans \in 0..TransBudget
           /\ t.rep \in 0..1 /\ t.fp \in Fingerprint \cup {None} /\ t.claim \in ClaimId \cup {None}
  BY DEF TaskRow

LEMMA MovedIs ==
    ASSUME task \in TaskRow, NEW s \in State
    PROVE  Moved(s) = [state |-> s, sem |-> task.sem, trans |-> task.trans, fp |-> task.fp,
                       rep |-> task.rep, claim |-> None]
  <1>1. PICK t : t = task
    OBVIOUS
  <1>2. t = [state |-> t.state, sem |-> t.sem, trans |-> t.trans, fp |-> t.fp,
             rep |-> t.rep, claim |-> t.claim]
    BY <1>1, TaskRowIs
  <1>3. PICK m : m = [t EXCEPT !.state = s, !.claim = None]
    OBVIOUS
  <1>4. m = [state |-> s, sem |-> t.sem, trans |-> t.trans, fp |-> t.fp, rep |-> t.rep, claim |-> None]
    BY <1>2, <1>3
  <1> QED
    BY <1>1, <1>3, <1>4 DEF Moved

LEMMA MovedInRow ==
    ASSUME task \in TaskRow, NEW s \in State
    PROVE  /\ Moved(s) \in TaskRow /\ Moved(s).state = s /\ Moved(s).claim = None
           /\ Moved(s).sem = task.sem /\ Moved(s).trans = task.trans
           /\ Moved(s).fp = task.fp /\ Moved(s).rep = task.rep
  BY MovedIs, TaskRowIs DEF TaskRow

LEMMA StateNames ==
    /\ Terminal \subseteq State /\ Entering \subseteq State
    /\ {"IN_IMPLEMENT", "IN_LAB", "IN_AUDIT"} \subseteq State
    /\ \A r \in Role : FailState[r] \in Entering
  BY DEF State, Terminal, Entering, FailState, Role

LEMMA FailedIs ==
    ASSUME task \in TaskRow, task.rep = 0 <=> task.fp = None, NEW role \in Role,
           NEW stage \in Role \cup {"MECH"}, NEW code \in Outcome \cup {"TIMEOUT"}
    PROVE  LET t == SemanticFailed(role, stage, code)
           IN  /\ t \in TaskRow /\ t.claim = None /\ t.trans = task.trans
               /\ t.rep = 0 <=> t.fp = None
               /\ \/ t.state = "OWNER_GATE" /\ t.sem = task.sem
                  \/ t.state \in Entering /\ t.sem = task.sem + 1
  <1> DEFINE fp  == <<stage, code>>
             rep == IF task.fp = fp THEN task.rep + 1 ELSE 1
  <1>1. SemanticFailed(role, stage, code) =
          IF rep >= 2 \/ Exhausted(task.sem + 1, SemBudget) THEN Moved("OWNER_GATE")
          ELSE [Moved(FailState[role]) EXCEPT !.sem = @ + 1, !.fp = fp, !.rep = rep]
    BY DEF SemanticFailed, Gated
  <1>2. CASE rep >= 2 \/ Exhausted(task.sem + 1, SemBudget)
    <2>1. SemanticFailed(role, stage, code) = Moved("OWNER_GATE")
      BY <1>1, <1>2
    <2>2. "OWNER_GATE" \in State
      BY DEF State, Terminal
    <2> QED
      BY <2>1, <2>2, MovedInRow
  <1>3. CASE ~(rep >= 2 \/ Exhausted(task.sem + 1, SemBudget))
    <2>1. fp \in Fingerprint /\ fp # None
      BY Budgets DEF Fingerprint
    <2>2. rep = 1
      BY <1>3, TaskRowIs
    <2>3. task.sem + 1 \in 0..SemBudget
      BY <1>3, TaskRowIs, Budgets DEF Exhausted
    <2>4. PICK f, n, m : f = fp /\ n = rep /\ m = Moved(FailState[role])
      OBVIOUS
    <2>5. m = [state |-> FailState[role], sem |-> task.sem, trans |-> task.trans, fp |-> task.fp,
               rep |-> task.rep, claim |-> None]
      BY <2>4, MovedIs, StateNames
    <2>6. SemanticFailed(role, stage, code) = [m EXCEPT !.sem = m.sem + 1, !.fp = f, !.rep = n]
      BY <1>1, <1>3, <2>4
    <2>7. PICK t : t = [m EXCEPT !.sem = m.sem + 1, !.fp = f, !.rep = n]
      OBVIOUS
    <2> HIDE DEF fp, rep
    <2>8. t = [state |-> FailState[role], sem |-> task.sem + 1, trans |-> task.trans, fp |-> f,
               rep |-> n, claim |-> None]
      BY <2>5, <2>7
    <2>9. t \in TaskRow
      BY <2>1, <2>2, <2>3, <2>4, <2>8, StateNames, TaskRowIs DEF TaskRow
    <2>10. n # 0 /\ f # None /\ FailState[role] \in Entering
      BY <2>1, <2>2, <2>4, StateNames
    <2>11. /\ t.claim = None /\ t.trans = task.trans /\ t.rep = n /\ t.fp = f
           /\ t.state = FailState[role] /\ t.sem = task.sem + 1
      BY <2>8
    <2>12. SemanticFailed(role, stage, code) = t
      BY <2>6, <2>7
    <2> QED
      BY <2>9, <2>10, <2>11, <2>12
  <1> QED
    BY <1>2, <1>3

LEMMA TransientIs ==
    ASSUME task \in TaskRow, task.rep = 0 <=> task.fp = None
    PROVE  LET t == TransientFailed
           IN  /\ t \in TaskRow /\ t.claim = None /\ t.sem = task.sem
               /\ t.rep = 0 <=> t.fp = None
               /\ \/ t.state = "OWNER_GATE" /\ t.trans = task.trans
                  \/ t.state = task.state /\ t.trans = task.trans + 1
  <1>1. CASE Exhausted(task.trans + 1, TransBudget)
    <2>1. TransientFailed = Moved("OWNER_GATE") /\ "OWNER_GATE" \in State
      BY <1>1 DEF TransientFailed, Gated, State, Terminal
    <2> QED
      BY <2>1, MovedInRow
  <1>2. CASE ~Exhausted(task.trans + 1, TransBudget)
    <2>1. task.trans + 1 \in 0..TransBudget
      BY <1>2, TaskRowIs, Budgets DEF Exhausted
    <2>2. PICK m : m = Moved(task.state)
      OBVIOUS
    <2>3. m = [state |-> task.state, sem |-> task.sem, trans |-> task.trans, fp |-> task.fp,
               rep |-> task.rep, claim |-> None]
      BY <2>2, MovedIs, TaskRowIs
    <2>4. TransientFailed = [m EXCEPT !.trans = m.trans + 1]
      BY <1>2, <2>2 DEF TransientFailed
    <2>5. [m EXCEPT !.trans = m.trans + 1] =
              [state |-> task.state, sem |-> task.sem, trans |-> task.trans + 1, fp |-> task.fp,
               rep |-> task.rep, claim |-> None]
      BY <2>3
    <2>6. TransientFailed \in TaskRow
      BY <2>1, <2>4, <2>5, TaskRowIs DEF TaskRow
    <2> QED
      BY <2>4, <2>5, <2>6
  <1> QED
    BY <1>1, <1>2

LEMMA PassedIs ==
    ASSUME task \in TaskRow, task.rep = 0 <=> task.fp = None, NEW role \in Role
    PROVE  LET t == Passed(role)
           IN  /\ t \in TaskRow /\ t.claim = task.claim /\ t.sem = task.sem /\ t.trans = task.trans
               /\ t.rep = 0 <=> t.fp = None
               /\ t.state = PassState[role]
  <1>1. PICK t, s, f, n :
                       /\ t = task
                       /\ s = PassState[role]
                       /\ f = IF role = "IMPLEMENT" THEN task.fp ELSE None
                       /\ n = IF role = "IMPLEMENT" THEN task.rep ELSE 0
    OBVIOUS
  <1>2. t = [state |-> task.state, sem |-> task.sem, trans |-> task.trans, fp |-> task.fp,
             rep |-> task.rep, claim |-> task.claim]
    BY <1>1, TaskRowIs
  <1>3. Passed(role) = [t EXCEPT !.state = s, !.fp = f, !.rep = n]
    BY <1>1 DEF Passed
  <1>3a. PICK u : u = [t EXCEPT !.state = s, !.fp = f, !.rep = n]
    OBVIOUS
  <1>4. u = [state |-> s, sem |-> task.sem, trans |-> task.trans, fp |-> f,
             rep |-> n, claim |-> task.claim]
    BY <1>2, <1>3a
  <1>5. s \in State
    BY <1>1 DEF PassState, State, Terminal, Role
  <1>6. f \in Fingerprint \cup {None} /\ n \in 0..1 /\ (n = 0 <=> f = None)
    BY <1>1, TaskRowIs
  <1>7. Passed(role) \in TaskRow
    BY <1>1, <1>3, <1>3a, <1>4, <1>5, <1>6, TaskRowIs DEF TaskRow
  <1> QED
    BY <1>1, <1>3, <1>3a, <1>4, <1>6, <1>7

-----------------------------------------------------------------------------
(* What a step leaves of the process.                                      *)

LEMMA ReadyIs ==
    ASSUME NEW n \in 0..MaxSteps
    PROVE  LET d == [Ready EXCEPT !.steps = n]
           IN d \in Mind /\ d.pc = "idle" /\ d.claim = None /\ d.steps = n
  <1>1. PICK r : r = Ready
    OBVIOUS
  <1>2. r = [pc |-> "idle", seen |-> "PENDING", key |-> None, claim |-> None, out |-> None, steps |-> 0]
    BY <1>1 DEF Ready
  <1>3. PICK d : d = [r EXCEPT !.steps = n]
    OBVIOUS
  <1>4. d = [pc |-> "idle", seen |-> "PENDING", key |-> None, claim |-> None, out |-> None, steps |-> n]
    BY <1>2, <1>3
  <1>5. /\ d.pc = "idle" /\ d.seen = "PENDING" /\ d.key = None /\ d.claim = None
        /\ d.out = None /\ d.steps = n
    BY <1>4
  <1>6. "idle" \in Place /\ "PENDING" \in State
    BY DEF Place, State, Entering
  <1>7. d \in Mind
    BY <1>4, <1>6 DEF Mind
  <1> QED
    BY <1>1, <1>3, <1>5, <1>7

LEMMA ReadyAt ==
    ASSUME NEW p \in {"rollback", "recover"}
    PROVE  LET d == [Ready EXCEPT !.pc = p]
           IN d \in Mind /\ d.pc = p /\ d.claim = None /\ d.steps = 0
  <1>1. PICK r : r = Ready
    OBVIOUS
  <1>2. r = [pc |-> "idle", seen |-> "PENDING", key |-> None, claim |-> None, out |-> None, steps |-> 0]
    BY <1>1 DEF Ready
  <1>3. PICK d : d = [r EXCEPT !.pc = p]
    OBVIOUS
  <1>4. d = [pc |-> p, seen |-> "PENDING", key |-> None, claim |-> None, out |-> None, steps |-> 0]
    BY <1>2, <1>3
  <1>5. d.pc = p /\ d.claim = None /\ d.steps = 0
    BY <1>4
  <1>6. p \in Place /\ "PENDING" \in State /\ 0 \in 0..MaxSteps
    BY Budgets DEF Place, State, Entering
  <1>7. d \in Mind
    BY <1>4, <1>6 DEF Mind
  <1> QED
    BY <1>1, <1>3, <1>5, <1>7

LEMMA ReadyMind == Ready \in Mind /\ Ready.pc = "idle" /\ Ready.claim = None /\ Ready.steps = 0
  BY Budgets DEF Ready, Mind, Place, State, Entering

LEMMA AskedKept ==
    ASSUME OrchInv, UNCHANGED <<asked, answer>>, task' \in TaskRow, task.sem <= task'.sem
    PROVE  AskedInOrder'
  <1>1. /\ task.sem \in Nat /\ task'.sem \in Nat /\ asked \subseteq OperationKey
        /\ \A k \in OperationKey : k.gen \in Nat
    BY OrchTyped, TaskRowIs, Budgets DEF OperationKey, TaskRow
  <1>2. \A k \in asked : k.gen <= task'.sem
    BY <1>1 DEF OrchInv, AskedInOrder
  <1> QED
    BY <1>2 DEF OrchInv, AskedInOrder, PassedBy

(* With one process, the state after a step of it is what the step left of *)
(* the row and of that process.                                            *)
LEMMA OrchKept ==
    ASSUME OneProcess, OrchInv, NEW o \in Orch, NEW t \in TaskRow, NEW d \in Mind,
           task' = t, t.rep = 0 <=> t.fp = None, proc' = [proc EXCEPT ![o] = d],
           fresh' \in BOOLEAN, answer' = answer, asked' \subseteq OperationKey, AskedInOrder',
           crashes' \in 0..MaxCrash,
           t.claim # None => t.state \notin Terminal,
           PassesSoFar(t, answer), Fits(d, t, answer), Counted(d, t)
    PROVE  OrchInv'
  <1>1. proc \in [Orch -> Mind] /\ answer \in [OperationKey -> Outcome \cup {None}]
    BY OrchTyped
  <1>2. proc' \in [Orch -> Mind] /\ \A p \in Orch : proc'[p] = d
    BY <1>1 DEF OneProcess
  <1>3. OrchTypeOK'
    BY <1>1, <1>2 DEF OrchTypeOK, TaskRow, Mind
  <1> QED
    BY <1>2, <1>3 DEF OrchInv

LEMMA OrchFrame ==
    ASSUME OrchInv
    PROVE  /\ fresh \in BOOLEAN /\ crashes \in 0..MaxCrash /\ asked \subseteq OperationKey
           /\ task \in TaskRow /\ (task.rep = 0 <=> task.fp = None)
           /\ PassesSoFar(task, answer)
           /\ task.claim # None => task.state \notin Terminal
           /\ \A o \in Orch : /\ Fits(proc[o], task, answer) /\ Counted(proc[o], task)
                              /\ proc[o] \in Mind /\ proc[o].steps \in 0..MaxSteps
                              /\ proc[o].pc \in Place
  BY DEF OrchInv, OrchTypeOK, TaskRow, Mind

LEMMA IdleFits ==
    ASSUME NEW d, NEW t, NEW a, d.pc = "idle", d.claim = None
    PROVE  Fits(d, t, a)
  BY DEF Fits, Stepping

LEMMA IdleCounted ==
    ASSUME NEW d, NEW t, d.pc = "idle", d.steps \in Nat,
           d.steps <= 3 * t.sem + t.trans + Phase(t.state), t \in TaskRow
    PROVE  Counted(d, t)
  <1>1. t.sem \in Nat /\ t.trans \in Nat /\ Phase(t.state) \in Nat
    BY TaskRowIs, Phases, Budgets
  <1> QED
    BY <1>1 DEF Counted, Stepping

(* A call of step that is over, whichever way it changed the row.          *)
LEMMA StepOver ==
    ASSUME OneProcess, OrchInv, NEW o \in Orch, NEW t \in TaskRow,
           task' = t, t.rep = 0 <=> t.fp = None, proc' = Back(o),
           UNCHANGED <<fresh, asked, answer, crashes>>,
           t.claim # None => t.state \notin Terminal,
           PassesSoFar(t, answer), task.sem <= t.sem,
           proc[o].steps <= 3 * t.sem + t.trans + Phase(t.state)
    PROVE  OrchInv'
  <1>1. PICK d : d = [Ready EXCEPT !.steps = proc[o].steps]
    OBVIOUS
  <1>2. proc[o].steps \in 0..MaxSteps
    BY OrchFrame
  <1>3. d \in Mind /\ d.pc = "idle" /\ d.claim = None /\ d.steps = proc[o].steps
    BY <1>1, <1>2, ReadyIs
  <1>4. Fits(d, t, answer)
    BY <1>3, IdleFits
  <1>5. Counted(d, t)
    BY <1>2, <1>3, IdleCounted, Budgets
  <1>6. proc' = [proc EXCEPT ![o] = d]
    BY <1>1 DEF Back
  <1>7. AskedInOrder'
    BY AskedKept
  <1> QED
    BY <1>3, <1>4, <1>5, <1>6, <1>7, OrchFrame, OrchKept

(* An exception that ends run_until_terminal.                              *)
LEMMA RunEnded ==
    ASSUME OneProcess, OrchInv, NEW o \in Orch, NEW t \in TaskRow,
           task' = t, t.rep = 0 <=> t.fp = None, proc' = Raised(o),
           fresh' \in BOOLEAN, UNCHANGED <<asked, answer>>, crashes' \in 0..MaxCrash,
           t.claim # None => t.state \notin Terminal,
           PassesSoFar(t, answer), task.sem <= t.sem
    PROVE  OrchInv'
  <1>1. PICK d : d = Ready
    OBVIOUS
  <1>2. d \in Mind /\ d.pc = "idle" /\ d.claim = None /\ d.steps = 0
    BY <1>1, ReadyMind
  <1>3. Fits(d, t, answer)
    BY <1>2, IdleFits
  <1>4. t.sem \in Nat /\ t.trans \in Nat /\ Phase(t.state) \in Nat
    BY TaskRowIs, Phases, Budgets
  <1>5. Counted(d, t)
    BY <1>2, <1>4, IdleCounted
  <1>6. proc' = [proc EXCEPT ![o] = d]
    BY <1>1 DEF Raised
  <1>7. AskedInOrder'
    BY AskedKept
  <1> QED
    BY <1>2, <1>3, <1>5, <1>6, <1>7, OrchFrame, OrchKept

-----------------------------------------------------------------------------
(* The steps.                                                              *)

(* In a call of step the task is on its way, and one call is still to be   *)
(* accounted for.                                                          *)
LEMMA Underway ==
    ASSUME OrchInv, NEW o \in Orch, proc[o].pc \in Stepping
    PROVE  /\ task.state \notin Terminal /\ task.state \in State
           /\ task.sem \in Nat /\ task.trans \in Nat /\ proc[o].steps \in Nat
           /\ Phase(task.state) \in 0..2
           /\ proc[o].steps <= 3 * task.sem + task.trans + Phase(task.state) + 1
  <1>1. /\ Fits(proc[o], task, answer) /\ Counted(proc[o], task) /\ proc[o].steps \in Nat /\ task \in TaskRow
    BY OrchFrame
  <1>2. task.state \notin Terminal
    BY <1>1 DEF Fits, Stepping, InState, RoleOf, Terminal
  <1>3. task.state \in State /\ task.sem \in Nat /\ task.trans \in Nat
    BY <1>1, TaskRowIs, Budgets
  <1> QED
    BY <1>1, <1>2, <1>3, Phases DEF Counted

LEMMA PhaseOf ==
    /\ \A s \in Terminal : Phase(s) = 3
    /\ \A s \in Entering : Phase(s) = 0
    /\ Phase("IN_IMPLEMENT") = 0 /\ Phase("IN_LAB") = 1 /\ Phase("IN_AUDIT") = 2
  BY DEF Phase, Terminal, Entering

LEMMA GatedIs ==
    ASSUME OrchInv
    PROVE  /\ Gated \in TaskRow /\ Gated.state = "OWNER_GATE" /\ Gated.claim = None
           /\ (Gated.rep = 0 <=> Gated.fp = None)
           /\ Gated.sem = task.sem /\ Gated.trans = task.trans
           /\ PassesSoFar(Gated, answer)
  <1>1. "OWNER_GATE" \in State
    BY DEF State, Terminal
  <1>2. task \in TaskRow /\ (task.rep = 0 <=> task.fp = None)
    BY OrchFrame
  <1>3. /\ Gated \in TaskRow /\ Gated.state = "OWNER_GATE" /\ Gated.claim = None
        /\ Gated.sem = task.sem /\ Gated.trans = task.trans
        /\ Gated.fp = task.fp /\ Gated.rep = task.rep
    BY <1>1, <1>2, MovedInRow DEF Gated
  <1>4. PassesSoFar(Gated, answer)
    BY <1>3 DEF PassesSoFar
  <1> QED
    BY <1>2, <1>3, <1>4

(* A call of step that leaves the task to the owner, with a fix asked for, *)
(* or to be tried again.                                                   *)
LEMMA OverGated ==
    ASSUME OneProcess, OrchInv, NEW o \in Orch, proc[o].pc \in Stepping,
           NEW t \in TaskRow, task' = t, t.rep = 0 <=> t.fp = None, t.claim = None,
           \/ t.state = "OWNER_GATE" /\ t.sem = task.sem /\ t.trans = task.trans
           \/ t.state \in Entering /\ t.sem = task.sem + 1 /\ t.trans = task.trans
           \/ t.state = task.state /\ t.sem = task.sem /\ t.trans = task.trans + 1,
           proc' = Back(o), UNCHANGED <<fresh, asked, answer, crashes>>
    PROVE  OrchInv'
  <1>1. /\ task.sem \in Nat /\ task.trans \in Nat /\ proc[o].steps \in Nat
        /\ Phase(task.state) \in 0..2
        /\ proc[o].steps <= 3 * task.sem + task.trans + Phase(task.state) + 1
    BY Underway
  <1>2. PassesSoFar(task, answer)
    BY OrchFrame
  <1>3. CASE t.state = "OWNER_GATE" /\ t.sem = task.sem /\ t.trans = task.trans
    <2>1. Phase(t.state) = 3
      BY <1>3, PhaseOf DEF Terminal
    <2>2. PassesSoFar(t, answer)
      BY <1>3 DEF PassesSoFar
    <2>3. task.sem <= t.sem /\ proc[o].steps <= 3 * t.sem + t.trans + Phase(t.state)
      BY <1>1, <1>3, <2>1
    <2> QED
      BY <2>2, <2>3, StepOver
  <1>4. CASE t.state \in Entering /\ t.sem = task.sem + 1 /\ t.trans = task.trans
    <2>1. Phase(t.state) = 0
      BY <1>4, PhaseOf
    <2>2. PassesSoFar(t, answer)
      BY <1>4 DEF PassesSoFar, Entering
    <2>3. task.sem <= t.sem /\ proc[o].steps <= 3 * t.sem + t.trans + Phase(t.state)
      BY <1>1, <1>4, <2>1
    <2> QED
      BY <2>2, <2>3, StepOver
  <1>5. CASE t.state = task.state /\ t.sem = task.sem /\ t.trans = task.trans + 1
    <2>1. PassesSoFar(t, answer)
      BY <1>2, <1>5 DEF PassesSoFar
    <2>2. task.sem <= t.sem /\ proc[o].steps <= 3 * t.sem + t.trans + Phase(t.state)
      BY <1>1, <1>5
    <2> QED
      BY <2>1, <2>2, StepOver
  <1> QED
    BY <1>3, <1>4, <1>5

LEMMA CallKeeps ==
    ASSUME OneProcess, OrchInv, NEW o \in Orch, Call(o)
    PROVE  OrchInv'
  <1>1. proc[o].pc = "idle" /\ UNCHANGED <<fresh, asked, answer, crashes>>
    BY DEF Call, AtStep
  <1>2. CASE proc[o].steps = MaxSteps
    <2>1. task' = Gated /\ proc' = Raised(o)
      BY <1>2 DEF Call
    <2>2. task.sem <= Gated.sem
      BY GatedIs, TaskRowIs, Budgets
    <2> QED
      BY <1>1, <2>1, <2>2, GatedIs, OrchFrame, RunEnded
  <1>3. CASE proc[o].steps # MaxSteps
    <2>1. /\ UNCHANGED task /\ task.state \notin Terminal
          /\ proc' = [proc EXCEPT ![o] = [proc[o] EXCEPT
                          !.pc = "begin", !.steps = proc[o].steps + 1, !.seen = task.state]]
      BY <1>3 DEF Call
    <2>2. PICK p, n, s : p = proc[o] /\ n = proc[o].steps + 1 /\ s = task.state
      OBVIOUS
    <2>3. PICK d : d = [p EXCEPT !.pc = "begin", !.steps = n, !.seen = s]
      OBVIOUS
    <2>4. p \in Mind /\ p.steps \in Nat /\ p.steps + 1 \in 0..MaxSteps
      BY <1>3, <2>2, OrchFrame, Budgets
    <2>5. p = [pc |-> p.pc, seen |-> p.seen, key |-> p.key, claim |-> p.claim, out |-> p.out, steps |-> p.steps]
      BY <2>4 DEF Mind
    <2>6. d = [pc |-> "begin", seen |-> s, key |-> p.key, claim |-> p.claim, out |-> p.out, steps |-> n]
      BY <2>3, <2>5
    <2>7. s \in State /\ n \in 0..MaxSteps /\ "begin" \in Place
      BY <2>2, <2>4, OrchFrame, TaskRowIs DEF Place
    <2>8. d \in Mind
      BY <2>4, <2>6, <2>7 DEF Mind
    <2>9. d.pc = "begin" /\ d.seen = task.state /\ d.claim = p.claim /\ d.steps = p.steps + 1
      BY <2>2, <2>6
    <2>10. p.claim = None /\ p.steps <= 3 * task.sem + task.trans + Phase(task.state)
      <3>1. Fits(p, task, answer) /\ Counted(p, task) /\ p.pc = "idle"
        BY <1>1, <2>2, OrchFrame
      <3>2. task.sem \in Nat /\ task.trans \in Nat /\ Phase(task.state) \in Nat
        BY OrchFrame, TaskRowIs, Phases, Budgets
      <3> QED
        BY <3>1, <3>2, <2>4 DEF Fits, Counted, Stepping, Place
    <2>11. Fits(d, task, answer)
      BY <2>1, <2>9, <2>10 DEF Fits, Stepping
    <2>12. Counted(d, task)
      <3>1. task.sem \in Nat /\ task.trans \in Nat /\ Phase(task.state) \in Nat
        BY OrchFrame, TaskRowIs, Phases, Budgets
      <3> QED
        BY <3>1, <2>4, <2>9, <2>10 DEF Counted, Stepping
    <2>13. proc' = [proc EXCEPT ![o] = d]
      BY <2>1, <2>2, <2>3
    <2>14. AskedInOrder' /\ UNCHANGED task
      BY <1>1, <2>1 DEF OrchInv, AskedInOrder, PassedBy
    <2> QED
      BY <1>1, <2>8, <2>11, <2>12, <2>13, <2>14, OrchFrame, OrchKept
  <1> QED
    BY <1>2, <1>3

LEMMA UnboundKeeps ==
    ASSUME OneProcess, OrchInv, NEW o \in Orch, Unbound(o)
    PROVE  OrchInv'
  <1>1. /\ proc[o].pc \in Stepping /\ task' = Gated /\ proc' = Back(o)
        /\ UNCHANGED <<fresh, asked, answer, crashes>>
    BY DEF Unbound, AtStep, Stepping
  <1> QED
    BY <1>1, GatedIs, OverGated

LEMMA WorkerFailsKeeps ==
    ASSUME OneProcess, OrchInv, NEW o \in Orch, WorkerFails(o)
    PROVE  OrchInv'
  <1>1. /\ proc[o].pc \in Stepping /\ task' = Gated /\ proc' = Back(o)
        /\ UNCHANGED <<fresh, asked, answer, crashes>>
    BY DEF WorkerFails, AtStep, Stepping
  <1> QED
    BY <1>1, GatedIs, OverGated

LEMMA NoResultKeeps ==
    ASSUME OneProcess, OrchInv, NEW o \in Orch, NoResult(o)
    PROVE  OrchInv'
  <1>1. /\ proc[o].pc \in Stepping /\ task' = TransientFailed /\ proc' = Back(o)
        /\ UNCHANGED <<fresh, asked, answer, crashes>>
    BY DEF NoResult, AtStep, Stepping
  <1>2. PICK t : t = TransientFailed
    OBVIOUS
  <1>3. /\ t \in TaskRow /\ t.claim = None /\ t.sem = task.sem
        /\ t.rep = 0 <=> t.fp = None
        /\ \/ t.state = "OWNER_GATE" /\ t.trans = task.trans
           \/ t.state = task.state /\ t.trans = task.trans + 1
    BY <1>2, OrchFrame, TransientIs
  <1> QED
    BY <1>1, <1>2, <1>3, OverGated

LEMMA TimeoutKeeps ==
    ASSUME OneProcess, OrchInv, NEW o \in Orch, Timeout(o)
    PROVE  OrchInv'
  <1>1. /\ proc[o].pc \in Stepping /\ proc' = Back(o)
        /\ task' = SemanticFailed(RoleNow(o), RoleNow(o), "TIMEOUT")
        /\ UNCHANGED <<fresh, asked, answer, crashes>>
    BY DEF Timeout, AtStep, Stepping
  <1>2. RoleNow(o) \in Role
    BY DEF RoleNow, RoleOf, Role
  <1>3. PICK t, r : r = RoleNow(o) /\ t = SemanticFailed(r, r, "TIMEOUT")
    OBVIOUS
  <1>4. /\ t \in TaskRow /\ t.claim = None /\ t.trans = task.trans
        /\ t.rep = 0 <=> t.fp = None
        /\ \/ t.state = "OWNER_GATE" /\ t.sem = task.sem
           \/ t.state \in Entering /\ t.sem = task.sem + 1
    BY <1>2, <1>3, OrchFrame, FailedIs
  <1> QED
    BY <1>1, <1>3, <1>4, OverGated

(* A process that goes on within step.                                     *)
LEMMA Onward ==
    ASSUME proc \in [Orch -> Mind], NEW o \in Orch, NEW x \in Place,
           proc' = [proc EXCEPT ![o].pc = x]
    PROVE  \E d \in Mind : /\ proc' = [proc EXCEPT ![o] = d] /\ d.pc = x /\ d.seen = proc[o].seen
                           /\ d.key = proc[o].key /\ d.claim = proc[o].claim
                           /\ d.out = proc[o].out /\ d.steps = proc[o].steps
  <1>1. PICK p : p = proc[o]
    OBVIOUS
  <1>2. p \in Mind
    BY <1>1
  <1>3. PICK d : d = [p EXCEPT !.pc = x]
    OBVIOUS
  <1>4. p = [pc |-> p.pc, seen |-> p.seen, key |-> p.key, claim |-> p.claim, out |-> p.out, steps |-> p.steps]
    BY <1>2 DEF Mind
  <1>5. d = [pc |-> x, seen |-> p.seen, key |-> p.key, claim |-> p.claim, out |-> p.out, steps |-> p.steps]
    BY <1>3, <1>4
  <1>6. d \in Mind
    BY <1>2, <1>5 DEF Mind
  <1>7. proc' = [proc EXCEPT ![o] = d]
    BY <1>1, <1>3
  <1>8. /\ d.pc = x /\ d.seen = p.seen /\ d.key = p.key /\ d.claim = p.claim /\ d.out = p.out
        /\ d.steps = p.steps
    BY <1>5
  <1> QED
    BY <1>1, <1>6, <1>7, <1>8

(* Within step the count stands while the phase of the task does.          *)
LEMMA CountStands ==
    ASSUME OrchInv, NEW o \in Orch, proc[o].pc \in Stepping, NEW d, NEW t,
           d.pc \in Stepping, d.steps = proc[o].steps,
           t.sem = task.sem, t.trans = task.trans, Phase(t.state) = Phase(task.state)
    PROVE  Counted(d, t)
  BY OrchFrame DEF Counted

LEMMA BeginKeeps ==
    ASSUME OneProcess, OrchInv, NEW o \in Orch, Begin(o)
    PROVE  OrchInv'
  <1>1. /\ proc[o].pc = "begin" /\ task' = [task EXCEPT !.state = NextState(o)]
        /\ proc' = [proc EXCEPT ![o].pc = "start"]
        /\ UNCHANGED <<fresh, asked, answer, crashes>>
    BY DEF Begin, AtStep
  <1>2. PICK d \in Mind : /\ proc' = [proc EXCEPT ![o] = d] /\ d.pc = "start" /\ d.seen = proc[o].seen
                          /\ d.key = proc[o].key /\ d.claim = proc[o].claim
                          /\ d.out = proc[o].out /\ d.steps = proc[o].steps
    <2>1. "start" \in Place
      BY DEF Place
    <2> QED
      BY <1>1, <2>1, OrchTyped, Onward
  <1>3. PICK s : s = NextState(o)
    OBVIOUS
  <1>4. PICK r : r = task
    OBVIOUS
  <1>5. PICK t : t = [r EXCEPT !.state = s]
    OBVIOUS
  <1>6. t = [state |-> s, sem |-> task.sem, trans |-> task.trans, fp |-> task.fp,
             rep |-> task.rep, claim |-> task.claim]
    <2>1. r = [state |-> task.state, sem |-> task.sem, trans |-> task.trans, fp |-> task.fp,
               rep |-> task.rep, claim |-> task.claim]
      BY <1>4, OrchFrame, TaskRowIs
    <2> QED
      BY <1>5, <2>1
  <1>7. /\ t.state = s /\ t.sem = task.sem /\ t.trans = task.trans /\ t.fp = task.fp
        /\ t.rep = task.rep /\ t.claim = task.claim
    BY <1>6
  <1>8. /\ Fits(proc[o], task, answer) /\ proc[o].seen = task.state /\ task.state \notin Terminal
        /\ task.state \in State /\ proc[o].claim = None
    BY <1>1, OrchFrame, TaskRowIs DEF Fits, Place
  <1>9. \/ s = "IN_IMPLEMENT" /\ task.state \in Entering
        \/ s = task.state /\ s \in {"IN_IMPLEMENT", "IN_LAB", "IN_AUDIT"}
    BY <1>3, <1>8 DEF NextState, State
  <1>10. s = InState(RoleOf(task.state)) /\ s \in State /\ s \notin Terminal
    BY <1>9 DEF InState, RoleOf, Entering, State, Terminal
  <1>11. Phase(t.state) = Phase(task.state)
    BY <1>7, <1>9, PhaseOf
  <1>12. t \in TaskRow
    BY <1>6, <1>10, OrchFrame, TaskRowIs DEF TaskRow
  <1>13. Counted(d, t)
    BY <1>1, <1>2, <1>7, <1>11, CountStands DEF Stepping
  <1>14. Fits(d, t, answer)
    BY <1>2, <1>7, <1>8, <1>10 DEF Fits, Stepping
  <1>15. PassesSoFar(t, answer)
    BY <1>7, <1>9, OrchFrame DEF PassesSoFar
  <1>16. task' = t
    BY <1>1, <1>3, <1>4, <1>5
  <1>17. task.sem <= task'.sem
    BY <1>7, <1>16, OrchFrame, TaskRowIs, Budgets
  <1>18. AskedInOrder'
    BY <1>1, <1>12, <1>16, <1>17, AskedKept
  <1>19. (t.rep = 0 <=> t.fp = None) /\ (t.claim # None => t.state \notin Terminal)
    BY <1>7, <1>10, OrchFrame
  <1> QED
    BY <1>1, <1>2, <1>12, <1>13, <1>14, <1>15, <1>16, <1>18, <1>19, OrchFrame, OrchKept

LEMMA StartKeeps ==
    ASSUME OneProcess, OrchInv, NEW o \in Orch, Start(o)
    PROVE  OrchInv'
  <1>1. proc[o].pc = "start" /\ UNCHANGED <<asked, answer, crashes>>
    BY DEF Start, AtStep
  <1>2. CASE task.claim # None
    <2>1. proc' = Raised(o) /\ UNCHANGED <<task, fresh>>
      BY <1>2 DEF Start
    <2>2. task.sem <= task.sem
      BY OrchFrame, TaskRowIs, Budgets
    <2> QED
      BY <1>1, <2>1, <2>2, OrchFrame, RunEnded
  <1>3. CASE task.claim = None
    <2>1. PICK c : c = CHOOSE d \in ClaimId : FreshClaim(d)
      OBVIOUS
    <2>2. /\ task' = [task EXCEPT !.claim = c] /\ fresh' = TRUE
          /\ proc' = [proc EXCEPT ![o] = [proc[o] EXCEPT
                          !.pc = "ask", !.claim = c, !.key = KeyFor(RoleNow(o))]]
      BY <1>3, <2>1 DEF Start
    <2>3. Fits(proc[o], task, answer) /\ task.claim = None /\ proc[o].claim = None
      BY <1>1, <1>3, OrchFrame DEF Fits, Place
    <2>4. c \in ClaimId
      <3>1. \A d \in ClaimId : FreshClaim(d)
        BY <2>3, Budgets DEF FreshClaim, OneProcess
      <3>2. ClaimId # {}
        BY OrchestratorAssumption
      <3> QED
        BY <2>1, <3>1, <3>2 DEF PassedBy
    <2>5. RoleNow(o) \in Role /\ RoleNow(o) = RoleOf(proc[o].seen)
      BY DEF RoleNow, RoleOf, Role
    <2>6. PICK p, k, r : p = proc[o] /\ k = KeyFor(RoleNow(o)) /\ r = task
      OBVIOUS
    <2>7. k \in OperationKey /\ k = [role |-> RoleOf(p.seen), gen |-> task.sem]
      BY <2>5, <2>6, OrchFrame, TaskRowIs DEF KeyFor, OperationKey
    <2>8. PICK d, t : /\ d = [p EXCEPT !.pc = "ask", !.claim = c, !.key = k]
                      /\ t = [r EXCEPT !.claim = c]
      OBVIOUS
    <2>9. p \in Mind
      BY <2>6, OrchFrame
    <2>10. p = [pc |-> p.pc, seen |-> p.seen, key |-> p.key, claim |-> p.claim, out |-> p.out, steps |-> p.steps]
      BY <2>9 DEF Mind
    <2>11. d = [pc |-> "ask", seen |-> p.seen, key |-> k, claim |-> c, out |-> p.out, steps |-> p.steps]
      BY <2>8, <2>10
    <2>12. d \in Mind
      BY <2>4, <2>7, <2>9, <2>11 DEF Mind, Place
    <2>13. d.pc = "ask" /\ d.seen = p.seen /\ d.key = k /\ d.steps = p.steps
      BY <2>11
    <2>14. t = [state |-> task.state, sem |-> task.sem, trans |-> task.trans, fp |-> task.fp,
                rep |-> task.rep, claim |-> c]
      <3>1. r = [state |-> task.state, sem |-> task.sem, trans |-> task.trans, fp |-> task.fp,
                 rep |-> task.rep, claim |-> task.claim]
        BY <2>6, OrchFrame, TaskRowIs
      <3> QED
        BY <2>8, <3>1
    <2>15. /\ t.state = task.state /\ t.sem = task.sem /\ t.trans = task.trans /\ t.fp = task.fp
           /\ t.rep = task.rep
      BY <2>14
    <2>16. t \in TaskRow
      BY <2>4, <2>14, OrchFrame, TaskRowIs DEF TaskRow
    <2>17. task' = t /\ proc' = [proc EXCEPT ![o] = d]
      BY <2>2, <2>6, <2>8
    <2>18. Counted(d, t)
      BY <1>1, <2>6, <2>13, <2>15, CountStands DEF Stepping
    <2>19. Fits(d, t, answer)
      BY <1>1, <2>3, <2>6, <2>7, <2>13, <2>15 DEF Fits, Stepping, Place
    <2>20. PassesSoFar(t, answer)
      BY <2>15, OrchFrame DEF PassesSoFar
    <2>21. task.sem <= task'.sem
      BY <2>15, <2>17, OrchFrame, TaskRowIs, Budgets
    <2>22. AskedInOrder'
      BY <1>1, <2>16, <2>17, <2>21, AskedKept
    <2>23. t.state \notin Terminal
      BY <1>1, <2>15, Underway DEF Stepping
    <2>24. fresh' \in BOOLEAN
      BY <2>2
    <2> QED
      BY <1>1, <2>12, <2>15, <2>16, <2>17, <2>18, <2>19, <2>20, <2>22, <2>23, <2>24, OrchFrame, OrchKept
  <1> QED
    BY <1>2, <1>3

LEMMA AskKeeps ==
    ASSUME OneProcess, OrchInv, NEW o \in Orch, Ask(o)
    PROVE  OrchInv'
  <1>1. /\ proc[o].pc = "ask" /\ asked' = asked \cup {proc[o].key}
        /\ proc' = [proc EXCEPT ![o].pc = "wait"]
        /\ UNCHANGED <<task, fresh, answer, crashes>>
    BY DEF Ask, AtStep, Relay!Ask
  <1>2. PICK d \in Mind : /\ proc' = [proc EXCEPT ![o] = d] /\ d.pc = "wait" /\ d.seen = proc[o].seen
                          /\ d.key = proc[o].key /\ d.claim = proc[o].claim
                          /\ d.out = proc[o].out /\ d.steps = proc[o].steps
    <2>1. "wait" \in Place
      BY DEF Place
    <2> QED
      BY <1>1, <2>1, OrchTyped, Onward
  <1>3. Fits(proc[o], task, answer) /\ PassesSoFar(task, answer)
    BY OrchFrame
  <1>4. PICK k, role : k = proc[o].key /\ role = RoleOf(proc[o].seen)
    OBVIOUS
  <1>5. k = [role |-> role, gen |-> task.sem] /\ task.state = InState(role)
    BY <1>1, <1>3, <1>4 DEF Fits, Stepping
  <1>6. role \in Role /\ task.sem \in 0..SemBudget /\ task.sem \in Nat
    BY <1>4, OrchFrame, TaskRowIs, Budgets DEF RoleOf, Role
  <1>7. k \in OperationKey /\ k.role = role /\ k.gen = task.sem
    BY <1>5, <1>6 DEF OperationKey
  <1>8. asked' \subseteq OperationKey
    BY <1>1, <1>4, <1>7, OrchFrame
  <1>9. /\ role = "LAB" => PassedBy("IMPLEMENT", task.sem)
        /\ role = "AUDIT" => PassedBy("LAB", task.sem)
    BY <1>3, <1>5 DEF PassesSoFar, PassedBy, InState
  <1>10. AskedInOrder'
    <2>1. \A j \in asked' : j \in asked \/ j = k
      BY <1>1, <1>4
    <2>2. \A j \in asked : /\ j.gen <= task.sem
                           /\ j.role = "LAB" => PassedBy("IMPLEMENT", j.gen)
                           /\ j.role = "AUDIT" => PassedBy("LAB", j.gen)
      BY DEF OrchInv, AskedInOrder
    <2>3. /\ k.gen <= task.sem
          /\ k.role = "LAB" => PassedBy("IMPLEMENT", k.gen)
          /\ k.role = "AUDIT" => PassedBy("LAB", k.gen)
      BY <1>6, <1>7, <1>9
    <2>4. task'.sem = task.sem /\ answer' = answer
      BY <1>1
    <2>5. ASSUME NEW j \in asked'
          PROVE  /\ j.gen <= task.sem
                 /\ j.role = "LAB" => PassedBy("IMPLEMENT", j.gen)
                 /\ j.role = "AUDIT" => PassedBy("LAB", j.gen)
      <3>1. CASE j \in asked
        BY <2>2, <3>1
      <3>2. CASE j = k
        BY <2>3, <3>2
      <3> QED
        BY <2>1, <3>1, <3>2
    <2> QED
      BY <2>4, <2>5 DEF AskedInOrder, PassedBy
  <1>11. Fits(d, task, answer)
    BY <1>1, <1>2, <1>3 DEF Fits, Stepping
  <1>12. Counted(d, task)
    BY <1>1, <1>2, CountStands DEF Stepping
  <1> QED
    BY <1>1, <1>2, <1>8, <1>10, <1>11, <1>12, OrchFrame, OrchKept

LEMMA OrchHeartbeatKeeps ==
    ASSUME OneProcess, OrchInv, NEW o \in Orch, HeartbeatStep(o)
    PROVE  OrchInv'
  <1>1. UNCHANGED <<task, asked, answer, crashes>>
    BY DEF HeartbeatStep
  <1>2. CASE task.claim = proc[o].claim
    <2>1. fresh' = TRUE /\ UNCHANGED proc
      BY <1>2 DEF HeartbeatStep
    <2>2. OrchTypeOK'
      BY <1>1, <2>1 DEF OrchInv, OrchTypeOK
    <2>3. AskedInOrder'
      BY <1>1 DEF OrchInv, AskedInOrder, PassedBy
    <2> QED
      BY <1>1, <2>1, <2>2, <2>3 DEF OrchInv
  <1>3. CASE task.claim # proc[o].claim
    <2>1. proc' = Raised(o) /\ UNCHANGED fresh
      BY <1>3 DEF HeartbeatStep
    <2>2. task.sem <= task.sem
      BY OrchFrame, TaskRowIs, Budgets
    <2> QED
      BY <1>1, <2>1, <2>2, OrchFrame, RunEnded
  <1> QED
    BY <1>2, <1>3

LEMMA ReturnKeeps ==
    ASSUME OneProcess, OrchInv, NEW o \in Orch, Return(o)
    PROVE  OrchInv'
  <1>1. /\ proc[o].pc = "wait" /\ answer[proc[o].key] # None
        /\ proc' = [proc EXCEPT ![o] = [proc[o] EXCEPT !.pc = "finish", !.out = answer[proc[o].key]]]
        /\ UNCHANGED <<task, fresh, asked, answer, crashes>>
    BY DEF Return, AtStep
  <1>2. PICK p, a : p = proc[o] /\ a = answer[proc[o].key]
    OBVIOUS
  <1>3. PICK d : d = [p EXCEPT !.pc = "finish", !.out = a]
    OBVIOUS
  <1>4. p \in Mind /\ Fits(p, task, answer)
    BY <1>2, OrchFrame
  <1>5. p = [pc |-> p.pc, seen |-> p.seen, key |-> p.key, claim |-> p.claim, out |-> p.out, steps |-> p.steps]
    BY <1>4 DEF Mind
  <1>6. d = [pc |-> "finish", seen |-> p.seen, key |-> p.key, claim |-> p.claim, out |-> a, steps |-> p.steps]
    BY <1>3, <1>5
  <1>7. p.key \in OperationKey
    <2>1. p.key = [role |-> RoleOf(p.seen), gen |-> task.sem]
      BY <1>1, <1>2, <1>4 DEF Fits, Stepping
    <2>2. RoleOf(p.seen) \in Role /\ task.sem \in 0..SemBudget
      BY OrchFrame, TaskRowIs DEF RoleOf, Role
    <2> QED
      BY <2>1, <2>2 DEF OperationKey
  <1>8. a \in Outcome \cup {None}
    BY <1>2, <1>7, OrchTyped
  <1>9. d \in Mind
    BY <1>4, <1>6, <1>8 DEF Mind, Place
  <1>10. /\ d.pc = "finish" /\ d.seen = p.seen /\ d.key = p.key /\ d.claim = p.claim /\ d.out = a
         /\ d.steps = p.steps
    BY <1>6
  <1>11. proc' = [proc EXCEPT ![o] = d]
    BY <1>1, <1>2, <1>3
  <1>12. Fits(d, task, answer)
    BY <1>1, <1>2, <1>4, <1>10 DEF Fits, Stepping
  <1>13. Counted(d, task)
    BY <1>1, <1>2, <1>10, CountStands DEF Stepping
  <1>14. AskedInOrder'
    BY <1>1 DEF OrchInv, AskedInOrder, PassedBy
  <1> QED
    BY <1>1, <1>9, <1>11, <1>12, <1>13, <1>14, OrchFrame, OrchKept

(* The row after what finish_step and recover_stale write.                 *)
LEMMA Unclaimed ==
    ASSUME OrchInv, NEW t, t = [task EXCEPT !.claim = None]
    PROVE  /\ t \in TaskRow /\ t.state = task.state /\ t.sem = task.sem /\ t.trans = task.trans
           /\ t.claim = None /\ (t.rep = 0 <=> t.fp = None) /\ PassesSoFar(t, answer)
  <1>1. PICK r : r = task
    OBVIOUS
  <1>2. r = [state |-> task.state, sem |-> task.sem, trans |-> task.trans, fp |-> task.fp,
             rep |-> task.rep, claim |-> task.claim]
    BY <1>1, OrchFrame, TaskRowIs
  <1>3. t = [r EXCEPT !.claim = None]
    BY <1>1
  <1>4. t = [state |-> task.state, sem |-> task.sem, trans |-> task.trans, fp |-> task.fp,
             rep |-> task.rep, claim |-> None]
    BY <1>2, <1>3
  <1>5. t \in TaskRow
    BY <1>4, OrchFrame, TaskRowIs DEF TaskRow
  <1>6. /\ t.state = task.state /\ t.sem = task.sem /\ t.trans = task.trans
        /\ t.claim = None /\ t.rep = task.rep /\ t.fp = task.fp
    BY <1>4
  <1> QED
    BY <1>5, <1>6, OrchFrame DEF PassesSoFar

LEMMA FinishKeeps ==
    ASSUME OneProcess, OrchInv, NEW o \in Orch, Finish(o)
    PROVE  OrchInv'
  <1>1. proc[o].pc = "finish" /\ UNCHANGED <<fresh, asked, answer, crashes>>
    BY DEF Finish, AtStep
  <1>2. CASE task.claim = proc[o].claim
    <2>1. task' = [task EXCEPT !.claim = None] /\ proc' = [proc EXCEPT ![o].pc = "judge"]
      BY <1>2 DEF Finish
    <2>2. PICK d \in Mind : /\ proc' = [proc EXCEPT ![o] = d] /\ d.pc = "judge" /\ d.seen = proc[o].seen
                            /\ d.key = proc[o].key /\ d.claim = proc[o].claim
                            /\ d.out = proc[o].out /\ d.steps = proc[o].steps
      <3>1. "judge" \in Place
        BY DEF Place
      <3> QED
        BY <2>1, <3>1, OrchTyped, Onward
    <2>3. PICK t : t = [task EXCEPT !.claim = None]
      OBVIOUS
    <2>4. /\ t \in TaskRow /\ t.state = task.state /\ t.sem = task.sem /\ t.trans = task.trans
          /\ t.claim = None /\ (t.rep = 0 <=> t.fp = None) /\ PassesSoFar(t, answer)
      BY <2>3, Unclaimed
    <2>5. Fits(d, t, answer)
      BY <1>1, <2>2, <2>4, OrchFrame DEF Fits, Stepping
    <2>6. Counted(d, t)
      BY <1>1, <2>2, <2>4, CountStands DEF Stepping
    <2>7. task.sem <= task'.sem /\ task' = t
      BY <2>1, <2>3, <2>4, OrchFrame, TaskRowIs, Budgets
    <2>8. AskedInOrder'
      BY <1>1, <2>4, <2>7, AskedKept
    <2> QED
      BY <1>1, <2>2, <2>4, <2>5, <2>6, <2>7, <2>8, OrchFrame, OrchKept
  <1>3. CASE task.claim # proc[o].claim
    <2>1. proc' = Raised(o) /\ UNCHANGED task
      BY <1>3 DEF Finish
    <2>2. task.sem <= task.sem
      BY OrchFrame, TaskRowIs, Budgets
    <2> QED
      BY <1>1, <2>1, <2>2, OrchFrame, RunEnded
  <1> QED
    BY <1>2, <1>3

LEMMA JudgeKeeps ==
    ASSUME OneProcess, OrchInv, NEW o \in Orch, Judge(o)
    PROVE  OrchInv'
  <1>1. /\ proc[o].pc = "judge" /\ proc[o].pc \in Stepping
        /\ task' = Judged(RoleNow(o), proc[o].out) /\ proc' = Back(o)
        /\ UNCHANGED <<fresh, asked, answer, crashes>>
    BY DEF Judge, AtStep, Stepping
  <1>2. PICK role, out : role = RoleNow(o) /\ out = proc[o].out
    OBVIOUS
  <1>3. role \in Role /\ role = RoleOf(proc[o].seen)
    BY <1>2 DEF RoleNow, RoleOf, Role
  <1>4. /\ task.state = InState(role) /\ out = answer[[role |-> role, gen |-> task.sem]]
        /\ out # None /\ task.claim = None
    BY <1>1, <1>2, <1>3, OrchFrame DEF Fits, Stepping
  <1>5. out \in Outcome
    <2>1. [role |-> role, gen |-> task.sem] \in OperationKey
      BY <1>3, OrchFrame, TaskRowIs DEF OperationKey
    <2> QED
      BY <1>4, <2>1, OrchTyped
  <1>6. CASE out = "PASS"
    <2>1. PICK t : t = Passed(role)
      OBVIOUS
    <2>2. /\ t \in TaskRow /\ t.claim = task.claim /\ t.sem = task.sem /\ t.trans = task.trans
          /\ t.rep = 0 <=> t.fp = None
          /\ t.state = PassState[role]
      BY <1>3, <2>1, OrchFrame, PassedIs
    <2>3. task' = t
      BY <1>1, <1>2, <1>6, <2>1 DEF Judged
    <2>4. Phase(PassState[role]) = Phase(InState(role)) + 1
      BY <1>3, PhaseOf DEF PassState, InState, Role, Terminal
    <2>5. PassesSoFar(t, answer)
      <3>1. \/ role = "IMPLEMENT" /\ t.state = "IN_LAB" /\ task.state = "IN_IMPLEMENT"
            \/ role = "LAB" /\ t.state = "IN_AUDIT" /\ task.state = "IN_LAB"
            \/ role = "AUDIT" /\ t.state = "DONE" /\ task.state = "IN_AUDIT"
        BY <1>3, <1>4, <2>2 DEF Role, PassState, InState
      <3> QED
        BY <1>4, <1>6, <2>2, <3>1, OrchFrame DEF PassesSoFar
    <2>6. task.sem <= t.sem /\ proc[o].steps <= 3 * t.sem + t.trans + Phase(t.state)
      BY <1>1, <1>4, <2>2, <2>4, Underway
    <2> QED
      BY <1>1, <1>4, <2>2, <2>3, <2>5, <2>6, StepOver
  <1>7. CASE out # "PASS"
    <2>1. \/ task' = Gated
          \/ \E stage \in Role \cup {"MECH"} : task' = SemanticFailed(role, stage, out)
      BY <1>1, <1>2, <1>3, <1>7 DEF Judged, Role
    <2>2. CASE task' = Gated
      BY <1>1, <2>2, GatedIs, OverGated
    <2>3. ASSUME NEW stage \in Role \cup {"MECH"}, task' = SemanticFailed(role, stage, out)
          PROVE  OrchInv'
      <3>1. PICK t : t = SemanticFailed(role, stage, out)
        OBVIOUS
      <3>2. /\ t \in TaskRow /\ t.claim = None /\ t.trans = task.trans
            /\ t.rep = 0 <=> t.fp = None
            /\ \/ t.state = "OWNER_GATE" /\ t.sem = task.sem
               \/ t.state \in Entering /\ t.sem = task.sem + 1
        BY <1>3, <1>5, <3>1, OrchFrame, FailedIs
      <3> QED
        BY <1>1, <2>3, <3>1, <3>2, OverGated
    <2> QED
      BY <2>1, <2>2, <2>3
  <1> QED
    BY <1>6, <1>7

LEMMA RollbackReadKeeps ==
    ASSUME OneProcess, OrchInv, NEW o \in Orch, RollbackRead(o)
    PROVE  OrchInv'
  <1>1. /\ task.state \notin Terminal /\ UNCHANGED <<task, fresh, asked, answer, crashes>>
        /\ proc' = [proc EXCEPT ![o] = [Ready EXCEPT !.pc = "rollback"]]
    BY DEF RollbackRead, Rollable
  <1>2. PICK d : d = [Ready EXCEPT !.pc = "rollback"]
    OBVIOUS
  <1>3. d \in Mind /\ d.pc = "rollback" /\ d.claim = None /\ d.steps = 0
    BY <1>2, ReadyAt
  <1>4. Fits(d, task, answer)
    BY <1>1, <1>3 DEF Fits, Stepping
  <1>5. task.sem \in Nat /\ task.trans \in Nat /\ Phase(task.state) \in Nat
    BY OrchFrame, TaskRowIs, Phases, Budgets
  <1>6. Counted(d, task)
    BY <1>3, <1>5 DEF Counted, Stepping
  <1>7. AskedInOrder'
    BY <1>1 DEF OrchInv, AskedInOrder, PassedBy
  <1> QED
    BY <1>1, <1>2, <1>3, <1>4, <1>6, <1>7, OrchFrame, OrchKept

LEMMA RecoverReadKeeps ==
    ASSUME OneProcess, OrchInv, NEW o \in Orch, RecoverRead(o)
    PROVE  OrchInv'
  <1>1. /\ task.claim # None /\ UNCHANGED <<task, fresh, asked, answer, crashes>>
        /\ proc' = [proc EXCEPT ![o] = [Ready EXCEPT !.pc = "recover"]]
    BY DEF RecoverRead, Stale
  <1>2. PICK d : d = [Ready EXCEPT !.pc = "recover"]
    OBVIOUS
  <1>3. d \in Mind /\ d.pc = "recover" /\ d.claim = None /\ d.steps = 0
    BY <1>2, ReadyAt
  <1>4. Fits(d, task, answer)
    BY <1>1, <1>3, OrchFrame DEF Fits, Stepping
  <1>5. task.sem \in Nat /\ task.trans \in Nat /\ Phase(task.state) \in Nat
    BY OrchFrame, TaskRowIs, Phases, Budgets
  <1>6. Counted(d, task)
    BY <1>3, <1>5 DEF Counted, Stepping
  <1>7. AskedInOrder'
    BY <1>1 DEF OrchInv, AskedInOrder, PassedBy
  <1> QED
    BY <1>1, <1>2, <1>3, <1>4, <1>6, <1>7, OrchFrame, OrchKept

LEMMA RollbackKeeps ==
    ASSUME OneProcess, OrchInv, NEW o \in Orch, Rollback(o)
    PROVE  OrchInv'
  <1>1. /\ proc[o].pc = "rollback" /\ task' = Moved("ROLLED_BACK") /\ proc' = Back(o)
        /\ UNCHANGED <<fresh, asked, answer, crashes>>
    BY DEF Rollback, AtStep
  <1>2. PICK t : t = Moved("ROLLED_BACK")
    OBVIOUS
  <1>3. /\ t \in TaskRow /\ t.state = "ROLLED_BACK" /\ t.claim = None
        /\ t.sem = task.sem /\ t.trans = task.trans /\ (t.rep = 0 <=> t.fp = None)
    <2>1. "ROLLED_BACK" \in State
      BY DEF State, Terminal
    <2> QED
      BY <1>2, <2>1, OrchFrame, MovedInRow
  <1>4. PassesSoFar(t, answer)
    BY <1>3 DEF PassesSoFar
  <1>5. /\ proc[o].steps \in Nat /\ task.sem \in Nat /\ task.trans \in Nat
        /\ Phase(task.state) \in 0..3
    BY OrchFrame, TaskRowIs, Phases, Budgets
  <1>6. proc[o].steps <= 3 * task.sem + task.trans + Phase(task.state)
    BY <1>1, <1>5, OrchFrame DEF Counted, Stepping
  <1>7. Phase(t.state) = 3
    BY <1>3, PhaseOf DEF Terminal
  <1>8. task.sem <= t.sem /\ proc[o].steps <= 3 * t.sem + t.trans + Phase(t.state)
    BY <1>3, <1>5, <1>6, <1>7
  <1> QED
    BY <1>1, <1>2, <1>3, <1>4, <1>8, StepOver

LEMMA RecoverStaleKeeps ==
    ASSUME OneProcess, OrchInv, NEW o \in Orch, RecoverStale(o)
    PROVE  OrchInv'
  <1>1. /\ proc[o].pc = "recover" /\ task' = [task EXCEPT !.claim = None] /\ proc' = Back(o)
        /\ UNCHANGED <<fresh, asked, answer, crashes>>
    BY DEF RecoverStale, AtStep
  <1>2. PICK t : t = [task EXCEPT !.claim = None]
    OBVIOUS
  <1>3. /\ t \in TaskRow /\ t.state = task.state /\ t.sem = task.sem /\ t.trans = task.trans
        /\ t.claim = None /\ (t.rep = 0 <=> t.fp = None) /\ PassesSoFar(t, answer)
    BY <1>2, Unclaimed
  <1>4. /\ proc[o].steps \in Nat /\ task.sem \in Nat /\ task.trans \in Nat
        /\ Phase(task.state) \in 0..3
    BY OrchFrame, TaskRowIs, Phases, Budgets
  <1>5. proc[o].steps <= 3 * task.sem + task.trans + Phase(task.state)
    BY <1>1, <1>4, OrchFrame DEF Counted, Stepping
  <1>6. task.sem <= t.sem /\ proc[o].steps <= 3 * t.sem + t.trans + Phase(t.state)
    BY <1>3, <1>4, <1>5
  <1> QED
    BY <1>1, <1>2, <1>3, <1>6, StepOver

LEMMA OrchCrashKeeps ==
    ASSUME OneProcess, OrchInv, NEW o \in Orch, OrchCrash(o)
    PROVE  OrchInv'
  <1>1. /\ crashes < MaxCrash /\ crashes' = crashes + 1 /\ proc' = Raised(o)
        /\ UNCHANGED <<task, fresh, asked, answer>>
    BY DEF OrchCrash
  <1>2. crashes' \in 0..MaxCrash
    BY <1>1, OrchFrame, Budgets
  <1>3. task.sem <= task.sem
    BY OrchFrame, TaskRowIs, Budgets
  <1> QED
    BY <1>1, <1>2, <1>3, OrchFrame, RunEnded

LEMMA TimePassesKeeps ==
    ASSUME OrchInv, TimePasses
    PROVE  OrchInv'
  <1>1. fresh' = FALSE /\ UNCHANGED <<task, proc, asked, answer, crashes>>
    BY DEF TimePasses
  <1>2. OrchTypeOK'
    BY <1>1 DEF OrchInv, OrchTypeOK
  <1>3. AskedInOrder'
    BY <1>1 DEF OrchInv, AskedInOrder, PassedBy
  <1> QED
    BY <1>1, <1>2, <1>3 DEF OrchInv

LEMMA AnswerKeeps ==
    ASSUME OrchInv, Answer
    PROVE  OrchInv'
  <1>1. PICK k \in OperationKey, r \in Outcome :
            /\ answer[k] = None /\ answer' = [answer EXCEPT ![k] = r]
            /\ UNCHANGED <<task, fresh, proc, asked, crashes>>
    BY DEF Answer, Relay!Answer
  <1>2. answer \in [OperationKey -> Outcome \cup {None}]
    BY OrchTyped
  <1>3. answer' \in [OperationKey -> Outcome \cup {None}]
    BY <1>1, <1>2
  <1>4. \A j \in OperationKey : answer[j] # None => answer'[j] = answer[j]
    BY <1>1, <1>2
  <1>5. "PASS" # None
    BY Budgets DEF Outcome
  <1>6. OrchTypeOK'
    BY <1>1, <1>3 DEF OrchInv, OrchTypeOK
  <1>7. PassesSoFar(task, answer')
    <2>1. \A role \in Role : [role |-> role, gen |-> task.sem] \in OperationKey
      BY OrchFrame, TaskRowIs DEF OperationKey
    <2>2. "IMPLEMENT" \in Role /\ "LAB" \in Role /\ "AUDIT" \in Role
      BY DEF Role
    <2> QED
      BY <1>4, <1>5, <2>1, <2>2, OrchFrame DEF PassesSoFar
  <1>8. AskedInOrder'
    <2> SUFFICES ASSUME NEW q \in asked
                 PROVE  /\ q.gen <= task.sem
                        /\ q.role = "LAB" => answer'[[role |-> "IMPLEMENT", gen |-> q.gen]] = "PASS"
                        /\ q.role = "AUDIT" => answer'[[role |-> "LAB", gen |-> q.gen]] = "PASS"
      BY <1>1 DEF AskedInOrder, PassedBy
    <2>1. /\ q.gen <= task.sem
          /\ q.role = "LAB" => answer[[role |-> "IMPLEMENT", gen |-> q.gen]] = "PASS"
          /\ q.role = "AUDIT" => answer[[role |-> "LAB", gen |-> q.gen]] = "PASS"
      BY DEF OrchInv, AskedInOrder, PassedBy
    <2>2. \A role \in Role : [role |-> role, gen |-> q.gen] \in OperationKey
      BY OrchFrame DEF OperationKey
    <2>3. "IMPLEMENT" \in Role /\ "LAB" \in Role
      BY DEF Role
    <2> QED
      BY <1>4, <1>5, <2>1, <2>2, <2>3
  <1>9. \A o \in Orch : Fits(proc[o], task, answer')
    <2> SUFFICES ASSUME NEW o \in Orch PROVE Fits(proc[o], task, answer')
      OBVIOUS
    <2>1. Fits(proc[o], task, answer)
      BY OrchFrame
    <2>2. proc[o].pc \in {"finish", "judge"} => proc[o].key \in OperationKey
      <3>1. RoleOf(proc[o].seen) \in Role /\ task.sem \in 0..SemBudget
        BY OrchFrame, TaskRowIs DEF RoleOf, Role
      <3> QED
        BY <2>1, <3>1 DEF Fits, Stepping, OperationKey
    <2>3. proc[o].pc \in {"finish", "judge"} => proc[o].out = answer'[proc[o].key]
      BY <1>4, <2>1, <2>2 DEF Fits
    <2> QED
      BY <2>1, <2>3 DEF Fits
  <1> QED
    BY <1>1, <1>6, <1>7, <1>8, <1>9 DEF OrchInv

LEMMA OrchNextKeeps == ASSUME OneProcess, OrchInv, [OrchNext]_orchVars PROVE OrchInv'
  <1>1. CASE UNCHANGED orchVars
    BY <1>1 DEF orchVars, OrchInv, OrchTypeOK, AskedInOrder, PassedBy
  <1>2. CASE OrchNext
    BY <1>1, <1>2, CallKeeps, BeginKeeps, UnboundKeeps, StartKeeps, AskKeeps, ReturnKeeps,
       NoResultKeeps, TimeoutKeeps, WorkerFailsKeeps, FinishKeeps, JudgeKeeps, RollbackKeeps,
       RecoverStaleKeeps, OrchHeartbeatKeeps, RollbackReadKeeps, RecoverReadKeeps, OrchCrashKeeps,
       TimePassesKeeps, AnswerKeeps
       DEF OrchNext, StepOf
  <1> QED
    BY <1>1, <1>2

(* The orchestrator keeps its invariant, run by one process at a time:     *)
(* two at work on one store break it.                                      *)
THEOREM OrchestratorInvariantHolds ==
    ASSUME OneProcess
    PROVE  OrchSpec => []OrchestratorInvariant
  <1>1. OrchInit => OrchInv
    BY OrchInitInv
  <1>2. OrchInv /\ [OrchNext]_orchVars => OrchInv'
    BY OrchNextKeeps
  <1>3. OrchInv => OrchestratorInvariant
    BY OrchInvImplies
  <1> QED
    BY <1>1, <1>2, <1>3, PTL DEF OrchSpec

(* A task that has ended is only ever touched at the ceiling of steps.     *)
LEMMA EndedStands ==
    ASSUME OrchInv, [OrchNext]_orchVars, task.state \in Terminal
    PROVE  task' = task \/ \E o \in Orch : proc[o].steps = MaxSteps /\ task' = Gated
  <1>1. \A o \in Orch : /\ proc[o].pc \notin Stepping
                        /\ ~AtStep(o, "rollback") /\ ~AtStep(o, "recover")
    BY Underway, OrchFrame DEF Fits, AtStep
  <1>2. ASSUME NEW o \in Orch, Call(o)
        PROVE  task' = task \/ (proc[o].steps = MaxSteps /\ task' = Gated)
    BY <1>2 DEF Call
  <1>3. ASSUME NEW o \in Orch, StepOf(o)
        PROVE  task' = task
    <2>1. proc[o].pc \notin Stepping /\ ~AtStep(o, "rollback") /\ ~AtStep(o, "recover")
      BY <1>1
    <2>2. ~Begin(o) /\ ~Unbound(o) /\ ~Start(o) /\ ~Timeout(o)
      BY <2>1 DEF Begin, Unbound, Start, Timeout, AtStep, Stepping
    <2>3. ~Ask(o) /\ ~Return(o) /\ ~NoResult(o) /\ ~WorkerFails(o)
      BY <2>1 DEF Ask, Return, NoResult, WorkerFails, AtStep, Stepping
    <2>4. ~Finish(o) /\ ~Judge(o) /\ ~Rollback(o) /\ ~RecoverStale(o)
      BY <2>1 DEF Finish, Judge, Rollback, RecoverStale, AtStep, Stepping
    <2> QED
      BY <1>3, <2>2, <2>3, <2>4 DEF StepOf
  <1>4. ASSUME NEW o \in Orch,
               HeartbeatStep(o) \/ RollbackRead(o) \/ RecoverRead(o) \/ OrchCrash(o)
        PROVE  task' = task
    BY <1>4 DEF HeartbeatStep, RollbackRead, RecoverRead, OrchCrash
  <1>5. TimePasses \/ Answer \/ UNCHANGED orchVars => task' = task
    BY DEF TimePasses, Answer, orchVars
  <1> QED
    BY <1>2, <1>3, <1>4, <1>5, Zenon DEF OrchNext

(* A task that has ended stays as it ended, run by one process at a time   *)
(* that has more steps than the budgets allow to be taken.                 *)
THEOREM TerminalIsFinal ==
    ASSUME OneProcess, EnoughSteps
    PROVE  OrchSpec => TerminalFinal
  <1>1. OrchInit => OrchInv
    BY OrchInitInv
  <1>2. OrchInv /\ [OrchNext]_orchVars => OrchInv'
    BY OrchNextKeeps
  <1>3. OrchInv /\ [OrchNext]_orchVars => [task.state \in Terminal => task' = task]_orchVars
    <2> SUFFICES ASSUME OrchInv, [OrchNext]_orchVars, task.state \in Terminal
                 PROVE  task' = task
      OBVIOUS
    <2>1. \A o \in Orch : proc[o].steps <= 3 * (SemBudget + 1) + TransBudget
      BY OrchInvImplies DEF OrchestratorInvariant, CeilingUnneeded
    <2>2. \A o \in Orch : proc[o].steps # MaxSteps
      BY <2>1, Budgets, OrchFrame DEF EnoughSteps
    <2> QED
      BY <2>2, EndedStands
  <1> QED
    BY <1>1, <1>2, <1>3, PTL DEF OrchSpec, TerminalFinal

-----------------------------------------------------------------------------
(* The policy stores.  Whoever holds the file open has its schema and its  *)
(* pin, and everything stored, handed out or answered is what the tables   *)
(* admit.                                                                  *)

(* Who holds the file open has the schema and the pin of the file.         *)
HeldAlike == \A c \in open : c \in Caller /\ c.schema = file.schema /\ c.pin = file.pin

Admits(job) ==
    /\ file.schema # 0
    /\ file.schema \in {2, 3} => job.pair \in file.pin.allowed
    /\ file.schema = 3 => job.main = file.pin.document.main
    /\ file.schema = 1 => job.pair[2] = V3Branch

(* What is stored is admitted, and so what is handed out.                  *)
JobsAdmitted == /\ \A k \in StoreKey : stored[k] # Unset => Admits(stored[k])
                /\ \A job \in handed : Admits(job)

(* An answer is what the decisions table says of its request.              *)
AnswersStored ==
    \A a \in answers : a.request \in Request /\ a.entry = decisions[a.request] /\ a.entry # Unset

Harmless(entry) ==
    /\ file.schema # 0
    /\ entry.as # "OWNER_GATE_REQUIRED" =>
           /\ ToSet(entry.proposed.bindings) \subseteq ToSet(file.pin.document.bindings)
           /\ entry.proposed.main = file.pin.document.main /\ entry.proposed.guarded

DecidedHarmless ==
    /\ decisions \in [Request -> Decision \cup {Unset}]
    /\ \A r \in Request : decisions[r] # Unset => Harmless(decisions[r])

StoresInv == PolicyTypeOK /\ HeldAlike /\ JobsAdmitted /\ AnswersStored /\ DecidedHarmless

LEMMA StoresInvImplies == StoresInv => StoresInvariant
  <1> SUFFICES ASSUME StoresInv PROVE StoresInvariant
    OBVIOUS
  <1>1. HandedWithinPin
    BY DEF StoresInv, JobsAdmitted, Admits, HandedWithinPin
  <1>2. DecisionsAgree
    BY DEF StoresInv, AnswersStored, DecisionsAgree
  <1>3. ReviewNeverWidens
    BY DEF StoresInv, AnswersStored, DecidedHarmless, Harmless, ReviewNeverWidens
  <1> QED
    BY <1>1, <1>2, <1>3 DEF StoresInv, StoresInvariant

LEMMA UnpinnedCallers ==
    ASSUME NEW c \in Caller
    PROVE  c.schema \in 1..4 /\ (c.schema = 1 <=> c.pin = Unpinned)
  <1>1. CASE c = [schema |-> 1, pin |-> Unpinned]
    BY <1>1
  <1>2. CASE c \in [schema: {2}, pin: [allowed: Policy, document: {Unset}]]
    <2>1. c.schema = 2 /\ c.pin.allowed \in Policy
      BY <1>2
    <2>2. c.pin.allowed # {}
      BY <2>1, PolicyAssumption
    <2> QED
      BY <2>1, <2>2 DEF Unpinned
  <1>3. CASE c \in [schema: {3}, pin: {[allowed |-> ToSet(d.bindings), document |-> d] : d \in Source}]
    <2>1. c.schema = 3 /\ c.pin.document \in Source
      BY <1>3
    <2>2. c.pin.document # Unset
      BY <2>1, PolicyAssumption
    <2> QED
      BY <2>1, <2>2 DEF Unpinned
  <1>4. CASE c \in [schema: {4}, pin: [allowed: {{}}, document: Source]]
    <2>1. c.schema = 4 /\ c.pin.document \in Source
      BY <1>4
    <2>2. c.pin.document # Unset
      BY <2>1, PolicyAssumption
    <2> QED
      BY <2>1, <2>2 DEF Unpinned
  <1> QED
    BY <1>1, <1>2, <1>3, <1>4 DEF Caller

(* The first to open a file pins it; who comes later has the same pin.     *)
LEMMA OpenPins ==
    ASSUME StoresInv, NEW c \in Caller, Open(c)
    PROVE  /\ file' = [schema |-> c.schema, pin |-> c.pin]
           /\ file.schema # 0 => file' = file
  <1>1. c.schema \in 1..4 /\ (c.schema = 1 <=> c.pin = Unpinned)
    BY UnpinnedCallers
  <1>2. /\ file = [schema |-> file.schema, pin |-> file.pin] /\ file.schema \in 0..4
        /\ (file.schema \in {0, 1}) = (file.pin = Unpinned)
    BY DEF StoresInv, PolicyTypeOK
  <1>3. file' = Pinned(c) /\ SameSchema(c) /\ SamePin(c)
    BY DEF Open
  <1>4. CASE file.schema = 0
    BY <1>1, <1>2, <1>3, <1>4 DEF Pinned, SamePin, SameSchema
  <1>5. CASE file.schema # 0
    <2>1. c.schema = file.schema
      BY <1>1, <1>3, <1>5 DEF SameSchema
    <2>2. c.pin = file.pin
      BY <1>1, <1>2, <1>3, <1>5, <2>1 DEF SamePin
    <2>3. file' = file
      BY <1>2, <1>3, <1>5, <2>2 DEF Pinned
    <2> QED
      BY <1>2, <2>1, <2>2, <2>3
  <1> QED
    BY <1>4, <1>5

LEMMA StoresInitInv == StoresInit => StoresInv
  <1> SUFFICES ASSUME StoresInit PROVE StoresInv
    OBVIOUS
  <1> USE DEF StoresInit
  <1>1. [schema |-> 1, pin |-> Unpinned] \in Caller
    BY DEF Caller
  <1>2. Unpinned \in {c.pin : c \in Caller}
    BY <1>1
  <1>3. PolicyTypeOK
    BY <1>2 DEF PolicyTypeOK
  <1>4. HeldAlike /\ JobsAdmitted
    BY DEF HeldAlike, JobsAdmitted
  <1>5. AnswersStored /\ DecidedHarmless
    BY DEF AnswersStored, DecidedHarmless
  <1> QED
    BY <1>3, <1>4, <1>5 DEF StoresInv

LEMMA OpenKeeps ==
    ASSUME StoresInv, NEW c \in Caller, Open(c)
    PROVE  StoresInv'
  <1>1. /\ file' = [schema |-> c.schema, pin |-> c.pin]
        /\ file.schema # 0 => file' = file
    BY OpenPins
  <1>2. c.schema \in 1..4 /\ (c.schema = 1 <=> c.pin = Unpinned)
    BY UnpinnedCallers
  <1>3. /\ open' = open \cup {c}
        /\ UNCHANGED <<stored, handed, decisions, answers>>
    BY DEF Open
  <1>4. PolicyTypeOK'
    BY <1>1, <1>2, <1>3 DEF StoresInv, PolicyTypeOK
  <1>5. HeldAlike'
    <2> SUFFICES ASSUME NEW d \in open' PROVE d \in Caller /\ d.schema = file'.schema /\ d.pin = file'.pin
      BY DEF HeldAlike
    <2>1. CASE d = c
      BY <1>1, <2>1
    <2>2. CASE d \in open
      <3>1. d \in Caller /\ d.schema = file.schema /\ d.pin = file.pin
        BY <2>2 DEF StoresInv, HeldAlike
      <3>2. file.schema # 0
        BY <3>1, UnpinnedCallers
      <3> QED
        BY <1>1, <3>1, <3>2
    <2> QED
      BY <1>3, <2>1, <2>2
  <1>6. JobsAdmitted'
    BY <1>1, <1>3 DEF StoresInv, JobsAdmitted, Admits
  <1>7. AnswersStored'
    BY <1>3 DEF StoresInv, AnswersStored
  <1>8. DecidedHarmless'
    BY <1>1, <1>3 DEF StoresInv, DecidedHarmless, Harmless
  <1> QED
    BY <1>4, <1>5, <1>6, <1>7, <1>8 DEF StoresInv

LEMMA CloseFileKeeps ==
    ASSUME StoresInv, NEW c \in Caller, CloseFile(c)
    PROVE  StoresInv'
  <1> USE DEF StoresInv, CloseFile
  <1>1. PolicyTypeOK' /\ HeldAlike'
    BY DEF PolicyTypeOK, HeldAlike
  <1>2. JobsAdmitted'
    BY DEF JobsAdmitted, Admits
  <1>3. AnswersStored' /\ DecidedHarmless'
    BY DEF AnswersStored, DecidedHarmless, Harmless
  <1> QED
    BY <1>1, <1>2, <1>3

(* A job the caller's class finds valid is one the pin of the file admits. *)
LEMMA ValidIsAdmitted ==
    ASSUME StoresInv, NEW c \in open, c.schema # 4, NEW job, Valid(c, job)
    PROVE  Admits(job)
  <1>1. c \in Caller /\ c.schema = file.schema /\ c.pin = file.pin
    BY DEF StoresInv, HeldAlike
  <1>2. c.schema \in 1..4
    BY <1>1, UnpinnedCallers
  <1> QED
    BY <1>1, <1>2 DEF Valid, Allows, Admits

LEMMA StoreEnqueueKeeps ==
    ASSUME StoresInv, NEW c \in Caller, NEW k \in StoreKey, NEW job \in StoredJob, EnqueueAs(c, k, job)
    PROVE  /\ StoresInv'
           /\ \A i \in StoreKey : stored[i] # Unset => stored'[i] = stored[i]
  <1>1. /\ c \in open /\ c.schema # 4 /\ Valid(c, job)
        /\ stored' = QueuedAs(k, job)
        /\ UNCHANGED <<file, open, handed, decisions, answers>>
    BY DEF EnqueueAs
  <1>2. stored \in [StoreKey -> StoredJob \cup {Unset}]
    BY DEF StoresInv, PolicyTypeOK
  <1>3. Admits(job)
    BY <1>1, ValidIsAdmitted
  <1>4. /\ stored' \in [StoreKey -> StoredJob \cup {Unset}]
        /\ \A i \in StoreKey : stored'[i] = stored[i] \/ (stored[i] = Unset /\ stored'[i] = job)
    <2>1. CASE stored[k] # Unset
      BY <1>1, <1>2, <2>1 DEF QueuedAs
    <2>2. CASE stored[k] = Unset
      <3>1. stored' = [stored EXCEPT ![k] = job]
        BY <1>1, <2>2 DEF QueuedAs
      <3> QED
        BY <1>2, <2>2, <3>1
    <2> QED
      BY <2>1, <2>2
  <1>5. PolicyTypeOK'
    BY <1>1, <1>4 DEF StoresInv, PolicyTypeOK
  <1>6. JobsAdmitted'
    BY <1>1, <1>3, <1>4 DEF StoresInv, JobsAdmitted, Admits
  <1>7. HeldAlike' /\ AnswersStored' /\ DecidedHarmless'
    BY <1>1 DEF StoresInv, HeldAlike, AnswersStored, DecidedHarmless, Harmless
  <1> QED
    BY <1>4, <1>5, <1>6, <1>7 DEF StoresInv

LEMMA ClaimAsKeeps ==
    ASSUME StoresInv, NEW c \in Caller, NEW k \in StoreKey, ClaimAs(c, k)
    PROVE  StoresInv'
  <1>1. /\ stored[k] # Unset /\ handed' = handed \cup {stored[k]}
        /\ UNCHANGED <<file, open, stored, decisions, answers>>
    BY DEF ClaimAs
  <1>2. stored[k] \in StoredJob
    BY <1>1 DEF StoresInv, PolicyTypeOK
  <1>3. PolicyTypeOK'
    BY <1>1, <1>2 DEF StoresInv, PolicyTypeOK
  <1>4. JobsAdmitted'
    BY <1>1 DEF StoresInv, JobsAdmitted, Admits
  <1>5. HeldAlike' /\ AnswersStored' /\ DecidedHarmless'
    BY <1>1 DEF StoresInv, HeldAlike, AnswersStored, DecidedHarmless, Harmless
  <1> QED
    BY <1>3, <1>4, <1>5 DEF StoresInv

(* What may go on without the owner adds no binding and keeps the main.    *)
LEMMA ClassifyHarmless ==
    ASSUME NEW base, NEW d, Classify(base, d) # "OWNER_GATE_REQUIRED"
    PROVE  /\ ToSet(d.bindings) \subseteq ToSet(base.bindings)
           /\ d.main = base.main /\ d.guarded
  <1>1. ~ Protected(base, d) /\ ~ Added(base, d)
    BY DEF Classify
  <1> QED
    BY <1>1 DEF Protected, Added

LEMMA DecideKeeps ==
    ASSUME StoresInv, NEW c \in Caller, NEW r \in Request, NEW d \in Proposal, Decide(c, r, d)
    PROVE  StoresInv'
  <1> DEFINE new == [proposed |-> d, as |-> Classify(c.pin.document, d)]
             entry == IF Known(r, d) THEN decisions[r] ELSE new
  <1>1. /\ c \in open /\ c.schema = 4 /\ entry.proposed = d
        /\ decisions' = [decisions EXCEPT ![r] = entry]
        /\ answers' = answers \cup {[request |-> r, entry |-> entry]}
        /\ UNCHANGED <<file, open, stored, handed>>
    BY DEF Decide
  <1>2. decisions \in [Request -> Decision \cup {Unset}]
    BY DEF StoresInv, DecidedHarmless
  <1>3. d \in Document /\ Unset \notin Decision
    BY PolicyAssumption
  <1>4. Classify(c.pin.document, d) \in {"OWNER_GATE_REQUIRED", "CANDIDATE_REVIEW_REQUIRED", "NO_CHANGE"}
    BY DEF Classify
  <1>5. new \in Decision
    BY <1>3, <1>4 DEF Decision
  <1>6. file.schema # 0 /\ file.pin = c.pin
    BY <1>1 DEF StoresInv, HeldAlike
  <1>7. Harmless(new)
    BY <1>6, ClassifyHarmless DEF Harmless
  <1>8. entry \in Decision /\ entry # Unset /\ Harmless(entry)
    BY <1>2, <1>3, <1>5, <1>7 DEF Known, StoresInv, DecidedHarmless
  <1>9. decisions[r] # Unset => entry = decisions[r]
    BY DEF Known
  <1> HIDE DEF entry
  <1>10. DecidedHarmless'
    BY <1>1, <1>2, <1>8 DEF StoresInv, DecidedHarmless, Harmless
  <1>11. AnswersStored'
    <2> SUFFICES ASSUME NEW a \in answers'
                 PROVE  a.request \in Request /\ a.entry = decisions'[a.request] /\ a.entry # Unset
      BY DEF AnswersStored
    <2>1. CASE a \in answers
      BY <1>1, <1>2, <1>9, <2>1 DEF StoresInv, AnswersStored
    <2>2. CASE a = [request |-> r, entry |-> entry]
      BY <1>1, <1>2, <1>8, <2>2
    <2> QED
      BY <1>1, <2>1, <2>2
  <1>12. PolicyTypeOK' /\ HeldAlike'
    BY <1>1 DEF StoresInv, PolicyTypeOK, HeldAlike
  <1>13. JobsAdmitted'
    BY <1>1 DEF StoresInv, JobsAdmitted, Admits
  <1> QED
    BY <1>10, <1>11, <1>12, <1>13 DEF StoresInv

LEMMA StoresNextKeeps == StoresInv /\ [StoresNext]_storeVars => StoresInv'
  <1> SUFFICES ASSUME StoresInv, [StoresNext]_storeVars PROVE StoresInv'
    OBVIOUS
  <1>1. CASE StoresNext
    BY <1>1, OpenKeeps, CloseFileKeeps, ClaimAsKeeps, StoreEnqueueKeeps, DecideKeeps DEF StoresNext
  <1>2. CASE UNCHANGED storeVars
    BY <1>2 DEF storeVars, StoresInv, PolicyTypeOK, HeldAlike, JobsAdmitted, Admits, AnswersStored,
                DecidedHarmless, Harmless
  <1> QED
    BY <1>1, <1>2

(* For every policy, source document, proposal and order of opens: what a  *)
(* file hands out its pin admits, a request has one answer, and what goes  *)
(* on without the owner widens nothing (_init_v4 to _init_v6, claim_next,  *)
(* decide).                                                                *)
THEOREM StoresInvariantHolds == StoresSpec => []StoresInvariant
  <1>1. StoresSpec => []StoresInv
    BY StoresInitInv, StoresNextKeeps, PTL DEF StoresSpec
  <1> QED
    BY <1>1, StoresInvImplies, PTL

LEMMA PinKept ==
    StoresInv /\ [StoresNext]_storeVars
        => [/\ file.schema # 0 => file' = file
            /\ \A k \in StoreKey : stored[k] # Unset => stored'[k] = stored[k]]_storeVars
  <1> SUFFICES ASSUME StoresInv, StoresNext
               PROVE  /\ file.schema # 0 => file' = file
                      /\ \A k \in StoreKey : stored[k] # Unset => stored'[k] = stored[k]
    OBVIOUS
  <1>1. ASSUME NEW c \in Caller, Open(c)
        PROVE  (file.schema # 0 => file' = file) /\ stored' = stored
    BY <1>1, OpenPins DEF Open
  <1>2. ASSUME NEW c \in Caller, CloseFile(c) PROVE file' = file /\ stored' = stored
    BY <1>2 DEF CloseFile
  <1>3. ASSUME NEW c \in Caller, NEW k \in StoreKey, ClaimAs(c, k) PROVE file' = file /\ stored' = stored
    BY <1>3 DEF ClaimAs
  <1>4. ASSUME NEW c \in Caller, NEW k \in StoreKey, NEW job \in StoredJob, EnqueueAs(c, k, job)
        PROVE  /\ file' = file
               /\ \A i \in StoreKey : stored[i] # Unset => stored'[i] = stored[i]
    BY <1>4, StoreEnqueueKeeps DEF EnqueueAs
  <1>5. ASSUME NEW c \in Caller, NEW r \in Request, NEW d \in Proposal, Decide(c, r, d)
        PROVE  file' = file /\ stored' = stored
    BY <1>5 DEF Decide
  <1> QED
    BY <1>1, <1>2, <1>3, <1>4, <1>5 DEF StoresNext

(* The pin of a file and the job of a key are never replaced, by no later  *)
(* open and no repeated request (_bind_policy, enqueue).                   *)
THEOREM PinIsFinal == StoresSpec => PinFinal
  <1>1. StoresSpec => []StoresInv
    BY StoresInitInv, StoresNextKeeps, PTL DEF StoresSpec
  <1> QED
    BY <1>1, PinKept, PTL DEF StoresSpec, PinFinal

-----------------------------------------------------------------------------
(* The core task table.  What add_task answered is in the table, and what  *)
(* a worker claims or a verifier vouches for has a start on record.        *)

Started(t) == tasks[t].status \notin {"ABSENT", "QUEUED"}

(* What add_task has answered is in the table, and a key names one task.   *)
AnsweredHeld ==
    /\ \A a \in answered : /\ a.key = tasks[a.task].key /\ a.content = tasks[a.task].content
                           /\ tasks[a.task].status # "ABSENT"
    /\ \A t, u \in CoreTask : tasks[t].key = tasks[u].key /\ tasks[t].key # Null => t = u
    /\ \A t \in CoreTask : tasks[t].status = "ABSENT" => tasks[t] = NoTask

(* A receipt vouches for a result that was claimed by another.             *)
ReceiptsIndependent ==
    \A r \in vouched : /\ tasks[r.task].status \in {"VERIFIED", "CLOSED"}
                       /\ r.verifier # tasks[r.task].provider

ResultsClaimed ==
    \A t \in CoreTask :
        tasks[t].provider # Null => tasks[t].status \in {"SUCCESS_CLAIMED", "VERIFIED", "CLOSED"}

(* An executor holds a task that has been started.                         *)
HeldStarted == \A e \in Executor : ~InRun(e, "idle") => run[e].task \in CoreTask /\ Started(run[e].task)

TablesInv == /\ CoreTypeOK /\ AnsweredHeld /\ ReceiptsIndependent /\ RevenueVouched
             /\ ResultsClaimed /\ HeldStarted

(* Every start of t in the log lies before every switch off of q.          *)
StartedBefore(log, t, q) ==
    \A i, j \in 1..Len(log) :
        /\ log[i].event = "FAIL_CLOSED_PROVIDER_DISABLE" /\ log[i].provider = q
        /\ log[j].event = "TASK_STARTED" /\ log[j].task = t
        => j < i

LogInv ==
    /\ \A i \in 1..Len(audit) :
         /\ audit[i].event \in {"TASK_STARTED", "TASK_RESULT_CLAIMED"}
                => audit[i].task \in CoreTask /\ Started(audit[i].task)
         /\ audit[i].event = "FAIL_CLOSED_PROVIDER_DISABLE" => audit[i].provider \in disabled
         /\ audit[i].event = "TASK_RESULT_CLAIMED" => StartedBefore(audit, audit[i].task, audit[i].provider)
    /\ \A e \in Executor : InRun(e, "claim") => StartedBefore(audit, run[e].task, run[e].provider)

CoreInv == TablesInv /\ AuditTellsAll /\ LogInv

LEMMA CoreInvImplies == CoreInv => CoreInvariant
  <1> SUFFICES ASSUME CoreInv PROVE CoreInvariant
    OBVIOUS
  <1>1. RequestsAgree
    <2> SUFFICES ASSUME NEW a \in answered, NEW b \in answered, a.key # Null, a.key = b.key
                 PROVE  a = b
      BY DEF RequestsAgree
    <2>1. /\ a \in [key : CoreKey \cup {Null}, content : Content, task : CoreTask]
          /\ b \in [key : CoreKey \cup {Null}, content : Content, task : CoreTask]
      BY DEF CoreInv, TablesInv, CoreTypeOK
    <2>2. a.task = b.task /\ a.content = b.content
      BY <2>1 DEF CoreInv, TablesInv, AnsweredHeld
    <2> QED
      BY <2>1, <2>2
  <1>2. SwitchHolds
    BY DEF CoreInv, LogInv, StartedBefore, SwitchHolds
  <1> QED
    BY <1>1, <1>2 DEF CoreInv, TablesInv, CoreInvariant

LEMMA CoreInitInv == CoreInit => CoreInv
  <1> SUFFICES ASSUME CoreInit PROVE CoreInv
    OBVIOUS
  <1> USE DEF CoreInit
  <1>1. NoTask = [status |-> "ABSENT", key |-> Null, content |-> Null, provider |-> Null]
    BY DEF NoTask
  <1>2. Idle = [step |-> "idle", task |-> Null, provider |-> Null]
    BY DEF Idle
  <1>3. audit \in Seq(Entry) /\ Len(audit) = 0 /\ DOMAIN audit = {}
    OBVIOUS
  <1>4. CoreTypeOK
    BY <1>1, <1>2, <1>3, CoreTasksAssumption DEF CoreTypeOK, InRun, Status
  <1>5. AnsweredHeld /\ ReceiptsIndependent /\ RevenueVouched /\ ResultsClaimed
    BY <1>1 DEF AnsweredHeld, ReceiptsIndependent, RevenueVouched, ResultsClaimed
  <1>6. HeldStarted
    BY <1>2 DEF HeldStarted, InRun
  <1>7. AuditTellsAll
    BY <1>1, <1>3 DEF AuditTellsAll
  <1>8. LogInv
    BY <1>2, <1>3 DEF LogInv, InRun
  <1> QED
    BY <1>4, <1>5, <1>6, <1>7, <1>8 DEF CoreInv, TablesInv

-----------------------------------------------------------------------------
(* One more entry of the log.                                              *)

LEMMA Appended ==
    ASSUME NEW S, NEW s \in Seq(S), NEW x \in S
    PROVE  /\ Append(s, x) \in Seq(S) /\ Len(s) \in Nat /\ DOMAIN s = 1..Len(s)
           /\ Len(Append(s, x)) = Len(s) + 1
           /\ DOMAIN Append(s, x) = 1..(Len(s) + 1)
           /\ \A i \in 1..Len(s) : Append(s, x)[i] = s[i]
           /\ Append(s, x)[Len(s) + 1] = x
  BY AppendProperties, LenProperties

(* The log still tells all when the entry says where its task has got to,  *)
(* and no other task has gone anywhere.                                    *)
LEMMA TellsOn ==
    ASSUME CoreTypeOK, AuditTellsAll, NEW x \in Entry, audit' = Append(audit, x),
           \A t \in CoreTask : t # x.task => tasks'[t].status = tasks[t].status,
           x.task \in CoreTask => tasks'[x.task].status = StatusAfter(x.event)
    PROVE  AuditTellsAll'
  <1> DEFINE n == Len(audit)
  <1>1. audit \in Seq(Entry)
    BY DEF CoreTypeOK
  <1>2. /\ n \in Nat /\ DOMAIN audit = 1..n /\ DOMAIN audit' = 1..(n + 1)
        /\ \A i \in 1..n : audit'[i] = audit[i]
        /\ audit'[n + 1] = x
    BY <1>1, Appended
  <1> SUFFICES ASSUME NEW t \in CoreTask
               PROVE  LET about == {i \in DOMAIN audit' : audit'[i].task = t}
                      IN  \/ about = {} /\ tasks'[t].status = "ABSENT"
                          \/ \E i \in about : /\ \A j \in about : j <= i
                                              /\ tasks'[t].status = StatusAfter(audit'[i].event)
    BY DEF AuditTellsAll, StatusAfter
  <1> DEFINE old == {i \in DOMAIN audit : audit[i].task = t}
             new == {i \in DOMAIN audit' : audit'[i].task = t}
  <1> HIDE DEF n
  <1>3. CASE x.task = t
    <2>1. n + 1 \in new /\ \A j \in new : j <= n + 1
      BY <1>2, <1>3
    <2>2. tasks'[t].status = StatusAfter(audit'[n + 1].event)
      BY <1>2, <1>3
    <2> QED
      BY <2>1, <2>2
  <1>4. CASE x.task # t
    <2>1. new = old
      BY <1>2, <1>4
    <2>2. \/ old = {} /\ tasks[t].status = "ABSENT"
          \/ \E i \in old : /\ \A j \in old : j <= i
                            /\ tasks[t].status = StatusAfter(audit[i].event)
      BY DEF AuditTellsAll
    <2>3. tasks'[t].status = tasks[t].status
      BY <1>4
    <2>4. \A i \in old : audit'[i] = audit[i]
      BY <1>2
    <2> QED
      BY <2>1, <2>2, <2>3, <2>4
  <1> QED
    BY <1>3, <1>4

LEMMA SameStory ==
    ASSUME AuditTellsAll, audit' = audit, tasks' = tasks
    PROVE  AuditTellsAll'
  <1> SUFFICES ASSUME NEW t \in CoreTask
               PROVE  LET about == {i \in DOMAIN audit' : audit'[i].task = t}
                      IN  \/ about = {} /\ tasks'[t].status = "ABSENT"
                          \/ \E i \in about : /\ \A j \in about : j <= i
                                              /\ tasks'[t].status = StatusAfter(audit'[i].event)
    BY DEF AuditTellsAll, StatusAfter
  <1> QED
    BY DEF AuditTellsAll

(* A step that logs nothing, and begins no claim it should not.            *)
LEMMA QuietLog ==
    ASSUME LogInv, UNCHANGED audit, disabled \subseteq disabled',
           \A t \in CoreTask : Started(t) => tasks'[t].status \notin {"ABSENT", "QUEUED"},
           \A e \in Executor : run'[e].step = "claim" =>
               \/ run'[e] = run[e]
               \/ StartedBefore(audit, run'[e].task, run'[e].provider)
    PROVE  LogInv'
  <1>1. \A i \in 1..Len(audit') :
         /\ audit'[i].event \in {"TASK_STARTED", "TASK_RESULT_CLAIMED"}
                => audit'[i].task \in CoreTask /\ tasks'[audit'[i].task].status \notin {"ABSENT", "QUEUED"}
         /\ audit'[i].event = "FAIL_CLOSED_PROVIDER_DISABLE" => audit'[i].provider \in disabled'
         /\ audit'[i].event = "TASK_RESULT_CLAIMED" => StartedBefore(audit', audit'[i].task, audit'[i].provider)
    BY DEF LogInv, Started
  <1>2. \A e \in Executor : run'[e].step = "claim" => StartedBefore(audit', run'[e].task, run'[e].provider)
    BY DEF LogInv, InRun
  <1> QED
    BY <1>1, <1>2 DEF LogInv, InRun, Started

(* A step with one more entry: a start is of a task not started yet, a     *)
(* switch is off from now on, a claim is of an executor that may make it.  *)
LEMMA LoudLog ==
    ASSUME CoreTypeOK, LogInv, NEW x \in Entry, audit' = Append(audit, x), disabled \subseteq disabled',
           \A t \in CoreTask : Started(t) => tasks'[t].status \notin {"ABSENT", "QUEUED"},
           \A e \in Executor : run'[e].step = "claim" =>
               run'[e] = run[e] /\ (x.event = "TASK_STARTED" => run[e].task # x.task),
           x.event = "TASK_STARTED" => x.task \in CoreTask /\ ~Started(x.task),
           x.event \in {"TASK_STARTED", "TASK_RESULT_CLAIMED"} =>
               x.task \in CoreTask /\ tasks'[x.task].status \notin {"ABSENT", "QUEUED"},
           x.event = "TASK_RESULT_CLAIMED" => StartedBefore(audit, x.task, x.provider),
           x.event = "FAIL_CLOSED_PROVIDER_DISABLE" => x.provider \in disabled'
    PROVE  LogInv'
  <1> DEFINE n == Len(audit)
  <1>1. /\ n \in Nat /\ Len(audit') = n + 1
        /\ \A i \in 1..n : audit'[i] = audit[i]
        /\ audit'[n + 1] = x
    BY Appended DEF CoreTypeOK
  <1>2. ASSUME NEW t, NEW q, StartedBefore(audit, t, q), x.event = "TASK_STARTED" => x.task # t
        PROVE  StartedBefore(audit', t, q)
    <2> HIDE DEF n
    <2> SUFFICES ASSUME NEW i \in 1..(n + 1), NEW j \in 1..(n + 1),
                        audit'[i].event = "FAIL_CLOSED_PROVIDER_DISABLE", audit'[i].provider = q,
                        audit'[j].event = "TASK_STARTED", audit'[j].task = t
                 PROVE  j < i
      BY <1>1 DEF StartedBefore
    <2>1. j \in 1..n
      BY <1>1, <1>2
    <2>2. CASE i = n + 1
      BY <1>1, <2>1, <2>2
    <2>3. CASE i \in 1..n
      <3>1. audit[i] = audit'[i] /\ audit[j] = audit'[j]
        BY <1>1, <2>1, <2>3
      <3>2. n = Len(audit)
        BY DEF n
      <3> QED
        BY <1>2, <2>1, <2>3, <3>1, <3>2 DEF StartedBefore
    <2> QED
      BY <1>1, <2>2, <2>3
  <1>3. ASSUME NEW i \in 1..(n + 1)
        PROVE
         /\ audit'[i].event \in {"TASK_STARTED", "TASK_RESULT_CLAIMED"}
                => audit'[i].task \in CoreTask /\ tasks'[audit'[i].task].status \notin {"ABSENT", "QUEUED"}
         /\ audit'[i].event = "FAIL_CLOSED_PROVIDER_DISABLE" => audit'[i].provider \in disabled'
         /\ audit'[i].event = "TASK_RESULT_CLAIMED" => StartedBefore(audit', audit'[i].task, audit'[i].provider)
    <2>1. CASE i = n + 1
      <3>1. audit'[i] = x
        BY <1>1, <2>1
      <3>2. x.event = "TASK_RESULT_CLAIMED" => StartedBefore(audit', x.task, x.provider)
        BY <1>2
      <3> QED
        BY <3>1, <3>2
    <2>2. CASE i \in 1..n
      <3>1. audit'[i] = audit[i]
        BY <1>1, <2>2
      <3>2. audit[i].event \in {"TASK_STARTED", "TASK_RESULT_CLAIMED"}
              => audit[i].task \in CoreTask /\ Started(audit[i].task)
        BY <2>2 DEF LogInv
      <3>3. audit[i].event = "FAIL_CLOSED_PROVIDER_DISABLE" => audit[i].provider \in disabled
        BY <2>2 DEF LogInv
      <3>4. audit[i].event = "TASK_RESULT_CLAIMED" => StartedBefore(audit, audit[i].task, audit[i].provider)
        BY <2>2 DEF LogInv
      <3>5. audit[i].event = "TASK_RESULT_CLAIMED" => StartedBefore(audit', audit[i].task, audit[i].provider)
        BY <1>2, <3>2, <3>4
      <3> QED
        BY <3>1, <3>2, <3>3, <3>5
    <2> QED
      BY <1>1, <2>1, <2>2
  <1>4. ASSUME NEW e \in Executor, run'[e].step = "claim"
        PROVE  StartedBefore(audit', run'[e].task, run'[e].provider)
    <2>1. run'[e] = run[e] /\ (x.event = "TASK_STARTED" => run[e].task # x.task)
      BY <1>4
    <2>2. StartedBefore(audit, run[e].task, run[e].provider)
      BY <1>4, <2>1 DEF LogInv, InRun
    <2>3. StartedBefore(audit', run[e].task, run[e].provider)
      BY <1>2, <2>1, <2>2
    <2> QED
      BY <2>1, <2>3
  <1> HIDE DEF n
  <1> QED
    BY <1>1, <1>3, <1>4 DEF LogInv, InRun, Started

-----------------------------------------------------------------------------
(* What the tables hold.                                                   *)

CoreRow == [status : Status, key : CoreKey \cup {Null}, content : Content \cup {Null},
        provider : Provider \cup {Null}]
Hold == [step : {"idle", "route", "claim", "fail"}, task : CoreTask \cup {Null},
         provider : Provider \cup {Null}]

LEMMA CoreTyped ==
    ASSUME CoreInv
    PROVE  /\ tasks \in [CoreTask -> CoreRow] /\ run \in [Executor -> Hold] /\ audit \in Seq(Entry)
           /\ Null \notin CoreTask
           /\ \A t \in CoreTask : tasks[t].key \in CoreKey \cup {Null}
           /\ \A e \in Executor : run[e].step = "idle" <=> run[e].task = Null
  BY CoreTasksAssumption DEF CoreInv, TablesInv, CoreTypeOK, CoreRow, Hold, InRun

(* An executor goes on, or lets go, and nobody else notices.               *)
LEMMA RunStep ==
    ASSUME CoreInv, NEW e \in Executor, NEW v \in Hold,
           run' = [run EXCEPT ![e] = v], faults' \in 0..MaxFault,
           UNCHANGED <<tasks, vouched, revenues, disabled, audit, answered>>,
           v = Idle \/ (~InRun(e, "idle") /\ v.task = run[e].task /\ v.step # "idle"),
           v.step = "claim" => StartedBefore(audit, v.task, v.provider)
    PROVE  CoreInv'
  <1>1. /\ run \in [Executor -> Hold] /\ run' \in [Executor -> Hold]
        /\ run'[e] = v /\ \A x \in Executor \ {e} : run'[x] = run[x]
    BY CoreTyped
  <1>2. ~InRun(e, "idle") => run[e].task \in CoreTask /\ Started(run[e].task)
    BY DEF CoreInv, TablesInv, HeldStarted
  <1>3. v.step = "idle" <=> v.task = Null
    BY <1>2, CoreTyped DEF Idle
  <1>4. CoreTypeOK'
    BY <1>1, <1>3, CoreTyped DEF CoreInv, TablesInv, CoreTypeOK, InRun, Hold
  <1>5. HeldStarted'
    <2> SUFFICES ASSUME NEW x \in Executor, run'[x].step # "idle"
                 PROVE  run'[x].task \in CoreTask /\ tasks'[run'[x].task].status \notin {"ABSENT", "QUEUED"}
      BY DEF HeldStarted, InRun, Started
    <2>1. CASE x = e
      BY <1>1, <1>2, <2>1 DEF Idle, Started
    <2>2. CASE x # e
      BY <1>1, <2>2 DEF CoreInv, TablesInv, HeldStarted, InRun, Started
    <2> QED
      BY <2>1, <2>2
  <1>6. AnsweredHeld' /\ ReceiptsIndependent' /\ RevenueVouched' /\ ResultsClaimed'
    BY DEF CoreInv, TablesInv, AnsweredHeld, ReceiptsIndependent, RevenueVouched, ResultsClaimed
  <1>7. AuditTellsAll'
    BY SameStory DEF CoreInv
  <1>8. LogInv'
    <2>1. \A x \in Executor : run'[x].step = "claim" =>
               \/ run'[x] = run[x]
               \/ StartedBefore(audit, run'[x].task, run'[x].provider)
      BY <1>1
    <2> QED
      BY <2>1, QuietLog DEF CoreInv, Started
  <1> QED
    BY <1>4, <1>5, <1>6, <1>7, <1>8 DEF CoreInv, TablesInv

LEMMA RouteKeeps ==
    ASSUME CoreInv, NEW e \in Executor, Route(e)
    PROVE  CoreInv'
  <1>0. PICK q \in Provider :
            run' = [run EXCEPT ![e].provider = q, ![e].step = AfterSwitch(q)]
    BY DEF Route
  <1>1. PICK step : /\ run' = [run EXCEPT ![e].provider = q, ![e].step = step]
                    /\ step = AfterSwitch(q)
    BY <1>0
  <1>2. /\ run \in [Executor -> Hold] /\ run[e] \in Hold /\ ~InRun(e, "idle")
        /\ UNCHANGED <<tasks, vouched, revenues, disabled, audit, answered, faults>>
    BY CoreTyped DEF Route, InRun
  <1> DEFINE v == [step |-> step, task |-> run[e].task, provider |-> q]
  <1>3. run' = [run EXCEPT ![e] = v]
    <2>1. PICK d : d = run[e]
      OBVIOUS
    <2>2. d = [step |-> d.step, task |-> d.task, provider |-> d.provider]
      BY <1>2, <2>1 DEF Hold
    <2>3. PICK f : f = [run EXCEPT ![e].provider = q]
      OBVIOUS
    <2>4. f = [run EXCEPT ![e] = f[e]] /\ f[e] = [d EXCEPT !.provider = q]
      BY <1>2, <2>1, <2>3
    <2>5. f[e] = [step |-> d.step, task |-> d.task, provider |-> q]
      BY <2>2, <2>4
    <2>6. run' = [f EXCEPT ![e].step = step]
      BY <1>1, <2>3
    <2>7. PICK c : c = f[e]
      OBVIOUS
    <2>8. run' = [f EXCEPT ![e] = run'[e]] /\ run'[e] = [c EXCEPT !.step = step]
      BY <1>2, <2>4, <2>6, <2>7
    <2>9. run'[e] = [step |-> step, task |-> d.task, provider |-> q]
      BY <2>5, <2>7, <2>8
    <2> QED
      BY <1>2, <2>1, <2>4, <2>8, <2>9
  <1>4. v \in Hold /\ v.step # "idle" /\ v.task = run[e].task
    BY <1>1, <1>2 DEF Hold, AfterSwitch
  <1>5. v.step = "claim" => StartedBefore(audit, v.task, v.provider)
    <2> SUFFICES ASSUME AfterSwitch(q) = "claim" PROVE StartedBefore(audit, run[e].task, q)
      BY <1>1
    <2>1. q \notin disabled
      BY DEF AfterSwitch, Enabled
    <2> QED
      BY <2>1 DEF CoreInv, LogInv, StartedBefore
  <1>6. faults' \in 0..MaxFault
    BY <1>2 DEF CoreInv, TablesInv, CoreTypeOK
  <1> HIDE DEF v
  <1> QED
    BY <1>2, <1>3, <1>4, <1>5, <1>6, RunStep

LEMMA GotoIs ==
    ASSUME CoreInv, NEW e \in Executor, NEW step \in {"route", "claim", "fail"}, Goto(e, step)
    PROVE  LET v == [step |-> step, task |-> run[e].task, provider |-> run[e].provider]
           IN  v \in Hold /\ run' = [run EXCEPT ![e] = v]
  <1> DEFINE v == [step |-> step, task |-> run[e].task, provider |-> run[e].provider]
  <1>1. PICK d : d = run[e]
    OBVIOUS
  <1>2. run \in [Executor -> Hold] /\ d \in Hold
    BY <1>1, CoreTyped
  <1>3. /\ run' = [run EXCEPT ![e] = run'[e]]
        /\ run'[e] = [d EXCEPT !.step = step]
    BY <1>1, <1>2 DEF Goto
  <1>4. [d EXCEPT !.step = step] = [step |-> step, task |-> d.task, provider |-> d.provider]
    BY <1>2 DEF Hold
  <1>5. v \in Hold
    BY <1>1, <1>2 DEF Hold
  <1> QED
    BY <1>1, <1>3, <1>4, <1>5

LEMMA IdleHolds == Idle \in Hold /\ Idle.step = "idle"
  BY DEF Idle, Hold

LEMMA GiveUpKeeps ==
    ASSUME CoreInv, NEW e \in Executor, End(e) \/ (Goto(e, "fail") /\ ~InRun(e, "idle")),
           faults' \in 0..MaxFault, UNCHANGED <<tasks, vouched, revenues, disabled, audit, answered>>
    PROVE  CoreInv'
  <1>1. CASE Goto(e, "fail") /\ ~InRun(e, "idle")
    <2> DEFINE v == [step |-> "fail", task |-> run[e].task, provider |-> run[e].provider]
    <2>1. v \in Hold /\ run' = [run EXCEPT ![e] = v]
      BY <1>1, GotoIs
    <2>2. v.step # "claim" /\ v.step # "idle" /\ v.task = run[e].task
      OBVIOUS
    <2> HIDE DEF v
    <2> QED
      BY <1>1, <2>1, <2>2, RunStep
  <1>2. CASE End(e)
    BY <1>2, IdleHolds, RunStep DEF End
  <1> QED
    BY <1>1, <1>2

LEMMA RunRaisesKeeps ==
    ASSUME CoreInv, NEW e \in Executor, RunRaises(e)
    PROVE  CoreInv'
  <1>1. ~InRun(e, "idle")
    BY DEF RunRaises, InRun
  <1>2. faults' \in 0..MaxFault
    BY DEF CoreInv, TablesInv, CoreTypeOK, RunRaises
  <1> QED
    BY <1>1, <1>2, GiveUpKeeps DEF RunRaises

LEMMA FaultKeeps ==
    ASSUME CoreInv, NEW e \in Executor, StoreRaises(e) \/ ExecutorDies(e)
    PROVE  CoreInv'
  <1>1. faults < MaxFault /\ faults' = faults + 1
    BY DEF StoreRaises, ExecutorDies
  <1>2. faults' \in 0..MaxFault
    BY <1>1, CoreTasksAssumption DEF CoreInv, TablesInv, CoreTypeOK
  <1>3. CASE StoreRaises(e)
    <2>1. ~InRun(e, "idle")
      BY <1>3 DEF StoreRaises, InRun
    <2> QED
      BY <1>2, <1>3, <2>1, GiveUpKeeps DEF StoreRaises
  <1>4. CASE ExecutorDies(e)
    BY <1>2, <1>4, GiveUpKeeps DEF ExecutorDies
  <1> QED
    BY <1>3, <1>4

-----------------------------------------------------------------------------
(* A task gets on: one row, one entry of the log.                          *)

ResultsStand ==
    \A t \in CoreTask : tasks[t].provider # Null =>
        /\ tasks'[t].provider = tasks[t].provider
        /\ tasks'[t].status \notin {"ABSENT", "QUEUED", "RUNNING"}

ReceiptRow == [id : Receipt, task : CoreTask, verifier : Verifier]

LEMMA Advance ==
    ASSUME CoreInv, NEW t \in CoreTask, NEW row \in CoreRow, NEW x \in Entry,
           tasks' = [tasks EXCEPT ![t] = row], audit' = Append(audit, x),
           tasks[t].status \in {"QUEUED", "RUNNING", "SUCCESS_CLAIMED", "VERIFIED"},
           row.key = tasks[t].key, row.content = tasks[t].content,
           row.provider = tasks[t].provider \/ tasks[t].status = "RUNNING",
           row.provider # Null => row.status \in {"SUCCESS_CLAIMED", "VERIFIED", "CLOSED"},
           tasks[t].status = "VERIFIED" => row.status = "CLOSED",
           row.status \notin {"ABSENT", "QUEUED"},
           x.task = t, row.status = StatusAfter(x.event), x.event # "FAIL_CLOSED_PROVIDER_DISABLE",
           x.event = "TASK_STARTED" => tasks[t].status = "QUEUED",
           x.event = "TASK_RESULT_CLAIMED" => StartedBefore(audit, t, x.provider),
           UNCHANGED <<disabled, answered, faults>>,
           vouched \subseteq vouched', vouched' \subseteq ReceiptRow,
           \A r \in vouched' : r \in vouched \/ (r.task = t /\ row.status = "VERIFIED" /\ r.verifier # row.provider),
           revenues' \in [CoreTask -> Amount \cup {Null}],
           \A u \in CoreTask : u # t => revenues'[u] = revenues[u],
           revenues'[t] # Null =>
               row.status = "CLOSED" /\ \E r \in vouched' : r.task = t /\ r.verifier # row.provider,
           run' \in [Executor -> Hold],
           \A e \in Executor : \/ run'[e] = run[e]
                               \/ run'[e] = Idle
                               \/ run'[e].task = t /\ run'[e].step \notin {"idle", "claim"}
    PROVE  CoreInv' /\ ResultsStand
  <1>1. /\ tasks \in [CoreTask -> CoreRow] /\ tasks' \in [CoreTask -> CoreRow]
        /\ tasks'[t] = row /\ \A u \in CoreTask : u # t => tasks'[u] = tasks[u]
    BY CoreTyped
  <1>2. \A e \in Executor : run[e].step = "idle" <=> run[e].task = Null
    BY CoreTyped
  <1>3. \A e \in Executor : run'[e].step = "idle" <=> run'[e].task = Null
    BY <1>2, CoreTyped DEF Idle
  <1>4. CoreTypeOK'
    <2>1. audit' \in Seq(Entry)
      BY CoreTyped, Appended
    <2> QED
      BY <1>1, <1>3, <2>1 DEF CoreInv, TablesInv, CoreTypeOK, InRun, CoreRow, Hold, ReceiptRow
  <1>5. AnsweredHeld'
    <2>1. \A u \in CoreTask : /\ tasks'[u].key = tasks[u].key /\ tasks'[u].content = tasks[u].content
                              /\ tasks'[u].status = "ABSENT" => tasks[u].status = "ABSENT" /\ u # t
                              /\ tasks[u].status # "ABSENT" => tasks'[u].status # "ABSENT"
      BY <1>1
    <2>2. \A a \in answered : a.task \in CoreTask
      BY DEF CoreInv, TablesInv, CoreTypeOK
    <2>3. /\ \A a \in answered' : /\ a.key = tasks'[a.task].key /\ a.content = tasks'[a.task].content
                                  /\ tasks'[a.task].status # "ABSENT"
          /\ \A u, v \in CoreTask : tasks'[u].key = tasks'[v].key /\ tasks'[u].key # Null => u = v
      BY <2>1, <2>2 DEF CoreInv, TablesInv, AnsweredHeld
    <2>4. \A u \in CoreTask : tasks'[u].status = "ABSENT" => tasks'[u] = NoTask
      BY <1>1, <2>1 DEF CoreInv, TablesInv, AnsweredHeld
    <2> QED
      BY <2>3, <2>4 DEF AnsweredHeld, NoTask
  <1>6. ReceiptsIndependent'
    <2> SUFFICES ASSUME NEW r \in vouched'
                 PROVE  tasks'[r.task].status \in {"VERIFIED", "CLOSED"} /\ r.verifier # tasks'[r.task].provider
      BY DEF ReceiptsIndependent
    <2>1. CASE r \in vouched
      <3>1. /\ r.task \in CoreTask /\ tasks[r.task].status \in {"VERIFIED", "CLOSED"}
            /\ r.verifier # tasks[r.task].provider
        BY <2>1 DEF CoreInv, TablesInv, CoreTypeOK, ReceiptsIndependent
      <3> QED
        BY <1>1, <3>1
    <2>2. CASE r.task = t /\ row.status = "VERIFIED" /\ r.verifier # row.provider
      BY <1>1, <2>2
    <2> QED
      BY <2>1, <2>2
  <1>7. RevenueVouched'
    <2> SUFFICES ASSUME NEW u \in CoreTask, revenues'[u] # Null
                 PROVE  /\ tasks'[u].status = "CLOSED"
                        /\ \E r \in vouched' : r.task = u /\ r.verifier # tasks'[u].provider
      BY DEF RevenueVouched
    <2>1. CASE u = t
      BY <1>1, <2>1
    <2>2. CASE u # t
      BY <1>1, <2>2 DEF CoreInv, TablesInv, RevenueVouched
    <2> QED
      BY <2>1, <2>2
  <1>8. ResultsClaimed'
    BY <1>1 DEF CoreInv, TablesInv, ResultsClaimed
  <1>9. HeldStarted'
    <2> SUFFICES ASSUME NEW e \in Executor, run'[e].step # "idle"
                 PROVE  run'[e].task \in CoreTask /\ tasks'[run'[e].task].status \notin {"ABSENT", "QUEUED"}
      BY DEF HeldStarted, InRun, Started
    <2>1. CASE run'[e] = run[e]
      BY <1>1, <2>1 DEF CoreInv, TablesInv, HeldStarted, InRun, Started
    <2>2. CASE run'[e].task = t
      BY <1>1, <2>2
    <2> QED
      BY <2>1, <2>2 DEF Idle
  <1>10. AuditTellsAll'
    BY <1>1, TellsOn DEF CoreInv, TablesInv
  <1>11. LogInv'
    <2>1. \A u \in CoreTask : Started(u) => tasks'[u].status \notin {"ABSENT", "QUEUED"}
      BY <1>1 DEF Started
    <2>2. \A e \in Executor : run'[e].step = "claim" =>
               run'[e] = run[e] /\ (x.event = "TASK_STARTED" => run[e].task # x.task)
      <3> SUFFICES ASSUME NEW e \in Executor, run'[e].step = "claim"
                   PROVE  run'[e] = run[e] /\ (x.event = "TASK_STARTED" => run[e].task # x.task)
        OBVIOUS
      <3>1. run'[e] = run[e]
        BY DEF Idle
      <3>2. Started(run[e].task)
        BY <3>1 DEF CoreInv, TablesInv, HeldStarted, InRun
      <3> QED
        BY <3>1, <3>2 DEF Started
    <2>3. x.event = "TASK_STARTED" => x.task \in CoreTask /\ ~Started(x.task)
      BY DEF Started
    <2>4. tasks'[x.task].status \notin {"ABSENT", "QUEUED"}
      BY <1>1
    <2> QED
      BY <2>1, <2>2, <2>3, <2>4, LoudLog DEF CoreInv, TablesInv
  <1>12. ResultsStand
    BY <1>1 DEF CoreInv, TablesInv, ResultsClaimed, ResultsStand
  <1> QED
    BY <1>4, <1>5, <1>6, <1>7, <1>8, <1>9, <1>10, <1>11, <1>12 DEF CoreInv, TablesInv

LEMMA Standing ==
    ASSUME CoreInv, tasks' = tasks
    PROVE  ResultsStand
  BY DEF CoreInv, TablesInv, ResultsClaimed, ResultsStand

(* What is to be shown of the tables that stay as they are.                *)
LEMMA TablesTyped ==
    ASSUME CoreInv
    PROVE  /\ vouched \subseteq ReceiptRow /\ revenues \in [CoreTask -> Amount \cup {Null}]
           /\ \A t \in CoreTask : tasks[t].status # "CLOSED" => revenues[t] = Null
  BY DEF CoreInv, TablesInv, CoreTypeOK, ReceiptRow, RevenueVouched

LEMMA EntryTyped ==
    ASSUME NEW event \in {"TASK_ADDED", "TASK_STARTED", "TASK_RESULT_CLAIMED", "TASK_FAILED",
                          "TASK_VERIFICATION_RECEIPT_ACCEPTED", "TASK_CLOSED",
                          "IDEMPOTENCY_CONTENT_MISMATCH", "FAIL_CLOSED_PROVIDER_DISABLE"},
           NEW t \in CoreTask \cup {Null}, NEW q \in Provider \cup {Null}
    PROVE  /\ [event |-> event, task |-> t, provider |-> q] \in Entry
           /\ Log(event, t, q) = Append(audit, [event |-> event, task |-> t, provider |-> q])
  BY DEF Entry, Log

(* The row a task gets with another status.                                *)
LEMMA NewStatus ==
    ASSUME CoreInv, NEW t \in CoreTask, NEW status \in Status,
           tasks' = [tasks EXCEPT ![t].status = status]
    PROVE  \E row \in CoreRow :
              /\ tasks' = [tasks EXCEPT ![t] = row]
              /\ row.status = status /\ row.key = tasks[t].key
              /\ row.content = tasks[t].content /\ row.provider = tasks[t].provider
  <1>1. PICK d : d = tasks[t]
    OBVIOUS
  <1>2. tasks \in [CoreTask -> CoreRow] /\ d \in CoreRow
    BY <1>1, CoreTyped
  <1>3. /\ tasks' = [tasks EXCEPT ![t] = tasks'[t]]
        /\ tasks'[t] = [d EXCEPT !.status = status]
    BY <1>1, <1>2
  <1>4. [d EXCEPT !.status = status]
            = [status |-> status, key |-> d.key, content |-> d.content, provider |-> d.provider]
    BY <1>2 DEF CoreRow
  <1> DEFINE row == [status |-> status, key |-> d.key, content |-> d.content, provider |-> d.provider]
  <1>5. row \in CoreRow
    BY <1>2 DEF CoreRow
  <1> QED
    BY <1>1, <1>3, <1>4, <1>5

LEMMA FetchKeeps ==
    ASSUME CoreInv, NEW e \in Executor, Fetch(e)
    PROVE  CoreInv' /\ ResultsStand
  <1>1. PICK t \in CoreTask :
          /\ Fetchable(t)
          /\ tasks' = [tasks EXCEPT ![t].status = "RUNNING"]
          /\ audit' = Log("TASK_STARTED", t, Null)
          /\ run' = [run EXCEPT ![e] = [step |-> "route", task |-> t, provider |-> Null]]
    BY DEF Fetch
  <1>2. PICK row \in CoreRow :
          /\ tasks' = [tasks EXCEPT ![t] = row]
          /\ row.status = "RUNNING" /\ row.key = tasks[t].key
          /\ row.content = tasks[t].content /\ row.provider = tasks[t].provider
    BY <1>1, NewStatus DEF Status
  <1> DEFINE x == [event |-> "TASK_STARTED", task |-> t, provider |-> Null]
  <1>3. x \in Entry /\ audit' = Append(audit, x) /\ x.task = t /\ x.event = "TASK_STARTED"
    BY <1>1, EntryTyped
  <1>4. tasks[t].status = "QUEUED"
    BY <1>1 DEF Fetchable
  <1>5. tasks[t].provider = Null
    BY <1>4 DEF CoreInv, TablesInv, ResultsClaimed
  <1>6. /\ run' \in [Executor -> Hold]
        /\ \A d \in Executor : \/ run'[d] = run[d]
                               \/ run'[d].task = t /\ run'[d].step \notin {"idle", "claim"}
    BY <1>1, CoreTyped DEF Hold
  <1>7. StatusAfter(x.event) = "RUNNING"
    BY DEF StatusAfter
  <1>8. UNCHANGED <<vouched, revenues, disabled, answered, faults>>
    BY DEF Fetch
  <1> HIDE DEF x
  <1> QED
    BY <1>2, <1>3, <1>4, <1>5, <1>6, <1>7, <1>8, TablesTyped, Advance

LEMMA RecordClaimKeeps ==
    ASSUME CoreInv, NEW e \in Executor, RecordClaim(e)
    PROVE  CoreInv' /\ ResultsStand
  <1> DEFINE t == run[e].task
  <1>1. InRun(e, "claim") /\ UNCHANGED <<vouched, revenues, disabled, answered, faults>>
    BY DEF RecordClaim
  <1>2. t \in CoreTask /\ Started(t) /\ run \in [Executor -> Hold] /\ run[e] \in Hold
    BY <1>1, CoreTyped DEF CoreInv, TablesInv, HeldStarted, InRun
  <1>3. CASE tasks[t].status = "RUNNING"
    <2>1. PICK q : q = run[e].provider
      OBVIOUS
    <2>2. /\ tasks' = [tasks EXCEPT ![t].status = "SUCCESS_CLAIMED", ![t].provider = q]
          /\ audit' = Log("TASK_RESULT_CLAIMED", t, q)
          /\ run' = [run EXCEPT ![e] = Idle]
      BY <1>3, <2>1 DEF RecordClaim, End
    <2>3. q \in Provider \cup {Null}
      BY <1>2, <2>1 DEF Hold
    <2>4. PICK u : u = t
      OBVIOUS
    <2>5. PICK row \in CoreRow :
          /\ tasks' = [tasks EXCEPT ![u] = row]
          /\ row.status = "SUCCESS_CLAIMED" /\ row.key = tasks[u].key
          /\ row.content = tasks[u].content /\ row.provider = q
      <3> HIDE DEF t
      <3>1. PICK d : d = tasks[u]
        OBVIOUS
      <3>2. tasks \in [CoreTask -> CoreRow] /\ d \in CoreRow /\ u \in CoreTask
        BY <1>2, <2>4, <3>1, CoreTyped
      <3>3. PICK f : f = [tasks EXCEPT ![u].status = "SUCCESS_CLAIMED"]
        OBVIOUS
      <3>4. f = [tasks EXCEPT ![u] = f[u]] /\ f[u] = [d EXCEPT !.status = "SUCCESS_CLAIMED"]
        BY <3>1, <3>2, <3>3
      <3>5. f[u] = [status |-> "SUCCESS_CLAIMED", key |-> d.key, content |-> d.content, provider |-> d.provider]
        BY <3>2, <3>4 DEF CoreRow
      <3>6. tasks' = [f EXCEPT ![u].provider = q]
        BY <2>2, <2>4, <3>3
      <3>7. PICK c : c = f[u]
        OBVIOUS
      <3>8. tasks' = [f EXCEPT ![u] = tasks'[u]] /\ tasks'[u] = [c EXCEPT !.provider = q]
        BY <3>2, <3>4, <3>6, <3>7
      <3> DEFINE row == [status |-> "SUCCESS_CLAIMED", key |-> d.key, content |-> d.content, provider |-> q]
      <3>9. tasks'[u] = row
        BY <3>5, <3>7, <3>8
      <3>10. row \in CoreRow
        BY <2>3, <3>2 DEF CoreRow, Status
      <3>11. tasks' = [tasks EXCEPT ![u] = row]
        BY <3>2, <3>4, <3>8, <3>9
      <3> QED
        BY <3>1, <3>10, <3>11
    <2> DEFINE x == [event |-> "TASK_RESULT_CLAIMED", task |-> u, provider |-> q]
    <2>6. /\ x \in Entry /\ audit' = Append(audit, x) /\ x.task = u /\ x.provider = q
          /\ x.event = "TASK_RESULT_CLAIMED"
      BY <1>2, <2>2, <2>3, <2>4, EntryTyped
    <2>7. StartedBefore(audit, u, q)
      BY <1>1, <2>1, <2>4 DEF CoreInv, LogInv
    <2>8. /\ run' \in [Executor -> Hold]
          /\ \A d \in Executor : run'[d] = run[d] \/ run'[d] = Idle
      BY <1>2, <2>2, IdleHolds
    <2>9. StatusAfter(x.event) = "SUCCESS_CLAIMED"
      BY DEF StatusAfter
    <2> HIDE DEF x, t
    <2> QED
      BY <1>1, <1>2, <1>3, <2>4, <2>5, <2>6, <2>7, <2>8, <2>9, TablesTyped, Advance
  <1>4. CASE tasks[t].status # "RUNNING"
    <2>1. Goto(e, "fail") /\ UNCHANGED <<tasks, audit>>
      BY <1>4 DEF RecordClaim
    <2>2. faults' \in 0..MaxFault
      BY <1>1 DEF CoreInv, TablesInv, CoreTypeOK
    <2>3. CoreInv'
      BY <1>1, <2>1, <2>2, GiveUpKeeps DEF InRun
    <2> QED
      BY <2>1, <2>3, Standing
  <1> QED
    BY <1>3, <1>4

LEMMA FailKeeps ==
    ASSUME CoreInv, NEW e \in Executor, Fail(e)
    PROVE  CoreInv' /\ ResultsStand
  <1>1. PICK t : t = run[e].task
    OBVIOUS
  <1>2. /\ InRun(e, "fail") /\ run' = [run EXCEPT ![e] = Idle]
        /\ UNCHANGED <<vouched, revenues, disabled, answered, faults>>
    BY DEF Fail, End
  <1>3. t \in CoreTask /\ Started(t) /\ run \in [Executor -> Hold]
    BY <1>1, <1>2, CoreTyped DEF CoreInv, TablesInv, HeldStarted, InRun
  <1>4. CASE tasks[t].status = "RUNNING"
    <2>1. /\ tasks' = [tasks EXCEPT ![t].status = "FAILED"]
          /\ audit' = Log("TASK_FAILED", t, Null)
      BY <1>1, <1>4 DEF Fail, FailureLogged
    <2>2. PICK row \in CoreRow :
          /\ tasks' = [tasks EXCEPT ![t] = row]
          /\ row.status = "FAILED" /\ row.key = tasks[t].key
          /\ row.content = tasks[t].content /\ row.provider = tasks[t].provider
      BY <1>3, <2>1, NewStatus DEF Status
    <2> DEFINE x == [event |-> "TASK_FAILED", task |-> t, provider |-> Null]
    <2>3. x \in Entry /\ audit' = Append(audit, x) /\ x.task = t /\ x.event = "TASK_FAILED"
      BY <1>3, <2>1, EntryTyped
    <2>4. tasks[t].provider = Null
      BY <1>3, <1>4 DEF CoreInv, TablesInv, ResultsClaimed
    <2>5. /\ run' \in [Executor -> Hold]
          /\ \A d \in Executor : run'[d] = run[d] \/ run'[d] = Idle
      BY <1>2, <1>3, IdleHolds
    <2>6. StatusAfter(x.event) = "FAILED"
      BY DEF StatusAfter
    <2> HIDE DEF x
    <2> QED
      BY <1>2, <1>3, <1>4, <2>2, <2>3, <2>4, <2>5, <2>6, TablesTyped, Advance
  <1>5. CASE tasks[t].status # "RUNNING"
    <2>1. UNCHANGED <<tasks, audit>>
      BY <1>1, <1>5 DEF Fail, FailureLogged
    <2>2. faults' \in 0..MaxFault
      BY <1>2 DEF CoreInv, TablesInv, CoreTypeOK
    <2>3. CoreInv'
      BY <1>2, <2>1, <2>2, GiveUpKeeps DEF End
    <2> QED
      BY <2>1, <2>3, Standing
  <1> QED
    BY <1>4, <1>5

LEMMA ApplyReceiptKeeps ==
    ASSUME CoreInv, NEW t \in CoreTask, NEW r \in Receipt, NEW v \in Verifier, ApplyReceipt(t, r, v)
    PROVE  CoreInv' /\ ResultsStand
  <1> DEFINE receipt == [id |-> r, task |-> t, verifier |-> v]
  <1>1. /\ tasks[t].status = "SUCCESS_CLAIMED" /\ v # tasks[t].provider
        /\ vouched' = vouched \cup {receipt}
        /\ tasks' = [tasks EXCEPT ![t].status = "VERIFIED"]
        /\ audit' = Log("TASK_VERIFICATION_RECEIPT_ACCEPTED", t, Null)
        /\ UNCHANGED <<revenues, disabled, run, answered, faults>>
    BY DEF ApplyReceipt, Independent
  <1>2. PICK row \in CoreRow :
          /\ tasks' = [tasks EXCEPT ![t] = row]
          /\ row.status = "VERIFIED" /\ row.key = tasks[t].key
          /\ row.content = tasks[t].content /\ row.provider = tasks[t].provider
    BY <1>1, NewStatus DEF Status
  <1> DEFINE x == [event |-> "TASK_VERIFICATION_RECEIPT_ACCEPTED", task |-> t, provider |-> Null]
  <1>3. /\ x \in Entry /\ audit' = Append(audit, x) /\ x.task = t
        /\ x.event = "TASK_VERIFICATION_RECEIPT_ACCEPTED"
    BY <1>1, EntryTyped
  <1>4. receipt \in ReceiptRow /\ receipt.task = t /\ receipt.verifier # row.provider
    BY <1>1, <1>2 DEF ReceiptRow
  <1>5. StatusAfter(x.event) = "VERIFIED"
    BY DEF StatusAfter
  <1>6. run' \in [Executor -> Hold] /\ \A e \in Executor : run'[e] = run[e]
    BY <1>1, CoreTyped
  <1>7. /\ vouched \subseteq vouched' /\ vouched' \subseteq ReceiptRow
        /\ \A s \in vouched' : s \in vouched \/ (s.task = t /\ row.status = "VERIFIED" /\ s.verifier # row.provider)
    BY <1>1, <1>2, <1>4, TablesTyped
  <1>8. /\ tasks[t].status = "SUCCESS_CLAIMED" /\ UNCHANGED <<disabled, answered, faults>>
        /\ revenues' \in [CoreTask -> Amount \cup {Null}] /\ revenues'[t] = Null
        /\ \A u \in CoreTask : revenues'[u] = revenues[u]
    BY <1>1, TablesTyped
  <1> HIDE DEF x, receipt
  <1> QED
    BY <1>2, <1>3, <1>5, <1>6, <1>7, <1>8, Advance

LEMMA CloseKeeps ==
    ASSUME CoreInv, NEW t \in CoreTask, NEW amount \in Amount, RealizeAndClose(t, amount)
    PROVE  CoreInv' /\ ResultsStand
  <1>1. /\ tasks[t].status = "VERIFIED" /\ \E r \in vouched : r.task = t
        /\ revenues' = IF amount > 0 THEN [revenues EXCEPT ![t] = amount] ELSE revenues
        /\ tasks' = [tasks EXCEPT ![t].status = "CLOSED"]
        /\ audit' = Log("TASK_CLOSED", t, Null)
        /\ UNCHANGED <<vouched, disabled, run, answered, faults>>
    BY DEF RealizeAndClose, Closable
  <1>2. PICK row \in CoreRow :
          /\ tasks' = [tasks EXCEPT ![t] = row]
          /\ row.status = "CLOSED" /\ row.key = tasks[t].key
          /\ row.content = tasks[t].content /\ row.provider = tasks[t].provider
    BY <1>1, NewStatus DEF Status
  <1> DEFINE x == [event |-> "TASK_CLOSED", task |-> t, provider |-> Null]
  <1>3. x \in Entry /\ audit' = Append(audit, x) /\ x.task = t /\ x.event = "TASK_CLOSED"
    BY <1>1, EntryTyped
  <1>4. /\ revenues' \in [CoreTask -> Amount \cup {Null}]
        /\ \A u \in CoreTask : u # t => revenues'[u] = revenues[u]
    <2>1. CASE amount > 0
      BY <1>1, <2>1, TablesTyped
    <2>2. CASE ~(amount > 0)
      BY <1>1, <2>2, TablesTyped
    <2> QED
      BY <2>1, <2>2
  <1>5. \E r \in vouched' : r.task = t /\ r.verifier # row.provider
    BY <1>1, <1>2 DEF CoreInv, TablesInv, ReceiptsIndependent
  <1>6. StatusAfter(x.event) = "CLOSED"
    BY DEF StatusAfter
  <1>7. run' \in [Executor -> Hold] /\ \A e \in Executor : run'[e] = run[e]
    BY <1>1, CoreTyped
  <1>8. vouched' = vouched /\ vouched \subseteq ReceiptRow
    BY <1>1, TablesTyped
  <1>9. tasks[t].status = "VERIFIED" /\ UNCHANGED <<disabled, answered, faults>>
    BY <1>1
  <1> HIDE DEF x
  <1> QED
    BY <1>2, <1>3, <1>4, <1>5, <1>6, <1>7, <1>8, <1>9, Advance

(* An entry about no task.                                                 *)
LEMMA LogOnly ==
    ASSUME CoreInv, NEW x \in Entry, audit' = Append(audit, x), x.task = Null,
           x.event \in {"IDEMPOTENCY_CONTENT_MISMATCH", "FAIL_CLOSED_PROVIDER_DISABLE"},
           disabled \subseteq disabled', disabled' \subseteq Provider,
           x.event = "FAIL_CLOSED_PROVIDER_DISABLE" => x.provider \in disabled',
           UNCHANGED <<tasks, vouched, revenues, run, answered, faults>>
    PROVE  CoreInv'
  <1>1. CoreTypeOK'
    <2>1. audit' \in Seq(Entry)
      BY CoreTyped, Appended
    <2> QED
      BY <2>1 DEF CoreInv, TablesInv, CoreTypeOK, InRun
  <1>2. AnsweredHeld' /\ ReceiptsIndependent' /\ RevenueVouched' /\ ResultsClaimed' /\ HeldStarted'
    BY DEF CoreInv, TablesInv, AnsweredHeld, ReceiptsIndependent, RevenueVouched, ResultsClaimed,
           HeldStarted, InRun, Started
  <1>3. AuditTellsAll'
    <2>1. x.task \notin CoreTask
      BY CoreTyped
    <2> QED
      BY <2>1, TellsOn DEF CoreInv, TablesInv
  <1>4. LogInv'
    <2>1. \A e \in Executor : run'[e] = run[e]
      OBVIOUS
    <2> QED
      BY <2>1, LoudLog DEF CoreInv, TablesInv, Started
  <1> QED
    BY <1>1, <1>2, <1>3, <1>4 DEF CoreInv, TablesInv

LEMMA DisableKeeps ==
    ASSUME CoreInv, NEW q \in Provider, DisableProvider(q)
    PROVE  CoreInv' /\ ResultsStand
  <1>1. /\ disabled' = disabled \cup {q}
        /\ audit' = Log("FAIL_CLOSED_PROVIDER_DISABLE", Null, q)
        /\ UNCHANGED <<tasks, vouched, revenues, run, answered, faults>>
    BY DEF DisableProvider
  <1> DEFINE x == [event |-> "FAIL_CLOSED_PROVIDER_DISABLE", task |-> Null, provider |-> q]
  <1>2. /\ x \in Entry /\ audit' = Append(audit, x) /\ x.task = Null /\ x.provider = q
        /\ x.event = "FAIL_CLOSED_PROVIDER_DISABLE"
    BY <1>1, EntryTyped
  <1>3. disabled' \subseteq Provider
    BY <1>1 DEF CoreInv, TablesInv, CoreTypeOK
  <1> HIDE DEF x
  <1> QED
    BY <1>1, <1>2, <1>3, LogOnly, Standing

(* A request under a known key: told its task, or refused.                 *)
LEMMA RepeatedKeeps ==
    ASSUME CoreInv, NEW k \in CoreKey \cup {Null}, NEW c \in Content, NEW t \in Holder(k), SameRequest(t, c),
           answered' = answered \cup {[key |-> k, content |-> c, task |-> t]},
           UNCHANGED <<tasks, vouched, revenues, disabled, audit, run, faults>>
    PROVE  CoreInv'
  <1>1. t \in CoreTask /\ tasks[t].key = k /\ k # Null /\ tasks[t].content = c
    BY DEF Holder, SameRequest
  <1>2. tasks[t].status # "ABSENT"
    BY <1>1 DEF CoreInv, TablesInv, AnsweredHeld, NoTask
  <1>3. CoreTypeOK'
    BY <1>1 DEF CoreInv, TablesInv, CoreTypeOK, InRun
  <1>4. AnsweredHeld'
    BY <1>1, <1>2 DEF CoreInv, TablesInv, AnsweredHeld, NoTask
  <1>5. ReceiptsIndependent' /\ RevenueVouched' /\ ResultsClaimed' /\ HeldStarted'
    BY DEF CoreInv, TablesInv, ReceiptsIndependent, RevenueVouched, ResultsClaimed,
           HeldStarted, InRun, Started
  <1>6. AuditTellsAll' /\ LogInv'
    <2>1. \A e \in Executor : run'[e] = run[e]
      OBVIOUS
    <2> QED
      BY <2>1, SameStory, QuietLog DEF CoreInv, Started
  <1> QED
    BY <1>3, <1>4, <1>5, <1>6 DEF CoreInv, TablesInv

LEMMA NewRow ==
    ASSUME NEW k, NEW c
    PROVE  [NoTask EXCEPT !.status = "QUEUED", !.key = k, !.content = c]
               = [status |-> "QUEUED", key |-> k, content |-> c, provider |-> Null]
  <1>1. PICK n : n = NoTask
    OBVIOUS
  <1>2. n = [status |-> "ABSENT", key |-> Null, content |-> Null, provider |-> Null]
    BY <1>1 DEF NoTask
  <1>3. PICK f : f = [n EXCEPT !.status = "QUEUED", !.key = k, !.content = c]
    OBVIOUS
  <1>4. f = [status |-> "QUEUED", key |-> k, content |-> c, provider |-> Null]
    BY <1>2, <1>3
  <1> QED
    BY <1>1, <1>3, <1>4

LEMMA NewTaskKeeps ==
    ASSUME CoreInv, NEW k \in CoreKey \cup {Null}, NEW c \in Content, NEW t \in CoreTask, tasks[t] = NoTask,
           ~\E u \in Holder(k) : TRUE,
           tasks' = [tasks EXCEPT ![t] = [NoTask EXCEPT !.status = "QUEUED", !.key = k, !.content = c]],
           audit' = Log("TASK_ADDED", t, Null),
           answered' = answered \cup {[key |-> k, content |-> c, task |-> t]},
           UNCHANGED <<vouched, revenues, disabled, run, faults>>
    PROVE  CoreInv' /\ ResultsStand
  <1> DEFINE row == [status |-> "QUEUED", key |-> k, content |-> c, provider |-> Null]
             x   == [event |-> "TASK_ADDED", task |-> t, provider |-> Null]
             a   == [key |-> k, content |-> c, task |-> t]
  <1>1. [NoTask EXCEPT !.status = "QUEUED", !.key = k, !.content = c] = row
    BY NewRow
  <1>2. /\ tasks \in [CoreTask -> CoreRow] /\ tasks' \in [CoreTask -> CoreRow]
        /\ tasks'[t] = row /\ \A u \in CoreTask : u # t => tasks'[u] = tasks[u]
    <2>1. row \in CoreRow
      BY DEF CoreRow, Status
    <2> HIDE DEF row
    <2> QED
      BY <1>1, <2>1, CoreTyped
  <1>3. /\ x \in Entry /\ audit' = Append(audit, x) /\ x.task = t /\ x.event = "TASK_ADDED"
    BY EntryTyped
  <1>4. /\ row.status = "QUEUED" /\ row.key = k /\ row.content = c /\ row.provider = Null
        /\ tasks[t].status = "ABSENT"
    BY DEF NoTask
  <1>5. \A u \in CoreTask : tasks[u].key = k => k = Null
    BY DEF Holder
  <1>6. StatusAfter(x.event) = "QUEUED"
    BY DEF StatusAfter
  <1>7. a \in [key : CoreKey \cup {Null}, content : Content, task : CoreTask]
        /\ a.key = k /\ a.content = c /\ a.task = t
    OBVIOUS
  <1> HIDE DEF row, x, a
  <1>8. CoreTypeOK'
    <2>1. audit' \in Seq(Entry)
      BY <1>3, CoreTyped, Appended
    <2>2. answered' \subseteq [key : CoreKey \cup {Null}, content : Content, task : CoreTask]
      BY <1>7 DEF CoreInv, TablesInv, CoreTypeOK, a
    <2> QED
      BY <1>2, <2>1, <2>2 DEF CoreInv, TablesInv, CoreTypeOK, InRun, CoreRow
  <1>9. AnsweredHeld'
    <2>1. ASSUME NEW b \in answered'
          PROVE  /\ b.key = tasks'[b.task].key /\ b.content = tasks'[b.task].content
                 /\ tasks'[b.task].status # "ABSENT"
      <3>1. CASE b \in answered
        <4>1. b.task \in CoreTask /\ b.task # t
          BY <1>4, <3>1 DEF CoreInv, TablesInv, CoreTypeOK, AnsweredHeld
        <4> QED
          BY <1>2, <3>1, <4>1 DEF CoreInv, TablesInv, AnsweredHeld
      <3>2. CASE b = a
        BY <1>2, <1>4, <1>7, <3>2
      <3> QED
        BY <3>1, <3>2 DEF a
    <2>2. \A u, v \in CoreTask : tasks'[u].key = tasks'[v].key /\ tasks'[u].key # Null => u = v
      BY <1>2, <1>4, <1>5 DEF CoreInv, TablesInv, AnsweredHeld
    <2>3. \A u \in CoreTask : tasks'[u].status = "ABSENT" => tasks'[u] = NoTask
      BY <1>2, <1>4 DEF CoreInv, TablesInv, AnsweredHeld
    <2> QED
      BY <2>1, <2>2, <2>3 DEF AnsweredHeld, NoTask
  <1>10. ReceiptsIndependent'
    <2> SUFFICES ASSUME NEW r \in vouched
                 PROVE  tasks'[r.task].status \in {"VERIFIED", "CLOSED"} /\ r.verifier # tasks'[r.task].provider
      BY DEF ReceiptsIndependent
    <2>1. /\ r.task \in CoreTask /\ tasks[r.task].status \in {"VERIFIED", "CLOSED"}
          /\ r.verifier # tasks[r.task].provider
      BY DEF CoreInv, TablesInv, CoreTypeOK, ReceiptsIndependent
    <2> QED
      BY <1>2, <1>4, <2>1
  <1>11. RevenueVouched'
    BY <1>2, <1>4 DEF CoreInv, TablesInv, RevenueVouched
  <1>12. ResultsClaimed' /\ ResultsStand
    BY <1>2, <1>4 DEF CoreInv, TablesInv, ResultsClaimed, ResultsStand
  <1>13. HeldStarted'
    BY <1>2, <1>4 DEF CoreInv, TablesInv, HeldStarted, InRun, Started
  <1>14. AuditTellsAll'
    BY <1>2, <1>3, <1>4, <1>6, TellsOn DEF CoreInv, TablesInv
  <1>15. LogInv'
    <2>1. \A u \in CoreTask : Started(u) => tasks'[u].status \notin {"ABSENT", "QUEUED"}
      BY <1>2, <1>4 DEF Started
    <2>2. \A e \in Executor : run'[e] = run[e]
      OBVIOUS
    <2> QED
      BY <1>3, <2>1, <2>2, LoudLog DEF CoreInv, TablesInv
  <1> QED
    BY <1>8, <1>9, <1>10, <1>11, <1>12, <1>13, <1>14, <1>15 DEF CoreInv, TablesInv

LEMMA AddTaskKeeps ==
    ASSUME CoreInv, NEW k \in CoreKey \cup {Null}, NEW c \in Content, AddTask(k, c)
    PROVE  CoreInv' /\ ResultsStand
  <1>1. CASE /\ \E t \in Holder(k) :
                  /\ SameRequest(t, c)
                  /\ answered' = answered \cup {[key |-> k, content |-> c, task |-> t]}
             /\ UNCHANGED <<tasks, vouched, revenues, disabled, audit, run, faults>>
    BY <1>1, RepeatedKeeps, Standing
  <1>2. CASE /\ audit' = Log("IDEMPOTENCY_CONTENT_MISMATCH", Null, Null)
             /\ UNCHANGED <<tasks, vouched, revenues, disabled, run, answered, faults>>
    <2> DEFINE x == [event |-> "IDEMPOTENCY_CONTENT_MISMATCH", task |-> Null, provider |-> Null]
    <2>1. /\ x \in Entry /\ audit' = Append(audit, x) /\ x.task = Null
          /\ x.event = "IDEMPOTENCY_CONTENT_MISMATCH"
      BY <1>2, EntryTyped
    <2>2. disabled' \subseteq Provider /\ disabled \subseteq disabled'
      BY <1>2 DEF CoreInv, TablesInv, CoreTypeOK
    <2> HIDE DEF x
    <2> QED
      BY <1>2, <2>1, <2>2, LogOnly, Standing
  <1>3. CASE /\ ~\E t \in Holder(k) : TRUE
             /\ \E t \in CoreTask :
                  /\ tasks[t] = NoTask
                  /\ tasks' = [tasks EXCEPT ![t] = [NoTask EXCEPT !.status = "QUEUED",
                                                                  !.key = k, !.content = c]]
                  /\ audit' = Log("TASK_ADDED", t, Null)
                  /\ answered' = answered \cup {[key |-> k, content |-> c, task |-> t]}
             /\ UNCHANGED <<vouched, revenues, disabled, run, faults>>
    BY <1>3, NewTaskKeeps
  <1> QED
    BY <1>1, <1>2, <1>3 DEF AddTask

LEMMA CoreNextKeeps == CoreInv /\ [CoreNext]_coreVars => CoreInv'
  <1> SUFFICES ASSUME CoreInv, [CoreNext]_coreVars PROVE CoreInv'
    OBVIOUS
  <1>1. CASE CoreNext
    BY <1>1, AddTaskKeeps, FetchKeeps, RouteKeeps, RunRaisesKeeps, RecordClaimKeeps, FailKeeps,
       FaultKeeps, ApplyReceiptKeeps, CloseKeeps, DisableKeeps DEF CoreNext
  <1>2. CASE UNCHANGED coreVars
    <2>1. \A e \in Executor : run'[e] = run[e]
      BY <1>2 DEF coreVars
    <2>2. TablesInv'
      BY <1>2 DEF coreVars, CoreInv, TablesInv, CoreTypeOK, AnsweredHeld, ReceiptsIndependent,
                  RevenueVouched, ResultsClaimed, HeldStarted, InRun, Started, NoTask
    <2>3. AuditTellsAll' /\ LogInv'
      BY <1>2, <2>1, SameStory, QuietLog DEF CoreInv, coreVars, Started
    <2> QED
      BY <2>2, <2>3 DEF CoreInv
  <1> QED
    BY <1>1, <1>2

LEMMA CoreStepStands == CoreInv /\ [CoreNext]_coreVars => [ResultsStand]_coreVars
  <1> SUFFICES ASSUME CoreInv, CoreNext PROVE ResultsStand
    OBVIOUS
  <1>1. ASSUME NEW e \in Executor, Route(e) \/ RunRaises(e) \/ StoreRaises(e) \/ ExecutorDies(e)
        PROVE  tasks' = tasks
    BY <1>1 DEF Route, RunRaises, StoreRaises, ExecutorDies
  <1> QED
    BY <1>1, Standing, AddTaskKeeps, FetchKeeps, RecordClaimKeeps, FailKeeps, ApplyReceiptKeeps,
       CloseKeeps, DisableKeeps DEF CoreNext

(* For any clients, executors, providers and verifiers, with any faults:   *)
(* repeated requests are told one task, no revenue without another's       *)
(* receipt, the log tells every status, and a provider switched off        *)
(* delivers nothing for tasks started later (core_state.py, executor.py).  *)
THEOREM CoreInvariantHolds == CoreSpec => []CoreInvariant
  <1>1. CoreSpec => []CoreInv
    BY CoreInitInv, CoreNextKeeps, PTL DEF CoreSpec
  <1> QED
    BY <1>1, CoreInvImplies, PTL

(* A result that was claimed keeps its provider, and its task is never     *)
(* executed again (record_task_claim, fetch_next_task, mark_task_failed).  *)
THEOREM ResultIsFixed == CoreSpec => ResultFixed
  <1>1. CoreSpec => []CoreInv
    BY CoreInitInv, CoreNextKeeps, PTL DEF CoreSpec
  <1> QED
    BY <1>1, CoreStepStands, PTL DEF CoreSpec, ResultFixed, ResultsStand

(* SettledForGood: all of it at once, of the orchestrator with one process *)
(* at a time and steps enough, the store classes on one file and the       *)
(* core's tasks.                                                           *)
THEOREM SettledStaysForGood ==
    ASSUME OneProcess, EnoughSteps
    PROVE  OrchSpec /\ StoresSpec /\ CoreSpec => SettledForGood
BY TerminalIsFinal, PinIsFinal, ResultIsFixed, PTL DEF SettledForGood
================================================================================
