----------------------------- MODULE R1ReviewProofs -----------------------------
(***************************************************************************)
(* The R1 review engine and the Stage 1 runtime on top of it, for every    *)
(* value of the constants.  First the mutations of R1State, which preserve *)
(* StateInv and take nothing back; then the store that callers share, and  *)
(* its StoreInvariant and SettledStays; then the runtime, and its          *)
(* StageInvariant and WritesInOrder.                                       *)
(***************************************************************************)
EXTENDS R1Engine, R1Stage1, FiniteSetTheorems, TLAPS

-----------------------------------------------------------------------------
(* The mutations of R1State.                                               *)

(* No receipt is ahead of the cache entry it was written for: what makes   *)
(* VersionsDistinct inductive.                                             *)
ReceiptsBehindCache(s) ==
    \A t \in DOMAIN s.receipts :
        /\ t[1] \in DOMAIN s.cache
        /\ s.receipts[t].cache_version_after <= s.cache[t[1]].version

StateInv(s) ==
    /\ StateType(s)
    /\ validate_state(s)
    /\ FinalVouched(s)
    /\ VersionsDistinct(s)
    /\ FailuresBounded(s)
    /\ ReviewsHaveTasks(s)
    /\ ReceiptsBehindCache(s)

(* The empty store satisfies StateInv.                                     *)
LEMMA EmptyStateInv == StateInv(empty_state)
  BY DEF StateInv, StateType, IsMap, empty_state, EmptyMap, validate_state, FinalVouched,
         VersionsDistinct, FailuresBounded, ReviewsHaveTasks, ReceiptsBehindCache

(* Every operation on one task but the commit: t becomes y, which has the  *)
(* same receipt and respects the retry ceiling.                            *)
LEMMA SetTaskInv ==
    ASSUME NEW s, StateInv(s), NEW t \in DOMAIN s.tasks, NEW y \in Task,
           y.receipted = s.tasks[t].receipted,
           y.attempt_count <= RetryBudget + 1,
           y.dead <=> y.attempt_count = RetryBudget + 1
    PROVE  StateInv(SetTask(s, t, y))
  <1> DEFINE r == SetTask(s, t, y)
  <1>1. s = [cache |-> s.cache, tasks |-> s.tasks, receipts |-> s.receipts]
    BY DEF StateInv, StateType
  <1>2. r = [cache |-> s.cache, tasks |-> [s.tasks EXCEPT ![t] = y], receipts |-> s.receipts]
    BY <1>1 DEF SetTask
  <1> HIDE DEF r
  <1>3. IsMap(r.tasks, Idem, Task)
    BY <1>2 DEF StateInv, StateType, IsMap
  <1>4. /\ r.cache = s.cache
        /\ r.receipts = s.receipts
        /\ DOMAIN r.tasks = DOMAIN s.tasks
        /\ r.tasks[t] = y
        /\ \A u \in DOMAIN s.tasks : u # t => r.tasks[u] = s.tasks[u]
    BY <1>2 DEF StateInv, StateType, IsMap
  <1>5. StateType(r)
    BY <1>2, <1>3 DEF StateInv, StateType
  <1>6. validate_state(r)
    BY <1>4 DEF StateInv, validate_state
  <1>7. FailuresBounded(r)
    BY <1>4 DEF StateInv, FailuresBounded
  <1>8. FinalVouched(r) /\ VersionsDistinct(r) /\ ReviewsHaveTasks(r) /\ ReceiptsBehindCache(r)
    BY <1>4 DEF StateInv, FinalVouched, VersionsDistinct, ReviewsHaveTasks,
                ReceiptsBehindCache
  <1> QED
    BY <1>5, <1>6, <1>7, <1>8 DEF StateInv, r

(* What StateInv says of one task.                                         *)
LEMMA TaskFacts ==
    ASSUME NEW s, StateInv(s), NEW t \in DOMAIN s.tasks
    PROVE  /\ t \in Idem
           /\ s.tasks[t] \in Task
           /\ s.tasks[t].attempt_count <= RetryBudget + 1
           /\ s.tasks[t].dead <=> s.tasks[t].attempt_count = RetryBudget + 1
  BY DEF StateInv, StateType, IsMap, FailuresBounded

(* A checkpoint disturbs nothing StateInv speaks of.                       *)
LEMMA CheckpointInv ==
    ASSUME NEW s, StateInv(s), NEW t \in DOMAIN s.tasks
    PROVE  StateInv(checkpoint(s, t))
  <1> DEFINE x == s.tasks[t]
             y == [x EXCEPT !.checkpointed = TRUE]
  <1>1. /\ x \in Task
        /\ x.attempt_count <= RetryBudget + 1
        /\ x.dead <=> x.attempt_count = RetryBudget + 1
    BY TaskFacts
  <1>2. checkpoint(s, t) = SetTask(s, t, y)
    BY DEF checkpoint
  <1> HIDE DEF x
  <1>3. y \in Task /\ y.attempt_count = x.attempt_count
    BY <1>1 DEF Task
  <1>4. y.receipted = x.receipted /\ y.dead = x.dead
    BY <1>1 DEF Task
  <1> HIDE DEF y
  <1> QED
    BY <1>1, <1>2, <1>3, <1>4, SetTaskInv DEF x

(* Granting a lease disturbs nothing StateInv speaks of.                   *)
LEMMA AcquireInv ==
    ASSUME NEW s, StateInv(s), NEW t \in DOMAIN s.tasks, NEW w \in Worker,
           NEW n \in Nat, NEW k \in Nat
    PROVE  StateInv(acquire_lease(s, t, w, n, k))
  <1> DEFINE x == s.tasks[t]
             e == x.lease_epoch + 1
             m == n + k
             y == [x EXCEPT !.lease_epoch = e, !.lease_owner = w, !.lease_expires_at = m]
  <1>1. /\ x \in Task
        /\ x.attempt_count <= RetryBudget + 1
        /\ x.dead <=> x.attempt_count = RetryBudget + 1
    BY TaskFacts
  <1>2. acquire_lease(s, t, w, n, k) = SetTask(s, t, y)
    BY DEF acquire_lease
  <1> HIDE DEF x
  <1>5. e \in Nat /\ m \in Nat
    BY <1>1 DEF Task
  <1> HIDE DEF e, m
  <1>3. y \in Task /\ y.attempt_count = x.attempt_count
    BY <1>1, <1>5 DEF Task
  <1>4. y.receipted = x.receipted /\ y.dead = x.dead
    BY <1>1 DEF Task
  <1> HIDE DEF y
  <1> QED
    BY <1>1, <1>2, <1>3, <1>4, SetTaskInv DEF x

(* A failure recorded on a live task reaches the retry ceiling at most.    *)
LEMMA RecordFailureInv ==
    ASSUME NEW s, StateInv(s), NEW t, LiveTask(s, t)
    PROVE  StateInv(record_failure(s, t))
  <1> DEFINE x == s.tasks[t]
             a == x.attempt_count + 1
             d == a > RetryBudget
             y == [x EXCEPT !.attempt_count = a, !.dead = d]
  <1>1. t \in DOMAIN s.tasks /\ ~ x.dead
    BY DEF LiveTask
  <1>2. x \in Task /\ x.attempt_count <= RetryBudget
    BY <1>1, TaskFacts, R1StateAssumption DEF Task
  <1>3. record_failure(s, t) = SetTask(s, t, y)
    BY DEF record_failure
  <1> HIDE DEF x
  <1>4. a \in Nat /\ d \in BOOLEAN /\ a <= RetryBudget + 1 /\ (d <=> a = RetryBudget + 1)
    BY <1>2, R1StateAssumption DEF Task
  <1> HIDE DEF a, d
  <1>5. y \in Task /\ y.attempt_count = a
    BY <1>2, <1>4 DEF Task
  <1>6. (y.dead <=> d) /\ y.receipted = x.receipted
    BY <1>2, <1>4 DEF Task
  <1> HIDE DEF y
  <1> QED
    BY <1>1, <1>2, <1>3, <1>4, <1>5, <1>6, SetTaskInv DEF x

(* inspect_candidate: a new entry or a new version of one, and a task for  *)
(* its documents.                                                          *)
(* Staging new documents takes the verdict off the entry, moves its version *)
(* past every receipt and leaves a task for them.                          *)
LEMMA InspectInv ==
    ASSUME NEW s, StateInv(s), NEW c \in Candidate, NEW d \in Docs
    PROVE  StateInv(inspect_candidate(s, c, d))
  <1>1. CASE AlreadyFinal(s, c, d) \/ KnownTask(s, c, d)
    BY <1>1 DEF inspect_candidate
  <1>2. CASE ~ (AlreadyFinal(s, c, d) \/ KnownTask(s, c, d))
    <2> DEFINE x == StagedEntry(s, c, d)
               t == <<c, d>>
               r == inspect_candidate(s, c, d)
    <2>1. /\ s = [cache |-> s.cache, tasks |-> s.tasks, receipts |-> s.receipts]
          /\ IsMap(s.cache, Candidate, CacheEntry)
          /\ IsMap(s.tasks, Idem, Task)
          /\ IsMap(s.receipts, Idem, Receipt)
      BY DEF StateInv, StateType
    <2>2. /\ x \in CacheEntry
          /\ x.docs_hash = d
          /\ x.docs_hash \in x.seen
          /\ x.audit_state \in Pending
          /\ c \in DOMAIN s.cache => x.version > s.cache[c].version
      <3>1. CASE c \notin DOMAIN s.cache
        BY <3>1 DEF StagedEntry, CacheEntry, Pending
      <3>2. CASE c \in DOMAIN s.cache
        <4>1. s.cache[c] \in CacheEntry
          BY <2>1, <3>2 DEF IsMap
        <4> QED
          BY <3>2, <4>1 DEF StagedEntry, CacheEntry, Pending
      <3> QED
        BY <3>1, <3>2
    <2> HIDE DEF x
    <2>3. NewTask(x.version) \in Task
      BY <2>2, R1StateAssumption DEF NewTask, Task, CacheEntry
    <2>4. t \in Idem
      BY DEF Idem
    <2>5. r = [cache |-> Put(s.cache, c, x),
               tasks |-> IF t \in DOMAIN s.tasks THEN s.tasks
                         ELSE Put(s.tasks, t, NewTask(x.version)),
               receipts |-> s.receipts]
      BY <1>2, <2>1 DEF inspect_candidate, x
    <2> HIDE DEF r, t
    <2>6. /\ IsMap(r.cache, Candidate, CacheEntry)
          /\ DOMAIN r.cache = DOMAIN s.cache \cup {c}
          /\ r.cache[c] = x
          /\ \A b \in DOMAIN s.cache : b # c => r.cache[b] = s.cache[b]
      <3>1. r.cache = Put(s.cache, c, x)
        BY <2>5
      <3> QED
        BY <2>1, <2>2, <3>1 DEF Put, IsMap
    <2>7. /\ IsMap(r.tasks, Idem, Task)
          /\ DOMAIN r.tasks = DOMAIN s.tasks \cup {t}
          /\ \A u \in DOMAIN s.tasks : r.tasks[u] = s.tasks[u]
          /\ t \notin DOMAIN s.tasks => r.tasks[t] = NewTask(x.version)
      <3>1. CASE t \in DOMAIN s.tasks
        BY <3>1, <2>1, <2>5
      <3>2. CASE t \notin DOMAIN s.tasks
        <4>1. r.tasks = Put(s.tasks, t, NewTask(x.version))
          BY <3>2, <2>5
        <4> QED
          BY <3>2, <2>1, <2>3, <2>4, <4>1 DEF Put, IsMap
      <3> QED
        BY <3>1, <3>2
    <2>8. r.receipts = s.receipts
      BY <2>5
    <2>9. StateType(r)
      BY <2>1, <2>5, <2>6, <2>7, <2>8 DEF StateType
    <2>10. validate_state(r)
      BY <2>2, <2>6, <2>7, <2>8 DEF StateInv, validate_state, t
    <2>11. FinalVouched(r)
      BY <2>2, <2>6, <2>8 DEF StateInv, FinalVouched, Pending, Final
    <2>12. FailuresBounded(r)
      BY <2>7, R1StateAssumption DEF StateInv, FailuresBounded, NewTask
    <2>13. ReviewsHaveTasks(r)
      BY <2>2, <2>6, <2>7 DEF StateInv, ReviewsHaveTasks, t
    <2>14. VersionsDistinct(r)
      BY <2>8 DEF StateInv, VersionsDistinct
    <2>15. ReceiptsBehindCache(r)
      <3> SUFFICES ASSUME NEW u \in DOMAIN s.receipts
                   PROVE  /\ u[1] \in DOMAIN r.cache
                          /\ s.receipts[u].cache_version_after <= r.cache[u[1]].version
        BY <2>8 DEF ReceiptsBehindCache
      <3>1. /\ u[1] \in DOMAIN s.cache
            /\ s.receipts[u].cache_version_after <= s.cache[u[1]].version
        BY DEF StateInv, ReceiptsBehindCache
      <3>2. s.receipts[u].cache_version_after \in Nat /\ s.cache[u[1]].version \in Nat
        BY <2>1, <3>1 DEF IsMap, Receipt, CacheEntry
      <3>3. x.version \in Nat
        BY <2>2 DEF CacheEntry
      <3> QED
        BY <2>2, <2>6, <3>1, <3>2, <3>3
    <2> QED
      BY <2>9, <2>10, <2>11, <2>12, <2>13, <2>14, <2>15 DEF StateInv, r
  <1> QED
    BY <1>1, <1>2

(* commit_review: the verdict, its receipt and the new version of the      *)
(* cache entry appear together.                                            *)
(* A commit writes cache entry, task and receipt together; its receipt is  *)
(* the only one at the new version.                                        *)
LEMMA CommitInv ==
    ASSUME NEW s, StateInv(s), NEW t, NEW w \in Worker, NEW e \in Nat, NEW n, NEW p \in Payload,
           commit_reviewOK(s, t, w, e, n, p)
    PROVE  StateInv(commit_review(s, t, w, e, p))
  <1>1. CASE t \in DOMAIN s.receipts
    BY <1>1 DEF commit_review
  <1>2. CASE t \notin DOMAIN s.receipts
    <2> DEFINE r == commit_review(s, t, w, e, p)
               c == t[1]
               x == s.cache[c]
               v == x.version + 1
               y == [x EXCEPT !.audit_state = p.state, !.version = v]
               z == [s.tasks[t] EXCEPT !.receipted = TRUE]
               g == NewReceipt(s, t, w, e, p)
    <2>1. /\ s = [cache |-> s.cache, tasks |-> s.tasks, receipts |-> s.receipts]
          /\ IsMap(s.cache, Candidate, CacheEntry)
          /\ IsMap(s.tasks, Idem, Task)
          /\ IsMap(s.receipts, Idem, Receipt)
      BY DEF StateInv, StateType
    <2>2. /\ t \in DOMAIN s.tasks
          /\ c \in DOMAIN s.cache
          /\ x.docs_hash = t[2]
      BY <1>2 DEF commit_reviewOK, FencedOK, LiveTask, CacheMatches
    <2>3. t \in Idem /\ t = <<c, t[2]>> /\ s.tasks[t] \in Task /\ x \in CacheEntry
      BY <2>1, <2>2 DEF IsMap, Idem
    <2>4. v \in Nat /\ v > x.version
      BY <2>3 DEF CacheEntry
    <2>5. p.state \in Final
      BY DEF Payload
    <2>6. g \in Receipt /\ g.payload = p /\ g.cache_version_after = v
      BY <2>4 DEF NewReceipt, Receipt
    <2>7. r = [cache |-> [s.cache EXCEPT ![c] = y],
               tasks |-> [s.tasks EXCEPT ![t] = z],
               receipts |-> Put(s.receipts, t, g)]
      BY <1>2, <2>1, <2>2 DEF commit_review, IsMap
    <2> HIDE DEF r, g, v
    <2>8. /\ y \in CacheEntry
          /\ y.docs_hash = x.docs_hash /\ y.seen = x.seen
          /\ y.audit_state = p.state /\ y.version = v
      BY <2>3, <2>4, <2>5 DEF CacheEntry
    <2>9. z \in Task /\ z.receipted /\ z.attempt_count = s.tasks[t].attempt_count
      BY <2>3 DEF Task
    <2>10. z.dead = s.tasks[t].dead
      BY <2>3 DEF Task
    <2> HIDE DEF y, z
    <2>11. /\ IsMap(r.cache, Candidate, CacheEntry)
           /\ DOMAIN r.cache = DOMAIN s.cache
           /\ r.cache[c] = y
           /\ \A b \in DOMAIN s.cache : b # c => r.cache[b] = s.cache[b]
      BY <2>1, <2>2, <2>7, <2>8 DEF IsMap
    <2>12. /\ IsMap(r.tasks, Idem, Task)
           /\ DOMAIN r.tasks = DOMAIN s.tasks
           /\ r.tasks[t] = z
           /\ \A u \in DOMAIN s.tasks : u # t => r.tasks[u] = s.tasks[u]
      BY <2>1, <2>2, <2>7, <2>9 DEF IsMap
    <2>13. /\ IsMap(r.receipts, Idem, Receipt)
           /\ DOMAIN r.receipts = DOMAIN s.receipts \cup {t}
           /\ r.receipts[t] = g
           /\ \A u \in DOMAIN s.receipts : r.receipts[u] = s.receipts[u]
      BY <1>2, <2>1, <2>3, <2>6, <2>7 DEF IsMap, Put
    <2>14. StateType(r)
      BY <2>7, <2>11, <2>12, <2>13 DEF StateType
    <2>15. validate_state(r)
      BY <2>2, <2>8, <2>9, <2>11, <2>12, <2>13 DEF StateInv, validate_state
    <2>16. FailuresBounded(r)
      BY <2>2, <2>9, <2>10, <2>12 DEF StateInv, FailuresBounded
    <2>17. ReviewsHaveTasks(r)
      BY <2>2, <2>3, <2>8, <2>11, <2>12 DEF StateInv, ReviewsHaveTasks
    <2>18. \A u \in DOMAIN s.receipts :
               /\ u[1] \in DOMAIN s.cache
               /\ s.receipts[u].cache_version_after \in Nat
               /\ s.receipts[u].cache_version_after <= s.cache[u[1]].version
               /\ s.cache[u[1]].version \in Nat
      BY <2>1 DEF StateInv, ReceiptsBehindCache, IsMap, Receipt, CacheEntry
    <2>19. ReceiptsBehindCache(r)
      BY <2>2, <2>3, <2>4, <2>6, <2>8, <2>11, <2>13, <2>18 DEF ReceiptsBehindCache
    <2>20. VersionsDistinct(r)
      <3>1. \A u \in DOMAIN s.receipts : u[1] = c => s.receipts[u].cache_version_after < v
        BY <2>4, <2>18, <2>3 DEF CacheEntry
      <3> QED
        BY <2>4, <2>6, <2>13, <2>18, <3>1 DEF StateInv, VersionsDistinct
    <2>21. FinalVouched(r)
      <3> SUFFICES ASSUME NEW b \in DOMAIN s.cache, r.cache[b].audit_state \in Final
                   PROVE  LET u == <<b, r.cache[b].docs_hash>>
                          IN  /\ u \in DOMAIN r.receipts
                              /\ r.receipts[u].payload.state = r.cache[b].audit_state
                              /\ r.receipts[u].cache_version_after = r.cache[b].version
        BY <2>11 DEF FinalVouched
      <3>1. CASE b = c
        BY <3>1, <2>2, <2>3, <2>6, <2>8, <2>11, <2>13
      <3>2. CASE b # c
        BY <3>2, <2>11, <2>13 DEF StateInv, FinalVouched
      <3> QED
        BY <3>1, <3>2
    <2> QED
      BY <2>14, <2>15, <2>16, <2>17, <2>19, <2>20, <2>21 DEF StateInv, r
  <1> QED
    BY <1>1, <1>2

-----------------------------------------------------------------------------
(* The store and its callers.                                              *)
(*                                                                         *)
(* The inductive invariant is StateInv of the store together with          *)
(* HeldBehind, which says that no caller remembers an epoch the store has  *)
(* not granted: a granted epoch is then above every remembered one, so     *)
(* that epochs stay unique.                                                *)

HeldBehind ==
    \A p \in Caller :
        Holding(p) =>
            /\ held[p].task \in DOMAIN store.tasks
            /\ held[p].epoch <= store.tasks[held[p].task].lease_epoch

EngineInv ==
    /\ StateInv(store)
    /\ held \in [Caller -> HeldLease \cup {NoLease}]
    /\ HeldBehind
    /\ EpochUnique

-----------------------------------------------------------------------------

(* s2 keeps the tasks of s1 with their epochs.                             *)
EpochsKept(s1, s2) ==
    \A t \in DOMAIN s1.tasks :
        t \in DOMAIN s2.tasks /\ s2.tasks[t].lease_epoch = s1.tasks[t].lease_epoch

(* Inspection moves no epoch: only acquire_lease does.                     *)
LEMMA InspectKeepsEpochs ==
    ASSUME NEW s, StateInv(s), NEW c \in Candidate, NEW d \in Docs
    PROVE  EpochsKept(s, inspect_candidate(s, c, d))
  <1> DEFINE r == inspect_candidate(s, c, d)
             u == <<c, d>>
  <1>1. s = [cache |-> s.cache, tasks |-> s.tasks, receipts |-> s.receipts]
    BY DEF StateInv, StateType
  <1>2. r.tasks = s.tasks \/ (u \notin DOMAIN s.tasks
                              /\ \E x : r.tasks = Put(s.tasks, u, x))
    BY <1>1 DEF inspect_candidate
  <1> HIDE DEF r, u
  <1>3. EpochsKept(s, r)
    BY <1>2 DEF EpochsKept, Put
  <1> QED
    BY <1>3 DEF r

(* A checkpoint moves no epoch.                                            *)
LEMMA CheckpointKeepsEpochs ==
    ASSUME NEW s, StateInv(s), NEW t \in DOMAIN s.tasks
    PROVE  EpochsKept(s, checkpoint(s, t))
  <1> DEFINE x == s.tasks[t]
             y == [x EXCEPT !.checkpointed = TRUE]
  <1>1. x \in Task /\ s.tasks \in [DOMAIN s.tasks -> Task]
    BY TaskFacts DEF StateInv, StateType, IsMap
  <1>2. s = [cache |-> s.cache, tasks |-> s.tasks, receipts |-> s.receipts]
    BY DEF StateInv, StateType
  <1>3. checkpoint(s, t).tasks = [s.tasks EXCEPT ![t] = y]
    BY <1>2 DEF checkpoint, SetTask
  <1> HIDE DEF x
  <1>4. y.lease_epoch = x.lease_epoch
    BY <1>1 DEF Task
  <1> HIDE DEF y
  <1> QED
    BY <1>1, <1>3, <1>4 DEF EpochsKept, x

(* A recorded failure moves no epoch.                                      *)
LEMMA RecordFailureKeepsEpochs ==
    ASSUME NEW s, StateInv(s), NEW t \in DOMAIN s.tasks
    PROVE  EpochsKept(s, record_failure(s, t))
  <1> DEFINE x == s.tasks[t]
             a == x.attempt_count + 1
             d == a > RetryBudget
             y == [x EXCEPT !.attempt_count = a, !.dead = d]
  <1>1. x \in Task /\ s.tasks \in [DOMAIN s.tasks -> Task]
    BY TaskFacts DEF StateInv, StateType, IsMap
  <1>2. s = [cache |-> s.cache, tasks |-> s.tasks, receipts |-> s.receipts]
    BY DEF StateInv, StateType
  <1>3. record_failure(s, t).tasks = [s.tasks EXCEPT ![t] = y]
    BY <1>2 DEF record_failure, SetTask
  <1> HIDE DEF x, a, d
  <1>4. y.lease_epoch = x.lease_epoch
    BY <1>1 DEF Task
  <1> HIDE DEF y
  <1> QED
    BY <1>1, <1>3, <1>4 DEF EpochsKept, x

(* A commit moves no epoch.                                                *)
LEMMA CommitKeepsEpochs ==
    ASSUME NEW s, StateInv(s), NEW t \in DOMAIN s.tasks, NEW w, NEW e, NEW p
    PROVE  EpochsKept(s, commit_review(s, t, w, e, p))
  <1> DEFINE x == s.tasks[t]
             y == [x EXCEPT !.receipted = TRUE]
             r == commit_review(s, t, w, e, p)
  <1>1. x \in Task /\ s.tasks \in [DOMAIN s.tasks -> Task]
    BY TaskFacts DEF StateInv, StateType, IsMap
  <1>2. r.tasks = s.tasks \/ r.tasks = [s.tasks EXCEPT ![t] = y]
    BY DEF commit_review
  <1> HIDE DEF x, r
  <1>3. y.lease_epoch = x.lease_epoch
    BY <1>1 DEF Task
  <1> HIDE DEF y
  <1> QED
    BY <1>1, <1>2, <1>3 DEF EpochsKept, x, r

(* acquire_lease moves the epoch of its task, by one.                      *)
LEMMA AcquireMovesEpoch ==
    ASSUME NEW s, StateInv(s), NEW t \in DOMAIN s.tasks, NEW w, NEW n, NEW k
    PROVE  LET r == acquire_lease(s, t, w, n, k)
           IN  /\ DOMAIN r.tasks = DOMAIN s.tasks
               /\ r.tasks[t].lease_epoch = s.tasks[t].lease_epoch + 1
               /\ \A u \in DOMAIN s.tasks : u # t => r.tasks[u] = s.tasks[u]
  <1> DEFINE x == s.tasks[t]
             e == x.lease_epoch + 1
             m == n + k
             y == [x EXCEPT !.lease_epoch = e, !.lease_owner = w, !.lease_expires_at = m]
             r == acquire_lease(s, t, w, n, k)
  <1>1. x \in Task /\ s.tasks \in [DOMAIN s.tasks -> Task]
    BY TaskFacts DEF StateInv, StateType, IsMap
  <1>2. s = [cache |-> s.cache, tasks |-> s.tasks, receipts |-> s.receipts]
    BY DEF StateInv, StateType
  <1>3. r.tasks = [s.tasks EXCEPT ![t] = y]
    BY <1>2 DEF acquire_lease, SetTask
  <1> HIDE DEF x, r, m
  <1>4. y.lease_epoch = e
    BY <1>1 DEF Task
  <1> HIDE DEF y, e
  <1> QED
    BY <1>1, <1>3, <1>4 DEF r, x, e

-----------------------------------------------------------------------------

(* The initial state has no task and no lease.                             *)
LEMMA EngineInitInv == EngineInit => EngineInv
  BY EmptyStateInv DEF EngineInit, EngineInv, HeldBehind, EpochUnique, Holding

(* A call that moves no epoch keeps the lease part of the invariant.       *)
LEMMA SameLeases ==
    ASSUME EngineInv, StateInv(store'), held' = held, EpochsKept(store, store')
    PROVE  EngineInv'
  <1>1. HeldBehind'
    BY DEF EngineInv, HeldBehind, Holding, EpochsKept
  <1>2. EpochUnique'
    BY DEF EngineInv, EpochUnique, Holding
  <1> QED
    BY <1>1, <1>2 DEF EngineInv

(* What the lease remembered by p says of its task.                        *)
LEMMA HeldFacts ==
    ASSUME EngineInv, NEW p \in Caller, Holding(p)
    PROVE  /\ held[p] \in HeldLease
           /\ held[p].worker \in Worker
           /\ held[p].epoch \in Nat
           /\ held[p].task \in DOMAIN store.tasks
  <1>1. held[p] \in HeldLease
    BY DEF EngineInv, Holding
  <1> QED
    BY <1>1 DEF EngineInv, HeldBehind, HeldLease

(* A granted epoch is above every epoch any process remembers of the task, *)
(* so acquire_lease keeps epochs unique.                                   *)
LEMMA AcquirePreserves ==
    ASSUME EngineInv, NEW p \in Caller, NEW w \in Worker, NEW t \in Idem,
           NEW n \in Tick, NEW k \in LeaseLengths, Acquire(p, w, t, n, k)
    PROVE  EngineInv'
  <1> DEFINE e == store.tasks[t].lease_epoch + 1
             h == [task |-> t, worker |-> w, epoch |-> e]
  <1>1. t \in DOMAIN store.tasks /\ n \in Nat /\ k \in Nat
    BY R1EngineAssumption, R1StateAssumption DEF Acquire, acquire_leaseOK, LiveTask
  <1>2. StateInv(store) /\ held \in [Caller -> HeldLease \cup {NoLease}]
    BY DEF EngineInv
  <1>3. store' = acquire_lease(store, t, w, n, k)
    BY DEF Acquire
  <1>4. StateInv(store')
    BY <1>1, <1>2, <1>3, AcquireInv
  <1>5. /\ DOMAIN store'.tasks = DOMAIN store.tasks
        /\ store'.tasks[t].lease_epoch = e
        /\ \A u \in DOMAIN store.tasks : u # t => store'.tasks[u] = store.tasks[u]
    BY <1>1, <1>2, <1>3, AcquireMovesEpoch
  <1>6. held' = [held EXCEPT ![p] = h]
    BY <1>5 DEF Acquire
  <1>7. e = store.tasks[t].lease_epoch + 1 /\ store.tasks[t].lease_epoch \in Nat
    BY <1>1, <1>2, TaskFacts DEF Task
  <1> e \in Nat
    BY <1>7
  <1> HIDE DEF e
  <1>8. h \in HeldLease /\ h.task = t /\ h.epoch = e
    BY DEF HeldLease
  <1> HIDE DEF h
  <1>9. /\ held' \in [Caller -> HeldLease \cup {NoLease}]
        /\ held'[p] = h
        /\ \A q \in Caller : q # p => held'[q] = held[q]
    BY <1>2, <1>6, <1>8
  <1>10. ASSUME NEW q \in Caller, held[q] # NoLease
         PROVE  /\ held[q].task \in DOMAIN store.tasks
                /\ held[q].epoch \in Nat
                /\ held[q].epoch <= store.tasks[held[q].task].lease_epoch
    BY <1>10, HeldFacts DEF EngineInv, HeldBehind, Holding
  <1>11. HeldBehind'
    <2> SUFFICES ASSUME NEW q \in Caller, held'[q] # NoLease
                 PROVE  /\ held'[q].task \in DOMAIN store'.tasks
                        /\ held'[q].epoch <= store'.tasks[held'[q].task].lease_epoch
      BY DEF HeldBehind, Holding
    <2>1. CASE q = p
      BY <2>1, <1>1, <1>5, <1>8, <1>9
    <2>2. CASE q # p /\ held[q].task = t
      BY <2>2, <1>5, <1>7, <1>9, <1>10
    <2>3. CASE q # p /\ held[q].task # t
      BY <2>3, <1>5, <1>9, <1>10
    <2> QED
      BY <2>1, <2>2, <2>3
  <1>12. ASSUME NEW q \in Caller, held[q] # NoLease, held[q].task = t
         PROVE  held[q].epoch # e
    BY <1>7, <1>10, <1>12
  <1>13. EpochUnique'
    BY <1>8, <1>9, <1>12 DEF EngineInv, EpochUnique, Holding
  <1> QED
    BY <1>4, <1>9, <1>11, <1>13 DEF EngineInv

(* IInv is inductive: one step per call of the engine.                     *)
LEMMA EngineNextInv == EngineInv /\ [EngineNext]_engineVars => EngineInv'
  <1> SUFFICES ASSUME EngineInv, [EngineNext]_engineVars
               PROVE  EngineInv'
    OBVIOUS
  <1> StateInv(store)
    BY DEF EngineInv
  <1>1. ASSUME NEW c \in Candidate, NEW d \in Docs, InspectCandidate(c, d)
        PROVE  EngineInv'
    BY <1>1, InspectInv, InspectKeepsEpochs, SameLeases DEF InspectCandidate
  <1>2. ASSUME NEW p \in Caller, NEW w \in Worker, NEW t \in Idem,
               NEW n \in Tick, NEW k \in LeaseLengths, Acquire(p, w, t, n, k)
        PROVE  EngineInv'
    BY <1>2, AcquirePreserves
  <1>3. ASSUME NEW p \in Caller, NEW n \in Tick, CheckpointTask(p, n)
        PROVE  EngineInv'
    BY <1>3, HeldFacts, CheckpointInv, CheckpointKeepsEpochs, SameLeases DEF CheckpointTask
  <1>4. ASSUME NEW p \in Caller, NEW n \in Tick, RecordFailure(p, n)
        PROVE  EngineInv'
    BY <1>4, HeldFacts, RecordFailureInv, RecordFailureKeepsEpochs, SameLeases
       DEF RecordFailure, FencedOK
  <1>5. ASSUME NEW p \in Caller, NEW n \in Tick, NEW v \in Payload, CommitReview(p, n, v)
        PROVE  EngineInv'
    BY <1>5, HeldFacts, CommitInv, CommitKeepsEpochs, SameLeases DEF CommitReview
  <1>6. ASSUME NEW p \in Caller, CallerDies(p)
        PROVE  EngineInv'
    <2>1. /\ held' \in [Caller -> HeldLease \cup {NoLease}]
          /\ store' = store
          /\ \A q \in Caller : held'[q] = NoLease \/ held'[q] = held[q]
      BY <1>6 DEF CallerDies, EngineInv
    <2> QED
      BY <2>1 DEF EngineInv, HeldBehind, EpochUnique, Holding
  <1>7. CASE UNCHANGED engineVars
    BY <1>7 DEF engineVars, EngineInv, HeldBehind, EpochUnique, Holding
  <1> QED
    BY <1>1, <1>2, <1>3, <1>4, <1>5, <1>6, <1>7 DEF EngineNext

(* The inductive invariant holds of every behaviour.                       *)
THEOREM EngineInductive == EngineSpec => []EngineInv
  BY EngineInitInv, EngineNextInv, PTL DEF EngineSpec

(* Every stored state and remembered lease has its type.                   *)
THEOREM TypeCorrect == EngineSpec => []EngineTypeOK
  <1>1. EngineInv => EngineTypeOK
    BY DEF EngineInv, StateInv, EngineTypeOK
  <1> QED
    BY <1>1, EngineInductive, PTL

(* No order of calls stores a state that validate_state rejects.           *)
THEOREM StoreAlwaysReadable == EngineSpec => []StoreReadable
  <1>1. EngineInv => StoreReadable
    BY DEF EngineInv, StateInv, StoreReadable
  <1> QED
    BY <1>1, EngineInductive, PTL

(* A lease epoch is held by at most one process.                            *)
THEOREM FencingTokenUnique == EngineSpec => []EpochUnique
  <1>1. EngineInv => EpochUnique
    BY DEF EngineInv
  <1> QED
    BY <1>1, EngineInductive, PTL

(* A verdict in the cache is that of the receipt for the same documents.   *)
THEOREM VerdictsVouched == EngineSpec => []FinalHasReceipt
  <1>1. EngineInv => FinalHasReceipt
    BY DEF EngineInv, StateInv, FinalHasReceipt
  <1> QED
    BY <1>1, EngineInductive, PTL

(* No two tasks of a candidate commit on the same cache version.           *)
THEOREM OneCommitPerVersion == EngineSpec => []OneReceiptPerVersion
  <1>1. EngineInv => OneReceiptPerVersion
    BY DEF EngineInv, StateInv, OneReceiptPerVersion
  <1> QED
    BY <1>1, EngineInductive, PTL

(* A task fails at most RetryBudget + 1 times, and is dead from then on.   *)
THEOREM RetryCeilingHolds == EngineSpec => []RetryCeiling
  <1>1. EngineInv => RetryCeiling
    BY DEF EngineInv, StateInv, RetryCeiling
  <1> QED
    BY <1>1, EngineInductive, PTL

(* What awaits review has a task.                                          *)
THEOREM ReviewsAreWorkable == EngineSpec => []ReviewHasTask
  <1>1. EngineInv => ReviewHasTask
    BY DEF EngineInv, StateInv, ReviewHasTask
  <1> QED
    BY <1>1, EngineInductive, PTL

-----------------------------------------------------------------------------
(* Action properties: what no single call may do.                          *)

(* What a call that rewrites one live task leaves alone.                   *)
LEMMA SetTaskLeaves ==
    ASSUME StateInv(store), NEW t, LiveTask(store, t), NEW y, store' = SetTask(store, t, y)
    PROVE  /\ store'.receipts = store.receipts
           /\ LeavesDeadTasks
  <1>1. store = [cache |-> store.cache, tasks |-> store.tasks, receipts |-> store.receipts]
    BY DEF StateInv, StateType
  <1>2. /\ store'.receipts = store.receipts
        /\ store'.tasks = [store.tasks EXCEPT ![t] = y]
    BY <1>1 DEF SetTask
  <1>3. store.tasks \in [DOMAIN store.tasks -> Task]
    BY DEF StateInv, StateType, IsMap
  <1> QED
    BY <1>2, <1>3 DEF LiveTask, LeavesDeadTasks

(* What inspection leaves alone.                                           *)
LEMMA InspectLeaves ==
    ASSUME StateInv(store), NEW c \in Candidate, NEW d \in Docs, InspectCandidate(c, d)
    PROVE  store'.receipts = store.receipts /\ LeavesDeadTasks
  <1> DEFINE u == <<c, d>>
  <1>1. store = [cache |-> store.cache, tasks |-> store.tasks, receipts |-> store.receipts]
    BY DEF StateInv, StateType
  <1>2. /\ store'.receipts = store.receipts
        /\ \/ store'.tasks = store.tasks
           \/ u \notin DOMAIN store.tasks /\ \E x : store'.tasks = Put(store.tasks, u, x)
    BY <1>1 DEF InspectCandidate, inspect_candidate
  <1> HIDE DEF u
  <1> QED
    BY <1>2 DEF LeavesDeadTasks, Put

(* What a commit writes: nothing, or one receipt under the current lease.  *)
LEMMA CommitLeaves ==
    ASSUME EngineInv, NEW p \in Caller, NEW n \in Tick, NEW v \in Payload, CommitReview(p, n, v)
    PROVE  KeepsReceipts /\ LeavesDeadTasks /\ CommitsUnderLastLease
  <1> DEFINE t == held[p].task
             w == held[p].worker
             e == held[p].epoch
             x == store.tasks[t]
             y == [x EXCEPT !.receipted = TRUE]
             z == NewReceipt(store, t, w, e, v)
  <1>1. /\ t \in DOMAIN store.tasks
        /\ held[p] \in HeldLease
        /\ ~ x.dead
        /\ x.lease_owner = w
        /\ x.lease_epoch = e
    BY HeldFacts DEF CommitReview, commit_reviewOK, FencedOK, LiveTask, HoldsLease
  <1>2. held[p] = [task |-> t, worker |-> w, epoch |-> e]
    BY <1>1 DEF HeldLease
  <1>3. z.lease_epoch = e /\ z.worker_id = w
    BY DEF NewReceipt
  <1>4. CASE t \in DOMAIN store.receipts
    BY <1>4 DEF CommitReview, commit_review, KeepsReceipts, LeavesDeadTasks, CommitsUnderLastLease
  <1>5. CASE t \notin DOMAIN store.receipts
    <2>1. /\ store'.tasks = [store.tasks EXCEPT ![t] = y]
          /\ store'.receipts = Put(store.receipts, t, z)
      BY <1>5 DEF CommitReview, commit_review
    <2>2. store.tasks \in [DOMAIN store.tasks -> Task]
      BY DEF EngineInv, StateInv, StateType, IsMap
    <2> HIDE DEF z, y, x, t, w, e
    <2>3. KeepsReceipts
      BY <1>5, <2>1 DEF KeepsReceipts, Put
    <2>4. LeavesDeadTasks
      BY <1>1, <2>1, <2>2 DEF LeavesDeadTasks, x
    <2>5. CommitsUnderLastLease
      <3>1. DOMAIN store'.receipts = DOMAIN store.receipts \cup {t} /\ store'.receipts[t] = z
        BY <2>1 DEF Put
      <3> QED
        BY <1>1, <1>2, <1>3, <3>1 DEF CommitsUnderLastLease, x
    <2> QED
      BY <2>3, <2>4, <2>5
  <1> QED
    BY <1>4, <1>5

(* No call breaks one of the three action properties.                      *)
LEMMA StepLeaves ==
    EngineInv /\ [EngineNext]_engineVars => KeepsReceipts /\ LeavesDeadTasks /\ CommitsUnderLastLease
  <1> SUFFICES ASSUME EngineInv, [EngineNext]_engineVars
               PROVE  KeepsReceipts /\ LeavesDeadTasks /\ CommitsUnderLastLease
    OBVIOUS
  <1> StateInv(store)
    BY DEF EngineInv
  <1>1. ASSUME store'.receipts = store.receipts
        PROVE  KeepsReceipts /\ CommitsUnderLastLease
    BY <1>1 DEF KeepsReceipts, CommitsUnderLastLease
  <1>2. CASE store' = store
    BY <1>2 DEF KeepsReceipts, CommitsUnderLastLease, LeavesDeadTasks
  <1>3. ASSUME NEW c \in Candidate, NEW d \in Docs, InspectCandidate(c, d)
        PROVE  KeepsReceipts /\ LeavesDeadTasks /\ CommitsUnderLastLease
    <2>1. store'.receipts = store.receipts /\ LeavesDeadTasks
      BY <1>3, InspectLeaves
    <2> QED
      BY <1>1, <2>1
  <1>4. ASSUME NEW p \in Caller, NEW w \in Worker, NEW t \in Idem,
               NEW n \in Tick, NEW k \in LeaseLengths, Acquire(p, w, t, n, k)
        PROVE  KeepsReceipts /\ LeavesDeadTasks /\ CommitsUnderLastLease
    BY <1>1, <1>4, SetTaskLeaves DEF Acquire, acquire_leaseOK, acquire_lease
  <1>5. ASSUME NEW p \in Caller, NEW n \in Tick, CheckpointTask(p, n)
        PROVE  KeepsReceipts /\ LeavesDeadTasks /\ CommitsUnderLastLease
    BY <1>1, <1>5, SetTaskLeaves DEF CheckpointTask, FencedOK, checkpoint
  <1>6. ASSUME NEW p \in Caller, NEW n \in Tick, RecordFailure(p, n)
        PROVE  KeepsReceipts /\ LeavesDeadTasks /\ CommitsUnderLastLease
    BY <1>1, <1>6, SetTaskLeaves DEF RecordFailure, FencedOK, record_failure
  <1>7. ASSUME NEW p \in Caller, NEW n \in Tick, NEW v \in Payload, CommitReview(p, n, v)
        PROVE  KeepsReceipts /\ LeavesDeadTasks /\ CommitsUnderLastLease
    BY <1>7, CommitLeaves
  <1>8. ASSUME NEW p \in Caller, CallerDies(p)
        PROVE  KeepsReceipts /\ LeavesDeadTasks /\ CommitsUnderLastLease
    BY <1>2, <1>8 DEF CallerDies
  <1>9. CASE UNCHANGED engineVars
    BY <1>2, <1>9 DEF engineVars
  <1> QED
    BY <1>3, <1>4, <1>5, <1>6, <1>7, <1>8, <1>9 DEF EngineNext

(* A durable receipt is never changed and never disappears.                *)
THEOREM ReceiptsNeverLost == EngineSpec => ReceiptsDurable
  <1>1. EngineInv /\ [EngineNext]_engineVars => [KeepsReceipts]_engineVars
    BY StepLeaves
  <1> QED
    BY <1>1, EngineInductive, PTL DEF EngineSpec, ReceiptsDurable

(* A fenced-out worker never commits.                                      *)
THEOREM FencedOutNeverCommits == EngineSpec => OnlyLastLeaseCommits
  <1>1. EngineInv /\ [EngineNext]_engineVars => [CommitsUnderLastLease]_engineVars
    BY StepLeaves
  <1> QED
    BY <1>1, EngineInductive, PTL DEF EngineSpec, OnlyLastLeaseCommits

(* A dead-lettered task is never worked on again.                          *)
THEOREM DeadLettersStay == EngineSpec => DeadLetterFinal
  <1>1. EngineInv /\ [EngineNext]_engineVars => [LeavesDeadTasks]_engineVars
    BY StepLeaves
  <1> QED
    BY <1>1, EngineInductive, PTL DEF EngineSpec, DeadLetterFinal

(* Inspection drops a verdict only for other documents.                    *)
LEMMA InspectKeepsVerdicts ==
    ASSUME EngineInv, NEW c \in Candidate, NEW d \in Docs, InspectCandidate(c, d)
    PROVE  KeepsVerdicts
  <1> DEFINE x == StagedEntry(store, c, d)
  <1>1. store = [cache |-> store.cache, tasks |-> store.tasks, receipts |-> store.receipts]
    BY DEF EngineInv, StateInv, StateType
  <1>2. CASE AlreadyFinal(store, c, d) \/ KnownTask(store, c, d)
    BY <1>2 DEF InspectCandidate, inspect_candidate, KeepsVerdicts
  <1>3. CASE ~ (AlreadyFinal(store, c, d) \/ KnownTask(store, c, d))
    <2>1. store'.cache = Put(store.cache, c, x)
      BY <1>1, <1>3 DEF InspectCandidate, inspect_candidate
    <2>2. x.docs_hash = d
      BY DEF StagedEntry
    <2>3. c \in DOMAIN store.cache /\ store.cache[c].audit_state \in Final
          => store.cache[c].docs_hash # d
      BY <1>3 DEF AlreadyFinal
    <2> HIDE DEF x
    <2> QED
      BY <2>1, <2>2, <2>3 DEF KeepsVerdicts, Put
  <1> QED
    BY <1>2, <1>3

(* A commit never overwrites a verdict: the entry would have a receipt for *)
(* the documents of the task, and the commit would have returned it.       *)
LEMMA CommitKeepsVerdicts ==
    ASSUME EngineInv, NEW p \in Caller, NEW n \in Tick, NEW v \in Payload, CommitReview(p, n, v)
    PROVE  KeepsVerdicts
  <1> DEFINE t == held[p].task
             y == [store.cache[t[1]] EXCEPT !.audit_state = v.state, !.version = @ + 1]
  <1>1. CASE t \in DOMAIN store.receipts
    BY <1>1 DEF CommitReview, commit_review, KeepsVerdicts
  <1>2. CASE t \notin DOMAIN store.receipts
    <2>1. /\ t[1] \in DOMAIN store.cache
          /\ store.cache[t[1]].docs_hash = t[2]
          /\ t \in Idem
      BY <1>2, HeldFacts DEF CommitReview, commit_reviewOK, CacheMatches, HeldLease
    <2>2. <<t[1], store.cache[t[1]].docs_hash>> = t
      BY <2>1 DEF Idem
    <2>3. store.cache[t[1]].audit_state \notin Final
      BY <1>2, <2>1, <2>2 DEF EngineInv, StateInv, FinalVouched
    <2>4. /\ store.cache \in [DOMAIN store.cache -> CacheEntry]
          /\ store'.cache = [store.cache EXCEPT ![t[1]] = y]
      BY <1>2 DEF CommitReview, commit_review, EngineInv, StateInv, StateType, IsMap
    <2> HIDE DEF y, t
    <2> QED
      BY <2>1, <2>3, <2>4 DEF KeepsVerdicts
  <1> QED
    BY <1>1, <1>2

(* A call that rewrites one task leaves every verdict.                     *)
LEMMA SetTaskKeepsVerdicts ==
    ASSUME StateInv(store), NEW t, NEW y, store' = SetTask(store, t, y)
    PROVE  KeepsVerdicts
  <1>1. store = [cache |-> store.cache, tasks |-> store.tasks, receipts |-> store.receipts]
    BY DEF StateInv, StateType
  <1>2. store'.cache = store.cache
    BY <1>1 DEF SetTask
  <1> QED
    BY <1>2 DEF KeepsVerdicts

(* A verdict leaves the cache only with the documents it was about.        *)
THEOREM VerdictsKept == EngineSpec => VerdictKeptForSameDocs
  <1>1. EngineInv /\ [EngineNext]_engineVars => [KeepsVerdicts]_engineVars
    <2> SUFFICES ASSUME EngineInv, [EngineNext]_engineVars
                 PROVE  KeepsVerdicts
      OBVIOUS
    <2> StateInv(store)
      BY DEF EngineInv
    <2>1. CASE store' = store
      BY <2>1 DEF KeepsVerdicts
    <2>2. ASSUME NEW c \in Candidate, NEW d \in Docs, InspectCandidate(c, d)
          PROVE  KeepsVerdicts
      BY <2>2, InspectKeepsVerdicts
    <2>3. ASSUME NEW p \in Caller, NEW w \in Worker, NEW t \in Idem,
                 NEW n \in Tick, NEW k \in LeaseLengths, Acquire(p, w, t, n, k)
          PROVE  KeepsVerdicts
      BY <2>3, SetTaskKeepsVerdicts DEF Acquire, acquire_lease
    <2>4. ASSUME NEW p \in Caller, NEW n \in Tick, CheckpointTask(p, n) \/ RecordFailure(p, n)
          PROVE  KeepsVerdicts
      BY <2>4, SetTaskKeepsVerdicts DEF CheckpointTask, RecordFailure, checkpoint, record_failure
    <2>5. ASSUME NEW p \in Caller, NEW n \in Tick, NEW v \in Payload, CommitReview(p, n, v)
          PROVE  KeepsVerdicts
      BY <2>5, CommitKeepsVerdicts
    <2> QED
      BY <2>1, <2>2, <2>3, <2>4, <2>5 DEF EngineNext, CallerDies, engineVars
  <1> QED
    BY <1>1, EngineInductive, PTL DEF EngineSpec, VerdictKeptForSameDocs

(* Every state of the store is as the engine promises.                     *)
THEOREM StoreInvariantHolds == EngineSpec => []StoreInvariant
  BY TypeCorrect, StoreAlwaysReadable, FencingTokenUnique, VerdictsVouched, OneCommitPerVersion,
     RetryCeilingHolds, ReviewsAreWorkable, PTL DEF StoreInvariant

(* Receipts, dead letters and verdicts on the same documents stay.         *)
THEOREM SettledForever == EngineSpec => SettledStays
  BY ReceiptsNeverLost, DeadLettersStay, VerdictsKept DEF SettledStays

-----------------------------------------------------------------------------
(* The Stage 1 runtime.                                                    *)
(*                                                                         *)
(* The inductive invariant says what the head's compare-and-set is worth:  *)
(* an invocation that still has the present head works on a copy equal to  *)
(* the remote, of a stage that is not paused and, until its one receipt,   *)
(* below the ceiling.                                                      *)

Running == Step \ {"idle"}
Claimed == Running \ {"claim"}
Unfinished == Running \ {"release"}

(* The copies of the invocations that have the present head.               *)
CopiesCurrent ==
    \A i \in current :
        /\ pc[i] \in Running
        /\ copy[i].r1 = r1
        /\ pc[i] = "claim" => copy[i].control = reconcile_terminal_receipts(control, r1)
        /\ pc[i] \in Claimed => copy[i].control = control

(* They run in a stage that is not paused and has room for a receipt.      *)
StageOpen ==
    \A i \in current :
        /\ ~ control.paused
        /\ pc[i] = "claim" => ~ copy[i].control.paused
        /\ pc[i] \in Unfinished => Cardinality(DOMAIN r1.receipts) < MaxTerminal

(* An attempt is charged as a failure only where it left no receipt.       *)
FailureUnfinished ==
    \A i \in current : pc[i] = "failure" =>
        TaskOf(i) \in DOMAIN r1.tasks /\ ~ r1.tasks[TaskOf(i)].receipted

JobsTaken ==
    \A i \in Invocation : pc[i] \in Running => job[i] \in [env : Envelope, tick : Tick]

IInv ==
    /\ TypeOK
    /\ copy = [i \in Invocation |-> copy[i]]
    /\ StateInv(r1)
    /\ IsFiniteSet(DOMAIN r1.receipts)
    /\ CountedAreDurable /\ CeilingHolds /\ NoFalseRollback /\ DeadLettersUnfinished
    /\ CopiesCurrent /\ StageOpen /\ FailureUnfinished /\ JobsTaken

-----------------------------------------------------------------------------
(* What the engine calls make of a state: nothing in it goes back.         *)

StateAdvances(s, r) ==
    /\ \A t \in DOMAIN s.receipts : t \in DOMAIN r.receipts /\ r.receipts[t] = s.receipts[t]
    /\ \A t \in DOMAIN s.tasks :
           /\ t \in DOMAIN r.tasks
           /\ r.tasks[t].lease_epoch >= s.tasks[t].lease_epoch
           /\ r.tasks[t].attempt_count >= s.tasks[t].attempt_count
    /\ \A c \in DOMAIN s.cache : c \in DOMAIN r.cache /\ r.cache[c].version >= s.cache[c].version

DeadUnfinished(s) == \A t \in DOMAIN s.tasks : s.tasks[t].dead => t \notin DOMAIN s.receipts

(* The numbers in a state are numbers.                                     *)
LEMMA StateNumbers ==
    ASSUME NEW s, StateInv(s)
    PROVE  /\ s = [cache |-> s.cache, tasks |-> s.tasks, receipts |-> s.receipts]
           /\ \A t \in DOMAIN s.tasks : /\ s.tasks[t] \in Task
                                        /\ s.tasks[t].lease_epoch \in Nat
                                        /\ s.tasks[t].attempt_count \in Nat
           /\ \A c \in DOMAIN s.cache : s.cache[c].version \in Nat
           /\ s.tasks \in [DOMAIN s.tasks -> Task]
  BY DEF StateInv, StateType, IsMap, Task, CacheEntry

LEMMA AdvancesItself == ASSUME NEW s, StateInv(s) PROVE StateAdvances(s, s)
  BY StateNumbers DEF StateAdvances

(* An engine call on one task that makes no receipt.                       *)
LEMMA SetTaskAdvances ==
    ASSUME NEW s, StateInv(s), DeadUnfinished(s), NEW t \in DOMAIN s.tasks, NEW y \in Task,
           y.lease_epoch >= s.tasks[t].lease_epoch, y.attempt_count >= s.tasks[t].attempt_count,
           y.dead => s.tasks[t].dead \/ t \notin DOMAIN s.receipts
    PROVE  /\ StateAdvances(s, SetTask(s, t, y)) /\ DeadUnfinished(SetTask(s, t, y))
           /\ SetTask(s, t, y).receipts = s.receipts
           /\ DOMAIN SetTask(s, t, y).tasks = DOMAIN s.tasks
           /\ SetTask(s, t, y).tasks[t] = y
  <1> DEFINE r == SetTask(s, t, y)
  <1>1. /\ s = [cache |-> s.cache, tasks |-> s.tasks, receipts |-> s.receipts]
        /\ s.tasks \in [DOMAIN s.tasks -> Task]
    BY StateNumbers
  <1>2. r = [cache |-> s.cache, tasks |-> [s.tasks EXCEPT ![t] = y], receipts |-> s.receipts]
    BY <1>1 DEF SetTask
  <1> HIDE DEF r
  <1>3. /\ r.cache = s.cache /\ r.receipts = s.receipts
        /\ DOMAIN r.tasks = DOMAIN s.tasks /\ r.tasks[t] = y
        /\ \A u \in DOMAIN s.tasks : u # t => r.tasks[u] = s.tasks[u]
    BY <1>1, <1>2
  <1>4. StateAdvances(s, r)
    BY <1>3, StateNumbers DEF StateAdvances
  <1>5. DeadUnfinished(r)
    BY <1>3 DEF DeadUnfinished
  <1> QED
    BY <1>3, <1>4, <1>5 DEF r

LEMMA AcquireAdvances ==
    ASSUME NEW s, StateInv(s), DeadUnfinished(s), NEW t \in DOMAIN s.tasks, NEW w \in Worker,
           NEW n \in Nat, NEW k \in Nat
    PROVE  LET r == acquire_lease(s, t, w, n, k)
           IN  /\ StateInv(r) /\ StateAdvances(s, r) /\ DeadUnfinished(r)
               /\ r.receipts = s.receipts
               /\ t \in DOMAIN r.tasks /\ r.tasks[t].receipted = s.tasks[t].receipted
  <1> DEFINE x == s.tasks[t]
             e == x.lease_epoch + 1
             m == n + k
             y == [x EXCEPT !.lease_epoch = e, !.lease_owner = w, !.lease_expires_at = m]
  <1>1. x \in Task
    BY TaskFacts
  <1>2. acquire_lease(s, t, w, n, k) = SetTask(s, t, y)
    BY DEF acquire_lease
  <1> HIDE DEF x
  <1>3. e \in Nat /\ m \in Nat /\ e >= x.lease_epoch /\ x.attempt_count >= x.attempt_count
    BY <1>1 DEF Task
  <1> HIDE DEF e, m
  <1>4. y \in Task /\ y.attempt_count = x.attempt_count /\ y.lease_epoch = e
    BY <1>1, <1>3 DEF Task
  <1>5. y.receipted = x.receipted /\ y.dead = x.dead
    BY <1>1 DEF Task
  <1> HIDE DEF y
  <1>6. /\ StateAdvances(s, SetTask(s, t, y)) /\ DeadUnfinished(SetTask(s, t, y))
        /\ SetTask(s, t, y).receipts = s.receipts
        /\ DOMAIN SetTask(s, t, y).tasks = DOMAIN s.tasks
        /\ SetTask(s, t, y).tasks[t] = y
    BY <1>3, <1>4, <1>5, SetTaskAdvances DEF x
  <1> QED
    BY <1>2, <1>5, <1>6, AcquireInv DEF x

LEMMA CheckpointAdvances ==
    ASSUME NEW s, StateInv(s), DeadUnfinished(s), NEW t \in DOMAIN s.tasks
    PROVE  LET r == checkpoint(s, t)
           IN  /\ StateInv(r) /\ StateAdvances(s, r) /\ DeadUnfinished(r)
               /\ r.receipts = s.receipts
  <1> DEFINE x == s.tasks[t]
             y == [x EXCEPT !.checkpointed = TRUE]
  <1>1. x \in Task /\ x.attempt_count >= x.attempt_count /\ x.lease_epoch >= x.lease_epoch
    BY TaskFacts DEF Task
  <1>2. checkpoint(s, t) = SetTask(s, t, y)
    BY DEF checkpoint
  <1> HIDE DEF x
  <1>3. y \in Task /\ y.attempt_count = x.attempt_count /\ y.lease_epoch = x.lease_epoch
    BY <1>1 DEF Task
  <1>4. y.dead = x.dead
    BY <1>1 DEF Task
  <1> HIDE DEF y
  <1>5. /\ StateAdvances(s, SetTask(s, t, y)) /\ DeadUnfinished(SetTask(s, t, y))
        /\ SetTask(s, t, y).receipts = s.receipts
    BY <1>1, <1>3, <1>4, SetTaskAdvances DEF x
  <1> QED
    BY <1>2, <1>5, CheckpointInv

LEMMA RecordFailureAdvances ==
    ASSUME NEW s, StateInv(s), DeadUnfinished(s), NEW t, LiveTask(s, t), t \notin DOMAIN s.receipts
    PROVE  LET r == record_failure(s, t)
           IN  /\ StateInv(r) /\ StateAdvances(s, r) /\ DeadUnfinished(r)
               /\ r.receipts = s.receipts
  <1> DEFINE x == s.tasks[t]
             a == x.attempt_count + 1
             d == a > RetryBudget
             y == [x EXCEPT !.attempt_count = a, !.dead = d]
  <1>1. t \in DOMAIN s.tasks
    BY DEF LiveTask
  <1>2. x \in Task
    BY <1>1, TaskFacts
  <1>3. record_failure(s, t) = SetTask(s, t, y)
    BY DEF record_failure
  <1> HIDE DEF x
  <1>4. a \in Nat /\ d \in BOOLEAN /\ a >= x.attempt_count /\ x.lease_epoch >= x.lease_epoch
    BY <1>2, R1StateAssumption DEF Task
  <1> HIDE DEF a, d
  <1>5. y \in Task /\ y.attempt_count = a /\ y.lease_epoch = x.lease_epoch
    BY <1>2, <1>4 DEF Task
  <1> HIDE DEF y
  <1>6. /\ StateAdvances(s, SetTask(s, t, y)) /\ DeadUnfinished(SetTask(s, t, y))
        /\ SetTask(s, t, y).receipts = s.receipts
    BY <1>1, <1>4, <1>5, SetTaskAdvances DEF x
  <1> QED
    BY <1>3, <1>6, RecordFailureInv

LEMMA InspectAdvances ==
    ASSUME NEW s, StateInv(s), DeadUnfinished(s), NEW c \in Candidate, NEW d \in Docs
    PROVE  LET r == inspect_candidate(s, c, d)
           IN  /\ StateInv(r) /\ StateAdvances(s, r) /\ DeadUnfinished(r)
               /\ r.receipts = s.receipts
  <1> DEFINE r == inspect_candidate(s, c, d)
             x == StagedEntry(s, c, d)
             t == <<c, d>>
             z == NewTask(x.version)
  <1>1. StateInv(r)
    BY InspectInv
  <1>2. CASE AlreadyFinal(s, c, d) \/ KnownTask(s, c, d)
    BY <1>2, <1>1, AdvancesItself DEF inspect_candidate
  <1>3. CASE ~ (AlreadyFinal(s, c, d) \/ KnownTask(s, c, d))
    <2>1. s = [cache |-> s.cache, tasks |-> s.tasks, receipts |-> s.receipts]
      BY StateNumbers
    <2>2. c \in DOMAIN s.cache => x.version = s.cache[c].version + 1
      BY DEF StagedEntry
    <2>3. ~ z.dead
      BY DEF NewTask
    <2> HIDE DEF x, z
    <2>4. r = [cache |-> Put(s.cache, c, x),
               tasks |-> IF t \in DOMAIN s.tasks THEN s.tasks ELSE Put(s.tasks, t, z),
               receipts |-> s.receipts]
      BY <1>3, <2>1 DEF inspect_candidate, x, z
    <2> HIDE DEF r, t
    <2>5. /\ r.receipts = s.receipts
          /\ c \in DOMAIN r.cache /\ r.cache[c] = x
          /\ \A b \in DOMAIN s.cache : b \in DOMAIN r.cache /\ (b # c => r.cache[b] = s.cache[b])
      BY <2>4 DEF Put
    <2>6. /\ \A u \in DOMAIN s.tasks : u \in DOMAIN r.tasks /\ r.tasks[u] = s.tasks[u]
          /\ \A u \in DOMAIN r.tasks : u \notin DOMAIN s.tasks => u = t /\ r.tasks[u] = z
      BY <2>4 DEF Put
    <2>7. StateAdvances(s, r)
      BY <2>2, <2>5, <2>6, StateNumbers DEF StateAdvances
    <2>8. DeadUnfinished(r)
      BY <2>3, <2>5, <2>6 DEF DeadUnfinished
    <2> QED
      BY <1>1, <2>5, <2>7, <2>8 DEF r
  <1> QED
    BY <1>2, <1>3

(* A commit makes at most one receipt, of a task that is not dead.         *)
LEMMA CommitAdvances ==
    ASSUME NEW s, StateInv(s), DeadUnfinished(s), NEW t, NEW w \in Worker, NEW e \in Nat,
           NEW n, NEW p \in Payload, commit_reviewOK(s, t, w, e, n, p)
    PROVE  LET r == commit_review(s, t, w, e, p)
           IN  /\ StateInv(r) /\ StateAdvances(s, r) /\ DeadUnfinished(r)
               /\ DOMAIN r.receipts = DOMAIN s.receipts \cup {t}
  <1> DEFINE r == commit_review(s, t, w, e, p)
  <1>1. StateInv(r)
    BY CommitInv
  <1>2. CASE t \in DOMAIN s.receipts
    BY <1>2, <1>1, AdvancesItself DEF commit_review
  <1>3. CASE t \notin DOMAIN s.receipts
    <2> DEFINE c == t[1]
               x == s.cache[c]
               v == x.version + 1
               y == [x EXCEPT !.audit_state = p.state, !.version = v]
               z == [s.tasks[t] EXCEPT !.receipted = TRUE]
               g == NewReceipt(s, t, w, e, p)
    <2>1. /\ t \in DOMAIN s.tasks /\ ~ s.tasks[t].dead
          /\ c \in DOMAIN s.cache
      BY <1>3 DEF commit_reviewOK, FencedOK, LiveTask, CacheMatches
    <2>2. x \in CacheEntry /\ x.version \in Nat /\ v >= x.version /\ s.tasks[t] \in Task
      BY <2>1, StateNumbers DEF StateInv, StateType, IsMap
    <2>3. p.state \in Final /\ v \in Nat
      BY <2>2 DEF Payload
    <2>4. r = [cache |-> [s.cache EXCEPT ![c] = y],
               tasks |-> [s.tasks EXCEPT ![t] = z],
               receipts |-> Put(s.receipts, t, g)]
      BY <1>3, <2>1, StateNumbers DEF commit_review, StateInv, StateType, IsMap
    <2> HIDE DEF r, g, v
    <2>5. y.version = v
      BY <2>2, <2>3 DEF CacheEntry
    <2>6. /\ z.dead = s.tasks[t].dead /\ z.lease_epoch = s.tasks[t].lease_epoch
          /\ z.attempt_count = s.tasks[t].attempt_count
      BY <2>2 DEF Task
    <2> HIDE DEF y, z
    <2>7. /\ DOMAIN r.cache = DOMAIN s.cache /\ r.cache[c] = y
          /\ \A b \in DOMAIN s.cache : b # c => r.cache[b] = s.cache[b]
      BY <2>1, <2>4, StateNumbers DEF StateInv, StateType, IsMap
    <2>8. /\ DOMAIN r.tasks = DOMAIN s.tasks /\ r.tasks[t] = z
          /\ \A u \in DOMAIN s.tasks : u # t => r.tasks[u] = s.tasks[u]
      BY <2>1, <2>4, StateNumbers
    <2>9. /\ DOMAIN r.receipts = DOMAIN s.receipts \cup {t}
          /\ \A u \in DOMAIN s.receipts : r.receipts[u] = s.receipts[u]
      BY <1>3, <2>4 DEF Put
    <2>10. StateAdvances(s, r)
      BY <2>1, <2>2, <2>5, <2>6, <2>7, <2>8, <2>9, StateNumbers DEF StateAdvances
    <2>11. DeadUnfinished(r)
      BY <2>1, <2>6, <2>8, <2>9 DEF DeadUnfinished
    <2> QED
      BY <1>1, <2>9, <2>10, <2>11 DEF r
  <1> QED
    BY <1>2, <1>3

-----------------------------------------------------------------------------
(* Control records.                                                        *)

LEMMA ControlRecords ==
    ASSUME NEW c \in Control, NEW s, DOMAIN s.receipts \subseteq Idem
    PROVE  /\ reconcile_terminal_receipts(c, s) \in Control
           /\ reconcile_terminal_receipts(c, s).counted = c.counted \cup DOMAIN s.receipts
           /\ reconcile_terminal_receipts(c, s).paused
                  <=> c.paused \/ Cardinality(c.counted \cup DOMAIN s.receipts) >= MaxTerminal
           /\ reconcile_terminal_receipts(c, s).claim = c.claim
  <1> DEFINE a == c.counted \cup DOMAIN s.receipts
             b == (c.paused \/ Cardinality(a) >= MaxTerminal)
             r == [c EXCEPT !.counted = a, !.paused = b]
  <1>1. reconcile_terminal_receipts(c, s) = r
    BY DEF reconcile_terminal_receipts
  <1>2. a \in SUBSET Idem /\ b \in BOOLEAN
    BY DEF Control
  <1> HIDE DEF a, b
  <1>3. r \in Control /\ r.counted = a /\ r.claim = c.claim
    BY <1>2 DEF Control
  <1>4. r.paused = b
    BY <1>2 DEF Control
  <1> HIDE DEF r
  <1> QED
    BY <1>1, <1>3, <1>4 DEF a, b

-----------------------------------------------------------------------------
(* The adapter calls.                                                      *)

(* What every step does: the invariant stays, nothing goes back, and what  *)
(* is paused or over is not written.                                       *)
StepKept ==
    /\ IInv'
    /\ Advances
    /\ control.paused => UNCHANGED remote
    /\ Settled => Settled' /\ UNCHANGED remote

(* The remote as an invocation with the present head knows it.             *)
LEMMA HeadFacts ==
    ASSUME IInv, NEW i \in current
    PROVE  /\ i \in Invocation /\ i # Nil /\ pc[i] \in Running
           /\ job[i] \in [env : Envelope, tick : Tick]
           /\ job[i].env \in Envelope /\ job[i].tick \in Nat
           /\ job[i].env.candidate \in Candidate /\ job[i].env.docs \in Docs
           /\ job[i].env.worker \in Worker /\ job[i].env.verdict \in Payload
           /\ TaskOf(i) \in Idem
           /\ copy[i].r1 = r1
           /\ control \in Control /\ StateInv(r1) /\ DeadUnfinished(r1)
           /\ DOMAIN r1.receipts \subseteq Idem
           /\ control.counted \subseteq DOMAIN r1.receipts
           /\ ~ control.paused
  <1>1. /\ i \in Invocation /\ i # Nil /\ pc[i] \in Running /\ copy[i].r1 = r1
        /\ job[i] \in [env : Envelope, tick : Tick] /\ ~ control.paused
    BY R1Stage1Assumption, R1StateAssumption DEF IInv, TypeOK, CopiesCurrent, StageOpen, JobsTaken
  <1>2. job[i].env \in [candidate : Candidate, docs : Docs, worker : Worker, verdict : Payload]
    BY <1>1, R1Stage1Assumption, R1StateAssumption
  <1>3. /\ control \in Control /\ StateInv(r1) /\ DeadUnfinished(r1)
        /\ control.counted \subseteq DOMAIN r1.receipts
    BY DEF IInv, TypeOK, DeadUnfinished, DeadLettersUnfinished, CountedAreDurable
  <1>4. DOMAIN r1.receipts \subseteq Idem
    BY <1>3 DEF StateInv, StateType, IsMap
  <1>5. job[i].env \in Envelope /\ job[i].tick \in Nat
    BY <1>1, R1Stage1Assumption, R1StateAssumption
  <1>6. TaskOf(i) \in Idem
    BY <1>2 DEF TaskOf, Idem
  <1> QED
    BY <1>1, <1>2, <1>3, <1>4, <1>5, <1>6

(* Counting durable receipts does not lower the count.                     *)
LEMMA CountedMore ==
    ASSUME IInv
    PROVE  /\ control.counted \cup DOMAIN r1.receipts = DOMAIN r1.receipts
           /\ high <= Cardinality(DOMAIN r1.receipts) /\ high \in Nat
           /\ Cardinality(DOMAIN r1.receipts) \in Nat
           /\ Cardinality(control.counted) \in Nat
  <1>1. /\ control.counted \subseteq DOMAIN r1.receipts /\ IsFiniteSet(DOMAIN r1.receipts)
        /\ high <= Cardinality(control.counted) /\ high \in Nat
    BY DEF IInv, TypeOK, CountedAreDurable, NoFalseRollback, terminal_count
  <1>2. /\ IsFiniteSet(control.counted)
        /\ Cardinality(control.counted) <= Cardinality(DOMAIN r1.receipts)
    BY <1>1, FS_Subset
  <1> QED
    BY <1>1, <1>2, FS_CardinalityType

(* A write of R1 state, by an invocation that may still make a receipt.    *)
LEMMA PersistKeeps ==
    ASSUME IInv, NEW i \in Invocation, pc[i] \in Claimed \cap Unfinished,
           NEW s, NEW next \in Claimed, Persist(i, s, next),
           StateInv(s), StateAdvances(r1, s), DeadUnfinished(s),
           \/ s.receipts = r1.receipts
           \/ next = "release" /\ \E t \in Idem : DOMAIN s.receipts = DOMAIN r1.receipts \cup {t},
           next = "failure" => TaskOf(i) \in DOMAIN s.tasks /\ ~ s.tasks[TaskOf(i)].receipted
    PROVE  StepKept
  <1>1. /\ i \in current /\ control.claim = i
        /\ control' = control /\ r1' = s /\ current' = {i}
        /\ copy' = [copy EXCEPT ![i] = [control |-> control, r1 |-> s]]
        /\ pc' = [pc EXCEPT ![i] = next]
        /\ UNCHANGED <<high, expired, over, job, crashes>>
    BY DEF Persist, HeadUnmoved, OwnsClaim, Write
  <1>2. /\ i # Nil /\ ~ control.paused /\ control \in Control
        /\ control.counted \subseteq DOMAIN r1.receipts
        /\ Cardinality(DOMAIN r1.receipts) < MaxTerminal /\ IsFiniteSet(DOMAIN r1.receipts)
    BY <1>1, HeadFacts DEF IInv, StageOpen
  <1>3. /\ copy = [j \in Invocation |-> copy[j]] /\ pc \in [Invocation -> Step]
        /\ next \in Step
    BY DEF IInv, TypeOK, Claimed, Running
  <1>4. /\ copy'[i].control = control /\ copy'[i].r1 = s
        /\ copy' = [j \in Invocation |-> copy'[j]]
        /\ \A j \in Invocation : j # i => copy'[j] = copy[j]
        /\ pc' \in [Invocation -> Step] /\ pc'[i] = next
        /\ \A j \in Invocation : j # i => pc'[j] = pc[j]
    BY <1>1, <1>3
  <1>5. StateType(s)
    BY DEF StateInv
  <1>6. TypeOK'
    BY <1>1, <1>4, <1>5 DEF IInv, TypeOK
  <1>7. /\ IsFiniteSet(DOMAIN s.receipts)
        /\ Cardinality(DOMAIN s.receipts) <= MaxTerminal
        /\ next # "release" => Cardinality(DOMAIN s.receipts) < MaxTerminal
    <2>1. CASE s.receipts = r1.receipts
      BY <2>1, <1>2, FS_CardinalityType, R1Stage1Assumption
    <2>2. CASE next = "release" /\ \E t \in Idem : DOMAIN s.receipts = DOMAIN r1.receipts \cup {t}
      <3>1. PICK t \in Idem : DOMAIN s.receipts = DOMAIN r1.receipts \cup {t}
        BY <2>2
      <3>2. Cardinality(DOMAIN r1.receipts) \in Nat
        BY <1>2, FS_CardinalityType
      <3> DEFINE S == DOMAIN r1.receipts
      <3>3. IsFiniteSet(S) /\ Cardinality(S) \in Nat /\ Cardinality(S) < MaxTerminal
        BY <3>2, <1>2
      <3> HIDE DEF S
      <3>4. /\ IsFiniteSet(S \cup {t})
            /\ Cardinality(S \cup {t}) = IF t \in S THEN Cardinality(S) ELSE Cardinality(S) + 1
        BY <3>3, FS_AddElement
      <3>5. Cardinality(S \cup {t}) <= MaxTerminal
        BY <3>3, <3>4, R1Stage1Assumption
      <3> QED
        BY <2>2, <3>1, <3>4, <3>5 DEF S
    <2> QED
      BY <2>1, <2>2
  <1>8. DOMAIN r1.receipts \subseteq DOMAIN s.receipts
    BY DEF StateAdvances
  <1>9. CountedAreDurable' /\ CeilingHolds' /\ NoFalseRollback' /\ DeadLettersUnfinished'
    BY <1>1, <1>2, <1>7, <1>8
       DEF IInv, CountedAreDurable, CeilingHolds, NoFalseRollback, terminal_count,
           DeadUnfinished, DeadLettersUnfinished
  <1>10. CopiesCurrent' /\ StageOpen'
    BY <1>1, <1>2, <1>4, <1>7 DEF CopiesCurrent, StageOpen, Claimed, Unfinished, Running
  <1>11. FailureUnfinished' /\ JobsTaken'
    <2>1. pc[i] \in Running
      BY DEF Unfinished
    <2>2. JobsTaken'
      BY <1>1, <1>4, <2>1 DEF IInv, JobsTaken
    <2>3. TaskOf(i)' = TaskOf(i)
      BY <1>1 DEF TaskOf
    <2> QED
      BY <1>1, <1>4, <2>2, <2>3 DEF FailureUnfinished
  <1>12. IInv'
    BY <1>1, <1>4, <1>6, <1>7, <1>9, <1>10, <1>11 DEF IInv
  <1>13. Advances
    BY <1>1 DEF Advances, StateAdvances
  <1> QED
    BY <1>1, <1>2, <1>12, <1>13 DEF StepKept, Settled

LEMMA InspectKeeps == ASSUME IInv, NEW i \in Invocation, Inspect(i) PROVE StepKept
  <1> DEFINE e == job[i].env
             s == inspect_candidate(r1, e.candidate, e.docs)
             next == IF AlreadyFinal(r1, e.candidate, e.docs) THEN "release" ELSE "lease"
  <1>1. pc[i] \in Claimed \cap Unfinished /\ i \in current
    BY DEF Inspect, Claimed, Unfinished, Running, Step, Persist, HeadUnmoved
  <1>2. copy[i].r1 = r1 /\ StateInv(r1) /\ DeadUnfinished(r1) /\ e.candidate \in Candidate /\ e.docs \in Docs
    BY <1>1, HeadFacts
  <1>3. Persist(i, s, next)
    BY <1>2 DEF Inspect
  <1>4. next \in Claimed /\ next # "failure"
    BY DEF Claimed, Running, Step
  <1>5. StateInv(s) /\ StateAdvances(r1, s) /\ DeadUnfinished(s) /\ s.receipts = r1.receipts
    BY <1>2, InspectAdvances
  <1> HIDE DEF s, next
  <1> QED
    BY <1>1, <1>3, <1>4, <1>5, PersistKeeps

LEMMA LeaseKeeps == ASSUME IInv, NEW i \in Invocation, Lease(i) PROVE StepKept
  <1> DEFINE t == TaskOf(i)
             s == acquire_lease(r1, t, job[i].env.worker, job[i].tick, LeaseTicks)
             next == IF PreviousAttemptFailed(r1.tasks[t]) THEN "failure" ELSE "checkpoint"
  <1>1. pc[i] \in Claimed \cap Unfinished /\ i \in current
    BY DEF Lease, Claimed, Unfinished, Running, Step, Persist, HeadUnmoved
  <1>2. /\ copy[i].r1 = r1 /\ StateInv(r1) /\ DeadUnfinished(r1)
        /\ job[i].env.worker \in Worker /\ job[i].tick \in Nat /\ LeaseTicks \in Nat
    BY <1>1, HeadFacts, R1Stage1Assumption, R1StateAssumption
  <1>3. t \in DOMAIN r1.tasks /\ Persist(i, s, next)
    BY <1>2 DEF Lease, acquire_leaseOK, LiveTask
  <1>4. next \in Claimed /\ (next = "failure" => ~ r1.tasks[t].receipted)
    BY DEF Claimed, Running, Step, PreviousAttemptFailed
  <1>5. /\ StateInv(s) /\ StateAdvances(r1, s) /\ DeadUnfinished(s) /\ s.receipts = r1.receipts
        /\ t \in DOMAIN s.tasks /\ s.tasks[t].receipted = r1.tasks[t].receipted
    BY <1>2, <1>3, AcquireAdvances
  <1> HIDE DEF s, next
  <1> QED
    BY <1>1, <1>3, <1>4, <1>5, PersistKeeps

LEMMA FailureKeeps == ASSUME IInv, NEW i \in Invocation, Failure(i) PROVE StepKept
  <1> DEFINE t == TaskOf(i)
             s == record_failure(r1, t)
             next == IF s.tasks[t].dead THEN "release" ELSE "checkpoint"
  <1>1. pc[i] \in Claimed \cap Unfinished /\ i \in current
    BY DEF Failure, Claimed, Unfinished, Running, Step, Persist, HeadUnmoved
  <1>2. copy[i].r1 = r1 /\ StateInv(r1) /\ DeadUnfinished(r1)
    BY <1>1, HeadFacts
  <1>3. LiveTask(r1, t) /\ Persist(i, s, next)
    BY <1>2 DEF Failure, FencedOK
  <1>4. t \notin DOMAIN r1.receipts
    <2>1. ~ r1.tasks[t].receipted
      BY <1>1 DEF Failure, IInv, FailureUnfinished
    <2> QED
      BY <1>2, <2>1 DEF StateInv, validate_state
  <1>5. next \in Claimed /\ next # "failure"
    BY DEF Claimed, Running, Step
  <1>6. StateInv(s) /\ StateAdvances(r1, s) /\ DeadUnfinished(s) /\ s.receipts = r1.receipts
    BY <1>2, <1>3, <1>4, RecordFailureAdvances
  <1> HIDE DEF s, next
  <1> QED
    BY <1>1, <1>3, <1>5, <1>6, PersistKeeps

LEMMA CheckpointKeeps == ASSUME IInv, NEW i \in Invocation, Checkpoint(i) PROVE StepKept
  <1> DEFINE t == TaskOf(i)
             s == checkpoint(r1, t)
  <1>1. pc[i] \in Claimed \cap Unfinished /\ i \in current
    BY DEF Checkpoint, Claimed, Unfinished, Running, Step, Persist, HeadUnmoved
  <1>2. copy[i].r1 = r1 /\ StateInv(r1) /\ DeadUnfinished(r1)
    BY <1>1, HeadFacts
  <1>3. t \in DOMAIN r1.tasks /\ Persist(i, s, "commit")
    BY <1>2 DEF Checkpoint, FencedOK, LiveTask
  <1>4. "commit" \in Claimed
    BY DEF Claimed, Running, Step
  <1>5. StateInv(s) /\ StateAdvances(r1, s) /\ DeadUnfinished(s) /\ s.receipts = r1.receipts
    BY <1>2, <1>3, CheckpointAdvances
  <1> HIDE DEF s
  <1> QED
    BY <1>1, <1>3, <1>4, <1>5, PersistKeeps

LEMMA CommitKeeps == ASSUME IInv, NEW i \in Invocation, Commit(i) PROVE StepKept
  <1> DEFINE t == TaskOf(i)
             w == job[i].env.worker
             e == r1.tasks[t].lease_epoch
             p == job[i].env.verdict
             s == commit_review(r1, t, w, e, p)
  <1>1. pc[i] \in Claimed \cap Unfinished /\ i \in current
    BY DEF Commit, Claimed, Unfinished, Running, Step, Persist, HeadUnmoved
  <1>2. /\ copy[i].r1 = r1 /\ StateInv(r1) /\ DeadUnfinished(r1)
        /\ w \in Worker /\ p \in Payload /\ t \in Idem
    BY <1>1, HeadFacts
  <1>3. commit_reviewOK(r1, t, w, e, job[i].tick + 2, p) /\ Persist(i, s, "release")
    BY <1>2 DEF Commit, CommitAccepted
  <1>4. e \in Nat
    BY <1>2, <1>3, StateNumbers DEF commit_reviewOK, FencedOK, LiveTask
  <1>5. "release" \in Claimed
    BY DEF Claimed, Running, Step
  <1>6. /\ StateInv(s) /\ StateAdvances(r1, s) /\ DeadUnfinished(s)
        /\ DOMAIN s.receipts = DOMAIN r1.receipts \cup {t}
    <2> HIDE DEF t, w, e, p
    <2> QED
      BY <1>2, <1>3, <1>4, CommitAdvances
  <1> HIDE DEF s
  <1> QED
    BY <1>1, <1>2, <1>3, <1>5, <1>6, PersistKeeps

(* Loading takes the present head, of a stage that is open.                *)
LEMMA LoadKeeps ==
    ASSUME IInv, NEW i \in Invocation, NEW e \in Envelope, NEW n \in Tick, Load(i, e, n)
    PROVE  StepKept
  <1> DEFINE c == reconcile_terminal_receipts(control, r1)
             j == [env |-> e, tick |-> n]
             y == [control |-> c, r1 |-> r1]
  <1>1. /\ control \in Control /\ StateType(r1) /\ DOMAIN r1.receipts \subseteq Idem
        /\ pc \in [Invocation -> Step] /\ copy = [k \in Invocation |-> copy[k]]
        /\ job \in [Invocation -> [env : Envelope, tick : Tick] \cup {NoJob}]
    BY DEF IInv, TypeOK, StateType, IsMap
  <1>2. /\ c \in Control
        /\ c.counted = control.counted \cup DOMAIN r1.receipts
        /\ c.paused <=> control.paused \/ Cardinality(control.counted \cup DOMAIN r1.receipts) >= MaxTerminal
    BY <1>1, ControlRecords
  <1>3. ~ c.paused /\ Cardinality(c.counted) < MaxTerminal /\ ~ over
    BY DEF Load, assert_ceiling_and_integrity, terminal_count
  <1>4. ~ control.paused /\ Cardinality(DOMAIN r1.receipts) < MaxTerminal
    BY <1>2, <1>3, CountedMore
  <1>5. /\ job' = [job EXCEPT ![i] = j] /\ copy' = [copy EXCEPT ![i] = y]
        /\ current' = current \cup {i} /\ pc' = [pc EXCEPT ![i] = "claim"]
        /\ UNCHANGED <<control, r1, high, expired, over, crashes>>
    BY DEF Load
  <1>6. j \in [env : Envelope, tick : Tick]
    OBVIOUS
  <1>7. y.control = c /\ y.r1 = r1
    OBVIOUS
  <1>8. pc[i] = "idle"
    BY DEF Load
  <1> HIDE DEF c, j, y
  <1>9. /\ job'[i] = j /\ copy'[i] = y /\ pc'[i] = "claim"
        /\ \A k \in Invocation : k # i => job'[k] = job[k] /\ copy'[k] = copy[k] /\ pc'[k] = pc[k]
        /\ copy' = [k \in Invocation |-> copy'[k]]
        /\ job' \in [Invocation -> [env : Envelope, tick : Tick] \cup {NoJob}]
        /\ pc' \in [Invocation -> Step]
    BY <1>1, <1>5, <1>6 DEF Step
  <1>10. TypeOK'
    BY <1>1, <1>2, <1>5, <1>7, <1>9 DEF IInv, TypeOK
  <1>11. /\ StateInv(r1)' /\ IsFiniteSet(DOMAIN r1.receipts)'
         /\ CountedAreDurable' /\ CeilingHolds' /\ NoFalseRollback' /\ DeadLettersUnfinished'
    BY <1>5 DEF IInv, CountedAreDurable, CeilingHolds, NoFalseRollback, DeadLettersUnfinished
  <1>12. current \subseteq Invocation
    BY DEF IInv, TypeOK
  <1>13. CopiesCurrent'
    BY <1>5, <1>7, <1>9, <1>12 DEF IInv, CopiesCurrent, Claimed, Running, Step, c
  <1>14. StageOpen'
    BY <1>3, <1>4, <1>5, <1>7, <1>9, <1>12 DEF IInv, StageOpen
  <1>15. FailureUnfinished'
    BY <1>5, <1>9, <1>12 DEF IInv, FailureUnfinished, TaskOf
  <1>16. JobsTaken'
    BY <1>6, <1>9 DEF IInv, JobsTaken
  <1>17. IInv'
    BY <1>9, <1>10, <1>11, <1>13, <1>14, <1>15, <1>16 DEF IInv
  <1>18. Advances
    BY <1>5, AdvancesItself DEF Advances, StateAdvances, IInv
  <1> QED
    BY <1>3, <1>5, <1>17, <1>18 DEF StepKept, Settled, remote

(* The claim counts what the invocation reconciled when it loaded.         *)
LEMMA ClaimKeeps == ASSUME IInv, NEW i \in Invocation, Claim(i) PROVE StepKept
  <1> DEFINE b == reconcile_terminal_receipts(control, r1)
             c == claim_control(b, i)
             y == [control |-> c, r1 |-> r1]
  <1>1. pc[i] = "claim" /\ i \in current
    BY DEF Claim, ClaimAccepted, HeadUnmoved
  <1>2. /\ copy[i].control = b /\ copy[i].r1 = r1 /\ ~ copy[i].control.paused
        /\ Cardinality(DOMAIN r1.receipts) < MaxTerminal
    BY <1>1 DEF IInv, CopiesCurrent, StageOpen, Unfinished, Running, Step
  <1>3. control \in Control /\ DOMAIN r1.receipts \subseteq Idem /\ i # Nil /\ ~ control.paused
    BY <1>1, HeadFacts
  <1>4. b \in Control /\ b.counted = DOMAIN r1.receipts /\ ~ b.paused
    BY <1>2, <1>3, ControlRecords, CountedMore
  <1>5. c \in Control /\ c.counted = DOMAIN r1.receipts /\ ~ c.paused /\ c.claim = i
    <2> HIDE DEF b
    <2>1. c \in Control /\ c.counted = b.counted /\ c.claim = i
      BY <1>3, <1>4 DEF claim_control, Control
    <2>2. c.paused = b.paused
      BY <1>3, <1>4 DEF claim_control, Control
    <2> QED
      BY <1>4, <2>1, <2>2
  <1>6. /\ control' = c /\ r1' = r1 /\ current' = {i}
        /\ copy' = [copy EXCEPT ![i] = y] /\ pc' = [pc EXCEPT ![i] = "inspect"]
        /\ expired' = FALSE /\ UNCHANGED <<high, over, job, crashes>>
    BY <1>2 DEF Claim, Write
  <1>7. y.control = c /\ y.r1 = r1
    OBVIOUS
  <1> HIDE DEF b, c, y
  <1>8. /\ copy = [j \in Invocation |-> copy[j]] /\ pc \in [Invocation -> Step]
        /\ "inspect" \in Step /\ StateType(r1)
    BY DEF IInv, TypeOK, Step
  <1>9. /\ copy'[i] = y /\ copy' = [j \in Invocation |-> copy'[j]]
        /\ \A j \in Invocation : j # i => copy'[j] = copy[j]
        /\ pc' \in [Invocation -> Step] /\ pc'[i] = "inspect"
        /\ \A j \in Invocation : j # i => pc'[j] = pc[j]
    BY <1>6, <1>8
  <1>10. TypeOK'
    BY <1>5, <1>6, <1>7, <1>8, <1>9 DEF IInv, TypeOK
  <1>11. /\ CountedAreDurable' /\ CeilingHolds' /\ NoFalseRollback' /\ DeadLettersUnfinished'
         /\ StateInv(r1)' /\ IsFiniteSet(DOMAIN r1.receipts)'
    BY <1>3, <1>5, <1>6, CountedMore
       DEF IInv, CountedAreDurable, CeilingHolds, NoFalseRollback, terminal_count,
           DeadLettersUnfinished
  <1>12. CopiesCurrent' /\ StageOpen'
    BY <1>2, <1>5, <1>6, <1>7, <1>9 DEF CopiesCurrent, StageOpen, Running, Step
  <1>13. FailureUnfinished' /\ JobsTaken'
    BY <1>1, <1>6, <1>9 DEF IInv, FailureUnfinished, JobsTaken, Running, Step
  <1>14. IInv'
    BY <1>9, <1>10, <1>11, <1>12, <1>13 DEF IInv
  <1>15. Advances
    BY <1>3, <1>5, <1>6, <1>11, AdvancesItself DEF Advances, StateAdvances, IInv, CountedAreDurable
  <1> QED
    BY <1>1, <1>3, <1>14, <1>15 DEF StepKept, Settled

(* The release counts the receipts of the copy, which are all there are.   *)
LEMMA ReleaseKeeps == ASSUME IInv, NEW i \in Invocation, Release(i) PROVE StepKept
  <1> DEFINE b == reconcile_terminal_receipts(control, r1)
             c == release_control(b)
  <1>1. pc[i] = "release" /\ i \in current
    BY DEF Release, HeadUnmoved
  <1>2. copy[i].control = control /\ copy[i].r1 = r1
    BY <1>1 DEF IInv, CopiesCurrent, Claimed, Running, Step
  <1>3. /\ control \in Control /\ DOMAIN r1.receipts \subseteq Idem /\ ~ control.paused
        /\ control.counted \subseteq DOMAIN r1.receipts
    BY <1>1, HeadFacts
  <1>4. b \in Control /\ b.counted = DOMAIN r1.receipts
    BY <1>3, ControlRecords, CountedMore
  <1>5. c \in Control /\ c.counted = DOMAIN r1.receipts
    <2> HIDE DEF b
    <2> QED
      BY <1>4 DEF release_control, Control
  <1>6. /\ control' = c /\ r1' = r1 /\ current' = {}
        /\ high' = IF terminal_count(c) > high THEN terminal_count(c) ELSE high
        /\ End(i) /\ UNCHANGED <<expired, over, crashes>>
    BY <1>2 DEF Release, Write
  <1> HIDE DEF b, c
  <1>7. /\ high' \in Nat /\ high' <= Cardinality(DOMAIN r1.receipts)
    BY <1>5, <1>6, CountedMore DEF terminal_count
  <1>8. /\ copy = [j \in Invocation |-> copy[j]] /\ pc \in [Invocation -> Step]
        /\ job \in [Invocation -> [env : Envelope, tick : Tick] \cup {NoJob}]
        /\ StateType(r1)
    BY DEF IInv, TypeOK
  <1>9. /\ copy'[i] = NoCopy /\ copy' = [j \in Invocation |-> copy'[j]]
        /\ \A j \in Invocation : j # i => copy'[j] = copy[j] /\ job'[j] = job[j] /\ pc'[j] = pc[j]
        /\ job' \in [Invocation -> [env : Envelope, tick : Tick] \cup {NoJob}]
        /\ pc' \in [Invocation -> Step] /\ pc'[i] = "idle"
    BY <1>6, <1>8 DEF End, Step
  <1>10. TypeOK'
    BY <1>5, <1>6, <1>7, <1>8, <1>9 DEF IInv, TypeOK
  <1>11. /\ CountedAreDurable' /\ CeilingHolds' /\ NoFalseRollback' /\ DeadLettersUnfinished'
         /\ StateInv(r1)' /\ IsFiniteSet(DOMAIN r1.receipts)'
    BY <1>5, <1>6, <1>7
       DEF IInv, CountedAreDurable, CeilingHolds, NoFalseRollback, terminal_count,
           DeadLettersUnfinished
  <1>12. CopiesCurrent' /\ StageOpen'
    BY <1>6 DEF CopiesCurrent, StageOpen
  <1>13. FailureUnfinished' /\ JobsTaken'
    BY <1>6, <1>9 DEF IInv, FailureUnfinished, JobsTaken, Running
  <1>14. IInv'
    BY <1>9, <1>10, <1>11, <1>12, <1>13 DEF IInv
  <1>15. Advances
    BY <1>3, <1>5, <1>6, AdvancesItself DEF Advances, StateAdvances, IInv
  <1> QED
    BY <1>1, <1>3, <1>14, <1>15 DEF StepKept, Settled

(* An invocation that ends without a write leaves the remote alone.        *)
LEMMA EndKeeps ==
    ASSUME IInv, NEW i \in Invocation, End(i), current' = current \ {i}, crashes' \in 0..MaxCrash,
           UNCHANGED <<control, r1, high, expired, over>>
    PROVE  StepKept
  <1>1. /\ copy = [j \in Invocation |-> copy[j]] /\ pc \in [Invocation -> Step]
        /\ job \in [Invocation -> [env : Envelope, tick : Tick] \cup {NoJob}]
        /\ current \subseteq Invocation
    BY DEF IInv, TypeOK
  <1>2. /\ copy'[i] = NoCopy /\ copy' = [j \in Invocation |-> copy'[j]]
        /\ \A j \in Invocation : j # i => copy'[j] = copy[j] /\ job'[j] = job[j] /\ pc'[j] = pc[j]
        /\ job' \in [Invocation -> [env : Envelope, tick : Tick] \cup {NoJob}]
        /\ pc' \in [Invocation -> Step] /\ pc'[i] = "idle"
    BY <1>1 DEF End, Step
  <1>3. TypeOK'
    BY <1>2 DEF IInv, TypeOK
  <1>4. /\ CountedAreDurable' /\ CeilingHolds' /\ NoFalseRollback' /\ DeadLettersUnfinished'
        /\ StateInv(r1)' /\ IsFiniteSet(DOMAIN r1.receipts)'
    BY DEF IInv, CountedAreDurable, CeilingHolds, NoFalseRollback, DeadLettersUnfinished
  <1>5. CopiesCurrent' /\ StageOpen'
    BY <1>1, <1>2 DEF IInv, CopiesCurrent, StageOpen
  <1>6. FailureUnfinished' /\ JobsTaken'
    BY <1>1, <1>2 DEF IInv, FailureUnfinished, JobsTaken, Running, TaskOf
  <1>7. IInv'
    BY <1>2, <1>3, <1>4, <1>5, <1>6 DEF IInv
  <1>8. Advances
    BY AdvancesItself DEF Advances, StateAdvances, IInv
  <1> QED
    BY <1>7, <1>8 DEF StepKept, Settled, remote

LEMMA RaiseKeeps == ASSUME IInv, NEW i \in Invocation, Raise(i) PROVE StepKept
  BY EndKeeps DEF Raise, IInv, TypeOK

LEMMA CrashKeeps == ASSUME IInv, NEW i \in Invocation, Crash(i) PROVE StepKept
  <1>1. crashes' \in 0..MaxCrash
    BY R1Stage1Assumption DEF Crash, IInv, TypeOK
  <1> QED
    BY <1>1, EndKeeps DEF Crash

(* The clocks, and a step that does nothing here.                          *)
LEMMA ClockKeeps ==
    ASSUME IInv, expired' \in BOOLEAN, over' \in BOOLEAN, over => over',
           UNCHANGED <<control, r1, high, current, pc, job, copy, crashes>>
    PROVE  StepKept
  <1>1. TypeOK'
    BY DEF IInv, TypeOK
  <1>2. IInv'
    BY <1>1 DEF IInv, CountedAreDurable, CeilingHolds, NoFalseRollback, DeadLettersUnfinished,
               CopiesCurrent, StageOpen, FailureUnfinished, JobsTaken, TaskOf
  <1>3. Advances
    BY AdvancesItself DEF Advances, StateAdvances, IInv
  <1> QED
    BY <1>2, <1>3 DEF StepKept, Settled, remote

-----------------------------------------------------------------------------

LEMMA InitIInv == Init => IInv
  <1> SUFFICES ASSUME Init PROVE IInv
    OBVIOUS
  <1>1. /\ StateInv(r1) /\ r1.receipts = << >> /\ r1.tasks = << >>
    BY EmptyStateInv DEF Init, empty_state, EmptyMap
  <1>2. DOMAIN r1.receipts = {} /\ DOMAIN r1.tasks = {}
    BY <1>1
  <1>3. IsFiniteSet(DOMAIN r1.receipts) /\ Cardinality(DOMAIN r1.receipts) = 0
    BY <1>2, FS_EmptySet
  <1>4. /\ control \in Control /\ control.counted = {}
    BY DEF Init, empty_control, Control
  <1>5. TypeOK
    <2>1. StateType(r1)
      BY <1>1 DEF StateInv
    <2>2. crashes \in 0..MaxCrash /\ high \in Nat
      BY R1Stage1Assumption DEF Init
    <2>3. \A i \in Invocation : copy[i] = NoCopy
      BY DEF Init
    <2>4. /\ job \in [Invocation -> [env : Envelope, tick : Tick] \cup {NoJob}]
          /\ pc \in [Invocation -> Step] /\ current \subseteq Invocation
      BY DEF Init, Step
    <2> QED
      BY <1>4, <2>1, <2>2, <2>3, <2>4 DEF Init, TypeOK
  <1>6. /\ CountedAreDurable /\ CeilingHolds /\ NoFalseRollback /\ DeadLettersUnfinished
    BY <1>2, <1>3, <1>4, FS_EmptySet, R1Stage1Assumption
       DEF Init, CountedAreDurable, CeilingHolds, NoFalseRollback, DeadLettersUnfinished,
           terminal_count
  <1> QED
    BY <1>1, <1>3, <1>5, <1>6
       DEF Init, IInv, CopiesCurrent, StageOpen, FailureUnfinished, JobsTaken, Running

LEMMA NextKeeps == IInv /\ [Next]_vars => StepKept
  <1> SUFFICES ASSUME IInv, [Next]_vars PROVE StepKept
    OBVIOUS
  <1>1. ASSUME NEW i \in Invocation, Start(i) PROVE StepKept
    BY <1>1, LoadKeeps DEF Start
  <1>2. ASSUME NEW i \in Invocation, Work(i) PROVE StepKept
    BY <1>2, ClaimKeeps, InspectKeeps, LeaseKeeps, FailureKeeps, CheckpointKeeps, CommitKeeps,
       ReleaseKeeps, RaiseKeeps DEF Work
  <1>3. CASE Expire
    BY <1>3, ClockKeeps DEF Expire, IInv, TypeOK
  <1>4. CASE CloseWindow
    BY <1>4, ClockKeeps DEF CloseWindow, IInv, TypeOK
  <1>5. CASE UNCHANGED vars
    BY <1>5, ClockKeeps DEF vars, IInv, TypeOK
  <1> QED
    BY <1>1, <1>2, <1>3, <1>4, <1>5, CrashKeeps DEF Next

(* What is reviewed on copies of the R1 state taken calls ago, by           *)
(* invocations that crash, time out and overtake one another, stays as     *)
(* sound as in one engine; receipts are counted once durable and never     *)
(* exceed MAX_TERMINAL_TASKS; the count never falls behind the high-water  *)
(* mark (process_one_controlled and its adapter calls).                    *)
THEOREM StageInvariantHolds == Spec => []StageInvariant
  <1>1. IInv => StageInvariant
    BY DEF IInv, StageInvariant, ReviewsSound, LedgerSound, StateInv
  <1>2. IInv /\ [Next]_vars => IInv'
    BY NextKeeps DEF StepKept
  <1> QED
    BY <1>1, <1>2, InitIInv, PTL DEF Spec

(* No write of persist_r1_state, claim or release is lost, none follows a  *)
(* pause, and none follows the seven days once no invocation has the head. *)
THEOREM WritesAreInOrder == Spec => WritesInOrder
  <1>1. IInv /\ [Next]_vars => IInv'
    BY NextKeeps DEF StepKept
  <1>2. IInv /\ [Next]_vars => [Advances]_vars
    BY NextKeeps DEF StepKept
  <1>3. IInv /\ [Next]_vars => [control.paused => UNCHANGED remote]_vars
    BY NextKeeps DEF StepKept
  <1>4. IInv /\ [Next]_vars => [Settled => Settled' /\ UNCHANGED remote]_vars
    BY NextKeeps DEF StepKept
  <1> QED
    BY <1>1, <1>2, <1>3, <1>4, InitIInv, PTL
       DEF Spec, WritesInOrder, NoLostUpdate, PauseHolds, WindowHolds
===============================================================================
