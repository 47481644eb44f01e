---------------------------- MODULE AuthorityProofs ----------------------------
(***************************************************************************)
(* Activation receipts and writer keys, for any number of processes, runs, *)
(* moves of main and edits of the rules: the provisioning of the writer    *)
(* key keeps KeyInvariant and NoTakeover, and production processes keep    *)
(* ActivationInvariant.                                                    *)
(***************************************************************************)
EXTENDS Activation, WriterKey, FiniteSetTheorems, TLAPS

-----------------------------------------------------------------------------
(* Provisioning.                                                           *)
(*                                                                         *)
(* The inductive invariant is about the runs behind the fence.  There is   *)
(* one at most, because the server creates the tag for one caller, and the *)
(* only run that ever sent its secret is that one; so what it has read of  *)
(* the environment and of the secrets nobody else can have changed since.  *)
USE WriterKeyAssumption

(* From where on a run can rely on what it has checked or made.            *)
Stored == {"one_repo", "one_env", "main2", "fence2", "stored", "consumed", "clean"}
Emptied == {"put_secret"} \cup Stored
Listed == {"none_env"} \cup Emptied
Locked == {"locked", "none_repo"} \cup Listed
Confirmed == {"fence1", "marker", "probe", "put_env"} \cup Locked
Behind == {"main1"} \cup Confirmed

OneBehind == \A r, q \in Run :
    (at[r] \in Behind \/ r \in tried) /\ (at[q] \in Behind \/ q \in tried) => r = q

(* The fence, and canonical main when it was created.                      *)
FenceStands ==
    /\ fence = Unset <=> fencedAt = Unset
    /\ fencedAt # Unset => fencedAt <= tip
    /\ \A r \in Run : head[r] <= tip
    /\ \A r \in Run : at[r] \in Behind => fence = head[r] /\ fencedAt >= head[r]
    /\ \A r \in Run : at[r] \in Confirmed => fencedAt = head[r]
    /\ \A r \in tried : /\ fence = head[r] /\ fencedAt = head[r]
                        /\ at[r] \in Stored \cup {"denied"}

ServerAsRead ==
    \A r \in Run :
        /\ at[r] = "put_env" => env = "absent"
        /\ at[r] \in Locked => env = "locked"
        /\ at[r] \in Listed => ~ repoSecret
        /\ at[r] = "put_secret" => secrets = {}
        /\ at[r] \in Stored => secrets = {r}
        /\ at[r] \in {"consumed", "clean"} => r \notin marker

IInv == WriterTypeOK /\ OneBehind /\ FenceStands /\ ServerAsRead

-----------------------------------------------------------------------------
(* Where a request that passes leads.                                      *)
LEMMA Order ==
    /\ Onward["main0"] = "fence0" /\ Onward["fence0"] = "post_fence"
    /\ Onward["post_fence"] = "main1" /\ Onward["main1"] = "fence1" /\ Onward["fence1"] = "marker"
    /\ Onward["marker"] = "probe" /\ Onward["probe"] = "put_env" /\ Onward["put_env"] = "locked"
    /\ Onward["locked"] = "none_repo" /\ Onward["none_repo"] = "none_env"
    /\ Onward["none_env"] = "put_secret" /\ Onward["put_secret"] = "one_repo"
    /\ Onward["one_repo"] = "one_env" /\ Onward["one_env"] = "main2" /\ Onward["main2"] = "fence2"
    /\ Onward["fence2"] = "stored"
  BY DEF Onward

LEMMA Locations ==
    Request = {"begin", "main0", "fence0", "post_fence", "main1", "fence1", "marker", "probe",
                "put_env", "locked", "none_repo", "none_env", "put_secret", "one_repo",
                "one_env", "main2", "fence2", "denied", "stored", "consumed", "clean"}
  BY DEF Request, Onward, Ended

(* What the server looked like when a run behind the fence read it.        *)
Entitled(r, l) ==
    /\ l \in Behind => at[r] \in Behind
    /\ l \in Confirmed => fencedAt = head[r]
    /\ l = "put_env" => env = "absent"
    /\ l \in Locked => env = "locked"
    /\ l \in Listed => ~ repoSecret
    /\ l = "put_secret" => secrets = {}
    /\ l \in Stored => secrets = {r}
    /\ r \in tried => l \in Stored \cup {"denied"}

(* A run goes on, and the server does not change.                          *)
LEMMA RunGoesOn ==
    ASSUME IInv, NEW r \in Run, NEW l \in Request, Proceed(r, l), UNCHANGED server,
           Entitled(r, l),
           marker' \subseteq Run, marker' \subseteq marker \cup {r}, login' \subseteq login,
           l \in {"consumed", "clean"} => r \notin marker',
           l = "clean" => r \notin login'
    PROVE  IInv'
  <1>1. /\ at \in [Run -> Request] /\ tried \subseteq Run
    BY DEF IInv, WriterTypeOK
  <1>2. /\ at' \in [Run -> Request] /\ at'[r] = l /\ head' = head
        /\ \A q \in Run : q # r => at'[q] = at[q]
        /\ UNCHANGED <<tip, fence, env, repoSecret, secrets, tried, fencedAt>>
    BY <1>1 DEF Proceed, server
  <1>3. WriterTypeOK'
    BY <1>2, Locations DEF IInv, WriterTypeOK, ServerAsRead
  <1>4. OneBehind'
    BY <1>1, <1>2 DEF IInv, OneBehind, Entitled
  <1>5. FenceStands'
    BY <1>1, <1>2 DEF IInv, FenceStands, Entitled
  <1>6. ServerAsRead'
    BY <1>1, <1>2 DEF IInv, ServerAsRead, Entitled
  <1> QED
    BY <1>3, <1>4, <1>5, <1>6 DEF IInv

(* A check or a request that is denied, and one that ends without answer.  *)
LEMMA DenialEntitled == ASSUME NEW r \in Run PROVE Entitled(r, "denied")
  BY DEF Entitled, Behind, Confirmed, Locked, Listed, Emptied, Stored

(* A run that only looks at something.                                     *)
LEMMA LookKeeps ==
    ASSUME IInv, NEW r \in Run, NEW ok \in BOOLEAN, at[r] \in DOMAIN Onward,
           Pass(r, ok), UNCHANGED <<server, local>>, ok => Entitled(r, Onward[at[r]])
    PROVE  IInv'
  <1> DEFINE l == IF ok THEN Onward[at[r]] ELSE "denied"
  <1>1. Proceed(r, l) /\ UNCHANGED <<marker, login>>
    BY DEF Pass, local
  <1>2. Entitled(r, l)
    BY DenialEntitled
  <1>3. l \in Request /\ l \notin {"consumed", "clean"}
    BY Order, Locations DEF Onward
  <1>4. marker \subseteq Run
    BY DEF IInv, WriterTypeOK
  <1> HIDE DEF l
  <1> QED
    BY <1>1, <1>2, <1>3, <1>4, RunGoesOn

LEMMA CheckMainKeeps ==
    ASSUME IInv, NEW r \in Run, CheckCanonical(r) PROVE IInv'
  <1>1. /\ at[r] \in {"main0", "main1", "main2"}
        /\ Pass(r, MainHolds(r)) /\ MainHolds(r) \in BOOLEAN
        /\ UNCHANGED <<server, local>> /\ at[r] \in DOMAIN Onward
    BY DEF CheckCanonical, MainHolds, Onward
  <1>2. /\ fencedAt # Unset => fencedAt <= tip /\ fencedAt \in Int
        /\ head[r] \in Int /\ head[r] # Unset /\ tip \in Int
    BY DEF IInv, WriterTypeOK, FenceStands, Revision
  <1>3. at[r] = "main1" /\ MainHolds(r) => fencedAt = head[r]
    <2> SUFFICES ASSUME at[r] = "main1", tip = head[r] PROVE fencedAt = head[r]
      BY DEF MainHolds
    <2>1. fence = head[r] /\ fencedAt >= head[r]
      BY DEF IInv, FenceStands, Behind
    <2>2. fencedAt # Unset
      BY <1>2, <2>1 DEF IInv, FenceStands
    <2> QED
      BY <1>2, <2>1, <2>2
  <1>4. MainHolds(r) => Entitled(r, Onward[at[r]])
    <2>1. CASE at[r] = "main0"
      BY <2>1, Order DEF Entitled, Behind, Confirmed, Locked, Listed, Emptied, Stored, IInv,
                         FenceStands
    <2>2. CASE at[r] = "main1"
      BY <2>2, <1>3, Order DEF Entitled, Behind, Confirmed, Locked, Listed, Emptied, Stored,
                               IInv, FenceStands
    <2>3. CASE at[r] = "main2"
      BY <2>3, Order DEF Entitled, Behind, Confirmed, Locked, Listed, Emptied, Stored, IInv,
                         FenceStands, ServerAsRead
    <2> QED
      BY <1>1, <2>1, <2>2, <2>3
  <1> HIDE DEF MainHolds
  <1> QED
    BY <1>1, <1>4, LookKeeps

LEMMA CheckFenceKeeps ==
    ASSUME IInv, NEW r \in Run, CheckFence(r) PROVE IInv'
  <1>1. CASE at[r] = "fence0" /\ Pass(r, fence = Unset)
    <2>1. Entitled(r, Onward[at[r]])
      BY <1>1, Order DEF Entitled, Behind, Confirmed, Locked, Listed, Emptied, Stored, IInv,
                         FenceStands
    <2> QED
      BY <1>1, <2>1, LookKeeps DEF CheckFence, Onward
  <1>2. CASE at[r] \in {"fence1", "fence2"} /\ Pass(r, fence = head[r])
    <2>1. Entitled(r, Onward[at[r]])
      BY <1>2, Order DEF Entitled, Behind, Confirmed, Locked, Listed, Emptied, Stored, IInv,
                         FenceStands, ServerAsRead
    <2> QED
      BY <1>2, <2>1, LookKeeps DEF CheckFence, Onward
  <1> QED
    BY <1>1, <1>2 DEF CheckFence

LEMMA ProbeKeeps ==
    ASSUME IInv, NEW r \in Run, ProbeEnvironment(r) PROVE IInv'
  <1>1. EnvironmentFree => Entitled(r, Onward[at[r]])
    BY Order DEF ProbeEnvironment, EnvironmentFree, Entitled, Behind, Confirmed, Locked, Listed,
                 Emptied, Stored, IInv, FenceStands
  <1> QED
    BY <1>1, LookKeeps DEF ProbeEnvironment, EnvironmentFree, Onward

LEMMA AssertLockedKeeps ==
    ASSUME IInv, NEW r \in Run, AssertLocked(r) PROVE IInv'
  <1>1. Entitled(r, Onward[at[r]])
    BY Order DEF AssertLocked, Entitled, Behind, Confirmed, Locked, Listed, Emptied, Stored,
                 IInv, FenceStands, ServerAsRead
  <1> QED
    BY <1>1, LookKeeps DEF AssertLocked, Onward

LEMMA ListSecretsKeeps ==
    ASSUME IInv, NEW r \in Run, ListSecrets(r) PROVE IInv'
  <1>1. CASE at[r] \in {"none_repo", "one_repo"} /\ Pass(r, NoneInRepository)
    <2>1. NoneInRepository => Entitled(r, Onward[at[r]])
      BY <1>1, Order DEF NoneInRepository, Entitled, Behind, Confirmed, Locked, Listed, Emptied,
                         Stored, IInv, FenceStands, ServerAsRead
    <2>2. NoneInRepository \in BOOLEAN /\ at[r] \in DOMAIN Onward /\ UNCHANGED <<server, local>>
      BY <1>1 DEF NoneInRepository, ListSecrets, Onward
    <2> QED
      BY <1>1, <2>1, <2>2, LookKeeps
  <1>2. CASE at[r] = "none_env" /\ Pass(r, secrets = {})
    <2>1. secrets = {} => Entitled(r, Onward[at[r]])
      BY <1>2, Order DEF Entitled, Behind, Confirmed, Locked, Listed, Emptied, Stored, IInv,
                         FenceStands, ServerAsRead
    <2> QED
      BY <1>2, <2>1, LookKeeps DEF ListSecrets, Onward
  <1>3. CASE at[r] = "one_env" /\ Pass(r, secrets = {r})
    <2>1. Entitled(r, Onward[at[r]])
      BY <1>3, Order DEF Entitled, Behind, Confirmed, Locked, Listed, Emptied, Stored, IInv,
                         FenceStands, ServerAsRead
    <2> QED
      BY <1>3, <2>1, LookKeeps DEF ListSecrets, Onward
  <1> QED
    BY <1>1, <1>2, <1>3 DEF ListSecrets

-----------------------------------------------------------------------------
(* The steps in a codespace.                                               *)

LEMMA BeginKeeps ==
    ASSUME IInv, NEW r \in Run, NEW c \in Revision, Begin(r, c) PROVE IInv'
  <1>1. /\ at[r] = "begin" /\ c <= tip
        /\ head' = [head EXCEPT ![r] = c] /\ at' = [at EXCEPT ![r] = "main0"]
        /\ UNCHANGED <<tip, fence, env, repoSecret, secrets, tried, fencedAt, marker, login>>
    BY DEF Begin, server, local
  <1>2. /\ at \in [Run -> Request] /\ head \in [Run -> Revision] /\ tried \subseteq Run
        /\ "main0" \in Request
    BY Locations DEF IInv, WriterTypeOK
  <1>3. /\ at' \in [Run -> Request] /\ at'[r] = "main0"
        /\ head' \in [Run -> Revision] /\ head'[r] = c
        /\ \A q \in Run : q # r => at'[q] = at[q] /\ head'[q] = head[q]
    BY <1>1, <1>2
  <1>4. r \notin tried
    BY <1>1 DEF IInv, FenceStands, Stored
  <1>5. WriterTypeOK'
    BY <1>1, <1>3 DEF IInv, WriterTypeOK
  <1>6. OneBehind' /\ FenceStands' /\ ServerAsRead'
    BY <1>1, <1>2, <1>3, <1>4
       DEF IInv, OneBehind, FenceStands, ServerAsRead, Behind, Confirmed, Locked, Listed,
           Emptied, Stored
  <1> QED
    BY <1>5, <1>6 DEF IInv

LEMMA CreateMarkerKeeps ==
    ASSUME IInv, NEW r \in Run, CreateMarker(r) PROVE IInv'
  <1>1. Entitled(r, "probe")
    BY DEF CreateMarker, Entitled, Behind, Confirmed, Locked, Listed, Emptied, Stored, IInv,
           FenceStands
  <1>2. /\ Proceed(r, "probe") /\ marker' = marker \cup {r} /\ UNCHANGED <<server, login>>
    BY Order DEF CreateMarker, Pass
  <1>3. marker \subseteq Run
    BY DEF IInv, WriterTypeOK
  <1> QED
    BY <1>1, <1>2, <1>3, RunGoesOn, Locations

LEMMA CleanUpKeeps ==
    ASSUME IInv, NEW r \in Run, ConsumeMarker(r) \/ RemoveLogin(r) PROVE IInv'
  <1>1. marker \subseteq Run
    BY DEF IInv, WriterTypeOK
  <1>2. CASE ConsumeMarker(r)
    <2>1. Entitled(r, "consumed")
      BY <1>2 DEF ConsumeMarker, Entitled, Behind, Confirmed, Locked, Listed, Emptied, Stored,
                  IInv, FenceStands, ServerAsRead
    <2> QED
      BY <1>1, <1>2, <2>1, RunGoesOn, Locations DEF ConsumeMarker
  <1>3. CASE RemoveLogin(r)
    <2>1. Entitled(r, "clean") /\ r \notin marker
      BY <1>3 DEF RemoveLogin, Entitled, Behind, Confirmed, Locked, Listed, Emptied, Stored,
                  IInv, FenceStands, ServerAsRead
    <2> QED
      BY <1>1, <1>3, <2>1, RunGoesOn, Locations DEF RemoveLogin
  <1> QED
    BY <1>2, <1>3

LEMMA EndKeeps ==
    ASSUME IInv, NEW r \in Run, End(r) PROVE IInv'
  <1>1. marker \subseteq Run /\ UNCHANGED <<marker, login>>
    BY DEF IInv, WriterTypeOK, End, local
  <1> QED
    BY <1>1, DenialEntitled, RunGoesOn, Locations DEF End

-----------------------------------------------------------------------------
(* The requests that change the server: refused, or applied and answered,  *)
(* or applied with the answer lost.                                        *)

(* A run moves on from a request.                                          *)
LEMMA Answered ==
    ASSUME IInv, NEW r \in Run, NEW o \in Outcome, at[r] \in DOMAIN Onward, Pass(r, o = "applied")
    PROVE  /\ at' \in [Run -> Request] /\ head' = head
           /\ at'[r] = IF o = "applied" THEN Onward[at[r]] ELSE "denied"
           /\ \A q \in Run : q # r => at'[q] = at[q]
  <1>1. at \in [Run -> Request] /\ Onward[at[r]] \in Request /\ "denied" \in Request
    BY Order, Locations DEF IInv, WriterTypeOK, Onward
  <1> QED
    BY <1>1 DEF Pass, Proceed

(* A request that was refused is a run that ends.                          *)
LEMMA RefusedKeeps ==
    ASSUME IInv, NEW r \in Run, Pass(r, FALSE), UNCHANGED <<server, local>>
    PROVE  IInv'
  <1>1. marker \subseteq Run /\ UNCHANGED <<marker, login>> /\ Proceed(r, "denied")
    BY DEF IInv, WriterTypeOK, local, Pass
  <1> QED
    BY <1>1, DenialEntitled, RunGoesOn, Locations

(* The tag goes to one run, while nobody is behind it.                     *)
LEMMA PostFenceKeeps ==
    ASSUME IInv, NEW r \in Run, NEW o \in Outcome, PostFence(r, o) PROVE IInv'
  <1>1. CASE o = "refused"
    BY <1>1, RefusedKeeps DEF PostFence, server, local
  <1>2. CASE o # "refused"
    <2>1. /\ at[r] = "post_fence" /\ fence = Unset /\ Pass(r, o = "applied")
          /\ fence' = head[r] /\ fencedAt' = tip
          /\ UNCHANGED <<tip, env, repoSecret, secrets, tried, marker, login>>
      BY <1>2 DEF PostFence, FenceTaken, local
    <2>2. /\ at' \in [Run -> Request] /\ head' = head
          /\ at'[r] \in {"main1", "denied"}
          /\ \A q \in Run : q # r => at'[q] = at[q]
      BY <2>1, Answered, Order DEF Onward
    <2>3. /\ head \in [Run -> Revision] /\ tip \in Revision
          /\ Unset \notin Revision /\ Revision \subseteq Int
          /\ tried \subseteq Run
      BY DEF IInv, WriterTypeOK, Revision
    <2>4. (\A q \in Run : at[q] \notin Behind) /\ tried = {}
      BY <2>1, <2>3 DEF IInv, FenceStands
    <2>5. WriterTypeOK'
      BY <2>1, <2>2, <2>3 DEF IInv, WriterTypeOK
    <2>6. OneBehind'
      BY <2>1, <2>2, <2>4 DEF OneBehind
    <2>7. FenceStands'
      BY <2>1, <2>2, <2>3, <2>4
         DEF IInv, FenceStands, Behind, Confirmed, Locked, Listed, Emptied, Stored
    <2>8. ServerAsRead'
      BY <2>1, <2>2
         DEF IInv, ServerAsRead, Locked, Listed, Emptied, Stored
    <2> QED
      BY <2>5, <2>6, <2>7, <2>8 DEF IInv
  <1> QED
    BY <1>1, <1>2

(* Nobody else relies on what the environment is.                          *)
LEMMA PutEnvironmentKeeps ==
    ASSUME IInv, NEW r \in Run, NEW o \in Outcome, PutEnvironment(r, o)
    PROVE  IInv'
  <1>1. CASE o = "refused"
    BY <1>1, RefusedKeeps DEF PutEnvironment, server, local
  <1>2. CASE o # "refused"
    <2>1. /\ at[r] = "put_env" /\ env' = "locked" /\ Pass(r, o = "applied")
          /\ UNCHANGED <<tip, fence, repoSecret, secrets, tried, fencedAt, marker, login>>
      BY <1>2 DEF PutEnvironment, local
    <2>2. /\ at' \in [Run -> Request] /\ head' = head
          /\ at'[r] \in {"locked", "denied"}
          /\ \A q \in Run : q # r => at'[q] = at[q]
      BY <2>1, Answered, Order DEF Onward
    <2>3. tried \subseteq Run /\ at[r] \in Behind /\ at[r] \in Confirmed
      BY <2>1 DEF IInv, WriterTypeOK, Behind, Confirmed
    <2>4. r \notin tried
      BY <2>1 DEF IInv, FenceStands, Stored
    <2>5. \A q \in Run : q # r => at[q] \notin Behind
      BY <2>3 DEF IInv, OneBehind
    <2>6. WriterTypeOK'
      BY <2>1, <2>2 DEF IInv, WriterTypeOK
    <2>7. OneBehind' /\ FenceStands'
      BY <2>1, <2>2, <2>3, <2>4
         DEF IInv, OneBehind, FenceStands, Behind, Confirmed, Locked, Listed, Emptied, Stored
    <2>8. ServerAsRead'
      BY <2>1, <2>2, <2>5
         DEF IInv, ServerAsRead, Behind, Confirmed, Locked, Listed, Emptied, Stored
    <2> QED
      BY <2>6, <2>7, <2>8 DEF IInv
  <1> QED
    BY <1>1, <1>2

(* The sole PUT of the secret, by the run behind the fence.                *)
LEMMA PutSecretKeeps ==
    ASSUME IInv, NEW r \in Run, NEW o \in Outcome, PutSecret(r, o) PROVE IInv'
  <1>1. /\ at[r] = "put_secret" /\ tried' = tried \cup {r} /\ Pass(r, o = "applied")
        /\ secrets' = IF o = "refused" THEN secrets ELSE secrets \cup {r}
        /\ UNCHANGED <<tip, fence, env, repoSecret, fencedAt, marker, login>>
    BY DEF PutSecret, local
  <1>2. /\ at' \in [Run -> Request] /\ head' = head
        /\ at'[r] = IF o = "applied" THEN "one_repo" ELSE "denied"
        /\ \A q \in Run : q # r => at'[q] = at[q]
    BY <1>1, Answered, Order DEF Onward
  <1>3. tried \subseteq Run /\ at[r] \in Behind /\ at[r] \in Confirmed
    BY <1>1 DEF IInv, WriterTypeOK, Behind, Confirmed, Locked, Listed, Emptied
  <1>4. secrets = {} /\ env = "locked" /\ ~ repoSecret /\ fence = head[r] /\ fencedAt = head[r]
    BY <1>1, <1>3 DEF IInv, ServerAsRead, FenceStands, Locked, Listed, Emptied
  <1>5. \A q \in Run : q # r => at[q] \notin Behind /\ q \notin tried
    BY <1>3 DEF IInv, OneBehind
  <1>6. WriterTypeOK'
    BY <1>1, <1>2 DEF IInv, WriterTypeOK
  <1>7. OneBehind'
    BY <1>1, <1>2, <1>5 DEF OneBehind
  <1>8. FenceStands'
    BY <1>1, <1>2, <1>3, <1>4, <1>5
       DEF IInv, FenceStands, Behind, Confirmed, Locked, Listed, Emptied, Stored
  <1>9. ServerAsRead'
    BY <1>1, <1>2, <1>4, <1>5
       DEF IInv, ServerAsRead, Behind, Confirmed, Locked, Listed, Emptied, Stored
  <1> QED
    BY <1>6, <1>7, <1>8, <1>9 DEF IInv

LEMMA MainMovesKeeps == ASSUME IInv, CanonicalMoves PROVE IInv'
  <1>1. /\ tip' = tip + 1 /\ tip' \in Revision
        /\ UNCHANGED <<fence, env, repoSecret, secrets, tried, fencedAt, marker, login, at, head>>
    BY DEF CanonicalMoves, local, IInv, WriterTypeOK, Revision
  <1>2. /\ head \in [Run -> Revision] /\ tip \in Int /\ Revision \subseteq Int
        /\ fencedAt \in Revision \cup {Unset}
    BY DEF IInv, WriterTypeOK, Revision
  <1>3. /\ fencedAt # Unset => fencedAt <= tip + 1
        /\ \A r \in Run : head[r] <= tip + 1
    <2>1. ASSUME NEW n \in Int, NEW m \in Int, n <= m PROVE n <= m + 1
      BY <2>1
    <2>2. fencedAt # Unset => fencedAt \in Int /\ fencedAt <= tip
      BY <1>2 DEF IInv, FenceStands
    <2>3. \A r \in Run : head[r] \in Int /\ head[r] <= tip
      BY <1>2 DEF IInv, FenceStands
    <2> QED
      BY <1>2, <2>1, <2>2, <2>3
  <1>4. FenceStands'
    BY <1>1, <1>3 DEF IInv, FenceStands
  <1>5. WriterTypeOK' /\ OneBehind' /\ ServerAsRead'
    BY <1>1 DEF IInv, WriterTypeOK, OneBehind, ServerAsRead
  <1> QED
    BY <1>4, <1>5 DEF IInv

-----------------------------------------------------------------------------

LEMMA InitIInv == ASSUME KeyInit PROVE IInv
  <1>1. 0 \in Revision /\ "begin" \in Request /\ "begin" \notin Behind \cup {"consumed"}
    BY Locations DEF Revision, Behind, Confirmed, Locked, Listed, Emptied, Stored
  <1>2. WriterTypeOK
    BY <1>1 DEF KeyInit, WriterTypeOK
  <1>3. OneBehind /\ FenceStands /\ ServerAsRead
    BY <1>1 DEF KeyInit, OneBehind, FenceStands, ServerAsRead, Behind, Confirmed, Locked, Listed,
                Emptied, Stored
  <1> QED
    BY <1>2, <1>3 DEF IInv

LEMMA NextKeeps == ASSUME IInv, [KeyNext]_keyVars PROVE IInv'
  <1>1. CASE UNCHANGED keyVars
    BY <1>1 DEF keyVars, IInv, WriterTypeOK, OneBehind, FenceStands, ServerAsRead
  <1> QED
    BY <1>1, BeginKeeps, CheckMainKeeps, CheckFenceKeeps, CreateMarkerKeeps, ProbeKeeps,
       AssertLockedKeeps, ListSecretsKeeps, PostFenceKeeps, PutEnvironmentKeeps,
       PutSecretKeeps, CleanUpKeeps, EndKeeps, MainMovesKeeps DEF KeyNext

LEMMA Inductive == KeySpec => []IInv
  <1>1. KeyInit => IInv
    BY InitIInv
  <1>2. IInv /\ [KeyNext]_keyVars => IInv'
    BY NextKeeps
  <1> QED
    BY <1>1, <1>2, PTL DEF KeySpec

(* However many runs are started, together or one after a failed other,    *)
(* whatever answers are lost and however main moves: one secret is PUT at  *)
(* most, for the commit that was main when the fence was created, and a    *)
(* run that reports its key stored reports the truth (apply_once).         *)
THEOREM KeyInvariantHolds == KeySpec => []KeyInvariant
  <1>1. IInv => KeyInvariant
    <2> SUFFICES ASSUME IInv PROVE KeyInvariant
      OBVIOUS
    <2>1. WriterTypeOK /\ FencedOnMain
      BY DEF IInv, FenceStands, FencedOnMain
    <2>2. StoredAlone
      BY DEF IInv, FenceStands, ServerAsRead, StoredAlone, Behind, Confirmed, Locked, Listed,
             Emptied, Stored
    <2>3. OnePut
      <3>1. CASE tried = {}
        BY <3>1, FS_EmptySet DEF OnePut
      <3>2. CASE tried # {}
        <4>1. PICK r \in tried : TRUE
          BY <3>2
        <4>2. tried = {r}
          BY <4>1 DEF IInv, OneBehind, WriterTypeOK
        <4> QED
          BY <4>2, FS_Singleton DEF OnePut
      <3> QED
        BY <3>1, <3>2
    <2> QED
      BY <2>1, <2>2, <2>3 DEF KeyInvariant
  <1> QED
    BY <1>1, Inductive, PTL

(* The PUT of the environment never meets one that exists: what a run saw  *)
(* absent, only the run behind the fence can have created since.           *)
THEOREM EnvironmentNotTakenOver == KeySpec => NoTakeover
  <1>1. IInv => \A r \in Run : at[r] = "put_env" /\ at'[r] = "locked" => env = "absent"
    BY DEF IInv, ServerAsRead
  <1> QED
    BY <1>1, Inductive, PTL DEF NoTakeover

-----------------------------------------------------------------------------
(* The production processes.                                               *)
(*                                                                         *)
(* A load that has seen the rules of its receipt r in force, and after     *)
(* that the branch at r's first entry, knows that r was in the tag then;   *)
(* and as the rules are never again those of r once they are edited, r is  *)
(* in the tag whenever they are.  So two ledgers that may both be written  *)
(* stand on the one receipt that is in the tag.                            *)
HIDE WriterKeyAssumption
USE ActivationAssumption

(* Requests of a load, by what it has in hand: a receipt, whose rules were *)
(* in force, at whose first entry the branch is, whose manifest is sound.  *)
Sounded == {"main2", "evidence", "main3", "loaded"}
Headed == {"manifest"} \cup Sounded
Ruled == {"head"} \cup Headed
Holding == {"window", "ruleset"} \cup Ruled
Loading == {"main1", "tag"} \cup Holding

(* If the rules are those of receipt r, then r is in the tag.              *)
StillTagged(r) == /\ r.ruleset <= ruleset.version
                  /\ RulesetHolds(r) => tag = r

Sound(r) == LET m == Manifest[r.main] IN Populated(m) /\ Outlasts(r, m)

(* A process before its context is made.                                   *)
Bare(p) == \/ pc[p] = "begin"
           \/ purpose[p] \in Launcher
           \/ purpose[p] = "context" /\ pc[p] \in Loading

(* What a process has built, and what its load has read.                   *)
Built(p) ==
    /\ pc[p] = "begin" => purpose[p] = "context"
    /\ Bare(p) => anchor[p] = Nil /\ ledger[p] = Nil /\ adapter[p].of = Nil
    /\ purpose[p] = "ledger" /\ pc[p] \in Loading => ledger[p] = Nil
    /\ purpose[p] = "adapter" /\ pc[p] \in Loading => adapter[p].of = Nil
    /\ ledger[p] # Nil => /\ ledger[p] = anchor[p] /\ key[p] = ledger[p].key
                          /\ StillTagged(ledger[p])
    /\ adapter[p].of # Nil => adapter[p].of = anchor[p]
    /\ anchor[p] # Nil => Sound(anchor[p])

LoadRead(p) ==
    /\ pc[p] \in Holding => read[p] # Nil
    /\ pc[p] \in Ruled => read[p].ruleset <= ruleset.version
    /\ pc[p] \in Headed => StillTagged(read[p])
    /\ pc[p] \in Sounded => Sound(read[p])

ActInv == /\ ActivationTypeOK /\ branch.of = tag /\ IssuedInForce
          /\ \A p \in Process : Built(p) /\ LoadRead(p)

-----------------------------------------------------------------------------
Elsewhere(p) == \A q \in Process \ {p} :
    /\ pc'[q] = pc[q] /\ purpose'[q] = purpose[q] /\ read'[q] = read[q] /\ key'[q] = key[q]
    /\ anchor'[q] = anchor[q] /\ ledger'[q] = ledger[q] /\ adapter'[q] = adapter[q]

(* A process that moves disturbs no other.                                 *)
LEMMA OneMoves ==
    ASSUME ActInv, NEW p \in Process, ActivationTypeOK', UNCHANGED <<ruleset, tag>>,
           branch'.of = branch.of, IssuedInForce', Elsewhere(p), Built(p)', LoadRead(p)'
    PROVE  ActInv'
<1>1. ASSUME NEW q \in Process \ {p} PROVE Built(q)' /\ LoadRead(q)'
  <2>1. Built(q) /\ LoadRead(q)
    BY DEF ActInv
  <2>2. Built(q)'
    BY <2>1 DEF Built, Bare, Elsewhere, StillTagged, RulesetHolds, Sound, Populated, Outlasts
  <2>3. LoadRead(q)'
    BY <2>1 DEF LoadRead, Elsewhere, StillTagged, RulesetHolds, Sound, Populated, Outlasts
  <2> QED BY <2>2, <2>3
<1> QED BY <1>1 DEF ActInv

LEMMA ReceiptsTyped == \A r \in Receipts : r # Nil /\ r \in Receipt /\ r.ruleset \in Nat /\ r.main \in Commit
                                         /\ r.key \in Key
  BY DEF ActivationAssumption, Receipt, Version

(* The owner and the server.                                               *)
LEMMA OutsideKeeps ==
    ASSUME ActInv, (\E r \in Receipts : Activate(r)) \/ EditRuleset \/ MainMoves \/ TimePasses
    PROVE  ActInv'
<1>1. CASE MainMoves \/ TimePasses
  <2>1. UNCHANGED <<ruleset, tag, branch, pc, purpose, before, read, built>>
    BY <1>1 DEF MainMoves, TimePasses
  <2>2. ActivationTypeOK'
    BY <1>1, <2>1 DEF MainMoves, TimePasses, ActInv, ActivationTypeOK, Commit, Time, built
  <2>3. ASSUME NEW p \in Process PROVE Built(p)' /\ LoadRead(p)'
    BY <2>1 DEF ActInv, Built, LoadRead, Bare, StillTagged, RulesetHolds, Sound, Populated, Outlasts, built
  <2> QED BY <2>1, <2>2, <2>3 DEF ActInv, IssuedInForce, built
<1>2. CASE EditRuleset
  <2>1. UNCHANGED <<main, now, tag, branch, pc, purpose, before, read, built>>
        /\ ruleset'.version = ruleset.version + 1 /\ ruleset' \in [version : Version, strict : BOOLEAN]
        /\ ruleset.version \in Nat
    BY <1>2 DEF EditRuleset, ActInv, ActivationTypeOK, Version
  <2>2. ActivationTypeOK'
    BY <2>1 DEF ActInv, ActivationTypeOK, built
  <2>3. ASSUME NEW r \in Receipts, r.ruleset <= ruleset.version PROVE StillTagged(r)'
    <3>1. r.ruleset \in Nat
      BY ReceiptsTyped
    <3>2. r.ruleset <= ruleset.version + 1 /\ r.ruleset # ruleset.version + 1
      BY <2>1, <2>3, <3>1
    <3> QED BY <2>1, <3>2 DEF StillTagged, RulesetHolds
  <2>4. ASSUME NEW p \in Process PROVE Built(p)' /\ LoadRead(p)'
    <3>1. Built(p) /\ LoadRead(p) /\ ledger[p] \in Receipts \cup {Nil} /\ read[p] \in Receipts \cup {Nil}
      BY DEF ActInv, ActivationTypeOK
    <3>a. UNCHANGED <<ledger, read>>
      BY <2>1 DEF built
    <3>2. ledger[p] # Nil => StillTagged(ledger[p])'
      BY <2>3, <3>1, <3>a DEF Built, StillTagged, RulesetHolds
    <3>3. pc[p] \in Headed => StillTagged(read[p])'
      BY <2>3, <3>1, <3>a DEF LoadRead, StillTagged, RulesetHolds, Headed, Ruled, Holding
    <3>4. pc[p] \in Ruled => read[p].ruleset <= ruleset'.version
      <4>1. pc[p] \in Ruled => read[p].ruleset \in Nat
        BY <3>1, ReceiptsTyped DEF LoadRead, Holding
      <4> QED BY <2>1, <3>1, <4>1 DEF LoadRead
    <3>5. Built(p)'
      BY <2>1, <3>1, <3>2 DEF Built, Bare, Sound, Populated, Outlasts, built, StillTagged, RulesetHolds
    <3>6. LoadRead(p)'
      BY <2>1, <3>1, <3>3, <3>4 DEF LoadRead, Sound, Populated, Outlasts, StillTagged, RulesetHolds
    <3> QED BY <3>5, <3>6
  <2> QED BY <2>1, <2>2, <2>4 DEF ActInv, IssuedInForce, built
<1>3. ASSUME NEW r \in Receipts, Activate(r) PROVE ActInv'
  <2>1. UNCHANGED <<main, now, ruleset, pc, purpose, before, read, built>>
        /\ tag' = r /\ branch' = [of |-> r, head |-> 0] /\ (tag = Nil \/ ~ ruleset.strict)
    BY <1>3 DEF Activate
  <2>2. ActivationTypeOK'
    BY <2>1, ActivationAssumption DEF ActInv, ActivationTypeOK, built, ActivationAssumption
  <2>3. ASSUME NEW s, s # Nil, StillTagged(s) PROVE StillTagged(s)'
    BY <2>1, <2>3 DEF StillTagged, RulesetHolds
  <2>4. ASSUME NEW p \in Process PROVE Built(p)' /\ LoadRead(p)'
    <3>1. Built(p) /\ LoadRead(p)
      BY DEF ActInv
    <3>a. UNCHANGED <<ledger, read>>
      BY <2>1 DEF built
    <3>2. ledger[p] # Nil => StillTagged(ledger[p])'
      BY <2>3, <3>1, <3>a DEF Built, StillTagged, RulesetHolds
    <3>3. pc[p] \in Headed => StillTagged(read[p])'
      BY <2>3, <3>1, <3>a DEF LoadRead, StillTagged, RulesetHolds, Headed, Ruled, Holding
    <3>4. Built(p)'
      BY <2>1, <3>1, <3>2 DEF Built, Bare, Sound, Populated, Outlasts, built, StillTagged, RulesetHolds
    <3>5. LoadRead(p)'
      BY <2>1, <3>1, <3>3 DEF LoadRead, Sound, Populated, Outlasts, StillTagged, RulesetHolds
    <3> QED BY <3>4, <3>5
  <2> QED BY <2>1, <2>2, <2>4 DEF ActInv, IssuedInForce, built
<1> QED BY <1>1, <1>2, <1>3

(* The requests of a load, in order.                                       *)
LEMMA LoadOrder ==
    ASSUME NEW p \in Process, pc[p] \in DOMAIN Then
    PROVE  /\ pc[p] = "main1" => After(p) = "tag"
           /\ pc[p] = "tag" => After(p) = "window"
           /\ pc[p] = "window" => After(p) = "ruleset"
           /\ pc[p] = "ruleset" => After(p) = "head"
           /\ pc[p] = "head" => After(p) = "manifest"
           /\ pc[p] = "manifest" => After(p) = "main2"
           /\ pc[p] = "main2" /\ purpose[p] \in Launcher => After(p) = "loaded"
           /\ pc[p] = "main2" /\ purpose[p] \notin Launcher => After(p) = "evidence"
           /\ pc[p] = "evidence" => After(p) = "main3"
           /\ pc[p] = "main3" => After(p) = "loaded"
  BY DEF After, Then

LEMMA ThenDomain == DOMAIN Then = {"main1", "tag", "window", "ruleset", "head", "manifest", "main2",
                                   "evidence", "main3"}
  BY DEF Then

LEMMA CheckMoves ==
    ASSUME ActInv, NEW p \in Process, NEW l \in DOMAIN Then, NEW ok \in BOOLEAN, Check(p, l, ok),
           UNCHANGED read \/ \E r \in Receipts : read' = [read EXCEPT ![p] = r],
           before' \in [Process -> Commit]
    PROVE  /\ ActivationTypeOK' /\ IssuedInForce' /\ Elsewhere(p)
           /\ pc'[p] = IF ok THEN After(p) ELSE "denied"
           /\ UNCHANGED <<outside, purpose, built>>
<1>1. /\ pc' = [pc EXCEPT ![p] = IF ok THEN After(p) ELSE "denied"] /\ pc[p] = l
      /\ UNCHANGED <<outside, purpose, built>>
  BY DEF Check, GoTo
<1>2. pc'[p] = (IF ok THEN After(p) ELSE "denied") /\ \A q \in Process \ {p} : pc'[q] = pc[q]
  BY <1>1 DEF ActInv, ActivationTypeOK
<1>3. After(p) \in {"tag", "window", "ruleset", "head", "manifest", "main2", "evidence", "main3", "loaded"}
      /\ (purpose[p] \in Launcher => l \notin {"evidence", "main3"})
      /\ (purpose[p] \in Launcher => After(p) \notin {"evidence", "main3"})
  <2>1. purpose[p] \in Launcher => pc[p] \notin {"evidence", "main3"}
    BY DEF ActInv, ActivationTypeOK
  <2> QED BY <1>1, <2>1, LoadOrder, ThenDomain
<1>4. pc' \in [Process -> Location]
  <2>1. After(p) \in Location /\ "denied" \in Location
    BY <1>3, ThenDomain DEF Location
  <2> QED BY <1>1, <2>1 DEF ActInv, ActivationTypeOK
<1>5. read' \in [Process -> Receipts \cup {Nil}]
      /\ \A q \in Process \ {p} : read'[q] = read[q]
  BY DEF ActInv, ActivationTypeOK
<1>6. \A q \in Process : purpose[q] \in Launcher => pc'[q] \notin {"evidence", "main3"}
  BY <1>2, <1>3 DEF ActInv, ActivationTypeOK
<1>7. ActivationTypeOK'
  BY <1>1, <1>4, <1>5, <1>6 DEF ActInv, ActivationTypeOK, outside, built
<1> QED BY <1>1, <1>2, <1>5, <1>7 DEF Elsewhere, ActInv, IssuedInForce, outside, built

LEMMA ReadsKeep == ASSUME ActInv, NEW p \in Process, Reads(p) PROVE ActInv'
<1> USE DEF Sounded, Headed, Ruled, Holding, Loading
<1>1. Built(p) /\ LoadRead(p) /\ ActivationTypeOK /\ branch.of = tag
  BY DEF ActInv
<1>2. ASSUME ActivationTypeOK', IssuedInForce', Elsewhere(p), UNCHANGED <<outside, purpose, built>>,
             pc[p] \in DOMAIN Then, pc'[p] \in {"denied", After(p)}, LoadRead(p)'
      PROVE  ActInv'
  <2>1. Built(p)'
    <3>1. pc[p] \in Loading /\ pc'[p] \in Loading \cup {"denied"}
      BY <1>2, LoadOrder, ThenDomain
    <3>2. Bare(p)' => Bare(p)
      BY <1>2, <3>1 DEF Bare
    <3> QED BY <1>1, <1>2, <3>1, <3>2 DEF Built, StillTagged, RulesetHolds, Sound, Populated, Outlasts,
            outside, built
  <2> QED BY <1>2, <2>1, OneMoves DEF outside
<1>3. CASE ReadMain(p)
  <2>1. Check(p, "main1", TRUE) /\ before' \in [Process -> Commit] /\ read' = read
    BY <1>1, <1>3 DEF ReadMain, ActivationTypeOK
  <2>2. /\ ActivationTypeOK' /\ IssuedInForce' /\ Elsewhere(p) /\ pc'[p] = After(p)
        /\ UNCHANGED <<outside, purpose, built>>
    BY <2>1, CheckMoves, ThenDomain
  <2>3. pc[p] = "main1" /\ pc[p] \in DOMAIN Then /\ After(p) = "tag"
    BY <2>1, LoadOrder, ThenDomain DEF Check
  <2>4. LoadRead(p)'
    BY <2>2, <2>3 DEF LoadRead
  <2> QED BY <1>2, <2>2, <2>3, <2>4
<1>4. CASE ReadTag(p)
  <2>1. Check(p, "tag", tag # Nil /\ tag.main = before[p]) /\ before' \in [Process -> Commit]
        /\ read' = [read EXCEPT ![p] = tag]
    BY <1>1, <1>4 DEF ReadTag, ActivationTypeOK
  <2>2. pc[p] = "tag" /\ pc[p] \in DOMAIN Then /\ After(p) = "window"
    BY <2>1, LoadOrder, ThenDomain DEF Check
  <2>3. /\ ActivationTypeOK' /\ IssuedInForce' /\ Elsewhere(p) /\ UNCHANGED <<outside, purpose, built>>
        /\ pc'[p] = IF tag # Nil /\ tag.main = before[p] THEN "window" ELSE "denied"
    <3>1. CASE tag # Nil /\ tag.main = before[p]
      <4>1. tag \in Receipts /\ (tag # Nil /\ tag.main = before[p]) = TRUE
        BY <1>1, <3>1 DEF ActivationTypeOK
      <4> QED BY <2>1, <2>2, <4>1, CheckMoves
    <3>2. CASE ~(tag # Nil /\ tag.main = before[p])
      <4>1. pc' = [pc EXCEPT ![p] = "denied"] /\ UNCHANGED <<outside, purpose, built>>
        BY <2>1, <3>2 DEF Check, GoTo
      <4>2. ActivationTypeOK'
        BY <1>1, <2>1, <4>1 DEF ActivationTypeOK, Location, outside, built
      <4> QED BY <1>1, <2>1, <3>2, <4>1, <4>2 DEF ActivationTypeOK, Elsewhere, ActInv, IssuedInForce, built, outside
    <3> QED BY <3>1, <3>2
  <2>4. read'[p] = tag
    BY <1>1, <2>1 DEF ActivationTypeOK
  <2>5. LoadRead(p)'
    BY <2>3, <2>4 DEF LoadRead
  <2> QED BY <1>2, <2>2, <2>3, <2>5
<1>5. CASE CheckWindow(p)
  <2>1. Check(p, "window", InWindow(read[p])) /\ before' \in [Process -> Commit] /\ read' = read
        /\ InWindow(read[p]) \in BOOLEAN
    BY <1>1, <1>5 DEF CheckWindow, ActivationTypeOK, InWindow
  <2>2. pc[p] = "window" /\ pc[p] \in DOMAIN Then /\ After(p) = "ruleset"
    BY <2>1, LoadOrder, ThenDomain DEF Check
  <2>3. /\ ActivationTypeOK' /\ IssuedInForce' /\ Elsewhere(p) /\ pc'[p] \in {"denied", After(p)}
        /\ UNCHANGED <<outside, purpose, built>>
    BY <2>1, <2>2, CheckMoves
  <2>4. LoadRead(p)'
    BY <1>1, <2>1, <2>2, <2>3 DEF LoadRead
  <2> QED BY <1>2, <2>2, <2>3, <2>4
<1>6. CASE CheckRuleset(p)
  <2>1. Check(p, "ruleset", RulesetHolds(read[p])) /\ before' \in [Process -> Commit] /\ read' = read
        /\ RulesetHolds(read[p]) \in BOOLEAN
    BY <1>1, <1>6 DEF CheckRuleset, ActivationTypeOK, RulesetHolds
  <2>2. pc[p] = "ruleset" /\ pc[p] \in DOMAIN Then /\ After(p) = "head"
    BY <2>1, LoadOrder, ThenDomain DEF Check
  <2>3. /\ ActivationTypeOK' /\ IssuedInForce' /\ Elsewhere(p) /\ UNCHANGED <<outside, purpose, built>>
        /\ pc'[p] = IF RulesetHolds(read[p]) THEN After(p) ELSE "denied"
    BY <2>1, <2>2, CheckMoves
  <2>4. RulesetHolds(read[p]) => read[p].ruleset <= ruleset.version
    <3>1. ruleset.version \in Nat
      BY <1>1 DEF ActivationTypeOK, Version
    <3> QED BY <3>1 DEF RulesetHolds
  <2>5. LoadRead(p)'
    BY <1>1, <2>1, <2>2, <2>3, <2>4 DEF LoadRead, outside
  <2> QED BY <1>2, <2>2, <2>3, <2>5
<1>7. CASE CheckHead(p)
  <2> DEFINE ok == branch = [of |-> read[p], head |-> 0]
  <2>1. Check(p, "head", ok) /\ before' \in [Process -> Commit] /\ read' = read /\ ok \in BOOLEAN
    BY <1>1, <1>7 DEF CheckHead, ActivationTypeOK
  <2>2. pc[p] = "head" /\ pc[p] \in DOMAIN Then /\ After(p) = "manifest"
    BY <2>1, LoadOrder, ThenDomain DEF Check
  <2>3. ok => tag = read[p]
    BY <1>1
  <2> HIDE DEF ok
  <2>4. /\ ActivationTypeOK' /\ IssuedInForce' /\ Elsewhere(p) /\ UNCHANGED <<outside, purpose, built>>
        /\ pc'[p] = IF ok THEN After(p) ELSE "denied"
    BY <2>1, <2>2, CheckMoves
  <2>5. LoadRead(p)'
    BY <1>1, <2>1, <2>2, <2>3, <2>4 DEF LoadRead, outside, StillTagged
  <2> QED BY <1>2, <2>2, <2>4, <2>5
<1>8. CASE CheckManifest(p)
  <2>1. Check(p, "manifest", Sound(read[p])) /\ before' \in [Process -> Commit] /\ read' = read
        /\ Sound(read[p]) \in BOOLEAN
    BY <1>1, <1>8 DEF CheckManifest, ActivationTypeOK, Sound, Populated, Outlasts
  <2>2. pc[p] = "manifest" /\ pc[p] \in DOMAIN Then /\ After(p) = "main2"
    BY <2>1, LoadOrder, ThenDomain DEF Check
  <2>3. /\ ActivationTypeOK' /\ IssuedInForce' /\ Elsewhere(p) /\ UNCHANGED <<outside, purpose, built>>
        /\ pc'[p] = IF Sound(read[p]) THEN After(p) ELSE "denied"
    BY <2>1, <2>2, CheckMoves
  <2>4. Sound(read[p])' <=> Sound(read[p])
    BY <2>1 DEF Sound, Populated, Outlasts
  <2>5. LoadRead(p)'
    BY <1>1, <2>1, <2>2, <2>3, <2>4 DEF LoadRead, outside, StillTagged, RulesetHolds
  <2> QED BY <1>2, <2>2, <2>3, <2>5
<1>9. CASE CheckMain(p)
  <2>1. PICK l \in {"main2", "evidence", "main3"}, ok \in BOOLEAN : Check(p, l, ok)
    BY <1>9 DEF CheckMain, InWindow
  <2>2. before' \in [Process -> Commit] /\ read' = read
    BY <1>1, <1>9 DEF CheckMain, ActivationTypeOK
  <2>3. pc[p] \in {"main2", "evidence", "main3"} /\ pc[p] \in DOMAIN Then
        /\ After(p) \in {"evidence", "main3", "loaded"} /\ l \in DOMAIN Then
    BY <2>1, LoadOrder, ThenDomain DEF Check
  <2>4. /\ ActivationTypeOK' /\ IssuedInForce' /\ Elsewhere(p) /\ UNCHANGED <<outside, purpose, built>>
        /\ pc'[p] \in {"denied", After(p)}
    BY <2>1, <2>2, <2>3, CheckMoves
  <2>5. LoadRead(p)'
    BY <1>1, <2>2, <2>3, <2>4 DEF LoadRead, outside, StillTagged, RulesetHolds, Sound, Populated, Outlasts
  <2> QED BY <1>2, <2>3, <2>4, <2>5
<1> QED BY <1>3, <1>4, <1>5, <1>6, <1>7, <1>8, <1>9 DEF Reads

-----------------------------------------------------------------------------
(* What the loads are for.                                                 *)
LEMMA BeginsKeep ==
    ASSUME ActInv, NEW p \in Process, BeginLauncher(p) \/ \E k \in Key : BeginContext(p, k)
    PROVE  ActInv'
<1>1. Built(p) /\ LoadRead(p) /\ ActivationTypeOK
  BY DEF ActInv
<1>2. /\ pc[p] = "begin" /\ pc' = [pc EXCEPT ![p] = "main1"]
      /\ \E f \in {"identity", "context"} : purpose' = [purpose EXCEPT ![p] = f]
      /\ UNCHANGED <<outside, before, read, anchor, ledger, adapter, issued>>
      /\ event' \in [Process -> Commit] /\ key' \in [Process -> Key \cup {Nil}]
      /\ \A q \in Process \ {p} : key'[q] = key[q]
  <2>1. CASE BeginLauncher(p)
    <3>1. tag.main \in Commit
      BY <1>1, <2>1, ReceiptsTyped DEF BeginLauncher, ActivationTypeOK
    <3> QED BY <1>1, <2>1, <3>1 DEF BeginLauncher, Load, GoTo, ActivationTypeOK
  <2>2. CASE \E k \in Key : BeginContext(p, k)
    BY <1>1, <2>2 DEF BeginContext, Load, GoTo, ActivationTypeOK
  <2> QED BY <2>1, <2>2
<1>3. ActivationTypeOK'
  <2>1. pc' \in [Process -> Location] /\ purpose' \in [Process -> Purpose]
    BY <1>1, <1>2, ThenDomain DEF ActivationTypeOK, Location, Purpose, Launcher
  <2>2. \A q \in Process : purpose'[q] \in Launcher => pc'[q] \notin {"evidence", "main3"}
    BY <1>1, <1>2 DEF ActivationTypeOK
  <2> QED BY <1>1, <1>2, <2>1, <2>2 DEF ActivationTypeOK, outside
<1>4. pc'[p] = "main1" /\ purpose'[p] \in {"identity", "context"} /\ Elsewhere(p)
  BY <1>1, <1>2 DEF ActivationTypeOK, Elsewhere
<1>5. Built(p)'
  BY <1>1, <1>2, <1>4 DEF Built, Bare, Sound, Populated, Outlasts
<1>6. LoadRead(p)'
  BY <1>4 DEF LoadRead, Sounded, Headed, Ruled, Holding
<1>7. IssuedInForce'
  BY <1>2 DEF ActInv, IssuedInForce
<1> QED BY <1>2, <1>3, <1>4, <1>5, <1>6, <1>7, OneMoves DEF outside

(* The launcher's two jobs go on with another load.                        *)
LEMMA LauncherKeeps ==
    ASSUME ActInv, NEW p \in Process, TakeIdentity(p) \/ TakeSecret(p)
    PROVE  ActInv'
<1>1. Built(p) /\ LoadRead(p) /\ ActivationTypeOK /\ read[p] \in Receipts
  BY DEF ActInv, LoadRead, Holding, Ruled, Headed, Sounded, TakeIdentity, TakeSecret, Loaded,
     ActivationTypeOK
<1>2. /\ pc[p] = "loaded" /\ purpose[p] \in Launcher /\ pc' = [pc EXCEPT ![p] = "main1"]
      /\ \E f \in {"secret", "context"} : purpose' = [purpose EXCEPT ![p] = f]
      /\ UNCHANGED <<outside, before, read, event, anchor, ledger, adapter, issued>>
      /\ key' \in [Process -> Key \cup {Nil}] /\ \A q \in Process \ {p} : key'[q] = key[q]
  <2>1. CASE TakeIdentity(p)
    BY <1>1, <2>1, ReceiptsTyped DEF TakeIdentity, Loaded, Launcher, Load, GoTo, ActivationTypeOK
  <2>2. CASE TakeSecret(p)
    BY <1>1, <2>2 DEF TakeSecret, Loaded, Launcher, Load, GoTo, ActivationTypeOK, built
  <2> QED BY <2>1, <2>2
<1>3. ActivationTypeOK'
  <2>1. pc' \in [Process -> Location] /\ purpose' \in [Process -> Purpose]
    BY <1>1, <1>2, ThenDomain DEF ActivationTypeOK, Location, Purpose, Launcher
  <2>2. \A q \in Process : purpose'[q] \in Launcher => pc'[q] \notin {"evidence", "main3"}
    BY <1>1, <1>2 DEF ActivationTypeOK
  <2> QED BY <1>1, <1>2, <2>1, <2>2 DEF ActivationTypeOK, outside
<1>4. pc'[p] = "main1" /\ purpose'[p] \in {"secret", "context"} /\ Elsewhere(p)
  BY <1>1, <1>2 DEF ActivationTypeOK, Elsewhere
<1>5. Built(p)'
  BY <1>1, <1>2, <1>4 DEF Built, Bare, Sound, Populated, Outlasts
<1>6. LoadRead(p)'
  BY <1>4 DEF LoadRead, Sounded, Headed, Ruled, Holding
<1>7. IssuedInForce'
  BY <1>2 DEF ActInv, IssuedInForce
<1> QED BY <1>2, <1>3, <1>4, <1>5, <1>6, <1>7, OneMoves DEF outside

LEMMA TakesKeep ==
    ASSUME ActInv, NEW p \in Process, TakeContext(p) \/ TakeLedger(p) \/ TakeAdapter(p)
    PROVE  ActInv'
<1>1. Built(p) /\ LoadRead(p) /\ ActivationTypeOK
  BY DEF ActInv
<1>2. /\ pc[p] = "loaded" /\ pc' = [pc EXCEPT ![p] = "ready"]
      /\ UNCHANGED <<outside, purpose, before, read, event, key, issued>>
  BY DEF TakeContext, TakeLedger, TakeAdapter, Loaded, GoTo
<1>3. read[p] \in Receipts /\ read[p] # Nil /\ StillTagged(read[p]) /\ Sound(read[p])
  BY <1>1, <1>2 DEF LoadRead, Holding, Ruled, Headed, Sounded, ActivationTypeOK
<1>4. pc'[p] = "ready" /\ pc' \in [Process -> Location]
      /\ \A q \in Process : purpose'[q] \in Launcher => pc'[q] \notin {"evidence", "main3"}
  BY <1>1, <1>2 DEF ActivationTypeOK, Location
<1>5. LoadRead(p)'
  BY <1>4 DEF LoadRead, Sounded, Headed, Ruled, Holding
<1>6. IssuedInForce'
  BY <1>2 DEF ActInv, IssuedInForce
<1>7. ~Bare(p)'
  <2>1. purpose[p] \notin Launcher
    BY DEF TakeContext, TakeLedger, TakeAdapter, Loaded, Launcher
  <2> QED BY <1>2, <1>4, <2>1 DEF Bare, Loading, Holding, Ruled, Headed, Sounded
<1>8. pc'[p] \notin Loading /\ pc'[p] # "begin"
  BY <1>4 DEF Loading, Holding, Ruled, Headed, Sounded
<1>9. \A r : (StillTagged(r)' <=> StillTagged(r)) /\ (Sound(r)' <=> Sound(r))
  BY <1>2 DEF StillTagged, RulesetHolds, Sound, Populated, Outlasts, outside
<1>10. CASE TakeContext(p)
  <2>1. anchor' = [anchor EXCEPT ![p] = read[p]] /\ UNCHANGED <<ledger, adapter>>
        /\ purpose[p] = "context"
    BY <1>10 DEF TakeContext, Loaded
  <2>2. anchor'[p] = read[p] /\ ledger[p] = Nil /\ adapter[p].of = Nil
    BY <1>1, <1>2, <2>1 DEF ActivationTypeOK, Built, Bare, Loading, Holding, Ruled, Headed, Sounded
  <2>3. ActivationTypeOK'
    BY <1>1, <1>2, <1>3, <1>4, <2>1 DEF ActivationTypeOK, outside
  <2>4. Elsewhere(p)
    BY <1>1, <1>2, <2>1 DEF ActivationTypeOK, Elsewhere
  <2>5. Built(p)'
    BY <1>3, <1>7, <1>8, <1>9, <2>1, <2>2 DEF Built
  <2> QED BY <1>2, <1>5, <1>6, <2>3, <2>4, <2>5, OneMoves DEF outside
<1>11. CASE TakeLedger(p)
  <2>1. ledger' = [ledger EXCEPT ![p] = read[p]] /\ UNCHANGED <<anchor, adapter>>
        /\ read[p] = anchor[p] /\ key[p] = read[p].key
    BY <1>11 DEF TakeLedger, SameAnchor
  <2>2. ledger'[p] = read[p]
    BY <1>1, <2>1 DEF ActivationTypeOK
  <2>3. ActivationTypeOK'
    BY <1>1, <1>2, <1>3, <1>4, <2>1 DEF ActivationTypeOK, outside
  <2>4. Elsewhere(p)
    BY <1>1, <1>2, <2>1 DEF ActivationTypeOK, Elsewhere
  <2>5. Built(p)'
    BY <1>1, <1>2, <1>3, <1>7, <1>8, <1>9, <2>1, <2>2 DEF Built
  <2> QED BY <1>2, <1>5, <1>6, <2>3, <2>4, <2>5, OneMoves DEF outside
<1>12. CASE TakeAdapter(p)
  <2>1. adapter' = [adapter EXCEPT ![p].of = read[p]] /\ UNCHANGED <<anchor, ledger>>
        /\ read[p] = anchor[p]
    BY <1>12 DEF TakeAdapter, SameAnchor
  <2>2. adapter'[p].of = read[p] /\ \A q \in Process \ {p} : adapter'[q] = adapter[q]
    BY <1>1, <2>1 DEF ActivationTypeOK
  <2>3. ActivationTypeOK'
    <3>1. adapter' \in [Process -> [of : Receipts \cup {Nil}, class : {"v1", "v2"}]]
      BY <1>1, <1>3, <2>1 DEF ActivationTypeOK
    <3> QED BY <1>1, <1>2, <1>4, <2>1, <3>1 DEF ActivationTypeOK, outside
  <2>4. Elsewhere(p)
    BY <1>1, <1>2, <2>1, <2>2 DEF ActivationTypeOK, Elsewhere
  <2>5. Built(p)'
    BY <1>1, <1>2, <1>3, <1>7, <1>8, <1>9, <2>1, <2>2 DEF Built
  <2> QED BY <1>2, <1>5, <1>6, <2>3, <2>4, <2>5, OneMoves DEF outside
<1> QED BY <1>10, <1>11, <1>12

LEMMA BuildKeeps == ASSUME ActInv, NEW p \in Process, Build(p) PROVE ActInv'
<1>1. Built(p) /\ LoadRead(p) /\ ActivationTypeOK
  BY DEF ActInv
<1>2. /\ pc[p] = "ready" /\ pc' = [pc EXCEPT ![p] = "main1"]
      /\ \/ ledger[p] = Nil /\ purpose' = [purpose EXCEPT ![p] = "ledger"]
         \/ adapter[p].of = Nil /\ purpose' = [purpose EXCEPT ![p] = "adapter"]
      /\ UNCHANGED <<outside, before, read, event, key, anchor, ledger, issued>>
      /\ adapter' = adapter \/ \E c \in Adapter : adapter' = [adapter EXCEPT ![p].class = c]
  BY DEF Build, Load, GoTo
<1>3. /\ adapter' \in [Process -> [of : Receipts \cup {Nil}, class : {"v1", "v2"}]]
      /\ adapter'[p].of = adapter[p].of /\ \A q \in Process \ {p} : adapter'[q] = adapter[q]
  BY <1>1, <1>2 DEF ActivationTypeOK, ActivationAssumption
<1>4. pc'[p] = "main1" /\ purpose'[p] \in {"ledger", "adapter"}
      /\ (purpose'[p] = "ledger" => ledger[p] = Nil) /\ (purpose'[p] = "adapter" => adapter[p].of = Nil)
  BY <1>1, <1>2 DEF ActivationTypeOK
<1>5. ActivationTypeOK'
  <2>1. pc' \in [Process -> Location] /\ purpose' \in [Process -> Purpose]
    BY <1>1, <1>2, ThenDomain DEF ActivationTypeOK, Location, Purpose
  <2>2. \A q \in Process : purpose'[q] \in Launcher => pc'[q] \notin {"evidence", "main3"}
    BY <1>1, <1>2 DEF ActivationTypeOK
  <2> QED BY <1>1, <1>2, <1>3, <2>1, <2>2 DEF ActivationTypeOK, outside
<1>6. Elsewhere(p)
  BY <1>1, <1>2, <1>3 DEF ActivationTypeOK, Elsewhere
<1>7. Built(p)'
  <2>1. ~Bare(p)' /\ pc'[p] # "begin"
    BY <1>4 DEF Bare, Launcher
  <2> QED BY <1>1, <1>2, <1>3, <1>4, <2>1 DEF Built, StillTagged, RulesetHolds, Sound, Populated,
          Outlasts, outside
<1>8. LoadRead(p)'
  BY <1>4 DEF LoadRead, Sounded, Headed, Ruled, Holding
<1>9. IssuedInForce'
  BY <1>2 DEF ActInv, IssuedInForce
<1> QED BY <1>2, <1>5, <1>6, <1>7, <1>8, <1>9, OneMoves DEF outside

(* A process at work, or over: no load is under way.                       *)
LEMMA WorkKeeps ==
    ASSUME ActInv, NEW p \in Process,
           Deny(p) \/ Write(p) \/ IssueMain(p) \/ IssueManifest(p) \/ \E e \in Envelope : IssueAgain(p, e)
    PROVE  ActInv'
<1> DEFINE Ends == {"denied", "ended", "ready", "issue_manifest", "issue_again"}
<1>1. Built(p) /\ LoadRead(p) /\ ActivationTypeOK /\ branch.of = tag /\ IssuedInForce
  BY DEF ActInv
<1>2. /\ UNCHANGED <<main, now, ruleset, tag, purpose, before, read, event, key, anchor, ledger, adapter>>
      /\ \E l \in Ends : pc' = [pc EXCEPT ![p] = l]
  <2>1. CASE Write(p)
    <3>1. pc' = [pc EXCEPT ![p] = "ready"]
      BY <1>1, <2>1 DEF Write, ActivationTypeOK
    <3> QED BY <2>1, <3>1 DEF Write, built
  <2>2. CASE Deny(p) \/ IssueMain(p) \/ IssueManifest(p) \/ \E e \in Envelope : IssueAgain(p, e)
    BY <2>2 DEF Deny, IssueMain, IssueManifest, IssueAgain, GoTo, outside, built
  <2> QED BY <2>1, <2>2
<1>3. branch' \in [of : Receipts \cup {Nil}, head : 0..MaxHead] /\ branch'.of = branch.of
  <2>1. CASE Write(p)
    <3>1. branch.head \in 0..MaxHead /\ branch.head + 1 \in 0..MaxHead
      BY <1>1, <2>1, ActivationAssumption DEF Write, ActivationTypeOK, ActivationAssumption
    <3>2. branch' = [branch EXCEPT !.head = branch.head + 1]
      BY <2>1 DEF Write
    <3> QED BY <1>1, <3>1, <3>2 DEF ActivationTypeOK
  <2>2. CASE ~Write(p)
    BY <1>1, <2>2 DEF Deny, IssueMain, IssueManifest, IssueAgain, outside, ActivationTypeOK
  <2> QED BY <2>1, <2>2
<1>4. issued' \subseteq Bundle /\ IssuedInForce'
  <2>1. CASE issued' = issued
    BY <1>1, <2>1 DEF ActivationTypeOK, IssuedInForce
  <2>2. ASSUME NEW e \in Envelope, IssueAgain(p, e), issued' # issued
        PROVE  issued' \subseteq Bundle /\ IssuedInForce'
    <3> DEFINE b == [by |-> p, envelope |-> e, main |-> main, mainThen |-> main, now |-> now]
    <3>1. issued' = issued \cup {b} /\ Permits(Manifest[main], e)
      BY <2>2 DEF IssueAgain, MainStill
    <3>2. b \in Bundle
      BY <1>1 DEF Bundle, ActivationTypeOK
    <3>3. b.mainThen = main /\ b.envelope = e /\ b.now = now
      OBVIOUS
    <3> HIDE DEF b
    <3> QED BY <1>1, <3>1, <3>2, <3>3 DEF ActivationTypeOK, IssuedInForce, Permits
  <2> QED BY <2>1, <2>2 DEF Deny, Write, IssueMain, IssueManifest, built
<1>5. pc'[p] \in Ends /\ pc' \in [Process -> Location] /\ \A q \in Process \ {p} : pc'[q] = pc[q]
  BY <1>1, <1>2 DEF ActivationTypeOK, Location, Issuing
<1>6. ActivationTypeOK'
  <2>1. \A q \in Process : purpose'[q] \in Launcher => pc'[q] \notin {"evidence", "main3"}
    BY <1>1, <1>2, <1>5 DEF ActivationTypeOK
  <2> QED BY <1>1, <1>2, <1>3, <1>4, <1>5, <2>1 DEF ActivationTypeOK
<1>7. Elsewhere(p)
  BY <1>2, <1>5 DEF Elsewhere
<1>8. pc'[p] \notin Loading /\ pc'[p] # "begin"
  BY <1>5 DEF Loading, Holding, Ruled, Headed, Sounded
<1>9. Built(p)'
  BY <1>1, <1>2, <1>8 DEF Built, Bare, StillTagged, RulesetHolds, Sound, Populated, Outlasts
<1>10. LoadRead(p)'
  BY <1>8 DEF LoadRead, Loading, Holding, Ruled, Headed, Sounded
<1> QED BY <1>2, <1>3, <1>4, <1>6, <1>7, <1>9, <1>10, OneMoves

-----------------------------------------------------------------------------
LEMMA InitActInv == Init => ActInv
<1> SUFFICES ASSUME Init PROVE ActInv
  OBVIOUS
<1>1. 0 \in Version /\ 0 \in Time /\ 0 \in Commit /\ 0 \in 0..MaxHead
  BY ActivationAssumption DEF ActivationAssumption, Version, Time, Commit
<1>2. ActivationTypeOK
  BY <1>1 DEF Init, ActivationTypeOK, Location, Purpose, Launcher
<1>3. IssuedInForce
  BY DEF Init, IssuedInForce
<1>4. ASSUME NEW p \in Process PROVE Built(p) /\ LoadRead(p)
  <2>1. /\ pc[p] = "begin" /\ purpose[p] = "context" /\ anchor[p] = Nil /\ ledger[p] = Nil
        /\ adapter[p].of = Nil
    BY DEF Init
  <2> QED BY <2>1 DEF Built, LoadRead, Loading, Holding, Ruled, Headed, Sounded
<1> QED BY <1>2, <1>3, <1>4 DEF Init, ActInv

LEMMA NextActInv == ActInv /\ [Next]_vars => ActInv'
<1> SUFFICES ASSUME ActInv, [Next]_vars PROVE ActInv'
  OBVIOUS
<1>1. CASE Next
  BY <1>1, OutsideKeeps, ReadsKeep, BeginsKeep, LauncherKeeps, TakesKeep, BuildKeeps, WorkKeeps
     DEF Next, Takes
<1>2. CASE UNCHANGED vars
  <2>1. ASSUME NEW p \in Process PROVE Built(p)' /\ LoadRead(p)'
    BY <1>2 DEF ActInv, Built, LoadRead, Bare, StillTagged, RulesetHolds, Sound, Populated, Outlasts,
       vars, outside, built
  <2> QED BY <1>2, <2>1 DEF ActInv, ActivationTypeOK, IssuedInForce, vars, outside, built
<1> QED BY <1>1, <1>2

(* ActivationInvariant, for all receipts, manifests, processes and edits:  *)
(* what a process holds stands on one receipt that its decisions cover,    *)
(* two that could both write do so under one activation, and bundles are   *)
(* issued by the authority in force.                                       *)
THEOREM ActivationInvariantHolds == Spec => []ActivationInvariant
<1>1. ActInv => ActivationInvariant
  <2> SUFFICES ASSUME ActInv PROVE ActivationInvariant
    OBVIOUS
  <2>1. \A p \in Process : Built(p)
    BY DEF ActInv
  <2>2. AnchorsAgree
    BY <2>1 DEF AnchorsAgree, Built
  <2>3. OneActivation
    <3> SUFFICES ASSUME NEW p \in Process, NEW q \in Process, Writable(p), Writable(q)
                 PROVE  ledger[p] = ledger[q]
      BY DEF OneActivation
    <3> QED BY <2>1 DEF Writable, Built, StillTagged
  <2>4. WindowCovered
    BY <2>1 DEF WindowCovered, Built, Sound
  <2> QED BY <2>2, <2>3, <2>4 DEF ActInv, ActivationInvariant
<1> QED BY <1>1, InitActInv, NextActInv, PTL DEF Spec
===============================================================================
