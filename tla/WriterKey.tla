------------------------------- MODULE WriterKey -------------------------------
(***************************************************************************)
(* tools/multiverse_r1_stage1_writer_key_provisioner_v1.py: apply_once,    *)
(* the run that stores the ledger's one writer key as a secret of a locked *)
(* deployment environment.  It is to happen once.  Nothing locks a second  *)
(* run out but a tag, the fence, that the server creates for one caller    *)
(* only; every request may be applied and its answer lost; a run may end   *)
(* after any step; and canonical main may move under it.                   *)
(*                                                                         *)
(* One action per request of the run.  A check that fails ends it.  A key  *)
(* is named by the run that generated it (128 random bits).  The checks of *)
(* the checkout's bytes, the login, the scopes, the transport and the      *)
(* ruleset only deny and read nothing that this procedure changes: a run   *)
(* that fails one is a run that ends there.                                *)
(***************************************************************************)
EXTENDS Integers, FiniteSets

CONSTANTS
    Run,            \* runs of --apply, each in a codespace of its own
    Unset,
    MaxMoves        \* bound: times canonical main moves

Revision == 0..MaxMoves

ASSUME WriterKeyAssumption == MaxMoves \in Nat /\ Unset \notin Run /\ Unset \notin Revision

VARIABLES
    tip,            \* canonical main, by the number of commits on it
    fence,          \* commit the fence tag points to, or Unset
    env,            \* the environment: "absent", "open" or "locked"
    repoSecret,     \* a reserved name among the repository's secrets
    secrets,        \* writer keys stored in the environment
    marker,         \* runs whose session marker is in their codespace
    login,          \* runs whose codespace still has the login
    at,             \* at[r]: the request r makes next
    head,           \* head[r]: the commit r's checkout was made at
    \* history
    tried,          \* runs whose secret PUT was sent
    fencedAt        \* canonical main when the fence was created

keyVars == <<tip, fence, env, repoSecret, secrets, marker, login, at, head, tried, fencedAt>>

server == <<tip, fence, env, repoSecret, secrets, tried, fencedAt>>
local == <<marker, login>>

(* The order of apply_once: where a request that passes leads.             *)
Onward == [main0 |-> "fence0", fence0 |-> "post_fence", post_fence |-> "main1",
           main1 |-> "fence1", fence1 |-> "marker", marker |-> "probe",
           probe |-> "put_env", put_env |-> "locked", locked |-> "none_repo",
           none_repo |-> "none_env", none_env |-> "put_secret",
           put_secret |-> "one_repo", one_repo |-> "one_env", one_env |-> "main2",
           main2 |-> "fence2", fence2 |-> "stored"]

Ended == {"denied", "stored", "consumed", "clean"}

Request == {"begin"} \cup DOMAIN Onward \cup Ended

KeyInit ==
    /\ tip = 0 /\ fence = Unset
    /\ env \in {"absent", "open", "locked"} /\ repoSecret \in BOOLEAN
    /\ secrets = {} /\ marker = {} /\ login = Run
    /\ at = [r \in Run |-> "begin"] /\ head = [r \in Run |-> 0]
    /\ tried = {} /\ fencedAt = Unset

-----------------------------------------------------------------------------
Proceed(r, l) == at' = [at EXCEPT ![r] = l] /\ UNCHANGED head

Pass(r, ok) == Proceed(r, IF ok THEN Onward[at[r]] ELSE "denied")

(* A request that changes the server: refused, or applied and answered, or *)
(* applied with its answer lost.                                           *)
Outcome == {"refused", "applied", "lost"}

(* verified_execution_checkout_head: a detached checkout, fresh or not.    *)
Begin(r, c) ==
    /\ at[r] = "begin" /\ c <= tip
    /\ head' = [head EXCEPT ![r] = c]
    /\ at' = [at EXCEPT ![r] = "main0"]
    /\ UNCHANGED <<server, local>>

(* fresh_main against the checkout: before the fence, after it, at the end.*)
MainHoldsOnce(r) == at[r] = "main1" \/ tip = head[r]  \* slip: not read again behind the fence
MainHolds(r) == tip = head[r]

CheckCanonical(r) ==
    /\ at[r] \in {"main0", "main1", "main2"}
    /\ Pass(r, MainHolds(r))
    /\ UNCHANGED <<server, local>>

(* fence(): absent before it is posted, its own commit afterwards.         *)
CheckFence(r) ==
    /\ \/ at[r] = "fence0" /\ Pass(r, fence = Unset)
       \/ at[r] \in {"fence1", "fence2"} /\ Pass(r, fence = head[r])
    /\ UNCHANGED <<server, local>>

(* POST of the tag: the server answers 201 to one caller and 422 to the    *)
(* others.                                                                 *)
FenceTakenSeen == FALSE     \* slip: the earlier look is trusted, the tag is moved
FenceTaken == fence # Unset

PostFence(r, o) ==
    /\ at[r] = "post_fence"
    /\ o # "refused" => ~ FenceTaken
    /\ IF o = "refused" THEN UNCHANGED <<fence, fencedAt>>
                        ELSE fence' = head[r] /\ fencedAt' = tip
    /\ Pass(r, o = "applied")
    /\ UNCHANGED <<tip, env, repoSecret, secrets, tried, local>>

(* _create_session_marker, O_EXCL under a random name.                     *)
CreateMarker(r) ==
    /\ at[r] = "marker"
    /\ marker' = marker \cup {r}
    /\ Pass(r, TRUE)
    /\ UNCHANGED <<server, login>>

(* probe_environment must answer 404 ...                                   *)
EnvironmentFreeOrLocked == env # "open"     \* slip: a locked one is taken over
EnvironmentFree == env = "absent"

ProbeEnvironment(r) ==
    /\ at[r] = "probe"
    /\ Pass(r, EnvironmentFree)
    /\ UNCHANGED <<server, local>>

(* ... and the PUT creates it with no reviewers, no bypass, and only       *)
(* selected branches, of which there are none.                             *)
PutEnvironment(r, o) ==
    /\ at[r] = "put_env"
    /\ env' = IF o = "refused" THEN env ELSE "locked"
    /\ Pass(r, o = "applied")
    /\ UNCHANGED <<tip, fence, repoSecret, secrets, tried, fencedAt, local>>

(* _assert_locked_environment.                                             *)
AssertLocked(r) ==
    /\ at[r] = "locked"
    /\ Pass(r, env = "locked")
    /\ UNCHANGED <<server, local>>

(* _assert_zero_reserved_inventory and _assert_exact_single_...: the       *)
(* repository's secrets are listed first, the environment's second.        *)
NoneInRepositoryOff == TRUE     \* slip: only the environment is listed
NoneInRepository == ~ repoSecret

ListSecrets(r) ==
    /\ \/ at[r] \in {"none_repo", "one_repo"} /\ Pass(r, NoneInRepository)
       \/ at[r] = "none_env" /\ Pass(r, secrets = {})
       \/ at[r] = "one_env" /\ Pass(r, secrets = {r})
    /\ UNCHANGED <<server, local>>

(* The sole PUT of the secret.                                             *)
PutSecret(r, o) ==
    /\ at[r] = "put_secret"
    /\ tried' = tried \cup {r}
    /\ secrets' = IF o = "refused" THEN secrets ELSE secrets \cup {r}
    /\ Pass(r, o = "applied")
    /\ UNCHANGED <<tip, fence, env, repoSecret, fencedAt, local>>

(* cleanup_local_credentials: _consume_session_marker removes the marker   *)
(* and only then are the logout made and the login's files removed.        *)
ConsumeMarkerNot(r) ==      \* slip: the marker is read and left
    at[r] = "stored" /\ r \in marker /\ Proceed(r, "consumed") /\ UNCHANGED <<server, local>>

ConsumeMarker(r) ==
    /\ at[r] = "stored" /\ r \in marker
    /\ marker' = marker \ {r}
    /\ Proceed(r, "consumed")
    /\ UNCHANGED <<server, login>>

RemoveLogin(r) ==
    /\ at[r] = "consumed"
    /\ login' = login \ {r}
    /\ Proceed(r, "clean")
    /\ UNCHANGED <<server, marker>>

(* A run ends without an answer, or one of the checks left out denies it.  *)
End(r) ==
    /\ at[r] \notin {"denied", "stored", "clean"}
    /\ Proceed(r, "denied")
    /\ UNCHANGED <<server, local>>

CanonicalMoves ==
    /\ tip < MaxMoves
    /\ tip' = tip + 1
    /\ UNCHANGED <<fence, env, repoSecret, secrets, tried, fencedAt, local, at, head>>

KeyNext ==
    \/ \E r \in Run :
        \/ \E c \in Revision : Begin(r, c)
        \/ CheckCanonical(r) \/ CheckFence(r) \/ CreateMarker(r) \/ ProbeEnvironment(r)
        \/ AssertLocked(r) \/ ListSecrets(r)
        \/ \E o \in Outcome : PostFence(r, o) \/ PutEnvironment(r, o) \/ PutSecret(r, o)
        \/ ConsumeMarker(r) \/ RemoveLogin(r) \/ End(r)
    \/ CanonicalMoves

KeySpec == KeyInit /\ [][KeyNext]_keyVars

-----------------------------------------------------------------------------
(* Properties.                                                             *)

(* The state has its type: a fence is a commit, a key in the environment   *)
(* is one whose PUT was sent, and a cleaned codespace has neither marker   *)
(* nor login.                                                              *)
WriterTypeOK ==
    /\ tip \in Revision /\ fence \in Revision \cup {Unset} /\ fencedAt \in Revision \cup {Unset}
    /\ env \in {"absent", "open", "locked"} /\ repoSecret \in BOOLEAN
    /\ secrets \subseteq tried /\ tried \subseteq Run
    /\ marker \subseteq Run /\ login \subseteq Run
    /\ at \in [Run -> Request] /\ head \in [Run -> Revision]
    /\ \A r \in Run : at[r] = "clean" => r \notin marker \cup login

(* However many runs are started, together or one after a failed other,    *)
(* and whatever answers are lost, one secret PUT is sent at most           *)
(* ("secret_put_attempt_ceiling": 1).                                      *)
OnePut == Cardinality(tried) <= 1

(* The key that is stored was stored for the commit that was canonical     *)
(* main when the fence was created: a main that moved between the look at  *)
(* main and the fence cannot rebind the run ("A main change after any      *)
(* external preflight therefore cannot silently rebind authority here").   *)
FencedOnMain == \A r \in tried : fence = head[r] /\ fencedAt = head[r]

(* A run that reports PHASE_C_WRITER_KEY_STORED reports the truth: its key *)
(* is the only one under a reserved name anywhere, in a locked environment *)
(* behind a fence at its own checkout, and nothing changes that later.     *)
StoredAlone ==
    \A r \in Run : at[r] \in {"stored", "consumed", "clean"} =>
        secrets = {r} /\ ~ repoSecret /\ env = "locked" /\ fence = head[r]

(* The provisioner (writer_key_provisioner_v1.py, apply_once): however     *)
(* many runs, whatever answers are lost, one secret is PUT at most, for    *)
(* the commit the fence is at, and who reports it stored reports the truth.*)
KeyInvariant == WriterTypeOK /\ OnePut /\ FencedOnMain /\ StoredAlone

(* An environment is only ever created, never configured over one that    *)
(* exists, though two runs may both have seen it absent.                   *)
NoTakeover ==
    [][\A r \in Run : at[r] = "put_env" /\ at'[r] = "locked" => env = "absent"]_keyVars
=============================================================================
