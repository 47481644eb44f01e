--------------------------- MODULE ReviewDispatcher ---------------------------
(***************************************************************************)
(* The fixed review dispatcher (automation/review_dispatcher_v1): builds   *)
(* of the Lab's and the Auditor's pipeline on one head, whose only shared  *)
(* state is the comments of the pull request.                              *)
(*                                                                         *)
(* A comment's id is its place in the log.  Reading all comments gives the *)
(* log up to some moment, as late as the read may lag: the same-build      *)
(* cache of 5 seconds, or a listing that does not show the last posts yet. *)
(* Requests are those of one exact envelope (repo, pr, head, tree, base,   *)
(* main); a check of it that fails raises, like any other failure of a     *)
(* read: Fail.  A request's SHA256 is its id; what a request asks to be    *)
(* checked and what the reviews look at is left out, a verdict is any.     *)
(***************************************************************************)
EXTENDS Naturals, Sequences, FiniteSets, FiniteSetsExt

CONSTANTS
    LabBuild, AuditorBuild,         \* builds of the two pipelines
    MaxLabRequest, MaxAuditorRequest,   \* bounds: requests of each lane
    MaxLog,                         \* bound: comments
    MaxReads,                       \* POST_WRITE_VISIBILITY_MAX_READS
    Lag,                            \* by how many comments a read may be late
    MaxFault                        \* bound: steps that raise for another reason

ReviewDispatcherAssumption ==
    /\ MaxLabRequest \in Nat /\ MaxAuditorRequest \in Nat
    /\ MaxLog \in Nat /\ MaxFault \in Nat
    /\ MaxReads \in Nat \ {0}
    /\ Lag \subseteq Nat /\ 0 \in Lag

VARIABLES
    log,            \* the comments of the pull request
    build,          \* build[b]: the step b is in, and its artifacts
    receipts,       \* the receipts uploaded
    faults

vars == <<log, build, receipts, faults>>

Build == LabBuild \cup AuditorBuild
Lane == {"LAB", "AUDITOR"}
LaneOf(b) == IF b \in LabBuild THEN "LAB" ELSE "AUDITOR"

(* ref: the request superseded (or 0), answered or concluded; pass: the    *)
(* result a T1, an Auditor request or a T2 rests on; by: whose artifact.   *)
Comment == [kind : {"request", "result", "t1", "t2"}, lane : Lane, ref : 0..MaxLog,
            pass : 0..MaxLog, valid : BOOLEAN, by : Build \cup {"owner"}]

New(kind, lane, ref, pass, by) ==
    [kind |-> kind, lane |-> lane, ref |-> ref, pass |-> pass, valid |-> TRUE, by |-> by]

Fresh == [pc |-> "new", job |-> 0, own |-> 0, result |-> 0, reads |-> 0]

Init == /\ log = <<>>
        /\ build = [b \in Build |-> Fresh]
        /\ receipts = {}
        /\ faults = 0

-----------------------------------------------------------------------------
(* What is read: s is what somebody sees of the log. *)

UpTo(n) == SubSeq(log, 1, n)
Views == {UpTo(n) : n \in {m \in 0..Len(log) : Len(log) - m \in Lag}}

All(s, kind, lane) == {i \in DOMAIN s : s[i].kind = kind /\ s[i].lane = lane}
Requests(s, lane) == All(s, "request", lane)
Generation(s, lane, p) == {i \in Requests(s, lane) : s[i].ref = p}

(* Slip: the last of several requests is the one that counts.              *)
ChosenLast(S) == Max(S)
Chosen(S) == Min(S)

(* A request wins if it derives from none, or from a winner, and is the    *)
(* one that is chosen of those that do.                                    *)
Winners(s, lane) ==                                 \* exact_current_owner_requests_v6
    LET wins[i \in 0..Len(s)] == \/ i = 0
                                 \/ /\ i \in Requests(s, lane)
                                    /\ wins[s[i].ref]
                                    /\ i = Chosen(Generation(s, lane, s[i].ref))
    IN {i \in DOMAIN s : wins[i]}

(* Nothing derives from a loser, and what is malformed has exactly one     *)
(* successor, a valid one.                                                 *)
Sound(s, lane, won) == \A i \in Requests(s, lane) :
    /\ s[i].ref \in {0} \cup won
    /\ ~s[i].valid => \E j \in DOMAIN s : Generation(s, lane, i) = {j} /\ s[j].valid

Latest(s, lane) ==                                  \* latest_exact_current_owner_request
    LET won      == Winners(s, lane)
        accepted == {i \in won : s[i].valid}
    IN IF Sound(s, lane, won) /\ accepted # {} THEN Max(accepted) ELSE 0

Results(s, q) == {i \in DOMAIN s : s[i].kind = "result" /\ s[i].ref = q}
T2s(s, q, r) == {i \in DOMAIN s : s[i].kind = "t2" /\ s[i].ref = q /\ s[i].pass = r}

(* Slip: the build's own post is canonical.                                *)
CanonicalOwn(S, own) == own
Canonical(S, own) == Min(S)                         \* canonical_trusted_comment_id

-----------------------------------------------------------------------------
(* The owner. *)

Post(c) == Len(log) < MaxLog /\ log' = Append(log, c)

(* Chats that may not have seen each other's requests.                     *)
Request(lane, pass, most) ==
    /\ Cardinality(Requests(log, lane)) < most
    /\ \E p \in {0} \cup Requests(log, lane), v \in BOOLEAN :
         Post([New("request", lane, p, pass, "owner") EXCEPT !.valid = v])
    /\ UNCHANGED <<build, receipts, faults>>

RequestLab == Request("LAB", 0, MaxLabRequest)

(* An Auditor request names a T1, and by it a Lab result and its request.  *)
RequestAuditor == \E t \in All(log, "t1", "LAB") :
                      Request("AUDITOR", t, MaxAuditorRequest)

PostT1 ==
    /\ All(log, "t1", "LAB") = {}
    /\ \E r \in All(log, "result", "LAB") :
         Post(New("t1", "LAB", log[r].ref, r, "owner"))
    /\ UNCHANGED <<build, receipts, faults>>

UpT1(q) == log[q].pass
UpPass(q) == log[UpT1(q)].pass
UpLab(q) == log[UpT1(q)].ref

-----------------------------------------------------------------------------
(* The audit step: dispatcher.py and review.py. *)

At(b, pc) == build[b].pc = pc
To(b, pc) == build' = [build EXCEPT ![b].pc = pc]
Quiet == UNCHANGED <<log, receipts, faults>>

Discover(b) ==                                      \* discover_request
    /\ At(b, "new")
    /\ \E s \in Views :
         LET q == Latest(s, LaneOf(b))
         IN /\ q # 0 /\ Results(s, q) = {}
            /\ build' = [build EXCEPT ![b] = [@ EXCEPT !.pc = "review", !.job = q]]
    /\ Quiet

(* Slip: the Lab result the Auditor was pointed at is taken as it is.      *)
UpstreamAsNamed(s, q) == UpPass(q) <= Len(s)
Upstream(s, q) == /\ UpT1(q) <= Len(s)              \* _check_auditor_upstream
                  /\ Latest(s, "LAB") = UpLab(q)
                  /\ Results(s, UpLab(q)) = {UpPass(q)}

Review(b) ==                                        \* run_review
    /\ At(b, "review")
    /\ \/ /\ LaneOf(b) = "AUDITOR" => \E s \in Views : Upstream(s, build[b].job)
          /\ To(b, "publish")
       \/ To(b, "rejected")                         \* FIX_REQUIRED
    /\ Quiet

-----------------------------------------------------------------------------
(* The publisher step. *)

(* Slip: the request is taken to be what it was when the build began.      *)
CurrentOnce(b, s) == TRUE
Current(b, s) == Latest(s, LaneOf(b)) = build[b].job    \* assert_job_request_still_canonical

Receipt(b, kind, c) == receipts' = receipts \cup
                           {[kind |-> kind, job |-> build[b].job, comment |-> c, by |-> b]}

Published(b, c) ==
    /\ Receipt(b, "result", c)
    /\ build' = [build EXCEPT ![b] = [@ EXCEPT !.pc = IF LaneOf(b) = "LAB" THEN "done" ELSE "t2",
                                              !.result = c, !.own = 0, !.reads = 0]]

(* Slip: a result that exists already is an error, also one's own.         *)
RecoverNever(b, s) == FALSE /\ UNCHANGED <<build, receipts>>

(* The artifact carries its build: only a build's own result is recovered. *)
Recover(b, s) ==                                    \* recover_publish_receipt
    LET c == Min(Results(s, build[b].job))
    IN s[c].by = b /\ Published(b, c)

Publish(b) ==                                       \* publish
    /\ At(b, "publish")
    /\ \E s \in Views :
         /\ Current(b, s)
         /\ IF Results(s, build[b].job) # {} THEN Recover(b, s)
                                             ELSE To(b, "check") /\ UNCHANGED receipts
    /\ UNCHANGED <<log, faults>>

PublishCheck(b) ==                                  \* the legacy publish, before it posts
    /\ At(b, "check")
    /\ \E s \in Views : /\ Current(b, s)
                        /\ To(b, IF Results(s, build[b].job) = {} THEN "post" ELSE "race")
    /\ Quiet

PublishRace(b) ==
    /\ At(b, "race")
    /\ \E s \in Views : Current(b, s) /\ Results(s, build[b].job) # {} /\ Recover(b, s)
    /\ UNCHANGED <<log, faults>>

(* The answer of the POST may be lost.                                     *)
PublishPost(b) ==
    /\ At(b, "post")
    /\ Post(New("result", LaneOf(b), build[b].job, 0, b))
    /\ build' = [build EXCEPT ![b] = [@ EXCEPT !.pc = "await", !.own = Len(log) + 1]]
    /\ UNCHANGED <<receipts, faults>>

(* Slip: off by one, a read too many.                                      *)
ReadAgainLate(b) == /\ build[b].reads + 1 <= MaxReads
                    /\ build' = [build EXCEPT ![b].reads = @ + 1]
                    /\ UNCHANGED receipts

(* A read that does not show any result yet is repeated.                   *)
ReadAgain(b) == /\ build[b].reads + 1 < MaxReads
                /\ build' = [build EXCEPT ![b].reads = @ + 1]
                /\ UNCHANGED receipts

PublishAwait(b) ==                                  \* _await_published_result_canonical
    /\ At(b, "await")
    /\ \E s \in Views :
         LET S == Results(s, build[b].job)
         IN /\ Current(b, s)
            /\ \/ S = {} /\ ReadAgain(b)
               \/ S # {} /\ Canonical(S, build[b].own) = build[b].own
                         /\ Published(b, build[b].own)
    /\ UNCHANGED <<log, faults>>

-----------------------------------------------------------------------------
(* The T2 step. *)

(* Slip: one Lab result is as good as another.                             *)
LabBindingAny(b, s) == UpPass(build[b].job) \in Results(s, UpLab(build[b].job))
LabBinding(b, s) ==                                 \* _lab_binding
    LET q == build[b].job
        S == Results(s, UpLab(q))
    IN Latest(s, "LAB") = UpLab(q) /\ S # {} /\ Min(S) = UpPass(q)

T2Of(b, s) == T2s(s, build[b].job, build[b].result)

Concluded(b, c) ==
    /\ Receipt(b, "t2", c)
    /\ build' = [build EXCEPT ![b] = [@ EXCEPT !.pc = "done", !.own = 0, !.reads = 0]]

PublishT2(b) ==                                     \* publish_t2
    /\ At(b, "t2")
    /\ \E s \in Views :
         /\ LabBinding(b, s)
         /\ IF T2Of(b, s) # {} THEN Concluded(b, Min(T2Of(b, s)))
                               ELSE To(b, "t2check") /\ UNCHANGED receipts
    /\ UNCHANGED <<log, faults>>

T2Check(b) ==                                       \* the legacy publish_t2
    /\ At(b, "t2check")
    /\ \E s \in Views : /\ LabBinding(b, s)
                        /\ To(b, IF T2Of(b, s) = {} THEN "t2post" ELSE "t2race")
    /\ Quiet

T2Race(b) ==
    /\ At(b, "t2race")
    /\ \E s \in Views : T2Of(b, s) # {} /\ Concluded(b, Min(T2Of(b, s)))
    /\ UNCHANGED <<log, faults>>

T2Post(b) ==
    /\ At(b, "t2post")
    /\ Post(New("t2", "AUDITOR", build[b].job, build[b].result, b))
    /\ build' = [build EXCEPT ![b] = [@ EXCEPT !.pc = "t2await", !.own = Len(log) + 1]]
    /\ UNCHANGED <<receipts, faults>>

T2Await(b) ==                                       \* _await_published_t2_canonical
    /\ At(b, "t2await")
    /\ \E s \in Views :
         LET S == T2Of(b, s)
         IN /\ Current(b, s) /\ LabBinding(b, s)
            /\ \/ S = {} /\ ReadAgain(b)
               \/ S # {} /\ Canonical(S, build[b].own) = build[b].own
                         /\ Concluded(b, build[b].own)
    /\ UNCHANGED <<log, faults>>

-----------------------------------------------------------------------------
(* A step that raises or dies is run again from its beginning, with the    *)
(* artifacts of the steps before it.                                       *)

Beginning(pc) == CASE pc \in {"new", "review"}                      -> "new"
                   [] pc \in {"publish", "check", "race", "post", "await"} -> "publish"
                   [] OTHER                                         -> "t2"

Restarted(b) ==
    build' = [build EXCEPT ![b] = [@ EXCEPT !.pc = Beginning(build[b].pc), !.own = 0, !.reads = 0]]

(* What a read must show for the run of a step not to raise.               *)
Accepts(b, s) ==
    CASE At(b, "check")   -> Current(b, s)
      [] At(b, "race")    -> /\ Current(b, s) /\ Results(s, build[b].job) # {}
                             /\ s[Min(Results(s, build[b].job))].by = b
      [] At(b, "await")   -> /\ Current(b, s)
                             /\ \/ Results(s, build[b].job) = {} /\ build[b].reads + 1 < MaxReads
                                \/ Results(s, build[b].job) # {} /\ build[b].own = Min(Results(s, build[b].job))
      [] At(b, "t2check") -> LabBinding(b, s)
      [] At(b, "t2race")  -> T2Of(b, s) # {}
      [] At(b, "t2await") -> /\ Current(b, s) /\ LabBinding(b, s)
                             /\ \/ T2Of(b, s) = {} /\ build[b].reads + 1 < MaxReads
                                \/ T2Of(b, s) # {} /\ build[b].own = Min(T2Of(b, s))
      [] OTHER            -> TRUE

Refuses(b) ==
    /\ \E s \in Views : ~Accepts(b, s)
    /\ Restarted(b)
    /\ Quiet

Fail(b) ==
    /\ faults < MaxFault
    /\ faults' = faults + 1
    /\ build[b].pc \notin {"done", "rejected"}
    /\ Restarted(b)
    /\ UNCHANGED <<log, receipts>>

Publisher(b) == \/ Publish(b) \/ PublishCheck(b) \/ PublishRace(b)
                \/ PublishPost(b) \/ PublishAwait(b)
T2Step(b) == PublishT2(b) \/ T2Check(b) \/ T2Race(b) \/ T2Post(b) \/ T2Await(b)
BuildStep(b) == Discover(b) \/ Review(b) \/ Publisher(b) \/ T2Step(b) \/ Refuses(b)

Next == \/ RequestLab \/ RequestAuditor \/ PostT1
        \/ \E b \in Build : BuildStep(b) \/ Fail(b)

Spec == Init /\ [][Next]_vars

(* A step that raised is run again.                                        *)
Fairness == \A b \in Build : WF_vars(BuildStep(b))

LiveSpec == Spec /\ Fairness

-----------------------------------------------------------------------------
(* Properties. *)

(* Artifacts and receipts name comments of the right kind, and a step asks *)
(* no more often than POST_WRITE_VISIBILITY_MAX_READS.                     *)
DispatcherTypeOK ==
    /\ \A i \in 1..Len(log) : log[i] \in Comment /\ {log[i].ref, log[i].pass} \subseteq 0..(i - 1)
    /\ \A b \in Build :
         /\ build[b].reads \in 0..(MaxReads - 1)
         /\ build[b].job \in {0} \cup Requests(log, LaneOf(b))
         /\ build[b].result # 0 => build[b].result \in Results(log, build[b].job)
    /\ \A r \in receipts : r.comment \in Results(log, r.job) \cup
                                          {i \in 1..Len(log) : log[i].kind = "t2" /\ log[i].ref = r.job}
    /\ faults \in 0..MaxFault

(* However many builds answer a request or conclude a result, and however  *)
(* late each sees the posts of the others, every receipt names the one     *)
(* comment that a reader of the whole log takes to be canonical.           *)
ReceiptCanonical ==
    \A r \in receipts :
        LET c == log[r.comment]
        IN r.comment = Min(IF c.kind = "result" THEN Results(log, r.job)
                                                ELSE T2s(log, r.job, c.pass))

(* A result that has its receipt was posted while its request was the      *)
(* current one of its lane: a request that is superseded, or that turns    *)
(* ambiguous, before the post is never receipted.                          *)
ReceiptFresh ==
    \A r \in receipts : log[r.comment].kind = "result" =>
        Latest(UpTo(r.comment), LaneOf(r.by)) = r.job

(* A T2 that has its receipt concludes an Auditor result that has one, on  *)
(* a Lab request that was current when the T2 was posted, by the T1 that   *)
(* names the canonical result of that request.                             *)
T2Bound ==
    \A r \in receipts : log[r.comment].kind = "t2" =>
        /\ \E s \in receipts : s.job = r.job /\ s.comment = log[r.comment].pass
        /\ Latest(UpTo(r.comment), "LAB") = UpLab(r.job)
        /\ UpPass(r.job) = Min(Results(log, UpLab(r.job)))

(* Receipts (publish, publish_t2, recover_publish_receipt): each names the *)
(* one canonical comment, of a request that was current when it was        *)
(* posted, and a T2 concludes what its T1 named.                           *)
ReceiptInvariant == DispatcherTypeOK /\ ReceiptCanonical /\ ReceiptFresh /\ T2Bound

(* What won its generation (exact_current_owner_requests_v6) is never      *)
(* displaced by a later comment: no chat that acted on a winner can find   *)
(* itself a loser.                                                         *)
WinnersStable ==
    [][log' # log => \A l \in Lane : Winners(log, l) \subseteq Winners(log, l)']_log

(* What a build set out to publish gets its receipt, though a step of its  *)
(* own or of a rival dies between the post and the receipt, unless the     *)
(* request is superseded.                                                  *)
Answered ==
    \A b \in LabBuild :
        At(b, "publish") ~> \/ \E r \in receipts : r.job = build[b].job
                           \/ Latest(log, "LAB") # build[b].job
=============================================================================
