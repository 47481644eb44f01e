------------------------------- MODULE R1Ledger -------------------------------
(***************************************************************************)
(* The ledger of tools/multiverse_r1_stage1_github_runtime_cas_v1.py: a    *)
(* branch and a journal of tags in one remote repository, written by       *)
(* several invocations with git pushes and no lock.                        *)
(*                                                                         *)
(* A write creates the commit of the next ledger entry, pushes it as a     *)
(* journal tag that must not exist yet, and then moves the branch to it.   *)
(* The branch is read, the tags listed, main read again and the two pushes *)
(* made by separate git commands, each a step of its own here; main and    *)
(* the branch, read one after the other as a load begins, share a step.    *)
(*                                                                         *)
(* A commit is identified by the entries on its way from the genesis, as   *)
(* its hash does.  Of an entry only the fields that decide about journal   *)
(* and claim are kept: who has the claim, the terminal count, and the      *)
(* number of durable receipts in its R1 state.                             *)
(***************************************************************************)
EXTENDS Integers, Sequences, SequencesExt

CONSTANTS
    Writer,         \* invocations that write the ledger
    Nil,
    MaxSequence,    \* MAX_SEQUENCE (1_000_000 in the code)
    MaxReceipts     \* bound: receipts made durable

ASSUME R1LedgerAssumption ==
    /\ Nil \notin Writer
    /\ MaxSequence \in Nat
    /\ MaxReceipts \in Nat

VARIABLES
    drift,          \* the canonical main has moved on
    tags,           \* commits with a journal tag
    branch,         \* head of the runtime branch
    pc,             \* pc[w]: what w does next
    seen,           \* seen[w]: the head w reads or builds on
    new             \* new[w]: the commit w is writing

vars == <<drift, tags, branch, pc, seen, new>>

Payload == [claim    : Writer \cup {Nil},
            counted  : 0..MaxReceipts,      \* control.terminal_count
            durable  : 0..MaxReceipts]      \* receipts in r1_state

genesis == [claim |-> Nil, counted |-> 0, durable |-> 0]

Top(c) == IF c = <<>> THEN genesis ELSE Last(c)

(* Where a successful check of the journal leads, for a caller that loads, *)
(* one about to write, and one that has written.                           *)
AfterVerify == [verify_load |-> "loaded", verify_call |-> "main1", verify_done |-> "holding"]

Location == {"out", "loaded", "holding", "main1", "tag", "main2", "branch", "reload"}
            \cup DOMAIN AfterVerify

Init == /\ drift = FALSE
        /\ tags = {}
        /\ branch = <<>>
        /\ pc = [w \in Writer |-> "out"]
        /\ seen = [w \in Writer |-> <<>>]
        /\ new = [w \in Writer |-> <<>>]

GoTo(w, l) == pc' = [pc EXCEPT ![w] = l]

-----------------------------------------------------------------------------
(* Entries.                                                                *)

(* reconcile_terminal_receipts on the entry's control record.              *)
Reconciled(p) == IF p.durable > p.counted THEN p.durable ELSE p.counted

(* What the runtime proposes as the next entry.                            *)
ClaimEntryAsIs(p, w) == [p EXCEPT !.claim = w]      \* slip: not reconciled
ClaimEntry(p, w) == [p EXCEPT !.claim = w, !.counted = Reconciled(p)]
PersistEntry(p, d) == [p EXCEPT !.durable = d]
ReleaseEntryAhead(p) == [p EXCEPT !.claim = Nil, !.counted = p.durable + 1]  \* slip: counts the next
ReleaseEntry(p) == [p EXCEPT !.claim = Nil, !.counted = Reconciled(p)]

(* _verify_transition_semantics.                                           *)
ClaimAllowed(old, p, w) ==
    p.durable = old.durable /\ p.counted = old.counted /\ p.claim = w

PersistAllowed(old, p, w) ==
    p.counted = old.counted /\ p.claim = old.claim /\ old.claim = w

ReleaseAllowed(old, p, w) ==
    p.durable = old.durable /\ p.counted >= old.counted /\ old.claim = w /\ p.claim = Nil

(* The journal tag's name: sequence and terminal count.                    *)
TagName(c) == <<Len(c), Top(c).counted>>

(* The journal holds the commits on the way to c and no other.             *)
JournalMatches(c) == tags = {SubSeq(c, 1, k) : k \in 1..Len(c)}

-----------------------------------------------------------------------------
(* Reading: _load_internal.                                                *)

(* load_snapshot reads main and the branch ...                             *)
Load(w) ==
    /\ pc[w] = "out" /\ ~ drift
    /\ seen' = [seen EXCEPT ![w] = branch]
    /\ GoTo(w, "verify_load")
    /\ UNCHANGED <<drift, tags, branch, new>>

(* ... and then, as every load, the journal.                               *)
Verify(w) ==
    /\ pc[w] \in DOMAIN AfterVerify
    /\ JournalMatches(seen[w])
    /\ GoTo(w, IF pc[w] = "verify_done" /\ Top(seen[w]).claim = Nil
               THEN "out" ELSE AfterVerify[pc[w]])
    /\ UNCHANGED <<drift, tags, branch, seen, new>>

-----------------------------------------------------------------------------
(* Writing: _claim_journal_then_branch.                                    *)

(* The call finds the head its caller expects and derives the next entry.  *)
Write(w, p) ==
    /\ ~ drift /\ branch = seen[w]
    /\ Len(seen[w]) < MaxSequence
    /\ new' = [new EXCEPT ![w] = Append(seen[w], p)]
    /\ GoTo(w, "verify_call")
    /\ UNCHANGED <<drift, tags, branch, seen>>

(* claim_control lets an invocation claim what is free or expired: which   *)
(* claims have expired is left to the clock.                               *)
ClaimInvocation(w) ==
    LET p == ClaimEntry(Top(seen[w]), w)
    IN  /\ pc[w] = "loaded"
        /\ ClaimAllowed(Top(seen[w]), p, w)
        /\ Write(w, p)

(* The invocation persists until a receipt is durable, and then releases.  *)
PersistR1State(w, d) ==
    LET p == PersistEntry(Top(seen[w]), d)
    IN  /\ pc[w] = "holding"
        /\ Top(seen[w]).durable = Top(seen[w]).counted
        /\ PersistAllowed(Top(seen[w]), p, w)
        /\ Write(w, p)

ReleaseInvocation(w) ==
    LET p == ReleaseEntry(Top(seen[w]))
    IN  /\ pc[w] = "holding"
        /\ ReleaseAllowed(Top(seen[w]), p, w)
        /\ Write(w, p)

(* Main is read again before each push.                                    *)
CheckMainOnce(w) ==       \* slip: only before the first push
    /\ \/ pc[w] = "main1" /\ ~ drift /\ GoTo(w, "tag")
       \/ pc[w] = "main2" /\ GoTo(w, "branch")
    /\ UNCHANGED <<drift, tags, branch, seen, new>>
CheckMain(w) ==
    /\ ~ drift
    /\ \/ pc[w] = "main1" /\ GoTo(w, "tag")
       \/ pc[w] = "main2" /\ GoTo(w, "branch")
    /\ UNCHANGED <<drift, tags, branch, seen, new>>

(* The remote creates the tag only if no tag of that name exists.          *)
TagFree(c) == \A t \in tags : TagName(t) # TagName(c)

PushTagForced(w) ==         \* slip: overwrites the tag
    /\ pc[w] = "tag"
    /\ tags' = {t \in tags : TagName(t) # TagName(new[w])} \cup {new[w]}
    /\ GoTo(w, "main2")
    /\ UNCHANGED <<drift, branch, seen, new>>
PushTag(w) ==
    /\ pc[w] = "tag"
    /\ TagFree(new[w])
    /\ tags' = tags \cup {new[w]}
    /\ GoTo(w, "main2")
    /\ UNCHANGED <<drift, branch, seen, new>>

PushBranch(w) ==
    /\ pc[w] = "branch"
    /\ branch = seen[w]
    /\ branch' = new[w]
    /\ GoTo(w, "reload")
    /\ UNCHANGED <<drift, tags, seen, new>>

(* The head is read back; Verify then checks the journal once more.        *)
Reload(w) ==
    /\ pc[w] = "reload"
    /\ branch = new[w] /\ ~ drift
    /\ seen' = [seen EXCEPT ![w] = new[w]]
    /\ GoTo(w, "verify_done")
    /\ UNCHANGED <<drift, tags, branch, new>>

(* A check denies or the process dies, after any step: whatever it has     *)
(* pushed stays.                                                           *)
Stop(w) ==
    /\ pc[w] # "out"
    /\ GoTo(w, "out")
    /\ UNCHANGED <<drift, tags, branch, seen, new>>

(* Somebody pushes to main.                                                *)
Drift == ~ drift /\ drift' = TRUE /\ UNCHANGED <<tags, branch, pc, seen, new>>

WriterStep(w) ==
    \/ Load(w) \/ Verify(w)
    \/ ClaimInvocation(w)
    \/ \E d \in Top(seen[w]).durable .. MaxReceipts :
           d <= Top(seen[w]).durable + 1 /\ PersistR1State(w, d)
    \/ ReleaseInvocation(w)
    \/ CheckMain(w) \/ PushTag(w) \/ PushBranch(w) \/ Reload(w)
    \/ Stop(w)

Next == Drift \/ \E w \in Writer : WriterStep(w)

Spec == Init /\ [][Next]_vars

-----------------------------------------------------------------------------
(* Properties. *)

Commit == Seq(Payload)

(* Every value has its type, and no entry counts more than is durable.     *)
TypeOK ==
    /\ drift \in BOOLEAN
    /\ tags \subseteq Commit
    /\ branch \in Commit
    /\ pc \in [Writer -> Location]
    /\ seen \in [Writer -> Commit]
    /\ new \in [Writer -> Commit]
    /\ \A t \in tags : Len(t) <= MaxSequence /\ Top(t).counted <= Top(t).durable

(* At every sequence one commit is journaled at most, on top of the one    *)
(* before it: GITHUB_RUNTIME_JOURNAL_SEQUENCE_GAP, and a parent mismatch,  *)
(* are never the doing of the writers themselves.                          *)
JournalLinear ==
    /\ \A s, t \in tags : Len(s) = Len(t) => s = t
    /\ \A t \in tags : Len(t) > 1 => Front(t) \in tags

(* A journal left ahead of the branch, by a writer that ended between its  *)
(* two pushes, is never written over or continued:                         *)
(* JOURNAL_FIRST_CRASH_FAIL_CLOSED.                                        *)
Stranded ==
    \E t \in tags :
        /\ Len(t) > Len(branch)
        /\ \A w \in Writer : pc[w] \in {"main2", "branch"} => new[w] # t

FailClosed == [][Stranded => Stranded' /\ UNCHANGED <<tags, branch>>]_vars

(* Once main has moved, pushes whose check of main came before may land;   *)
(* after them the ledger is never written again.                           *)
Drifted == drift /\ \A w \in Writer : pc[w] \notin {"tag", "branch"}

DriftStops == [][Drifted => Drifted' /\ UNCHANGED <<tags, branch>>]_vars

(* The journal is the history, and the branch publishes it.                *)
Longest == CHOOSE c \in tags \cup {<<>>} : \A t \in tags : Len(t) <= Len(c)

Journal == INSTANCE R1Journal WITH Entry <- Payload, hist <- Longest, published <- Len(branch)

(* The ledger implements one history that is only ever extended.           *)
ImplementsJournal == Journal!Spec

(* The ledger's values, and one commit per sequence                        *)
(* (_claim_journal_then_branch).                                           *)
LedgerInvariant == TypeOK /\ JournalLinear

(* The ledger stops for good at a stranded journal entry, and once main    *)
(* has moved (_verify_journal_chain, _assert_main_unchanged).              *)
LedgerStops == FailClosed /\ DriftStops
=============================================================================
