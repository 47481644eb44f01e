------------------------------ MODULE Activation -------------------------------
(***************************************************************************)
(* What must hold before the Stage 1 runtime may write or be authorised:   *)
(* the immutable receipt in the activation tag and the authority manifest  *)
(* of canonical main, read by                                              *)
(*   tools/multiverse_r1_stage1_verified_activation_receipt_loader_v1.py   *)
(*   (load), ..._loader_v2.py (_load_and_verify_production_anchors, the    *)
(*   production context and its two consumers), ..._authority_adapter_v1   *)
(*   and _v2.py (issue_authorization_bundle) and                           *)
(*   ..._writer_key_runtime_launcher_v1.py (two jobs of a workflow).       *)
(*                                                                         *)
(* Every fact is a separate request to the server and may change before    *)
(* the next one.  A production process loads several times: the launcher   *)
(* once in each job, the context when it is made, the ledger and the       *)
(* adapter each again when they are built from it.                         *)
(*                                                                         *)
(* Documents are what their validation lets through or refuses: a receipt  *)
(* is the fields that later reads are compared with, a manifest what it    *)
(* permits and until when.  Schemas, digests and the review and CI records *)
(* a receipt names are right or the load is denied, for any reason (Deny). *)
(***************************************************************************)
EXTENDS Integers, FiniteSets

CONSTANTS
    Process,        \* production processes
    Envelope,       \* enqueue envelopes a manifest may carry a bundle for
    Key,            \* writer keys
    Nil,
    Manifest,       \* Manifest[m]: the authority manifest in commit m of main
    Receipts,       \* receipts the owner may put in the tag
    Adapter,        \* adapter classes built: "v1", "v2"
    MaxMain, MaxTime, MaxEdits, MaxHead     \* bounds: commits of main, the
                                            \* clock, edits of the rules,
                                            \* ledger entries

Commit == 0..MaxMain
Time == 0..MaxTime
Version == 0..MaxEdits

ManifestRecord == [bundles : SUBSET Envelope, safe : BOOLEAN, issued : Time, expires : Time]

Receipt == [main : Commit, activated : Time, expires : Time, ruleset : Version, key : Key]

ASSUME ActivationAssumption ==
    /\ Manifest \in [Commit -> ManifestRecord]
    /\ Receipts \subseteq Receipt
    /\ Nil \notin Receipt \cup Key
    /\ Adapter \subseteq {"v1", "v2"}
    /\ MaxMain \in Nat /\ MaxTime \in Nat /\ MaxEdits \in Nat /\ MaxHead \in Nat

VARIABLES
    main,           \* canonical main
    now,            \* the server's clock
    ruleset,        \* the tag ruleset: its version (updated_at), and whether
                    \* it protects
    tag,            \* the receipt in the activation tag, or Nil
    branch,         \* the runtime branch: the receipt its first entry was made
                    \* for, and the entries on top of it
    pc,             \* pc[p]: the request p makes next
    purpose,        \* purpose[p]: what the load of p is for
    before,         \* before[p]: main as the load of p began
    read,           \* read[p]: the receipt p's load read
    event,          \* event[p]: the commit the launcher's workflow runs on
    key,            \* key[p]: the writer key in p's hands
    anchor,         \* anchor[p]: the context's anchors
    ledger,         \* ledger[p]: the anchor of p's ledger
    adapter,        \* adapter[p]: the anchor of p's adapter, and its class
    issued          \* history: bundles issued, with main and the clock then

outside == <<main, now, ruleset, tag, branch>>
built == <<event, key, anchor, ledger, adapter, issued>>
vars == <<outside, pc, purpose, before, read, built>>

Launcher == {"identity", "secret"}
Purpose == Launcher \cup {"context", "ledger", "adapter"}

(* The requests of a load, in order.                                       *)
Then == [main1 |-> "tag", tag |-> "window", window |-> "ruleset", ruleset |-> "head",
         head |-> "manifest", manifest |-> "main2", main2 |-> "evidence",
         evidence |-> "main3", main3 |-> "loaded"]

Issuing == {"issue_main", "issue_manifest", "issue_again"}

Location == {"begin", "loaded", "ready", "denied", "ended"} \cup DOMAIN Then \cup Issuing

Bundle == [by : Process, envelope : Envelope, main : Commit, mainThen : Commit, now : Time]

Init == /\ main \in Commit /\ now = 0
        /\ ruleset = [version |-> 0, strict |-> TRUE]
        /\ tag = Nil /\ branch = [of |-> Nil, head |-> 0]
        /\ pc = [p \in Process |-> "begin"] /\ purpose = [p \in Process |-> "context"]
        /\ before = [p \in Process |-> 0] /\ read = [p \in Process |-> Nil]
        /\ event = [p \in Process |-> 0] /\ key = [p \in Process |-> Nil]
        /\ anchor = [p \in Process |-> Nil] /\ ledger = [p \in Process |-> Nil]
        /\ adapter = [p \in Process |-> [of |-> Nil, class |-> "v2"]]
        /\ issued = {}

-----------------------------------------------------------------------------
(* The owner and the server.                                               *)

(* The tag may be created; it is replaced only while nothing protects it.  *)
Activate(r) ==
    /\ tag = Nil \/ ~ ruleset.strict
    /\ r.main <= main
    /\ tag' = r
    /\ branch' = [of |-> r, head |-> 0]
    /\ UNCHANGED <<main, now, ruleset, pc, purpose, before, read, built>>

EditRuleset ==
    /\ ruleset.version < MaxEdits
    /\ ruleset' = [version |-> ruleset.version + 1, strict |-> ~ ruleset.strict]
    /\ UNCHANGED <<main, now, tag, branch, pc, purpose, before, read, built>>

MainMoves ==
    /\ main < MaxMain /\ main' = main + 1
    /\ UNCHANGED <<now, ruleset, tag, branch, pc, purpose, before, read, built>>

TimePasses ==
    /\ now < MaxTime /\ now' = now + 1
    /\ UNCHANGED <<main, ruleset, tag, branch, pc, purpose, before, read, built>>

-----------------------------------------------------------------------------
(* One load.                                                               *)

GoTo(p, l) == pc' = [pc EXCEPT ![p] = l]

Load(p, for) ==
    /\ GoTo(p, "main1")
    /\ purpose' = [purpose EXCEPT ![p] = for]

(* Both loads of the launcher are v1's, which ends at its second look at   *)
(* main.                                                                   *)
AfterAll(p) == Then[pc[p]]          \* slip: as if it went on as v2's
After(p) == IF pc[p] = "main2" /\ purpose[p] \in Launcher THEN "loaded" ELSE Then[pc[p]]

Check(p, l, ok) ==
    /\ pc[p] = l
    /\ GoTo(p, IF ok THEN After(p) ELSE "denied")
    /\ UNCHANGED <<outside, purpose, built>>

(* _fresh_main, as the load begins.                                        *)
ReadMain(p) ==
    /\ Check(p, "main1", TRUE)
    /\ before' = [before EXCEPT ![p] = main]
    /\ UNCHANGED read

(* _load_tag_message: the tag must be at the main just read.               *)
ReadTag(p) ==
    /\ Check(p, "tag", tag # Nil /\ tag.main = before[p])
    /\ read' = [read EXCEPT ![p] = tag]
    /\ UNCHANGED before

(* _validate_receipt, at the time of a second request.                     *)
InWindow(r) == r.activated <= now /\ now < r.expires

CheckWindow(p) ==
    /\ Check(p, "window", InWindow(read[p]))
    /\ UNCHANGED <<before, read>>

(* _ruleset_is_strict: it protects, and nobody edited it since.            *)
RulesetHoldsNow(r) == ruleset.strict        \* slip: whatever its version
RulesetHolds(r) == ruleset.strict /\ ruleset.version = r.ruleset

CheckRuleset(p) ==
    /\ Check(p, "ruleset", RulesetHolds(read[p]))
    /\ UNCHANGED <<before, read>>

(* The branch must be at the receipt's initial_ledger_head, whose entry is *)
(* the exact empty one for that receipt (_verify_exact_initial_ledger).    *)
CheckHead(p) ==
    /\ Check(p, "head", branch = [of |-> read[p], head |-> 0])
    /\ UNCHANGED <<before, read>>

(* _load_authority_manifest of the receipt's commit, and                   *)
(* _min_decision_expiry.                                                   *)
Populated(m) == m.bundles # {} /\ ~ m.safe
Outlasts(r, m) == r.expires <= m.expires

CheckManifestOnly(p) ==     \* slip: the decisions' own expiry is not looked at
    /\ Check(p, "manifest", Populated(Manifest[read[p].main]))
    /\ UNCHANGED <<before, read>>

CheckManifest(p) ==
    /\ Check(p, "manifest", LET m == Manifest[read[p].main]
                            IN Populated(m) /\ Outlasts(read[p], m))
    /\ UNCHANGED <<before, read>>

(* Main again: at the end of v1's load and, after the receipt's evidence,  *)
(* at the end of v2's, there with the window.                              *)
CheckMain(p) ==
    /\ \/ Check(p, "main2", main = before[p])
       \/ Check(p, "evidence", TRUE)
       \/ Check(p, "main3", main = read[p].main /\ InWindow(read[p]))
    /\ UNCHANGED <<before, read>>

-----------------------------------------------------------------------------
(* What the loads are for.                                                 *)

(* A workflow run of the launcher on the activation tag, or a process that *)
(* starts from load_verified_stage1_context with a key of its own.         *)
BeginLauncher(p) ==
    /\ pc[p] = "begin" /\ tag # Nil
    /\ event' = [event EXCEPT ![p] = tag.main]
    /\ Load(p, "identity")
    /\ UNCHANGED <<outside, before, read, key, anchor, ledger, adapter, issued>>

BeginContext(p, k) ==
    /\ pc[p] = "begin"
    /\ key' = [key EXCEPT ![p] = k]
    /\ Load(p, "context")
    /\ UNCHANGED <<outside, before, read, event, anchor, ledger, adapter, issued>>

Loaded(p, for) == pc[p] = "loaded" /\ purpose[p] = for

(* preflight_writer_identity: the receipt's key is the secret that the     *)
(* second job gets.                                                        *)
TakeIdentity(p) ==
    /\ Loaded(p, "identity") /\ read[p].main = event[p]
    /\ key' = [key EXCEPT ![p] = read[p].key]
    /\ Load(p, "secret")
    /\ UNCHANGED <<outside, before, read, event, anchor, ledger, adapter, issued>>

(* runtime_loader_preflight: the second job loads the receipt itself.      *)
TakeSecret(p) ==
    /\ Loaded(p, "secret")
    /\ read[p].main = event[p] /\ read[p].key = key[p]
    /\ Load(p, "context")
    /\ UNCHANGED <<outside, before, read, built>>

(* VerifiedStage1ProductionContext.                                        *)
TakeContext(p) ==
    /\ Loaded(p, "context")
    /\ anchor' = [anchor EXCEPT ![p] = read[p]]
    /\ GoTo(p, "ready")
    /\ UNCHANGED <<outside, purpose, before, read, event, key, ledger, adapter, issued>>

(* build_runtime_ledger and build_authority_adapter: each constructor      *)
(* loads again ...                                                         *)
Build(p) ==
    /\ pc[p] = "ready"
    /\ \/ ledger[p] = Nil /\ Load(p, "ledger") /\ UNCHANGED adapter
       \/ /\ adapter[p].of = Nil /\ Load(p, "adapter")
          /\ \E c \in Adapter : adapter' = [adapter EXCEPT ![p].class = c]
    /\ UNCHANGED <<outside, before, read, event, key, anchor, ledger, issued>>

(* ... and keeps only an anchor equal to its context's                     *)
(* (verify_runtime_consumer_anchor, verify_authority_consumer_anchor).     *)
SameAnchorNot(p) == TRUE        \* slip: the fresh anchor is kept without a look
SameAnchor(p) == read[p] = anchor[p]

TakeLedger(p) ==
    /\ Loaded(p, "ledger") /\ SameAnchor(p)
    /\ key[p] = read[p].key /\ RulesetHolds(read[p])
    /\ ledger' = [ledger EXCEPT ![p] = read[p]]
    /\ GoTo(p, "ready")
    /\ UNCHANGED <<outside, purpose, before, read, event, key, anchor, adapter, issued>>

TakeAdapter(p) ==
    /\ Loaded(p, "adapter") /\ SameAnchor(p)
    /\ adapter' = [adapter EXCEPT ![p].of = read[p]]
    /\ GoTo(p, "ready")
    /\ UNCHANGED <<outside, purpose, before, read, event, key, anchor, ledger, issued>>

(* A comparison above that fails, an answer that does not come, a document *)
(* that is not in order, a crash: the process is over.                     *)
Deny(p) ==
    /\ pc[p] \notin {"begin", "denied", "ended"}
    /\ GoTo(p, "ended")
    /\ UNCHANGED <<outside, purpose, before, read, built>>

-----------------------------------------------------------------------------
(* The ledger and the adapter at work.                                     *)

(* A ledger write (R1Ledger has its steps): main, the rules and the branch *)
(* are those of the anchor.                                                *)
Writable(p) == ledger[p] # Nil /\ main = ledger[p].main /\ RulesetHolds(ledger[p])

Write(p) ==
    /\ pc[p] = "ready" /\ Writable(p)
    /\ branch.of = ledger[p] /\ branch.head < MaxHead
    /\ branch' = [branch EXCEPT !.head = @ + 1]
    /\ UNCHANGED <<main, now, ruleset, tag, pc, purpose, before, read, built>>

(* issue_authorization_bundle: main, the manifest, and main again, whose   *)
(* answer's date is the time the decisions are checked at.                 *)
IssueMain(p) ==
    /\ pc[p] = "ready" /\ adapter[p].of # Nil
    /\ GoTo(p, IF main = adapter[p].of.main THEN "issue_manifest" ELSE "denied")
    /\ UNCHANGED <<outside, purpose, before, read, built>>

(* _validate_manifest.  A manifest in a commit of main is a v2 manifest,   *)
(* or no receipt for it would have loaded.  The class v1 wants exactly the *)
(* fields of a v1 manifest; the class v2 shows its superclass one.         *)
ManifestFits(p) == adapter[p].class = "v2"

IssueManifest(p) ==
    /\ pc[p] = "issue_manifest"
    /\ GoTo(p, IF ManifestFits(p) THEN "issue_again" ELSE "denied")
    /\ UNCHANGED <<outside, purpose, before, read, built>>

MainStillNot(p) == TRUE         \* slip: main is not read a second time
MainStill(p) == main = adapter[p].of.main

(* The bundle of the one envelope, each decision checked by                *)
(* validate_authorization at the server's time.                            *)
Permits(m, e) == e \in m.bundles /\ ~ m.safe /\ m.issued <= now /\ now < m.expires

IssueAgain(p, e) ==
    /\ pc[p] = "issue_again"
    /\ LET main0 == adapter[p].of.main
       IN IF MainStill(p) /\ Permits(Manifest[main0], e)
          THEN /\ issued' = issued \cup {[by |-> p, envelope |-> e, main |-> main0,
                                          mainThen |-> main, now |-> now]}
               /\ GoTo(p, "ready")
          ELSE UNCHANGED issued /\ GoTo(p, "denied")
    /\ UNCHANGED <<outside, purpose, before, read, event, key, anchor, ledger, adapter>>

-----------------------------------------------------------------------------
Reads(p) == ReadMain(p) \/ ReadTag(p) \/ CheckWindow(p) \/ CheckRuleset(p) \/ CheckHead(p)
            \/ CheckManifest(p) \/ CheckMain(p)

Takes(p) == TakeIdentity(p) \/ TakeSecret(p) \/ TakeContext(p) \/ TakeLedger(p) \/ TakeAdapter(p)

Next ==
    \/ \E p \in Process :
        \/ BeginLauncher(p) \/ \E k \in Key : BeginContext(p, k)
        \/ Reads(p) \/ Takes(p) \/ Build(p) \/ Deny(p)
        \/ Write(p) \/ IssueMain(p) \/ IssueManifest(p)
        \/ \E e \in Envelope : IssueAgain(p, e)
    \/ \E r \in Receipts : Activate(r)
    \/ EditRuleset \/ MainMoves \/ TimePasses

Spec == Init /\ [][Next]_vars

-----------------------------------------------------------------------------
(* Properties.                                                             *)

(* The state has its type, and the launcher's own loads are v1's.          *)
ActivationTypeOK ==
    /\ main \in Commit /\ now \in Time
    /\ ruleset \in [version : Version, strict : BOOLEAN]
    /\ tag \in Receipts \cup {Nil}
    /\ branch \in [of : Receipts \cup {Nil}, head : 0..MaxHead]
    /\ pc \in [Process -> Location] /\ purpose \in [Process -> Purpose]
    /\ before \in [Process -> Commit] /\ read \in [Process -> Receipts \cup {Nil}]
    /\ event \in [Process -> Commit] /\ key \in [Process -> Key \cup {Nil}]
    /\ anchor \in [Process -> Receipts \cup {Nil}] /\ ledger \in [Process -> Receipts \cup {Nil}]
    /\ adapter \in [Process -> [of : Receipts \cup {Nil}, class : {"v1", "v2"}]]
    /\ issued \subseteq Bundle
    /\ \A p \in Process : purpose[p] \in Launcher => pc[p] \notin {"evidence", "main3"}

(* The ledger and the adapter of one process stand on one receipt, though  *)
(* each read it again and the tag may have been replaced in between, and   *)
(* the key in the process's hands is the one that receipt commits to.      *)
AnchorsAgree ==
    \A p \in Process :
        /\ ledger[p] # Nil /\ adapter[p].of # Nil => ledger[p] = adapter[p].of
        /\ ledger[p] # Nil => key[p] = ledger[p].key

(* Two processes that could both write now do so under one and the same    *)
(* activation: a tag replaced while its rules were off stops everyone who  *)
(* had read the old one, before they know of it.                           *)
OneActivation ==
    \A p, q \in Process : Writable(p) /\ Writable(q) => ledger[p] = ledger[q]

(* Whatever is built stands on a receipt whose window lies within the      *)
(* lifetime of every decision it can lead to, of a manifest that has       *)
(* decisions and is not in safe mode.                                      *)
WindowCovered ==
    \A p \in Process : anchor[p] # Nil =>
        LET m == Manifest[anchor[p].main] IN Populated(m) /\ Outlasts(anchor[p], m)

(* A bundle is issued by the authority in force at that moment: main was   *)
(* still the commit whose manifest carries it, safe mode was off there and *)
(* its decisions had not run out, however long the process took since it   *)
(* read the manifest or built the adapter.                                 *)
IssuedInForce ==
    \A b \in issued :
        LET m == Manifest[b.mainThen]
        IN b.envelope \in m.bundles /\ ~ m.safe /\ m.issued <= b.now /\ b.now < m.expires

(* Production processes (verified_activation_receipt_loader_v1.py and v2,  *)
(* canonical_authority_adapter_v1.py) that load the receipt again and      *)
(* again: what a process holds stands on one receipt, the window of which  *)
(* its decisions cover, and two that could both write do so under one and  *)
(* the same activation (github_runtime_cas_v1.py,                          *)
(* _assert_activation_anchor), though the tag is replaced under them;      *)
(* bundles are issued by the authority in force at that moment.            *)
ActivationInvariant ==
    ActivationTypeOK /\ AnchorsAgree /\ OneActivation /\ WindowCovered /\ IssuedInForce
===============================================================================
