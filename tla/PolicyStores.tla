----------------------------- MODULE PolicyStores -----------------------------
(***************************************************************************)
(* The relay's policy stores: four store classes that may be given one     *)
(* SQLite file.  orchestrator_role_relay_v3.py admits one fixed branch;    *)
(* _policy_v4.py the exact (domain, branch) pairs of a policy its caller   *)
(* built; _policy_source_v5.py those of the source document compiled into  *)
(* the build, and its main only; _policy_change_control_v6.py keeps        *)
(* decisions about proposed documents instead of jobs.  The first to open  *)
(* a file pins its schema and its policy, in one transaction.              *)
(*                                                                         *)
(* A caller is its class and what that class compares with the pin.  How   *)
(* claims and leases go is RoleRelay's: here a queued job may be handed    *)
(* out at any time and again.  Task, role and generation make up the key.  *)
(***************************************************************************)
EXTENDS Naturals, Sequences, SequencesExt

CONSTANTS
    StoreKey,       \* operation keys
    Pair,           \* <<domain, branch>>
    Commit,         \* candidate heads
    Main,           \* canonical mains
    Objective,      \* what a job asks for
    V3Branch,       \* CANDIDATE_BRANCH
    Policy,         \* what callers of v4 allow
    Source,         \* the documents that builds of v5 and v6 compile in
    Request,        \* request ids
    Proposal,       \* documents proposed
    Unset

(* A document: its bindings in order, its main, its identity (schema,      *)
(* source branch, policy id) and whether all the rest (keys, repository,   *)
(* candidate_only, authority, shapes) is as v5 has it.                     *)
Document == [bindings: Seq(Pair), main: Main, identity: {"as_reviewed", "rotated"}, guarded: BOOLEAN]

Decision == [proposed: Document,
             as: {"OWNER_GATE_REQUIRED", "CANDIDATE_REVIEW_REQUIRED", "NO_CHANGE"}]

ASSUME PolicyAssumption ==
    /\ Policy \subseteq (SUBSET Pair) \ {{}}              \* RELAY_POLICY_BINDINGS_EMPTY
    /\ \A d \in Source : d \in Document /\ d.guarded /\ d.bindings # <<>> /\ IsInjective(d.bindings)
    /\ \A d \in Proposal : d \in Document
    /\ Unset \notin Document \cup Decision

VARIABLES
    file,           \* the meta table: [schema, pin]
    open,           \* the callers that hold the file open
    stored,         \* the jobs table, with the domain the job came with
    handed,         \* jobs handed to a claimer
    decisions,      \* the decisions table
    answers         \* every answer decide has given

storeVars == <<file, open, stored, handed, decisions, answers>>

Unpinned == [allowed |-> {}, document |-> Unset]

Caller ==
    {[schema |-> 1, pin |-> Unpinned]}
    \cup [schema: {2}, pin: [allowed: Policy, document: {Unset}]]
    \cup [schema: {3}, pin: {[allowed |-> ToSet(d.bindings), document |-> d] : d \in Source}]
    \cup [schema: {4}, pin: [allowed: {{}}, document: Source]]

StoredJob == [pair: Pair, head: Commit, main: Main, objective: Objective]

StoresInit ==
    /\ file = [schema |-> 0, pin |-> Unpinned]
    /\ open = {}
    /\ stored = [k \in StoreKey |-> Unset] /\ handed = {}
    /\ decisions = [r \in Request |-> Unset] /\ answers = {}

-----------------------------------------------------------------------------
(* Opening and closing.                                                    *)

(* Slip: the schema of an existing file is not looked at.                  *)
SameSchemaAny(c) == TRUE

SameSchema(c) == file.schema \in {0, c.schema}

(* Slip: the pin is there, and that is enough.                             *)
SamePinAny(c) == TRUE

SamePin(c) == c.pin = Unpinned \/ file.pin \in {Unpinned, c.pin}

Pinned(c) == [schema |-> IF file.schema = 0 THEN c.schema ELSE file.schema,
              pin |-> IF file.pin = Unpinned THEN c.pin ELSE file.pin]

Open(c) ==                                  \* _init, _init_v4, _init_v5, _init_v6
    /\ SameSchema(c) /\ SamePin(c)
    /\ file' = Pinned(c) /\ open' = open \cup {c}
    /\ UNCHANGED <<stored, handed, decisions, answers>>

CloseFile(c) ==                             \* close, or the process ends
    /\ c \in open /\ open' = open \ {c}
    /\ UNCHANGED <<file, stored, handed, decisions, answers>>

-----------------------------------------------------------------------------
(* Jobs.                                                                   *)

(* Slip: domain and branch are each allowed, not together.                 *)
AllowsApart(c, pair) ==
    \E p, q \in c.pin.allowed : p[1] = pair[1] /\ q[2] = pair[2]

Allows(c, pair) == pair \in c.pin.allowed

(* _validate_job of the caller's class.                                    *)
Valid(c, job) ==
    /\ IF c.schema = 1 THEN job.pair[2] = V3Branch ELSE Allows(c, job.pair)
    /\ c.schema = 3 => job.main = c.pin.document.main

(* A replay has to name the same head, branch and main; its domain and its *)
(* objective may differ.                                                   *)
SameJob(a, b) == a.head = b.head /\ a.pair[2] = b.pair[2] /\ a.main = b.main

(* Slip: a repeated request brings its job up to date.                     *)
QueuedAsAnew(k, job) == [stored EXCEPT ![k] = job]

QueuedAs(k, job) == IF stored[k] = Unset THEN [stored EXCEPT ![k] = job] ELSE stored

EnqueueAs(c, k, job) ==
    /\ c \in open /\ c.schema # 4 /\ Valid(c, job)
    /\ stored[k] # Unset => SameJob(stored[k], job)
    /\ stored' = QueuedAs(k, job)
    /\ UNCHANGED <<file, open, handed, decisions, answers>>

(* claim_next does not validate the job again.                             *)
ClaimAs(c, k) ==
    /\ c \in open /\ c.schema # 4 /\ stored[k] # Unset
    /\ handed' = handed \cup {stored[k]}
    /\ UNCHANGED <<file, open, stored, decisions, answers>>

-----------------------------------------------------------------------------
(* Decisions.                                                              *)

(* Slip: as many bindings as before are no wider.                          *)
AddedByCount(base, d) == Len(d.bindings) > Len(base.bindings)

Added(base, d) == ~ (ToSet(d.bindings) \subseteq ToSet(base.bindings))

Protected(base, d) ==
    \/ ~ d.guarded \/ d.main # base.main
    \/ d.bindings = <<>> \/ ~ IsInjective(d.bindings)

Classify(base, d) ==                        \* classify_policy_change
    CASE Protected(base, d) \/ Added(base, d) -> "OWNER_GATE_REQUIRED"
      [] OTHER -> IF ToSet(d.bindings) # ToSet(base.bindings) \/ d.identity # base.identity
                    THEN "CANDIDATE_REVIEW_REQUIRED" ELSE "NO_CHANGE"

(* Slip: the last proposal counts.                                         *)
KnownLately(r, d) == FALSE

Known(r, d) == decisions[r] # Unset

Decide(c, r, d) ==
    /\ c \in open /\ c.schema = 4
    /\ LET fresh == [proposed |-> d, as |-> Classify(c.pin.document, d)]
           entry == IF Known(r, d) THEN decisions[r] ELSE fresh
       IN  /\ entry.proposed = d            \* or CHANGE_REQUEST_REPLAY_CONFLICT
           /\ decisions' = [decisions EXCEPT ![r] = entry]
           /\ answers' = answers \cup {[request |-> r, entry |-> entry]}
    /\ UNCHANGED <<file, open, stored, handed>>

StoresNext ==
    \/ \E c \in Caller : Open(c) \/ CloseFile(c)
    \/ \E c \in Caller, k \in StoreKey : ClaimAs(c, k) \/ \E job \in StoredJob : EnqueueAs(c, k, job)
    \/ \E c \in Caller, r \in Request, d \in Proposal : Decide(c, r, d)

StoresSpec == StoresInit /\ [][StoresNext]_storeVars

-----------------------------------------------------------------------------
(* Properties.                                                             *)

(* Every variable has its type, and a file is pinned when it has a schema  *)
(* that pins.                                                              *)
PolicyTypeOK ==
    /\ file \in [schema: 0..4, pin: {c.pin : c \in Caller}]
    /\ (file.schema \in {0, 1}) = (file.pin = Unpinned)
    /\ open \subseteq Caller /\ stored \in [StoreKey -> StoredJob \cup {Unset}] /\ handed \subseteq StoredJob

(* A job that was handed out is one the pin of its file admits, whoever    *)
(* queued it and whoever claimed it: one allowed pair, and for a v5 file   *)
(* the document's main.  claim_next itself looks at neither.               *)
HandedWithinPin ==
    \A job \in handed :
        /\ file.schema \in {2, 3} => job.pair \in file.pin.allowed
        /\ file.schema = 3 => job.main = file.pin.document.main
        /\ file.schema = 1 => job.pair[2] = V3Branch

(* What a file was pinned to, and what a key was first queued with, is     *)
(* never replaced, by no later open and no repeated request.               *)
PinFinal ==
    [][/\ file.schema # 0 => file' = file
       /\ \A k \in StoreKey : stored[k] # Unset => stored'[k] = stored[k]]_storeVars

(* Every answer given for a request, over all opens of the file, is about  *)
(* the same document and says the same of it.                              *)
DecisionsAgree == \A a, b \in answers : a.request = b.request => a.entry = b.entry

(* What may go on without the owner (a review, or nothing at all) adds no  *)
(* binding to the document the file is pinned to and keeps its main.       *)
ReviewNeverWidens ==
    \A a \in answers : a.entry.as # "OWNER_GATE_REQUIRED" =>
        /\ ToSet(a.entry.proposed.bindings) \subseteq ToSet(file.pin.document.bindings)
        /\ a.entry.proposed.main = file.pin.document.main /\ a.entry.proposed.guarded

(* The policy stores (orchestrator_policy_*_v4 to v6): a job handed out is *)
(* one the pin of its file admits; every answer for a request is the same; *)
(* what may go on without the owner widens nothing.                        *)
StoresInvariant ==
    PolicyTypeOK /\ HandedWithinPin /\ DecisionsAgree /\ ReviewNeverWidens

(* NO_CHANGE is said of the document itself only                           *)
(* (README_ORCHESTRATOR_POLICY_CHANGE_CONTROL_V6.md).  It does not hold:   *)
(* bindings are compared as a set, so a reordered document, with another   *)
(* digest, is NO_CHANGE as well.                                           *)
NoChangeIsExact ==
    \A a \in answers : a.entry.as = "NO_CHANGE" => a.entry.proposed = file.pin.document
=============================================================================
