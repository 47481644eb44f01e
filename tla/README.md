# Specifications of multiverse-research

TLA+ specifications of the parts of this repository that keep state which several processes share,
with the TLC configurations that check them on small instances and the TLAPS proofs of what they promise.

* [The system](#the-system)
* [What is modelled, module by module](#what-is-modelled-module-by-module)
* [Runs](#runs)
* [Proofs](#proofs)
* [Findings](#findings)
* [Not modelled](#not-modelled)
* [Plan](#plan)

To check a configuration: `tlc -workers 2 -config R1Engine.cfg R1Engine`. To check the proofs: `tlapm R1ReviewProofs.tla`.
`PROJECT.json` lists the runs, the source lines each definition stands for, the hazards and the theorems.

## The system

The repository coordinates work (reviews of data sources, tasks of agents, review requests on pull requests, research by several
models) and runs a line of experiments on betting markets whose rules forbid a second look at the data. Both have protocols:
state on disk, in SQLite, in git refs or on GitHub that several processes, or one process and its successors after a crash, read and write. Around
them lie parsers, statistics, recorded evidence and policy documents, which have none.

| Part (under `src/`) | State it keeps | Operations | What is hard about it |
|---|---|---|---|
| **R1 engine and store** `tools/multiverse_r1_engine_v1.py`, `..._state_v1.py` | one JSON file: source cache, tasks, receipts | inspect, acquire lease, checkpoint, record failure, commit, read receipt | callers die, leases expire on clocks the callers bring, documents change and change back, commits are repeated |
| **R1 Stage 1 runtime** `tools/multiverse_r1_stage1_runtime_v1.py` | a control record (count of finished tasks, pause, claim) and an R1 state, both remote | load, claim, persist, release: `process_one_controlled` | invocations race for the claim and die between calls; a ceiling of tasks, a window of seven days |
| **R1 Stage 1 ledger** `tools/multiverse_r1_stage1_github_runtime_cas_v1.py` | a git branch and a journal of tags | the runtime's adapter calls, each two pushes and several reads | no lock, a crash between the pushes, a reader between them, `main` moving |
| **R1 activation** `tools/multiverse_r1_stage1_verified_activation_receipt_loader_v*.py`, `..._canonical_authority_adapter_v*.py` | a tag, rules, a manifest on GitHub; anchors in the process | load a receipt, build a production context, issue bundles | every fact is a read of its own, the world moves between them |
| **R1 writer keys** `tools/multiverse_r1_stage1_writer_key_*.py` | a fence tag, an environment and its secret | one provisioning run | dispatched twice, answers lost, half done |
| **Core tasks** `core_state.py`, `config/`, `api.py` | SQLite: tasks, verification receipts, revenue, provider switches, an audit chain | add, fetch, claim, verify, close, disable provider | one task is worked on in several transactions; a disabled provider; crashes leave tasks running |
| **Shared engine** `automation/shared_engine/` | SQLite: tasks with fenced leases, events; a second database of role receipts | claim, renew, reclaim, transition, apply receipt | lease boundaries, the lease lost while a provider runs, receipts replayed |
| **Orchestrator and role relay** `automation/orchestrator_*.py` | SQLite: tasks, steps; relay jobs; provider receipts; pinned policies | start/finish/recover steps, submit/claim/heartbeat/complete jobs, classify policy changes | stale claims, late heartbeats, crash between receipt and completion, retry budgets, one file opened by four classes |
| **Review dispatcher** `automation/review_dispatcher_v1/` | the comments of a pull request (on GitHub) | discover, review, publish, second-tier publish, recover | check and post are not atomic, posts become visible late, duplicates are arbitrated |
| **Review** `automation/review_dispatcher_v1/review.py` | one review's findings, a cache of the same build | check out, run tests and validators, probe an endpoint, decide | the world moves while the review reads it |
| **Multi-model research** `automation/multimodel_research_v1/` | documents that name each other by digest | prepare a request (assignment, policies, prompt, rendering, prep, pilot matrix), ask, ingest, bind, aggregate, prepare a launch, rehearse it, lay records before the owner (Phase B) | answers late, repeated, cut off or taken for others; documents of two generations, or of two hands, mixed |
| **Stage 7 trial** `v3/historical_all_market/stage7_*.py` | a folder of freezes, states, ledgers and receipts | settle, select, freeze, score once, conclude | sessions that are cut anywhere, and a trial that must not be repeated |
| **Stage 3 diagnostics** `.../stage3_ticket_filter_diagnostics_v2.py` | a folder of chunks, a summary, a report | process, publish, aggregate, classify failures | killed and repeated; files torn or from elsewhere |
| **Stage 0 price recovery** `v3/historical_all_market/stage0_*.py`, `kdreams_price_catalog_recovery_v1.py` | archived pages, a catalog, checkpoints, reports | clear, gate, resolve, parse, publish | sessions killed over an archive that changes |
| **Stages 1, 2, 4 to 6** `v3/historical_all_market/stage1_*.py`, `stage2_*.py`, `stage456_*.py` | the documents of one race | market structure, ticket probabilities, prices, decision | any step may refuse the race; the two models must agree |
| **Snapshot collector** `v3/prospective_rolling/runtime_hardening_v1/` | snapshot files and a hash-chained manifest | collect, append, verify | the two writes, two collectors |
| **Race capture** `v3/prospective/`, `v3/prospective_shadow250_v2/` | a job's racecard, candidates and profiles; its limiters | read the racecard, look riders up, read profiles, fuse | sites that change between two requests, a window that runs from the racecard, the spacing of requests |
| Opportunity research, parsers and studies of the Keirin line, nextgen collectors, CI, governance | files of one run | pure functions, one process | see [Not modelled](#not-modelled) |

How they interact: the Stage 1 runtime runs the R1 engine on a copy of the remote R1 state and stores the result through an
adapter, of which the GitHub ledger is the real one and the runtime's self-test has a fake one; ledger and bundles stand on anchors that the
activation loader read. The shared engine runs roles
through the provider adapter (v7) of the orchestrator line and keeps its receipts. The orchestrator asks roles by way of the relay; the policy
classes (v4 to v6) extend the relay's store. The `v3` parts and the federation hand files on to later stages. The review dispatcher and the core tasks stand
alone. Nothing is called back; all interaction is through the shared state named above.

What makes each part correct:

* *Engine:* a lease's fencing token is held once; a verdict in the cache is vouched for by a receipt about the same documents;
  receipts are for ever; a task fails at most budget + 1 times, and then nothing touches it.
* *Runtime:* no invocation overwrites another's work; every durable receipt is counted once and in the end; the ceiling, the
  pause and the window hold, whatever died.
* *Ledger:* it is one history, extended by whoever pushes first; an entry left behind by a crash stops everybody (fail closed).
* *Activation and keys:* what a process builds stands on one receipt; a bundle is issued under the authority in force; one writer key, stored behind its fence.
* *Core tasks:* revenue follows a verified claim, once; the audit chain tells all that happened; one task per idempotency key.
* *Shared engine:* one usable fence per task; an active task always has an owner that can lose it to a reclaim; a task is done
  only by receipts of all three roles on one candidate.
* *Relay and orchestrator:* a provider runs once per operation key; a recovered step is not completed by its old worker; budgets end every loop;
  DONE is reviewed; what is handed out stays within the policy the file was pinned to.
* *Dispatcher:* receipts name the canonical result of a current request, on which all builds agree in the end.
* *Federation:* the order of arrival does not matter; divergence is kept; an accepted launch is of one generation and one provider; a failed call is no research; a request that is called ready is one request.
* *Review:* a review passes only what passed at one head that was bound to main, in the files it found checked out; what the endpoint is asked stays within the recipe.
* *Stages 0 to 7, snapshots:* a catalog holds what one archived page says, of each car market as many prices as it has tickets; what the models agree on is priced and backed by both; one configuration is frozen before the
  untouched segment is opened, and that segment is scored once; the report that is trusted equals the one-pass result; the manifest is linked and binds the files.
* *Race capture:* what is captured is of the riders of the racecard, each once, and of before the deadline; the sites are asked at the pace they allow; no race is lost without a reason.

## What is modelled, module by module

Three things hold throughout. What the code identifies by a digest is identified by what the digest is taken of. Checks that only
deny a call (authorisation, shapes, signatures) are left out: a denied call changes nothing, and every specification already
allows a call not to happen. Definitions commented as a *slip* are the preceding or following definition with one plausible
mistake; no specification uses them: they serve to see that a property notices the mistake.

### R1State

Operators on a state record `[cache, tasks, receipts]`, the parsed `r1_state.json`: the types, `validate_state` (its referential
part) and the mutation of each `R1Engine` method, named as in the code. `XOK` is the conjunction of the checks before which `X`
touches nothing. Idempotency keys are pairs `<<candidate, docs>>`, so `task_by_idempotency` is the identity on the tasks. The
last section says of any state what both users of the module promise of theirs.

### R1Engine

The store and its callers. `PersistentStore.transact` holds a file lock from reading the file to replacing it, so an engine call
is one step; the calls interleave. `held[p]` is the epoch `acquire_lease` returned to process `p`, used later when it may be stale. Several
processes act as one worker instance, ticks are whatever a caller says, and `Crash` forgets a lease.

| Action | Code |
|---|---|
| `Inspect` | `inspect_candidate` (engine 24-39) |
| `Acquire` | `acquire_lease` (50-59) |
| `Checkpoint`, `RecordFailure`, `Commit` | the methods of that name (40-49, 60-70, 71-90) with `_lease` (22-23) |
| `Crash` | the process ends; nothing of it is in the store |

A call that raises is a step that is not taken.

### R1Stage1

`process_one_controlled` by several invocations. One action per adapter call: `Load`, `Claim`, `Inspect`, `Lease`, `Failure`,
`Checkpoint`, `Commit`, `Release`. The engine call before an adapter call works on the invocation's copy (`copy[i]`), so it is part of
the same action. `current` is the set of invocations whose copy has the remote's head: the adapter's compare-and-set. `Raise` is
an exception, which ends the invocation with its claim still set; `Crash` is its death at any point; `Expire` and `CloseWindow`
are the trusted clock passing the claim's five minutes and the stage's seven days. `StrictClaim` chooses the adapter:
`FALSE` is the self-test's, which accepts any control record with a claim; `TRUE` is the ledger's, which accepts a claim only if
nothing but the claim changes (`_verify_transition_semantics`).

### R1Ledger and R1Journal

The ledger's branch and journal tags, written by git commands that are a step each: list the tags, read `main`, push the tag (only if no
tag of that name exists), read `main`, push the branch (only from the head seen), read it back, list the tags again. A commit *is* the sequence of entries on its way from the
genesis, as its hash is; an entry keeps the claim, the terminal count and the number of durable receipts. `Stop` ends a writer
after any step, by a denial or by death; `Drift` moves `main`.

`R1Journal` is what the runtime may rely on: a history that is extended by one entry, which is then published, before the next.
`R1Ledger` implements it with the longest journaled commit as the history and the branch's length as what is published.

### Activation

What a production process does before it may write: the launcher and the context each `Load` the activation receipt
(loader v1 and v2), which is a sequence of reads (`ReadMain`, `ReadTag`, `CheckWindow`, `CheckRuleset`, `CheckHead`, `CheckManifest`, `CheckMain`), then take
identity, secret and anchors, `Build` ledger and authority adapter (each loads again) and issue bundles
(`IssueMain`, `IssueManifest`, `IssueAgain`: adapter v1). The owner activates another receipt, edits the rules; `main` and time move. What the evidence of a review must contain is `Deny`, a denial that may
always happen; ledger writes are one step, since `R1Ledger` has theirs. The owner replaces the tag only while the ruleset is off, as the rules demand. The receipt's own
expiry is checked at load only, the decisions' expiry and the seven days at issue.

### WriterKey

One provisioning run after another step of it (`BeginRun` to `End`, provisioner 150-290, admin channel, launcher), each request's answer lost or not. A run whose fence request
was answered by nothing leaves everybody after it denied for ever; the code says so (`NO_RETRY`). The fence tag is not protected by the ruleset; what outsiders do is limited
to what was there before and to moves of `main`.

### CoreTasks

`core_state.py` and the executor of `config/`: a client's `AddTask`, the executor's `Fetch`, `Route`, `Claim`, `Fail`, each a transaction, the verifier's
`ApplyReceipt`, `Close`, and `DisableProvider` in between. `RunRaises` and `StoreRaises` are exceptions after which the transaction is rolled back,
`Crash` the death of an executor, which leaves its task RUNNING for ever: nothing in the code takes such a task up. Every event is logged in the transaction it tells of (`Log`).

### SharedTaskFlow and SharedEngine

`SharedTaskFlow` is the abstract specification: a task is submitted, begun, answered role by role with a pass or a request to fix, set aside and resumed.
`SharedEngine` is the code: `db.py`'s claim, renew, release and transition, each fenced by worker, token and generation; `integration_bridge.py`'s receipts;
`exact_v7_shared_engine.py`'s `execute_role` as five steps (`CheckState`, `Provide`, `Record`, `Read`, `Apply`). A lease is what is `left` of it, so that the
instant at which it is neither usable (db 169) nor reclaimable (148) is there. The process that calls the engine is single-threaded per token. An operation key is a role and a round: that
every rework gets a new key is the callers' discipline, a reused key replays the old verdict. `ROLLED_BACK` is unreachable.

### OneAnswer and RoleRelay

`OneAnswer` is what the orchestrator relies on: for every key one answer, for ever. `RoleRelay` implements it: `RelayStore` with leases and tokens (`Enqueue`, `RecoverExpired`, `ClaimNext`,
`Heartbeat`, `Complete`) and the durable receipts of the provider adapter (`Execute`). `WorkerDies` and `LeaseRunsOut` are mishaps, the latter also on a live worker. An answer that `complete` refuses is executed again
and again for its job, and since claims are oldest first it can starve every other job if it is requeued before each claim; the live run has no such answers.

### Orchestrator

`orchestrator_mvp_v2.py` over `OneAnswer`: `Call` begins a step, `Start` claims it, `Ask`, `Heartbeat`, `Return`, `NoResult`, `Timeout` and `WorkerFails` are the wait for the role, `Finish` and `Judge` store the
outcome; `RollbackRead`/`Rollback` and `RecoverRead`/`RecoverStale` are two transactions each, as in the code. Only the claim is fenced; the moves after it are not. With two live
processes on one store `DoneReviewed` and `AskedInOrder` fail; nothing in the repository says that two may run, so the passing runs have one at a time, and its successors after a crash.
At the ceiling of `run_until_terminal` the state is not looked at: a task that ended with the last permitted step is handed to the owner. With the default of fifty steps, or the twenty of the run, the ceiling is never met
(`CeilingUnneeded`); the theorems about tasks that have ended assume so many steps (`EnoughSteps`).

### PolicyStores

The relay store and its three extensions (v4 to v6) as callers that open one SQLite file: what `Open` pins, what `Enqueue` and `Claim` let through, and `Decide`, the classification of a proposed policy
document (`Classify`: v6 250-281). Claims are in any order here; leases are `RoleRelay`'s. A repeated request is compared by head, branch and main only. The receipts of v7 use the same schema version, so a v3 store
opens their file too, harmlessly.

### ReviewDispatcher

The thread is a log of comments; each build reads a prefix of it that may lack the newest (`Lag`). `Discover`, `Review`, `Publish` (`PublishCheck`, `PublishRace`, `PublishPost`, `PublishAwait`) and `PublishT2`
(`T2Check` to `T2Await`) are the build steps; `Fail` is a step that dies anywhere and may be run again. Requests collide, supersede, are malformed. What a review finds is a verdict chosen freely here (`FixedReview` has how it is found). An artifact names the build, so that only a repeated step of the same build recovers its own
result; a T2 artifact does not, and converges across builds. A request derived from a result that lost its arbitration poisons its envelope for ever, as the code intends; a duplicate Lab result that appears later blocks the
Auditor's upstream check. Recovery of a T2 receipt does not check again that the request is current. Every operator that interprets the thread
(`Current`, `Winners`, `Canonical`, `Vouched`) takes the sequence of comments that was read, so that what two readers conclude can be compared.

### FixedReview

One review by `review.py`, from the job that `dispatcher.py` writes to the verdict: the binding is read (`Dispatch`, `Read`, `Bind`; a read less than five seconds old is reused by the same build), then a recipe about the
files is carried out (`Source`, `Start`, `Tests`, `Validate`, `Scan`) or one about the endpoint (`Get`, `Before`, `Deny`, `After`, with its retries), and `Judge` decides. Meanwhile the pull request and `main` move (`Move`), the file is touched by the candidate's
tests or by a process they left behind (`Touch`), others change the service (`Drift`), and its name resolves to another address. The secret scan reads the checkout after the tests ran in it. Findings are kept under names of twenty
characters: two tokens with one name overwrite each other's entry in `checks`, while a failure stays in `findings`. A preflight is always the same build.
A build's review begins with the file as the commit has it (`CheckedOut`: external, the build service's checkout). A preflight finds the file as its caller left it, since only `git rev-parse HEAD` is compared with the head, and reads it
from the working tree: its PASS is of the checkout it `found`, whatever the commit has. While a review reads, nobody edits the file but the tests and what they leave behind.

### ResearchBatch

`fanout.py` and `aggregator.py`: answers of assigned targets `Arrive` one by one, repeated, retried, refused, and at each point the aggregate and the batch summary are what the code computes of them. A retry after a failure
that has other content makes every later aggregate fail, by design (README.md:714); the summary denies even exact repeats, which the aggregate acknowledges.

### LaunchChain

The documents of a launch (catalog snapshot, freshness receipt, plan, matrix, attestation) and of its rehearsal, made at different times from different snapshots and heads, and handed over in every mixture:
`Launch` and `Rehearse` accept what `launch_evidence.py`, `convergence` and `rehearsal_convergence.py` accept. A digest stands for its document; the seal's blob goes with the head.

### RequestDocuments

What one request is prepared with: task, assignment, fan-out plan, target and capability policies, prompt, schema, rendered request, envelope, smoke profile, execution prep. `WriteTask`, `Observe` and `EditAdapter` are what happens meanwhile; `Prepare`
writes a set of documents, straight or as somebody would who goes his own way at one point (`Variation`), and mixes them (`Mixed`) with another set; a readiness report is what the validators let through together. `ConfirmPilot` and `ConfirmTrip` accept a
pilot matrix and a round trip that `pilot_matrix.py` and `pilot_roundtrip.py`, `pilot_roundtrip_v2.py` would build again. The validators bind documents to each other pairwise and by digest; which of those bindings together make one request is what is
checked. No validator looks at the catalog that a target policy cites, and the adapter's digest is a document of its own: those two belong to the matrix. No matrix can be built for a task newer than its catalog, and no second round trip for a
task whose byte limit is below the length of the simulated result.

### ProviderCall

A request is asked, answered at any later time, the answer normalised (`Gemini`, `Claude`), `Ingest`ed as a result and `Bind`ed to the records of an execution by a caller who is honest about the answer but may take it for the
answer to any request. The provider has no clock: `produced_at` is free. A text that says REFUSED in a completed answer may be ingested, but is bound only as a completed result.

### PhaseB

The records that are laid before the owner ahead of the first paid call, over `LaunchChain` and `ResearchBatch`: the launch chain of one recorded generation (`phase_b_launch_chain.py`, `launch_generation.py`), the federation rehearsal
that carries both providers through it, a fan-out and an aggregate whose outcome is demanded (`federation_rehearsal.py`, `dual_provider_*.py`), and the execution packet that picks the provider called first
(`phase_b_execution_packet.py`). A validator builds the record again, of what it is handed and of the constants of its own version of the code, and compares: `ConfirmFederation` and `ConfirmChain` hand over every mixture of generations. The packet has
two validators: one takes it apart and compares its parts, the other looks at ages, counts and the hashes in it; `ConfirmPacket` hands over a packet put together of two (`Splice`). The constants are written by hand,
and the attestation in a record repeats them (`CONTROL_RUNTIME_CLOCK`): nothing compares `canonical_main` with `main` or the clock, and a packet never expires.

### OneTrial, Stage7Trial and BankrollPath

`OneTrial` is the promise: a configuration is selected, or none; the third segment is scored under it, once; the trial is concluded. `Stage7Trial` has the two evaluators and the settlement runner before them as scripts that read and write a folder; `Cut` ends a
session anywhere; the owner runs the notebook again. One session at a time: v2's score lock is read as a resumed trial and excludes nobody. Fatal receipts, A and B metrics and shortlists are never read and
left out. A thin bootstrap (below 9500 replicates) makes every later v1 run announce itself again and never conclude. An overwriting settlement that is cut after its receipt is stored again leaves a state that only another overwriting run repairs.
If the state file is lost while the freeze is there, v1 takes its start for the first one. The earlier evaluator `stage7_frozen_evaluator_v1.py` has v2's protocol and is used by neither notebook.
`BankrollPath` is `stage7_eval_core_v1.py`'s arithmetic: `Allocate` for four policies, settlement, drawdown as a fraction compared by cross multiplication, and the replay of the ledger by the other evaluator. Fractions are exact in 2000ths where the code has
floats; money is scaled by `Unit`; how tickets are selected is abstracted to a ranked sequence. The module goes on with `stage7_frozen_evaluator_v1.py` from the ranked configurations to the verdict
(`ChoiceNext`): `EvalRace` for every configuration on A, `Shortlist`, `Freeze` the best that passes B, evaluate it alone on C, `Judge`; so what the two evaluators stake, book and prefer can be compared row by row.
Configurations that never bet are tied with each other in one and last in the other; none of them is eligible. A gain with a drawdown between 25 and 35 per cent whose
lower bound is positive is `OOS_FAIL`: neither verdict asks for it.

### TicketStages

One race through `stage1_market_structure_only_v1.py` (`Structure`), `stage1_pl_ticket_probability_engine_v1.py` (`Probabilities`), `stage2_price_ev_catalog_engine_v1.py` (`Join`) and `stage456_preoutcome_decision_engine_v1.py` (`Decide`);
any of them may refuse it. Probabilities are Plackett-Luce products of winner weights, integers here over a common denominator. A field of five cars numbered 1 to 5 with frame tickets is refused, as its frames are those of two fields.

### PriceRecovery

Stage 0 (`stage0_price_bulk_runner_v1.py`, `v2`, the parser `kdreams_price_catalog_recovery_v1.py`): a session clears what an earlier one left, passes the gates, resolves the archived page of every race, parses, and writes catalog,
quality report, bundle and receipt, in that order. `Kill` ends it anywhere, `Change` alters the archive at any time. A page is a record of what it sells; the parser compares counts and car sets, never the tickets. `Keys` are the keys a parser keeps: one that names a car twice (`1=1`, from the diagonal of the table)
counts as a ticket in the two-car markets, while `parse_3renhuku` passes it over. Three of the five car markets are there: `parse_wide` counts pairs as 2shahuku does, `parse_3rentan` ordered tickets with repeats as 2shatan does.

### Stage3Chunks

The notebook's attempts (`Start`, `Failed`, `Passed`: external, from how the script is used) and the engine's steps from the survey of valid chunks to the report. `Put` is a write that may be left in part: `shutil.copyfile` and `write_text` empty a file
and fill it. `Kill` ends the engine, `Disconnect` the notebook, `Tear` damages a file between attempts. A stale fatal file of an earlier failure is read after a kill that wrote none. One market and one model per row.

### RaceCapture

One run (a *job*) of the racecard adapter (`Discover`, `FetchCard`), of the batch lookup with the fusion (`Landing`, `Search`, `ReadProfile`, `Fuse`) or of a locator (`SearchAll`, `Candidate`; `keirinjp_identity_locator_v2.py` and `v3` search as the batch does, `v1` reads every profile that is
listed). One action is one request with its sleep, its limiter and the handling of its answer. `Edit` changes the site between two requests (somebody is registered, promoted, or gets new form), `Rest` passes time, and `JobDies` ends a job anywhere. The windows run from the racecard's request, the start of the
batch or the start of the search. The limiter lives in the job, so the spacing is that of one job, and a halt for good on 403 or 429 ends with it. How a page is read is left out: one that is not as expected is an answer that fails.
A prefecture is a writing of it. `Canon` is `canon_pref`, which strips one suffix, whatever is left; it is an arbitrary function in the proofs. `Option` are the writings of keirin.jp (the options of its form, and its profiles), `Racecards` what a racecard may print.
The batch converts when it takes the entrants over (`Kept`) and again wherever it compares or selects (`Key`, `OptionsFor`); the fusion compares with the racecard's own key, which does not convert (`PrintedKey`). Without exactly one fitting option
nothing is asked (`NoOption`).

### SnapshotChain

`Collect`, `Create`, `Fill`, `Digest`, `Read`, `Write`, `Report`: the collector from its checks to the appended entry; `Die` anywhere. The write of one line is atomic. After a death between snapshot and entry the race can never be recorded: the file is not overwritten.
The digest of the collector's code is an argument that nobody checks before the line is written; `hex` says whether it is 64 hex digits, and `Verifies` is `Linked` (indices, links, one entry per race) with every digest well-formed. The clock
receipt is compared with the snapshot's own time only.

### MC modules

A module `MCX` extends one component, or several whose names are apart, and instantiates the others that are checked along with them; a component that is extended has its assumptions checked, and the theorems are about its definitions as they stand.
The components of one MC module share no state: the variable `part` is chosen at the start and says which of them (or which instance of one) a behaviour is of, while the others rest. Two instances of one component
have variables of their own where they differ in shape (`Stage3Chunks` with torn files, and again with kills only, in `MCKeirin`). `MCLive` does the same for liveness. For the rest these modules define values for constants that a configuration cannot spell (ticks, envelopes,
documents), and symmetry sets. `R1Engine` and `R1Ledger` are run as they are. `RolesProofs` extends `MCRoles`, to prove a property of its parts together.

## Runs

| Run | Configuration | Question and bounds |
|---|---|---|
| `r1_engine` | `R1Engine.cfg` | Every interleaving of the calls of two processes as two workers, one candidate with two versions of its documents, retry budget 1, three leases per task, three cache versions. 250 thousand states. |
| `r1_ledger` | `R1Ledger.cfg` | Two writers, five entries (claim, persist, persist or release, and another claim), two receipts, drift at any time. 446 thousand states. |
| `stage1` | `R1Stage1.cfg` | Two invocations with a ceiling of one, a crash, and the window closing (`ceiling`); two with retry budget 0, documents that change and an envelope whose verdict conflicts with an earlier one (`retry`); one after the other with documents that change back and six cache versions (`return`). |
| `stage1_ledger_crash` | `R1Stage1LedgerCrash.cfg` | Under fairness, below the ceiling and within the window, with the ledger's adapter: is every durable receipt counted in the end? Violated. |
| `authority` | `Authority.cfg` | One process with both adapter classes and all five receipts, `main` moved, rules edited, time 0 to 3 (`one`); two processes and a replaced tag (`two`); three provisioning runs, two moves of `main`, every answer lost or not (`key`). |
| `shared_engine` | `SharedEngine.cfg` | One task, two processes under one worker id, leases of one instant, two generations, two rounds. |
| `roles` | `Roles.cfg` | The relay with two jobs, two workers, three mishaps and an answer that `complete` refuses; the orchestrator with one process at a time, semantic budget 2, transient budget 1 and a crash; four store classes on one file, two keys, two policies, nine proposals; the core's tasks with two executors, a verifier that is a provider too, requests of two contents, or a fault and a switch. 1.1 million states. |
| `dispatcher` | `ReviewDispatcher.cfg` | Two Lab builds and three requests that collide, supersede or are malformed, six comments, a list that lacks the last comment or not, one fault (`lab`); one Lab build and two Auditor builds that conclude with a T2, eight comments (`t2`); one review of files or of an endpoint, as a build or as a preflight of a checkout in any state (`review`). 1.1 million states. |
| `research` | `Research.cfg` | Calls of three assignments, two requests, two answers, one binding (`call`); launches of two providers, three price lists, two snapshots, two attestations, a window of 1 and time 0 to 2 (`launch`); documents written in ten ways and three mixtures, two tasks, one change of an adapter (`docs`); batches of three targets in overlapping roles and models and three arrivals (`batch`); records of two generations and packets spliced in nine ways (`phase`). 1.2 million states. |
| `keirin` | `Keirin.cfg` | Either evaluator, two configurations, three cuts, one overwriting settlement (`trial`); two chunks of two rows, chunks of another lineage, a kill and a torn file (`chunks`); four kills, more than the notebook has attempts (`kills`); four policies and three races on bankrolls, one barely above a stake (`paths`); two configurations through three segments (`choice`); races of four to five cars with every kind of gap (`stages`). 266 thousand states. |
| `collect` | `Collect.cfg` | One collector after the other, three races, two contents, a code digest that is one or not, six starts, death at any point (`chain`); two entrants and two of everything a profile says, two jobs, one change of the site; keirin.jp writes its two prefectures in full, racecards write them short, but the first car's in full or as one that is stripped too far, and a locator, which uses no racecard, is run alone and called with any but the full ones (`capture`); two sessions over two races whose archive changes (`recovery`); every page two markets of four cars can make of tickets, and of three cars with prices on the diagonal (`pages`). 1.2 million states. |
| `live` | `Live.cfg` | Small instances of Stage 1 (with the self-test's adapter), the shared engine, the relay (only answers that `complete` accepts), the orchestrator and the dispatcher (lists without lag), each under the fairness of its module: does work come to its end? 101 thousand states. |

**Deadlock** is checked in `roles`, whose `Next` says when all is done. The other systems stop where they may: at a ceiling, a pause, a moved `main`, an ended process, or a bound.

**What the properties say.** An invariant of a run is the conjunction of named parts, each defined and explained in its module; a violated part is seen by evaluating them in the last state of the error trace.

| Property | Parts | About |
|---|---|---|
| `StoreInvariant` | `EngineTypeOK`, `StoreReadable`, `EpochUnique`, `FinalHasReceipt`, `OneReceiptPerVersion`, `RetryCeiling`, `ReviewHasTask` | The R1 store after any sequence of calls: no two processes hold one epoch, verdicts are vouched for, failures stay within the budget. |
| `SettledStays`, `OnlyLastLeaseCommits` | `ReceiptsDurable`, `DeadLetterFinal`, `VerdictKeptForSameDocs` | What no call may undo, across documents that alternate; a receipt is written by one that got the last lease. |
| `StageInvariant`, `ReviewInvariant` | `ReviewsSound`, `CountedAreDurable`, `CeilingHolds`, `NoFalseRollback` | The runtime and its remote record; `ReviewInvariant` is the part about the store again, on the documents that change. |
| `WritesInOrder` | `NoLostUpdate`, `PauseHolds`, `WindowHolds` | No invocation overwrites another's work, or works in a pause or after the window. |
| `LedgerInvariant`, `LedgerStops`, `ImplementsJournal` | `JournalLinear`; `FailClosed`, `DriftStops` | The journal is one history; an entry left behind by a crash, or a `main` that moved, stops everybody. |
| `ActivationInvariant` | `AnchorsAgree`, `OneActivation`, `WindowCovered`, `IssuedInForce` | A process that may write stands on one receipt, within its window; a bundle was issued under what was in force at some moment of its issue. |
| `KeyInvariant`, `NoTakeover` | `OnePut`, `FencedOnMain`, `StoredAlone` | At most one key is ever written, by the run whose fence is on the commit it looked at. |
| `SharedInvariant`, `RecordsKept`, `ImplementsTaskFlow` | `NoOrphan`, `FenceUnique`, `ExecutesOnce`; `NeverStolen`, `ReceiptsAgree` | Leases and receipts across three databases take a task through its roles one at a time. |
| `RelayInvariant`, `ImplementsPromise` | `ExecutedOnce`, `OneHolder`, `ToldTheReceipt` | One answer per key, for ever, whoever dies or is overtaken. |
| `OrchestratorInvariant` | `DoneReviewed`, `AskedInOrder`, `CeilingUnneeded` | What is DONE was reviewed; roles are asked in order; budgets end every loop. |
| `StoresInvariant` | `HandedWithinPin`, `DecisionsAgree`, `ReviewNeverWidens` | What four store classes hand out of one file stays within its pin, and a review never widens it. |
| `CoreInvariant` | `RequestsAgree`, `RevenueVouched`, `AuditTellsAll`, `SwitchHolds` | Rows that different transactions write agree. |
| `SettledForGood` | `TerminalFinal`, `PinFinal`, `ResultFixed` | A task that has ended, a pin, and a result that was vouched for stay. |
| `ReceiptInvariant`, `WinnersStable` | `ReceiptCanonical`, `ReceiptFresh`, `T2Bound` | Builds agree on one canonical result although a list lags behind its posts. |
| `FixedReviewInvariant` | `PassIsOfTheFiles`, `PassIsFresh`, `PassIsDenied`, `EndpointRespected` | A PASS speaks of what the job binds, of the files as the review found them (a build's are the commit's) and of a service no denied method changed. |
| `CallInvariant` | `FailureNotResearch`, `AttestedServed`, `IngestedWasAsked` | What is kept as research was asked for and answered. |
| `RequestInvariant` | `LaunchVouched`, `RequestCovered`, `RehearsalOfLaunch`; `ReadyIsOneRequest`, `PilotIsCurrent`, `TripIsDecoded`, `NothingRefused` | Documents that were accepted together are of one request, one generation and one provider, and nothing straightforward is refused. |
| `BatchInvariant`, `ReportsStand` | `OrderFree`, `OneVoice`, `DivergenceExplained`, `CompleteBatchCovers`; `DivergenceKept`, `ConflictStays` | What an aggregate may lose: nothing but repeats. |
| `PhaseInvariant` | `OneGeneration`, `NothingInTheWay`, `PacketCheapest`, `PacketOfOnePiece`, `ValidatorsAgree` | A record laid before the owner is of the generation it was handed with; a packet that is accepted is of one piece, and its two validators agree. |
| `TrialInvariant`, `OpenedInOrder`, `ImplementsOneTrial` | `ScoredOnce`, `ResumesTold`, `ReceiptFits` | The untouched segment is scored once, under what was frozen, however often sessions are cut. |
| `TicketsInvariant` | `FastPathSound`, `QuantilesOrdered`; `StakeWithinPolicy`, `DrawdownIsWorst`, `LedgerReplays`, `OrderTotal`, `SettledAlike`, `RankedAlike`, `ChosenOnMerit`; `ProbabilityOfPaying`, `RefusedForCause`, `DemandsAreKept` | The diagnosis that is trusted is that of one pass; the two evaluators settle and rank alike; a ticket's probability is that of paying. |
| `ChunksKept`, `ComesToItsEnd` | `Concluded`, `PassesInTheEnd` | No run writes over a valid chunk; a trial is concluded and a diagnosis passes in the end. |
| `ChainInvariant`, `OnlyAppended` | `ChainVerifies`, `ChainBindsFiles` | The manifest is linked, verifies but for a malformed last line, binds the files and only grows. |
| `CaptureInvariant` | `OneRiderEach`, `CapturedInWindow`, `AskedSpaced`, `LostForReason` | A captured race is of its riders, in time and at the pace the sites allow; none is lost without a reason, of which the conversion of prefectures is one. |
| `RecoveryInvariant` | `ReceiptStands`, `RacesAccounted`, `CompleteOrTwice` | No receipt stands beside what it does not cite; the gate opens for catalogs only in which each missing ticket has a key that names one car twice in its place. |
| `WorkEnds` | `ReceiptCounted`, `TakenOver`, `AnsweredInTheEnd`, `Terminates`, `Answered` | What a dead or overtaken worker left is done by another one. |

**Why the bounds are enough.** A conflict needs two processes: whatever a third does between two steps of one of them, the second
can do too, after a crash as a new process. Alternating documents need two digests and three cache versions (A, B, A). The retry
ceiling is reached with budget 0 or 1, and `MaxEpoch` is large enough for every attempt up to it; the proofs cover every budget.
A ceiling of one lets a second task try to pass it. Two generations and two rounds of a shared task suffice
for a stale fence and a repeated role; two keys of the relay for one job that starves or overtakes another; budgets of 2 and 1 for a first, a repeated and a last
failure of the orchestrator, whose 20 steps are more than it ever takes. Two builds and one more comment than they can post suffice for the arbitration
of the dispatcher. Three targets are the fewest with two roles of one model and another model. A document can be of one or of another generation; a third would be mixed in as the second is. Two cuts can fall on both sides of every file
of a trial, and the third into its recovery. Two entrants are the fewest of whom one can be taken for the other; that a search lists too many candidates does not happen with two numbers, and only denies. Symmetry is used for
interchangeable workers, callers, invocations, builds and riders, and never in a run with a liveness property.

In `research` a few behaviours are cut short to keep the product of the parts small: in `phase` a behaviour ends with the first record that is accepted and only the first snapshot may expire; in `docs` the clock ticks once, one of the three price lists is left out, and
a behaviour ends with what is accepted first. What is accepted is never taken back, and the properties are of each accepted document by itself.

**Fairness.** Each is assumed only for the properties about liveness.

* `R1Stage1`: the stage keeps being invoked, with some envelope and tick (`WF` of `Start`), since a workflow runs it for as long as there is work; an invocation that does not die goes on
  (`WF` of `Work`), since it is sequential code without waits whose calls return or raise; the trusted clock reaches a claim's deadline (`WF` of `Expire`). Nothing makes `Crash` or `CloseWindow` happen or not happen.
* `SharedEngine`: time passes, a call that cannot go on raises, and somebody keeps asking for expired tasks, as each worker's loop does.
* `RoleRelay`: each worker's loop goes on, and a lease nobody renews runs out.
* `Orchestrator`: `step` goes on and has a deadline on each wait; whoever runs the orchestrator calls it and `recover_stale` again and again (strong fairness, since a
  claim may be renewed in between); claims age. No worker need answer.
* `ReviewDispatcher`: a step that raised is run again, as the build service does.
* `Stage7Trial`: the owner runs the notebook until it has nothing left to do and repairs a settlement that the notebook refuses by another overwriting run (strong fairness); scripts go on.
* `Stage3Chunks`: a notebook that runs goes on; its owner runs it again unless it passed or told of a scientific failure. Kills and damage are bounded.

## Proofs

A theorem is about the specification of a component, for every value of its constants within the assumption its module names (`R1EngineAssumption`, `CaptureAssumption`, ...), which TLC evaluates in the runs. They ask for little: bounds, budgets,
times and costs are natural numbers, sets that the code makes finite are finite, and `Nil`, `None`, `Absent` and the like are none of the things they stand beside. Sets of processes, documents, keys, candidates, builds and riders are otherwise arbitrary.
The bounds are constants in the guards, arbitrary too. Some theorems assume what the code leaves to whoever runs it, and say so in their statements: `OneCollector` (the collector takes no lock), `OneProcess` (of the orchestrator),
`OneNotebookEach` (of Stage 7) and `EnoughSteps` (more steps than the budgets allow, for tasks that have ended to stay). [Findings](#findings) says what happens without.

| Module | What is proved |
|---|---|
| `R1ReviewProofs` | `StoreInvariant`, `SettledStays`, `OnlyLastLeaseCommits` of `R1Engine`; `StageInvariant`, `WritesInOrder` of `R1Stage1` |
| `LedgerProofs` | `LedgerInvariant`, `LedgerStops`, `ImplementsJournal` of `R1Ledger`; `ChainInvariant`, `OnlyAppended` of `SnapshotChain`; `CaptureInvariant` of `RaceCapture`; `RecoveryInvariant` of `PriceRecovery` |
| `AuthorityProofs` | `KeyInvariant`, `NoTakeover` of `WriterKey`; `ActivationInvariant` of `Activation` |
| `SharedEngineProofs` | `SharedInvariant`, `RecordsKept`, `ImplementsTaskFlow` of `SharedEngine` |
| `RolesProofs` | `RelayInvariant`, `ImplementsPromise` of `RoleRelay`; `OrchestratorInvariant`; `StoresInvariant` of `PolicyStores`; `CoreInvariant` of `CoreTasks`; `SettledForGood` of the last three together |
| `DispatcherProofs` | `ReceiptInvariant`, `WinnersStable` of `ReviewDispatcher`; `FixedReviewInvariant` of `FixedReview` |
| `ResearchProofs` | `CallInvariant` of `ProviderCall`; `LaunchInvariant` of `LaunchChain`; `RequestInvariant` of `RequestDocuments`; `BatchInvariant`, `ReportsStand` of `ResearchBatch`; `PhaseInvariant` of `PhaseB` |
| `Stage7TrialProofs` | `TrialInvariant`, `OpenedInOrder`, `ImplementsOneTrial` of `Stage7Trial`; `ChunksKept` and the report of one pass, of `Stage3Chunks` |

Each proof has the same shape: an inductive invariant made of named parts, a lemma for each action that it keeps them, one for the next-state relation, and a temporal theorem that combines them. What made the invariants necessary:

**R1Engine.** The properties of the store are not inductive one by one: that versions are distinct needs every receipt's version
to be at most that of its cache entry; that a verdict is vouched for needs the receipt's version to be the entry's; that the
store stays readable needs receipts and tasks to be linked in both directions. `StateInv` is their conjunction with these facts, and has one lemma
per mutation, which do not mention `R1Engine`: the proof about `R1Stage1` uses them for the copies of its invocations. `EngineInv` adds the leases: what a
process remembers is of an existing task and at most its current epoch (`HeldBehind`), and `EpochUnique`, which `Acquire` preserves since
it hands out an epoch above all remembered ones.

**R1Stage1.** What an invocation holds is a copy of the remote state, and the compare-and-set only accepts copies whose head is the remote's. The invariant says of the copies with the current head that they are the remote's record and store
but for what the step at hand changed, and of every copy that its store is sound: a stale copy may be behind, but is never stored. The ceiling follows from counting: a claim is granted below the ceiling only, to one invocation, which finishes one task.

**R1Ledger.** That the journal is linear is less obvious than the create-only push suggests. A tag's name holds the terminal count
besides the sequence number, so two commits of one sequence have different names if their counts differ, and the remote would take both.
What excludes it is that every entry a writer may put on a given parent has the same count, the reconciled one (`NextOf`): a claim
that would count more is refused, a persist counts the same, and a release counts what is durable, which is what is counted unless
a receipt is new; and then a claim is refused and only the claim's owner can release or persist. The invariant says that the
journal has one commit per length and no gap, that the branch is
the journal's last entry or the one before it, that what a writer has seen was published, and that a writer past its tag push owns the last
entry. The refinement maps the tag push to `Extend`, the branch push to `Publish` and every other step to a stutter.

**Activation and WriterKey.** What a process has built is tied to what it read, and what it read to what was there when it did (`Built`, `LoadRead`); a bundle's issue lies between two reads that agree. For the key, at most one run is past the fence (`OneBehind`), which stands once it is made (`FenceStands`), and
what a run concludes about the server was so when it asked (`ServerAsRead`).

**SharedEngine.** `TokensApart` and `CallsFenced`: a fence is held once, and a call that may still write holds a generation that no other call has; `AnswersStored`: what was executed was recorded, under one key, so that a second execution of a round finds the first. The refinement maps the application of a receipt to a step of the flow. Fresh tokens are assumed to exist.

**RoleRelay, Orchestrator, PolicyStores, CoreTasks.** The relay needs that tokens of running jobs are apart and that a result is the receipt's. The orchestrator's invariant says how far the passes before a phase have come, that a claim is there only while the task is not terminal, that what a step asked fits the phase, and counts:
at most `3 * semantic + transient + Phase + 1` steps, which is `CeilingUnneeded`; under `EnoughSteps` the ceiling, which would move a task that has ended, is not met. The stores need that all that is held of a file is held alike and that a decision never granted more than its policy; the core that what was answered for a key is the task that is held, and that the audit log begins each story it tells (`StartedBefore`).

**ReviewDispatcher and FixedReview.** What one build concludes from a prefix of the log must hold for those that have read more: winners of an idempotency key are what they are in every longer log (`ToldAlike`, `SameWinners`), and what was canonical stays so (`CanonicalKept`), since ids grow and nothing is removed. A receipt is vouched for by the log as it is. For a review, a time is
kept for each thing that was read (`ReadInTime`), and as long as nothing failed, what was read vouches for the files or for the endpoint (`FilesVouched`, `EndpointVouched`).

**The federation.** The order in which results arrive is lost because a group's canonical content is chosen by content, not by arrival (`CanonicalOf`). A launch rounds a cost up (`RoundedUp`), and what is asked stays below what was shown (`CostBounds`). That a readiness report is one request follows from a chain of pairwise digests
(`FitIsOneRequest`); no assumption is made about who wrote the documents. That the validators refuse nothing straightforward is proved as well (`PilotIsNotRefused`, `TripIsNotRefused`). A packet that is accepted is of one piece since each hash in it binds what it is taken of to the next (`HashesBind`, `OfOnePiece`), and then its other validator has no finding (`ValidatorsBothPass`).

**Stage 7 and Stage 3.** `FilesAgree` says which files of a trial may be there together, `Counted` that the scorings there were are those the files tell of, `SessionTold` what the session at work has read. The chunks: what a run has gathered is of the catalog's rows, in order, whatever was kept, torn or written again (`WholeReport`). What the pass
counts and sums, and its quantiles, are recursion over data and stay with TLC.

**Snapshots and captures.** The manifest's digests are of entries that are all still there, a collector that is about to append has seen a manifest that verifies and leaves one that does but for its own line, and a collector at work is placed at a step that fits the files (`Placed`). In a capture, what a search found holds only while the site has not changed since (`Steady`); afterwards only what the profile that is read says about itself counts, and that is what the code compares.
The limiter never refuses, since the sleep before it is as long. Nothing is assumed of the conversion: what it loses shows in what is `Selectable` and in the racecard's own key.

**Price recovery.** Once it has cleared (`Swept`) a session has left nothing of an earlier one; while it parses (`Parsing`) there is no receipt, the catalog is what it has in memory, and the races passed so far are in it or failed, the ones no page is held of from the start.
So a receipt cites what lies beside it, and what is removed later only takes away. That a page with as many keys as its cars have tickets lacks as many tickets as it has keys naming one car twice (`AsManyLack`; none where the parser passes those over) needs that its keys are of the cars it names (`KeysOfCars`) and the number of pairs and triples of a finite set (`SubsetCounts`): the library's induction theorems cannot be
used, but its theorem on minimal elements can, and a smallest set with another number would have one element more than a set with the right one.

**Checked with TLC only:**

* liveness (`WorkEnds`, `ComesToItsEnd`), which is beyond the prover;
* `TicketsInvariant`: sums over tickets, drawdowns and probabilities are folds and recursion over data, and what these compute for every input is not proved;
* `ReviewInvariant` as it is written in `MCR1Stage1`, about two instances with constants of their own; it is a part of `StageInvariant`, which is proved for all constants.

No module declares a RECURSIVE operator.

## Findings

**A receipt is never counted after a crash, with the GitHub ledger** (`stage1_ledger_crash`). The runtime's self-test prints
`DURABLE_RECEIPT_COUNTED_EXACTLY_ONCE_AFTER_RESTART`. The next invocation reconciles the count into the record it claims with, and
the ledger refuses a claim that changes the count (`GITHUB_RUNTIME_FORGED_CLAIM_CONTROL_MUTATION`). Every later invocation ends so. The test uses the fake adapter, which accepts it; there the property holds (`live`).

What else was seen while modelling. No run checks these statements; the models contain the behaviour, and the properties are stated so that they hold with it.

*Reviews and ledger.*

* The receipt that reaches the ceiling is not counted after a crash with either adapter: reconciling it pauses the local copy, and a paused copy is refused before the claim.
* An attempt beyond the retry budget may work, although the self-test prints `FOURTH_ATTEMPT_BLOCKED_AFTER_INITIAL_PLUS_TWO_RETRIES`: the lease is persisted before the predecessor's failure is recorded, and one failure is recorded however many leases have expired.
* When documents change and change back before they are reviewed, the first task is handed out again with the cache version it was opened on, which the entry has left behind, so its review can never commit.
* No bundle is ever issued by a production context (the loader accepts version 2 manifests only, the adapter it builds version 1 only), and no run after the first ledger write can start (the receipt pins the ledger's initial head).

*Tasks and roles.*

* With two orchestrator processes on one store, a rollback that was admitted moves a task that has ended meanwhile, and `DoneReviewed`, `AskedInOrder` and `TerminalFinal` fail. Nothing in the repository says that two may run.
* `run_until_terminal` does not look at the state at its ceiling (`orchestrator_mvp_v2.py:359-363`): were a task DONE with the last permitted step, it would be handed to the owner. The default ceiling is never met.
* `NO_CHANGE` is said of policy documents that differ in the order or the repetition of their bindings.

*Review dispatcher.*

* The secret scan reads the checkout after the candidate's tests ran in it. Two checks whose first twenty characters are the same overwrite each other's entry in `checks`; the finding of a failure stays. A preflight compares `git rev-parse HEAD` with the head and nothing else of the checkout (`one_shot_preflight_v1.py:143-149`, `review.py:972-986`), and the source rules read the working tree (`review.py:632-640`): what passes may not be what the commit has. A preflight always has the build id `ONE_SHOT_PREFLIGHT`, and reads less than five seconds old are reused by one build.

*Research.*

* Freshness is compared between documents, never with a clock: a launch is accepted although its catalog was observed longer ago than the window allows at the time of acceptance. Packets and records of Phase B never expire, and nothing compares the constants they were built from with `main`; the packet's validators compare the freshness receipt's time with `CATALOG_CHECKED_AT` by hashes only. The attestations in these records are constants (`CONTROL_RUNTIME_CLOCK`), to which `LaunchVouched` does not extend.
* No field of an answer says which request it is for, so an observation may be bound to an execution it does not belong to; `observation_binding` does not tie a result to the text of its answer; a result must not be produced before its answer was received.
* The validators of a request never compare the provider that renders it with the assignment's, do not look at the catalog a target policy cites or at the adapter's digest, and do not tie a cost to a catalog: `validate_live_execution_prep` accepts an assignment of one provider rendered for the other. Only rebuilding the matrix binds them.
* `_synthetic_evidence` of the first round trip needs `NORMALIZED_JSON_SHA256`, which the packet's synthetic task lacks.

*Experiments.*

* Two evaluators on one folder score the third segment twice, as they know the name of the freeze in common and not each other's receipts. A gain with a positive lower bound and a drawdown between 25 and 35 per cent is `OOS_FAIL`. `stage7_eval_core_v1.py` ties configurations that never bet with every ROI, where the evaluators rank them last, and refuses odds of at most one, where they give a stake of zero.
* A chunk is in its place before it is whole: the "atomic" publication copies onto the final path. Readers validate, so nothing wrong is used. A failure of the disk is told as a scientific one: both raise the same exception.
* PASS_COMPLETE, the gate to Stage 1, may be given to a catalog that lacks tickets: `parse_2way` (`kdreams_price_catalog_recovery_v1.py:66-77`), `parse_3rentan` (100-105) and `parse_wide` (176-185) keep keys that name one car twice, and only their number is compared. `parse_3renhuku` (131) skips them.
* A field of five cars numbered 1 to 5 with frame tickets is refused.
* A `--collector-code-sha256` that is no lower-case digest of 64 digits (`prospective_snapshot_collector_core_v2.py:46,102`, unchecked) is written into the snapshot file and the manifest (`prospective_hash_chain_manifest_v1.py:55-56`) before `verify` (28-30, 57) refuses it. The manifest never verifies again, and no later race can be appended.
* A rider whose racecard says 京都 is never found: `canon_pref` strips it to 京 and keirin.jp's 京都府 to 京都, and what the batch has converted once it converts again. One whose racecard says 北海道 is found, but the fusion refuses the race, as the racecard's key is not converted (`keirinjp_identity_locator_v2.py:49-53,109-115`).
* Two collectors at once break the manifest: they read and append without a lock.
* The limiters of the capture live in one process, so neither the halt on 403 or 429, nor the spacing, nor "max two discovery checks per event day" (`TAMANO_RACECARD_SOURCE_CONDITIONAL_FIX_v1.json:15`) outlasts it. The first locator's budget of 60 seconds starts after the search, and it fails where any candidate's profile cannot be parsed; the second does not read them. The rider profile adapter reads and writes the state of its spacing without a lock.

## Not modelled

* *Checks that only deny*: authorisation scopes, sealed decision bundles, the ledger's HMACs, rulesets and origins, signatures, the shapes and keys of requests, manifests and documents, scans for forbidden words, preflights. A denial is a call that does not happen.
* Tampering with a store by somebody outside the protocol.
* The atomic replacement of a file by rename, and fsync: the file is either old or new. Where the code does not replace but rewrites, the file may be left in part.
* The demonstrations of R1, pause guards, resume resolvers, owner views and workflow inventories: read-only reports, and scripts that call the engine once.
* Opportunity research, the Keirin line's parsers, statistics and synthetic studies, nextgen collectors, mechanical gates: pure functions over one run's files, numerical or textual.
* CI workflows, governance and policy documents: configuration and prose.

## Plan

The order in which the project was made: R1 (state, engine, runtime, ledger), its activation and keys, the tasks and roles of the core, the shared engine and the orchestrator, the review dispatcher, the federation, the experiments of the Keirin line; then proofs in the same order. What could follow:

1. The refinement of `ReviewDispatcher` to a promise of one canonical receipt per request, as `OneAnswer` is for the relay.
2. `R1Stage1` over `R1Journal` instead of a compare-and-set of its own, so that one specification has both adapters.
