----------------------------- MODULE Stage7Trial -----------------------------
(***************************************************************************)
(* Stage 7 of the historical evaluation: the settlement runner             *)
(* (stage7_settlement_bulk_runner_v1.py) and the two evaluators            *)
(* (stage7_historical_evaluation_v1.py, stage7_frozen_evaluator_v2.py),    *)
(* each with the notebook that runs it, on one folder of a Drive.          *)
(*                                                                         *)
(* One session runs at a time and may be cut between any two writes; a     *)
(* file is written through a temporary and a replace, so a write is one    *)
(* step.  Every input is pinned by digest: what a segment's settlement     *)
(* says, what an evaluator selects from A and B and whether C has enough   *)
(* valid bootstrap replicates are fixed beforehand, here in Init.  The     *)
(* fatal receipts, the A and B metrics and the tops are written and never  *)
(* read, and are left out.                                                 *)
(***************************************************************************)
EXTENDS Naturals

CONSTANTS
    Config,         \* configurations
    Use,            \* the sets of notebooks an owner may work with
    BatchOrder,     \* orders in which bootstrap threads may end
    MaxCut,         \* bound: sessions cut
    MaxBegun,       \* bound: how often v1 announces C
    MaxOverwrite,   \* bound: settlement runs with --overwrite
    Nil

Halt == {"NO_A", "NO_B"}
Segment == {"A", "B", "C"}

(* A freeze, and the receipts of C of v1 and of v2, which cite it.         *)
Freeze == [by : {"v1", "v2"}, cid : Config]
Receipt1Of == [freeze : Freeze, ledger : Config, blog : BatchOrder, tr : BOOLEAN, rc : Nat]
Receipt2Of == [freeze : Freeze, ledger : Config, tr : BOOLEAN]

ASSUME Stage7Assumption ==
    /\ Nil \notin Config \cup Halt \cup BatchOrder \cup Freeze \cup Receipt1Of \cup Receipt2Of
    /\ Config \cap Halt = {} /\ "half" \notin BatchOrder
    /\ Use \subseteq SUBSET {"v1", "v2"}
    /\ MaxCut \in Nat /\ MaxOverwrite \in Nat /\ MaxBegun \in Nat /\ MaxBegun > MaxCut

VARIABLES
    use, pick, thin,    \* fixed: notebooks in use; each evaluator's selection; too few replicates
    settled,            \* the segments whose settlement file exists
    sreceipt,           \* the settlement's "quality" and "receipt" files
    freeze,             \* FINAL_DEV2000_CONFIGURATION_FREEZE_v1.json: [by, cid]
    phase,              \* v1's state file: [name, rc]
    ledger,             \* ledger[e]: the configuration evaluator e's ledger of C is of
    blog,               \* v1's bootstrap log
    creceipt, final,    \* e's receipt of C and final receipt (v2's selection halts are in abr)
    abr, lock,          \* v2's A/B receipt and its lock on C
    at,                 \* where the session is: [nb, step, tr, rc]
    cuts, overwrites,
    opens, announced, scored    \* history: C opened, v1's C_OPEN_STARTED written, ledgers written

fixed == <<use, pick, thin>>
bulk == <<settled, sreceipt>>
files1 == <<phase, blog>>
files2 == <<abr, lock>>
outcome == <<ledger, creceipt, final>>
history == <<opens, announced, scored>>
counts == <<cuts, overwrites>>
trialVars == <<fixed, bulk, freeze, files1, files2, outcome, at, counts, history>>

Session(nb, step) == [nb |-> nb, step |-> step, tr |-> FALSE, rc |-> 0]
Idle == Session(Nil, "idle")

Init == /\ use \in Use
        /\ pick \in [{"v1", "v2"} -> Config \cup Halt] /\ thin \in BOOLEAN
        /\ settled = {} /\ sreceipt = {}
        /\ freeze = Nil /\ phase = [name |-> "", rc |-> 0] /\ blog = Nil
        /\ ledger = [e \in {"v1", "v2"} |-> Nil]
        /\ creceipt = ledger /\ final = ledger /\ abr = Nil /\ lock = Nil
        /\ at = Idle /\ cuts = 0 /\ overwrites = 0
        /\ opens = 0 /\ announced = 0 /\ scored = 0

In(nb, step) == at.nb = nb /\ at.step = step
Go(step) == at' = [at EXCEPT !.step = step]
Stop == at' = Idle                  \* the script ends, well or with a fatal receipt
-----------------------------------------------------------------------------
(* The notebooks: nothing is run when the end is on the Drive.             *)

BulkComplete == settled = Segment /\ sreceipt = {"quality", "receipt"}

Notebook1 ==
    /\ at = Idle /\ "v1" \in use /\ final["v1"] = Nil /\ announced < MaxBegun
    /\ at' = Session("v1", "settle")
    /\ UNCHANGED <<fixed, bulk, freeze, files1, files2, outcome, counts, history>>

Notebook2 ==
    /\ at = Idle /\ "v2" \in use /\ final["v2"] = Nil /\ abr \notin Halt
    /\ at' = Session("v2", IF BulkComplete THEN "ab" ELSE "settle")
    /\ UNCHANGED <<fixed, bulk, freeze, files1, files2, outcome, counts, history>>

(* The owner runs the settlement by hand, again after an interruption.     *)
Overwrite ==
    /\ at = Idle
    /\ \/ overwrites < MaxOverwrite /\ overwrites' = overwrites + 1
       \/ "receipt" \in sreceipt /\ ~BulkComplete /\ UNCHANGED overwrites
    /\ at' = Session("owner", "unlink")
    /\ UNCHANGED <<fixed, bulk, freeze, files1, files2, outcome, cuts, history>>

Cut == /\ at # Idle /\ cuts < MaxCut
       /\ cuts' = cuts + 1 /\ Stop
       /\ UNCHANGED <<fixed, bulk, freeze, files1, files2, outcome, overwrites, history>>
-----------------------------------------------------------------------------
(* The settlement runner.                                                  *)

SettleBegin ==
    /\ at.step = "settle"
    /\ IF "receipt" \notin sreceipt THEN Go("A")
       ELSE IF ~BulkComplete THEN Stop
       ELSE Go(IF at.nb = "v1" THEN "begin" ELSE "ab")
    /\ UNCHANGED <<fixed, bulk, freeze, files1, files2, outcome, counts, history>>

(* --overwrite: the files go one by one, in the order of output_paths.     *)
Unlink ==
    /\ at.step = "unlink"
    /\ \/ /\ settled # {}
          /\ settled' = settled \ {IF "A" \in settled THEN "A"
                                   ELSE IF "B" \in settled THEN "B" ELSE "C"}
          /\ UNCHANGED <<sreceipt, at>>
       \/ settled = {} /\ "receipt" \in sreceipt
          /\ sreceipt' = sreceipt \ {"receipt"} /\ UNCHANGED <<settled, at>>
       \/ settled = {} /\ "receipt" \notin sreceipt
          /\ sreceipt' = {} /\ Go("A") /\ UNCHANGED settled
    /\ UNCHANGED <<fixed, freeze, files1, files2, outcome, counts, history>>

Publish ==
    /\ at.step \in Segment
    /\ settled' = settled \cup {at.step}
    /\ Go(CASE at.step = "A" -> "B" [] at.step = "B" -> "C" [] OTHER -> "quality")
    /\ UNCHANGED <<fixed, sreceipt, freeze, files1, files2, outcome, counts, history>>

Receipt ==
    /\ at.step \in {"quality", "receipt"}
    /\ sreceipt' = sreceipt \cup {at.step}
    /\ CASE at.step = "quality" -> Go("receipt")
         [] at.nb = "owner" -> Stop
         [] OTHER -> Go(IF at.nb = "v1" THEN "begin" ELSE "ab")
    /\ UNCHANGED <<fixed, settled, freeze, files1, files2, outcome, counts, history>>
-----------------------------------------------------------------------------
(* stage7_historical_evaluation_v1.py                                      *)

Opened == {"FINAL_CONFIG_FROZEN", "C_OPEN_STARTED", "C_COMPLETE"}

Reboot == at' = [nb |-> "v1", step |-> "reboot", tr |-> TRUE, rc |-> phase.rc + 1]
Retry(rc) == at' = IF phase.name = "C_OPEN_STARTED"
                     THEN [nb |-> "v1", step |-> "announce", tr |-> TRUE, rc |-> rc + 1]
                     ELSE [nb |-> "v1", step |-> "announce", tr |-> FALSE, rc |-> rc]

(* Slip: the resumes of earlier runs are forgotten.                        *)
Resume1Afresh == IF creceipt["v1"] # Nil THEN Go("finish")
                 ELSE IF ledger["v1"] # Nil THEN Reboot
                 ELSE Retry(0)

(* Slip: only the receipt counts, not the ledger.                          *)
Resume1Unledgered == IF creceipt["v1"] # Nil THEN Go("finish") ELSE Retry(phase.rc)

(* Slip: the ledger is looked for first.                                   *)
Resume1LedgerFirst == IF ledger["v1"] # Nil THEN Reboot ELSE Retry(phase.rc)

(* Slip: the state is trusted where the ledger has to be.                  *)
Resume1ByState == IF creceipt["v1"] # Nil THEN Go("finish")
                  ELSE IF phase.name = "C_OPEN_STARTED" THEN Reboot
                  ELSE Retry(phase.rc)

(* Slip: C that was opened once is never opened again.                     *)
Resume1Never == IF creceipt["v1"] # Nil THEN Go("finish")
                ELSE IF ledger["v1"] # Nil THEN Reboot
                ELSE IF phase.name = "C_OPEN_STARTED" THEN Stop
                ELSE Retry(phase.rc)

(* The resume boundary: how far an earlier run has come.                   *)
Resume1 ==
    IF creceipt["v1"] # Nil THEN Go("finish")
    ELSE IF ledger["v1"] # Nil THEN Reboot
    ELSE IF phase.name = "C_COMPLETE" THEN Stop
    ELSE Retry(phase.rc)

Begin1 ==
    /\ In("v1", "begin")
    /\ IF "receipt" \notin sreceipt THEN Stop
       ELSE IF freeze # Nil
         THEN IF freeze.by # "v1" THEN Stop ELSE Resume1
       ELSE IF phase.name \in Opened THEN Stop ELSE Go("selectA")
    /\ UNCHANGED <<fixed, bulk, freeze, files1, files2, outcome, counts, history>>

SelectA1 ==
    /\ In("v1", "selectA")
    /\ IF "A" \notin settled THEN Stop /\ UNCHANGED phase
       ELSE /\ phase' = [name |-> "A_COMPLETE", rc |-> 0]
            /\ Go(IF pick["v1"] = "NO_A" THEN "halt" ELSE "selectB")
    /\ UNCHANGED <<fixed, bulk, freeze, blog, files2, outcome, counts, history>>

(* Slip: the selection is not persisted before C.                          *)
SelectB1Unsaved ==
    /\ In("v1", "selectB") /\ pick["v1"] \in Config /\ Go("frozen")
    /\ UNCHANGED <<fixed, bulk, freeze, files1, files2, outcome, counts, history>>

SelectB1 ==
    /\ In("v1", "selectB")
    /\ IF "B" \notin settled THEN Stop /\ UNCHANGED <<phase, freeze>>
       ELSE IF pick["v1"] = "NO_B"
         THEN /\ phase' = [name |-> "B_COMPLETE_NO_PASS", rc |-> 0]
              /\ Go("halt") /\ UNCHANGED freeze
         ELSE /\ freeze' = [by |-> "v1", cid |-> pick["v1"]]
              /\ Go("frozen") /\ UNCHANGED phase
    /\ UNCHANGED <<fixed, bulk, blog, files2, outcome, counts, history>>

Halt1 == /\ In("v1", "halt") /\ final' = [final EXCEPT !["v1"] = pick["v1"]] /\ Stop
         /\ UNCHANGED <<fixed, bulk, freeze, files1, files2, ledger, creceipt, counts, history>>

Frozen1 == /\ In("v1", "frozen")
           /\ phase' = [name |-> "FINAL_CONFIG_FROZEN", rc |-> 0] /\ Go("announce")
           /\ UNCHANGED <<fixed, bulk, freeze, blog, files2, outcome, counts, history>>

(* Slip: a resume is counted at the boundary and here.                     *)
AnnouncedTwice == [name |-> "C_OPEN_STARTED", rc |-> IF at.tr THEN at.rc + 1 ELSE at.rc]
Announced == [name |-> "C_OPEN_STARTED", rc |-> at.rc]

Announce1 ==
    /\ at.nb = "v1" /\ at.step \in {"announce", "reboot"}
    /\ phase' = Announced /\ announced' = announced + 1
    /\ Go(IF at.step = "announce" THEN "open" ELSE "boot")
    /\ UNCHANGED <<fixed, bulk, freeze, blog, files2, outcome, counts, opens, scored>>

(* Segment C is read and its races settled, in memory.                     *)
Open1 ==
    /\ In("v1", "open")
    /\ IF "C" \in settled THEN Go("ledger") /\ opens' = opens + 1
                          ELSE Stop /\ UNCHANGED opens
    /\ UNCHANGED <<fixed, bulk, freeze, files1, files2, outcome, counts, announced, scored>>

Ledger(e) == /\ In(e, "ledger")
             /\ ledger' = [ledger EXCEPT ![e] = freeze.cid] /\ scored' = scored + 1
             /\ Go("boot")
             /\ UNCHANGED <<fixed, bulk, freeze, files1, files2, creceipt, final, counts,
                            opens, announced>>

(* The log of the batches is written anew as the threads end.              *)
Boot1 == /\ In("v1", "boot") /\ blog' = "half" /\ Go("booting")
         /\ UNCHANGED <<fixed, bulk, freeze, phase, files2, outcome, counts, history>>

Booted1 ==
    /\ In("v1", "booting")
    /\ blog' \in BatchOrder
    /\ IF thin THEN Stop ELSE Go("creceipt")
    /\ UNCHANGED <<fixed, bulk, freeze, phase, files2, outcome, counts, history>>

Receipt1 ==
    /\ In("v1", "creceipt")
    /\ creceipt' = [creceipt EXCEPT !["v1"] =
                       [freeze |-> freeze, ledger |-> ledger["v1"], blog |-> blog,
                        tr |-> at.tr, rc |-> at.rc]]
    /\ Go("finish")
    /\ UNCHANGED <<fixed, bulk, freeze, files1, files2, ledger, final, counts, history>>

Fits1 == LET cr == creceipt["v1"]
         IN  cr.freeze = freeze /\ cr.ledger = ledger["v1"] /\ cr.blog = blog

Finish1 ==
    /\ In("v1", "finish")
    /\ IF Fits1 THEN final' = [final EXCEPT !["v1"] = freeze.cid] /\ Go("close")
                ELSE Stop /\ UNCHANGED final
    /\ UNCHANGED <<fixed, bulk, freeze, files1, files2, ledger, creceipt, counts, history>>

Close1 == /\ In("v1", "close")
          /\ phase' = [name |-> "C_COMPLETE", rc |-> creceipt["v1"].rc] /\ Stop
          /\ UNCHANGED <<fixed, bulk, freeze, blog, files2, outcome, counts, history>>

Evaluator1 == Begin1 \/ SelectA1 \/ SelectB1 \/ Halt1 \/ Frozen1 \/ Announce1 \/ Open1
              \/ Boot1 \/ Booted1 \/ Receipt1 \/ Finish1 \/ Close1
-----------------------------------------------------------------------------
(* stage7_frozen_evaluator_v2.py: phase ab, then phase c.                  *)

(* A and B are selected from until both the freeze and the receipt exist.  *)
BeginAB ==
    /\ In("v2", "ab")
    /\ IF abr \in Config /\ freeze # Nil THEN Go("c")
       ELSE IF "receipt" \in sreceipt /\ {"A", "B"} \subseteq settled THEN Go("select")
       ELSE Stop
    /\ UNCHANGED <<fixed, bulk, freeze, files1, files2, outcome, counts, history>>

Select2 ==
    /\ In("v2", "select")
    /\ IF pick["v2"] \in Halt
         THEN abr' = pick["v2"] /\ Stop /\ UNCHANGED freeze
         ELSE freeze' = [by |-> "v2", cid |-> pick["v2"]] /\ Go("abr") /\ UNCHANGED abr
    /\ UNCHANGED <<fixed, bulk, files1, lock, outcome, counts, history>>

ReceiptAB == /\ In("v2", "abr") /\ abr' = freeze.cid /\ Go("c")
             /\ UNCHANGED <<fixed, bulk, freeze, files1, lock, outcome, counts, history>>

BeginC ==
    /\ In("v2", "c")
    /\ IF freeze = Nil \/ freeze.by # "v2" \/ lock \notin {Nil, freeze}
         THEN Stop /\ UNCHANGED lock
         ELSE /\ at' = [nb |-> "v2", step |-> "load", tr |-> lock # Nil, rc |-> 0]
              /\ lock' = freeze
    /\ UNCHANGED <<fixed, bulk, freeze, files1, abr, outcome, counts, history>>

(* Slip: the ledger of an earlier run is scored again.                     *)
LoadCAnew == /\ In("v2", "load") /\ "C" \in settled
             /\ Go("ledger") /\ opens' = opens + 1
             /\ UNCHANGED <<fixed, bulk, freeze, files1, files2, outcome, counts, announced,
                            scored>>

(* A ledger that is there is taken if it is of the frozen configuration.   *)
LoadC ==
    /\ In("v2", "load")
    /\ IF "receipt" \notin sreceipt THEN Stop /\ UNCHANGED opens
       ELSE IF ledger["v2"] # Nil
         THEN (IF ledger["v2"] = freeze.cid THEN Go("boot") ELSE Stop) /\ UNCHANGED opens
       ELSE IF "C" \in settled THEN Go("ledger") /\ opens' = opens + 1
       ELSE Stop /\ UNCHANGED opens
    /\ UNCHANGED <<fixed, bulk, freeze, files1, files2, outcome, counts, announced, scored>>

BootC ==
    /\ In("v2", "boot")
    /\ IF thin THEN Stop ELSE Go("creceipt")
    /\ UNCHANGED <<fixed, bulk, freeze, files1, files2, outcome, counts, history>>

ReceiptC ==
    /\ In("v2", "creceipt")
    /\ creceipt' = [creceipt EXCEPT !["v2"] =
                       [freeze |-> freeze, ledger |-> ledger["v2"], tr |-> at.tr]]
    /\ Go("final")
    /\ UNCHANGED <<fixed, bulk, freeze, files1, files2, ledger, final, counts, history>>

FinalC == /\ In("v2", "final") /\ final' = [final EXCEPT !["v2"] = freeze.cid] /\ Stop
          /\ UNCHANGED <<fixed, bulk, freeze, files1, files2, ledger, creceipt, counts, history>>

Evaluator2 == BeginAB \/ Select2 \/ ReceiptAB \/ BeginC \/ LoadC \/ BootC \/ ReceiptC \/ FinalC
-----------------------------------------------------------------------------
Script == \/ SettleBegin \/ Unlink \/ Publish \/ Receipt
          \/ Evaluator1 \/ Evaluator2 \/ \E e \in {"v1", "v2"} : Ledger(e)

Next == Notebook1 \/ Notebook2 \/ Overwrite \/ Cut \/ Script

Spec == Init /\ [][Next]_trialVars

(* The owner runs a notebook until it has nothing left to do, repairs a    *)
(* settlement the notebook refuses, and scripts that run go on.            *)
Repair == "receipt" \in sreceipt /\ ~BulkComplete /\ Overwrite
Fairness == WF_trialVars(Notebook1) /\ WF_trialVars(Notebook2) /\ WF_trialVars(Script)
            /\ SF_trialVars(Repair)
LiveSpec == Spec /\ Fairness
-----------------------------------------------------------------------------
(* The files' shapes: a ledger, a receipt and an end are of a               *)
(* configuration that has been selected.                                   *)
TrialTypeOK ==
    /\ settled \subseteq Segment /\ sreceipt \subseteq {"quality", "receipt"}
    /\ freeze \in Freeze \cup {Nil}
    /\ phase \in [name : {"", "A_COMPLETE", "B_COMPLETE_NO_PASS"} \cup Opened, rc : 0..MaxBegun]
    /\ blog \in BatchOrder \cup {"half", Nil}
    /\ \A e \in {"v1", "v2"} : /\ ledger[e] \in Config \cup {Nil}
                                /\ final[e] \in Config \cup Halt \cup {Nil}
    /\ creceipt["v1"] \in Receipt1Of \cup {Nil} /\ creceipt["v2"] \in Receipt2Of \cup {Nil}
    /\ abr \in Config \cup Halt \cup {Nil} /\ lock \in {Nil, freeze}
    /\ at.rc <= MaxBegun

(* Segment C is read only when a freeze is on the Drive, and from then on  *)
(* the freeze stays as it is (conventions 5: persisted before C is opened; *)
(* no other configuration afterwards).                                     *)
FrozenBeforeOpened ==
    [][/\ opens' > opens => freeze # Nil /\ freeze' = freeze
       /\ opens > 0 => freeze' = freeze]_trialVars

(* However often sessions are cut, one ledger of C is written, of the      *)
(* frozen configuration.                                                   *)
ScoredOnce == /\ scored <= 1
              /\ \A e \in {"v1", "v2"} : ledger[e] # Nil => ledger[e] = freeze.cid

(* v1's receipt of C tells how often C had been begun before, and v2's     *)
(* says "no resume" only if C was opened once.                             *)
ResumesTold ==
    /\ creceipt["v1"] # Nil => /\ creceipt["v1"].rc = announced - 1
                               /\ creceipt["v1"].tr <=> announced > 1
    /\ creceipt["v2"] # Nil => (~creceipt["v2"].tr => opens = 1)

(* The artifacts a receipt of C cites are the ones on the Drive, so that a *)
(* run that finds the receipt can finish.                                  *)
ReceiptFits == /\ creceipt["v1"] # Nil => Fits1
               /\ creceipt["v2"] # Nil => /\ creceipt["v2"].freeze = freeze
                                          /\ creceipt["v2"].ledger = ledger["v2"]

(* A completed receipt of C prohibits that C is opened again (conventions  *)
(* 5).                                                                     *)
ReceiptStopsScoring ==
    [][opens' > opens => \A e \in {"v1", "v2"} : creceipt[e] = Nil]_trialVars

(* The trial (stage7_historical_evaluation_v1.py or _frozen_evaluator_v2.py)*)
(* over sessions cut at any step and settlements written over: one ledger  *)
(* of C, of the frozen configuration; receipts that tell how often C was   *)
(* begun and cite what is on the Drive.                                    *)
TrialInvariant == TrialTypeOK /\ ScoredOnce /\ ResumesTold /\ ReceiptFits

(* Each step of it (conventions 5): C is opened on a freeze that stays, and*)
(* never after a receipt of C.                                             *)
OpenedInOrder == FrozenBeforeOpened /\ ReceiptStopsScoring

(* Both evaluators carry out one trial.                                    *)
Ends == \E e \in {"v1", "v2"} : final[e] # Nil
Promise == INSTANCE OneTrial WITH
    chosen <- IF freeze # Nil THEN freeze.cid
              ELSE IF final["v1"] \in Halt THEN final["v1"]
              ELSE IF abr \in Halt THEN abr ELSE Nil,
    scored <- scored > 0,
    concluded <- Ends \/ abr \in Halt
ImplementsOneTrial == Promise!Spec

(* A trial that is pursued comes to its end, unless the bootstrap can      *)
(* never be had.                                                           *)
Concluded == (\A e \in use : pick[e] \in Halt \/ ~thin) => <>(Ends \/ abr \in Halt)
===============================================================================
