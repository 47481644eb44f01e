--------------------------- MODULE Stage7TrialProofs ---------------------------
(***************************************************************************)
(* Stage 7: one notebook on one folder carries out one trial:              *)
(* TrialInvariant, OpenedInOrder and ImplementsOneTrial, for all           *)
(* configurations, orders of the bootstrap's batches and numbers of cut    *)
(* sessions.  Stage 3: no run writes over a valid chunk, and the report    *)
(* that is trusted is of the whole catalog.                                *)
(*                                                                         *)
(* The inductive invariant of the trial says what the files on the Drive   *)
(* tell of each other, since a session that was cut leaves nothing else,   *)
(* and what the session under way has found there at each of its steps.    *)
(***************************************************************************)
EXTENDS Stage7Trial, Stage3Chunks, TLAPS

(* The owner works with one notebook or the other on a folder.             *)
OneNotebookEach == Use \subseteq {{"v1"}, {"v2"}}

Bulk == Segment \cup {"quality", "receipt"}
Before1 == Bulk \cup {"settle", "begin", "selectA", "selectB", "halt", "frozen"}
Steps1 == Before1 \cup {"announce", "reboot", "open", "ledger", "boot", "booting", "creceipt",
                        "finish", "close"}
Steps2 == Bulk \cup {"settle", "ab", "select", "abr", "c", "load", "ledger", "boot", "creceipt",
                     "final"}
StepsOwner == Bulk \cup {"unlink"}
Sessions == [nb : {"v1", "v2", "owner", Nil}, step : {"idle"} \cup Steps1 \cup Steps2 \cup StepsOwner,
             tr : BOOLEAN, rc : Nat]

(* The files have their types, and only the notebook in use has any.       *)
Shape ==
    /\ use \in {{"v1"}, {"v2"}} /\ pick \in [{"v1", "v2"} -> Config \cup Halt]
    /\ settled \subseteq Segment /\ sreceipt \subseteq {"quality", "receipt"}
    /\ freeze \in Freeze \cup {Nil}
    /\ phase \in [name : {"", "A_COMPLETE", "B_COMPLETE_NO_PASS"} \cup Opened, rc : Nat]
    /\ blog \in BatchOrder \cup {"half", Nil}
    /\ ledger \in [{"v1", "v2"} -> Config \cup {Nil}]
    /\ final \in [{"v1", "v2"} -> Config \cup Halt \cup {Nil}]
    /\ creceipt \in [{"v1", "v2"} -> Receipt1Of \cup Receipt2Of \cup {Nil}]
    /\ creceipt["v1"] \in Receipt1Of \cup {Nil} /\ creceipt["v2"] \in Receipt2Of \cup {Nil}
    /\ abr \in Config \cup Halt \cup {Nil} /\ lock \in {Nil, freeze}
    /\ opens \in Nat /\ announced \in Nat /\ scored \in Nat
    /\ \A e \in {"v1", "v2"} \ use : ledger[e] = Nil /\ final[e] = Nil
    /\ "v1" \notin use => announced = 0 /\ phase.name = "" /\ phase.rc = 0
    /\ "v2" \notin use => abr = Nil /\ lock = Nil

(* What the files tell of each other, whoever was cut after which write.   *)
FilesAgree ==
    /\ freeze # Nil => freeze.by \in use /\ freeze.cid = pick[freeze.by] /\ freeze.cid \in Config
    /\ \A e \in {"v1", "v2"} : /\ ledger[e] # Nil => freeze # Nil /\ ledger[e] = freeze.cid
                               /\ creceipt[e] # Nil => ledger[e] # Nil
                               /\ final[e] \in Config => creceipt[e] # Nil
                               /\ final[e] \in Halt => e = "v1" /\ freeze = Nil
    /\ scored = IF \E e \in use : ledger[e] # Nil THEN 1 ELSE 0
    /\ abr \in Halt => freeze = Nil
    /\ abr \in Config => freeze # Nil
    /\ creceipt["v1"] # Nil => Fits1
    /\ creceipt["v2"] # Nil => creceipt["v2"].freeze = freeze /\ creceipt["v2"].ledger = ledger["v2"]

(* How often C was begun, as the files tell it.                            *)
Counted ==
    /\ announced <= MaxBegun /\ phase.rc <= announced
    /\ IF creceipt["v1"] # Nil
         THEN /\ creceipt["v1"].rc = announced - 1
              /\ creceipt["v1"].tr <=> announced > 1
         ELSE /\ phase.name # "C_COMPLETE"
              /\ IF phase.name = "C_OPEN_STARTED" THEN announced = phase.rc + 1
                                                  ELSE announced = 0 /\ phase.rc = 0
    /\ phase.name \in Opened => freeze # Nil
    /\ ledger["v1"] # Nil => announced > 0
    /\ opens > 0 => freeze # Nil
    /\ "v2" \in use => /\ lock = Nil => opens = 0
                       /\ ledger["v2"] # Nil => opens > 0
                       /\ creceipt["v2"] # Nil => (~creceipt["v2"].tr => opens = 1)

(* What the session under way has found.                                   *)
Told1 ==
    LET Begun == announced > 0 /\ at.rc = announced - 1 /\ (at.tr <=> announced > 1)
                 /\ phase.name = "C_OPEN_STARTED"
    IN  /\ at.step \in Steps1 /\ at.rc <= MaxBegun
        /\ at.step # "close" => final["v1"] = Nil
        /\ at.step \in Before1 \cup {"announce", "reboot"} => announced < MaxBegun
        /\ at.step \in Before1 => at.rc = 0 /\ ~at.tr
        /\ at.step \in {"selectA", "selectB", "halt"} => freeze = Nil
        /\ at.step = "selectB" => pick["v1"] # "NO_A"
        /\ at.step = "halt" => pick["v1"] \in Halt
        /\ at.step \in {"frozen", "announce", "open", "ledger"} =>
               freeze # Nil /\ ledger["v1"] = Nil /\ creceipt["v1"] = Nil
        /\ at.step = "frozen" => announced = 0
        /\ at.step = "announce" => at.rc = announced /\ (at.tr <=> announced > 0)
        /\ at.step = "reboot" => at.rc = announced /\ at.tr /\ announced > 0
        /\ at.step \in {"reboot", "boot", "booting", "creceipt"} =>
               ledger["v1"] # Nil /\ creceipt["v1"] = Nil
        /\ at.step \in {"open", "ledger", "boot", "booting", "creceipt"} => Begun
        /\ at.step = "creceipt" => blog \in BatchOrder
        /\ at.step \in {"finish", "close"} => creceipt["v1"] # Nil

Told2 ==
    /\ at.step \in Steps2 /\ at.rc = 0 /\ final["v2"] = Nil /\ abr \notin Halt
    /\ at.step \in {"abr", "c"} => freeze # Nil
    /\ at.step \in {"load", "ledger", "boot", "creceipt", "final"} => freeze # Nil /\ lock = freeze
    /\ at.step = "load" => (~at.tr => opens = 0)
    /\ at.step = "ledger" => ledger["v2"] = Nil /\ opens > 0 /\ (~at.tr => opens = 1)
    /\ at.step \in {"boot", "creceipt"} => ledger["v2"] # Nil /\ (~at.tr => opens = 1)
    /\ at.step = "final" => creceipt["v2"] # Nil

SessionTold ==
    /\ at \in Sessions
    /\ \/ at = Idle
       \/ at.nb = "v1" /\ "v1" \in use /\ Told1
       \/ at.nb = "v2" /\ "v2" \in use /\ Told2
       \/ at.nb = "owner" /\ at.step \in StepsOwner /\ at.rc = 0

IInv == Shape /\ FilesAgree /\ Counted /\ SessionTold

-----------------------------------------------------------------------------
USE Stage7Assumption

LEMMA Going ==
    ASSUME at \in Sessions, NEW s, Go(s)
    PROVE  at'.nb = at.nb /\ at'.step = s /\ at'.tr = at.tr /\ at'.rc = at.rc
           /\ (s \in {"idle"} \cup Steps1 \cup Steps2 \cup StepsOwner => at' \in Sessions)
  BY DEF Go, Sessions

(* A session moves on, or ends, and the evaluators' files stay.            *)
LEMMA SessionMoves ==
    ASSUME IInv, SessionTold', settled' \subseteq Segment, sreceipt' \subseteq {"quality", "receipt"},
           UNCHANGED <<fixed, freeze, files1, files2, outcome, history>>
    PROVE  IInv'
<1> USE DEF IInv, fixed, files1, files2, outcome, history
<1>1. Shape'
  BY DEF Shape
<1>2. FilesAgree'
  BY DEF FilesAgree, Fits1
<1>3. Counted'
  BY DEF Counted
<1> QED BY <1>1, <1>2, <1>3

LEMMA Ending == ASSUME at' = Idle PROVE SessionTold'
  BY DEF SessionTold, Idle, Session, Sessions

(* A script that is started has nothing in hand.                           *)
LEMMA Starting ==
    ASSUME NEW who \in {"v1", "v2", "owner"}, NEW s \in Steps1 \cup Steps2 \cup StepsOwner,
           at' = Session(who, s)
    PROVE  at' \in Sessions /\ at'.nb = who /\ at'.step = s /\ at'.rc = 0 /\ at'.tr = FALSE
  BY DEF Session, Sessions

LEMMA NotebooksKeep == ASSUME IInv, Notebook1 \/ Notebook2 \/ Overwrite \/ Cut PROVE IInv'
<1>1. CASE Notebook1
  <2>1. at' \in Sessions /\ at'.nb = "v1" /\ at'.step = "settle" /\ at'.rc = 0 /\ at'.tr = FALSE
    BY <1>1, Starting DEF Notebook1, Steps1, Before1
  <2>2. Told1'
    BY <1>1, <2>1 DEF Notebook1, IInv, Told1, Before1, Steps1, fixed, outcome, history
  <2> QED BY <1>1, <2>1, <2>2, SessionMoves DEF Notebook1, bulk, IInv, Shape, SessionTold, fixed
<1>2. CASE Notebook2
  <2>1. /\ at' \in Sessions /\ at'.nb = "v2" /\ at'.step \in {"ab", "settle"}
        /\ at'.rc = 0 /\ at'.tr = FALSE
    BY <1>2, Starting DEF Notebook2, Steps2
  <2>2. Told2'
    BY <1>2, <2>1 DEF Notebook2, IInv, Told2, Steps2, files2, outcome, history
  <2> QED BY <1>2, <2>1, <2>2, SessionMoves DEF Notebook2, bulk, IInv, Shape, SessionTold, fixed
<1>3. CASE Overwrite
  <2>1. at' \in Sessions /\ at'.nb = "owner" /\ at'.step = "unlink" /\ at'.rc = 0
    BY <1>3, Starting DEF Overwrite, StepsOwner
  <2> QED BY <1>3, <2>1, SessionMoves DEF Overwrite, bulk, IInv, Shape, SessionTold, StepsOwner
<1>4. CASE Cut
  BY <1>4, Ending, SessionMoves DEF Cut, Stop, bulk, IInv, Shape
<1> QED BY <1>1, <1>2, <1>3, <1>4

(* Through the settlement a session holds what it held, up to where its    *)
(* notebook goes on.                                                       *)
LEMMA Settling ==
    ASSUME IInv, at.step \in Bulk \cup {"settle"}, NEW s, Go(s),
           \/ s \in Bulk
           \/ at.nb = "v1" /\ s = "begin"
           \/ at.nb = "v2" /\ s = "ab",
           UNCHANGED <<fixed, freeze, files1, files2, outcome, history>>
    PROVE  SessionTold'
<1>1. at \in Sessions /\ at # Idle
  BY DEF IInv, SessionTold, Idle, Session, Bulk, Segment
<1>2. /\ at'.nb = at.nb /\ at'.step = s /\ at'.tr = at.tr /\ at'.rc = at.rc
      /\ at' \in Sessions
  BY <1>1, Going DEF Steps1, Before1, Steps2
<1>3. CASE at.nb = "v1" /\ "v1" \in use /\ Told1
  <2>1. s \in Before1 /\ at.step \in Before1
    BY <1>3 DEF Before1
  <2>2. Told1'
    BY <1>2, <1>3, <2>1 DEF Told1, Before1, Steps1, Bulk, Segment, fixed, outcome, history
  <2> QED BY <1>2, <1>3, <2>2 DEF SessionTold, fixed
<1>4. CASE at.nb = "v2" /\ "v2" \in use /\ Told2
  <2>1. Told2'
    BY <1>2, <1>4 DEF Told2, Steps2, Bulk, Segment, files2, outcome
  <2> QED BY <1>2, <1>4, <2>1 DEF SessionTold, fixed
<1>5. CASE at.nb = "owner" /\ at.step \in StepsOwner /\ at.rc = 0
  BY <1>2, <1>5 DEF SessionTold, StepsOwner
<1> QED BY <1>1, <1>3, <1>4, <1>5 DEF IInv, SessionTold

LEMMA SettlementKeeps == ASSUME IInv, SettleBegin \/ Unlink \/ Publish \/ Receipt PROVE IInv'
<1> USE DEF Bulk, Segment
<1>1. at.nb \in {"v1", "v2", "owner"} \/ at = Idle
  BY DEF IInv, SessionTold
<1>2. CASE SettleBegin
  <2>1. CASE at' = Idle
    BY <1>2, <2>1, Ending, SessionMoves DEF SettleBegin, bulk, IInv, Shape
  <2>2. CASE at' # Idle
    <3>1. at.nb \in {"v1", "v2"}
      BY <1>2 DEF SettleBegin, IInv, SessionTold, StepsOwner, Idle, Session
    <3>2. Go("A") \/ (at.nb = "v1" /\ Go("begin")) \/ (at.nb = "v2" /\ Go("ab"))
      BY <1>2, <2>2, <3>1 DEF SettleBegin, Stop
    <3>3. SessionTold'
      BY <1>2, <3>2, Settling DEF SettleBegin
    <3> QED BY <1>2, <3>3, SessionMoves DEF SettleBegin, bulk, IInv, Shape
  <2> QED BY <2>1, <2>2
<1>3. CASE Unlink
  <2>1. CASE at' = at
    BY <1>3, <2>1, SessionMoves DEF Unlink, IInv, Shape, SessionTold, Told1, Told2, fixed, files1, files2,
       outcome, history
  <2>2. CASE Go("A")
    <3>1. at.nb = "owner" /\ at \in Sessions /\ at.rc = 0
      BY <1>3 DEF Unlink, IInv, SessionTold, Told1, Told2, Steps1, Steps2, Before1, Idle, Session
    <3>2. at' \in Sessions /\ at'.nb = "owner" /\ at'.step = "A" /\ at'.rc = 0
      BY <2>2, <3>1, Going DEF Steps2
    <3> QED BY <1>3, <3>2, SessionMoves DEF Unlink, IInv, Shape, SessionTold, StepsOwner
  <2> QED BY <1>3, <2>1, <2>2 DEF Unlink
<1>4. CASE Publish
  <2>1. \E s \in Bulk : Go(s)
    BY <1>4 DEF Publish
  <2>2. SessionTold'
    BY <1>4, <2>1, Settling DEF Publish
  <2> QED BY <1>4, <2>2, SessionMoves DEF Publish, IInv, Shape
<1>5. CASE Receipt
  <2>1. sreceipt' \subseteq {"quality", "receipt"} /\ settled' \subseteq Segment
    BY <1>5 DEF Receipt, IInv, Shape
  <2>2. CASE at' = Idle
    BY <1>5, <2>1, <2>2, Ending, SessionMoves DEF Receipt
  <2>3. CASE at' # Idle
    <3>1. Go("receipt") \/ (at.nb = "v1" /\ Go("begin")) \/ (at.nb # "owner" /\ at.nb # "v1" /\ Go("ab"))
      BY <1>5, <2>3 DEF Receipt, Stop
    <3>2. at.nb \in {"v1", "v2", "owner"}
      BY <1>1, <1>5 DEF Receipt, Idle, Session
    <3>3. SessionTold'
      BY <1>5, <3>1, <3>2, Settling DEF Receipt
    <3> QED BY <1>5, <2>1, <3>3, SessionMoves DEF Receipt
  <2> QED BY <2>2, <2>3
<1> QED BY <1>2, <1>3, <1>4, <1>5

-----------------------------------------------------------------------------
(* The evaluator v1.                                                       *)
LEMMA AtV1 == ASSUME IInv, at.nb = "v1", at.step \in Steps1
              PROVE  "v1" \in use /\ use = {"v1"} /\ Told1 /\ at \in Sessions
<1>1. at # Idle
  BY DEF Idle, Session, Steps1, Before1, Bulk, Segment
<1>2. at \in Sessions /\ "v1" \in use /\ Told1
  BY <1>1 DEF IInv, SessionTold
<1>3. use = {"v1"}
  BY <1>2 DEF IInv, Shape
<1> QED BY <1>2, <1>3

(* A session of v1 takes its next step.                                    *)
LEMMA Going1 ==
    ASSUME IInv, at.nb = "v1", at.step \in Steps1, NEW s \in Steps1, Go(s)
    PROVE  /\ at' \in Sessions /\ at'.nb = "v1" /\ at'.step = s
           /\ at'.tr = at.tr /\ at'.rc = at.rc
  BY AtV1, Going

LEMMA Begin1Keeps == ASSUME IInv, Begin1 PROVE IInv'
<1> USE DEF fixed, outcome, history, files1, files2
<1>1. /\ at.nb = "v1" /\ at.step = "begin" /\ at.step \in Steps1
      /\ UNCHANGED <<fixed, bulk, freeze, files1, files2, outcome, history>>
  BY DEF Begin1, In, Steps1, Before1
<1>2. "v1" \in use /\ Told1 /\ at \in Sessions
  BY <1>1, AtV1
<1>3. SUFFICES SessionTold'
  BY <1>1, SessionMoves DEF bulk, IInv, Shape
<1>4. CASE Stop
  BY <1>4, Ending DEF Stop
<1>5. CASE Go("selectA") /\ freeze = Nil
  <2>1. at' \in Sessions /\ at'.nb = "v1" /\ at'.step = "selectA" /\ at'.tr = at.tr /\ at'.rc = at.rc
    BY <1>1, <1>5, Going1 DEF Steps1, Before1
  <2>2. Told1'
    BY <1>1, <1>2, <1>5, <2>1 DEF Told1, Steps1, Before1, Bulk, Segment
  <2> QED BY <1>1, <1>2, <2>1, <2>2 DEF SessionTold
<1>6. CASE Go("finish") /\ creceipt["v1"] # Nil
  <2>1. at' \in Sessions /\ at'.nb = "v1" /\ at'.step = "finish" /\ at'.tr = at.tr /\ at'.rc = at.rc
    BY <1>1, <1>6, Going1 DEF Steps1
  <2>2. Told1'
    BY <1>1, <1>2, <1>6, <2>1 DEF Told1, Steps1, Before1, Bulk, Segment
  <2> QED BY <1>1, <1>2, <2>1, <2>2 DEF SessionTold
<1>7. CASE Reboot /\ ledger["v1"] # Nil /\ creceipt["v1"] = Nil
  <2>1. phase.rc \in Nat /\ announced \in Nat /\ announced > 0 /\ announced = phase.rc + 1
    <3>1. phase.rc \in Nat /\ announced \in Nat /\ announced > 0
      BY <1>7 DEF IInv, Shape, Counted
    <3> QED BY <1>7, <3>1 DEF IInv, Counted
  <2>2. at' \in Sessions /\ at'.nb = "v1" /\ at'.step = "reboot" /\ at'.tr = TRUE /\ at'.rc = announced
    BY <1>7, <2>1 DEF Reboot, Sessions, Steps1
  <2>3. Told1'
    <3>1. announced < MaxBegun /\ final["v1"] = Nil
      BY <1>1, <1>2 DEF Told1, Before1
    <3>2. at'.step \notin Before1 /\ at'.step \in Steps1
      BY <2>2 DEF Steps1, Before1, Bulk, Segment
    <3> QED BY <1>1, <1>7, <2>1, <2>2, <3>1, <3>2 DEF Told1
  <2> QED BY <1>1, <1>2, <2>2, <2>3 DEF SessionTold
<1>8. CASE Retry(phase.rc) /\ freeze # Nil /\ ledger["v1"] = Nil /\ creceipt["v1"] = Nil
  <2>1. /\ phase.rc \in Nat /\ announced \in Nat
        /\ phase.name = "C_OPEN_STARTED" => announced = phase.rc + 1
        /\ phase.name # "C_OPEN_STARTED" => announced = 0 /\ phase.rc = 0
    BY <1>8 DEF IInv, Shape, Counted
  <2>2. /\ at' \in Sessions /\ at'.nb = "v1" /\ at'.step = "announce" /\ at'.rc = announced
        /\ at'.tr <=> announced > 0
    <3>1. CASE phase.name = "C_OPEN_STARTED"
      BY <1>8, <2>1, <3>1 DEF Retry, Sessions, Steps1
    <3>2. CASE phase.name # "C_OPEN_STARTED"
      BY <1>8, <2>1, <3>2 DEF Retry, Sessions, Steps1
    <3> QED BY <3>1, <3>2
  <2>3. Told1'
    <3>1. announced < MaxBegun /\ final["v1"] = Nil
      BY <1>1, <1>2 DEF Told1, Before1
    <3>2. at'.step \notin Before1 /\ at'.step \in Steps1
      BY <2>2 DEF Steps1, Before1, Bulk, Segment
    <3> QED BY <1>1, <1>8, <2>1, <2>2, <3>1, <3>2 DEF Told1
  <2> QED BY <1>1, <1>2, <2>2, <2>3 DEF SessionTold
<1> QED BY <1>4, <1>5, <1>6, <1>7, <1>8 DEF Begin1, Resume1

LEMMA SelectA1Keeps == ASSUME IInv, SelectA1 PROVE IInv'
<1> USE DEF fixed, outcome, history, files1, files2
<1>1. /\ at.nb = "v1" /\ at.step = "selectA" /\ at.step \in Steps1
      /\ UNCHANGED <<fixed, bulk, freeze, blog, files2, outcome, history>>
  BY DEF SelectA1, In, Steps1, Before1
<1>2. use = {"v1"} /\ Told1 /\ at \in Sessions
  BY <1>1, AtV1
<1>3. CASE Stop /\ UNCHANGED phase
  BY <1>1, <1>3, Ending, SessionMoves DEF Stop, bulk, IInv, Shape
<1>4. CASE /\ phase' = [name |-> "A_COMPLETE", rc |-> 0]
           /\ Go(IF pick["v1"] = "NO_A" THEN "halt" ELSE "selectB")
  <2> USE <1>1, <1>2, <1>4
  <2>1. /\ at' \in Sessions /\ at'.nb = "v1" /\ at'.tr = at.tr /\ at'.rc = at.rc
        /\ at'.step = IF pick["v1"] = "NO_A" THEN "halt" ELSE "selectB"
    BY Going1 DEF Steps1, Before1
  <2>2. Shape'
    BY DEF IInv, Shape, bulk
  <2>3. FilesAgree'
    BY DEF IInv, FilesAgree, Fits1
  <2>4. Counted'
    <3>1. freeze = Nil
      BY DEF Told1
    <3>2. ledger["v1"] = Nil /\ creceipt["v1"] = Nil /\ announced = 0
      BY <3>1 DEF IInv, Shape, FilesAgree, Counted, Opened
    <3> QED BY <3>1, <3>2 DEF IInv, Counted, Opened
  <2>5. Told1'
    BY <2>1 DEF Told1, Steps1, Before1, Bulk, Segment, Halt
  <2> QED BY <2>1, <2>2, <2>3, <2>4, <2>5 DEF IInv, SessionTold
<1> QED BY <1>3, <1>4 DEF SelectA1

LEMMA SelectB1Keeps == ASSUME IInv, SelectB1 PROVE IInv'
<1> USE DEF fixed, outcome, history, files1, files2
<1>1. /\ at.nb = "v1" /\ at.step = "selectB" /\ at.step \in Steps1
      /\ UNCHANGED <<fixed, bulk, blog, files2, outcome, history>>
  BY DEF SelectB1, In, Steps1, Before1
<1>2. use = {"v1"} /\ Told1 /\ at \in Sessions
  BY <1>1, AtV1
<1>3. CASE Stop /\ UNCHANGED <<phase, freeze>>
  BY <1>1, <1>3, Ending, SessionMoves DEF Stop, bulk, IInv, Shape
<1>4. CASE /\ phase' = [name |-> "B_COMPLETE_NO_PASS", rc |-> 0] /\ pick["v1"] = "NO_B"
           /\ Go("halt") /\ UNCHANGED freeze
  <2> USE <1>1, <1>2, <1>4
  <2>1. at' \in Sessions /\ at'.nb = "v1" /\ at'.tr = at.tr /\ at'.rc = at.rc /\ at'.step = "halt"
    BY Going1 DEF Steps1, Before1
  <2>2. Shape'
    BY DEF IInv, Shape, bulk
  <2>3. FilesAgree'
    BY DEF IInv, FilesAgree, Fits1
  <2>4. Counted'
    <3>1. freeze = Nil
      BY DEF Told1
    <3>2. ledger["v1"] = Nil /\ creceipt["v1"] = Nil /\ announced = 0
      BY <3>1 DEF IInv, Shape, FilesAgree, Counted, Opened
    <3> QED BY <3>1, <3>2 DEF IInv, Counted, Opened
  <2>5. Told1'
    BY <2>1 DEF Told1, Steps1, Before1, Bulk, Segment, Halt
  <2> QED BY <2>1, <2>2, <2>3, <2>4, <2>5 DEF IInv, SessionTold
<1>5. CASE /\ freeze' = [by |-> "v1", cid |-> pick["v1"]] /\ pick["v1"] # "NO_B"
           /\ Go("frozen") /\ UNCHANGED phase
  <2> USE <1>1, <1>2, <1>5
  <2>1. at' \in Sessions /\ at'.nb = "v1" /\ at'.tr = at.tr /\ at'.rc = at.rc /\ at'.step = "frozen"
    BY Going1 DEF Steps1, Before1
  <2>2. pick["v1"] \in Config /\ freeze' \in Freeze /\ freeze' # Nil /\ freeze = Nil
        /\ freeze'.by = "v1" /\ freeze'.cid = pick["v1"]
    <3>1. pick["v1"] \in Config /\ freeze = Nil
      BY DEF IInv, Shape, Told1, Halt
    <3>2. [by |-> "v1", cid |-> pick["v1"]] \in Freeze
      BY <3>1 DEF Freeze
    <3> QED BY <3>1, <3>2
  <2>3. ledger["v1"] = Nil /\ creceipt["v1"] = Nil /\ ledger["v2"] = Nil /\ creceipt["v2"] = Nil
        /\ lock = Nil /\ abr = Nil /\ announced = 0
    BY <2>2 DEF IInv, Shape, FilesAgree, Counted, Opened
  <2>4. Shape'
    BY <2>2, <2>3 DEF IInv, Shape, bulk
  <2>5. FilesAgree'
    BY <2>2, <2>3 DEF IInv, Shape, FilesAgree, Told1
  <2>6. Counted'
    BY <2>2, <2>3 DEF IInv, Counted
  <2>7. Told1'
    BY <2>1, <2>2, <2>3 DEF Told1, Steps1, Before1, Bulk, Segment
  <2> QED BY <2>1, <2>4, <2>5, <2>6, <2>7 DEF IInv, SessionTold
<1> QED BY <1>3, <1>4, <1>5 DEF SelectB1

LEMMA Halt1Keeps == ASSUME IInv, Halt1 PROVE IInv'
<1> USE DEF fixed, history, files1, files2
<1>1. at.nb = "v1" /\ at.step = "halt" /\ at.step \in Steps1
      /\ UNCHANGED <<fixed, bulk, freeze, files1, files2, ledger, creceipt, history>>
  BY DEF Halt1, In, Steps1, Before1
<1>2. use = {"v1"} /\ freeze = Nil /\ pick["v1"] \in Halt
  BY <1>1, AtV1 DEF Told1
<1>3. SessionTold'
  BY Ending DEF Halt1, Stop
<1>4. final' \in [{"v1", "v2"} -> Config \cup Halt \cup {Nil}]
      /\ final'["v1"] \in Halt /\ final'["v2"] = Nil
  BY <1>1, <1>2 DEF Halt1, IInv, Shape
<1>5. Shape'
  BY <1>1, <1>2, <1>4 DEF IInv, Shape, bulk
<1>6. FilesAgree'
  BY <1>1, <1>2, <1>4 DEF IInv, FilesAgree, Fits1
<1>7. Counted'
  BY <1>1 DEF IInv, Counted
<1> QED BY <1>3, <1>5, <1>6, <1>7 DEF IInv

LEMMA Frozen1Keeps == ASSUME IInv, Frozen1 PROVE IInv'
<1> USE DEF fixed, outcome, history, files1, files2
<1>1. /\ at.nb = "v1" /\ at.step = "frozen" /\ at.step \in Steps1
      /\ UNCHANGED <<fixed, bulk, freeze, blog, files2, outcome, history>>
      /\ phase' = [name |-> "FINAL_CONFIG_FROZEN", rc |-> 0] /\ Go("announce")
  BY DEF Frozen1, In, Steps1, Before1
<1>2. use = {"v1"} /\ Told1 /\ at \in Sessions
  BY <1>1, AtV1
<1>3. at' \in Sessions /\ at'.nb = "v1" /\ at'.tr = at.tr /\ at'.rc = at.rc /\ at'.step = "announce"
  BY <1>1, Going1 DEF Steps1
<1>4. /\ freeze # Nil /\ ledger["v1"] = Nil /\ creceipt["v1"] = Nil /\ announced = 0
      /\ at.rc = 0 /\ ~at.tr /\ final["v1"] = Nil /\ announced < MaxBegun
  BY <1>1, <1>2 DEF Told1, Before1
<1>5. Shape'
  BY <1>1, <1>2 DEF IInv, Shape, bulk, Opened
<1>6. FilesAgree'
  BY <1>1 DEF IInv, FilesAgree, Fits1
<1>7. Counted'
  BY <1>1, <1>2, <1>4 DEF IInv, Counted, Opened
<1>8. Told1'
  <2>1. at'.step \notin Before1 /\ at'.step \in Steps1
    BY <1>3 DEF Steps1, Before1, Bulk, Segment
  <2> QED BY <1>1, <1>3, <1>4, <2>1 DEF Told1
<1> QED BY <1>1, <1>2, <1>3, <1>5, <1>6, <1>7, <1>8 DEF IInv, SessionTold

LEMMA Announce1Keeps == ASSUME IInv, Announce1 PROVE IInv'
<1> USE DEF fixed, outcome, history, files1, files2
<1>1. /\ at.nb = "v1" /\ at.step \in {"announce", "reboot"} /\ at.step \in Steps1
      /\ UNCHANGED <<fixed, bulk, freeze, blog, files2, outcome, opens, scored>>
      /\ phase' = [name |-> "C_OPEN_STARTED", rc |-> at.rc] /\ announced' = announced + 1
      /\ Go(IF at.step = "announce" THEN "open" ELSE "boot")
  BY DEF Announce1, Announced, Steps1
<1>2. use = {"v1"} /\ Told1 /\ at \in Sessions
  BY <1>1, AtV1
<1>3. /\ at' \in Sessions /\ at'.nb = "v1" /\ at'.tr = at.tr /\ at'.rc = at.rc
      /\ at'.step = IF at.step = "announce" THEN "open" ELSE "boot"
  BY <1>1, Going1 DEF Steps1
<1>4. /\ creceipt["v1"] = Nil /\ at.rc = announced /\ (at.tr <=> announced > 0)
      /\ final["v1"] = Nil /\ announced < MaxBegun /\ announced \in Nat
  BY <1>1, <1>2 DEF IInv, Shape, Told1
<1>5. freeze # Nil
  BY <1>1, <1>2 DEF IInv, Shape, FilesAgree, Told1
<1>6. Shape'
  <2>1. /\ phase' \in [name : {"", "A_COMPLETE", "B_COMPLETE_NO_PASS"} \cup Opened, rc : Nat]
        /\ announced' \in Nat
    BY <1>1, <1>4 DEF Opened
  <2> QED BY <1>1, <1>2, <2>1 DEF IInv, Shape, bulk
<1>7. FilesAgree'
  BY <1>1 DEF IInv, FilesAgree, Fits1
<1>8. Counted'
  BY <1>1, <1>2, <1>4, <1>5 DEF IInv, Counted
<1>9. Told1'
  <2>1. /\ at'.step \notin Before1 \cup {"announce", "reboot", "finish", "close", "creceipt"}
        /\ at'.step \in Steps1 /\ at'.rc <= MaxBegun
    BY <1>3, <1>2 DEF Steps1, Before1, Bulk, Segment, Told1
  <2>2. announced' > 0 /\ at'.rc = announced' - 1 /\ (at'.tr <=> announced' > 1)
    BY <1>1, <1>3, <1>4
  <2>3. at.step = "announce" => ledger["v1"] = Nil
    BY <1>2 DEF Told1
  <2>4. at.step = "reboot" => ledger["v1"] # Nil
    BY <1>2 DEF Told1
  <2> QED BY <1>1, <1>3, <1>4, <1>5, <2>1, <2>2, <2>3, <2>4 DEF Told1, Before1
<1> QED BY <1>1, <1>2, <1>3, <1>6, <1>7, <1>8, <1>9 DEF IInv, SessionTold

LEMMA Open1Keeps == ASSUME IInv, Open1 PROVE IInv'
<1> USE DEF fixed, outcome, history, files1, files2
<1>1. /\ at.nb = "v1" /\ at.step = "open" /\ at.step \in Steps1
      /\ UNCHANGED <<fixed, bulk, freeze, files1, files2, outcome, announced, scored>>
  BY DEF Open1, In, Steps1
<1>2. use = {"v1"} /\ Told1 /\ at \in Sessions
  BY <1>1, AtV1
<1>3. opens' \in Nat
  <2>1. opens \in Nat
    BY DEF IInv, Shape
  <2>2. opens' \in {opens, opens + 1}
    BY DEF Open1
  <2> QED BY <2>1, <2>2
<1>4. SessionTold'
  <2>1. CASE Stop
    BY <2>1, Ending DEF Stop
  <2>2. CASE Go("ledger")
    <3>1. at' \in Sessions /\ at'.nb = "v1" /\ at'.tr = at.tr /\ at'.rc = at.rc /\ at'.step = "ledger"
      BY <1>1, <2>2, Going1 DEF Steps1
    <3>2. Told1'
      BY <1>1, <1>2, <3>1 DEF Told1, Steps1, Before1, Bulk, Segment
    <3> QED BY <1>1, <1>2, <3>1, <3>2 DEF SessionTold
  <2> QED BY <2>1, <2>2 DEF Open1
<1>5. Shape'
  BY <1>1, <1>3 DEF IInv, Shape, bulk
<1>6. FilesAgree'
  BY <1>1 DEF IInv, FilesAgree, Fits1
<1>7. Counted'
  <2>1. freeze # Nil
    BY <1>1, <1>2 DEF Told1
  <2> QED BY <1>1, <1>2, <2>1 DEF IInv, Counted
<1> QED BY <1>4, <1>5, <1>6, <1>7 DEF IInv

LEMMA Ledger1Keeps == ASSUME IInv, Ledger("v1") PROVE IInv'
<1> USE DEF fixed, history, files1, files2
<1>1. /\ at.nb = "v1" /\ at.step = "ledger" /\ at.step \in Steps1
      /\ ledger' = [ledger EXCEPT !["v1"] = freeze.cid] /\ scored' = scored + 1 /\ Go("boot")
      /\ UNCHANGED <<fixed, bulk, freeze, files1, files2, creceipt, final, opens, announced>>
  BY DEF Ledger, In, Steps1
<1>2. use = {"v1"} /\ Told1 /\ at \in Sessions
  BY <1>1, AtV1
<1>3. at' \in Sessions /\ at'.nb = "v1" /\ at'.tr = at.tr /\ at'.rc = at.rc /\ at'.step = "boot"
  BY <1>1, Going1 DEF Steps1
<1>4. /\ freeze # Nil /\ ledger["v1"] = Nil /\ creceipt["v1"] = Nil /\ announced > 0
      /\ freeze.cid \in Config
  BY <1>1, <1>2 DEF Told1, IInv, FilesAgree
<1>5. /\ ledger' \in [{"v1", "v2"} -> Config \cup {Nil}] /\ ledger'["v1"] = freeze.cid
      /\ ledger'["v2"] = Nil /\ ledger["v2"] = Nil /\ freeze.cid # Nil
  BY <1>1, <1>2, <1>4 DEF IInv, Shape
<1>6. Shape'
  <2>1. scored \in Nat
    BY DEF IInv, Shape
  <2>2. scored' \in Nat
    BY <1>1, <2>1
  <2> QED BY <1>1, <1>2, <1>5, <2>2 DEF IInv, Shape, bulk
<1>7. FilesAgree'
  <2>1. scored = 0 /\ creceipt["v2"] = Nil
    BY <1>2, <1>4, <1>5 DEF IInv, FilesAgree
  <2> QED BY <1>1, <1>2, <1>4, <1>5, <2>1 DEF IInv, FilesAgree
<1>8. Counted'
  BY <1>1, <1>2, <1>4 DEF IInv, Counted
<1>9. Told1'
  BY <1>1, <1>2, <1>3, <1>4, <1>5 DEF Told1, Steps1, Before1, Bulk, Segment
<1> QED BY <1>1, <1>2, <1>3, <1>6, <1>7, <1>8, <1>9 DEF IInv, SessionTold

LEMMA Boot1Keeps == ASSUME IInv, Boot1 \/ Booted1 PROVE IInv'
<1> USE DEF fixed, outcome, history, files2
<1>1. /\ at.nb = "v1" /\ at.step \in {"boot", "booting"} /\ at.step \in Steps1
      /\ UNCHANGED <<fixed, bulk, freeze, phase, files2, outcome, history>>
      /\ blog' \in BatchOrder \cup {"half"}
  BY DEF Boot1, Booted1, In, Steps1
<1>2. use = {"v1"} /\ Told1 /\ at \in Sessions
  BY <1>1, AtV1
<1>3. creceipt["v1"] = Nil
  BY <1>1, <1>2 DEF Told1
<1>4. SessionTold'
  <2>1. CASE Stop
    BY <2>1, Ending DEF Stop
  <2>2. CASE Go("booting")
    <3>1. at' \in Sessions /\ at'.nb = "v1" /\ at'.tr = at.tr /\ at'.rc = at.rc /\ at'.step = "booting"
      BY <1>1, <2>2, Going1 DEF Steps1
    <3>2. Told1'
      BY <1>1, <1>2, <3>1 DEF Told1, Steps1, Before1, Bulk, Segment
    <3> QED BY <1>1, <1>2, <3>1, <3>2 DEF SessionTold
  <2>3. CASE Go("creceipt") /\ blog' \in BatchOrder
    <3>1. at' \in Sessions /\ at'.nb = "v1" /\ at'.tr = at.tr /\ at'.rc = at.rc /\ at'.step = "creceipt"
      BY <1>1, <2>3, Going1 DEF Steps1
    <3>2. Told1'
      BY <1>1, <1>2, <2>3, <3>1 DEF Told1, Steps1, Before1, Bulk, Segment
    <3> QED BY <1>1, <1>2, <3>1, <3>2 DEF SessionTold
  <2> QED BY <2>1, <2>2, <2>3 DEF Boot1, Booted1
<1>5. Shape'
  BY <1>1 DEF IInv, Shape, bulk
<1>6. FilesAgree'
  BY <1>1, <1>3 DEF IInv, FilesAgree
<1>7. Counted'
  BY <1>1 DEF IInv, Counted
<1> QED BY <1>4, <1>5, <1>6, <1>7 DEF IInv

LEMMA Receipt1Keeps == ASSUME IInv, Receipt1 PROVE IInv'
<1> USE DEF fixed, history, files1, files2
<1> DEFINE r == [freeze |-> freeze, ledger |-> ledger["v1"], blog |-> blog, tr |-> at.tr, rc |-> at.rc]
<1>1. /\ at.nb = "v1" /\ at.step = "creceipt" /\ at.step \in Steps1
      /\ creceipt' = [creceipt EXCEPT !["v1"] = r] /\ Go("finish")
      /\ UNCHANGED <<fixed, bulk, freeze, files1, files2, ledger, final, history>>
  BY DEF Receipt1, In, Steps1
<1>2. use = {"v1"} /\ Told1 /\ at \in Sessions
  BY <1>1, AtV1
<1>3. at' \in Sessions /\ at'.nb = "v1" /\ at'.tr = at.tr /\ at'.rc = at.rc /\ at'.step = "finish"
  BY <1>1, Going1 DEF Steps1
<1>4. /\ ledger["v1"] # Nil /\ creceipt["v1"] = Nil /\ blog \in BatchOrder /\ final["v1"] = Nil
      /\ announced > 0 /\ at.rc = announced - 1 /\ (at.tr <=> announced > 1)
      /\ phase.name = "C_OPEN_STARTED" /\ at.rc <= MaxBegun
  BY <1>1, <1>2 DEF Told1
<1>5. freeze \in Freeze /\ freeze # Nil /\ ledger["v1"] \in Config /\ creceipt["v2"] = Nil
      /\ ledger["v2"] = Nil
  BY <1>2, <1>4 DEF IInv, Shape, FilesAgree
<1>6. r \in Receipt1Of
  BY <1>2, <1>4, <1>5 DEF Receipt1Of, Sessions
<1>7. r # Nil
  BY <1>6
<1>8. r.freeze = freeze /\ r.ledger = ledger["v1"] /\ r.blog = blog /\ r.tr = at.tr /\ r.rc = at.rc
  OBVIOUS
<1> HIDE DEF r
<1>9. /\ creceipt' \in [{"v1", "v2"} -> Receipt1Of \cup Receipt2Of \cup {Nil}]
      /\ creceipt'["v1"] = r /\ creceipt'["v2"] = Nil
  BY <1>1, <1>5, <1>6 DEF IInv, Shape
<1>10. Shape'
  BY <1>1, <1>6, <1>9 DEF IInv, Shape, bulk
<1>11. FilesAgree'
  BY <1>1, <1>4, <1>5, <1>7, <1>8, <1>9 DEF IInv, FilesAgree, Fits1
<1>12. Counted'
  BY <1>1, <1>2, <1>4, <1>5, <1>7, <1>8, <1>9 DEF IInv, Counted
<1>13. Told1'
  BY <1>1, <1>3, <1>4, <1>7, <1>9 DEF Told1, Steps1, Before1, Bulk, Segment
<1> QED BY <1>1, <1>2, <1>3, <1>10, <1>11, <1>12, <1>13 DEF IInv, SessionTold

LEMMA Finish1Keeps == ASSUME IInv, Finish1 PROVE IInv'
<1> USE DEF fixed, history, files1, files2
<1>1. /\ at.nb = "v1" /\ at.step = "finish" /\ at.step \in Steps1
      /\ UNCHANGED <<fixed, bulk, freeze, files1, files2, ledger, creceipt, history>>
  BY DEF Finish1, In, Steps1
<1>2. use = {"v1"} /\ Told1 /\ at \in Sessions /\ creceipt["v1"] # Nil
  BY <1>1, AtV1 DEF Told1
<1>3. CASE Stop /\ UNCHANGED final
  BY <1>1, <1>3, Ending, SessionMoves DEF Stop, bulk, IInv, Shape, outcome
<1>4. CASE final' = [final EXCEPT !["v1"] = freeze.cid] /\ Go("close")
  <2>1. at' \in Sessions /\ at'.nb = "v1" /\ at'.tr = at.tr /\ at'.rc = at.rc /\ at'.step = "close"
    BY <1>1, <1>4, Going1 DEF Steps1
  <2>2. freeze # Nil /\ freeze.cid \in Config
    BY <1>2 DEF IInv, FilesAgree
  <2>3. /\ final' \in [{"v1", "v2"} -> Config \cup Halt \cup {Nil}]
        /\ final'["v1"] = freeze.cid /\ final'["v2"] = final["v2"]
    BY <1>4, <2>2 DEF IInv, Shape
  <2>4. Shape'
    BY <1>1, <1>2, <2>3 DEF IInv, Shape, bulk
  <2>5. FilesAgree'
    <3>1. freeze.cid \notin Halt
      BY <2>2
    <3> QED BY <1>1, <1>2, <2>2, <2>3, <3>1 DEF IInv, FilesAgree, Fits1
  <2>6. Counted'
    BY <1>1 DEF IInv, Counted
  <2>7. Told1'
    BY <1>1, <1>2, <2>1 DEF Told1, Steps1, Before1, Bulk, Segment
  <2> QED BY <1>1, <1>2, <2>1, <2>4, <2>5, <2>6, <2>7 DEF IInv, SessionTold
<1> QED BY <1>3, <1>4 DEF Finish1

LEMMA Close1Keeps == ASSUME IInv, Close1 PROVE IInv'
<1> USE DEF fixed, outcome, history, files1, files2
<1>1. /\ at.nb = "v1" /\ at.step = "close" /\ at.step \in Steps1
      /\ UNCHANGED <<fixed, bulk, freeze, blog, files2, outcome, history>>
      /\ phase' = [name |-> "C_COMPLETE", rc |-> creceipt["v1"].rc]
  BY DEF Close1, In, Steps1
<1>2. use = {"v1"} /\ creceipt["v1"] # Nil
  BY <1>1, AtV1 DEF Told1
<1>3. creceipt["v1"].rc \in Nat /\ creceipt["v1"].rc = announced - 1 /\ announced \in Nat
  BY <1>2 DEF IInv, Shape, Counted, Receipt1Of
<1>4. freeze # Nil
  BY <1>2 DEF IInv, FilesAgree
<1>5. Shape'
  BY <1>1, <1>2, <1>3 DEF IInv, Shape, bulk, Opened
<1>6. FilesAgree'
  BY <1>1 DEF IInv, FilesAgree, Fits1
<1>7. Counted'
  BY <1>1, <1>2, <1>3, <1>4 DEF IInv, Counted
<1>8. SessionTold'
  BY Ending DEF Close1, Stop
<1> QED BY <1>5, <1>6, <1>7, <1>8 DEF IInv
-----------------------------------------------------------------------------
(* The evaluator v2.                                                       *)
LEMMA AtV2 == ASSUME IInv, at.nb = "v2", at.step \in Steps2
              PROVE  "v2" \in use /\ use = {"v2"} /\ Told2 /\ at \in Sessions /\ announced = 0
<1>1. at # Idle
  BY DEF Idle, Session, Steps2, Bulk, Segment
<1>2. at \in Sessions /\ "v2" \in use /\ Told2
  BY <1>1 DEF IInv, SessionTold
<1>3. use = {"v2"}
  BY <1>2 DEF IInv, Shape
<1> QED BY <1>2, <1>3 DEF IInv, Shape

LEMMA Going2 ==
    ASSUME IInv, at.nb = "v2", at.step \in Steps2, NEW s \in Steps2, Go(s)
    PROVE  /\ at' \in Sessions /\ at'.nb = "v2" /\ at'.step = s
           /\ at'.tr = at.tr /\ at'.rc = at.rc
  BY AtV2, Going

LEMMA BeginABKeeps == ASSUME IInv, BeginAB PROVE IInv'
<1> USE DEF fixed, outcome, history, files1, files2
<1>1. /\ at.nb = "v2" /\ at.step = "ab" /\ at.step \in Steps2
      /\ UNCHANGED <<fixed, bulk, freeze, files1, files2, outcome, history>>
  BY DEF BeginAB, In, Steps2
<1>2. use = {"v2"} /\ Told2
  BY <1>1, AtV2
<1>3. SUFFICES SessionTold'
  BY <1>1, SessionMoves DEF bulk, IInv, Shape
<1>4. CASE Stop
  BY <1>4, Ending DEF Stop
<1>5. CASE (Go("c") /\ freeze # Nil) \/ Go("select")
  <2>1. /\ at' \in Sessions /\ at'.nb = "v2" /\ at'.tr = at.tr /\ at'.rc = at.rc
        /\ at'.step \in {"c", "select"} /\ (at'.step = "c" => freeze # Nil)
    BY <1>1, <1>5, Going2 DEF Steps2
  <2>2. Told2'
    BY <1>1, <1>2, <2>1 DEF Told2, Steps2
  <2> QED BY <1>1, <1>2, <2>1, <2>2 DEF SessionTold
<1> QED BY <1>4, <1>5 DEF BeginAB

(* A selection that is made again is made as it was.                       *)
LEMMA SelectedAgain ==
    ASSUME IInv, Select2, freeze # Nil
    PROVE  pick["v2"] \in Config /\ freeze' = freeze
<1>1. at.nb = "v2" /\ at.step = "select" /\ at.step \in Steps2
  BY DEF Select2, In, Steps2
<1>2. freeze \in Freeze /\ freeze.by = "v2" /\ freeze.cid = pick["v2"] /\ pick["v2"] \in Config
  BY <1>1, AtV2 DEF IInv, Shape, FilesAgree
<1>3. freeze = [by |-> "v2", cid |-> pick["v2"]]
  BY <1>2 DEF Freeze
<1>4. pick["v2"] \notin Halt
  BY <1>2
<1> QED BY <1>2, <1>3, <1>4 DEF Select2

LEMMA Select2Keeps == ASSUME IInv, Select2 PROVE IInv'
<1> USE DEF fixed, outcome, history, files1, files2
<1>1. /\ at.nb = "v2" /\ at.step = "select" /\ at.step \in Steps2
      /\ UNCHANGED <<fixed, bulk, files1, lock, outcome, history>>
  BY DEF Select2, In, Steps2
<1>2. use = {"v2"} /\ Told2 /\ at \in Sessions /\ announced = 0
  BY <1>1, AtV2
<1>3. CASE freeze # Nil
  <2>1. /\ freeze' = freeze /\ Go("abr") /\ abr' = abr
    <3>1. pick["v2"] \notin Halt /\ freeze' = freeze
      BY <1>3, SelectedAgain
    <3> QED BY <3>1 DEF Select2
  <2>2. at' \in Sessions /\ at'.nb = "v2" /\ at'.step = "abr" /\ at'.tr = at.tr /\ at'.rc = at.rc
    BY <1>1, <2>1, Going2 DEF Steps2
  <2>3. Told2'
    BY <1>1, <1>2, <1>3, <2>1, <2>2 DEF Told2, Steps2
  <2>4. SessionTold'
    BY <1>1, <1>2, <2>2, <2>3 DEF SessionTold
  <2> QED BY <1>1, <2>1, <2>4, SessionMoves DEF bulk, IInv, Shape
<1>4. CASE freeze = Nil
  <2>1. /\ ledger["v1"] = Nil /\ ledger["v2"] = Nil /\ creceipt["v1"] = Nil /\ creceipt["v2"] = Nil
        /\ lock = Nil /\ abr = Nil /\ final["v1"] = Nil /\ final["v2"] = Nil /\ phase.name \notin Opened
    BY <1>2, <1>4 DEF IInv, Shape, FilesAgree, Counted, Told2, Opened
  <2>2. CASE pick["v2"] \in Halt
    <3>1. abr' = pick["v2"] /\ at' = Idle /\ freeze' = freeze
      BY <2>2 DEF Select2, Stop
    <3>2. Shape'
      BY <1>1, <1>2, <2>2, <3>1 DEF IInv, Shape, bulk
    <3>3. FilesAgree'
      BY <1>1, <1>4, <2>1, <2>2, <3>1 DEF IInv, FilesAgree
    <3>4. Counted'
      BY <1>1, <3>1 DEF IInv, Counted
    <3> QED BY <3>1, <3>2, <3>3, <3>4, Ending DEF IInv
  <2>3. CASE pick["v2"] \notin Halt
    <3>1. freeze' = [by |-> "v2", cid |-> pick["v2"]] /\ Go("abr") /\ abr' = abr
      BY <2>3 DEF Select2
    <3>2. /\ pick["v2"] \in Config /\ freeze' \in Freeze /\ freeze'.by = "v2"
          /\ freeze'.cid = pick["v2"]
      <4>1. pick["v2"] \in Config
        BY <2>3 DEF IInv, Shape
      <4> QED BY <3>1, <4>1 DEF Freeze
    <3>3. freeze' # Nil
      BY <3>2
    <3>4. at' \in Sessions /\ at'.nb = "v2" /\ at'.step = "abr" /\ at'.tr = at.tr /\ at'.rc = at.rc
      BY <1>1, <3>1, Going2 DEF Steps2
    <3>5. Shape'
      BY <1>1, <1>2, <2>1, <3>1, <3>2 DEF IInv, Shape, bulk
    <3>6. FilesAgree'
      BY <1>1, <1>2, <1>4, <2>1, <3>1, <3>2, <3>3 DEF IInv, FilesAgree
    <3>7. Counted'
      BY <1>1, <3>3 DEF IInv, Counted
    <3>8. Told2'
      BY <1>1, <1>2, <2>1, <3>1, <3>3, <3>4 DEF Told2, Steps2
    <3> QED BY <1>1, <1>2, <3>4, <3>5, <3>6, <3>7, <3>8 DEF IInv, SessionTold
  <2> QED BY <2>2, <2>3
<1> QED BY <1>3, <1>4

LEMMA ReceiptABKeeps == ASSUME IInv, ReceiptAB PROVE IInv'
<1> USE DEF fixed, outcome, history, files1, files2
<1>1. /\ at.nb = "v2" /\ at.step = "abr" /\ at.step \in Steps2 /\ abr' = freeze.cid /\ Go("c")
      /\ UNCHANGED <<fixed, bulk, freeze, files1, lock, outcome, history>>
  BY DEF ReceiptAB, In, Steps2
<1>2. use = {"v2"} /\ Told2 /\ at \in Sessions /\ announced = 0
  BY <1>1, AtV2
<1>3. freeze # Nil /\ freeze.cid \in Config
  BY <1>1, <1>2 DEF IInv, FilesAgree, Told2
<1>4. at' \in Sessions /\ at'.nb = "v2" /\ at'.step = "c" /\ at'.tr = at.tr /\ at'.rc = at.rc
  BY <1>1, Going2 DEF Steps2
<1>5. Shape'
  BY <1>1, <1>2, <1>3 DEF IInv, Shape, bulk
<1>6. FilesAgree'
  <2>1. freeze.cid \notin Halt
    BY <1>3
  <2> QED BY <1>1, <1>3, <2>1 DEF IInv, FilesAgree, Fits1
<1>7. Counted'
  BY <1>1 DEF IInv, Counted
<1>8. Told2'
  <2>1. abr' \notin Halt
    BY <1>1, <1>3
  <2> QED BY <1>1, <1>2, <1>3, <1>4, <2>1 DEF Told2, Steps2
<1> QED BY <1>1, <1>2, <1>4, <1>5, <1>6, <1>7, <1>8 DEF IInv, SessionTold

LEMMA BeginCKeeps == ASSUME IInv, BeginC PROVE IInv'
<1> USE DEF fixed, outcome, history, files1, files2
<1>1. /\ at.nb = "v2" /\ at.step = "c" /\ at.step \in Steps2
      /\ UNCHANGED <<fixed, bulk, freeze, files1, abr, outcome, history>>
  BY DEF BeginC, In, Steps2
<1>2. use = {"v2"} /\ Told2 /\ freeze # Nil
  BY <1>1, AtV2 DEF Told2
<1>3. CASE Stop /\ UNCHANGED lock
  BY <1>1, <1>3, Ending, SessionMoves DEF Stop, bulk, IInv, Shape
<1>4. CASE /\ at' = [nb |-> "v2", step |-> "load", tr |-> lock # Nil, rc |-> 0] /\ lock' = freeze
  <2>1. /\ at' \in Sessions /\ at'.nb = "v2" /\ at'.step = "load" /\ at'.rc = 0
        /\ at'.tr <=> lock # Nil
    <3>1. (lock # Nil) \in BOOLEAN
      OBVIOUS
    <3> QED BY <1>4, <3>1 DEF Sessions, Steps2
  <2>2. lock = Nil => opens = 0
    BY <1>2 DEF IInv, Counted
  <2>3. Shape'
    BY <1>1, <1>2, <1>4 DEF IInv, Shape, bulk
  <2>4. FilesAgree'
    BY <1>1 DEF IInv, FilesAgree, Fits1
  <2>5. Counted'
    BY <1>1, <1>2, <1>4 DEF IInv, Counted
  <2>6. Told2'
    BY <1>1, <1>2, <1>4, <2>1, <2>2 DEF Told2, Steps2
  <2> QED BY <1>1, <1>2, <2>1, <2>3, <2>4, <2>5, <2>6 DEF IInv, SessionTold
<1> QED BY <1>3, <1>4 DEF BeginC

LEMMA LoadCKeeps == ASSUME IInv, LoadC PROVE IInv'
<1> USE DEF fixed, outcome, history, files1, files2
<1>1. /\ at.nb = "v2" /\ at.step = "load" /\ at.step \in Steps2
      /\ UNCHANGED <<fixed, bulk, freeze, files1, files2, outcome, announced, scored>>
  BY DEF LoadC, In, Steps2
<1>2. /\ use = {"v2"} /\ Told2 /\ freeze # Nil /\ lock = freeze /\ (~at.tr => opens = 0)
      /\ opens \in Nat
  BY <1>1, AtV2 DEF Told2, IInv, Shape
<1>3. CASE Stop /\ UNCHANGED opens
  BY <1>1, <1>3, Ending, SessionMoves DEF Stop, bulk, IInv, Shape
<1>4. CASE ledger["v2"] # Nil /\ Go("boot") /\ UNCHANGED opens
  <2>1. at' \in Sessions /\ at'.nb = "v2" /\ at'.step = "boot" /\ at'.tr = at.tr /\ at'.rc = at.rc
    BY <1>1, <1>4, Going2 DEF Steps2
  <2>2. opens > 0
    BY <1>2, <1>4 DEF IInv, Counted
  <2>3. Told2'
    BY <1>1, <1>2, <1>4, <2>1, <2>2 DEF Told2, Steps2
  <2> QED BY <1>1, <1>2, <1>4, <2>1, <2>3, SessionMoves DEF bulk, IInv, Shape, SessionTold
<1>5. CASE ledger["v2"] = Nil /\ Go("ledger") /\ opens' = opens + 1
  <2>1. at' \in Sessions /\ at'.nb = "v2" /\ at'.step = "ledger" /\ at'.tr = at.tr /\ at'.rc = at.rc
    BY <1>1, <1>5, Going2 DEF Steps2
  <2>2. opens' \in Nat /\ opens' > 0 /\ (~at'.tr => opens' = 1)
    BY <1>2, <1>5, <2>1
  <2>3. creceipt["v2"] = Nil
    BY <1>5 DEF IInv, FilesAgree
  <2>4. Shape'
    BY <1>1, <2>2 DEF IInv, Shape, bulk
  <2>5. FilesAgree'
    BY <1>1 DEF IInv, FilesAgree, Fits1
  <2>6. Counted'
    BY <1>1, <1>2, <2>2, <2>3 DEF IInv, Counted
  <2>7. Told2'
    BY <1>1, <1>2, <1>5, <2>1, <2>2 DEF Told2, Steps2
  <2> QED BY <1>1, <1>2, <2>1, <2>4, <2>5, <2>6, <2>7 DEF IInv, SessionTold
<1> QED BY <1>3, <1>4, <1>5 DEF LoadC

LEMMA Ledger2Keeps == ASSUME IInv, Ledger("v2") PROVE IInv'
<1> USE DEF fixed, history, files1, files2
<1>1. /\ at.nb = "v2" /\ at.step = "ledger" /\ at.step \in Steps2
      /\ ledger' = [ledger EXCEPT !["v2"] = freeze.cid] /\ scored' = scored + 1 /\ Go("boot")
      /\ UNCHANGED <<fixed, bulk, freeze, files1, files2, creceipt, final, opens, announced>>
  BY DEF Ledger, In, Steps2
<1>2. use = {"v2"} /\ Told2 /\ at \in Sessions
  BY <1>1, AtV2
<1>3. at' \in Sessions /\ at'.nb = "v2" /\ at'.tr = at.tr /\ at'.rc = at.rc /\ at'.step = "boot"
  BY <1>1, Going2 DEF Steps2
<1>4. /\ freeze # Nil /\ freeze.cid \in Config /\ ledger["v2"] = Nil /\ opens > 0
      /\ (~at.tr => opens = 1)
  BY <1>1, <1>2 DEF Told2, IInv, FilesAgree
<1>5. /\ ledger' \in [{"v1", "v2"} -> Config \cup {Nil}] /\ ledger'["v2"] = freeze.cid
      /\ ledger'["v1"] = Nil /\ ledger["v1"] = Nil /\ freeze.cid # Nil
  BY <1>1, <1>2, <1>4 DEF IInv, Shape
<1>6. Shape'
  <2>1. scored \in Nat
    BY DEF IInv, Shape
  <2>2. scored' \in Nat
    BY <1>1, <2>1
  <2> QED BY <1>1, <1>2, <1>5, <2>2 DEF IInv, Shape, bulk
<1>7. FilesAgree'
  <2>1. scored = 0 /\ creceipt["v1"] = Nil /\ creceipt["v2"] = Nil
    BY <1>2, <1>4, <1>5 DEF IInv, FilesAgree
  <2> QED BY <1>1, <1>2, <1>4, <1>5, <2>1 DEF IInv, FilesAgree
<1>8. Counted'
  BY <1>1, <1>2, <1>4, <1>5 DEF IInv, Counted
<1>9. Told2'
  BY <1>1, <1>2, <1>3, <1>4, <1>5 DEF Told2, Steps2
<1> QED BY <1>1, <1>2, <1>3, <1>6, <1>7, <1>8, <1>9 DEF IInv, SessionTold

LEMMA BootCKeeps == ASSUME IInv, BootC PROVE IInv'
<1> USE DEF fixed, outcome, history, files1, files2
<1>1. /\ at.nb = "v2" /\ at.step = "boot" /\ at.step \in Steps2
      /\ UNCHANGED <<fixed, bulk, freeze, files1, files2, outcome, history>>
  BY DEF BootC, In, Steps2
<1>2. use = {"v2"} /\ Told2
  BY <1>1, AtV2
<1>3. SUFFICES SessionTold'
  BY <1>1, SessionMoves DEF bulk, IInv, Shape
<1>4. CASE Stop
  BY <1>4, Ending DEF Stop
<1>5. CASE Go("creceipt")
  <2>1. at' \in Sessions /\ at'.nb = "v2" /\ at'.step = "creceipt" /\ at'.tr = at.tr /\ at'.rc = at.rc
    BY <1>1, <1>5, Going2 DEF Steps2
  <2>2. Told2'
    BY <1>1, <1>2, <2>1 DEF Told2, Steps2
  <2> QED BY <1>1, <1>2, <2>1, <2>2 DEF SessionTold
<1> QED BY <1>4, <1>5 DEF BootC

LEMMA ReceiptCKeeps == ASSUME IInv, ReceiptC PROVE IInv'
<1> USE DEF fixed, history, files1, files2
<1> DEFINE r == [freeze |-> freeze, ledger |-> ledger["v2"], tr |-> at.tr]
<1>1. /\ at.nb = "v2" /\ at.step = "creceipt" /\ at.step \in Steps2
      /\ creceipt' = [creceipt EXCEPT !["v2"] = r] /\ Go("final")
      /\ UNCHANGED <<fixed, bulk, freeze, files1, files2, ledger, final, history>>
  BY DEF ReceiptC, In, Steps2
<1>2. use = {"v2"} /\ Told2 /\ at \in Sessions
  BY <1>1, AtV2
<1>3. at' \in Sessions /\ at'.nb = "v2" /\ at'.tr = at.tr /\ at'.rc = at.rc /\ at'.step = "final"
  BY <1>1, Going2 DEF Steps2
<1>4. /\ ledger["v2"] # Nil /\ freeze # Nil /\ lock = freeze /\ (~at.tr => opens = 1)
      /\ final["v2"] = Nil
  BY <1>1, <1>2 DEF Told2
<1>5. freeze \in Freeze /\ ledger["v2"] \in Config /\ ledger["v1"] = Nil /\ creceipt["v1"] = Nil
  BY <1>2, <1>4 DEF IInv, Shape, FilesAgree
<1>6. r \in Receipt2Of
  BY <1>2, <1>5 DEF Receipt2Of, Sessions
<1>7. r # Nil
  BY <1>6
<1>8. r.freeze = freeze /\ r.ledger = ledger["v2"] /\ r.tr = at.tr
  OBVIOUS
<1> HIDE DEF r
<1>9. /\ creceipt' \in [{"v1", "v2"} -> Receipt1Of \cup Receipt2Of \cup {Nil}]
      /\ creceipt'["v2"] = r /\ creceipt'["v1"] = Nil
  BY <1>1, <1>5, <1>6 DEF IInv, Shape
<1>10. Shape'
  BY <1>1, <1>6, <1>9 DEF IInv, Shape, bulk
<1>11. FilesAgree'
  BY <1>1, <1>4, <1>5, <1>7, <1>8, <1>9 DEF IInv, FilesAgree
<1>12. Counted'
  BY <1>1, <1>2, <1>4, <1>5, <1>7, <1>8, <1>9 DEF IInv, Counted
<1>13. Told2'
  BY <1>1, <1>2, <1>3, <1>4, <1>7, <1>9 DEF Told2, Steps2
<1> QED BY <1>1, <1>2, <1>3, <1>10, <1>11, <1>12, <1>13 DEF IInv, SessionTold

LEMMA FinalCKeeps == ASSUME IInv, FinalC PROVE IInv'
<1> USE DEF fixed, history, files1, files2
<1>1. /\ at.nb = "v2" /\ at.step = "final" /\ at.step \in Steps2
      /\ final' = [final EXCEPT !["v2"] = freeze.cid] /\ at' = Idle
      /\ UNCHANGED <<fixed, bulk, freeze, files1, files2, ledger, creceipt, history>>
  BY DEF FinalC, In, Steps2, Stop
<1>2. use = {"v2"} /\ freeze # Nil /\ creceipt["v2"] # Nil /\ freeze.cid \in Config
  BY <1>1, AtV2 DEF Told2, IInv, FilesAgree
<1>3. /\ final' \in [{"v1", "v2"} -> Config \cup Halt \cup {Nil}]
      /\ final'["v2"] = freeze.cid /\ final'["v1"] = final["v1"] /\ freeze.cid \notin Halt
  BY <1>1, <1>2 DEF IInv, Shape
<1>4. Shape'
  BY <1>1, <1>2, <1>3 DEF IInv, Shape, bulk
<1>5. FilesAgree'
  BY <1>1, <1>2, <1>3 DEF IInv, FilesAgree, Fits1
<1>6. Counted'
  BY <1>1 DEF IInv, Counted
<1> QED BY <1>1, <1>4, <1>5, <1>6, Ending DEF IInv
-----------------------------------------------------------------------------
LEMMA InitIInv == ASSUME OneNotebookEach, Init PROVE IInv
<1>1. use \in {{"v1"}, {"v2"}}
  BY DEF OneNotebookEach, Init
<1>2. at = Idle
  BY DEF Init
<1>3. SessionTold
  <2>1. Idle \in Sessions
    BY DEF Idle, Session, Sessions
  <2> QED BY <1>2, <2>1 DEF SessionTold
<1> USE DEF Init
<1>4. Shape
  BY <1>1 DEF Shape
<1>5. FilesAgree
  BY <1>1 DEF FilesAgree
<1>6. Counted
  <2>1. phase.rc = 0 /\ announced = 0 /\ opens = 0
    OBVIOUS
  <2>2. /\ phase.name \notin Opened /\ creceipt["v1"] = Nil /\ creceipt["v2"] = Nil
        /\ ledger["v1"] = Nil /\ ledger["v2"] = Nil
    BY DEF Opened
  <2> HIDE DEF Init
  <2>3. announced <= MaxBegun /\ phase.rc <= announced
    BY <2>1
  <2> QED BY <2>1, <2>2, <2>3 DEF Counted, Opened
<1> QED BY <1>3, <1>4, <1>5, <1>6 DEF IInv

LEMMA NextKeeps == ASSUME IInv, [Next]_trialVars PROVE IInv'
<1>1. CASE Notebook1 \/ Notebook2 \/ Overwrite \/ Cut
  BY <1>1, NotebooksKeep
<1>2. CASE SettleBegin \/ Unlink \/ Publish \/ Receipt
  BY <1>2, SettlementKeeps
<1>3. CASE Evaluator1
  BY <1>3, Begin1Keeps, SelectA1Keeps, SelectB1Keeps, Halt1Keeps, Frozen1Keeps, Announce1Keeps,
     Open1Keeps, Boot1Keeps, Receipt1Keeps, Finish1Keeps, Close1Keeps DEF Evaluator1
<1>4. CASE Evaluator2
  BY <1>4, BeginABKeeps, Select2Keeps, ReceiptABKeeps, BeginCKeeps, LoadCKeeps, BootCKeeps,
     ReceiptCKeeps, FinalCKeeps DEF Evaluator2
<1>5. CASE \E e \in {"v1", "v2"} : Ledger(e)
  BY <1>5, Ledger1Keeps, Ledger2Keeps
<1>6. CASE UNCHANGED trialVars
  <2>1. SessionTold'
    BY <1>6 DEF IInv, SessionTold, Told1, Told2, trialVars, fixed, files1, files2, outcome, history
  <2> QED BY <1>6, <2>1, SessionMoves DEF trialVars, bulk, IInv, Shape
<1> QED BY <1>1, <1>2, <1>3, <1>4, <1>5, <1>6 DEF Next, Script

LEMMA FilesTold == ASSUME IInv PROVE TrialInvariant
<1> USE DEF IInv
<1>1. TrialTypeOK
  <2>1. /\ at.rc <= MaxBegun
    <3>1. CASE at = Idle
      BY <3>1 DEF Idle, Session
    <3>2. CASE at # Idle /\ at.nb # "owner"
      BY <3>2 DEF SessionTold, Told1, Told2
    <3>3. CASE at # Idle /\ at.nb = "owner"
      BY <3>3 DEF SessionTold
    <3> QED BY <3>1, <3>2, <3>3
  <2>2. phase.rc \in 0..MaxBegun
    <3>1. phase.rc \in Nat /\ announced \in Nat
      BY DEF Shape
    <3> QED BY <3>1 DEF Counted
  <2>3. phase \in [name : {"", "A_COMPLETE", "B_COMPLETE_NO_PASS"} \cup Opened, rc : 0..MaxBegun]
    BY <2>2 DEF Shape
  <2>4. \A e \in {"v1", "v2"} : /\ ledger[e] \in Config \cup {Nil}
                                /\ final[e] \in Config \cup Halt \cup {Nil}
    <3>1. /\ ledger \in [{"v1", "v2"} -> Config \cup {Nil}]
          /\ final \in [{"v1", "v2"} -> Config \cup Halt \cup {Nil}]
      BY DEF Shape
    <3> QED BY <3>1, Zenon
  <2>5. /\ settled \subseteq Segment /\ sreceipt \subseteq {"quality", "receipt"}
        /\ freeze \in Freeze \cup {Nil} /\ blog \in BatchOrder \cup {"half", Nil}
        /\ creceipt["v1"] \in Receipt1Of \cup {Nil} /\ creceipt["v2"] \in Receipt2Of \cup {Nil}
        /\ abr \in Config \cup Halt \cup {Nil} /\ lock \in {Nil, freeze}
    BY DEF Shape
  <2> HIDE DEF IInv
  <2> QED BY <2>1, <2>3, <2>4, <2>5 DEF TrialTypeOK
<1>2. ScoredOnce
  BY DEF ScoredOnce, FilesAgree
<1>3. ResumesTold
  <2>1. creceipt["v2"] # Nil => "v2" \in use
    BY DEF Shape, FilesAgree
  <2> QED BY <2>1 DEF ResumesTold, Counted
<1>4. ReceiptFits
  BY DEF ReceiptFits, FilesAgree
<1> QED BY <1>1, <1>2, <1>3, <1>4 DEF TrialInvariant

(* Only two steps read segment C, only two write the freeze.               *)
LEMMA StepInOrder ==
    ASSUME IInv, [Next]_trialVars
    PROVE  /\ opens' > opens => /\ freeze # Nil /\ freeze' = freeze
                                /\ \A e \in {"v1", "v2"} : creceipt[e] = Nil
           /\ opens > 0 => freeze' = freeze
<1>0. opens \in Nat
  BY DEF IInv, Shape
<1>1. CASE Open1 \/ LoadC
  <2>1. freeze' = freeze
    BY <1>1 DEF Open1, LoadC
  <2>2. CASE Open1
    <3>1. at.nb = "v1" /\ at.step = "open" /\ at.step \in Steps1
      BY <2>2 DEF Open1, In, Steps1
    <3> QED BY <2>1, <3>1, AtV1 DEF Told1, IInv, Shape, FilesAgree
  <2>3. CASE LoadC
    <3>1. at.nb = "v2" /\ at.step = "load" /\ at.step \in Steps2
      BY <2>3 DEF LoadC, In, Steps2
    <3>2. use = {"v2"} /\ freeze # Nil
      BY <3>1, AtV2 DEF Told2
    <3>3. CASE ledger["v2"] = Nil
      BY <2>1, <3>2, <3>3 DEF IInv, Shape, FilesAgree
    <3>4. CASE opens' = opens
      BY <1>0, <2>1, <3>4
    <3> QED BY <2>3, <3>3, <3>4 DEF LoadC
  <2> QED BY <1>1, <2>2, <2>3
<1>2. CASE SelectB1
  <2>1. at.nb = "v1" /\ at.step = "selectB" /\ at.step \in Steps1 /\ opens' = opens
    BY <1>2 DEF SelectB1, In, Steps1, Before1, history
  <2>2. opens = 0
    BY <1>0, <2>1, AtV1 DEF Told1, IInv, Counted
  <2> QED BY <2>1, <2>2
<1>3. CASE Select2
  <2>1. opens' = opens
    BY <1>3 DEF Select2, history
  <2>2. CASE freeze = Nil
    BY <1>0, <2>1, <2>2 DEF IInv, Counted
  <2>3. CASE freeze # Nil
    BY <1>0, <1>3, <2>1, <2>3, SelectedAgain
  <2> QED BY <2>2, <2>3
<1>4. CASE ~(Open1 \/ LoadC \/ SelectB1 \/ Select2)
  <2>1. UNCHANGED <<freeze, opens>>
    <3>1. CASE Notebook1 \/ Notebook2 \/ Overwrite \/ Cut
      BY <3>1 DEF Notebook1, Notebook2, Overwrite, Cut, history
    <3>2. CASE SettleBegin \/ Unlink \/ Publish \/ Receipt
      BY <3>2 DEF SettleBegin, Unlink, Publish, Receipt, history
    <3>3. CASE Evaluator1
      BY <1>4, <3>3 DEF Evaluator1, Begin1, SelectA1, Halt1, Frozen1, Announce1, Boot1, Booted1,
         Receipt1, Finish1, Close1, history
    <3>4. CASE Evaluator2
      BY <1>4, <3>4 DEF Evaluator2, BeginAB, ReceiptAB, BeginC, BootC, ReceiptC, FinalC, history
    <3>5. CASE \E e \in {"v1", "v2"} : Ledger(e)
      BY <3>5 DEF Ledger, history
    <3>6. CASE UNCHANGED trialVars
      BY <3>6 DEF trialVars, history
    <3> QED BY <3>1, <3>2, <3>3, <3>4, <3>5, <3>6 DEF Next, Script
  <2> QED BY <1>0, <2>1
<1> QED BY <1>1, <1>2, <1>3, <1>4

(* TrialInvariant, for all configurations and any number of cut sessions:  *)
(* one ledger of C, of the frozen configuration, and receipts that tell    *)
(* how often C was begun and cite what is on the Drive.                    *)
THEOREM TrialInvariantHolds == ASSUME OneNotebookEach PROVE Spec => []TrialInvariant
<1>1. Init => IInv
  BY InitIInv
<1>2. IInv /\ [Next]_trialVars => IInv'
  BY NextKeeps
<1>3. IInv => TrialInvariant
  BY FilesTold
<1> QED BY <1>1, <1>2, <1>3, PTL DEF Spec

(* OpenedInOrder: C is opened on a freeze that stays, and never after a    *)
(* receipt of C.                                                           *)
THEOREM COpenedInOrder == ASSUME OneNotebookEach PROVE Spec => OpenedInOrder
<1>1. Init => IInv
  BY InitIInv
<1>2. IInv /\ [Next]_trialVars => IInv'
  BY NextKeeps
<1>3. IInv /\ [Next]_trialVars => /\ opens' > opens => freeze # Nil /\ freeze' = freeze
                                  /\ opens > 0 => freeze' = freeze
  BY StepInOrder
<1>4. IInv /\ [Next]_trialVars
      => (opens' > opens => \A e \in {"v1", "v2"} : creceipt[e] = Nil)
  BY StepInOrder
<1> QED BY <1>1, <1>2, <1>3, <1>4, PTL DEF Spec, OpenedInOrder, FrozenBeforeOpened,
       ReceiptStopsScoring
-----------------------------------------------------------------------------
(* What the trial sees of a state: the selection, and the conclusion.      *)
Chosen == IF freeze # Nil THEN freeze.cid
          ELSE IF final["v1"] \in Halt THEN final["v1"]
          ELSE IF abr \in Halt THEN abr ELSE Nil
Over == Ends \/ abr \in Halt
TrialStep == [Promise!Next]_<<Chosen, scored > 0, Over>>

(* A step that writes no selection, ledger or end is none of the trial.    *)
LEMMA Unseen ==
    ASSUME UNCHANGED <<freeze, final, scored>>, abr' \in Halt <=> abr \in Halt,
           abr \in Halt => abr' = abr
    PROVE  TrialStep
<1>1. Chosen' = Chosen
  BY DEF Chosen
<1>2. Over' <=> Over
  BY DEF Over, Ends
<1>3. (scored > 0)' <=> scored > 0
  OBVIOUS
<1> QED BY <1>1, <1>2, <1>3 DEF TrialStep

LEMMA Selecting ==
    ASSUME IInv, SelectB1 \/ Select2 \/ Halt1
    PROVE  TrialStep
<1>1. CASE SelectB1
  <2>1. at.nb = "v1" /\ at.step = "selectB" /\ at.step \in Steps1 /\ UNCHANGED <<final, scored, abr>>
    BY <1>1 DEF SelectB1, In, Steps1, Before1, history, outcome, files2
  <2>2. use = {"v1"} /\ Told1 /\ freeze = Nil /\ final["v1"] = Nil /\ abr = Nil
    BY <2>1, AtV1 DEF Told1, IInv, Shape
  <2>3. CASE freeze' = freeze
    BY <2>1, <2>3, Unseen
  <2>4. CASE freeze' = [by |-> "v1", cid |-> pick["v1"]] /\ pick["v1"] # "NO_B"
    <3>1. pick["v1"] \in Config
      BY <2>1, <2>2, <2>4 DEF Told1, IInv, Shape, Halt
    <3>2. freeze' \in Freeze /\ freeze'.cid = pick["v1"]
      BY <2>4, <3>1 DEF Freeze
    <3>3. freeze' # Nil
      BY <3>2
    <3>4. Chosen = Nil /\ Chosen' = pick["v1"]
      BY <2>2, <3>2, <3>3 DEF Chosen
    <3>5. (Over' <=> Over) /\ scored' = scored
      BY <2>1 DEF Over, Ends
    <3> QED BY <3>1, <3>4, <3>5 DEF TrialStep, Promise!Next, Promise!Select, Chosen, Over
  <2> QED BY <1>1, <2>3, <2>4 DEF SelectB1
<1>2. CASE Select2
  <2>1. at.nb = "v2" /\ at.step = "select" /\ at.step \in Steps2 /\ UNCHANGED <<final, scored>>
    BY <1>2 DEF Select2, In, Steps2, history, outcome
  <2>2. use = {"v2"} /\ final["v1"] = Nil /\ abr \notin Halt
    BY <2>1, AtV2 DEF Told2, IInv, Shape
  <2>3. CASE freeze # Nil
    <3>1. pick["v2"] \in Config /\ freeze' = freeze
      BY <1>2, <2>3, SelectedAgain
    <3>2. abr' = abr
      BY <1>2, <3>1 DEF Select2
    <3> QED BY <2>1, <3>1, <3>2, Unseen
  <2>4. CASE freeze = Nil /\ pick["v2"] \in Halt
    <3>1. abr' = pick["v2"] /\ freeze' = Nil
      BY <1>2, <2>4 DEF Select2
    <3>2. Chosen = Nil /\ Chosen' = pick["v2"] /\ Over'
      BY <2>1, <2>2, <2>4, <3>1 DEF Chosen, Over, Halt
    <3> QED BY <2>1, <2>4, <3>2 DEF TrialStep, Promise!Next, Promise!SelectNone, Chosen, Over
  <2>5. CASE freeze = Nil /\ pick["v2"] \notin Halt
    <3>1. freeze' = [by |-> "v2", cid |-> pick["v2"]] /\ abr' = abr
      BY <1>2, <2>5 DEF Select2
    <3>2. pick["v2"] \in Config
      BY <2>5 DEF IInv, Shape
    <3>3. freeze' \in Freeze /\ freeze'.cid = pick["v2"]
      BY <3>1, <3>2 DEF Freeze
    <3>4. freeze' # Nil
      BY <3>3
    <3>5. Chosen = Nil /\ Chosen' = pick["v2"]
      BY <2>2, <2>5, <3>3, <3>4 DEF Chosen
    <3>6. (Over' <=> Over) /\ scored' = scored
      BY <2>1, <3>1 DEF Over, Ends
    <3> QED BY <3>2, <3>5, <3>6 DEF TrialStep, Promise!Next, Promise!Select, Chosen, Over
  <2> QED BY <2>3, <2>4, <2>5
<1>3. CASE Halt1
  <2>1. /\ at.nb = "v1" /\ at.step = "halt" /\ at.step \in Steps1 /\ UNCHANGED <<freeze, scored, abr>>
        /\ final' = [final EXCEPT !["v1"] = pick["v1"]]
    BY <1>3 DEF Halt1, In, Steps1, Before1, history, files2
  <2>2. freeze = Nil /\ final["v1"] = Nil /\ abr = Nil /\ pick["v1"] \in Halt
    BY <2>1, AtV1 DEF Told1, IInv, Shape
  <2>3. final'["v1"] = pick["v1"]
    BY <2>1 DEF IInv, Shape
  <2>4. pick["v1"] # Nil
    <3>1. ~(\E e \in {"v1", "v2"} : final[e] \in Config)
      BY <2>2 DEF IInv, FilesAgree
    <3> QED BY <2>2, <3>1
  <2>5. Chosen = Nil /\ Chosen' = pick["v1"] /\ Over'
    BY <2>1, <2>2, <2>3, <2>4 DEF Chosen, Over, Ends
  <2> QED BY <2>1, <2>2, <2>5 DEF TrialStep, Promise!Next, Promise!SelectNone, Chosen, Over
<1> QED BY <1>1, <1>2, <1>3

LEMMA Scoring ==
    ASSUME IInv, NEW e \in {"v1", "v2"}, Ledger(e)
    PROVE  TrialStep
<1>1. /\ at.nb = e /\ at.step = "ledger" /\ scored' = scored + 1
      /\ UNCHANGED <<freeze, final, abr>>
  BY DEF Ledger, In, files2
<1>2. e \in use /\ use = {e} /\ freeze # Nil /\ ledger[e] = Nil
  BY <1>1, AtV1, AtV2 DEF Steps1, Steps2, Told1, Told2
<1>3. scored = 0
  BY <1>2 DEF IInv, FilesAgree
<1>4. freeze.cid \in Config /\ Chosen = freeze.cid /\ Chosen' = Chosen
  BY <1>1, <1>2 DEF IInv, FilesAgree, Chosen
<1>5. (Over' <=> Over) /\ ~(scored > 0) /\ scored' > 0
  BY <1>1, <1>3 DEF Over, Ends
<1> QED BY <1>4, <1>5 DEF TrialStep, Promise!Next, Promise!Score, Chosen, Over

LEMMA Concluding == ASSUME IInv, Finish1 \/ FinalC PROVE TrialStep
<1>1. UNCHANGED <<freeze, scored, abr>>
  BY DEF Finish1, FinalC, history, files2
<1>2. CASE final' = final
  BY <1>1, <1>2, Unseen
<1>3. CASE \E e \in {"v1", "v2"} : /\ at.nb = e /\ use = {e} /\ creceipt[e] # Nil /\ abr \notin Halt
                                  /\ final[e] = Nil
                                  /\ final' = [final EXCEPT ![e] = freeze.cid]
  <2>1. PICK e \in {"v1", "v2"} : /\ use = {e} /\ creceipt[e] # Nil /\ abr \notin Halt
                                  /\ final[e] = Nil
                                  /\ final' = [final EXCEPT ![e] = freeze.cid]
    BY <1>3
  <2>2. ledger[e] # Nil /\ freeze # Nil /\ freeze.cid \in Config
    BY <2>1 DEF IInv, FilesAgree
  <2>3. scored = 1
    BY <2>1, <2>2 DEF IInv, FilesAgree
  <2>4. ~Over
    BY <2>1 DEF Over, Ends, IInv, Shape
  <2>5. final'[e] = freeze.cid /\ freeze.cid # Nil
    BY <2>1, <2>2 DEF IInv, Shape
  <2>6. Over'
    BY <2>5 DEF Over, Ends
  <2>7. Chosen' = Chosen
    BY <1>1, <2>2 DEF Chosen
  <2>8. scored > 0 /\ scored' > 0
    BY <1>1, <2>3
  <2> QED BY <2>4, <2>6, <2>7, <2>8 DEF TrialStep, Promise!Next, Promise!Conclude, Chosen, Over
<1>4. CASE Finish1
  <2>1. at.nb = "v1" /\ at.step = "finish" /\ at.step \in Steps1
    BY <1>4 DEF Finish1, In, Steps1
  <2>2. use = {"v1"} /\ creceipt["v1"] # Nil /\ abr = Nil /\ final["v1"] = Nil
    BY <2>1, AtV1 DEF Told1, IInv, Shape
  <2> QED BY <1>2, <1>3, <1>4, <2>1, <2>2 DEF Finish1
<1>5. CASE FinalC
  <2>1. at.nb = "v2" /\ at.step = "final" /\ at.step \in Steps2
    BY <1>5 DEF FinalC, In, Steps2
  <2>2. use = {"v2"} /\ creceipt["v2"] # Nil /\ abr \notin Halt /\ final["v2"] = Nil
    BY <2>1, AtV2 DEF Told2
  <2> QED BY <1>3, <1>5, <2>1, <2>2 DEF FinalC
<1> QED BY <1>4, <1>5

LEMMA StepIsTrialStep == ASSUME IInv, [Next]_trialVars PROVE TrialStep
<1>1. CASE SelectB1 \/ Select2 \/ Halt1 \/ Finish1 \/ FinalC
  BY <1>1, Selecting, Concluding
<1>2. CASE \E e \in {"v1", "v2"} : Ledger(e)
  BY <1>2, Scoring
<1>3. CASE ReceiptAB
  <2>1. at.nb = "v2" /\ at.step = "abr" /\ at.step \in Steps2 /\ abr' = freeze.cid
        /\ UNCHANGED <<freeze, final, scored>>
    BY <1>3 DEF ReceiptAB, In, Steps2, history, outcome
  <2>2. abr \notin Halt /\ freeze # Nil
    BY <2>1, AtV2 DEF Told2
  <2>3. freeze.cid \in Config
    BY <2>2 DEF IInv, FilesAgree
  <2>4. abr' \notin Halt
    BY <2>1, <2>3
  <2> QED BY <2>1, <2>2, <2>4, Unseen
<1>4. CASE /\ ~(SelectB1 \/ Select2 \/ Halt1 \/ Finish1 \/ FinalC \/ ReceiptAB)
           /\ ~(\E e \in {"v1", "v2"} : Ledger(e))
  <2>1. UNCHANGED <<freeze, final, scored, abr>>
    <3>1. CASE Notebook1 \/ Notebook2 \/ Overwrite \/ Cut
      BY <3>1 DEF Notebook1, Notebook2, Overwrite, Cut, history, outcome, files2
    <3>2. CASE SettleBegin \/ Unlink \/ Publish \/ Receipt
      BY <3>2 DEF SettleBegin, Unlink, Publish, Receipt, history, outcome, files2
    <3>3. CASE Evaluator1
      BY <1>4, <3>3 DEF Evaluator1, Begin1, SelectA1, Frozen1, Announce1, Open1, Boot1, Booted1,
         Receipt1, Close1, history, outcome, files2
    <3>4. CASE Evaluator2
      BY <1>4, <3>4 DEF Evaluator2, BeginAB, BeginC, LoadC, BootC, ReceiptC, history, outcome, files2
    <3>5. CASE UNCHANGED trialVars
      BY <3>5 DEF trialVars, history, outcome, files2
    <3> QED BY <1>4, <3>1, <3>2, <3>3, <3>4, <3>5 DEF Next, Script
  <2> QED BY <2>1, Unseen
<1> QED BY <1>1, <1>2, <1>3, <1>4

(* ImplementsOneTrial: with one notebook on a folder, v1 and v2 each carry *)
(* out the trial the prereg promises: one selection, never remade, one     *)
(* scoring of C, of the selected configuration, one conclusion.            *)
THEOREM TrialImplementsOneTrial == ASSUME OneNotebookEach PROVE Spec => ImplementsOneTrial
<1>1. Init => IInv
  BY InitIInv
<1>2. IInv /\ [Next]_trialVars => IInv'
  BY NextKeeps
<1>3. Init => Promise!Init
  <2>1. ASSUME Init PROVE freeze = Nil /\ final["v1"] = Nil /\ final["v2"] = Nil /\ abr = Nil
                          /\ scored = 0 /\ IInv
    BY <2>1, InitIInv DEF Init
  <2>2. ASSUME Init PROVE Nil \notin Halt
    BY <2>1
  <2> QED BY <2>1, <2>2 DEF Promise!Init, Ends
<1>4. IInv /\ [Next]_trialVars => TrialStep
  BY StepIsTrialStep
<1> QED BY <1>1, <1>2, <1>3, <1>4, PTL DEF Spec, ImplementsOneTrial, Promise!Spec, TrialStep,
       Chosen, Over
-----------------------------------------------------------------------------
(* Stage 3's chunks.  A chunk on the Drive is one of another lineage, the  *)
(* catalog's own, torn or not there, and only the catalog's own is valid.  *)
EngineAt == {"off", "check", "survey", "chunk", "reread", "gather", "summary", "digest", "quality",
             "unlink", "passed", "failed", "fatal", "receipt"}

(* What a report says of the whole catalog, counted in one pass.           *)
OnePass == [p \in Profile |-> Figures([i \in DOMAIN rows |-> Compact(i).counts[p]])]

ChunkShape ==
    /\ rows \in [1..(Chunks * ChunkSize) -> Row]
    /\ chunk = [c \in Chunk |-> chunk[c]] /\ disk = [f \in File |-> disk[f]]
    /\ \A c \in Chunk : chunk[c] \in {Unset, Torn, Foreign(c), Made(c)}

EngineShape ==
    /\ eng = [at |-> eng.at, open |-> eng.open, valid |-> eng.valid, next |-> eng.next,
              class |-> eng.class, held |-> eng.held]
    /\ eng.at \in EngineAt /\ eng.open \in BOOLEAN /\ eng.valid \subseteq Chunk /\ eng.next \in Nat

(* What the engine has yet to come to is not valid unless it found it so.  *)
YetToMake ==
    \A c \in Chunk \ eng.valid :
        \/ eng.at = "chunk" /\ c >= eng.next
        \/ eng.at = "reread" /\ c > eng.next
        => ~Valid(c, chunk[c])

(* What it holds and what it reports is of the whole catalog.              *)
WholeReport ==
    /\ eng.at \in {"summary", "digest"} => eng.held = OnePass
    /\ eng.at = "quality" => eng.held.figures = OnePass
    /\ disk["quality"] \notin {Unset, Torn} => disk["quality"].figures = OnePass

ChunksInv == ChunkShape /\ EngineShape /\ YetToMake /\ WholeReport

LEMMA ValidIsMade ==
    ASSUME ChunkShape, NEW c \in Chunk, Valid(c, chunk[c]) PROVE chunk[c] = Made(c)
<1>1. chunk[c] \in {Foreign(c), Made(c)} /\ chunk[c].lineage = "this"
  BY DEF ChunkShape, Valid
<1>2. Foreign(c).lineage = "other"
  BY DEF Foreign
<1> QED BY <1>1, <1>2

LEMMA TornIsNotValid == ASSUME NEW c PROVE ~Valid(c, Torn)
BY DEF Valid

LEMMA RowIsInItsChunk ==
    ASSUME NEW i \in 1..(Chunks * ChunkSize)
    PROVE  LET c == (i - 1) \div ChunkSize IN c \in Chunk /\ i \in RowsOf(c)
<1> DEFINE c == (i - 1) \div ChunkSize
<1>1. Chunks \in Nat /\ ChunkSize \in Nat /\ ChunkSize > 0 /\ i \in Int /\ i >= 1 /\ i <= Chunks * ChunkSize
  BY ChunksAssumption
<1>2. PICK k \in Nat : k = i - 1
  BY <1>1
<1>3. PICK q \in Int, r \in Int : q = k \div ChunkSize /\ r = k % ChunkSize /\ k = q * ChunkSize + r
                                  /\ 0 <= r /\ r < ChunkSize
  BY <1>1, <1>2, SMTT(30)
<1>4. q >= 0 /\ q < Chunks
  BY <1>1, <1>2, <1>3, SMTT(30)
<1>5. (q + 1) * ChunkSize = q * ChunkSize + ChunkSize
  BY <1>1, <1>3, SMTT(30)
<1>6. q * ChunkSize \in Int
  BY <1>1, <1>3
<1>7. c = q
  BY <1>2, <1>3
<1>8. i \in q * ChunkSize + 1 .. (q + 1) * ChunkSize
  BY <1>1, <1>2, <1>3, <1>5, <1>6
<1> QED BY <1>1, <1>4, <1>7, <1>8 DEF Chunk, RowsOf

LEMMA GatheredIsOnePass == ASSUME ChunkShape, ValidChunks = Chunk PROVE Gathered = OnePass
<1>1. ASSUME NEW i \in DOMAIN rows
      PROVE  chunk[(i - 1) \div ChunkSize].records[i] = Compact(i)
  <2> DEFINE c == (i - 1) \div ChunkSize
  <2>1. i \in 1..(Chunks * ChunkSize)
    BY <1>1 DEF ChunkShape
  <2>2. c \in Chunk /\ i \in RowsOf(c)
    BY <2>1, RowIsInItsChunk
  <2>3. chunk[c] = Made(c)
    BY <2>2, ValidIsMade DEF ValidChunks
  <2>4. Made(c).records = [j \in RowsOf(c) |-> Compact(j)]
    BY DEF Made
  <2> HIDE DEF c
  <2>5. chunk[c].records[i] = Compact(i)
    BY <2>2, <2>3, <2>4
  <2> QED BY <2>5 DEF c
<1>2. ASSUME NEW p \in Profile
      PROVE  [i \in DOMAIN rows |-> chunk[(i - 1) \div ChunkSize].records[i].counts[p]]
               = [i \in DOMAIN rows |-> Compact(i).counts[p]]
  BY <1>1
<1> QED BY <1>2, Zenon DEF Gathered, OnePass

LEMMA EngineMoves ==
    ASSUME EngineShape, NEW a \in EngineAt, Engine(a)
    PROVE  /\ EngineShape' /\ eng'.at = a /\ eng'.open = FALSE /\ eng'.valid = eng.valid
           /\ eng'.next = eng.next /\ eng'.held = eng.held
BY DEF EngineShape, Engine

LEMMA EngineFails ==
    ASSUME EngineShape, NEW class, Fail(class)
    PROVE  EngineShape' /\ eng'.at = "fatal" /\ eng'.valid = eng.valid
BY DEF EngineShape, Fail, EngineAt

LEMMA EngineStops ==
    ASSUME eng' = Stopped \/ StartEngine PROVE EngineShape' /\ eng'.at \in {"off", "check"}
<1>1. CASE eng' = Stopped
  BY <1>1 DEF EngineShape, Stopped, EngineAt
<1>2. CASE StartEngine
  BY <1>2 DEF EngineShape, StartEngine, Stopped, EngineAt
<1> QED BY <1>1, <1>2

LEMMA EngineOpens ==
    ASSUME EngineShape, eng' = [eng EXCEPT !.open = TRUE]
    PROVE  /\ EngineShape' /\ eng'.at = eng.at /\ eng'.open = TRUE /\ eng'.valid = eng.valid
           /\ eng'.next = eng.next /\ eng'.held = eng.held
BY DEF EngineShape

LEMMA EngineAdvances ==
    ASSUME EngineShape, Advance
    PROVE  /\ EngineShape' /\ eng'.at \in {"chunk", "gather"} /\ eng'.valid = eng.valid
           /\ eng'.next = eng.next + 1
<1>1. NextChunk \in {"chunk", "gather"}
  BY DEF NextChunk
<1>2. eng' = [at |-> NextChunk, open |-> FALSE, valid |-> eng.valid, next |-> eng.next + 1,
              class |-> eng.class, held |-> eng.held]
  BY DEF EngineShape, Advance
<1>3. eng'.at = NextChunk /\ eng'.open = FALSE /\ eng'.valid = eng.valid /\ eng'.next = eng.next + 1
      /\ eng'.class = eng.class /\ eng'.held = eng.held
  BY <1>2
<1>4. eng' = [at |-> eng'.at, open |-> eng'.open, valid |-> eng'.valid, next |-> eng'.next,
              class |-> eng'.class, held |-> eng'.held]
  BY <1>2, <1>3
<1>5. eng'.at \in EngineAt
  BY <1>1, <1>3 DEF EngineAt
<1>6. eng'.open \in BOOLEAN /\ eng'.valid \subseteq Chunk /\ eng'.next \in Nat
  <2>1. eng.valid \subseteq Chunk /\ eng.next \in Nat
    BY DEF EngineShape
  <2>2. eng'.valid \subseteq Chunk
    BY <1>3, <2>1, Zenon
  <2>3. eng'.next \in Nat
    BY <1>3, <2>1
  <2>4. eng'.open \in BOOLEAN
    BY <1>3, Zenon
  <2> QED BY <2>2, <2>3, <2>4
<1> QED BY <1>1, <1>3, <1>4, <1>5, <1>6 DEF EngineShape

(* The catalog stays, and with it what is made of it.                      *)
LEMMA MadeStays ==
    ASSUME UNCHANGED rows
    PROVE  /\ OnePass' = OnePass
           /\ \A c : Made(c)' = Made(c)
           /\ \A c : Foreign(c)' = Foreign(c)
           /\ \A c, f : Valid(c, f)' = Valid(c, f)
<1>1. \A i : Compact(i)' = Compact(i)
  BY DEF Compact, Quantify
<1>2. OnePass' = OnePass
  BY <1>1, Zenon DEF OnePass
<1>3. \A c : Made(c)' = Made(c)
  BY <1>1, Zenon DEF Made
<1>4. \A c : Foreign(c)' = Foreign(c)
  BY Zenon DEF Foreign
<1>5. \A c, f : Valid(c, f)' = Valid(c, f)
  OBVIOUS
<1> QED BY <1>2, <1>3, <1>4, <1>5

(* A step that leaves the Drive alone, and after which the engine neither  *)
(* makes chunks nor holds a report.                                        *)
LEMMA AtRest ==
    ASSUME ChunksInv, EngineShape', UNCHANGED <<rows, chunk, disk>>,
           eng'.at \notin {"chunk", "reread", "summary", "digest", "quality"}
    PROVE  ChunksInv'
<1>1. ChunkShape'
  BY MadeStays DEF ChunksInv, ChunkShape
<1>2. YetToMake'
  BY DEF YetToMake
<1>3. WholeReport'
  BY MadeStays DEF ChunksInv, WholeReport
<1> QED BY <1>1, <1>2, <1>3 DEF ChunksInv

LEMMA SurveyKeeps == ASSUME ChunksInv, Survey PROVE ChunksInv'
<1>1. UNCHANGED <<rows, chunk, disk>> /\ eng' = [eng EXCEPT !.at = "chunk", !.valid = ValidChunks]
  BY DEF Survey
<1>2. EngineShape' /\ eng'.at = "chunk" /\ eng'.valid = ValidChunks
  BY <1>1 DEF ChunksInv, EngineShape, EngineAt, ValidChunks
<1>3. ChunkShape'
  BY <1>1, MadeStays DEF ChunksInv, ChunkShape
<1>4. YetToMake'
  BY <1>1, <1>2, MadeStays DEF YetToMake, ValidChunks
<1>5. WholeReport'
  BY <1>1, <1>2, MadeStays DEF ChunksInv, WholeReport
<1> QED BY <1>2, <1>3, <1>4, <1>5 DEF ChunksInv

(* The engine goes on to the next chunk: it left this one valid.           *)
LEMMA AdvanceKeeps ==
    ASSUME ChunksInv, Advance, UNCHANGED <<rows, chunk, disk>>,
           (eng.at = "chunk" /\ eng.next \in eng.valid) \/ eng.at = "reread"
    PROVE  ChunksInv'
<1>1. EngineShape' /\ eng'.at \in {"chunk", "gather"} /\ eng'.valid = eng.valid
      /\ eng'.next = eng.next + 1 /\ eng.next \in Nat
  BY EngineAdvances DEF ChunksInv, EngineShape
<1>2. ChunkShape'
  BY MadeStays DEF ChunksInv, ChunkShape
<1>3. ASSUME NEW c \in Chunk \ eng.valid, c >= eng.next + 1 PROVE ~Valid(c, chunk[c])'
  <2>1. c \in Int /\ c > eng.next /\ c >= eng.next
    BY <1>1, <1>3 DEF Chunk
  <2>2. ~Valid(c, chunk[c])
    BY <2>1 DEF ChunksInv, YetToMake
  <2> QED BY <2>2, MadeStays
<1>4. YetToMake'
  BY <1>1, <1>3 DEF YetToMake
<1>5. WholeReport'
  BY <1>1, MadeStays DEF ChunksInv, WholeReport
<1> QED BY <1>1, <1>2, <1>4, <1>5 DEF ChunksInv

LEMMA PublishKeeps == ASSUME ChunksInv, PublishChunk PROVE ChunksInv'
<1> DEFINE made == IF eng.open THEN Made(eng.next) ELSE Torn
<1>1. eng.at = "chunk" /\ UNCHANGED <<rows, disk>> /\ chunk' = [chunk EXCEPT ![eng.next] = made]
  BY DEF PublishChunk
<1>2. EngineShape' /\ eng'.valid = eng.valid /\ eng'.next = eng.next
      /\ eng'.at = IF eng.open THEN "reread" ELSE "chunk"
  <2>1. CASE eng.open
    BY <2>1, EngineMoves DEF PublishChunk, ChunksInv, EngineAt
  <2>2. CASE ~eng.open
    BY <1>1, <2>2, EngineOpens DEF PublishChunk, ChunksInv
  <2> QED BY <2>1, <2>2
<1>3. eng.next \in Nat /\ chunk = [c \in Chunk |-> chunk[c]]
  BY DEF ChunksInv, EngineShape, ChunkShape
<1> HIDE DEF made
<1>4. \A c \in Chunk : chunk'[c] = IF c = eng.next THEN made ELSE chunk[c]
  BY <1>1, <1>3
<1>5. chunk' = [c \in Chunk |-> chunk'[c]]
  BY <1>1, <1>3
<1>6. ChunkShape'
  <2>1. \A c \in Chunk : chunk'[c] \in {Unset, Torn, Foreign(c), Made(c)}
    BY <1>4 DEF made, ChunksInv, ChunkShape
  <2> QED BY <1>1, <1>5, <2>1, MadeStays DEF ChunksInv, ChunkShape
<1>7. YetToMake'
  <2> SUFFICES ASSUME NEW c \in Chunk \ eng.valid,
                      IF eng.open THEN c > eng.next ELSE c >= eng.next
               PROVE  ~Valid(c, chunk'[c])
    BY <1>1, <1>2, MadeStays DEF YetToMake
  <2>1. c \in Int /\ c >= eng.next
    BY <1>3 DEF Chunk
  <2>2. ~Valid(c, chunk[c])
    BY <1>1, <2>1 DEF ChunksInv, YetToMake
  <2>3. CASE c = eng.next
    BY <1>3, <1>4, <2>3, TornIsNotValid DEF made
  <2>4. CASE c # eng.next
    BY <1>4, <2>2, <2>4
  <2> QED BY <2>3, <2>4
<1>8. WholeReport'
  BY <1>1, <1>2, MadeStays DEF ChunksInv, WholeReport
<1> QED BY <1>2, <1>6, <1>7, <1>8 DEF ChunksInv

(* What the engine finds whole is one pass over the catalog.               *)
LEMMA GatherKeeps == ASSUME ChunksInv, Gather PROVE ChunksInv'
<1>1. UNCHANGED <<rows, chunk, disk>>
  BY DEF Gather
<1>2. CASE ValidChunks = Chunk
  <2>1. eng' = [eng EXCEPT !.at = "summary", !.held = Gathered] /\ Gathered = OnePass
    BY <1>2, GatheredIsOnePass DEF Gather, ChunksInv
  <2>2. EngineShape' /\ eng'.at = "summary" /\ eng'.held = OnePass
    BY <2>1 DEF ChunksInv, EngineShape, EngineAt
  <2>3. ChunkShape' /\ YetToMake'
    BY <1>1, <2>2, MadeStays DEF ChunksInv, ChunkShape, YetToMake
  <2>4. WholeReport'
    BY <1>1, <2>2, MadeStays DEF ChunksInv, WholeReport
  <2> QED BY <2>2, <2>3, <2>4 DEF ChunksInv
<1>3. CASE ValidChunks # Chunk
  BY <1>1, <1>3, EngineFails, AtRest DEF Gather, ChunksInv
<1> QED BY <1>2, <1>3

(* A file is emptied or filled, and the engine goes on or waits with it    *)
(* open: what it holds is what it held.                                    *)
LEMMA PutKeeps ==
    ASSUME ChunksInv, UNCHANGED <<rows, chunk>>, EngineShape', NEW f \in File, NEW content,
           disk' = [disk EXCEPT ![f] = content],
           f = "quality" => content = Torn \/ content.figures = OnePass,
           eng'.at \notin {"chunk", "reread"},
           eng'.at \in {"summary", "digest"} => eng'.held = OnePass,
           eng'.at = "quality" => eng'.held.figures = OnePass
    PROVE  ChunksInv'
<1>1. ChunkShape'
  <2>1. disk' = [g \in File |-> disk'[g]]
    BY DEF ChunksInv, ChunkShape
  <2> QED BY <2>1, MadeStays DEF ChunksInv, ChunkShape
<1>2. YetToMake'
  BY DEF YetToMake
<1>3. disk'["quality"] = IF f = "quality" THEN content ELSE disk["quality"]
  BY DEF ChunksInv, ChunkShape, File
<1>4. disk'["quality"] \notin {Unset, Torn} => disk'["quality"].figures = OnePass
  BY <1>3 DEF ChunksInv, WholeReport
<1>5. WholeReport'
  BY <1>4, MadeStays DEF WholeReport
<1> QED BY <1>1, <1>2, <1>5 DEF ChunksInv

LEMMA WritesKeep ==
    ASSUME ChunksInv, Summarize \/ Report \/ WriteFatal \/ WriteReceipt PROVE ChunksInv'
<1>1. EngineShape /\ UNCHANGED <<rows, chunk>>
  BY DEF ChunksInv, Summarize, Report, WriteFatal, WriteReceipt
<1>2. CASE Summarize
  <2> DEFINE content == IF eng.open THEN eng.held ELSE Torn
  <2>1. disk' = [disk EXCEPT !["summary"] = content] /\ eng.at = "summary"
    BY <1>2 DEF Summarize, Put
  <2>2. EngineShape' /\ eng'.held = eng.held /\ eng'.at \in {"summary", "digest"}
    <3>1. CASE eng.open
      BY <1>1, <1>2, <3>1, EngineMoves DEF Summarize, Put, EngineAt
    <3>2. CASE ~eng.open
      BY <1>1, <1>2, <3>2, EngineOpens DEF Summarize, Put
    <3> QED BY <3>1, <3>2
  <2> HIDE DEF content
  <2>3. eng.held = OnePass
    BY <2>1 DEF ChunksInv, WholeReport
  <2> QED BY <1>1, <2>1, <2>2, <2>3, PutKeeps DEF File
<1>3. CASE Report
  <2> DEFINE content == IF eng.open THEN eng.held ELSE Torn
  <2>1. disk' = [disk EXCEPT !["quality"] = content] /\ eng.at = "quality"
    BY <1>3 DEF Report, Put
  <2>2. EngineShape' /\ eng'.held = eng.held /\ eng'.at \in {"quality", "unlink"}
    <3>1. CASE eng.open
      BY <1>1, <1>3, <3>1, EngineMoves DEF Report, Put, EngineAt
    <3>2. CASE ~eng.open
      BY <1>1, <1>3, <3>2, EngineOpens DEF Report, Put
    <3> QED BY <3>1, <3>2
  <2>3. eng.held.figures = OnePass
    BY <2>1 DEF ChunksInv, WholeReport
  <2>4. content = Torn \/ content.figures = OnePass
    BY <2>3
  <2> HIDE DEF content
  <2> QED BY <1>1, <2>1, <2>2, <2>3, <2>4, PutKeeps DEF File
<1>4. CASE WriteFatal
  <2> DEFINE content == IF eng.open THEN eng.class ELSE Torn
  <2>1. disk' = [disk EXCEPT !["fatal"] = content] /\ eng.at = "fatal"
    BY <1>4 DEF WriteFatal, Put
  <2>2. EngineShape' /\ eng'.at \in {"fatal", "failed"}
    <3>1. CASE eng.open
      BY <1>1, <1>4, <3>1, EngineMoves DEF WriteFatal, Put, EngineAt
    <3>2. CASE ~eng.open
      BY <1>1, <1>4, <3>2, EngineOpens DEF WriteFatal, Put
    <3> QED BY <3>1, <3>2
  <2> HIDE DEF content
  <2> QED BY <1>1, <2>1, <2>2, PutKeeps DEF File
<1>5. CASE WriteReceipt
  <2> DEFINE content == IF eng.open THEN eng.held ELSE Torn
  <2>1. disk' = [disk EXCEPT !["receipt"] = content] /\ eng.at = "receipt"
    BY <1>5 DEF WriteReceipt, Put
  <2>2. EngineShape' /\ eng'.at \in {"receipt", "off", "check"}
    <3>1. CASE eng.open
      BY <1>1, <1>5, <3>1, EngineStops DEF WriteReceipt, Put, Tell
    <3>2. CASE ~eng.open
      BY <1>1, <1>5, <3>2, EngineOpens DEF WriteReceipt, Put
    <3> QED BY <3>1, <3>2
  <2> HIDE DEF content
  <2> QED BY <1>1, <2>1, <2>2, PutKeeps DEF File
<1> QED BY <1>2, <1>3, <1>4, <1>5

LEMMA DigestKeeps == ASSUME ChunksInv, Digest PROVE ChunksInv'
<1>1. UNCHANGED <<rows, chunk, disk>> /\ eng.at = "digest"
      /\ eng' = [eng EXCEPT !.at = "quality",
                            !.held = [figures |-> eng.held, summary |-> disk["summary"]]]
  BY DEF Digest
<1>2. eng.held = OnePass
  BY <1>1 DEF ChunksInv, WholeReport
<1>3. EngineShape' /\ eng'.at = "quality" /\ eng'.held.figures = eng.held
  BY <1>1 DEF ChunksInv, EngineShape, EngineAt
<1>4. ChunkShape' /\ YetToMake'
  BY <1>1, <1>3, MadeStays DEF ChunksInv, ChunkShape, YetToMake
<1>5. WholeReport'
  BY <1>1, <1>2, <1>3, MadeStays DEF ChunksInv, WholeReport
<1> QED BY <1>3, <1>4, <1>5 DEF ChunksInv

LEMMA TearKeeps == ASSUME ChunksInv, Tear PROVE ChunksInv'
<1>1. UNCHANGED <<rows, eng>> /\ EngineShape'
  BY DEF Tear, ChunksInv, EngineShape
<1>2. CASE UNCHANGED disk /\ \E c \in Chunk : chunk' = [chunk EXCEPT ![c] = Torn]
  <2>1. \A c \in Chunk : chunk'[c] \in {Torn, chunk[c]}
    BY <1>2 DEF ChunksInv, ChunkShape
  <2>2. chunk' = [c \in Chunk |-> chunk'[c]]
    BY <1>2 DEF ChunksInv, ChunkShape
  <2>3. ChunkShape'
    <3>1. \A c \in Chunk : chunk'[c] \in {Unset, Torn, Foreign(c), Made(c)}
      BY <2>1 DEF ChunksInv, ChunkShape
    <3> QED BY <1>1, <1>2, <2>2, <3>1, MadeStays DEF ChunksInv, ChunkShape
  <2>4. ASSUME NEW c \in Chunk, ~Valid(c, chunk[c]) PROVE ~Valid(c, chunk'[c])
    BY <2>1, <2>4, TornIsNotValid
  <2>5. YetToMake'
    BY <1>1, <2>4, MadeStays DEF ChunksInv, YetToMake
  <2>6. WholeReport'
    BY <1>1, <1>2, MadeStays DEF ChunksInv, WholeReport
  <2> QED BY <1>1, <2>3, <2>5, <2>6 DEF ChunksInv
<1>3. CASE UNCHANGED chunk /\ \E f \in File : disk' = [disk EXCEPT ![f] = Torn]
  <2>1. disk'["quality"] \in {Torn, disk["quality"]} /\ disk' = [f \in File |-> disk'[f]]
    BY <1>3 DEF ChunksInv, ChunkShape, File
  <2>2. ChunkShape' /\ YetToMake'
    BY <1>1, <1>3, <2>1, MadeStays DEF ChunksInv, ChunkShape, YetToMake
  <2>3. WholeReport'
    BY <1>1, <2>1, MadeStays DEF ChunksInv, WholeReport
  <2> QED BY <1>1, <2>2, <2>3 DEF ChunksInv
<1> QED BY <1>2, <1>3 DEF Tear, File

LEMMA ChunksInitInv == ChunksInit => ChunksInv
<1> SUFFICES ASSUME ChunksInit PROVE ChunksInv
  OBVIOUS
<1>1. ChunkShape
  BY DEF ChunksInit, ChunkShape
<1>2. EngineShape /\ eng.at = "off"
  BY DEF ChunksInit, EngineShape, Stopped, EngineAt
<1>3. disk["quality"] = Unset
  BY DEF ChunksInit, File
<1> QED BY <1>1, <1>2, <1>3 DEF ChunksInv, YetToMake, WholeReport

FaultShape == faults \in [kill : Nat, damage : Nat]

LEMMA FaultsKept == FaultShape /\ [ChunksNext]_chunkVars => FaultShape'
<1> SUFFICES ASSUME FaultShape, [ChunksNext]_chunkVars PROVE FaultShape'
  OBVIOUS
<1>1. CASE Raise \/ KillEngine \/ Disconnect \/ Tear
  <2>1. \/ faults' = [faults EXCEPT !.kill = faults.kill + 1]
        \/ faults' = [faults EXCEPT !.damage = faults.damage + 1]
    BY <1>1 DEF Raise, KillEngine, Disconnect, Tear, Kill
  <2> QED BY <2>1 DEF FaultShape
<1>2. CASE ~(Raise \/ KillEngine \/ Disconnect \/ Tear)
  <2>1. UNCHANGED faults
    BY <1>2 DEF ChunksNext, EngineStep, Start, Check, Survey, Skip, PublishChunk, Reread, Gather,
       Summarize, Digest, Report, UnlinkFatal, WriteFatal, Failed, Passed, WriteReceipt, chunkVars
  <2> QED BY <2>1 DEF FaultShape
<1> QED BY <1>1, <1>2

LEMMA ChunksNextKeeps == ChunksInv /\ [ChunksNext]_chunkVars => ChunksInv'
<1> SUFFICES ASSUME ChunksInv, [ChunksNext]_chunkVars PROVE ChunksInv'
  OBVIOUS
<1> USE DEF ChunksInv
<1>1. CASE Start
  <2>1. UNCHANGED <<rows, chunk, disk>> /\ (UNCHANGED eng \/ StartEngine)
    BY <1>1 DEF Start
  <2>2. CASE UNCHANGED eng
    <3>1. ChunkShape' /\ EngineShape' /\ YetToMake'
      BY <2>1, <2>2, MadeStays DEF ChunkShape, EngineShape, YetToMake
    <3>2. WholeReport'
      BY <2>1, <2>2, MadeStays DEF WholeReport
    <3> QED BY <3>1, <3>2
  <2>3. CASE StartEngine
    BY <2>1, <2>3, EngineStops, AtRest
  <2> QED BY <2>1, <2>2, <2>3
<1>2. CASE Check
  <2>1. UNCHANGED <<rows, chunk, disk>> /\ (Engine("survey") \/ Fail("SCIENTIFIC_FAIL_CLOSED"))
    BY <1>2 DEF Check
  <2>2. EngineShape' /\ eng'.at \in {"survey", "fatal"}
    BY <2>1, EngineMoves, EngineFails DEF EngineAt
  <2> QED BY <2>1, <2>2, AtRest
<1>3. CASE Skip
  BY <1>3, AdvanceKeeps DEF Skip
<1>4. CASE Reread
  <2>1. CASE Advance
    BY <1>4, <2>1, AdvanceKeeps DEF Reread
  <2>2. CASE Fail("SCIENTIFIC_FAIL_CLOSED")
    BY <1>4, <2>2, EngineFails, AtRest DEF Reread
  <2> QED BY <1>4, <2>1, <2>2 DEF Reread
<1>5. CASE UnlinkFatal
  <2>1. EngineShape' /\ eng'.at = "passed"
    BY <1>5, EngineMoves DEF UnlinkFatal, EngineAt
  <2> QED BY <1>5, <2>1, PutKeeps DEF UnlinkFatal, File
<1>6. CASE Failed
  <2>1. UNCHANGED <<rows, chunk, disk>> /\ (eng' = Stopped \/ StartEngine)
    BY <1>6 DEF Failed, Tell
  <2> QED BY <2>1, EngineStops, AtRest
<1>7. CASE Passed
  <2>1. UNCHANGED <<rows, chunk, disk>>
    BY <1>7 DEF Passed
  <2>2. CASE eng' = Stopped
    BY <2>1, <2>2, EngineStops, AtRest
  <2>3. CASE eng' = [eng EXCEPT !.at = "receipt",
                                !.held = [summary |-> disk["summary"], quality |-> disk["quality"]]]
    <3>1. EngineShape' /\ eng'.at = "receipt"
      BY <2>3 DEF EngineShape, EngineAt
    <3> QED BY <2>1, <3>1, AtRest
  <2> QED BY <1>7, <2>2, <2>3 DEF Passed, Tell
<1>8. CASE Raise \/ KillEngine \/ Disconnect
  <2>1. UNCHANGED <<rows, chunk, disk>>
        /\ (Fail("RUNTIME_RETRYABLE") \/ Engine("failed") \/ eng' = Stopped)
    BY <1>8 DEF Raise, KillEngine, Disconnect, Kill
  <2>2. EngineShape' /\ eng'.at \in {"fatal", "failed", "off", "check"}
    <3>1. CASE Fail("RUNTIME_RETRYABLE")
      BY <3>1, EngineFails
    <3>2. CASE Engine("failed")
      BY <3>2, EngineMoves DEF EngineAt
    <3>3. CASE eng' = Stopped
      BY <3>3, EngineStops
    <3> QED BY <2>1, <3>1, <3>2, <3>3
  <2> QED BY <2>1, <2>2, AtRest
<1>9. CASE UNCHANGED chunkVars
  <2>1. UNCHANGED <<rows, chunk, disk, eng>>
    BY <1>9 DEF chunkVars
  <2>2. ChunkShape' /\ EngineShape' /\ YetToMake'
    BY <2>1, MadeStays DEF ChunkShape, EngineShape, YetToMake
  <2>3. WholeReport'
    BY <2>1, MadeStays DEF WholeReport
  <2> QED BY <2>2, <2>3
<1> QED
  BY <1>1, <1>2, <1>3, <1>4, <1>5, <1>6, <1>7, <1>8, <1>9, SurveyKeeps, PublishKeeps, GatherKeeps,
     WritesKeep, DigestKeeps, TearKeeps DEF ChunksNext, EngineStep

(* What a step may never do to a valid chunk.                              *)
LEMMA StepKeepsChunks ==
    ASSUME ChunksInv, FaultShape, [ChunksNext]_chunkVars, NEW c \in Chunk, Valid(c, chunk[c]),
           chunk'[c] # chunk[c]
    PROVE  faults'.damage > faults.damage
<1>1. ~PublishChunk
  <2> SUFFICES ASSUME PublishChunk PROVE FALSE
    OBVIOUS
  <2>1. chunk' = [chunk EXCEPT ![eng.next] = IF eng.open THEN Made(eng.next) ELSE Torn]
        /\ eng.at = "chunk" /\ eng.next \notin eng.valid
    BY DEF PublishChunk
  <2>2. c = eng.next
    BY <2>1 DEF ChunksInv, ChunkShape
  <2>3. ~Valid(c, chunk[c])
    <3>1. c \in Int /\ c >= eng.next
      BY <2>2 DEF Chunk
    <3> QED BY <2>1, <2>2, <3>1 DEF ChunksInv, YetToMake
  <2> QED BY <2>3
<1>2. Tear
  BY <1>1 DEF ChunksNext, EngineStep, Start, Check, Survey, Skip, Reread, Gather, Summarize, Digest,
     Report, UnlinkFatal, WriteFatal, Failed, Passed, WriteReceipt, Raise, KillEngine, Disconnect,
     Kill, chunkVars
<1> QED BY <1>2 DEF Tear, FaultShape

(* ChunksKept: whatever a catalog's chunks, however many kills and however *)
(* many files the Drive tears, no run writes over a valid chunk.           *)
THEOREM ValidChunksAreKept == ChunksSpec => ChunksKept
<1>1. ChunksInv /\ FaultShape /\ [ChunksNext]_chunkVars
        => [\A c \in Chunk : Valid(c, chunk[c]) /\ chunk'[c] # chunk[c]
              => faults'.damage > faults.damage]_chunkVars
  BY StepKeepsChunks
<1>2. ChunksInit => FaultShape
  BY DEF ChunksInit, FaultShape
<1> QED BY <1>1, <1>2, ChunksInitInv, ChunksNextKeeps, FaultsKept, PTL DEF ChunksSpec, ChunksKept

(* The report the notebook trusts without computing again has the figures  *)
(* of one pass over the whole catalog.                                     *)
ReportOfOnePass == AlreadyPassed => disk["quality"].figures = OnePass

THEOREM ReportIsOfOnePass == ChunksSpec => []ReportOfOnePass
<1>1. ChunksInv => ReportOfOnePass
  BY DEF ChunksInv, WholeReport, ReportOfOnePass, AlreadyPassed
<1> QED BY <1>1, ChunksInitInv, ChunksNextKeeps, PTL DEF ChunksSpec
===============================================================================
