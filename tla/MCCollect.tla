------------------------------- MODULE MCCollect -------------------------------
(* Collection for TLC: the snapshot chain with clocks and cutoffs on both  *)
(* sides of their limits, the capture of a race and the lookup of a rider  *)
(* at a site that changes meanwhile, and the recovery of prices with an    *)
(* archive that changes under it, or with every page two markets can make. *)
(* They share no state: part says which of them a behaviour is of, the     *)
(* others rest.                                                            *)
EXTENDS SnapshotChain, RaceCapture, PriceRecovery, TLC

CONSTANTS Full1, Full2, Short1, Short2, Kyoto1, Kyoto2, Kyo1, Kyo2
VARIABLE part

MCAge == {-1, 0, 60, 61}
MCBefore == {0, 1}
(* Prefectures of two terms, as they are written: by keirin.jp and by some *)
(* racecards (Hokkaido) with the suffix, otherwise without it; and one that*)
(* ends as a suffix does, so that the conversion strips too much (Kyoto).  *)
Writings == {Full1, Full2, Short1, Short2, Kyoto1, Kyoto2, Kyo1, Kyo2}
CanonPref == [g \in Writings |-> CASE g \in {Full1, Short1} -> Short1 [] g \in {Full2, Short2} -> Short2
                                   [] g \in {Kyoto1, Kyo1} -> Kyo1 [] OTHER -> Kyo2]
Termwise == [g \in Writings |->
    CASE g = Full1 -> Full2 [] g = Full2 -> Full1 [] g = Short1 -> Short2 [] g = Short2 -> Short1
      [] g = Kyoto1 -> Kyoto2 [] g = Kyoto2 -> Kyoto1 [] g = Kyo1 -> Kyo2 [] OTHER -> Kyo1]
CaptureSymmetry == UNION {Permutations(S) : S \in {Name, Snum, Form}} \cup {Termwise}

(* A racecard prints riders of the usual writing, or a first car otherwise *)
(* among riders alike but of another term; locators are called without the *)
(* suffix and, as they use no racecard, alone.                             *)
OddFirst(rows, others) == \A c \in Cars \ {1} : rows[c] = [rows[1] EXCEPT !.group = others]
RacecardsMC ==
    [Cars -> [name: Name, group: {Short1, Short2}, form: Form]]
    \cup {rows \in [Cars -> [name: Name, group: {Full1, Kyoto1, Short2}, form: Form]] : OddFirst(rows, Short2)}
    \cup {rows \in [Cars -> [name: Name, group: {Full2, Kyoto2, Short1}, form: Form]] : OddFirst(rows, Short1)}
Locators == {"v1", "v2"}
CalledWithout == job'.kind \in Locators => job'.sheet[1].group \notin {Full1, Full2}
Alone == {job.kind, job'.kind} \cap Locators # {} => jobs' = 1

Sold(confirmed, pairs, threes) ==
    [confirmed |-> confirmed, sold |-> [m \in {"2shahuku", "3renhuku"} |->
        IF m = "2shahuku" THEN pairs ELSE threes]]
Pairs(cars)  == {{a, b} : a, b \in cars} \ {{a} : a \in cars}
Threes(cars) == {{a, b, c} : a, b, c \in cars} \ (Pairs(cars) \cup {{a} : a \in cars})
WholePage  == Sold(TRUE, Pairs({1, 3, 4}), Threes({1, 3, 4}))
EarlyPage  == Sold(FALSE, Pairs(1..3), Threes(1..3))
FramesOnly == [confirmed |-> TRUE, sold |-> [m \in {"2wakutan"} |-> {<<1, 2>>}]]
OrderedPage ==
    [confirmed |-> TRUE, sold |-> [m \in {"2shatan"} |-> {<<a, b>> \in (2..4) \X (2..4) : a # b}]]
PageOfPairs == {Sold(TRUE, p, t) : p \in SUBSET Pairs(1..4), t \in SUBSET Threes(1..4)}

(* Prices on the diagonal, in place of a ticket's or beside it.            *)
PageOfTwice == {Sold(TRUE, p, t) : p \in SUBSET (Pairs(1..3) \cup {{1}, {2}}), t \in SUBSET Threes(1..3)}
OrderedTwice ==
    [confirmed |-> TRUE, sold |-> [m \in {"2shatan"} |-> {<<a, b>> \in (2..4) \X (2..4) : a # b \/ a = 2}
                                                        \ {<<4, 3>>}]]

On(plain, second, explicit) == [c \in {"plain", "second", "explicit"} |->
    CASE c = "plain" -> plain [] c = "second" -> second [] OTHER -> explicit]
OnePlain == On("good", "none", "none")
Shelves  == {OnePlain, On("good", "good", "none"), On("bad", "none", "good"), On("none", "none", "good")}

SomePages == {WholePage, EarlyPage, FramesOnly, OrderedPage, OrderedTwice}
PageMC  == PageOfPairs \cup PageOfTwice \cup SomePages
OrderMC == <<"a", "b">>

(* The second race is sold as it should be.                                *)
Selling(pages) == {[r \in {"a", "b"} |-> IF r = "a" THEN p ELSE WholePage] : p \in pages}
RecoveryRests ==
    /\ ver = "v2" /\ page \in Selling({WholePage}) /\ archive = [r \in {"a", "b"} |-> OnePlain]
    /\ RecInit

CaptureRests ==
    site = [s \in Snum |-> Absent] /\ edits = 0 /\ time = 0 /\ card = Absent /\ job = NoJob /\ jobs = 0

CollectInit ==
    \/ part = "chain" /\ SnapInit /\ RecoveryRests /\ CaptureRests
    \/ part = "capture" /\ CaptureInit /\ SnapInit /\ RecoveryRests
    \/ part = "recovery" /\ page \in Selling(SomePages) /\ RecInit /\ SnapInit /\ CaptureRests
    \/ /\ part = "pages" /\ page \in Selling(PageOfPairs \cup PageOfTwice) /\ archive = [r \in {"a", "b"} |-> OnePlain]
       /\ RecInit /\ SnapInit /\ CaptureRests

(* Each page that two markets can make is met in an archive that stays.    *)
Undisturbed == runs' <= 1 /\ changes' = 0

CollectNext ==
    /\ UNCHANGED part
    /\ \/ part = "chain" /\ SnapNext /\ UNCHANGED <<recoveryVars, captureVars>>
       \/ part = "capture" /\ CaptureNext /\ CalledWithout /\ Alone /\ UNCHANGED <<recoveryVars, snapVars>>
       \/ /\ part \in {"recovery", "pages"} /\ RecNext /\ UNCHANGED <<snapVars, captureVars>>
          /\ part = "pages" => Undisturbed

CollectSpec == CollectInit /\ [][CollectNext]_<<part, snapVars, recoveryVars, captureVars>>
===============================================================================
