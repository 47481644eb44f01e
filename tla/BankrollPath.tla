---------------------------- MODULE BankrollPath ----------------------------
(***************************************************************************)
(* The bankroll of Stage 7: the races of a segment in order, each settled  *)
(* for every stake policy on a bankroll of its own, the ledger of the      *)
(* races, and the order of the configurations.                             *)
(*                                                                         *)
(*   - settled as stage7_eval_core_v1.py does, race after race: PathNext;  *)
(*   - settled as stage7_frozen_evaluator_v1.py does, from the same frozen *)
(*     rules, to find its one configuration: ChoiceNext.  Every            *)
(*     configuration is evaluated on the races of segment A, the best of   *)
(*     the eligible ones on B, the best of those that pass is frozen, and  *)
(*     only that one is evaluated on C, for a verdict.  Each segment       *)
(*     starts on fresh bankrolls.                                          *)
(*                                                                         *)
(* What the two stake, book and prefer can be compared.  The files, locks  *)
(* and resumes around these steps are in Stage7Trial.                      *)
(*                                                                         *)
(* A race's selection is the tickets in the frozen global order, each with *)
(* its raw Kelly fraction and its refund per ticket price.  Fractions are  *)
(* exact here, in 2000ths; the code's are floats.  Unit stands for the     *)
(* ticket price of 100 JPY: bankrolls are scaled with it.                  *)
(***************************************************************************)
EXTENDS Integers, Sequences, SequencesExt, FiniteSetsExt

CONSTANTS
    Policy,         \* stake policies (the configurations that differ in nothing else)
    Unit,           \* the ticket price
    Starts,         \* starting bankrolls
    Kelly,          \* Kelly fractions a ticket may have, in 2000ths
    Refund,         \* what a ticket may refund per Unit
    MaxTickets,     \* bound: tickets selected in a race
    Races,          \* bound: races of the segment
    SegmentLength,  \* races of A, B and C
    LeastRaces,     \* races with a bet that A, B and C ask for
    TopSize         \* configurations taken from A to B (10)

BankrollAssumption ==
    /\ Policy \subseteq {"FLAT100", "RACE2PCT_EQUAL", "FK10_R2", "FK25_R3"}
    /\ Unit \in Nat \ {0} /\ Starts \subseteq Nat \ {0}
    /\ Kelly \subseteq {20 * n : n \in 0..100} /\ Refund \subseteq Nat
    /\ MaxTickets \in Nat /\ Races \in Nat /\ TopSize \in Nat \ {0}
    /\ SegmentLength \in [{"A", "B", "C"} -> Nat] /\ LeastRaces \in [{"A", "B", "C"} -> Nat]

VARIABLES
    start,          \* the initial bankroll
    metric,         \* metric[p]: policy p's MetricState
    ledger,         \* ledger[p]: p's rows so far
    round,          \* the segment, or how the trial ended
    top,            \* A_TOP10, and its metrics in A
    freeze,         \* the frozen configuration and the metrics of B_PASS
    verdict

pathVars == <<start, metric, ledger>>
choiceVars == <<start, metric, ledger, round, top, freeze, verdict>>

Rows == ledger[CHOOSE p \in Policy : TRUE]
Ticket == [kelly : Kelly, refund : Refund]
Selection == UNION {[1..n -> Ticket] : n \in 0..MaxTickets}

Fresh(bank) == [bank |-> bank, peak |-> bank, least |-> bank, stake |-> 0, return |-> 0,
                races |-> 0, hits |-> 0, num |-> 0, den |-> 1]

PathInit == /\ start \in Starts
            /\ metric = [p \in Policy |-> Fresh(start)]
            /\ ledger = [p \in Policy |-> <<>>]
-----------------------------------------------------------------------------
(* allocate: the stakes on the tickets of a selection, 0 where dropped.    *)

(* Slip: the tickets the bankroll cannot pay are kept.                     *)
FlatUnfunded(bank, sel) == [i \in 1..Len(sel) |-> Unit]
Flat(bank, sel) == [i \in 1..Len(sel) |-> IF i <= bank \div Unit THEN Unit ELSE 0]

(* Slip: the remainder goes to every ticket.                               *)
EqualRounded(bank, sel) ==
    LET units == bank \div (50 * Unit)
        kept == Min({Len(sel), units})
    IN  [i \in 1..Len(sel) |-> IF i > kept THEN 0
            ELSE (units \div kept + (IF units % kept > 0 THEN 1 ELSE 0)) * Unit]
Equal(bank, sel) ==
    LET units == bank \div (50 * Unit)
        kept == Min({Len(sel), units})
    IN  [i \in 1..Len(sel) |-> IF i > kept THEN 0
            ELSE (units \div kept + (IF i <= units % kept THEN 1 ELSE 0)) * Unit]

(* A fraction f of the tickets' sum s over the race cap is scaled to       *)
(* f * cap / s, and then capped by itself.                                 *)
Fractional(bank, sel, mult, ticketCap, raceCap) ==
    LET raw == [i \in 1..Len(sel) |-> (mult * sel[i].kelly) \div 100]
        sum == FoldSeq(+, 0, raw)
        stake(f) == IF sum > raceCap
                      THEN (bank * Min({f * raceCap, ticketCap * sum})) \div (sum * 2000 * Unit)
                      ELSE (bank * Min({f, ticketCap})) \div (2000 * Unit)
    IN  [i \in 1..Len(sel) |-> stake(raw[i]) * Unit]

Allocate(policy, bank, sel) ==
    IF bank < Unit THEN [i \in 1..Len(sel) |-> 0]
    ELSE CASE policy = "FLAT100" -> Flat(bank, sel)
           [] policy = "RACE2PCT_EQUAL" -> Equal(bank, sel)
           [] policy = "FK10_R2" -> Fractional(bank, sel, 10, 5, 40)
           [] policy = "FK25_R3" -> Fractional(bank, sel, 25, 10, 60)
-----------------------------------------------------------------------------
(* MetricState.draw, after the bankroll of a race is known.                *)

(* Slip: the fall is taken from the initial bankroll, not from the peak.   *)
DrawFromStart(m) ==
    LET num == Max({start - m.bank, 0})
    IN  [m EXCEPT !.peak = Max({m.peak, m.bank}), !.least = Min({m.least, m.bank}),
                  !.num = IF num * m.den > m.num * start THEN num ELSE m.num,
                  !.den = IF num * m.den > m.num * start THEN start ELSE m.den]
Draw(m) ==
    LET peak == Max({m.peak, m.bank})
        num == peak - m.bank
        worse == num * m.den > m.num * peak
    IN  [m EXCEPT !.peak = peak, !.least = Min({m.least, m.bank}),
                  !.num = IF worse THEN num ELSE m.num, !.den = IF worse THEN peak ELSE m.den]

Booked(m, row) == Draw([m EXCEPT !.bank = row.post, !.stake = m.stake + row.stake,
                                 !.return = m.return + row.return, !.hits = m.hits + row.hits,
                                 !.races = m.races + (IF row.stake > 0 THEN 1 ELSE 0)])

(* Slip: a ticket hits although it was not funded.                         *)
RowHitsAll(m, policy, sel) ==
    LET stakes == Allocate(policy, m.bank, sel)
        stake == FoldSeq(+, 0, stakes)
        back == FoldSeq(+, 0, [i \in 1..Len(sel) |-> (stakes[i] \div Unit) * sel[i].refund])
    IN  [pre |-> m.bank, stake |-> stake, return |-> back, post |-> m.bank - stake + back,
         hits |-> Quantify(1..Len(sel), LAMBDA i : sel[i].refund > 0),
         executed |-> Quantify(1..Len(sel), LAMBDA i : stakes[i] > 0)]
RaceRow(m, policy, sel) ==
    LET stakes == Allocate(policy, m.bank, sel)
        stake == FoldSeq(+, 0, stakes)
        paid == [i \in 1..Len(sel) |-> (stakes[i] \div Unit) * sel[i].refund]
        back == FoldSeq(+, 0, paid)
    IN  [pre |-> m.bank, stake |-> stake, return |-> back, post |-> m.bank - stake + back,
         hits |-> Quantify(1..Len(sel), LAMBDA i : paid[i] > 0),
         executed |-> Quantify(1..Len(sel), LAMBDA i : stakes[i] > 0)]

Settle(sel) ==                                                  \* settle, for every policy
    /\ Len(Rows) < Races
    /\ ledger' = [p \in Policy |-> Append(ledger[p], RaceRow(metric[p], p, sel))]
    /\ metric' = [p \in Policy |-> Booked(metric[p], RaceRow(metric[p], p, sel))]
    /\ UNCHANGED start

PathNext == (\E sel \in Selection : Settle(sel)) /\ UNCHANGED <<round, top, freeze, verdict>>
-----------------------------------------------------------------------------
(* load_c_ledger: the metrics read back from a ledger, row by row.         *)
RowFits(m, row) ==
    /\ row.pre = m.bank /\ row.post = row.pre - row.stake + row.return
    /\ \A n \in {row.stake, row.return, row.post, row.hits, row.executed} : n >= 0
    /\ row.stake % Unit = 0 /\ row.hits <= row.executed

Replay(rows) == FoldLeft(Booked, Fresh(start), rows)

(* compare: whether p goes before q, by ROI (crosswise, for want of        *)
(* fractions), bankroll, drawdown, number of races and name.               *)
Name == [FK10_R2 |-> 1, FK25_R3 |-> 2, FLAT100 |-> 3, RACE2PCT_EQUAL |-> 4]
Marks(p, q) ==
    LET a == metric[p]
        b == metric[q]
    IN  <<a.return * b.stake - b.return * a.stake, a.bank - b.bank,
          b.num * a.den - a.num * b.den, a.races - b.races>>

(* Slip: the name is not asked when all else is equal.                     *)
BeforeUnnamed(p, q) == \E i \in 1..4 : /\ Marks(p, q)[i] > 0
                                       /\ \A j \in 1..(i - 1) : Marks(p, q)[j] = 0
Before(p, q) == LET marks == Append(Marks(p, q), Name[q] - Name[p])
                IN  \E i \in 1..5 : marks[i] > 0 /\ \A j \in 1..(i - 1) : marks[j] = 0
-----------------------------------------------------------------------------
(* The choice of a configuration.                                          *)

None == <<>>
Segments == {"A", "B", "C"}

ChoiceInit == PathInit /\ round = "A" /\ top = None /\ freeze = None /\ verdict = ""

(* The configurations of the segment; a function's domain is its keys.     *)
Cids == CASE round = "A" -> Policy
          [] round = "B" -> DOMAIN top
          [] OTHER -> {freeze.cid}
-----------------------------------------------------------------------------
(* allocate_stakes: the stakes on a selection in the global order.         *)
FirstFunded(n, sel) == [i \in 1..Len(sel) |-> IF i <= n THEN Unit ELSE 0]

(* Slip: the remainder of the units is not given out.                      *)
SpreadEven(units, sel) ==
    LET kept == Min({Len(sel), units})
    IN  [i \in 1..Len(sel) |-> IF i <= kept THEN Unit * (units \div kept) ELSE 0]
Spread(units, sel) ==
    LET kept == Min({Len(sel), units})
        base == IF kept = 0 THEN 0 ELSE units \div kept
    IN  [i \in 1..Len(sel) |->
            IF i > kept THEN 0
            ELSE Unit * (IF i <= units - base * kept THEN base + 1 ELSE base)]

(* Fractions in 2000ths; every one scaled by raceCap / sum over the cap.   *)
Scaled(bank, sel, mult, ticketCap, raceCap) ==
    LET rf == [i \in 1..Len(sel) |-> (mult * sel[i].kelly) \div 100]
        sum == FoldSeq(+, 0, SelectSeq(rf, LAMBDA x : x > 0))
        over == sum > raceCap
        num(i) == IF over THEN rf[i] * raceCap ELSE rf[i]
        den == IF over THEN sum ELSE 1
    IN  [i \in 1..Len(sel) |->
            Unit * ((bank * (IF num(i) > ticketCap * den THEN ticketCap * den ELSE num(i)))
                    \div (2000 * Unit * den))]

allocate_stakes(policy, bank, sel) ==
    IF sel = <<>> \/ bank < Unit THEN [i \in 1..Len(sel) |-> 0]
    ELSE CASE policy = "FLAT100" -> FirstFunded(Min({Len(sel), bank \div Unit}), sel)
           [] policy = "RACE2PCT_EQUAL" ->
                Spread(Min({(2 * bank) \div (100 * Unit), bank \div Unit}), sel)
           [] policy = "FK10_R2" -> Scaled(bank, sel, 10, 5, 40)
           [] policy = "FK25_R3" -> Scaled(bank, sel, 25, 10, 60)

(* SegmentState.settle_race, once the stakes and the returns are known.    *)
Marked(m, peak) ==
    LET worse == (peak - m.bank) * m.den > m.num * peak
    IN  [m EXCEPT !.peak = peak, !.least = Min({m.least, m.bank}),
                  !.num = IF worse THEN peak - m.bank ELSE m.num, !.den = IF worse THEN peak ELSE m.den]

Tally(m, stake, ret, hits) ==
    [m EXCEPT !.bank = m.bank - stake + ret, !.stake = m.stake + stake, !.return = m.return + ret,
              !.races = m.races + (IF stake > 0 THEN 1 ELSE 0), !.hits = m.hits + hits]

Settled(m, alloc, sel) ==
    LET won == {i \in 1..Len(sel) : alloc[i] > 0 /\ sel[i].refund > 0}
    IN  Tally(m, FoldSeq(+, 0, alloc),
              MapThenSumSet(LAMBDA i : sel[i].refund * (alloc[i] \div Unit), won), Cardinality(won))

settle_race(m, policy, sel) ==
    LET next == Settled(m, allocate_stakes(policy, m.bank, sel), sel)
    IN  Marked(next, Max({m.peak, next.bank}))

(* The row of the race; only C's rows are kept by the code.               *)
Difference(m, next, executed) ==
    [pre |-> m.bank, stake |-> next.stake - m.stake, return |-> next.return - m.return,
     post |-> next.bank, hits |-> next.hits - m.hits, executed |-> executed]
LedgerRow(m, policy, sel) ==
    Difference(m, settle_race(m, policy, sel),
               Quantify(1..Len(sel), LAMBDA i : allocate_stakes(policy, m.bank, sel)[i] > 0))

EvalRace(sel) ==                                                \* eval_configs_on_segment
    /\ round \in Segments
    /\ \A p \in Cids : Len(ledger[p]) < SegmentLength[round]
    /\ metric' = [p \in Policy |-> IF p \in Cids THEN settle_race(metric[p], p, sel) ELSE metric[p]]
    /\ ledger' = [p \in Policy |-> IF p \in Cids THEN Append(ledger[p], LedgerRow(metric[p], p, sel))
                                                 ELSE ledger[p]]
    /\ UNCHANGED <<start, round, top, freeze, verdict>>
-----------------------------------------------------------------------------
Evaluated == round \in Segments /\ \A p \in Cids : Len(ledger[p]) = SegmentLength[round]

NoRoi(m) == m.stake = 0
Positive(m) == m.return > m.stake
Drawdown(m, percent) == 100 * m.num <= percent * m.den

(* metrics_rank_key: no ROI is below every ROI.                            *)
Ranks(p, q) ==
    IF NoRoi(metric[p]) # NoRoi(metric[q]) THEN NoRoi(metric[q])
    ELSE LET marks == Append(Marks(p, q), Name[q] - Name[p])
         IN  \E i \in 1..5 : marks[i] > 0 /\ \A j \in 1..(i - 1) : marks[j] = 0

Best(n, cids) == {p \in cids : Cardinality({q \in cids : Ranks(q, p)}) < n}
Eligible == {p \in Cids : /\ metric[p].races >= LeastRaces[round] /\ ~NoRoi(metric[p])
                          /\ Drawdown(metric[p], 35)}

Afresh == /\ metric' = [p \in Policy |-> Fresh(start)]
          /\ ledger' = [p \in Policy |-> <<>>]

(* ab_phase, after segment A.                                              *)
Shortlist ==
    /\ round = "A" /\ Evaluated
    /\ IF Eligible = {}
         THEN round' = "NO_A" /\ UNCHANGED <<metric, ledger, top>>
         ELSE /\ top' = [p \in Best(TopSize, Eligible) |-> metric[p]]
              /\ round' = "B" /\ Afresh
    /\ UNCHANGED <<start, freeze, verdict>>

(* Slip: a configuration of A_TOP10 need not gain in B.                    *)
BPassLosing == Eligible
BPass == {p \in Eligible : Positive(metric[p])}

(* ab_phase, after segment B.                                              *)
Freeze ==
    /\ round = "B" /\ Evaluated
    /\ IF BPass = {}
         THEN round' = "NO_B" /\ UNCHANGED <<metric, ledger, freeze>>
         ELSE /\ freeze' = [cid |-> CHOOSE p \in Best(1, BPass) : TRUE,
                            passed |-> [p \in BPass |-> metric[p]]]
              /\ round' = "C" /\ Afresh
    /\ UNCHANGED <<start, top, verdict>>

(* c_phase: what the 2.5 % quantile of the resampled ROI can be; it is not *)
(* below the worst nor above the best race.                                *)
CLedger == ledger[freeze.cid]
Lower == {s \in {-1, 1} : \E i \in 1..Len(CLedger) :
             /\ CLedger[i].stake > 0
             /\ IF s = 1 THEN CLedger[i].return > CLedger[i].stake
                         ELSE CLedger[i].return <= CLedger[i].stake}

(* m is what the ledger of C gives back.                                   *)
Verdict(m, lower) ==
    LET gains == ~NoRoi(m) /\ Positive(m) /\ m.races >= LeastRaces["C"]
    IN  IF gains /\ Drawdown(m, 25) /\ lower > 0 THEN "OOS_STRONG_PASS"
        ELSE IF gains /\ Drawdown(m, 35) /\ lower <= 0 THEN "OOS_POSITIVE_BUT_UNCERTAIN"
        ELSE "OOS_FAIL"

(* With no race staked the bootstrap has no replicates, and no verdict.    *)
Judge ==
    /\ round = "C" /\ Evaluated
    /\ IF Lower = {} THEN round' = "NO_BOOTSTRAP" /\ UNCHANGED verdict
       ELSE \E lower \in Lower : verdict' = Verdict(Replay(CLedger), lower) /\ round' = "COMPLETE"
    /\ UNCHANGED <<start, metric, ledger, top, freeze>>

ChoiceNext == (\E sel \in Selection : EvalRace(sel)) \/ Shortlist \/ Freeze \/ Judge
-----------------------------------------------------------------------------
PathTypeOK ==
    /\ start \in Starts
    /\ \A p \in Policy : /\ metric[p] \in [DOMAIN Fresh(start) -> Nat]
                         /\ Len(ledger[p]) <= Races /\ Len(ledger[p]) = Len(Rows)

(* No race is staked beyond what its policy allows of the bankroll before  *)
(* it, in whole tickets, whatever rounding, scaling and truncation did.    *)
Cap == [FLAT100 |-> 2000, RACE2PCT_EQUAL |-> 40, FK10_R2 |-> 40, FK25_R3 |-> 60]
StakeWithinPolicy ==
    \A p \in Policy : \A i \in 1..Len(ledger[p]) :
        LET row == ledger[p][i]
        IN  2000 * row.stake <= Cap[p] * row.pre /\ row.stake % Unit = 0

(* The fraction kept as drawdown is the worst fall from any bankroll of    *)
(* the path to any later one.                                              *)
DrawdownIsWorst ==
    \A p \in Policy :
        LET path == <<start>> \o [i \in 1..Len(ledger[p]) |-> ledger[p][i].post]
            m == metric[p]
            fall(i, j) == (path[i] - path[j]) * m.den - m.num * path[i]
            pairs == {ij \in (1..Len(path)) \X (1..Len(path)) : ij[1] <= ij[2]}
        IN  /\ \A ij \in pairs : fall(ij[1], ij[2]) <= 0
            /\ \E ij \in pairs : fall(ij[1], ij[2]) = 0

(* A ledger that an interrupted run has left gives back the metrics of the *)
(* run that wrote it: the bootstrap can go on from it.                     *)
LedgerReplays ==
    \A p \in Policy :
        /\ Replay(ledger[p]) = metric[p]
        /\ \A i \in 1..Len(ledger[p]) :
               RowFits(Replay(SubSeq(ledger[p], 1, i - 1)), ledger[p][i])

(* Selecting by compare selects one: it puts any configurations in one     *)
(* order, those that never staked included.                                *)
OrderTotal ==
    \A p, q \in Policy :
        /\ p # q => (Before(p, q) <=> ~Before(q, p))
        /\ \A r \in Policy : Before(p, q) /\ Before(q, r) => Before(p, r)

(* The selections and the bankrolls of the trial are settled alike by the  *)
(* two evaluators, to the last row.                                        *)
SettledAlike ==
    round \in Segments => \A p \in Cids, sel \in Selection :
        /\ LedgerRow(metric[p], p, sel) = RaceRow(metric[p], p, sel)
        /\ settle_race(metric[p], p, sel) = Booked(metric[p], RaceRow(metric[p], p, sel))

(* They also prefer the same configurations, although they place those     *)
(* that never bet differently: none of these is eligible.                  *)
RankedAlike ==
    round = "A" /\ Evaluated =>
        /\ \A p, q \in Eligible : Ranks(p, q) <=> Before(p, q)
        /\ Cardinality(Best(TopSize, Eligible)) = Min({TopSize, Cardinality(Eligible)})

(* What is frozen was eligible in A and gained money in B, the most per    *)
(* stake of those that did; a verdict that is no failure is earned on C    *)
(* alone, from the starting bankroll.                                      *)
ChosenOnMerit ==
    /\ round \in {"C", "COMPLETE", "NO_BOOTSTRAP"} =>
        LET cid == freeze.cid
            b == freeze.passed
        IN  /\ cid \in DOMAIN b /\ DOMAIN b \subseteq DOMAIN top
            /\ Cardinality(DOMAIN top) <= TopSize
            /\ \A q \in DOMAIN b :
                   /\ b[q].return > b[q].stake /\ b[q].races >= LeastRaces["B"]
                   /\ b[q].return * b[cid].stake <= b[cid].return * b[q].stake
            /\ top[cid].races >= LeastRaces["A"] /\ 100 * top[cid].num <= 35 * top[cid].den
    /\ \A p \in Policy : metric[p].bank = start - metric[p].stake + metric[p].return
    /\ verdict \in {"OOS_STRONG_PASS", "OOS_POSITIVE_BUT_UNCERTAIN"} =>
           metric[freeze.cid].bank > start
===============================================================================
