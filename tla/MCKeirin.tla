------------------------------ MODULE MCKeirin ------------------------------
(* The keirin experiments for TLC: the single-shot trial of Stage 7, the   *)
(* chunks of Stage 3 (with torn files; and again with many kills only), the *)
(* stages that make and price the tickets and the bankroll paths of Stage  *)
(* 7.  They share no state: part says which of them a behaviour is of, and *)
(* the others rest.                                                        *)
EXTENDS Stage7Trial, Stage3Chunks

CONSTANT Policy

VARIABLES part, rows2, bound2, chunk2, disk2, nb2, eng2, faults2, start, metric, path, round, top, frozen, verdict,
          race, weight, surface, stage, struct, prob, cat, decision

OneNotebook == {{"v1"}, {"v2"}}

(* Rows of one or two tickets on both sides of the limits of the profiles. *)
TwoRow  == << <<120, 250>>, <<0, 100>> >>
HighRow == << <<-5, 300>> >>

MCRow == {TwoRow, HighRow}

Killed == INSTANCE Stage3Chunks WITH
    Chunks <- 2, ChunkSize <- 1, MaxKill <- 4, MaxDamage <- 0, Bound <- {TRUE},
    rows <- rows2, bound <- bound2, chunk <- chunk2, disk <- disk2, nb <- nb2, eng <- eng2,
    faults <- faults2

Lengths == [A |-> 1, B |-> 1, C |-> 2]
Least == [A |-> 1, B |-> 1, C |-> 1]
Paths == INSTANCE BankrollPath WITH
    Unit <- 10, Starts <- {10000, 1530, 15}, Kelly <- {40, 900}, Refund <- {0, 460},
    MaxTickets <- 2, Races <- 3, SegmentLength <- Lengths, LeastRaces <- Least, TopSize <- 2,
    ledger <- path, freeze <- frozen

Choice == INSTANCE BankrollPath WITH
    Unit <- 10, Starts <- {35, 1530}, Kelly <- {900}, Refund <- {0, 15, 460}, MaxTickets <- 2,
    Races <- 2, SegmentLength <- Lengths, LeastRaces <- Least, TopSize <- 2,
    ledger <- path, freeze <- frozen

(* Races with their frame tickets, one of them of cars 1 to 5 only, without *)
(* them, and with something wrong: a ticket or a market lacks.             *)
AllSold == {"2shahuku", "2shatan", "2wakuhuku", "2wakutan", "3renhuku", "3rentan", "wide"}
Few == AllSold \ {"2wakuhuku", "2wakutan"}
Runners(n) == IF n = 8 THEN {2, 4, 5, 6, 8} ELSE IF n = 9 THEN {3, 4, 5, 8} ELSE 1..5
Entries == {[cars |-> Runners(n), nominal |-> n, sold |-> AllSold, gap |-> ""] : n \in 7..9}
           \cup {[cars |-> Runners(9), nominal |-> 9, sold |-> Few, gap |-> g] : g \in {"", "wide", "3renhuku"}}
           \cup {[cars |-> Runners(8), nominal |-> 8, sold |-> AllSold, gap |-> g] : g \in {"2wakutan", "2wakuhuku"}}
           \cup {[cars |-> Runners(8), nominal |-> 8, sold |-> AllSold \ {m}, gap |-> ""]
                   : m \in {"2wakutan", "3rentan", "wide"}}
Strong(S, c) == [x \in S |-> IF x = c THEN 7 - Cardinality(S) ELSE 1]
Forecasts == [S \in {Runners(n) : n \in 7..9} |->
                 {[candidate_a |-> Strong(S, 5), b1a |-> Strong(S, c)] : c \in {4, 5}}]
Price(m) == CASE m = "3rentan" -> 30 [] m = "2shatan" -> 20 [] m = "3renhuku" -> 10
              [] m = "wide" -> 4 [] OTHER -> 12
OddsMC(s, m, t) == LET low == IF s \in {t[i] : i \in DOMAIN t} THEN Price(m) \div 2 ELSE Price(m)
                   IN  [low |-> low, high |-> IF s = 4 THEN low - 1 ELSE low + 1]
Staged == INSTANCE TicketStages WITH
    Entry <- Entries, Forecast <- Forecasts, Surface <- {0, 4, 5, 8}, Odds <- OddsMC,
    Whole <- 6, Scale <- 60, Parts <- 60, Gate <- {100, 25},
    Profile <- {[ev |-> 0, ratio |-> 100], [ev |-> 20, ratio |-> 120], [ev |-> 100, ratio |-> 200]}

ASSUME Staged!StagesAssumption
ASSUME Choice!BankrollAssumption /\ Paths!BankrollAssumption

killedVars == <<rows2, bound2, chunk2, disk2, nb2, eng2, faults2>>
pathVars  == <<start, metric, path>>
choiceVars == <<round, top, frozen, verdict>>
stagesVars == <<race, weight, surface, stage, struct, prob, cat, decision>>
StagesRest ==
    /\ race = [cars |-> 1..5, nominal |-> 7, sold |-> AllSold, gap |-> ""]
    /\ weight = [candidate_a |-> Strong(1..5, 5), b1a |-> Strong(1..5, 5)]
    /\ surface = 0 /\ Staged!StagesInit

TrialRests ==
    use = {"v1"} /\ pick = [e \in {"v1", "v2"} |-> CHOOSE c \in Config : TRUE] /\ thin = FALSE /\ Init
ChunksRest ==
    rows = [i \in 1..4 |-> TwoRow] /\ bound = TRUE /\ chunk = [c \in 0..1 |-> Unset] /\ ChunksInit
KilledRests ==
    rows2 = [i \in 1..2 |-> TwoRow] /\ chunk2 = [c \in 0..1 |-> Unset] /\ Killed!ChunksInit
ChoiceRests == round = "A" /\ top = Choice!None /\ frozen = Choice!None /\ verdict = ""
PathsRest == start = 15 /\ Paths!PathInit /\ ChoiceRests

KeirinInit ==
    \/ /\ StagesRest /\ KilledRests
       /\ \/ part = "trial" /\ Init /\ ChunksRest /\ PathsRest
          \/ part = "chunks" /\ ChunksInit /\ TrialRests /\ PathsRest
          \/ part = "paths" /\ Paths!PathInit /\ ChoiceRests /\ TrialRests /\ ChunksRest
          \/ part = "choice" /\ Choice!ChoiceInit /\ TrialRests /\ ChunksRest
    \/ /\ TrialRests /\ ChunksRest /\ PathsRest
       /\ \/ part = "kills" /\ Killed!ChunksInit /\ StagesRest
          \/ part = "stages" /\ Staged!StagesInit /\ KilledRests

KeirinNext ==
    /\ UNCHANGED part
    /\ \/ /\ UNCHANGED <<killedVars, stagesVars>>
          /\ \/ part = "trial" /\ Next /\ UNCHANGED <<chunkVars, pathVars, choiceVars>>
             \/ part = "chunks" /\ ChunksNext /\ UNCHANGED <<trialVars, pathVars, choiceVars>>
             \/ part = "paths" /\ Paths!PathNext /\ UNCHANGED <<trialVars, chunkVars>>
             \/ part = "choice" /\ Choice!ChoiceNext /\ UNCHANGED <<trialVars, chunkVars>>
       \/ /\ UNCHANGED <<trialVars, chunkVars, pathVars, choiceVars>>
          /\ \/ part = "kills" /\ Killed!ChunksNext /\ UNCHANGED stagesVars
             \/ part = "stages" /\ Staged!StagesNext /\ UNCHANGED killedVars

KeirinSpec ==
    /\ KeirinInit
    /\ [][KeirinNext]_<<part, trialVars, chunkVars, killedVars, pathVars, choiceVars, stagesVars>>
    /\ part = "trial" => Fairness
    /\ part = "kills" => Killed!ChunksFairness

(* The chunks (stage3_ticket_filter_diagnostics_v2.py and its notebook):   *)
(* the report that is trusted without computing it again is what one pass  *)
(* over the catalog gives, and its quantiles are in order.                 *)
ChunksInvariant == part = "chunks" => ChunksTypeOK /\ FastPathSound /\ QuantilesOrdered

(* Bankrolls (stage7_eval_core_v1.py): no race staked beyond its policy,   *)
(* the drawdown is the worst fall there was, an interrupted ledger gives   *)
(* the metrics back, and configurations are compared in one total order.   *)
PathsInvariant ==
    /\ part = "paths" => /\ Paths!PathTypeOK /\ Paths!StakeWithinPolicy /\ Paths!DrawdownIsWorst
                         /\ Paths!LedgerReplays /\ Paths!OrderTotal
    /\ part = "choice" => Choice!SettledAlike /\ Choice!RankedAlike /\ Choice!ChosenOnMerit
    /\ part = "stages" => Staged!ProbabilityOfPaying /\ Staged!RefusedForCause /\ Staged!DemandsAreKept

(* What the single-shot trial is fed with: the diagnosis of the tickets    *)
(* and the whole way from a race's tickets to the configuration that is    *)
(* frozen on its bankroll.                                                 *)
TicketsInvariant == ChunksInvariant /\ PathsInvariant

(* A trial that is pursued comes to its end, and a diagnosis over the      *)
(* pinned catalog to its PASS, however often they are cut off.             *)
ComesToItsEnd ==
    /\ part = "trial" => Concluded
    /\ part = "kills" => Killed!PassesInTheEnd
===============================================================================
