---------------------------- MODULE TicketStages ----------------------------
(***************************************************************************)
(* A race on its way from its closing prices to a portfolio of tickets:    *)
(* the market structure (stage1_market_structure_only_v1.py), the          *)
(* Plackett-Luce ticket probabilities of the two models                    *)
(* (stage1_pl_ticket_probability_engine_v1.py), prices joined with them    *)
(* (stage2_price_ev_catalog_engine_v1.py), and what the models agree on    *)
(* under a profile, a gate and a template                                  *)
(* (stage456_preoutcome_decision_engine_v1.py).  Any step may refuse the   *)
(* race (FailClosed); the scripts then write nothing.                      *)
(*                                                                         *)
(* A ticket is the tuple parse_ticket gives, ascending where order does    *)
(* not matter.  A model gives car i the winning probability w[i] / Whole;  *)
(* with Scale a multiple of every Whole - w[i] and Whole - w[i] - w[j], a  *)
(* ticket's probability is an integer share of One.  Odds are integers     *)
(* that divide Parts.  The code's floats are exact here, and its           *)
(* tolerance of 1e-10 is none.                                             *)
(***************************************************************************)
EXTENDS Integers, Sequences, FiniteSets, FiniteSetsExt

CONSTANTS
    Entry,              \* races: [cars, nominal, sold, gap]
    Forecast,           \* Forecast(cars): pairs of winner weights, the models' predictions
    Surface,            \* price surfaces
    Odds(_, _, _),      \* Odds(surface, market, ticket): [low, high]; the same unless wide
    Whole, Scale, Parts,
    Profile,            \* [ev, ratio]: least EV and shape ratio, in percent
    Gate                \* caps on the models' distance, in percent; 100 is no cap

Model == {"candidate_a", "b1a"}
Market == {"2shahuku", "2shatan", "2wakuhuku", "2wakutan", "3renhuku", "3rentan", "wide"}
Ordered == {"3rentan", "2shatan", "2wakutan"}
Framed == {"2wakutan", "2wakuhuku"}
Template == {"SINGLE", "TOP1", "TOP3", "TOP5", "BOX3", "WHEEL1x3", "FORMATION_2x3x4"}
One == Whole * Scale * Scale

Total(w, S) == MapThenSumSet(LAMBDA c : w[c], S)

StagesAssumption ==
    /\ \A e \in Entry : /\ e.cars \subseteq 1..e.nominal /\ e.nominal \in 7..9 /\ e.sold \subseteq Market
                        /\ \A w \in Forecast[e.cars], m \in Model : Total(w[m], e.cars) = Whole
    /\ \A p \in Profile : p.ev \in Nat /\ p.ratio \in Nat
    /\ Gate \subseteq 0..100

VARIABLES
    race, weight, surface,  \* inputs: the entry, the predictions, the prices
    stage,                  \* how far the race is, or "failed"
    struct,                 \* market structure: the tickets of each market
    prob,                   \* prob[model][market][ticket]
    cat,                    \* cat[model][market][ticket]: probability, price, the market's implied sum
    decision                \* the profile, gate and template used, and the tickets they select

stagesVars == <<race, weight, surface, stage, struct, prob, cat, decision>>

None == <<>>
Rise(i, j) == IF i < j THEN <<i, j>> ELSE <<j, i>>
Unequal(S) == {t \in S \X S : t[1] # t[2]}
Orders(S) == {t \in S \X S \X S : t[1] # t[2] /\ t[1] # t[3] /\ t[2] # t[3]}
Members(t) == {t[i] : i \in DOMAIN t}

Refuse == stage' = "failed" /\ UNCHANGED <<race, weight, surface, struct, prob, cat, decision>>
-----------------------------------------------------------------------------
(* Frames: of a field of n cars the first 12 - n have frames of their own, *)
(* and the others share them by twos.                                      *)
frame_map_for_nominal(n) ==
    [c \in 1..n |-> IF c <= 12 - n THEN c ELSE (12 - n) + (c - (12 - n) + 1) \div 2]

FrameTickets(m, cars, fm) ==                                    \* frame_key_sets
    IF m = "2wakutan" THEN {<<fm[t[1]], fm[t[2]]>> : t \in Unequal(cars)}
                      ELSE {Rise(fm[t[1]], fm[t[2]]) : t \in Unequal(cars)}

(* Slip: the tickets are counted, not compared.                            *)
FieldsByCount(cars, keys) ==
    {n \in 7..9 : /\ cars \subseteq 1..n
                  /\ Cardinality(FrameTickets("2wakuhuku", cars, frame_map_for_nominal(n)))
                         = Cardinality(keys["2wakuhuku"])}
Fields(cars, keys) ==                                           \* infer_frame_map
    {n \in 7..9 : /\ cars \subseteq 1..n
                  /\ \A m \in Framed : FrameTickets(m, cars, frame_map_for_nominal(n)) = keys[m]}
Inferred(cars, keys) == frame_map_for_nominal(CHOOSE n \in Fields(cars, keys) : TRUE)

Tickets(m, cars, fm) ==
    CASE m = "3rentan" -> Orders(cars)
      [] m = "2shatan" -> Unequal(cars)
      [] m = "3renhuku" -> {t \in Orders(cars) : t[1] < t[2] /\ t[2] < t[3]}
      [] m \in {"2shahuku", "wide"} -> {t \in Unequal(cars) : t[1] < t[2]}
      [] OTHER -> FrameTickets(m, cars, fm)

(* What the price catalog holds; gap is a market that lacks a ticket.      *)
Catalog == LET fm == frame_map_for_nominal(race.nominal)
           IN  [m \in race.sold |-> LET all == Tickets(m, race.cars, fm)
                                    IN  IF m = race.gap THEN all \ {CHOOSE t \in all : TRUE} ELSE all]

StagesInit ==
    /\ race \in Entry /\ weight \in Forecast[race.cars] /\ surface \in Surface
    /\ stage = "priced" /\ struct = None /\ prob = None /\ cat = None /\ decision = None

Structure ==
    /\ stage = "priced"
    /\ struct' = Catalog /\ stage' = "structure"
    /\ UNCHANGED <<race, weight, surface, prob, cat, decision>>
-----------------------------------------------------------------------------
(* Stage 1.  The code refuses a denominator that is not positive.          *)
Denominators(w) == \A t \in Unequal(race.cars) :
                       /\ w[t[1]] < Whole
                       /\ race.sold \cap {"3rentan", "3renhuku", "wide"} # {} => w[t[1]] + w[t[2]] < Whole

Exact(w, t) == w[t[1]] * w[t[2]] * w[t[3]]                       \* exact_order_probs
               * (Scale \div (Whole - w[t[1]])) * (Scale \div (Whole - w[t[1]] - w[t[2]]))
Pair(w, i, j) == w[i] * w[j] * (Scale \div (Whole - w[i])) * Scale
Both(w, i, j) == Pair(w, i, j) + Pair(w, j, i)

(* Slip: wide counts the third place for one of the two orders only.       *)
WideShort(w, t) == MapThenSumSet(LAMBDA o : Exact(w, o),
                       {o \in Orders(race.cars) : o[1] \in Members(t) /\ Members(t) \subseteq Members(o)})
Wide(w, t) == MapThenSumSet(LAMBDA o : Exact(w, o),
                            {o \in Orders(race.cars) : Members(t) \subseteq Members(o)})

Share(m, w, fm, t) ==                                           \* build_market_probs
    CASE m = "2shatan" -> Pair(w, t[1], t[2])
      [] m = "2shahuku" -> Both(w, t[1], t[2])
      [] m = "3rentan" -> Exact(w, t)
      [] m = "3renhuku" -> MapThenSumSet(LAMBDA o : Exact(w, o),
                                         {o \in Orders(race.cars) : Members(o) = Members(t)})
      [] m = "wide" -> Wide(w, t)
      [] m = "2wakutan" -> MapThenSumSet(LAMBDA p : Pair(w, p[1], p[2]),
                               {p \in Unequal(race.cars) : <<fm[p[1]], fm[p[2]]>> = t})
      [] m = "2wakuhuku" -> MapThenSumSet(LAMBDA p : Both(w, p[1], p[2]),
                                {p \in Unequal(race.cars) : p[1] < p[2] /\ Rise(fm[p[1]], fm[p[2]]) = t})

FramesTold == \/ Framed \cap race.sold = {}
              \/ Framed \subseteq race.sold /\ Cardinality(Fields(race.cars, struct)) = 1

Target(m) == IF m = "wide" THEN 3 * One ELSE One
SharesOf(w) ==
    LET fm == IF Framed \subseteq race.sold THEN Inferred(race.cars, struct) ELSE None
    IN  [m \in race.sold |-> [t \in Tickets(m, race.cars, fm) |-> Share(m, w, fm, t)]]

(* assert_market_invariants                                                *)
SharesFit(p) == \A m \in race.sold : /\ DOMAIN p[m] = struct[m]
                                     /\ \A t \in DOMAIN p[m] : p[m][t] > 0
                                     /\ Total(p[m], DOMAIN p[m]) = Target(m)

Probabilities ==
    /\ stage = "structure"
    /\ IF /\ \A k \in Model : \A c \in race.cars : weight[k][c] > 0
          /\ \A k \in Model : Denominators(weight[k])
          /\ FramesTold
          /\ \A k \in Model : SharesFit(SharesOf(weight[k]))
         THEN /\ prob' = [k \in Model |-> SharesOf(weight[k])] /\ stage' = "probabilities"
              /\ UNCHANGED <<race, weight, surface, struct, cat, decision>>
         ELSE Refuse
-----------------------------------------------------------------------------
(* Stage 2: a ticket with its price.  q is the market's implied sum, of    *)
(* the low prices, in 1/Parts.                                             *)
Priced(m, p) ==                                                 \* point/wide_market_metrics
    LET low(t) == Odds(surface, m, t).low
        q == MapThenSumSet(LAMBDA t : Parts \div low(t), DOMAIN p)
    IN  [t \in DOMAIN p |-> [p |-> p[t], odds |-> low(t), q |-> q]]

PricesFit == \A m \in race.sold : \A t \in Catalog[m] :
                 LET o == Odds(surface, m, t) IN 0 < o.low /\ (m = "wide" => o.low <= o.high)

Join ==
    /\ stage = "probabilities"
    /\ IF /\ PricesFit
          /\ \A k \in Model, m \in race.sold : /\ DOMAIN prob[k][m] = Catalog[m]
                                               /\ Total(prob[k][m], Catalog[m]) = Target(m)
         THEN /\ cat' = [k \in Model |-> [m \in race.sold |-> Priced(m, prob[k][m])]]
              /\ stage' = "metrics"
              /\ UNCHANGED <<race, weight, surface, struct, prob, decision>>
         ELSE Refuse
-----------------------------------------------------------------------------
(* Stages 4 to 6.  EV + 1 is Value / One, the shape ratio Value * q over   *)
(* Parts * Target.                                                         *)
Value(x) == x.p * x.odds

Distance ==                                                     \* tv3, twice
    LET p(k, t) == prob[k]["3rentan"][t]
    IN  MapThenSumSet(LAMBDA t : Max({p("b1a", t), p("candidate_a", t)})
                                 - Min({p("b1a", t), p("candidate_a", t)}),
                      Orders(race.cars))
Open(cap) == cap = 100 \/ 100 * Distance <= 2 * cap * One

Least(m, t) == [p |-> Min({cat[k][m][t].p : k \in Model}), odds |-> cat["candidate_a"][m][t].odds,
                q |-> cat["candidate_a"][m][t].q]

(* Slip: a ticket that either model likes is taken.                        *)
GoodForOne(m, t, profile) ==
    \E k \in Model : LET x == cat[k][m][t]
                     IN  /\ 100 * Value(x) >= (100 + profile.ev) * One
                         /\ Value(x) * x.q * 100 >= profile.ratio * Parts * Target(m)
Good(m, t, profile) ==
    LET x == Least(m, t)
    IN  /\ 100 * Value(x) >= (100 + profile.ev) * One
        /\ Value(x) * x.q * 100 >= profile.ratio * Parts * Target(m)

consensus_eligible(profile, cap) ==
    IF ~Open(cap) THEN {}
    ELSE UNION {{<<m, t>> : t \in {u \in struct[m] : Good(m, u, profile)}} : m \in race.sold}

Number(t) == IF Len(t) = 3 THEN 100 * t[1] + 10 * t[2] + t[3] ELSE 10 * t[1] + t[2]
Alphabet == <<"2shahuku", "2shatan", "2wakuhuku", "2wakutan", "3renhuku", "3rentan", "wide">>
Place(m) == CHOOSE i \in DOMAIN Alphabet : Alphabet[i] = m

(* rank_tickets: by EV, shape ratio and probability, then by name.         *)
Merit(x) == LET v == Least(x[1], x[2])
            IN  <<Value(v), Value(v) * v.q * (IF x[1] = "wide" THEN 1 ELSE 3), v.p,
                  -Place(x[1]), -Number(x[2])>>

Above(k, l) == \E i \in 1..Len(k) : k[i] > l[i] /\ \A j \in 1..(i - 1) : k[j] = l[j]
First(n, S, merit(_)) ==
    LET ranked == {<<merit(a), a>> : a \in S}
    IN  {x[2] : x \in {y \in ranked : Cardinality({z \in ranked : Above(z[1], y[1])}) < n}}

(* Cars and frames, the more probable first: by the smaller of the models' *)
(* probabilities, then by their mean, then by number.                      *)
Confidence(S, number) ==
    <<MapThenSumSet(LAMBDA c : Min({weight[k][c] : k \in Model}), S),
      MapThenSumSet(LAMBDA c : weight["candidate_a"][c] + weight["b1a"][c], S), -number>>

Top(n, m) ==
    IF m \in Framed
      THEN LET fm == Inferred(race.cars, struct)
           IN  First(n, {fm[c] : c \in race.cars},
                     LAMBDA f : Confidence({c \in race.cars : fm[c] = f}, f))
      ELSE First(n, race.cars, LAMBDA c : Confidence({c}, c))

(* The best car or frame with the three behind it.                         *)
Wheel(m, tickets) ==
    LET axis == Top(1, m)
        partners == Top(4, m) \ axis
    IN  IF m \in Ordered THEN {t \in tickets : t[1] \in axis /\ \A i \in 2..Len(t) : t[i] \in partners}
        ELSE {t \in tickets : /\ axis \subseteq Members(t) /\ Members(t) # axis
                              /\ Members(t) \ axis \subseteq partners}
Box(m, tickets) == LET box == Top(3, m) IN {t \in tickets : Members(t) \subseteq box}
Formation(m, tickets) ==
    LET best == [i \in 1..3 |-> Top(i + 1, m)]
    IN  IF m \in Ordered THEN {t \in tickets : \A i \in 1..Len(t) : t[i] \in best[i]} ELSE {}

Of(m, S) == {m} \X S
select_template(elig, template) ==
    LET tickets(m) == {x[2] : x \in {y \in elig : y[1] = m}}
        best(n) == UNION {First(n, Of(m, tickets(m)), Merit) : m \in race.sold}
    IN  CASE template = "SINGLE" -> First(1, elig, Merit)
          [] template = "TOP1" -> best(1)
          [] template = "TOP3" -> best(3)
          [] template = "TOP5" -> best(5)
          [] template = "BOX3" -> UNION {Of(m, Box(m, tickets(m))) : m \in race.sold}
          [] template = "WHEEL1x3" -> UNION {Of(m, Wheel(m, tickets(m))) : m \in race.sold}
          [] template = "FORMATION_2x3x4" -> UNION {Of(m, Formation(m, tickets(m))) : m \in race.sold}

Decide(profile, gate, template) ==
    /\ stage = "metrics"
    /\ IF "3rentan" \notin race.sold THEN Refuse
       ELSE /\ decision' = [profile |-> profile, gate |-> gate, template |-> template,
                            picks |-> select_template(consensus_eligible(profile, gate), template)]
            /\ stage' = "decided"
            /\ UNCHANGED <<race, weight, surface, struct, prob, cat>>

StagesNext == \/ Structure \/ Probabilities \/ Join
              \/ \E profile \in Profile, gate \in Gate, t \in Template : Decide(profile, gate, t)
-----------------------------------------------------------------------------
(* A finishing order pays ticket t of market m.                            *)
Pays(m, t, o) ==
    LET frame == frame_map_for_nominal(race.nominal)
    IN  CASE m = "3rentan" -> t = o
          [] m = "3renhuku" -> Members(t) = Members(o)
          [] m = "2shatan" -> t = <<o[1], o[2]>>
          [] m = "2shahuku" -> t = Rise(o[1], o[2])
          [] m = "wide" -> Members(t) \subseteq Members(o)
          [] m = "2wakutan" -> t = <<frame[o[1]], frame[o[2]]>>
          [] m = "2wakuhuku" -> t = Rise(frame[o[1]], frame[o[2]])

(* A ticket's probability is that of the finishing orders that pay it, in  *)
(* every market the race sells and though frames are guessed from tickets. *)
ProbabilityOfPaying ==
    stage = "probabilities" =>
        \A k \in Model, m \in race.sold : \A t \in Catalog[m] :
            prob[k][m][t] = MapThenSumSet(LAMBDA o : Exact(weight[k], o),
                                          {o \in Orders(race.cars) : Pays(m, t, o)})

(* A race is refused only for a ticket that lacks, for frame tickets that  *)
(* come alone, for frames that are the same in two fields, for fewer than  *)
(* three cars, for a wide price that ends before it begins, or for want of *)
(* the market that measures the models' distance.                          *)
RefusedForCause ==
    stage = "failed" =>
        \/ race.gap # "" \/ Cardinality(Framed \cap race.sold) = 1 \/ Cardinality(race.cars) < 3
        \/ "3rentan" \notin race.sold
        \/ \E t \in Unequal(race.cars) : Odds(surface, "wide", t).high < Odds(surface, "wide", t).low
        \/ /\ Framed \subseteq race.sold
           /\ \E n \in 7..9 \ {race.nominal} :
                  /\ race.cars \subseteq 1..n
                  /\ \A c \in race.cars : frame_map_for_nominal(n)[c] = frame_map_for_nominal(race.nominal)[c]

(* What is bought pays, by either model's account, at the price taken more *)
(* than it costs; a laxer profile or gate only adds to what is eligible;   *)
(* and the portfolios by rank lie in one another, down to the one ticket.  *)
Bought(p, cap, t) == select_template(consensus_eligible(p, cap), t)
DemandsAreKept ==
    /\ stage = "decided" =>
        /\ \A x \in decision.picks, k \in Model :
               /\ x[2] \in Catalog[x[1]]
               /\ Odds(surface, x[1], x[2]).low * prob[k][x[1]][x[2]] * 100
                      >= (100 + decision.profile.ev) * One
        /\ decision.template = "WHEEL1x3" =>
               \A m \in race.sold : \E a \in 1..9 : \A x \in decision.picks : x[1] = m => a \in Members(x[2])
    /\ stage = "metrics" /\ "3rentan" \in race.sold =>
        \A p \in Profile, cap \in Gate :
            LET elig == consensus_eligible(p, cap)
            IN  /\ \A q \in Profile, tight \in Gate :
                       p.ev <= q.ev /\ p.ratio <= q.ratio /\ tight <= cap =>
                           consensus_eligible(q, tight) \subseteq elig
                /\ Bought(p, cap, "SINGLE") \subseteq Bought(p, cap, "TOP1")
                /\ Bought(p, cap, "TOP1") \subseteq Bought(p, cap, "TOP3")
                /\ Cardinality(Bought(p, cap, "SINGLE")) = Min({1, Cardinality(elig)})
===============================================================================
