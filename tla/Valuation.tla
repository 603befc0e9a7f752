------------------------------ MODULE Valuation ------------------------------
(***************************************************************************)
(* The stages that the observation pipeline and the backtest share, from   *)
(* the events a provider lists to the stake: cleaning, ratings, estimates, *)
(* value, filter, fractional Kelly.  All of it is pure.                    *)
(*                                                                         *)
(* A probability p stands for p / Unit, a rating for that many units of    *)
(* K_FACTOR / Unit, odds are whole numbers, and so every comparison of the *)
(* code is exact.  A raw text is [text, spelling]: what strip() and        *)
(* lower() make of it is its text.                                         *)
(***************************************************************************)
EXTENDS Integers, SequencesExt

CONSTANTS
  Unit,
  DrawShare,      \* draw_probability of the model
  Expected,       \* expected score of the home side, by the rating gap
  MaxGap,         \* bound of the rating gaps Expected distinguishes
  MinEdge, MinValue, MinOdds, MaxOdds,   \* OpportunityFilterConfig
  KellyDivisor,   \* kelly_fraction = 1 / KellyDivisor
  StakeDivisor,   \* max_stake_pct_per_bet = 1 / StakeDivisor
  NoResult        \* result = None

ASSUME ModelAssumption ==
  /\ Unit \in Nat \ {0}
  /\ DrawShare \in 0..Unit
  /\ MaxGap \in Nat
  /\ Expected \in [-MaxGap..MaxGap -> 0..Unit]

ASSUME FilterAssumption ==
  MinEdge \in Int /\ MinValue \in Int /\ MinOdds \in Nat /\ MaxOdds \in Nat

ASSUME RiskAssumption == KellyDivisor \in Nat \ {0} /\ StakeDivisor \in Nat \ {0}

-----------------------------------------------------------------------------
(* Lists.                                                                  *)

\* list[i] for i in I, in the list's order.
Sublist(list, I) ==
  FlattenSeq([i \in DOMAIN list |-> IF i \in I THEN <<list[i]>> ELSE <<>>])

-----------------------------------------------------------------------------
(* Cleaning: names, duplicates, order of time.                             *)

\* normalize_slot_text; of a team's name normalize_team_name, spaces only.
Normal(raw) == raw.text

\* Mutant of Deduped: an event listed twice is kept twice.
MutKeepAll(list) == list

\* dedupe_events: the first copy of an external id.
Deduped(list) ==
  Sublist(list, {i \in DOMAIN list : \A j \in 1..(i - 1) : list[j].id # list[i].id})

\* sorted(key = start_time), which is stable.
ByStart(list) ==
  LET Before(i, j) == \/ list[i].start < list[j].start
                      \/ list[i].start = list[j].start /\ i < j
      Place(i) == Cardinality({j \in DOMAIN list : Before(j, i)}) + 1
  IN [k \in DOMAIN list |-> list[CHOOSE i \in DOMAIN list : Place(i) = k]]

CleanEvents(list) ==
  ByStart(Deduped([i \in DOMAIN list |->
                     [list[i] EXCEPT !.home = Normal(@), !.away = Normal(@)]]))

-----------------------------------------------------------------------------
(* Features and probabilities.                                             *)

Played(m) == m.status = "finished" /\ m.result # NoResult

Score(result) == CASE result = "home_win" -> Unit
                   [] result = "away_win" -> 0
                   [] OTHER -> Unit \div 2

ExpectedHome(gap) ==
  Expected[IF gap > MaxGap THEN MaxGap ELSE IF gap < -MaxGap THEN -MaxGap ELSE gap]

Rated(rating, m) ==
  LET gain == Score(m.result) - ExpectedHome(rating[m.home] - rating[m.away])
  IN [rating EXCEPT ![m.home] = @ + gain, ![m.away] = @ - gain]

\* compute_ratings; everybody starts from the default rating, here 0.
Ratings(history) ==
  LET names == {history[i].home : i \in DOMAIN history}
                 \cup {history[i].away : i \in DOMAIN history}
      sorted == ByStart(history)
      played == Sublist(sorted, {i \in DOMAIN sorted : Played(sorted[i])})
      rating[k \in 0..Len(played)] ==
        IF k = 0 THEN [n \in names |-> 0] ELSE Rated(rating[k - 1], played[k])
  IN rating[Len(played)]

RatingOf(rating, name) == IF name \in DOMAIN rating THEN rating[name] ELSE 0

\* Mutant of PriorEvents: matches that start together count as prior ones.
MutNotLater(e, history) ==
  Sublist(history, {i \in DOMAIN history :
                      history[i].sport = e.sport /\ history[i].start <= e.start})

PriorEvents(e, history) ==
  Sublist(history, {i \in DOMAIN history :
                      history[i].sport = e.sport /\ history[i].start < e.start})

AllowsDraw(history) == \E i \in DOMAIN history : history[i].result = "draw"

BuildFeatures(e, history) ==
  LET prior == PriorEvents(e, history) IN
    [gap |-> RatingOf(Ratings(prior), e.home) - RatingOf(Ratings(prior), e.away),
     allowsDraw |-> AllowsDraw(prior)]

Selections == <<"home", "draw", "away">>

\* GenericRatingModel.estimate: the probability of each selection it names.
Estimates(features) ==
  LET home == ExpectedHome(features.gap)
      rest == Unit - DrawShare
  IN IF features.allowsDraw
       THEN [home |-> (rest * home) \div Unit, draw |-> DrawShare,
             away |-> (rest * (Unit - home)) \div Unit]
       ELSE [home |-> home, away |-> Unit - home]

-----------------------------------------------------------------------------
(* Value, filter and stake of a quote within its market.                   *)

Product(market) == FoldLeft(LAMBDA acc, q : acc * q.odds, 1, market)

\* 1 / odds in units of 1 / Product(market), and the sum of them.
RawImplied(q, market) == Product(market) \div q.odds
Overround(market) == FoldLeft(LAMBDA acc, q : acc + RawImplied(q, market), 0, market)

\* p - implied / overround >= MinEdge, and p * odds - 1 >= MinValue, in 1 / Unit.
Passes(p, q, market) ==
  /\ (p - MinEdge) * Overround(market) >= Unit * RawImplied(q, market)
  /\ p * q.odds - Unit >= MinValue
  /\ MinOdds <= q.odds /\ q.odds <= MaxOdds

\* Kelly's fraction is KellyShare / (Unit * (odds - 1)); none without an edge.
KellyShare(p, q) == IF p * q.odds > Unit THEN p * q.odds - Unit ELSE 0

Smaller(a, b) == IF a < b THEN a ELSE b

\* Mutant of SuggestStake: the larger of the two fractions.
MutUncapped(p, q, bankroll) ==
  IF bankroll <= 0 THEN 0
    ELSE (bankroll * KellyShare(p, q)) \div (Unit * (q.odds - 1) * KellyDivisor)

\* In whole units of money, rounded down.
SuggestStake(p, q, bankroll) ==
  IF bankroll <= 0 THEN 0
    ELSE Smaller((bankroll * KellyShare(p, q)) \div (Unit * (q.odds - 1) * KellyDivisor),
                 bankroll \div StakeDivisor)

-----------------------------------------------------------------------------
(* An event's quotes, market by market.  A program reads a quote as        *)
(* [quote, group, selection]: the quote, the market it puts it in, and the *)
(* selection it takes it for.                                              *)

\* The quotes by group, in the order in which the groups appear.
Markets(quotes) ==
  LET first == Sublist(quotes, {i \in DOMAIN quotes :
                                  \A j \in 1..(i - 1) : quotes[j].group # quotes[i].group})
  IN [g \in DOMAIN first |->
        Sublist(quotes, {i \in DOMAIN quotes : quotes[i].group = first[g].group})]

\* The estimates of one market that have a quote: {selection: quote} keeps the
\* last quote of a selection.
PricedIn(market, estimates) ==
  LET LastOf(s) == Max({0} \cup {i \in DOMAIN market : market[i].selection = s})
      found == Sublist(Selections, {i \in DOMAIN Selections :
                         Selections[i] \in DOMAIN estimates /\ LastOf(Selections[i]) # 0})
  IN [k \in DOMAIN found |->
        [selection |-> found[k], p |-> estimates[found[k]],
         quote |-> market[LastOf(found[k])].quote,
         market |-> [i \in DOMAIN market |-> market[i].quote]]]

\* All of them, for all markets of the event.
Priced(e, quotes, history) ==
  LET estimates == Estimates(BuildFeatures(e, history))
      markets == Markets(quotes)
  IN FlattenSeq([g \in DOMAIN markets |-> PricedIn(markets[g], estimates)])

=============================================================================
