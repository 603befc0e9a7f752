--------------------------- MODULE DecisionEngine ---------------------------
(***************************************************************************)
(* The decision between no bet, a simple bet and a combined one, taken on  *)
(* a table of offers that grows and shrinks: probabilities are multiples   *)
(* of 1/Unit, odds are whole, a proposal is the set of its offers' ids.    *)
(***************************************************************************)
EXTENDS Integers, Sequences, FiniteSetsExt

CONSTANTS
  Events,
  Kinds,         \* the offers there may be: [event, p, odds]
  Unit,          \* a probability p stands for p / Unit
  MaxOdds,       \* bound of the odds of one offer
  MaxLegs,       \* max_legs of the engine, the technical limit
  MaxOffers,     \* bound of the offers
  Growth(_, _)   \* log_growth of a probability in 1/Unit^3 and odds

\* Three legs at most: the scale on which proposals of any size are compared, and
\* what brings a product of one, two or three probabilities to it.
MaxCompound == 3
Scale == Unit * Unit * Unit
Padding == <<Unit * Unit, Unit, 1>>
MaxCompoundOdds == MaxOdds * MaxOdds * MaxOdds

ASSUME KindAssumption ==
  /\ Unit \in Nat \ {0} /\ MaxOdds \in Nat
  /\ Kinds \subseteq [event: Events, p: 0..Unit, odds: 1..MaxOdds]

ASSUME LimitAssumption == MaxLegs \in Nat \ {0} /\ MaxOffers \in Nat

\* growth.py:9: of two proposals with value the more probable one grows no slower
\* when its EV is no smaller.  It holds of floating point, rounded as _key does.
ASSUME GrowthAssumption ==
  \A p \in 1..(Scale - 1), odds \in 2..MaxCompoundOdds :
    p * odds > Scale =>
      /\ Growth(p, odds) \in Int
      /\ \A q \in p..(Scale - 1), b \in 2..MaxCompoundOdds :
           q * b >= p * odds => Growth(q, b) >= Growth(p, odds)

\* More probable or better paid is better: of real numbers only.
ASSUME StrictGrowthAssumption ==
  \A p \in 1..(Scale - 1), odds \in 2..MaxCompoundOdds :
    p * odds > Scale =>
      \A q \in p..(Scale - 1), b \in odds..MaxCompoundOdds :
        q # p \/ b # odds => Growth(q, b) > Growth(p, odds)

VARIABLES
  offers,     \* opportunities by id: event, p, odds, status
  decision    \* the DecisionResult of the last call

vars == <<offers, decision>>

-----------------------------------------------------------------------------
(* Proposals over a table t of offers.                                     *)

OfferRow == [event: Events, p: 0..Unit, odds: 1..MaxOdds, status: {"candidate", "closed"}]

Candidates(t) == {i \in DOMAIN t : t[i].status = "candidate"}

\* _build_leg: what cannot be priced is left out.
ValidLegs(t) == {i \in Candidates(t) : 0 < t[i].p /\ t[i].p < Unit /\ t[i].odds > 1}

Product(f, c) == FoldSet(LAMBDA i, acc : f[i] * acc, 1, c)

Probability(t, c) == Padding[Cardinality(c)] * Product([i \in DOMAIN t |-> t[i].p], c)

Odds(t, c) == Product([i \in DOMAIN t |-> t[i].odds], c)

\* EV + 1 in 1/Scale, and G*.
Worth(t, c) == Probability(t, c) * Odds(t, c)
HasValue(t, c) == Worth(t, c) > Scale
GrowthOf(t, c) == Growth(Probability(t, c), Odds(t, c))

DistinctEvents(t, c) == \A i, j \in c : t[i].event = t[j].event => i = j

\* A bet somebody could place on some of those offers.
Proposals(t, legs, sizes) ==
  {c \in SUBSET legs : Cardinality(c) \in sizes /\ DistinctEvents(t, c) /\ HasValue(t, c)}

-----------------------------------------------------------------------------
(* decide.                                                                 *)

\* Mutant of Dominates: the odds are forgotten.
MutByProbability(t, y, x) ==
  /\ t[y].event = t[x].event
  /\ y # x
  /\ t[y].p >= t[x].p
  /\ t[y].p > t[x].p \/ y < x

Dominates(t, y, x) ==
  /\ t[y].event = t[x].event
  /\ y # x
  /\ t[y].p >= t[x].p
  /\ t[y].odds >= t[x].odds
  /\ t[y].p > t[x].p \/ t[y].odds > t[x].odds \/ y < x

Positive(t) == {i \in ValidLegs(t) : HasValue(t, {i})}

Pruned(t) == {x \in Positive(t) : ~\E y \in Positive(t) : Dominates(t, y, x)}

LimitHit(t) == Cardinality(Pruned(t)) > MaxLegs

\* Mutant of Ahead: the limit keeps the most probable legs.
MutMostProbable(t, y, x) == t[y].p > t[x].p \/ (t[y].p = t[x].p /\ y < x)

\* The order in which the limit keeps legs.
Ahead(t, y, x) ==
  \/ GrowthOf(t, {y}) > GrowthOf(t, {x})
  \/ GrowthOf(t, {y}) = GrowthOf(t, {x}) /\ y < x

Kept(t) == {x \in Pruned(t) : Cardinality({y \in Pruned(t) : Ahead(t, y, x)}) < MaxLegs}

SimpleBefore(t, x, y) ==
  \/ GrowthOf(t, {x}) > GrowthOf(t, {y})
  \/ /\ GrowthOf(t, {x}) = GrowthOf(t, {y})
     /\ Worth(t, {x}) > Worth(t, {y}) \/ (Worth(t, {x}) = Worth(t, {y}) /\ x < y)

\* Mutant of CompoundBefore: of two tuples of ids the larger wins.
MutLastIds(t, c, d) ==
  \/ GrowthOf(t, c) > GrowthOf(t, d)
  \/ /\ GrowthOf(t, c) = GrowthOf(t, d)
     /\ \/ Cardinality(c) < Cardinality(d)
        \/ Cardinality(c) = Cardinality(d) /\ Min(SymDiff(c, d)) \in d

\* Growth, then fewer legs, then the smaller tuple of ids.
CompoundBefore(t, c, d) ==
  \/ GrowthOf(t, c) > GrowthOf(t, d)
  \/ /\ GrowthOf(t, c) = GrowthOf(t, d)
     /\ \/ Cardinality(c) < Cardinality(d)
        \/ Cardinality(c) = Cardinality(d) /\ Min(SymDiff(c, d)) \in c

\* {} when there is none.
BestSimple(t) ==
  IF Kept(t) = {} THEN {}
  ELSE {CHOOSE x \in Kept(t) : \A y \in Kept(t) \ {x} : SimpleBefore(t, x, y)}

BestCompound(t) ==
  LET all == Proposals(t, Kept(t), 2..MaxCompound)
  IN IF all = {} THEN {} ELSE CHOOSE c \in all : \A d \in all \ {c} : CompoundBefore(t, c, d)

\* A compound must be better than the best simple bet, not as good.
Selected(t, simple, compound) ==
  IF compound # {} /\ GrowthOf(t, compound) > GrowthOf(t, simple) THEN compound ELSE simple

Decide(t) ==
  LET simple == BestSimple(t)
      compound == BestCompound(t)
  IN [selected |-> Selected(t, simple, compound), simple |-> simple, compound |-> compound,
      limited |-> LimitHit(t)]

-----------------------------------------------------------------------------
(* The offers between two calls.                                           *)

Init ==
  /\ offers = <<>>
  /\ decision = Decide(<<>>)

\* A new offer or a new version, with the next id.
Open ==
  /\ Len(offers) < MaxOffers
  /\ \E k \in Kinds :
       offers' = Append(offers, [event |-> k.event, p |-> k.p, odds |-> k.odds,
                                 status |-> "candidate"])
  /\ decision' = Decide(offers')

\* Superseded, expired or no longer eligible.
Close(i) ==
  /\ i \in Candidates(offers)
  /\ offers' = [offers EXCEPT ![i].status = "closed"]
  /\ decision' = Decide(offers')

Next == Open \/ \E i \in 1..MaxOffers : Close(i)

Spec == Init /\ [][Next]_vars

-----------------------------------------------------------------------------
(* Properties.                                                             *)

\* The bets anybody could place on the candidates, pruned or not, worth having
\* one by one or not.
AllProposals == Proposals(offers, ValidLegs(offers), 1..MaxCompound)

\* decision_engine.py:22-25: neither leaving out the legs without value nor the
\* pruning loses anything: unless the limit was hit no bet on the candidates
\* grows faster than the selected one, or as fast with fewer legs.
NothingBetter ==
  ~decision.limited =>
    \A c \in AllProposals :
      /\ decision.selected # {}
      /\ \/ GrowthOf(offers, c) < GrowthOf(offers, decision.selected)
         \/ /\ GrowthOf(offers, c) = GrowthOf(offers, decision.selected)
            /\ Cardinality(c) >= Cardinality(decision.selected)

\* decision_engine.py:26-30: the limit keeps the best simple bet, and with it at
\* least its growth, whatever combinations it loses.
LimitSparesTheBestSimple ==
  \A x \in Positive(offers) :
    /\ GrowthOf(offers, decision.simple) >= GrowthOf(offers, {x})
    /\ GrowthOf(offers, decision.selected) >= GrowthOf(offers, {x})

\* An offer that was not selected, dominating others or not, can go without
\* changing the decision, unless the limit was hit: ties are broken the same way
\* whoever takes part in them.
DiscardedDoNotMatter ==
  [][\A i \in DOMAIN offers :
        /\ ~decision.limited /\ ~decision'.limited
        /\ i \in Candidates(offers) \ Candidates(offers')
        /\ i \notin decision.selected
        => decision'.selected = decision.selected]_vars

=============================================================================
