------------------------- MODULE ObservationPipeline -------------------------
(***************************************************************************)
(* OpportunityService: what one pass reports of the events the provider    *)
(* lists as scheduled, while matches are played and end.  A pass only      *)
(* reads, so what it would report is a function of the providers' present  *)
(* state; the pass of the model remembers what it proposed.                *)
(***************************************************************************)
EXTENDS Valuation

CONSTANTS
  Events, MarketTypes, Bookmakers,   \* normalized
  Sports, Labels,                    \* of teams, and of selections
  Programmes,   \* lists of events a provider may start from
  Books,        \* quotes there may be: Events -> list of quotes
  MaxTime       \* the clock and captured_at are 1..MaxTime

\* A text of T, spelled as it is stored or in some other way.
Raw(T) == [text: T, spelling: {"plain", "odd"}]

Result == {"home_win", "away_win", "draw", NoResult}

EventRow == [id: Events, sport: Sports, home: Raw(Labels), away: Raw(Labels), start: Nat,
             status: {"scheduled", "live", "finished", "cancelled"}, result: Result]

\* A quote that the code can price: odds above 1.
Quote == [market: Raw(MarketTypes), selection: Raw(Labels), bookmaker: Raw(Bookmakers),
          odds: Nat \ {0, 1}, at: 1..MaxTime]

ASSUME ProviderAssumption ==
  /\ MaxTime \in Nat \ {0}
  /\ Programmes \subseteq Seq(EventRow)
  /\ Books \subseteq [Events -> Seq(Quote)]

VARIABLES
  listing,    \* DataProvider: the list of events as it is now
  odds,       \* OddsProvider: the quotes of each event, in its order
  now,        \* the clock
  proposed    \* what a pass that knew all earlier results proposed of an event

providers == <<listing, odds, now>>
pipelineVars == <<providers, proposed>>

Slots == [event: Events, market: MarketTypes, selection: ToSet(Selections),
          bookmaker: Bookmakers]

-----------------------------------------------------------------------------
(* generate_observation.                                                   *)

\* Mutant of MarketKey: the bookmaker as the provider spells it.
MutRawBookmaker(q) == <<q.market, q.bookmaker>>

\* The market type as it is, the bookmaker normalized.
MarketKey(q) == <<q.market, Normal(q.bookmaker)>>

\* Mutant of Names: a selection is taken for what the provider spells.
MutNamesRaw(raw) == IF raw.spelling = "plain" THEN raw.text ELSE "other"

Names(raw) == Normal(raw)

ReadQuotes(quotes) ==
  [i \in DOMAIN quotes |-> [quote |-> quotes[i], group |-> MarketKey(quotes[i]),
                            selection |-> Names(quotes[i].selection)]]

SlotOf(e, x) ==
  [event |-> e.id, market |-> Normal(x.quote.market), selection |-> x.selection,
   bookmaker |-> Normal(x.quote.bookmaker)]

Report(e, x) ==
  [slot |-> SlotOf(e, x), odds |-> x.quote.odds, p |-> x.p, at |-> x.quote.at,
   kind |-> IF Passes(x.p, x.quote, x.market) THEN "candidate" ELSE "non_qualifying"]

\* What a pass over the cleaned list reports of one event.
ReportsOf(e, events) ==
  LET priced == Priced(e, ReadQuotes(odds[e.id]), events)
  IN [k \in DOMAIN priced |-> Report(e, priced[k])]

Targets(events) == Sublist(events, {i \in DOMAIN events : events[i].status = "scheduled"})

\* candidates and non_qualifying, as one list.
Reports(events) ==
  LET target == Targets(events)
  IN FlattenSeq([k \in DOMAIN target |-> ReportsOf(target[k], events)])

\* Mutant of EvaluatedAt: the first quote instead of the newest.
MutFirstQuote(e) == IF odds[e.id] = <<>> THEN now ELSE odds[e.id][1].at

EvaluatedAt(e) ==
  IF odds[e.id] = <<>> THEN now ELSE Max({odds[e.id][i].at : i \in DOMAIN odds[e.id]})

\* evaluated_events; 0 stands for an event that is not in it.
Evaluated(events) ==
  [id \in Events |->
     IF \E e \in ToSet(Targets(events)) : e.id = id
       THEN EvaluatedAt(CHOOSE e \in ToSet(Targets(events)) : e.id = id)
       ELSE 0]

\* A candidate with a stake, as a bet that could have been placed.
BetOn(slot, quote, p) == [slot |-> slot, odds |-> quote, p |-> p]

Staked(e, events) ==
  {BetOn(r.slot, r.odds, r.p) :
     r \in {r \in ToSet(ReportsOf(e, events)) :
              r.kind = "candidate" /\ KellyShare(r.p, r) > 0}}

\* A match that is yet to end.
Open(m) == m.status \in {"scheduled", "live"}

\* Every match that starts before e is over.
Informed(e, events) ==
  \A m \in ToSet(events) : m.start < e.start => ~Open(m)

GenerateObservation ==
  LET events == CleanEvents(listing)
      known == {e \in ToSet(Targets(events)) : Informed(e, events)}
  IN /\ known # {}
     /\ proposed' = [id \in Events |->
          IF \E e \in known : e.id = id
            THEN [known |-> TRUE, bets |-> Staked(CHOOSE e \in known : e.id = id, events)]
            ELSE proposed[id]]
     /\ UNCHANGED providers

-----------------------------------------------------------------------------
(* The providers.                                                          *)

NoProposal == [known |-> FALSE, bets |-> {}]

PipelineInit ==
  /\ listing \in Programmes
  /\ odds \in Books
  /\ now = 1
  /\ proposed = [id \in Events |-> NoProposal]

\* Time passes; a match that has started ends, with a result or without one.
Elapse ==
  /\ now < MaxTime
  /\ now' = now + 1
  /\ UNCHANGED <<listing, odds, proposed>>

EndMatch(id) ==
  /\ \E i \in DOMAIN listing :
       listing[i].id = id /\ Open(listing[i]) /\ listing[i].start <= now
  /\ \E end \in {<<"finished", "home_win">>, <<"finished", "away_win">>,
                 <<"finished", "draw">>, <<"cancelled", NoResult>>} :
       listing' = [i \in DOMAIN listing |->
                     IF listing[i].id = id /\ Open(listing[i])
                       THEN [listing[i] EXCEPT !.status = end[1], !.result = end[2]]
                       ELSE listing[i]]
  /\ UNCHANGED <<odds, now, proposed>>

PipelineNext ==
  \/ GenerateObservation
  \/ Elapse
  \/ \E id \in Events : EndMatch(id)

-----------------------------------------------------------------------------
(* Properties.                                                             *)

\* The life cycle, for what it takes as its input.
Life == INSTANCE OpportunityLifecycle WITH
          Slots <- Slots, Events <- Events,
          EventOf <- [s \in Slots |-> s.event], StoredEvents <- Events,
          Procs <- {}, Decisions <- [odds: 2..MaxOdds, p: 0..Unit],
          NoDecision <- "none", NoSlot <- "none", MaxTime <- MaxTime,
          MaxAttempts <- 1, opp <- <<>>, pass <- <<>>, txn <- <<>>, outcomes <- <<>>

\* The reports as the life cycle indexes them, by slot.
AsObservation(events) ==
  LET reports == Reports(events)
      About(s) == {i \in DOMAIN reports : reports[i].slot = s}
      ItemFor(r) == [kind |-> r.kind, at |-> r.at,
                     decision |-> IF r.kind = "candidate" THEN [odds |-> r.odds, p |-> r.p]
                                                          ELSE "none"]
  IN [items |-> [s \in Slots |-> IF About(s) = {} THEN Life!AbsentItem
                                   ELSE ItemFor(reports[Max(About(s))])],
      evaluated |-> Evaluated(events)]

\* Each market type of an event is spelled one way, which nothing in the code
\* enforces: quotes are grouped by the raw market type.
PlainMarkets ==
  \A id \in Events : \A i, j \in DOMAIN odds[id] :
    Normal(odds[id][i].market) = Normal(odds[id][j].market)
      => odds[id][i].market = odds[id][j].market

\* slot.py:3: pipeline and persistence mean the same slots.  A pass reports no
\* slot twice, and what it reports is an observation the life cycle accepts: no
\* item is newer than the instant its event is evaluated at, by which the slots
\* that are not reported are closed.
FeedsTheLifeCycle ==
  LET events == CleanEvents(listing)
      reports == Reports(events)
  IN PlainMarkets =>
       /\ \A i, j \in DOMAIN reports : reports[i].slot = reports[j].slot => i = j
       /\ AsObservation(events) \in Life!Observation

\* opportunity_service.py:50: the reported slots of an evaluated event are those
\* somebody quotes and the model has an estimate for, whatever the spelling; only
\* the others are left to be closed as no longer seen.
QuotedSlotsAreReported ==
  LET events == CleanEvents(listing) IN
    \A e \in ToSet(Targets(events)) :
      LET estimates == Estimates(BuildFeatures(e, events)) IN
        {r.slot : r \in ToSet(ReportsOf(e, events))} =
          {[event |-> e.id, market |-> Normal(q.market), selection |-> Normal(q.selection),
            bookmaker |-> Normal(q.bookmaker)] :
             q \in {q \in ToSet(odds[e.id]) : Normal(q.selection) \in DOMAIN estimates}}

\* The list as it was before any match that starts with e or later ended.
AsBefore(e, list) ==
  [i \in DOMAIN list |->
     IF list[i].start < e.start THEN list[i]
       ELSE [list[i] EXCEPT !.status = "scheduled", !.result = NoResult]]

\* feature_builder.py:24: no look-ahead.  What a pass reports of an event would
\* be the same without the results of the matches that do not start before it,
\* even when the event is still listed as scheduled after they ended.
ReportsUsePastOnly ==
  LET events == CleanEvents(listing) IN
    \A e \in ToSet(Targets(events)) :
      ReportsOf(e, events) = ReportsOf(e, CleanEvents(AsBefore(e, listing)))

=============================================================================
