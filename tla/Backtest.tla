------------------------------ MODULE Backtest -------------------------------
(***************************************************************************)
(* BacktestEngine.run beside the observation pipeline, over the same       *)
(* providers: the finished events of a window are replayed in order of     *)
(* start with one running bankroll, and metrics.py sums the report up.     *)
(***************************************************************************)
EXTENDS ObservationPipeline

CONSTANTS
  InitialBankroll,
  Windows        \* [from, to]: date_from, date_to

ASSUME BankrollAssumption == InitialBankroll \in Nat

VARIABLES
  phase,      \* of the replay: "idle", "running", "done"
  window,     \* date_from and date_to of the run
  history,    \* all_events, cleaned, as listed when the run started
  queue,      \* finished_events still to evaluate
  current,    \* the estimates of the event under evaluation, with their quotes
  bankroll,
  records     \* BacktestReport.records

replayVars == <<phase, window, history, queue, current, bankroll, records>>
vars == <<pipelineVars, replayVars>>

-----------------------------------------------------------------------------
(* run.                                                                    *)

\* Mutant of HistoryOf: only the matches of the window are known.
MutHistoryInWindow(e) ==
  Sublist(history, {i \in DOMAIN history :
                      /\ history[i].start < e.start
                      /\ \E r \in ToSet(queue) \cup {e} : r.id = history[i].id})

HistoryOf(e) == Sublist(history, {i \in DOMAIN history : history[i].start < e.start})

\* Grouped by market type and bookmaker as spelled; a selection is found only
\* when it is spelled as the model spells it.
ReadRaw(quotes) ==
  [i \in DOMAIN quotes |->
     LET raw == quotes[i].selection IN
       [quote |-> quotes[i], group |-> <<quotes[i].market, quotes[i].bookmaker>>,
        selection |-> IF raw.spelling = "plain" THEN raw.text ELSE "other"]]

StartReplay ==
  /\ phase = "idle"
  /\ \E w \in Windows :
       LET all == CleanEvents(listing) IN
         /\ phase' = "running"
         /\ window' = w
         /\ history' = all
         /\ queue' = Sublist(all, {i \in DOMAIN all :
                                     /\ Played(all[i])
                                     /\ w.from <= all[i].start /\ all[i].start <= w.to})
         /\ current' = <<>>
         /\ bankroll' = InitialBankroll
         /\ records' = <<>>
  /\ UNCHANGED pipelineVars

\* _evaluate_event, up to its loop over the estimates.
OpenEvent ==
  /\ phase = "running" /\ current = <<>> /\ queue # <<>>
  /\ LET e == Head(queue)
         priced == Priced(e, ReadRaw(odds[e.id]), HistoryOf(e))
     IN current' = [k \in DOMAIN priced |-> [event |-> e, offer |-> priced[k]]]
  /\ queue' = Tail(queue)
  /\ UNCHANGED <<pipelineVars, phase, window, history, bankroll, records>>

Offer == Head(current).offer

\* A quote that passes the filter and has an edge.
Backs(offer) ==
  /\ Passes(offer.p, offer.quote, offer.market)
  /\ KellyShare(offer.p, offer.quote) > 0

\* stake > 0: any share of a bankroll that is not lost is, however small.
GetsStake == Backs(Offer) /\ bankroll > 0

StakeNow == SuggestStake(Offer.p, Offer.quote, bankroll)

Wins(selection, result) ==
  <<result, selection>> \in {<<"home_win", "home">>, <<"draw", "draw">>, <<"away_win", "away">>}

\* An estimate whose quote does not pass the filter, or gets no stake.
PassOver ==
  /\ phase = "running" /\ current # <<>>
  /\ ~GetsStake
  /\ current' = Tail(current)
  /\ UNCHANGED <<pipelineVars, phase, window, history, queue, bankroll, records>>

Profit(stake, odd, won) == IF won THEN stake * (odd - 1) ELSE -stake

PlaceBet ==
  /\ phase = "running" /\ current # <<>>
  /\ GetsStake
  /\ LET e == Head(current).event
         won == Wins(Offer.selection, e.result)
         profit == Profit(StakeNow, Offer.quote.odds, won)
     IN /\ bankroll' = bankroll + profit
        /\ records' = Append(records,
             [bet |-> BetOn(SlotOf(e, Offer), Offer.quote.odds, Offer.p), stake |-> StakeNow,
              won |-> won, profit |-> profit, bankrollAfter |-> bankroll + profit])
  /\ current' = Tail(current)
  /\ UNCHANGED <<pipelineVars, phase, window, history, queue>>

EndReplay ==
  /\ phase = "running" /\ current = <<>> /\ queue = <<>>
  /\ phase' = "done"
  /\ UNCHANGED <<pipelineVars, window, history, queue, current, bankroll, records>>

ReplayStep == OpenEvent \/ PassOver \/ PlaceBet \/ EndReplay

Init ==
  /\ PipelineInit
  /\ phase = "idle" /\ window \in Windows /\ history = <<>> /\ queue = <<>> /\ current = <<>>
  /\ bankroll = InitialBankroll /\ records = <<>>

\* A replay reads the list of events once and the quotes never change, so the
\* providers may as well wait for it; it leaves nothing behind, so a second one
\* is one that starts later.
Next ==
  \/ StartReplay \/ ReplayStep
  \/ phase = "idle" /\ PipelineNext /\ UNCHANGED replayVars

Spec == Init /\ [][Next]_vars

-----------------------------------------------------------------------------
(* metrics.py.                                                             *)

Curve == <<InitialBankroll>> \o [i \in DOMAIN records |-> records[i].bankrollAfter]

\* amount[1] + ... + amount[n]
Total(amount, n) ==
  LET sum[i \in 0..n] == IF i = 0 THEN 0 ELSE sum[i - 1] + amount[i]
  IN sum[n]

TotalStaked == Total([i \in DOMAIN records |-> records[i].stake], Len(records))
TotalProfit == Total([i \in DOMAIN records |-> records[i].profit], Len(records))

\* A drawdown is [lost, peak], for lost / peak.
Deeper(a, b) == a.lost * b.peak > b.lost * a.peak

\* Mutant of Falling: the peak is the first value for ever.
MutFirstPeak(acc, value) ==
  LET here == [lost |-> acc.peak - value, peak |-> acc.peak]
  IN [peak |-> acc.peak, worst |-> IF acc.peak > 0 /\ Deeper(here, acc.worst) THEN here ELSE acc.worst]

\* One turn of the loop of _max_drawdown.
Falling(acc, value) ==
  LET peak == IF value > acc.peak THEN value ELSE acc.peak
      here == [lost |-> peak - value, peak |-> peak]
  IN [peak |-> peak, worst |-> IF peak > 0 /\ Deeper(here, acc.worst) THEN here ELSE acc.worst]

MaxDrawdown ==
  LET fall[i \in 0..Len(Curve)] ==
        IF i = 0 THEN [peak |-> InitialBankroll, worst |-> [lost |-> 0, peak |-> 1]]
          ELSE Falling(fall[i - 1], Curve[i])
  IN fall[Len(Curve)].worst

-----------------------------------------------------------------------------
(* Properties.                                                             *)

PlainlySpelled(id) ==
  \A i \in DOMAIN odds[id] :
    \A f \in {"market", "selection", "bookmaker"} : odds[id][i][f].spelling = "plain"

\* engine.py:1-3: the backtest reproduces the pipeline without look-ahead.  The
\* bets replayed for an event that was played are the bets a pass proposed for it
\* before it was played and knowing all earlier results, whatever was played since
\* and whatever window is replayed; a replay that loses its bankroll stops betting.
ReplayReproducesThePipeline ==
  phase = "done" /\ bankroll > 0 =>
    \A e \in ToSet(history) :
      Played(e) /\ window.from <= e.start /\ e.start <= window.to
        /\ proposed[e.id].known /\ PlainlySpelled(e.id)
      => {r.bet : r \in {r \in ToSet(records) : r.bet.slot.event = e.id}}
           = proposed[e.id].bets

BankrollBefore(i) == IF i = 1 THEN InitialBankroll ELSE records[i - 1].bankrollAfter

\* bankroll.py:7: no bet stakes more than its share of what the bets before it
\* left, none is placed once all is lost, the bankroll of the report is carried
\* from bet to bet, and is never negative.
StakesStayWithinTheLimit ==
  /\ bankroll >= 0
  /\ bankroll = IF records = <<>> THEN InitialBankroll ELSE records[Len(records)].bankrollAfter
  /\ \A i \in DOMAIN records :
       /\ records[i].stake >= 0 /\ BankrollBefore(i) > 0
       /\ records[i].stake * StakeDivisor <= BankrollBefore(i)
       /\ records[i].bankrollAfter = BankrollBefore(i) + records[i].profit

\* metrics.py: the profit is what the bankroll gained, and the drawdown is the
\* deepest fall between any two points of the curve, relative to the first.
MetricsAgree ==
  LET Fall(i, j) == [lost |-> Curve[i] - Curve[j], peak |-> Curve[i]]
  IN phase = "done" =>
       /\ TotalProfit = bankroll - InitialBankroll
       /\ \A i, j \in DOMAIN Curve :
            i <= j /\ Curve[i] > 0 => ~Deeper(Fall(i, j), MaxDrawdown)
       /\ MaxDrawdown.lost > 0 =>
            \E i, j \in DOMAIN Curve : i <= j /\ MaxDrawdown = Fall(i, j)

=============================================================================
