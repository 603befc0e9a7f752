----------------------------- MODULE TrialCycle -----------------------------
(***************************************************************************)
(* The trial scheduler, its ticks (ingest, settle, decide and bet) and     *)
(* what happens around it: offers come and go, API requests register and   *)
(* settle bets, an operator stops, kills and restarts the process.         *)
(*                                                                         *)
(* The scheduler is the only process that ingests and the only one that    *)
(* runs cycles.  A cycle is one transaction: Look takes its snapshot,      *)
(* Commit writes the recommendation and its bet together.                  *)
(***************************************************************************)
EXTENDS EventRows, Naturals, Sequences, FiniteSets

CONSTANTS
  Slots,      \* slots of opportunities; only the newest version can be on offer
  EventOf,    \* slot -> event
  Start,      \* event -> start_time
  TTL,        \* opportunity_ttl
  Requests,   \* what POST /bets may be asked: [mode, event, rec]
  MaxTime,    \* bound of the clock
  MaxRecs,    \* bound of the recommendations
  MaxBets     \* bound of the bets

ASSUME TimeAssumption ==
  /\ Start \in [Events -> Nat]
  /\ TTL \in Nat
  /\ MaxTime \in Nat

ASSUME OfferAssumption == EventOf \in [Slots -> Events] /\ IsFiniteSet(Slots)

ASSUME RequestAssumption == Requests \subseteq [mode: {"real", "trial"}, event: Events, rec: Nat]

ASSUME CapAssumption == MaxRecs \in Nat /\ MaxBets \in Nat

VARIABLES
  status,     \* status of each row of events
  clock,      \* now
  offer,      \* last_observed_at of the candidate of each slot; Closed without one
  rec,        \* recommendations: the slots of the opportunities of each
  bet,        \* bets: mode, events of the legs, recommendation, phase
  tick,       \* the scheduler: where it is, its `now`, the offers it chooses from
  stopping    \* stop() was called, or the process was interrupted

vars == <<status, clock, offer, rec, bet, tick, stopping>>

Times == 0..MaxTime
Closed == MaxTime + 1
NoRec == 0
MaxLegs == 3
Final == {"finished", "cancelled"}

\* A bet as BetBook sees it: review is pending with a settlement.
BetRow == [mode: {"real", "trial"}, events: SUBSET Events, rec: Nat,
           phase: {"open", "review", "closed"}]

Pending(b) == bet[b].phase \in {"open", "review"}

Tick(phase, at, seen) == [phase |-> phase, at |-> at, seen |-> seen]

Phases == {"waiting", "ingesting", "settling", "deciding", "stopped"}

-----------------------------------------------------------------------------
(* What a cycle reads.                                                     *)

\* Mutant of HeldEvents: the filter of settle_due, which skips reviewed bets.
MutReviewFrees == UNION {bet[b].events : b \in {c \in DOMAIN bet :
                                                  bet[c].mode = "trial" /\ bet[c].phase = "open"}}

\* open_event_ids.
HeldEvents == UNION {bet[b].events : b \in {c \in DOMAIN bet :
                                              bet[c].mode = "trial" /\ Pending(c)}}

\* Mutant of Eligible: the kick-off says it all.
MutAnyStatus(now) ==
  {s \in Slots :
     /\ offer[s] # Closed
     /\ offer[s] + TTL >= now
     /\ Start[EventOf[s]] > now
     /\ EventOf[s] \notin HeldEvents}

\* list_eligible and _eligible_opportunities.
Eligible(now) ==
  {s \in Slots :
     /\ offer[s] # Closed
     /\ offer[s] + TTL >= now
     /\ status[EventOf[s]] = "scheduled"
     /\ Start[EventOf[s]] > now
     /\ EventOf[s] \notin HeldEvents}

EventsOf(slots) == {EventOf[s] : s \in slots}

\* What decide may return: nothing (no_bet), or one to three offers on distinct
\* events; the valuation of the offers is abstracted.
Decisions(eligible) ==
  {slots \in SUBSET eligible :
     /\ Cardinality(slots) <= MaxLegs
     /\ \A s, t \in slots : EventOf[s] = EventOf[t] => s = t}

-----------------------------------------------------------------------------
(* The scheduler.                                                          *)

\* Mutant of StartTick: the loop does not look at the stop event.
MutNeverStops ==
  /\ tick.phase = "waiting"
  /\ tick' = Tick("ingesting", clock, {})
  /\ UNCHANGED <<status, clock, offer, rec, bet, stopping>>

\* run_once.
StartTick ==
  /\ tick.phase = "waiting"
  /\ ~stopping
  /\ tick' = Tick("ingesting", clock, {})
  /\ UNCHANGED <<status, clock, offer, rec, bet, stopping>>

\* One update of the provider that is applied; results play no part here.
Ingest ==
  /\ tick.phase = "ingesting"
  /\ \E e \in Events, new \in Statuses :
       /\ <<status[e], new>> \in AllowedTransitions
       /\ status' = [status EXCEPT ![e] = new]
  /\ UNCHANGED <<clock, offer, rec, bet, tick, stopping>>

\* The end of the updates, or a provider that failed: the tick goes on.
EndIngest ==
  /\ tick.phase = "ingesting"
  /\ tick' = [tick EXCEPT !.phase = "settling"]
  /\ UNCHANGED <<status, clock, offer, rec, bet, stopping>>

\* How a bet whose events are final may end: won legs and void legs together
\* make a manual review.
Endings(b) ==
  IF {status[e] : e \in bet[b].events} = {"finished", "cancelled"}
    THEN {"closed", "review"}
    ELSE {"closed"}

\* An open trial bet whose events have all ended.
Due(b) ==
  /\ b \in DOMAIN bet
  /\ bet[b].mode = "trial"
  /\ bet[b].phase = "open"
  /\ \A e \in bet[b].events : status[e] \in Final

\* One bet of settle_due; the bets that fail or cannot be resolved are passed over.
SettleBet(b) ==
  /\ tick.phase = "settling"
  /\ Due(b)
  /\ \E ending \in Endings(b) : bet' = [bet EXCEPT ![b].phase = ending]
  /\ UNCHANGED <<status, clock, offer, rec, tick, stopping>>

\* The first read of run_cycle, which fixes its snapshot.
Look ==
  /\ tick.phase = "settling"
  /\ tick' = Tick("deciding", tick.at, Eligible(tick.at))
  /\ UNCHANGED <<status, clock, offer, rec, bet, stopping>>

\* RecommendationService: a recommendation with its legs, none for a no_bet.
Recommend(slots) == rec' = Append(rec, slots)

\* The bet TrialExecutor makes of the recommendation just written.  Its checks of
\* offers and events read the snapshot of Look again, so they repeat what Eligible
\* and Decisions say; a stake of zero is a FailTick.
TrialBet(slots) ==
  [mode |-> "trial", events |-> EventsOf(slots), rec |-> Len(rec) + 1, phase |-> "open"]

\* The recommendation and, unless it is a no_bet, its bet, in one commit.
Commit ==
  /\ tick.phase = "deciding"
  /\ Len(rec) < MaxRecs
  /\ \E slots \in Decisions(tick.seen) :
       /\ Recommend(slots)
       /\ \/ slots = {} /\ UNCHANGED bet
          \/ slots # {} /\ Len(bet) < MaxBets /\ bet' = Append(bet, TrialBet(slots))
  /\ tick' = Tick("waiting", 0, {})
  /\ UNCHANGED <<status, clock, offer, stopping>>

\* Mutants of FailTick: the recommendation is committed on its own; the loop
\* ends with the exception.
MutKeepsRecommendation ==
  /\ tick.phase \in {"settling", "deciding"}
  /\ tick' = Tick("waiting", 0, {})
  /\ IF Len(rec) < MaxRecs THEN \E slots \in Decisions(tick.seen) : rec' = Append(rec, slots)
                           ELSE UNCHANGED rec
  /\ UNCHANGED <<status, clock, offer, bet, stopping>>

MutDiesOfException ==
  /\ tick.phase \in {"settling", "deciding"}
  /\ tick' = Tick("stopped", 0, {})
  /\ UNCHANGED <<status, clock, offer, rec, bet, stopping>>

\* An exception of settle_due or of run_cycle, a stake of zero among them:
\* rolled back, logged, and the loop goes on.
FailTick ==
  /\ tick.phase \in {"settling", "deciding"}
  /\ tick' = Tick("waiting", 0, {})
  /\ UNCHANGED <<status, clock, offer, rec, bet, stopping>>

\* The loop sees the stop event between two ticks.
Leave ==
  /\ tick.phase = "waiting"
  /\ stopping
  /\ tick' = Tick("stopped", 0, {})
  /\ UNCHANGED <<status, clock, offer, rec, bet, stopping>>

RequestStop ==
  /\ ~stopping
  /\ stopping' = TRUE
  /\ UNCHANGED <<status, clock, offer, rec, bet, tick>>

\* Ctrl+C, which run_once does not catch, or a kill: whatever was open is lost.
Interrupt ==
  /\ tick.phase # "stopped"
  /\ tick' = Tick("stopped", 0, {})
  /\ stopping' = TRUE
  /\ UNCHANGED <<status, clock, offer, rec, bet>>

Restart ==
  /\ tick.phase = "stopped"
  /\ tick' = Tick("waiting", 0, {})
  /\ stopping' = FALSE
  /\ UNCHANGED <<status, clock, offer, rec, bet>>

-----------------------------------------------------------------------------
(* Around it.                                                              *)

Elapse ==
  /\ clock < MaxTime
  /\ clock' = clock + 1
  /\ UNCHANGED <<status, offer, rec, bet, tick, stopping>>

\* A pass of the life cycle creates, refreshes or replaces the offer of a slot.
Observe(s) ==
  /\ \E t \in 0..clock : offer' = [offer EXCEPT ![s] = t]
  /\ UNCHANGED <<status, clock, rec, bet, tick, stopping>>

Withdraw(s) ==
  /\ offer' = [offer EXCEPT ![s] = Closed]
  /\ UNCHANGED <<status, clock, rec, bet, tick, stopping>>

\* Mutant of RecFree: nobody asks whether the recommendation exists.
MutRecUnchecked(r) == r = NoRec \/ \A b \in DOMAIN bet : bet[b].rec # r

\* A recommendation that exists and has no bet, or NULL.
RecFree(r) == r = NoRec \/ (r <= Len(rec) /\ \A b \in DOMAIN bet : bet[b].rec # r)

\* POST /bets asks neither for the event's status nor for the bets it already has.
RegisterBet ==
  /\ Len(bet) < MaxBets
  /\ \E ask \in Requests :
       /\ RecFree(ask.rec)
       /\ bet' = Append(bet, [mode |-> ask.mode, events |-> {ask.event}, rec |-> ask.rec,
                              phase |-> "open"])
  /\ UNCHANGED <<status, clock, offer, rec, tick, stopping>>

\* POST /bets/{id}/settle, with whatever results the user sends.
SettleByHand(b) ==
  /\ b \in DOMAIN bet
  /\ bet[b].phase = "open"
  /\ \E ending \in {"closed"} \cup (IF Cardinality(bet[b].events) > 1 THEN {"review"} ELSE {}) :
       bet' = [bet EXCEPT ![b].phase = ending]
  /\ UNCHANGED <<status, clock, offer, rec, tick, stopping>>

-----------------------------------------------------------------------------

Init ==
  /\ status \in [Events -> Statuses]
  /\ clock = 0
  /\ offer = [s \in Slots |-> Closed]
  /\ rec = <<>>
  /\ bet = <<>>
  /\ tick = Tick("waiting", 0, {})
  /\ stopping = FALSE

RunnerNext ==
  \/ StartTick \/ Ingest \/ EndIngest
  \/ \E b \in 1..MaxBets : SettleBet(b)
  \/ Look \/ Commit \/ FailTick \/ Leave

Operator == RequestStop \/ Interrupt \/ Restart

Others ==
  \/ Elapse
  \/ \E s \in Slots : Observe(s) \/ Withdraw(s)
  \/ RegisterBet
  \/ \E b \in 1..MaxBets : SettleByHand(b)

Next == RunnerNext \/ Operator \/ Others

Spec == Init /\ [][Next]_vars

\* A running scheduler goes on, and one due bet does not fail every time it is
\* tried; a bet nobody can resolve is a matter of Settlement.
Fairness ==
  /\ WF_vars(RunnerNext)
  /\ \A b \in 1..MaxBets : SF_vars(SettleBet(b))

FairSpec == Spec /\ Fairness

-----------------------------------------------------------------------------
(* Properties.                                                             *)

\* The variables keep their types, and the bets refer to recommendations that
\* exist.
TypeOK ==
  /\ status \in [Events -> Statuses]
  /\ clock \in Times
  /\ offer \in [Slots -> Times \cup {Closed}]
  /\ rec \in Seq(SUBSET Slots)
  /\ bet \in Seq(BetRow)
  /\ \A b \in DOMAIN bet : bet[b].rec = NoRec \/ bet[b].rec \in DOMAIN rec
  /\ tick \in [phase: Phases, at: Times, seen: SUBSET Slots]
  /\ stopping \in BOOLEAN

\* Bets that execute a recommendation; a request may hang its own on a no_bet.
FromCycle(b) == bet[b].rec # NoRec /\ rec[bet[b].rec] # {}

\* The scheduler never has two pending bets on one event, though it checks in
\* one step and bets in a later one, a bet may end under review, its process may
\* be killed and restarted, and requests register and settle bets meanwhile.
OneCycleBetPerEvent ==
  \A b, c \in DOMAIN bet :
    FromCycle(b) /\ FromCycle(c) /\ Pending(b) /\ Pending(c)
      /\ bet[b].events \cap bet[c].events # {} => b = c

\* A recommendation to bet and its bet exist together or not at all, whatever
\* fails or is killed, and no request takes the recommendation: exactly one bet,
\* a trial bet with one leg per recommended opportunity, each on an event of its
\* own.
RecommendationsAreExecuted ==
  \A r \in DOMAIN rec : rec[r] # {} =>
    LET executions == {b \in DOMAIN bet : bet[b].rec = r}
    IN /\ Cardinality(executions) = 1
       /\ \A b \in executions :
            /\ bet[b].mode = "trial"
            /\ bet[b].events = EventsOf(rec[r])
            /\ Cardinality(bet[b].events) = Cardinality(rec[r])

\* When a cycle commits a bet, every event of it is still scheduled: the status
\* it checked cannot have moved since, and no bet is placed knowing a result.
CycleBetsBeforeTheEvent ==
  [][\A b \in DOMAIN bet' \ DOMAIN bet :
        FromCycle(b)' => \A e \in bet'[b].events : status[e] = "scheduled"]_vars

\* The pending execution of a recommendation holds its events.
Holds(b, e) == FromCycle(b) /\ Pending(b) /\ e \in bet[b].events

Holders == [e \in Events |-> {bet[b].rec : b \in {c \in DOMAIN bet : Holds(c, e)}}]

Desk == INSTANCE Reservations WITH issued <- Len(rec), holders <- Holders

\* trial_service.py:85-115: though the cycle looks in one step and writes in
\* another, each bet takes all its events at once and while they are free, and
\* they are free again when it has ended, together and for good, in spite of
\* requests, settlements, failures and kills in between.
ImplementsReservations == Desk!Spec

\* A request to stop ends the process, once its tick has ended.
StopIsHeeded == stopping ~> (tick.phase = "stopped")

\* Whatever fails in the ingestion or in the cycles, an open trial bet whose
\* events are final is settled in the end, unless the operator stops the process.
SettlementGoesOn == \A b \in 1..MaxBets : Due(b) ~> (~Due(b) \/ stopping)

=============================================================================
