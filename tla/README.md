# Betting bot: a TLA+ model of its state and concurrency

This directory specifies, model-checks and proves properties of the backend in
`src/api`: a FastAPI service and a set of scripts that watch betting odds,
version betting *opportunities*, decide *trial* bets on them, settle the bets
when results arrive and keep a ledger. The database (MySQL/InnoDB through
SQLAlchemy) is the only shared state; API requests run in a thread pool and the
trial scheduler in a process of its own, each with a session of its own.

## 1. Inventory

| Component | State it keeps | Operations | Talks to |
|---|---|---|---|
| Opportunity life cycle (`opportunities/opportunity_lifecycle_service.py`, `db/repositories/opportunity_repository.py`) | rows of `opportunities`: versions 1..N of each slot (event, market, selection, bookmaker), status, last observation, successor | `apply(observation)`: per slot create, heartbeat, new version, ignore, expire; close the slots no longer seen | called by `POST /opportunities/generate`; reads `events` |
| Observation pipeline (`opportunities/opportunity_service.py`, `processing/`, `features/`, `models/`, `odds/`, `valuation/`, `filters/`) | none (a pure function of what the providers return) | `generate_observation` | providers; feeds the life cycle |
| Event ingestion (`ingestion/event_ingestion_service.py`) | `events`: status, result | `ingest(updates)`, one transaction per event | external provider; unlocks settlement, closes betting |
| Trial cycle (`trials/trial_service.py`, `trials/trial_executor.py`, `recommendations/`) | `recommendations`, their legs, `bets`, `bet_legs` | `run_cycle`: eligible opportunities, decide, recommend, execute in one transaction | reads opportunities and events; writes bets |
| Settlement (`settlements/`, `bets/`, `api/v1/endpoints/bets.py`) | `bets`, `bet_legs`, `settlements`, `bankroll_transactions` | register and settle by API; `settle_due` by the trial flow | reads event results |
| Trial flow and scheduler (`trials/trial_flow_service.py`, `trials/trial_scheduler.py`, `scripts/run_trial_scheduler.py`) | a stop flag | `run_once`, `run_forever` | ingestion, then settlement, then the cycle |
| Decision engine (`decisions/decision_engine.py`, `valuation/growth.py`) | none (pure) | `decide`: prune dominated legs, best simple, best compound | called by the trial cycle |
| Bankroll limits (`risk/`) | the stakes of a day | the stake and its cap; the exposure of a day | pipeline, backtest (stake only) |
| Backtest (`backtesting/`) | a running bankroll | replay of historical matches, metrics | pipeline pieces |
| Migration 0007 (`alembic/versions/0007_opportunity_lifecycle.py`) | rewrites `opportunities` | backfill of versions and statuses | establishes what the life cycle relies on |
| Status page (`site/`) | a fetch status | polls the API health | outside the core |

What makes these hard, and what has to be true of each:

- **Life cycle.** Passes overlap. Each slot is decided on a read and written
  later, in one transaction that sees an old snapshot but whose UPDATEs see the
  present. To hold: one chain of versions per slot, only the last one a
  candidate; rows are immutable snapshots; an observation not newer than the
  stored one has no effect; a completed pass leaves every evaluated slot in line
  with its observation; passes end.
- **Settlement.** A bet can be settled by an API request and by `settle_due` at
  the same time, a result can be missing, unknown or void, the ledger must
  follow real bets only. To hold: one settlement per bet, which agrees with its
  legs; the ledger's sum is what was staked and paid; terminal bets never move.
- **Ingestion.** Updates arrive late, twice, out of order. To hold: an event
  never leaves `finished` or `cancelled`; a result exists exactly in `finished`.
- **Trial cycle.** Checks then acts: an open bet on the event, the status of the
  opportunity, the start of the event are read before the bet is written. To
  hold: at most one open trial bet per event; bet legs are the recommendation's.
- **Scheduler.** A failing stage must neither stop the loop nor skip settlement;
  an opportunity that always fails must not starve the others.
- **Decision engine.** A pure computation to compare with a reference
  definition: pruning loses no optimum, ties do not depend on what is discarded.
- **Pipeline and backtest.** Two programs compute the same value of a bet, one
  before the match and one after it, over events spelled, listed and quoted in
  any way. To hold: every quoted slot is reported once, as the life cycle takes
  it; neither uses a match that was not over; the replay bets what the pipeline
  would have; stakes and metrics add up.
- **Migration 0007.** MySQL commits at every DDL statement, and a run can fail or
  be killed between two. To hold: what it completes satisfies the life cycle's
  invariant; no row is lost and no offer closed without a newer one; only rows
  it could not see make it fail.

## 2. Plan

A module is written so that it can be proved about as well as checked: CONSTANTS
with named assumptions, one action per operation, invariants as conjunctions, no
recursive operators. Done, most important behaviour first:

| Component | Modules | Abstract specification | Proofs |
|---|---|---|---|
| Life cycle | `OpportunityLifecycle`, `MCOpportunityLifecycle` | `SlotBook` | `OpportunityLifecycleProofs` |
| Settlement and ledger | `Settlement`, `MCSettlement` | `BetBook` | `SettlementProofs`, `LedgerProofs` |
| Event ingestion | `EventIngestion`, `EventRows`, `MCEventIngestion` | `EventLife` | `EventIngestionProofs` |
| Trial cycle and scheduler | `TrialCycle`, `MCTrialCycle` | `Reservations` | `TrialCycleProofs` |
| Decision engine | `DecisionEngine`, `KellyGrowth`, `MCDecisionEngine` | the exhaustive definition, inside the module | `DecisionEngineProofs` |
| Pipeline and backtest | `Valuation`, `ObservationPipeline`, `Backtest`, `MCBacktest` | the input of `OpportunityLifecycle` | `BacktestProofs` |
| Migration 0007 | `Backfill`, `MCBackfill` | the invariant of `OpportunityLifecycle` | `BackfillProofs` |

How they compose: `EventRows` is the vocabulary of the `events` table that
ingestion, settlement and the trial cycle share. `Settlement` moves its events by
the steps of `EventLife`, and `EventIngestion` is checked and proved to implement
`EventLife`, so what settlement assumes is what ingestion gives. `TrialCycle`
uses the same transitions on the status, a bet's phases as `BetBook` names them,
and a choice (`Decisions`) that leaves open what `DecisionEngine` computes.
`ObservationPipeline` and `Backtest` share `Valuation`; what the former reports
is checked to be an `Observation` of `OpportunityLifecycle`, the set its passes
take their input from. `Backfill` is checked and proved to end in a table that
satisfies `LifecycleInv`, the invariant those passes are proved to keep.

Next, in this order:

1. The rounding of a stake to zero with the engine's choice, to answer whether
   an offer without stake starves the cycle.
2. Two ingesting processes, which the scheduler excludes by assumption.

## 3. The opportunity life cycle

`OpportunityLifecycle` models `OpportunityLifecycleService.apply` line by line.

| State | Code |
|---|---|
| `opp[slot][version]` | the `opportunities` table; a version that does not exist has status "none"; the primary key is (slot, version), so `supersededBy` is a version |
| `pass[p]` | where process `p` is in `apply`, its observation, the slots still to process |
| `txn[p]` | the slot transaction `_in_transaction` runs: slot, attempt, the row `find_latest_version` returned |
| `outcomes[p]` | `LifecycleResult.outcomes` |

| Action | Code |
|---|---|
| `Begin`, `RejectUnknownEvent` | `apply` up to its first commit |
| `ReadSlot` | `_latest` in a new transaction |
| `CreateFirst`, `IgnoreStale`, `Reopen`, `Heartbeat`, `Supersede` | the branches of `_apply_candidate`, with the repository call and the commit |
| `NothingToClose`, `IgnoreStale`, `Expire`, `CloseOvertaken` | the branches of `_apply_close` |
| `Retry`, `GiveUp` | `IntegrityError` / `_SlotConflict` in `_in_transaction` |
| `ListAbsent`, `Finish` | `_close_absent_slots`, the return |
| `Abort` | any other exception, or the death of the process, at any point |

*Granularity.* A slot transaction is two steps: the read, which fixes the
snapshot, and the write with its commit. Nothing is lost by merging the INSERT,
the UPDATE and the commit: the INSERT touches only the new row, so a commit of
another process between it and the UPDATE has the same effect as before the
INSERT; a concurrent INSERT of the same version waits for the first to commit or
roll back; from the UPDATE to the commit the row is locked. A retry merges the
rollback, which nobody sees, with the read that follows.

*Data.* Odds and probability are one `decision`, compared after the rounding of
storage. Instants are 1..`MaxTime`; there is no global clock, a pass may bring
an observation of any age, which covers slow providers and requests overtaken by
later ones. An observation gives each slot at most one item, not later than the
evaluation instant of its event (the maximum over its quotes, or the clock).
Slots are processed in any order compatible with candidates first. The other
columns are descriptive and are left out.

`SlotBook` is what the readers of the table rely on: per slot a version number
that counts up and at most one offer.

### Runs

| Run | Bounds | Shows |
|---|---|---|
| `lifecycle_pass` | 1 process, 2 slots of one event, 2 decisions, 3 instants | whole passes, in every order of observations: stale ones have no effect, and what a completed pass leaves behind; 3 instants allow create, close and reopen, and create, replace, late observation |
| `lifecycle_race` | 2 processes, 2 slots, one of an event not stored, 2 instants, 2 attempts | chain, immutability, refinement and termination under conflicts, retries, give-up and crashes |
| `race_stale_close` | 2 processes, 1 slot | violated: with two processes a close decided on an old read expires a candidate observed later |

Slots do not share rows, so races need one stored slot only; `MaxTime` also bounds
the versions without cutting anything off (theorem `TypeCorrect`). Two instants
are enough for a conflict at each kind of write, and for two in a row, hence the
two attempts; more of them, and more processes,
change nothing in the first three properties of `lifecycle_race`, which are
proved for all values. There is no symmetry in it because of the liveness property.

*Fairness.* `FairSpec` asks weak fairness of the steps of a running pass and of
nothing else: the pass is a call in a thread that keeps running; nobody is
obliged to start one. Weak fairness of the disjunction is enough because a
running pass always has some step enabled until it ends.

*What the violated run shows.* A pass decides on a read and writes with an UPDATE
that repeats only part of the decision. `mark_expired` and `mark_superseded`
check the status and not `last_observed_at`, so a candidate that another process
refreshed in between is closed or replaced by an older observation. For the
same reason `CompletedPassSettles` holds for one process only: the result of the
heartbeat's UPDATE is dropped, and a close whose row was superseded by another
process is taken for a slot already closed.

## 4. Event ingestion

`EventIngestion` models `EventIngestionService` with `apply_update`. A provider
sends any list of updates again and again: repeated, contradictory, malformed,
about events that are not stored.

| State | Code |
|---|---|
| `event[e]` | status and result of a row of `events` |
| `batch`, `queue` | the list of `get_event_updates`, what is left of it |
| `report` | `IngestionResult`, as one list in the order of the loop |

| Action | Code |
|---|---|
| `Sync` | `sync`, up to the loop of `ingest` |
| `RejectMalformed`, `ReportUnknown`, `LeaveUnchanged`, `RejectTransition`, `Apply` | the branches of `_apply`, with the commit |
| `Fail` | the `except` of `ingest`: rollback, next update |
| `Crash` | the process dies in the middle of a list |

The scheduler assumes a single runner (`trial_scheduler.py:12`) and nobody else
writes these columns, so reading a row and writing it are one step. The initial
rows are any that `_validate_shape` would accept.

Run `ingestion_pass`: two stored events and one that is not, eleven updates with
one of each malformed kind, lists of one or two. Two updates are the shortest
list in which order, repetition and contradiction show, and since the table
starts in any state and lists follow each other for ever longer lists add
nothing. `ReportExplainsRows` says of a batch that ended or was cut short that
the rows are what the report says was applied, in that order, and no more;
`CleanBatchCatchesUp` that a batch without failures leaves nothing behind.

`EventLife` is the promise to the readers: an event moves one way, towards
finished or cancelled, with a result exactly when finished.

## 5. Settlement and ledger

`Settlement` models `POST /bets`, `POST /bets/{id}/settle` and `settle_due`, with
`SettlementService`, `result_resolver`, the repositories and the two UNIQUE
constraints they rely on.

| State | Code |
|---|---|
| `event` | the `events` table, moved by `EventLife` |
| `bet[b]` | `bets` with its `bet_legs`: mode, legs, stake, odds, recommendation, results, status |
| `settlement[b]` | `settlements`, by its UNIQUE `bet_id` |
| `ledger` | `bankroll_transactions` in the order of commits; `seen` is how many the writer saw, from which `balance_after` follows |
| `api[a]` | the request a thread serves, and its last answer |
| `run[r]`, `outcome[r]` | a run of `settle_due` and its `SettleDueResult` |
| `author[b]` | history: who settled the bet; read by no action |

| Action | Code |
|---|---|
| `BeginRegister`, `Register`, `RegisterConflict` | `register_bet`: checks and snapshot; INSERTs, movement and commit; 409 of the recommendation's UNIQUE |
| `BeginSettle`, `RefuseSettle`, `Settle`, `SettleRaced` | `settle_bet`: snapshot and checks; 404, 409, 422; settlement, status, movement, commit; the IntegrityError nobody catches |
| `ApiFails` | any other exception: the session is rolled back |
| `ListDue`, `ReadNext` | `_open_bet_ids`, `_settle_one` up to the write |
| `SettleDue`, `LeaveUnresolved`, `LoseRace`, `FailBet` | its outcomes, with commit or rollback and `_classify_failure` |
| `Die` | the process is killed; for runners in `Mortal` |

*Granularity.* Transactions run under REPEATABLE READ: the reads of one see the
database of its first read, its INSERTs meet the constraints as they are. Hence
two steps, snapshot and commit. The list of due bets and the first bet share a
transaction. A failure of the query that classifies a failure ends the run like
`Die`.

*Data.* The odds of a slip are one number and money is not rounded; a selection
nobody recognizes is the pick "unknown". A request with a recommendation or
event that does not exist changes nothing and is left out. `POST /bets` does not
require the legs of the recommendation it names, and neither does the model.

| Run | Bounds | Shows |
|---|---|---|
| `settlement_race` | 1 bet (single or combined), 1 request, 2 runners, 2 events | three processes race to settle one bet; two events give all four results of a combined bet; refinement of `BetBook` |
| `settlement_ledger` | 2 bets, 2 requests, 1 recommendation, a refused slip | the ledger and the recommendation's bet under two overlapping requests |
| `settlement_due` | 2 bets, the scheduler, 1 request | liveness: the unresolvable bet may come first |
| `race_balance_after` | 2 overlapping requests | violated: `balance_after` leaves the other's movement out |

A bet shares rows with another one only in the ledger and through its
recommendation, hence one bet in the race and two in the others.

The loser of a race to settle (`SettleRaced`) changes nothing, which is
`SettlementIsFinal`, but its IntegrityError is mapped to no answer
(`bets.py:94`), whereas `register_bet` maps its own to a 409: the caller gets a
500.

*Fairness* (`settlement_due` only): the scheduler calls `settle_due` at every
tick and its loop goes on (weak fairness of its steps); strong fairness of
settling a given bet, since a technical failure of one bet is retried at the next
tick and is not expected every time. Runners in `Mortal` and requests have none.

`BetBook` is the book of bets as an accountant sees it: absent, open, under
review, closed; cash moves only when a real bet is placed or closed.

## 6. Trial cycle and scheduler

`TrialCycle` models the single process of `run_trial_scheduler.py`: each tick
ingests, settles and runs one cycle, while opportunities, requests and an
operator act around it.

| State | Code |
|---|---|
| `status`, `clock` | `Event.status`, the time |
| `offer[s]` | `last_observed_at` of the candidate of a slot, `Closed` without one |
| `rec` | `recommendations`: the offers of each, {} for a no_bet |
| `bet` | `bets`: mode, events of the legs, recommendation, phase as in `BetBook` |
| `tick` | where `run_flow` is, its `now`, the opportunities `run_cycle` read |
| `stopping` | the stop event |

| Action | Code |
|---|---|
| `StartTick`, `Leave`, `RequestStop` | `run_once` and `run_forever`, `stop` |
| `Ingest`, `EndIngest` | an applied update; the end of `sync`, also by an exception |
| `SettleBet` | one bet of `settle_due` |
| `Look` | the reads of `_run`, all in one snapshot |
| `Commit` | decision, `create_recommendation`, `execute` and the only commit |
| `FailTick` | an exception of `settle_due` or `run_cycle`, a stake of zero included |
| `Interrupt`, `Restart` | Ctrl+C or a kill, and the operator |
| `Observe`, `Withdraw`, `RegisterBet`, `SettleByHand`, `Elapse` | the life cycle, the API and time, over-approximated |

`now` is the instant at which the tick started. The executor's own checks of
offers and events read the cycle's snapshot again, so they repeat `Eligible` and
`Decisions` and can only fail the tick. The snapshot may be shared with the last
read of `settle_due`; the behaviours are the same, because only requests write
between the two. The valuation is abstracted: a cycle may take any one to three
eligible offers on distinct events.

Run `trial_cycle`: two events, one slot each, starts at 1 and 2, clock 0..1,
`TTL` 0, two recommendations, two bets, a trial request on the first event and a
real one that names the first recommendation. Two bets are what it takes to have
a second one on an event; clock and starts make an offer stale and an event
started before its status says so. Two recommendations, one after the other, also
show an event being given back and taken again. Two overlapping runners could bet
twice on an event; `trial_service.py:26` says so, and the model keeps to one.

*Fairness.* Weak fairness of the running process, strong fairness of settling
each bet as above; none for the operator, requests and offers. A tick cannot
ingest for ever because events move one way.

`Reservations` is the scheduler as the events see it: which recommendations hold
each event, by their pending bets (`Holders`). A recommendation takes all its
events in one step, while they are scheduled and nobody holds them; a bet that
ends gives all of them back, one under review none, and none of them comes back
to it. `Look` and `Commit`, with whatever falls in between, therefore act as one
step taken at `Commit` (`ImplementsReservations`). Two bets on one event, a bet on
an event that has moved on and a bet that is settled twice would each break it;
`CycleBetsBeforeTheEvent`, the second of these alone, is proved but not a
property of the run.

What an API trial bet can do: it is held against the event at the next `Look`,
but if it commits between `Look` and `Commit` the event has two trial bets;
`OneCycleBetPerEvent` is therefore about the bets of cycles.

## 7. Decision engine

`DecisionEngine` computes `decide` on a table of offers that grows (`Open`) and
shrinks (`Close`) between calls: valid legs, those with value, pruning, limit,
best simple, best compound, selection, each an operator with the code's order and
tie-breaks. Probabilities are multiples of 1/`Unit`, odds whole numbers, so
products and expected values are exact; the growth is a constant `Growth`, which
the run instantiates with `KellyGrowth!LogGrowth`, the formula of `growth.py` in
fixed point. Two assumptions about it are evaluated by TLC on that table.
`GrowthAssumption`, that of two proposals with value the more probable one grows
no slower when its expected value is no smaller, survives the rounding of
floating point. `StrictGrowthAssumption`, that more probable or better paid grows
faster, is true of real numbers and of the table only: two floats may round to
the same growth. One theorem uses it (section 10). The rounding of ties to twelve
decimals stands for exact ties and is not modelled, nor are the diagnostics.

Run `decision`: up to four offers on three symmetric events, quarters, odds up to
4, limit of three legs. The prices contain two that do not dominate each other,
a dominated one, a fair one and an invalid one. Four offers are the least that
exceed a limit of three, and that make a tie between a pair and a pair with a
duplicate. `AllProposals` is the reference: every bet of one to three legs on any
priced candidates, also with legs that are worth nothing alone. Deadlock is off
because after the last offer nothing is left to decide.

## 8. Observation pipeline and backtest

`Valuation` holds the stages both share, each an operator: `CleanEvents`
(names, first copy of an event, order of start), `Ratings` and `BuildFeatures`,
`Estimates`, the overround and `Passes`, `KellyShare` and `SuggestStake`, and
the grouping of quotes into markets (`Priced`), of quotes as each program reads
them (`ReadQuotes`, `ReadRaw`), because the two choose different keys.

| State | Code |
|---|---|
| `listing`, `odds`, `now` | the providers' events and quotes, the clock |
| `proposed[e]` | what a pass proposed of `e` when every match before it was over; read by no action |
| `phase`, `window` | the run of the backtest, `date_from` and `date_to` |
| `history`, `queue`, `current` | `all_events`, `finished_events` left, the estimates of the event under evaluation |
| `bankroll`, `records` | the running bankroll, `BacktestReport.records` |

| Action | Code |
|---|---|
| `GenerateObservation` | `generate_observation` |
| `Elapse`, `EndMatch` | the clock and the data provider |
| `StartReplay`, `EndReplay` | `BacktestEngine.run` up to its loop, and its return |
| `OpenEvent` | `_evaluate_event` up to the loop over the estimates |
| `PassOver`, `PlaceBet` | one turn of that loop |

A pass and a replay only read, and each reads the list of events once, so the
providers change between them and not during them; what a pass reports is
therefore an operator (`Reports`, `Evaluated`), and the invariants say it of
every state a pass could start in.

*Data.* Probabilities are multiples of 1/`Unit`, odds whole numbers of at least
2, and so every comparison is exact; the expected score is a constant table
`Expected` of the rating gap. Money is counted in whole units and a stake is
rounded down; whether there is one at all is decided on the sign, as floating
point does (`Backs`, `GetsStake`), so a bet of less than a unit is still a bet.
A text is its normal form with a spelling.
The order of the markets of an event is that of their first quotes: the pipeline
sorts them, but its two lists are only looked up by slot. The only assumption on
the providers (`ProviderAssumption`) is what they may hold: a programme is any
list of `EventRow` over the teams and selections `Labels` and the `Sports`, a book
any list of `Quote` per event. A match that is scheduled or live has yet to end;
any other status but finished behaves like cancelled.

| Run | Bounds | Shows |
|---|---|---|
| `backtest` | 3 matches of 3 teams in four programmes, 8 books of quotes, 2 windows, 3 instants | every property of both programs at every moment matches may be over in |

The programmes have matches one after the other, two at once, two sports, a team
whose name is spelled in two ways and a match listed twice, first as well as
last; the books have none, one and two bookmakers, repeated quotes, and odd
spellings of bookmaker, selection and market. Three matches are what it takes
for a rating and a draw to come from two earlier ones. Deadlock is off because a
replay ends.

What the properties suppose shows where the two programs differ or rely on their
input:

- `FeedsTheLifeCycle` supposes that a market type of an event is spelled one way.
  The pipeline groups by the raw market type (`opportunity_service.py:115`), the
  life cycle by the normalized one: with two spellings a slot is reported twice.
- `ReplayReproducesThePipeline` supposes quotes spelled as the model spells them,
  since the backtest normalizes none of the keys, and a bankroll that lasts, since a
  pass stakes every bet from `InitialBankroll` and a replay from what is left. It
  speaks of an event that a pass saw with all earlier matches over. Both programs take for earlier what
  *starts* earlier: a replay knows the result of a match that starts before
  another one and ends after it has begun, which no pass could.
- The quotes of a selection are not deduplicated: the last one is priced, all of
  them count in the overround.
- The bets of a replay are staked from one running bankroll in order of start,
  so a bet at the same instant as another already has its profit.
- A quote of odds up to 1 raises an exception that ends the pass; the model has
  none.

## 9. Migration 0007

`Backfill` is the migration as MySQL runs it: a DDL statement commits what is
open and itself, so a run that is cut short keeps its columns and loses its
UPDATEs, unless they were committed by the first ALTER.

| State | Code |
|---|---|
| `rows[id]` | `opportunities` as committed; `created` is 0 for an id not given out |
| `revision`, `columns`, `strict` | `alembic_version`, how many of the new columns exist, whether a row without them is refused |
| `phase` | where the run of alembic is |
| `listed`, `chains`, `written` | `rows` and `slots` of `_backfill`, the open transaction |

| Action | Code |
|---|---|
| `Upgrade`, `AddColumn` | the four `add_column` |
| `SelectRows`, `GroupRow`, `Grouped`, `UpdateRow` | `_backfill`: the SELECT, its two loops |
| `RequireObserved`, `Constrain`, `Stamp` | the ALTERs, the foreign key and UNIQUE, alembic's stamp |
| `Downgrade`, `DropColumn`, `Dropped` | `downgrade` |
| `Crash`, `RepairByHand` | the run dies; somebody drops what it left, without which `add_column` fails |
| `OldSave` | the program of revision 0006, until a new column refuses its rows |

The order of the UPDATEs is left open, since nobody sees one before they are all
committed. The index at the end and the defaults have no effect on the rows.

Run `backfill`: four rows, two instants, two slots, one with two spellings; two
rows per slot make a chain, three or four make a middle; ids and instants can
disagree.

## 10. Proofs

Each `...Proofs` module extends its component and proves, for all values of the
constants under the named assumptions:

- `OpportunityLifecycleProofs`: `TypeCorrect` (types, and that versions fit in
  `MaxTime`), `LifecycleSafe` (`LifecycleInv`), `RowsAreSnapshots`
  (`RowsOnlyAdvance`), `LifecycleImplementsSlotBook`. The inductive invariant
  adds `HasLatest` (a slot with versions has a last one; kept as an invariant
  because induction over the table is out of the prover's reach),
  `VersionsFitInTime`, `DecisionsKnown` and `SnapshotsSound`, the key: a snapshot
  may be out of date, but a closed version is still the row that was read, and an
  open one has kept its decision and only become fresher. From it every step is
  one of four changes of the table (`Insert`, `Beat`, `Replace`, `Shut`) or none,
  and each preserves the invariants and maps to `SlotBook`.
  `AloneAPassSettles` (`CompletedPassSettles`) and `AloneStaleIsIgnored`
  (`StaleObservationIgnored`) suppose one process, as `lifecycle_pass` does and as
  `race_stale_close` shows they must. Their invariant `LoneInv` says that what was
  read is what is there (`SnapshotCurrent`) and that every slot taken off the list
  is settled already (`PassOnCourse`); `LoneWrite` says of each write what it
  makes of its slot, and that it leaves the others alone.
- `EventIngestionProofs`: `IngestionTypes`, `ResultsComeWithTheEnd`, `FinalEventsStay`,
  `IngestionImplementsEventLife`, `ReportsAreTrue` (`ReportExplainsRows`),
  `CleanBatchesCatchUp` (`CleanBatchCatchesUp`). Only `Apply` writes, and what it
  writes is well-formed and allowed. The report needs that only stored events are
  reported as updated (`Explained`); the clean batch that report and queue are the
  two parts of the batch (`Divided`) and that no turn takes back what an earlier
  one caught up (`TurnKeepsCaught`: an event that has moved on cannot return).
- `SettlementProofs`: `SettlementTypes`, `SettlementsMatchTheirLegs`,
  `ReviewLeavesTheBetOpen`, `SettlementsAreFinal`, `AutomaticResultsStand`,
  `RunReportsAreTrue`, `RecommendationsBetOnce`. The book changes in two ways
  only, placing a bet and settling one that has no settlement; and what a process
  read stays true until it writes, because legs never change and a final event
  never does.
- `LedgerProofs`: `MovementsFollowBets` (`LedgerFollowsBets`), `BalanceMatchesProfits`
  (`BalanceIsProfit`), `BetsImplementTheBook` (`ImplementsBetBook`). The sums are
  recursive functions over the ledger and over the bets; that they agree with what
  a step adds to them is shown by the first index at which they would not, which
  takes the place of an induction.
- `TrialCycleProofs`: `TrialTypes`, `OnePendingBetPerEvent`,
  `RecommendationsGetTheirBet`, `CyclesBetBeforeTheEvent`,
  `CyclesImplementReservations` (`ImplementsReservations`). The book changes in
  three ways (a request adds a bet that executes nothing, a pending bet ends, a
  cycle adds a recommendation with its bet). `LookHolds` is the key: between
  `Look` and `Commit` no request can make a cycle's bet pending, and no
  event moves, so the events looked at are still scheduled and free. The
  refinement follows: by `LookHolds` a commit finds its events free
  (`CommitIssues`), and as a recommendation has one bet, an ending takes it from
  all the events it holds (`EndingReleases`).
- `DecisionEngineProofs`: `TheSelectedBetIsTheBest` (`NothingBetter`),
  `TheBestSimpleIsSpared` (`LimitSparesTheBestSimple`), `TheDiscardedDoNotMatter`
  (`DiscardedDoNotMatter`; only this one needs `StrictGrowthAssumption`). A bet
  with an offer that pruning discards is improved by dropping that offer, when it
  has no value, or by putting one that dominates it in its place; each
  improvement leaves fewer discarded offers in the bet, so some bet on offers that
  survive is at least as good. The engine's orders are one strict order of
  proposals (`BeforeIsAnOrder`), and its choice is the first in it.
- `BackfillProofs`: `BackfillInvariant`, `MigrationGivesALifecycle`,
  `HistoryKept`, `ConstraintsHold`, for any slots and spellings, any number of
  rows and any runs. While a run reads, its chains are sorted by age and come
  before what is still listed (`ChainsSorted`, `ChainsBeforeList`); every UPDATE
  follows from the chains; the new columns are empty until they are committed.
  Once `last_observed_at` is NOT NULL every row was in a chain, so the table is
  numbered by age and linked (`Linked`), and this is the life cycle's invariant.

- `BacktestProofs`: `NoLookAhead` (`ReportsUsePastOnly`), `AllQuotedSlotsAreReported`
  (`QuotedSlotsAreReported`), `ReportsFeedTheLifeCycle` (`FeedsTheLifeCycle`),
  `StakesStayWithin` (`StakesStayWithinTheLimit`), `TheMetricsAgree` (`MetricsAgree`),
  for any programmes, quotes, odds and windows, and any model with the few
  properties `Valuation` assumes. The code filters, sorts and joins lists: each of
  the three takes every element from a place of its own, and that place depends
  only on what is compared. So two histories that differ in what has not been
  played yet give the same prior events, hence the same ratings and reports; and
  each selection with an estimate and a quote is priced once in its market
  (`PricedFacts`), which gives the slots reported and, when a market type is
  spelled one way, that no slot is reported twice. For the stakes, `ReplayInv`
  says what the run of the backtest holds and `Carried` that the bankroll is the
  last of the records' and never falls below zero: a stake is at most
  1/`StakeDivisor` of it. `ReplaysReproduceThePasses` (`ReplayReproducesThePipeline`)
  joins two arguments. What a pass proposed once all earlier matches were over it
  would propose at any later time, because a match that is over does not change
  any more (`ProposalsStand`, `StandsAfterEnd`). And a replay opens each played
  event of its window once (`QueueInv`) and has, of each, placed nothing before
  and everything after (`Progress`). The two meet because filtering the list twice,
  as the backtest does, is filtering it once by both conditions
  (`SublistOfSublist`, `HistoryIsEnough`), and because quotes spelled plainly are
  read alike (`PlainReadAlike`, `ReplayBetsAsStaked`). The sum and the drawdown are recursive functions over
  the records; that they exist is one lemma (`RecursionExists`), that they hold
  at every length (`Along`, `Deepest`) is shown by the first length at which they
  would not.

Where an alternative of a CASE is not excluded by the others TLA+ leaves the
result open, which TLC does not show and a proof does: the guards of the profit of
a settlement (`Net`, `Phase`) were made exclusive when the ledger was proved.

Only model-checked is liveness, which is out of the prover's reach:
`PassTerminates`, `DueBetsSettle`, `SettlementGoesOn` and `StopIsHeeded`. Every
invariant and action property of the passing runs is a theorem.

## 11. Not modelled

- `BankrollManager` (`risk/bankroll_manager.py`), the exposure of a day: only its
  tests use it, so no bet is ever checked against it.
- `roi`, `win_rate` and the Brier score of `metrics.py`: quotients of sums.
- The other migrations: they create, change and replace tables and convert no row.
- Formatting, schemas, routing and read-only endpoints of the API, logging,
  configuration, the status page, the providers and sample data: no state whose
  order matters.
