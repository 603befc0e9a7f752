----------------------------- MODULE Settlement -----------------------------
(***************************************************************************)
(* Bets, their settlement and the ledger, written by API requests          *)
(* (register_bet, settle_bet) and by runs of settle_due, while events move *)
(* to their results as EventLife allows.                                   *)
(*                                                                         *)
(* Every request, and every bet of a run, is one transaction under         *)
(* REPEATABLE READ: what it reads is the database when it began, its       *)
(* writes and the UNIQUE constraints meet the database when it commits.    *)
(* Hence two steps: one that takes the snapshot, one that writes or fails. *)
(***************************************************************************)
EXTENDS EventRows, Integers, Sequences, FiniteSets

CONSTANTS
  MaxBets,    \* bets have ids 1..MaxBets
  Slips,      \* what a request to register may contain
  Apis,       \* API request threads
  Runners,    \* processes that run settle_due: the scheduler, run_trial.py
  Mortal,     \* the runners that may be killed
  NoRec,      \* recommendation_id NULL
  Recs,       \* recommendations stored
  NoAmount,   \* payout or profit_loss NULL
  Nobody      \* a bet nobody has settled

ASSUME MaxBetsAssumption == MaxBets \in Nat \ {0}

ASSUME NullAssumption == NoRec \notin Recs /\ NoAmount \notin Int

ASSUME ProcessAssumption == Apis \cap Runners = {} /\ Nobody \notin Apis \cup Runners

ASSUME MortalAssumption == Mortal \subseteq Runners

Bets == 1..MaxBets

\* A selection after _normalize_selection; "unknown" is any selection or market
\* type that the resolver does not recognize.
Picks == {"home", "away", "draw", "unknown"}

Leg == [event: Events, pick: Picks]

\* odds is the product of the odds of the legs, which never change.
Slip == [type: {"simple", "compound"}, legs: Seq(Leg), stake: Nat \ {0}, odds: Nat \ {0}]

ASSUME SlipAssumption == Slips \subseteq Slip

Modes == {"real", "trial"}
LegResults == {"won", "lost", "void"}
FinalStatuses == {"won", "lost", "void"}

VARIABLES
  event,        \* the events table
  bet,          \* bets with their legs: id -> row; mode "none" when absent
  settlement,   \* settlements by bet_id; status "none" when absent
  ledger,       \* bankroll_transactions in the order of their commits
  api,          \* per request thread: the request in progress, the last answer
  run,          \* per runner: the bets left to settle and the snapshot of the first
  outcome,      \* per runner: SettleDueResult of its last run
  author        \* history, read by no action: who settled each bet

vars == <<event, bet, settlement, ledger, api, run, outcome, author>>

bookVars == <<bet, settlement, ledger, author>>

-----------------------------------------------------------------------------
(* Rows.                                                                   *)

NoBet == [mode |-> "none", legs |-> <<>>, stake |-> 0, odds |-> 0, rec |-> NoRec,
          results |-> <<>>, status |-> "none"]

BetRow == [mode: Modes, legs: Seq(Leg), stake: Nat \ {0}, odds: Nat \ {0},
           rec: Recs \cup {NoRec}, results: Seq(LegResults \cup {"pending"}),
           status: {"pending", "settled"}]

NewBet(mode, slip, rec) ==
  [mode |-> mode, legs |-> slip.legs, stake |-> slip.stake, odds |-> slip.odds, rec |-> rec,
   results |-> [i \in DOMAIN slip.legs |-> "pending"], status |-> "pending"]

NoSettlement == [status |-> "none", payout |-> NoAmount, profit |-> NoAmount]

SettlementRow == [status: FinalStatuses \cup {"manual_review"},
                  payout: Int \cup {NoAmount}, profit: Int \cup {NoAmount}]

Exists(b) == bet[b].mode # "none"

HasSettlement(b) == settlement[b].status # "none"

\* A movement.  balance_after is a derived column: `seen` is how many movements
\* the transaction saw when it computed it.
Entry == [bet: Bets, reason: {"bet_placed", "bet_won", "bet_void"}, amount: Int, seen: Nat]

\* SUM over amount[1], ..., amount[n].
Total(amount, n) ==
  LET sum[i \in 0..n] == IF i = 0 THEN 0 ELSE sum[i - 1] + amount[i]
  IN sum[n]

\* current_balance over the first n movements, without the initial bankroll.
Balance(n) == Total([i \in 1..n |-> ledger[i].amount], n)

BalanceAfter(i) == Balance(ledger[i].seen) + ledger[i].amount

-----------------------------------------------------------------------------
(* result_resolver and SettlementService.                                  *)

Winner == [home_win |-> "home", away_win |-> "away", draw |-> "draw"]

\* Mutant of LegResult: a postponed or unplayed event counts as lost.
MutUnplayedLost(leg) ==
  CASE event[leg.event].status = "cancelled" -> "void"
    [] event[leg.event].status = "finished" /\ leg.pick # "unknown" ->
         IF leg.pick = Winner[event[leg.event].result] THEN "won" ELSE "lost"
    [] OTHER -> "lost"

\* resolve_leg_result, for the results that EventLife lets a row have.
LegResult(leg) ==
  CASE event[leg.event].status = "cancelled" -> "void"
    [] event[leg.event].status = "finished" /\ leg.pick # "unknown" ->
         IF leg.pick = Winner[event[leg.event].result] THEN "won" ELSE "lost"
    [] OTHER -> "unresolved"

Resolved(b) == [i \in DOMAIN bet[b].legs |-> LegResult(bet[b].legs[i])]

AllAre(results, r) == \A i \in DOMAIN results : results[i] = r

\* Mutant of Aggregate: a void leg is dropped from the combination.
MutVoidDropped(results) ==
  CASE \E i \in DOMAIN results : results[i] = "lost" -> "lost"
    [] AllAre(results, "void") -> "void"
    [] OTHER -> "won"

\* _aggregate_status.
Aggregate(results) ==
  CASE \E i \in DOMAIN results : results[i] = "lost" -> "lost"
    [] AllAre(results, "won") -> "won"
    [] AllAre(results, "void") -> "void"
    [] OTHER -> "manual_review"

\* Mutant of Payout: a void bet pays the odds.
MutVoidPaysOdds(b, status) ==
  IF status \in {"won", "void"} THEN bet[b].stake * bet[b].odds ELSE NoAmount

\* _compute_payout.
Payout(b, status) ==
  CASE status = "won" -> bet[b].stake * bet[b].odds
    [] status = "void" -> bet[b].stake
    [] OTHER -> NoAmount

\* _compute_payout, the other half.
Profit(b, status) ==
  CASE status = "won" -> bet[b].stake * bet[b].odds - bet[b].stake
    [] status = "void" -> 0
    [] status = "lost" -> -bet[b].stake
    [] OTHER -> NoAmount

NewSettlement(b, status) ==
  [status |-> status, payout |-> Payout(b, status), profit |-> Profit(b, status)]

\* Mutant of SettledBet: every settlement closes its bet.
MutReviewCloses(b, results) == [bet[b] EXCEPT !.results = results, !.status = "settled"]

\* What settle_bet makes of the bet and its legs.
SettledBet(b, results) ==
  [bet[b] EXCEPT !.results = results,
                 !.status = IF Aggregate(results) \in FinalStatuses THEN "settled" ELSE @]

\* Mutant of BetIdFree: bet_id is not UNIQUE.
MutNotUnique(b) == TRUE

\* UNIQUE(bet_id), met by the INSERT whatever the snapshot said.
BetIdFree(b) == ~HasSettlement(b)

\* SettlementService.settle_bet up to the commit.
WriteSettlement(b, results, who) ==
  /\ BetIdFree(b)
  /\ bet' = [bet EXCEPT ![b] = SettledBet(b, results)]
  /\ settlement' = [settlement EXCEPT ![b] = NewSettlement(b, Aggregate(results))]
  /\ author' = [author EXCEPT ![b] = who]

\* BetService._validate_legs.
DistinctEvents(legs) ==
  \A i, j \in DOMAIN legs : legs[i].event = legs[j].event => i = j

ValidLegs(slip) ==
  /\ \/ slip.type = "simple" /\ Len(slip.legs) = 1
     \/ slip.type = "compound" /\ Len(slip.legs) \in 2..3
  /\ DistinctEvents(slip.legs)

-----------------------------------------------------------------------------
(* register_bet and settle_bet of the API.                                 *)

\* 2xx, 404 or 422 (and no request yet); 409; an uncaught IntegrityError; any
\* other failure.
Replies == {"answered", "conflict", "integrity_error", "failed"}

Idle(reply) == [phase |-> "idle", reply |-> reply]

ApiState ==
  [phase: {"idle"}, reply: Replies]
    \cup [phase: {"registering"}, mode: Modes, slip: Slips, rec: Recs \cup {NoRec}, seen: Nat]
    \cup [phase: {"settling"}, bet: Bets, results: Seq(LegResults), seen: Nat]

Answer(a, reply) == api' = [api EXCEPT ![a] = Idle(reply)]

\* Mutant of Movement: trial bets move the real bankroll.
MutEveryMode(mode, b, reason, amount, seen) ==
  Append(ledger, [bet |-> b, reason |-> reason, amount |-> amount, seen |-> seen])

\* The ledger after a movement of bet b, which only real bets make.
Movement(mode, b, reason, amount, seen) ==
  IF mode = "real"
    THEN Append(ledger, [bet |-> b, reason |-> reason, amount |-> amount, seen |-> seen])
    ELSE ledger

\* The request is read, current_balance fixes the snapshot; an invalid one is
\* answered 422.
BeginRegister(a) ==
  /\ api[a].phase = "idle"
  /\ \E mode \in Modes, slip \in Slips, rec \in Recs \cup {NoRec} :
       IF ValidLegs(slip)
         THEN api' = [api EXCEPT ![a] = [phase |-> "registering", mode |-> mode, slip |-> slip,
                                         rec |-> rec, seen |-> Len(ledger)]]
         ELSE Answer(a, "answered")
  /\ UNCHANGED <<event, bookVars, run, outcome>>

\* Mutant of RecFree: only pending bets hold their recommendation.
MutRecFreedBySettling(rec) ==
  rec = NoRec \/ \A b \in Bets : bet[b].rec = rec => bet[b].status = "settled"

\* UNIQUE(recommendation_id): NULLs do not collide.
RecFree(rec) == rec = NoRec \/ \A b \in Bets : bet[b].rec # rec

\* The bet, its legs and the stake's movement, committed together.  Ids are
\* handed out before the commit, so bets may appear in any order of id.
Register(a) ==
  /\ api[a].phase = "registering"
  /\ RecFree(api[a].rec)
  /\ \E b \in Bets :
       /\ ~Exists(b)
       /\ bet' = [bet EXCEPT ![b] = NewBet(api[a].mode, api[a].slip, api[a].rec)]
       /\ ledger' = Movement(api[a].mode, b, "bet_placed", -api[a].slip.stake, api[a].seen)
  /\ Answer(a, "answered")
  /\ UNCHANGED <<event, settlement, run, outcome, author>>

RegisterConflict(a) ==
  /\ api[a].phase = "registering"
  /\ ~RecFree(api[a].rec)
  /\ Answer(a, "conflict")
  /\ UNCHANGED <<event, bookVars, run, outcome>>

\* The bet, its legs and its settlement are read.  The results are those the
\* user sends, which need not agree with the events.
BeginSettle(a) ==
  /\ api[a].phase = "idle"
  /\ \E b \in Bets :
       /\ Exists(b)
       /\ ~HasSettlement(b)
       /\ \E results \in [DOMAIN bet[b].legs -> LegResults] :
            api' = [api EXCEPT ![a] = [phase |-> "settling", bet |-> b, results |-> results,
                                       seen |-> Len(ledger)]]
  /\ UNCHANGED <<event, bookVars, run, outcome>>

\* 409; 404 when the bet does not exist, 422 when the results do not cover
\* exactly its legs.
RefuseSettle(a) ==
  /\ api[a].phase = "idle"
  /\ \E b \in Bets :
       \/ ~HasSettlement(b) /\ Answer(a, "answered")
       \/ HasSettlement(b) /\ Answer(a, "conflict")
  /\ UNCHANGED <<event, bookVars, run, outcome>>

\* Mutant of PayoutLedger: a void bet does not get its stake back.
MutVoidNotCredited(b, status, seen) ==
  IF status = "won" THEN Movement(bet[b].mode, b, "bet_won", Payout(b, status), seen) ELSE ledger

PayoutReason == [won |-> "bet_won", void |-> "bet_void"]

\* won and void credit the payout; lost and manual_review move nothing.
PayoutLedger(b, status, seen) ==
  IF status \in {"won", "void"}
    THEN Movement(bet[b].mode, b, PayoutReason[status], Payout(b, status), seen)
    ELSE ledger

Settle(a) ==
  /\ api[a].phase = "settling"
  /\ WriteSettlement(api[a].bet, api[a].results, a)
  /\ ledger' = PayoutLedger(api[a].bet, Aggregate(api[a].results), api[a].seen)
  /\ Answer(a, "answered")
  /\ UNCHANGED <<event, run, outcome>>

\* Somebody settled the bet since the snapshot: IntegrityError, which settle_bet
\* of the API does not catch.
SettleRaced(a) ==
  /\ api[a].phase = "settling"
  /\ ~BetIdFree(api[a].bet)
  /\ Answer(a, "integrity_error")
  /\ UNCHANGED <<event, bookVars, run, outcome>>

\* Any other failure or the death of the thread: the session is rolled back.
ApiFails(a) ==
  /\ api[a].phase # "idle"
  /\ Answer(a, "failed")
  /\ UNCHANGED <<event, bookVars, run, outcome>>

-----------------------------------------------------------------------------
(* TrialSettlementService.settle_due.                                      *)

RunIdle == [phase |-> "idle", queue |-> {}, results |-> <<>>, settled |-> FALSE]

RunState == [phase: {"idle", "between", "deciding"}, queue: SUBSET Bets,
             results: Seq(LegResults \cup {"unresolved"}), settled: BOOLEAN]

Outcomes == {"none", "settled", "unresolved", "already_settled", "failed"}

\* _open_bet_ids.
DueBets ==
  {b \in Bets : bet[b].mode = "trial" /\ bet[b].status = "pending" /\ ~HasSettlement(b)}

First(queue) == CHOOSE b \in queue : \A c \in queue : b <= c

\* What the transaction of the first bet of the queue reads of it.
Reading(queue) ==
  [phase |-> "deciding", queue |-> queue, results |-> Resolved(First(queue)),
   settled |-> HasSettlement(First(queue))]

\* The list and the first bet are read in one transaction, so with one snapshot.
ListDue(r) ==
  /\ run[r].phase = "idle"
  /\ DueBets # {}
  /\ run' = [run EXCEPT ![r] = Reading(DueBets)]
  /\ outcome' = [outcome EXCEPT ![r] = [b \in Bets |-> "none"]]
  /\ UNCHANGED <<event, bookVars, api>>

ReadNext(r) ==
  /\ run[r].phase = "between"
  /\ run' = [run EXCEPT ![r] = Reading(run[r].queue)]
  /\ UNCHANGED <<event, bookVars, api, outcome>>

Current(r) == First(run[r].queue)

\* Mutant of Conclude: a bet that is not settled ends the run.
MutStopAtFirst(r, result) ==
  LET rest == IF result = "settled" THEN run[r].queue \ {Current(r)} ELSE {}
  IN /\ run[r].phase = "deciding"
     /\ run' = [run EXCEPT ![r] =
                  IF rest = {} THEN RunIdle
                    ELSE [phase |-> "between", queue |-> rest, results |-> <<>>, settled |-> FALSE]]
     /\ outcome' = [outcome EXCEPT ![r][Current(r)] = result]
     /\ UNCHANGED <<event, api>>

\* The turn of the loop for one bet, whose id goes to the list of its outcome.
Conclude(r, result) ==
  LET rest == run[r].queue \ {Current(r)}
  IN /\ run[r].phase = "deciding"
     /\ run' = [run EXCEPT ![r] =
                  IF rest = {} THEN RunIdle
                    ELSE [phase |-> "between", queue |-> rest, results |-> <<>>, settled |-> FALSE]]
     /\ outcome' = [outcome EXCEPT ![r][Current(r)] = result]
     /\ UNCHANGED <<event, api>>

\* Mutant of AllResolved: one resolved leg is enough.
MutSomeResolved(r) == \E i \in DOMAIN run[r].results : run[r].results[i] # "unresolved"

AllResolved(r) == \A i \in DOMAIN run[r].results : run[r].results[i] # "unresolved"

LeaveUnresolved(r) ==
  /\ Conclude(r, "unresolved")
  /\ ~AllResolved(r)
  /\ UNCHANGED bookVars

SettleDue(r) ==
  /\ Conclude(r, "settled")
  /\ AllResolved(r)
  /\ ~run[r].settled
  /\ WriteSettlement(Current(r), run[r].results, r)
  /\ UNCHANGED ledger

\* Settled by somebody else, before the snapshot (BetAlreadySettledError) or
\* after it (IntegrityError): rolled back, and the settlement is there.
LoseRace(r) ==
  /\ Conclude(r, "already_settled")
  /\ AllResolved(r)
  /\ run[r].settled \/ ~BetIdFree(Current(r))
  /\ UNCHANGED bookVars

FailBet(r) ==
  /\ Conclude(r, "failed")
  /\ UNCHANGED bookVars

\* The process is killed between two statements: the open transaction is lost.
Die(r) ==
  /\ r \in Mortal
  /\ run[r].phase # "idle"
  /\ run' = [run EXCEPT ![r] = RunIdle]
  /\ UNCHANGED <<event, bookVars, api, outcome>>

-----------------------------------------------------------------------------

Life == INSTANCE EventLife

EventMoves == Life!Next /\ UNCHANGED <<bookVars, api, run, outcome>>

Init ==
  /\ Life!Init
  /\ bet = [b \in Bets |-> NoBet]
  /\ settlement = [b \in Bets |-> NoSettlement]
  /\ ledger = <<>>
  /\ api = [a \in Apis |-> Idle("answered")]
  /\ run = [r \in Runners |-> RunIdle]
  /\ outcome = [r \in Runners |-> [b \in Bets |-> "none"]]
  /\ author = [b \in Bets |-> Nobody]

ApiNext(a) ==
  \/ BeginRegister(a) \/ Register(a) \/ RegisterConflict(a)
  \/ BeginSettle(a) \/ RefuseSettle(a) \/ Settle(a) \/ SettleRaced(a)
  \/ ApiFails(a)

Decide(r) == LeaveUnresolved(r) \/ SettleDue(r) \/ LoseRace(r) \/ FailBet(r)

RunnerNext(r) == ListDue(r) \/ ReadNext(r) \/ Decide(r) \/ Die(r)

Next ==
  \/ EventMoves
  \/ \E a \in Apis : ApiNext(a)
  \/ \E r \in Runners : RunnerNext(r)

Spec == Init /\ [][Next]_vars

\* The scheduler runs settle_due at every tick for ever, and the settlement of
\* one bet does not fail for technical reasons every time it is tried.
Fairness ==
  \A r \in Runners \ Mortal :
    /\ WF_vars(ListDue(r))
    /\ WF_vars(ReadNext(r))
    /\ WF_vars(Decide(r))
    /\ \A b \in Bets : SF_vars(run[r].phase = "deciding" /\ Current(r) = b /\ SettleDue(r))

FairSpec == Spec /\ Fairness

-----------------------------------------------------------------------------
(* Properties.                                                             *)

\* The variables keep their types, and a bet that exists has as many results as
\* legs.
TypeOK ==
  /\ event \in [Events -> ConsistentRow]
  /\ bet \in [Bets -> BetRow \cup {NoBet}]
  /\ \A b \in Bets : DOMAIN bet[b].results = DOMAIN bet[b].legs
  /\ settlement \in [Bets -> SettlementRow \cup {NoSettlement}]
  /\ ledger \in Seq(Entry)
  /\ api \in [Apis -> ApiState]
  /\ run \in [Runners -> RunState]
  /\ outcome \in [Runners -> [Bets -> Outcomes]]
  /\ author \in [Bets -> Apis \cup Runners \cup {Nobody}]

\* A settlement says what the stored results of the legs say, whoever won the
\* race to write it: lost if any leg is lost, won or void if all are, otherwise
\* a manual review; and no leg has a result without a settlement.
SettlementMatchesLegs ==
  \A b \in Bets :
    LET found == {bet[b].results[i] : i \in DOMAIN bet[b].results}
        status == settlement[b].status
    IN /\ status = "none" => found \subseteq {"pending"}
       /\ status # "none" => found # {} /\ "pending" \notin found
       /\ status = "lost" <=> "lost" \in found
       /\ status = "won" <=> found = {"won"}
       /\ status = "void" <=> found = {"void"}
       /\ status = "manual_review" <=> found = {"won", "void"}

\* A bet is closed exactly by a final settlement: a manual review leaves it
\* pending, and out of the reach of settle_due.
StatusFollowsSettlement ==
  \A b \in Bets : bet[b].status = "settled" <=> settlement[b].status \in FinalStatuses

\* A settlement is never recomputed nor replaced, and the bet and the results of
\* its legs stay as they were settled, even under manual review: the loser of a
\* race leaves nothing behind.
SettlementIsFinal ==
  [][\A b \in Bets : HasSettlement(b) =>
        settlement'[b] = settlement[b] /\ bet'[b] = bet[b] /\ author'[b] = author[b]]_vars

Movements(b) == {i \in DOMAIN ledger : ledger[i].bet = b}

Moved(b, reason, amount) ==
  Cardinality({i \in Movements(b) : ledger[i].reason = reason /\ ledger[i].amount = amount}) = 1

\* The ledger holds, for every real bet, its stake once and, when it was won or
\* void, its payout once; nothing for trial bets; nothing else.
LedgerFollowsBets ==
  \A b \in Bets :
    LET real == bet[b].mode = "real"
        paid == real /\ settlement[b].status \in {"won", "void"}
    IN /\ real => Moved(b, "bet_placed", -bet[b].stake)
       /\ paid => Moved(b, PayoutReason[settlement[b].status], settlement[b].payout)
       /\ Cardinality(Movements(b)) = IF paid THEN 2 ELSE IF real THEN 1 ELSE 0

Net(b) ==
  IF bet[b].mode # "real" THEN 0
    ELSE IF bet[b].status = "settled" THEN settlement[b].profit ELSE -bet[b].stake

\* The bankroll is what the bets have earned: the sum of the movements equals the
\* profits recorded in the settlements of real bets minus the stakes still at
\* risk or under review.  Two columns computed apart, by two services.
BalanceIsProfit == Balance(Len(ledger)) = Total([b \in Bets |-> Net(b)], MaxBets)

\* What settle_due settles, it settles on results that still stand: a trial bet,
\* each leg with the result its event gives now.  It reads the events before it
\* writes, so this also needs that final events never change.
SettledOnStandingResults ==
  \A b \in Bets : author[b] \in Runners => bet[b].mode = "trial" /\ bet[b].results = Resolved(b)

\* A run reports as settled the bets that it settled itself, as already settled
\* those another process did: no bet is counted twice.
OutcomesAreTrue ==
  \A r \in Runners, b \in Bets :
    /\ outcome[r][b] = "settled" => author[b] = r
    /\ outcome[r][b] = "already_settled" => HasSettlement(b) /\ author[b] # r

\* A recommendation originates at most one bet, settled or not, even if two
\* requests register it at the same time.
OneBetPerRecommendation ==
  \A b, c \in Bets : bet[b].rec # NoRec /\ bet[b].rec = bet[c].rec => b = c

Resolvable(b) ==
  /\ bet[b].mode = "trial"
  /\ \A i \in DOMAIN bet[b].legs : LegResult(bet[b].legs[i]) \in LegResults

\* A trial bet whose events have all given a result is settled in the end, by
\* the scheduler or by somebody faster, whatever other runs, requests, failures
\* and unresolvable bets there are.
DueBetsSettle == \A b \in Bets : Resolvable(b) ~> HasSettlement(b)

\* The bets implement the book of BetBook, and the bankroll its cash.
Phase(b) ==
  CASE ~Exists(b) -> "absent"
    [] Exists(b) /\ settlement[b].status = "none" -> "open"
    [] settlement[b].status = "manual_review" -> "review"
    [] settlement[b].status \in FinalStatuses -> "closed"

AtRisk(b) == IF bet[b].mode = "real" THEN bet[b].stake ELSE 0

Book == INSTANCE BetBook WITH
          Stakes <- {slip.stake : slip \in Slips},
          phase <- [b \in Bets |-> Phase(b)],
          atRisk <- [b \in Bets |-> AtRisk(b)],
          cash <- Balance(Len(ledger))

ImplementsBetBook == Book!Spec

\* balance_after is the balance after the movement: 1000 - 50 is stored as 950
\* (tests/api/test_bets_api.py:55), also when two requests overlap.
BalanceAfterIsRunning == \A i \in DOMAIN ledger : BalanceAfter(i) = Balance(i)

=============================================================================
