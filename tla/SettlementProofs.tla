------------------------- MODULE SettlementProofs --------------------------
(***************************************************************************)
(* Proofs about Settlement, for any number of bets, requests and runners.  *)
(*                                                                         *)
(* The book (bets, settlements, authors) changes in two ways only: a bet   *)
(* is placed, or a bet without a settlement is settled.  The first part    *)
(* shows that these two shapes keep the book in order; the second shows    *)
(* that every action has one of them, because what a process has read of a *)
(* bet stays true until it writes: legs never change, and the results of   *)
(* final events never change either.                                       *)
(***************************************************************************)
EXTENDS Settlement, WellFoundedInduction, TLAPS

-----------------------------------------------------------------------------
(* The operators.                                                          *)

LEMMA AggregateType ==
  ASSUME NEW results
  PROVE  Aggregate(results) \in FinalStatuses \cup {"manual_review"}
  BY DEF Aggregate, FinalStatuses

\* The status of a settlement determines the set of results it was made from.
LEMMA AggregateMeaning ==
  ASSUME NEW results, DOMAIN results # {},
         \A i \in DOMAIN results : results[i] \in LegResults,
         NEW found, found = {results[i] : i \in DOMAIN results}
  PROVE  /\ found # {} /\ "pending" \notin found
         /\ Aggregate(results) = "lost" <=> "lost" \in found
         /\ Aggregate(results) = "won" <=> found = {"won"}
         /\ Aggregate(results) = "void" <=> found = {"void"}
         /\ Aggregate(results) = "manual_review" <=> found = {"won", "void"}
<1>1. found \subseteq LegResults /\ found # {}
  OBVIOUS
<1>2. (\E i \in DOMAIN results : results[i] = "lost") <=> "lost" \in found
  OBVIOUS
<1>3. AllAre(results, "won") <=> found = {"won"}
  BY DEF AllAre
<1>4. AllAre(results, "void") <=> found = {"void"}
  BY DEF AllAre
<1>5. \/ "lost" \in found
      \/ found = {"won"}
      \/ found = {"void"}
      \/ found = {"won", "void"}
  BY <1>1 DEF LegResults
<1>6. QED
  BY <1>1, <1>2, <1>3, <1>4, <1>5 DEF Aggregate, LegResults

LEMMA LegResultType ==
  ASSUME NEW leg
  PROVE  LegResult(leg) \in LegResults \cup {"unresolved"}
  BY DEF LegResult, LegResults

\* Only a final event gives a leg its result.
LEMMA ResultNeedsFinalEvent ==
  ASSUME NEW leg, LegResult(leg) # "unresolved"
  PROVE  Terminal(event[leg.event])
  BY DEF LegResult, Terminal

\* The number any set of numbers starts with.  What holds of all numbers is proved
\* with it, from the first number it would not hold of.
LEMMA LeastNumber ==
  ASSUME NEW T \in SUBSET Nat, T # {}
  PROVE  \E n \in T : \A m \in T : n <= m
<1> DEFINE less == OpToRel(<, Nat)
<1>1. \A n, m \in Nat : <<m, n>> \notin less => n <= m
  BY DEF OpToRel
<1>2. IsWellFoundedOn(less, Nat)
  BY NatLessThanWellFounded
<1> HIDE DEF less
<1>3. \E n \in T : \A m \in T : <<m, n>> \notin less
  BY <1>2, WFMin
<1>4. QED
  BY <1>1, <1>3

LEMMA FirstInQueue ==
  ASSUME NEW queue \in SUBSET Bets, queue # {}
  PROVE  First(queue) \in queue
<1>1. queue \in SUBSET Nat
  BY MaxBetsAssumption DEF Bets
<1>2. \E b \in queue : \A c \in queue : b <= c
  BY <1>1, LeastNumber
<1>3. QED
  BY <1>2 DEF First

LEMMA NewBetType ==
  ASSUME NEW mode \in Modes, NEW slip \in Slips, NEW rec \in Recs \cup {NoRec}
  PROVE  /\ NewBet(mode, slip, rec) \in BetRow
         /\ DOMAIN NewBet(mode, slip, rec).results = DOMAIN slip.legs
<1>1. slip \in Slip
  BY SlipAssumption
<1>2. slip.legs \in Seq(Leg) /\ slip.stake \in Nat \ {0} /\ slip.odds \in Nat \ {0}
  BY <1>1 DEF Slip
<1>3. DOMAIN slip.legs = 1..Len(slip.legs) /\ Len(slip.legs) \in Nat
  BY <1>2
<1>4. [i \in DOMAIN slip.legs |-> "pending"] \in Seq(LegResults \cup {"pending"})
  BY <1>3
<1>5. QED
  BY <1>2, <1>4 DEF NewBet, BetRow

LEMMA NoBetIsAbsent == NoBet.mode = "none" /\ \A row \in BetRow : row.mode # "none"
  BY DEF NoBet, BetRow, Modes

-----------------------------------------------------------------------------
(* The book.                                                               *)

\* The types of the book.
BookTypes ==
  /\ bet \in [Bets -> BetRow \cup {NoBet}]
  /\ \A b \in Bets : DOMAIN bet[b].results = DOMAIN bet[b].legs
  /\ settlement \in [Bets -> SettlementRow \cup {NoSettlement}]
  /\ author \in [Bets -> Apis \cup Runners \cup {Nobody}]

\* A bet that exists has legs; it is untouched until it is settled, and then it
\* is what its results say.
BetInOrder(b) ==
  /\ Exists(b) => DOMAIN bet[b].legs # {}
  /\ HasSettlement(b) => Exists(b)
  /\ author[b] = Nobody <=> ~HasSettlement(b)
  /\ ~HasSettlement(b) =>
       /\ bet[b].status # "settled"
       /\ \A i \in DOMAIN bet[b].results : bet[b].results[i] = "pending"
  /\ HasSettlement(b) =>
       /\ \A i \in DOMAIN bet[b].results : bet[b].results[i] \in LegResults
       /\ settlement[b].status = Aggregate(bet[b].results)
       /\ bet[b].status = "settled" <=> Aggregate(bet[b].results) \in FinalStatuses

BookInv == BookTypes /\ \A b \in Bets : BetInOrder(b)

\* The two ways in which the book changes.
Placed(b, mode, slip, rec) ==
  /\ ~Exists(b)
  /\ DOMAIN slip.legs # {}
  /\ RecFree(rec)
  /\ bet' = [bet EXCEPT ![b] = NewBet(mode, slip, rec)]
  /\ UNCHANGED <<settlement, author>>

Settled(b, results, who) ==
  /\ Exists(b)
  /\ results \in Seq(LegResults)
  /\ DOMAIN results = DOMAIN bet[b].legs
  /\ WriteSettlement(b, results, who)

Placing ==
  \E b \in Bets, mode \in Modes, slip \in Slips, rec \in Recs \cup {NoRec} :
    Placed(b, mode, slip, rec)

Settling ==
  \E b \in Bets, who \in Apis \cup Runners : \E results \in Seq(LegResults) :
    Settled(b, results, who)

BookStep == UNCHANGED <<bet, settlement, author>> \/ Placing \/ Settling

\* The rows a settlement writes.
LEMMA SettledRows ==
  ASSUME BookTypes, NEW b \in Bets, NEW who, NEW results \in Seq(LegResults),
         Settled(b, results, who)
  PROVE  /\ bet[b] \in BetRow
         /\ SettledBet(b, results) \in BetRow
         /\ SettledBet(b, results).legs = bet[b].legs
         /\ SettledBet(b, results).mode = bet[b].mode
         /\ SettledBet(b, results).rec = bet[b].rec
         /\ SettledBet(b, results).results = results
         /\ SettledBet(b, results).status = "settled"
              <=> bet[b].status = "settled" \/ Aggregate(results) \in FinalStatuses
         /\ NewSettlement(b, Aggregate(results)) \in SettlementRow
         /\ NewSettlement(b, Aggregate(results)).status = Aggregate(results)
         /\ NewSettlement(b, Aggregate(results)).status # "none"
<1>1. bet[b] \in BetRow
  BY NoBetIsAbsent DEF BookTypes, Settled, Exists
<1>2. results \in Seq(LegResults \cup {"pending"})
  OBVIOUS
<1>3. /\ SettledBet(b, results) \in BetRow
      /\ SettledBet(b, results).legs = bet[b].legs
      /\ SettledBet(b, results).mode = bet[b].mode
      /\ SettledBet(b, results).rec = bet[b].rec
      /\ SettledBet(b, results).results = results
      /\ SettledBet(b, results).status = "settled"
           <=> bet[b].status = "settled" \/ Aggregate(results) \in FinalStatuses
  BY <1>1, <1>2 DEF SettledBet, BetRow
<1>4. bet[b].stake \in Int /\ bet[b].odds \in Int
  BY <1>1 DEF BetRow
<1>5. bet[b].stake * bet[b].odds \in Int
  BY <1>4
<1> DEFINE status == Aggregate(results)
<1>6. status \in FinalStatuses \cup {"manual_review"}
  BY AggregateType
<1> HIDE DEF status
<1>7. Payout(b, status) \in Int \cup {NoAmount}
  BY <1>4, <1>5 DEF Payout
<1>8. Profit(b, status) \in Int \cup {NoAmount}
  BY <1>4, <1>5 DEF Profit
<1>9. /\ NewSettlement(b, status) \in SettlementRow
      /\ NewSettlement(b, status).status = status
      /\ status # "none"
  BY <1>6, <1>7, <1>8 DEF NewSettlement, SettlementRow, FinalStatuses
<1>10. QED
  BY <1>1, <1>3, <1>9 DEF status

\* What is written once stays: the identity of a bet, and all of a settled one.
LEMMA BookGrows ==
  ASSUME BookInv, BookStep, NEW b \in Bets
  PROVE  /\ Exists(b) => /\ Exists(b)'
                         /\ bet'[b].legs = bet[b].legs
                         /\ bet'[b].mode = bet[b].mode
                         /\ bet'[b].rec = bet[b].rec
         /\ HasSettlement(b) => /\ HasSettlement(b)'
                                /\ bet'[b] = bet[b]
                                /\ settlement'[b] = settlement[b]
                                /\ author'[b] = author[b]
<1>1. CASE UNCHANGED <<bet, settlement, author>>
  BY <1>1 DEF Exists, HasSettlement
<1>2. CASE Placing
  BY <1>2 DEF Placing, Placed, BookInv, BookTypes, BetInOrder, Exists, HasSettlement
<1>3. CASE Settling
  <2>1. PICK c \in Bets, who \in Apis \cup Runners, results \in Seq(LegResults) :
          Settled(c, results, who)
    BY <1>3 DEF Settling
  <2>2. CASE b = c
    <3>1. bet'[b] = SettledBet(b, results) /\ ~HasSettlement(b)
      BY <2>1, <2>2 DEF Settled, WriteSettlement, BetIdFree, BookInv, BookTypes
    <3>2. QED
      BY <2>1, <2>2, <3>1, SettledRows DEF BookInv, Exists
  <2>3. CASE b # c
    BY <2>1, <2>3 DEF Settled, WriteSettlement, BookInv, BookTypes, Exists, HasSettlement
  <2>4. QED
    BY <2>2, <2>3
<1>4. QED
  BY <1>1, <1>2, <1>3 DEF BookStep

LEMMA BookStepTypes ==
  ASSUME BookInv, BookStep
  PROVE  BookTypes'
<1>1. CASE UNCHANGED <<bet, settlement, author>>
  BY <1>1 DEF BookInv, BookTypes
<1>2. CASE Placing
  <2>1. PICK c \in Bets, mode \in Modes, slip \in Slips, rec \in Recs \cup {NoRec} :
          Placed(c, mode, slip, rec)
    BY <1>2 DEF Placing
  <2>2. /\ NewBet(mode, slip, rec) \in BetRow
        /\ DOMAIN NewBet(mode, slip, rec).results = DOMAIN NewBet(mode, slip, rec).legs
    BY NewBetType DEF NewBet
  <2>3. QED
    BY <2>1, <2>2 DEF Placed, BookInv, BookTypes
<1>3. CASE Settling
  <2>1. PICK c \in Bets, who \in Apis \cup Runners, results \in Seq(LegResults) :
          Settled(c, results, who)
    BY <1>3 DEF Settling
  <2>2. /\ SettledBet(c, results) \in BetRow
        /\ DOMAIN SettledBet(c, results).results = DOMAIN SettledBet(c, results).legs
        /\ NewSettlement(c, Aggregate(results)) \in SettlementRow
    BY <2>1, SettledRows DEF BookInv, Settled
  <2>3. QED
    BY <2>1, <2>2 DEF Settled, WriteSettlement, BookInv, BookTypes
<1>4. QED
  BY <1>1, <1>2, <1>3 DEF BookStep

LEMMA BookStepInv ==
  ASSUME BookInv, BookStep
  PROVE  BookInv'
<1>1. BookTypes'
  BY BookStepTypes
<1>2. ASSUME NEW b \in Bets PROVE BetInOrder(b)'
  <2>1. BetInOrder(b)
    BY DEF BookInv
  <2>2. CASE bet'[b] = bet[b] /\ settlement'[b] = settlement[b] /\ author'[b] = author[b]
    BY <2>1, <2>2 DEF BetInOrder, Exists, HasSettlement
  <2>3. ASSUME NEW mode \in Modes, NEW slip \in Slips, NEW rec \in Recs \cup {NoRec},
               Placed(b, mode, slip, rec)
        PROVE  BetInOrder(b)'
    <3>1. bet'[b] = NewBet(mode, slip, rec) /\ settlement'[b] = settlement[b] /\ author'[b] = author[b]
      BY <2>3 DEF Placed, BookInv, BookTypes
    <3>2. ~HasSettlement(b) /\ author[b] = Nobody
      BY <2>1, <2>3 DEF Placed, BetInOrder
    <3>3. /\ DOMAIN bet'[b].legs # {}
          /\ bet'[b].status = "pending"
          /\ \A i \in DOMAIN bet'[b].results : bet'[b].results[i] = "pending"
      BY <2>3, <3>1 DEF Placed, NewBet
    <3>4. QED
      BY <3>1, <3>2, <3>3 DEF BetInOrder, HasSettlement
  <2>4. ASSUME NEW who \in Apis \cup Runners, NEW results \in Seq(LegResults),
               Settled(b, results, who)
        PROVE  BetInOrder(b)'
    <3>1. /\ bet'[b] = SettledBet(b, results)
          /\ settlement'[b] = NewSettlement(b, Aggregate(results))
          /\ author'[b] = who
          /\ ~HasSettlement(b)
          /\ Exists(b)
      BY <2>4 DEF Settled, WriteSettlement, BetIdFree, BookInv, BookTypes
    <3>2. HasSettlement(b)' /\ Exists(b)' /\ who # Nobody
      BY <2>4, <3>1, SettledRows, ProcessAssumption DEF BookInv, HasSettlement, Exists
    <3>3. \A i \in DOMAIN results : results[i] \in LegResults
      OBVIOUS
    <3>4. QED
      BY <2>1, <2>4, <3>1, <3>2, <3>3, SettledRows DEF BookInv, BetInOrder
  <2>5. CASE Placing
    <3>1. PICK c \in Bets, mode \in Modes, slip \in Slips, rec \in Recs \cup {NoRec} :
            Placed(c, mode, slip, rec)
      BY <2>5 DEF Placing
    <3>2. CASE b = c
      BY <2>3, <3>1, <3>2
    <3>3. CASE b # c
      BY <2>2, <3>1, <3>3 DEF Placed, BookInv, BookTypes
    <3>4. QED
      BY <3>2, <3>3
  <2>6. CASE Settling
    <3>1. PICK c \in Bets, who \in Apis \cup Runners, results \in Seq(LegResults) :
            Settled(c, results, who)
      BY <2>6 DEF Settling
    <3>2. CASE b = c
      BY <2>4, <3>1, <3>2
    <3>3. CASE b # c
      BY <2>2, <3>1, <3>3 DEF Settled, WriteSettlement, BookInv, BookTypes
    <3>4. QED
      BY <3>2, <3>3
  <2>7. QED
    BY <2>2, <2>5, <2>6 DEF BookStep
<1>3. QED
  BY <1>1, <1>2 DEF BookInv

-----------------------------------------------------------------------------
(* The processes.                                                          *)

\* What a request has read of a bet, or checked of a slip, still holds.
ApiInv ==
  \A a \in Apis :
    /\ api[a].phase = "registering" => DOMAIN api[a].slip.legs # {}
    /\ api[a].phase = "settling" =>
         /\ Exists(api[a].bet)
         /\ DOMAIN api[a].results = DOMAIN bet[api[a].bet].legs

\* What a run has read of the first bet of its queue.
ReadingStands(r) ==
  LET b == Current(r)
  IN /\ DOMAIN run[r].results = DOMAIN bet[b].legs
     /\ \A i \in DOMAIN run[r].results :
          run[r].results[i] # "unresolved" => run[r].results[i] = LegResult(bet[b].legs[i])
     /\ run[r].settled => HasSettlement(b)

RunInv ==
  \A r \in Runners :
    /\ run[r].phase # "idle" =>
         /\ run[r].queue # {}
         /\ \A b \in run[r].queue : bet[b].mode = "trial" /\ author[b] # r
    /\ run[r].phase = "deciding" => ReadingStands(r)

IInv ==
  /\ TypeOK
  /\ BookInv
  /\ ApiInv
  /\ RunInv
  /\ SettledOnStandingResults
  /\ OutcomesAreTrue

LEMMA CurrentInQueue ==
  ASSUME TypeOK, RunInv, NEW r \in Runners, run[r].phase # "idle"
  PROVE  /\ Current(r) \in run[r].queue
         /\ Current(r) \in Bets
         /\ Exists(Current(r))
<1>1. run[r].queue \in SUBSET Bets /\ run[r].queue # {}
  BY DEF TypeOK, RunInv, RunState
<1>2. Current(r) \in run[r].queue
  BY <1>1, FirstInQueue DEF Current
<1>3. QED
  BY <1>1, <1>2 DEF RunInv, Exists

\* Every action changes the book in one of its two ways, or not at all.
LEMMA SettleDueSettles ==
  ASSUME IInv, NEW r \in Runners, SettleDue(r)
  PROVE  /\ Current(r) \in run[r].queue
         /\ Current(r) \in Bets
         /\ run[r].results \in Seq(LegResults)
         /\ Settled(Current(r), run[r].results, r)
<1>1. run[r].phase = "deciding" /\ AllResolved(r)
  BY DEF SettleDue, Conclude
<1>2. Current(r) \in run[r].queue /\ Current(r) \in Bets /\ Exists(Current(r))
  BY <1>1, CurrentInQueue DEF IInv
<1>3. DOMAIN run[r].results = DOMAIN bet[Current(r)].legs
  BY <1>1 DEF IInv, RunInv, ReadingStands
<1>4. run[r].results \in Seq(LegResults \cup {"unresolved"})
  BY DEF IInv, TypeOK, RunState
<1>5. \A i \in DOMAIN run[r].results : run[r].results[i] \in LegResults
  BY <1>1, <1>4 DEF AllResolved
<1>6. run[r].results \in Seq(LegResults)
  BY <1>4, <1>5
<1>7. QED
  BY <1>2, <1>3, <1>6 DEF Settled, SettleDue

LEMMA SettleSettles ==
  ASSUME IInv, NEW a \in Apis, Settle(a)
  PROVE  /\ api[a].bet \in Bets
         /\ api[a].results \in Seq(LegResults)
         /\ Settled(api[a].bet, api[a].results, a)
<1>1. api[a] \in ApiState /\ api[a].phase = "settling"
  BY DEF IInv, TypeOK, Settle
<1>2. api[a].bet \in Bets /\ api[a].results \in Seq(LegResults)
  BY <1>1 DEF ApiState
<1>3. QED
  BY <1>1, <1>2 DEF Settled, Settle, IInv, ApiInv

LEMMA RegisterPlaces ==
  ASSUME IInv, NEW a \in Apis, Register(a)
  PROVE  /\ api[a].mode \in Modes /\ api[a].slip \in Slips /\ api[a].rec \in Recs \cup {NoRec}
         /\ \E b \in Bets : Placed(b, api[a].mode, api[a].slip, api[a].rec)
<1>1. api[a] \in ApiState /\ api[a].phase = "registering"
  BY DEF IInv, TypeOK, Register
<1>2. api[a].mode \in Modes /\ api[a].slip \in Slips /\ api[a].rec \in Recs \cup {NoRec}
  BY <1>1 DEF ApiState
<1>3. DOMAIN api[a].slip.legs # {}
  BY <1>1 DEF IInv, ApiInv
<1>4. QED
  BY <1>2, <1>3 DEF Register, Placed

LEMMA NextIsBookStep ==
  ASSUME IInv, [Next]_vars
  PROVE  BookStep
<1>1. CASE UNCHANGED vars
  BY <1>1 DEF vars, BookStep
<1>2. CASE EventMoves
  BY <1>2 DEF EventMoves, bookVars, BookStep
<1>3. ASSUME NEW a \in Apis, ApiNext(a) PROVE BookStep
  <2>1. CASE Register(a)
    BY <2>1, RegisterPlaces DEF BookStep, Placing
  <2>2. CASE Settle(a)
    BY <2>2, SettleSettles DEF BookStep, Settling
  <2>3. CASE BeginRegister(a) \/ RegisterConflict(a) \/ BeginSettle(a) \/ RefuseSettle(a)
             \/ SettleRaced(a) \/ ApiFails(a)
    BY <2>3 DEF BeginRegister, RegisterConflict, BeginSettle, RefuseSettle, SettleRaced,
                ApiFails, bookVars, BookStep
  <2>4. QED
    BY <1>3, <2>1, <2>2, <2>3 DEF ApiNext
<1>4. ASSUME NEW r \in Runners, RunnerNext(r) PROVE BookStep
  <2>1. CASE SettleDue(r)
    BY <2>1, SettleDueSettles DEF BookStep, Settling
  <2>2. CASE ListDue(r) \/ ReadNext(r) \/ LeaveUnresolved(r) \/ LoseRace(r) \/ FailBet(r) \/ Die(r)
    BY <2>2 DEF ListDue, ReadNext, LeaveUnresolved, LoseRace, FailBet, Die, bookVars, BookStep
  <2>3. QED
    BY <1>4, <2>1, <2>2 DEF RunnerNext, Decide
<1>5. QED
  BY <1>1, <1>2, <1>3, <1>4 DEF Next

\* Events move as EventLife says, so the result of a leg, once known, stays.
LEMMA EventTable ==
  ASSUME IInv, [Next]_vars
  PROVE  /\ event' \in [Events -> ConsistentRow]
         /\ \A e \in Events : Terminal(event[e]) => event'[e] = event[e]
<1>1. CASE UNCHANGED event
  BY <1>1 DEF IInv, TypeOK
<1>2. CASE Life!Next
  <2>1. PICK e \in Events, row \in Life!ConsistentRow : Life!Advance(e, row)
    BY <1>2 DEF Life!Next
  <2>2. row \in ConsistentRow
    BY <2>1 DEF Life!ConsistentRow, ConsistentRow, Life!EventRow, EventRow, Life!Consistent,
                Consistent, Life!Statuses, Statuses, Life!Results, Results
  <2>3. ~Terminal(event[e])
    BY <2>1 DEF Life!Advance, Life!AllowedTransitions, Terminal
  <2>4. QED
    BY <2>1, <2>2, <2>3 DEF Life!Advance, IInv, TypeOK
<1>3. UNCHANGED event \/ Life!Next
  BY DEF Next, vars, EventMoves, ApiNext, RunnerNext, Decide, BeginRegister, Register,
         RegisterConflict, BeginSettle, RefuseSettle, Settle, SettleRaced, ApiFails, ListDue,
         ReadNext, LeaveUnresolved, SettleDue, LoseRace, FailBet, Die, Conclude
<1>4. QED
  BY <1>1, <1>2, <1>3

LEMMA LegResultStays ==
  ASSUME IInv, [Next]_vars, NEW leg \in Leg, LegResult(leg) # "unresolved"
  PROVE  LegResult(leg)' = LegResult(leg)
<1>1. leg.event \in Events
  BY DEF Leg
<1>2. event'[leg.event] = event[leg.event]
  BY <1>1, EventTable, ResultNeedsFinalEvent
<1>3. QED
  BY <1>2 DEF LegResult

-----------------------------------------------------------------------------
(* Types of the rest of the state.                                         *)

LEMMA BetRows ==
  ASSUME IInv, NEW b \in Bets, Exists(b)
  PROVE  /\ bet[b] \in BetRow
         /\ bet[b].legs \in Seq(Leg)
         /\ bet[b].stake \in Int /\ bet[b].odds \in Int
<1>1. bet[b] \in BetRow
  BY NoBetIsAbsent DEF IInv, BookInv, BookTypes, Exists
<1>2. QED
  BY <1>1 DEF BetRow

LEMMA MovementType ==
  ASSUME TypeOK, NEW mode, NEW b \in Bets, NEW reason \in {"bet_placed", "bet_won", "bet_void"},
         NEW amount \in Int, NEW seen \in Nat
  PROVE  Movement(mode, b, reason, amount, seen) \in Seq(Entry)
<1>1. [bet |-> b, reason |-> reason, amount |-> amount, seen |-> seen] \in Entry
  BY DEF Entry
<1>2. QED
  BY <1>1 DEF Movement, TypeOK

LEMMA PayoutIsAmount ==
  ASSUME IInv, NEW b \in Bets, Exists(b), NEW status \in {"won", "void"}
  PROVE  Payout(b, status) \in Int
  BY BetRows DEF Payout

LEMMA LedgerType ==
  ASSUME IInv, [Next]_vars
  PROVE  ledger' \in Seq(Entry)
<1>1. TypeOK
  BY DEF IInv
<1>2. ASSUME NEW a \in Apis, Register(a) PROVE ledger' \in Seq(Entry)
  <2>1. PICK b \in Bets :
          ledger' = Movement(api[a].mode, b, "bet_placed", -api[a].slip.stake, api[a].seen)
    BY <1>2 DEF Register
  <2>2. api[a].slip \in Slips /\ api[a].seen \in Nat
    BY <1>1, <1>2 DEF TypeOK, ApiState, Register
  <2>3. -api[a].slip.stake \in Int
    BY <2>2, SlipAssumption DEF Slip
  <2>4. QED
    BY <1>1, <2>1, <2>2, <2>3, MovementType
<1>3. ASSUME NEW a \in Apis, Settle(a) PROVE ledger' \in Seq(Entry)
  <2> DEFINE status == Aggregate(api[a].results)
             b == api[a].bet
  <2>1. b \in Bets /\ Exists(b)
    BY <1>3, SettleSettles DEF Settled
  <2>2. api[a].seen \in Nat
    BY <1>1, <1>3 DEF TypeOK, ApiState, Settle
  <2>3. ledger' = PayoutLedger(b, status, api[a].seen)
    BY <1>3 DEF Settle
  <2> HIDE DEF status, b
  <2>4. CASE status \in {"won", "void"}
    <3>1. Payout(b, status) \in Int
      BY <2>1, <2>4, PayoutIsAmount
    <3>2. PayoutReason[status] \in {"bet_placed", "bet_won", "bet_void"}
      BY <2>4 DEF PayoutReason
    <3>3. ledger' = Movement(bet[b].mode, b, PayoutReason[status], Payout(b, status), api[a].seen)
      BY <2>3, <2>4 DEF PayoutLedger
    <3>4. QED
      BY <1>1, <2>1, <2>2, <3>1, <3>2, <3>3, MovementType
  <2>5. CASE status \notin {"won", "void"}
    BY <1>1, <2>3, <2>5 DEF PayoutLedger, TypeOK
  <2>6. QED
    BY <2>4, <2>5
<1>4. ASSUME UNCHANGED ledger PROVE ledger' \in Seq(Entry)
  BY <1>1, <1>4 DEF TypeOK
<1>5. \/ UNCHANGED ledger
      \/ \E a \in Apis : Register(a) \/ Settle(a)
  BY DEF Next, vars, bookVars, EventMoves, ApiNext, RunnerNext, Decide, BeginRegister,
         RegisterConflict, BeginSettle, RefuseSettle, SettleRaced, ApiFails, ListDue,
         ReadNext, LeaveUnresolved, SettleDue, LoseRace, FailBet, Die
<1>6. QED
  BY <1>2, <1>3, <1>4, <1>5

\* A request thread changes its own state only, and no runner's.
ApiStep(a) ==
  /\ UNCHANGED <<run, outcome>>
  /\ \E state \in ApiState : api' = [api EXCEPT ![a] = state]

LEMMA IdleType ==
  ASSUME NEW reply \in Replies
  PROVE  Idle(reply) \in ApiState
  BY DEF Idle, ApiState

LEMMA ApiStepType ==
  ASSUME IInv, NEW a \in Apis, ApiNext(a)
  PROVE  ApiStep(a)
<1>1. ASSUME NEW reply \in Replies, Answer(a, reply), UNCHANGED <<run, outcome>> PROVE ApiStep(a)
  BY <1>1, IdleType DEF ApiStep, Answer
<1>2. Len(ledger) \in Nat
  BY DEF IInv, TypeOK
<1>3. CASE BeginRegister(a)
  <2>1. PICK mode \in Modes, slip \in Slips, rec \in Recs \cup {NoRec} :
          \/ api' = [api EXCEPT ![a] = [phase |-> "registering", mode |-> mode, slip |-> slip,
                                        rec |-> rec, seen |-> Len(ledger)]]
          \/ Answer(a, "answered")
    BY <1>3 DEF BeginRegister
  <2>2. [phase |-> "registering", mode |-> mode, slip |-> slip,
         rec |-> rec, seen |-> Len(ledger)] \in ApiState
    BY <1>2 DEF ApiState
  <2>3. QED
    BY <1>1, <1>3, <2>1, <2>2 DEF BeginRegister, ApiStep, Replies
<1>4. CASE BeginSettle(a)
  <2>1. PICK b \in Bets :
          /\ Exists(b)
          /\ \E results \in [DOMAIN bet[b].legs -> LegResults] :
               api' = [api EXCEPT ![a] = [phase |-> "settling", bet |-> b, results |-> results,
                                          seen |-> Len(ledger)]]
    BY <1>4 DEF BeginSettle
  <2>2. PICK results \in [DOMAIN bet[b].legs -> LegResults] :
          api' = [api EXCEPT ![a] = [phase |-> "settling", bet |-> b, results |-> results,
                                     seen |-> Len(ledger)]]
    BY <2>1
  <2>3. bet[b].legs \in Seq(Leg)
    BY <2>1, BetRows
  <2>4. results \in Seq(LegResults)
    BY <2>3
  <2>5. [phase |-> "settling", bet |-> b, results |-> results, seen |-> Len(ledger)] \in ApiState
    BY <1>2, <2>4 DEF ApiState
  <2>6. QED
    BY <1>4, <2>2, <2>5 DEF BeginSettle, ApiStep
<1>5. CASE RefuseSettle(a)
  BY <1>1, <1>5 DEF RefuseSettle, Replies
<1>6. CASE Register(a) \/ RegisterConflict(a) \/ Settle(a) \/ SettleRaced(a) \/ ApiFails(a)
  BY <1>1, <1>6 DEF Register, RegisterConflict, Settle, SettleRaced, ApiFails, Replies
<1>7. QED
  BY <1>3, <1>4, <1>5, <1>6 DEF ApiNext

\* A run changes its own state only, and no request's.
RunStep(r) ==
  /\ UNCHANGED api
  /\ \E state \in RunState : run' = [run EXCEPT ![r] = state]
  /\ \E list \in [Bets -> Outcomes] : outcome' = [outcome EXCEPT ![r] = list]

LEMMA ReadingType ==
  ASSUME IInv, NEW queue \in SUBSET Bets, queue # {}, Exists(First(queue))
  PROVE  Reading(queue) \in RunState
<1>1. First(queue) \in Bets
  BY FirstInQueue
<1>2. bet[First(queue)].legs \in Seq(Leg)
  BY <1>1, BetRows
<1>3. Resolved(First(queue)) \in Seq(LegResults \cup {"unresolved"})
  BY <1>2, LegResultType DEF Resolved
<1>4. HasSettlement(First(queue)) \in BOOLEAN
  BY DEF HasSettlement
<1>5. QED
  BY <1>3, <1>4 DEF Reading, RunState

LEMMA RunStepType ==
  ASSUME IInv, NEW r \in Runners, RunnerNext(r)
  PROVE  RunStep(r)
<1>1. /\ TypeOK /\ RunInv
      /\ run[r] \in RunState /\ outcome[r] \in [Bets -> Outcomes]
      /\ outcome = [outcome EXCEPT ![r] = outcome[r]]
  BY DEF IInv, TypeOK
<1>2. RunIdle \in RunState
  <2>1. <<>> \in Seq(LegResults \cup {"unresolved"})
    OBVIOUS
  <2>2. QED
    BY <2>1 DEF RunIdle, RunState
<1>3. CASE ListDue(r)
  <2>1. DueBets # {} /\ DueBets \in SUBSET Bets
    BY <1>3 DEF ListDue, DueBets
  <2>2. Exists(First(DueBets))
    BY <2>1, FirstInQueue DEF DueBets, Exists
  <2>3. Reading(DueBets) \in RunState
    BY <2>1, <2>2, ReadingType
  <2>4. [b \in Bets |-> "none"] \in [Bets -> Outcomes]
    BY DEF Outcomes
  <2>5. QED
    BY <1>3, <2>3, <2>4 DEF ListDue, RunStep
<1>4. CASE ReadNext(r)
  <2>1. run[r].phase # "idle" /\ run[r].queue \in SUBSET Bets /\ run[r].queue # {}
    BY <1>1, <1>4 DEF ReadNext, RunState, RunInv
  <2>2. Exists(First(run[r].queue))
    BY <1>1, <2>1, CurrentInQueue DEF Current
  <2>3. Reading(run[r].queue) \in RunState
    BY <2>1, <2>2, ReadingType
  <2>4. QED
    BY <1>1, <1>4, <2>3 DEF ReadNext, RunStep
<1>5. CASE Decide(r)
  <2>1. PICK result \in Outcomes : Conclude(r, result)
    BY <1>5 DEF Decide, LeaveUnresolved, SettleDue, LoseRace, FailBet, Outcomes
  <2>2. Current(r) \in Bets
    BY <1>1, <2>1, CurrentInQueue DEF Conclude
  <2> DEFINE rest == run[r].queue \ {Current(r)}
             between == [phase |-> "between", queue |-> rest, results |-> <<>>, settled |-> FALSE]
  <2>3. between \in RunState
    <3>1. rest \in SUBSET Bets
      BY <1>1 DEF RunState
    <3>2. <<>> \in Seq(LegResults \cup {"unresolved"})
      OBVIOUS
    <3> HIDE DEF rest
    <3>3. QED
      BY <3>1, <3>2 DEF RunState
  <2>4. run' = [run EXCEPT ![r] = RunIdle] \/ run' = [run EXCEPT ![r] = between]
    BY <2>1 DEF Conclude
  <2>5. \E state \in RunState : run' = [run EXCEPT ![r] = state]
    BY <1>2, <2>3, <2>4
  <2>6. outcome' = [outcome EXCEPT ![r] = [outcome[r] EXCEPT ![Current(r)] = result]]
    BY <2>1 DEF Conclude
  <2>7. [outcome[r] EXCEPT ![Current(r)] = result] \in [Bets -> Outcomes]
    BY <1>1, <2>2
  <2>8. QED
    BY <2>1, <2>5, <2>6, <2>7 DEF RunStep, Conclude
<1>6. CASE Die(r)
  BY <1>1, <1>2, <1>6 DEF Die, RunStep
<1>7. QED
  BY <1>3, <1>4, <1>5, <1>6 DEF RunnerNext

\* Whose step it is.
LEMMA ProcessSteps ==
  ASSUME IInv, [Next]_vars
  PROVE  \/ UNCHANGED <<api, run, outcome>>
         \/ \E a \in Apis : ApiNext(a) /\ ApiStep(a)
         \/ \E r \in Runners : RunnerNext(r) /\ RunStep(r)
<1>1. CASE UNCHANGED vars \/ EventMoves
  BY <1>1 DEF vars, EventMoves
<1>2. CASE \E a \in Apis : ApiNext(a)
  BY <1>2, ApiStepType
<1>3. CASE \E r \in Runners : RunnerNext(r)
  BY <1>3, RunStepType
<1>4. QED
  BY <1>1, <1>2, <1>3 DEF Next

LEMMA NextTypeOK ==
  ASSUME IInv, [Next]_vars
  PROVE  TypeOK'
<1>1. BookTypes'
  BY NextIsBookStep, BookStepTypes DEF IInv
<1>2. event' \in [Events -> ConsistentRow] /\ ledger' \in Seq(Entry)
  BY EventTable, LedgerType
<1>3. /\ api' \in [Apis -> ApiState]
      /\ run' \in [Runners -> RunState]
      /\ outcome' \in [Runners -> [Bets -> Outcomes]]
  BY ProcessSteps DEF IInv, TypeOK, ApiStep, RunStep
<1>4. QED
  BY <1>1, <1>2, <1>3 DEF TypeOK, BookTypes

-----------------------------------------------------------------------------
(* What was read still holds.                                              *)

LEMMA NextApiInv ==
  ASSUME IInv, [Next]_vars
  PROVE  ApiInv'
<1> SUFFICES ASSUME NEW a \in Apis
             PROVE  /\ api'[a].phase = "registering" => DOMAIN api'[a].slip.legs # {}
                    /\ api'[a].phase = "settling" =>
                         /\ bet'[api'[a].bet].mode # "none"
                         /\ DOMAIN api'[a].results = DOMAIN bet'[api'[a].bet].legs
  BY DEF ApiInv, Exists
<1>1. \A b \in Bets : Exists(b) => bet'[b].mode # "none" /\ bet'[b].legs = bet[b].legs
  BY NextIsBookStep, BookGrows DEF IInv, Exists
<1>2. CASE api'[a] = api[a]
  <2>1. api[a].phase = "settling" => api[a].bet \in Bets
    BY DEF IInv, TypeOK, ApiState
  <2>2. QED
    BY <1>1, <1>2, <2>1 DEF IInv, ApiInv, Exists
<1>3. CASE api'[a].phase = "idle"
  BY <1>3
<1>4. CASE BeginRegister(a)
  <2>1. \/ api'[a].phase = "idle"
        \/ \E slip \in Slips : ValidLegs(slip) /\ api'[a].phase = "registering" /\ api'[a].slip = slip
    BY <1>4 DEF BeginRegister, Answer, Idle, IInv, TypeOK
  <2>2. ASSUME NEW slip \in Slips, ValidLegs(slip) PROVE DOMAIN slip.legs # {}
    <3>1. slip \in Slip
      BY SlipAssumption
    <3>2. slip.legs \in Seq(Leg)
      BY <3>1 DEF Slip
    <3>3. Len(slip.legs) \in 1..3
      BY <2>2, <3>2 DEF ValidLegs
    <3>4. DOMAIN slip.legs = 1..Len(slip.legs)
      BY <3>2
    <3> QED
      BY <3>3, <3>4
  <2>3. QED
    BY <2>1, <2>2
<1>5. CASE BeginSettle(a)
  <2>1. PICK b \in Bets :
          /\ Exists(b)
          /\ \E results \in [DOMAIN bet[b].legs -> LegResults] :
               api' = [api EXCEPT ![a] = [phase |-> "settling", bet |-> b, results |-> results,
                                          seen |-> Len(ledger)]]
    BY <1>5 DEF BeginSettle
  <2>2. api'[a].phase = "settling" /\ api'[a].bet = b /\ DOMAIN api'[a].results = DOMAIN bet[b].legs
    BY <2>1 DEF IInv, TypeOK
  <2>3. QED
    BY <1>1, <2>1, <2>2 DEF Exists
<1>6. CASE ApiNext(a) /\ ~BeginRegister(a) /\ ~BeginSettle(a)
  BY <1>3, <1>6 DEF ApiNext, RefuseSettle, Register, RegisterConflict, Settle, SettleRaced,
                    ApiFails, Answer, Idle, IInv, TypeOK
<1>7. api'[a] = api[a] \/ ApiNext(a)
  BY ProcessSteps DEF IInv, TypeOK, ApiStep, RunStep
<1>8. QED
  BY <1>2, <1>4, <1>5, <1>6, <1>7

\* The author of a settlement is the process that takes the step.
LEMMA NewAuthor ==
  ASSUME IInv, [Next]_vars, NEW b \in Bets, author'[b] # author[b]
  PROVE  \/ \E a \in Apis : author'[b] = a
         \/ \E r \in Runners :
              /\ SettleDue(r) /\ b = Current(r) /\ author'[b] = r
              /\ bet'[b].results = run[r].results
<1>1. ~UNCHANGED author
  OBVIOUS
<1>2. \/ \E a \in Apis : Settle(a)
      \/ \E r \in Runners : SettleDue(r)
  BY <1>1 DEF Next, vars, bookVars, EventMoves, ApiNext, RunnerNext, Decide, BeginRegister,
              Register, RegisterConflict, BeginSettle, RefuseSettle, SettleRaced, ApiFails,
              ListDue, ReadNext, LeaveUnresolved, LoseRace, FailBet, Die
<1>3. ASSUME NEW a \in Apis, Settle(a) PROVE author'[b] = a
  BY <1>3 DEF Settle, WriteSettlement, IInv, TypeOK
<1>4. ASSUME NEW r \in Runners, SettleDue(r)
      PROVE  b = Current(r) /\ author'[b] = r /\ bet'[b].results = run[r].results
  <2>1. /\ author' = [author EXCEPT ![Current(r)] = r]
        /\ bet' = [bet EXCEPT ![Current(r)] = SettledBet(Current(r), run[r].results)]
    BY <1>4 DEF SettleDue, WriteSettlement
  <2>2. b = Current(r)
    BY <2>1 DEF IInv, TypeOK
  <2>3. SettledBet(Current(r), run[r].results).results = run[r].results
    BY <1>4, SettleDueSettles, SettledRows DEF IInv, BookInv
  <2>4. QED
    BY <2>1, <2>2, <2>3 DEF IInv, TypeOK
<1>5. QED
  BY <1>2, <1>3, <1>4

LEMMA ResolvedStays ==
  ASSUME IInv, [Next]_vars, NEW b \in Bets, Exists(b), NEW i \in DOMAIN bet[b].legs,
         LegResult(bet[b].legs[i]) # "unresolved"
  PROVE  LegResult(bet[b].legs[i])' = LegResult(bet[b].legs[i])
<1>1. bet'[b].legs = bet[b].legs
  BY NextIsBookStep, BookGrows DEF IInv
<1>2. bet[b].legs[i] \in Leg
  BY BetRows
<1>3. PICK leg \in Leg : leg = bet[b].legs[i]
  BY <1>2
<1>4. LegResult(leg)' = LegResult(leg)
  BY <1>3, LegResultStays
<1>5. QED
  BY <1>1, <1>3, <1>4

\* The queue a runner leaves behind a step, and what it is reading then.
LEMMA QueueKept ==
  ASSUME IInv, NEW r \in Runners, RunnerNext(r), ~ListDue(r), run'[r].phase # "idle"
  PROVE  /\ run[r].phase # "idle"
         /\ run'[r].queue # {}
         /\ run'[r].queue \subseteq run[r].queue
         /\ SettleDue(r) => Current(r) \notin run'[r].queue
<1>1. run \in [Runners -> RunState] /\ TypeOK /\ RunInv
  BY DEF IInv, TypeOK
<1>2. CASE ReadNext(r)
  BY <1>1, <1>2 DEF ReadNext, Reading, RunInv, SettleDue, Conclude
<1>3. CASE Decide(r)
  <2>1. PICK result : Conclude(r, result)
    BY <1>3 DEF Decide, LeaveUnresolved, SettleDue, LoseRace, FailBet
  <2>2. /\ run[r].phase # "idle"
        /\ run'[r].queue = run[r].queue \ {Current(r)}
        /\ run'[r].queue # {}
    BY <1>1, <2>1 DEF Conclude, RunIdle
  <2>3. QED
    BY <2>2
<1>4. CASE Die(r)
  BY <1>1, <1>4 DEF Die, RunIdle
<1>5. QED
  BY <1>2, <1>3, <1>4 DEF RunnerNext

LEMMA FreshReading ==
  ASSUME IInv, [Next]_vars, NEW r \in Runners, ListDue(r) \/ ReadNext(r)
  PROVE  ReadingStands(r)'
<1>1. PICK queue \in SUBSET Bets :
        queue # {} /\ run' = [run EXCEPT ![r] = Reading(queue)]
  BY DEF ListDue, ReadNext, DueBets, IInv, TypeOK, RunInv, RunState
<1>2. /\ run'[r].queue = queue
      /\ run'[r].results = Resolved(First(queue))
      /\ run'[r].settled = HasSettlement(First(queue))
  BY <1>1 DEF Reading, IInv, TypeOK
<1>3. Current(r)' = First(queue)
  BY <1>2 DEF Current, First
<1>4. UNCHANGED <<event, bet, settlement>>
  BY DEF ListDue, ReadNext, bookVars
<1>5. PICK b \in Bets : b = First(queue)
  BY <1>1, FirstInQueue
<1>6. \A i \in DOMAIN bet[b].legs : LegResult(bet[b].legs[i])' = LegResult(bet[b].legs[i])
  BY <1>4 DEF LegResult
<1>7. QED
  BY <1>2, <1>3, <1>4, <1>5, <1>6 DEF ReadingStands, Resolved, HasSettlement

LEMMA OldReading ==
  ASSUME IInv, [Next]_vars, NEW r \in Runners, run[r].phase = "deciding", run'[r] = run[r]
  PROVE  ReadingStands(r)'
<1>1. ReadingStands(r) /\ Current(r) \in Bets /\ Exists(Current(r))
  BY CurrentInQueue DEF IInv, RunInv
<1>2. Current(r)' = Current(r)
  BY DEF Current, First
<1>3. PICK b \in Bets : b = Current(r)
  BY <1>1
<1>4. bet'[b].legs = bet[b].legs /\ (HasSettlement(b) => HasSettlement(b)')
  BY <1>1, <1>3, NextIsBookStep, BookGrows DEF IInv
<1>5. \A i \in DOMAIN run[r].results :
        run[r].results[i] # "unresolved" => run[r].results[i] = LegResult(bet[b].legs[i])'
  BY <1>1, <1>3, ResolvedStays DEF ReadingStands
<1>6. QED
  BY <1>1, <1>2, <1>3, <1>4, <1>5 DEF ReadingStands

LEMMA NextRunInv ==
  ASSUME IInv, [Next]_vars
  PROVE  RunInv'
<1> SUFFICES ASSUME NEW r \in Runners
             PROVE  /\ run'[r].phase # "idle" =>
                         /\ run'[r].queue # {}
                         /\ \A b \in run'[r].queue : bet'[b].mode = "trial" /\ author'[b] # r
                    /\ run'[r].phase = "deciding" => ReadingStands(r)'
  BY DEF RunInv
<1>1. run \in [Runners -> RunState]
  BY DEF IInv, TypeOK
<1>2. \/ run'[r] = run[r] /\ ~SettleDue(r)
      \/ RunnerNext(r)
  <2>1. run'[r] = run[r] \/ RunnerNext(r)
    BY <1>1, ProcessSteps DEF ApiStep, RunStep
  <2>2. QED
    BY <2>1 DEF RunnerNext, Decide
<1>3. ASSUME NEW b \in Bets, bet[b].mode = "trial", author[b] # r, b \in run[r].queue,
             SettleDue(r) => b # Current(r)
      PROVE  bet'[b].mode = "trial" /\ author'[b] # r
  <2>1. Exists(b)
    BY <1>3 DEF Exists
  <2>2. bet'[b].mode = "trial"
    BY <1>3, <2>1, NextIsBookStep, BookGrows DEF IInv
  <2>3. author'[b] # r
    <3>1. CASE author'[b] = author[b]
      BY <1>3, <3>1
    <3>2. CASE \E a \in Apis : author'[b] = a
      BY <3>2, ProcessAssumption
    <3>3. ASSUME NEW q \in Runners, SettleDue(q), b = Current(q), author'[b] = q
          PROVE  author'[b] # r
      BY <1>3, <3>3
    <3>4. QED
      BY <3>1, <3>2, <3>3, NewAuthor
  <2>4. QED
    BY <2>2, <2>3
<1>4. CASE run'[r] = run[r] /\ ~SettleDue(r)
  <2>1. run[r].queue \in SUBSET Bets
    BY <1>1 DEF RunState
  <2>2. ASSUME run[r].phase # "idle"
        PROVE  /\ run[r].queue # {}
               /\ \A b \in run[r].queue : bet'[b].mode = "trial" /\ author'[b] # r
    BY <1>3, <1>4, <2>1, <2>2 DEF IInv, RunInv
  <2>3. QED
    BY <1>4, <2>2, OldReading
<1>5. CASE ListDue(r)
  <2>1. run'[r].queue = DueBets /\ DueBets # {} /\ UNCHANGED <<bet, author>>
    BY <1>1, <1>5 DEF ListDue, Reading, bookVars
  <2>2. \A b \in DueBets : bet[b].mode = "trial" /\ author[b] = Nobody
    BY DEF DueBets, IInv, BookInv, BetInOrder
  <2>3. QED
    BY <1>5, <2>1, <2>2, FreshReading, ProcessAssumption
<1>6. CASE RunnerNext(r) /\ ~ListDue(r)
  <2>1. ASSUME run'[r].phase # "idle"
        PROVE  /\ run'[r].queue # {}
               /\ \A b \in run'[r].queue : bet'[b].mode = "trial" /\ author'[b] # r
    <3>1. /\ run[r].phase # "idle"
          /\ run'[r].queue # {}
          /\ run'[r].queue \subseteq run[r].queue
          /\ SettleDue(r) => Current(r) \notin run'[r].queue
      BY <1>6, <2>1, QueueKept
    <3>2. run[r].queue \in SUBSET Bets
      BY <1>1 DEF RunState
    <3>3. \A b \in run[r].queue : bet[b].mode = "trial" /\ author[b] # r
      BY <3>1 DEF IInv, RunInv
    <3>4. QED
      BY <1>3, <3>1, <3>2, <3>3
  <2>2. ASSUME run'[r].phase = "deciding" PROVE ReadingStands(r)'
    <3>1. ReadNext(r)
      BY <1>1, <1>6, <2>2 DEF RunnerNext, Decide, LeaveUnresolved, SettleDue, LoseRace, FailBet,
                              Conclude, Die, RunIdle
    <3>2. QED
      BY <3>1, FreshReading
  <2>3. QED
    BY <2>1, <2>2
<1>7. QED
  BY <1>2, <1>4, <1>5, <1>6

-----------------------------------------------------------------------------
(* What is written is true, and stays true.                                *)

\* A bet settled by a runner has a result for each leg, that of its event.
LEMMA StandingResultsStay ==
  ASSUME IInv, [Next]_vars, NEW b \in Bets, author[b] \in Runners
  PROVE  /\ bet'[b].mode = "trial"
         /\ bet'[b].results = Resolved(b)'
<1>1. HasSettlement(b) /\ Exists(b)
  BY ProcessAssumption DEF IInv, BookInv, BetInOrder
<1>2. bet'[b] = bet[b]
  BY <1>1, NextIsBookStep, BookGrows DEF IInv
<1>3. bet[b].mode = "trial" /\ bet[b].results = Resolved(b)
  BY DEF IInv, SettledOnStandingResults
<1>4. \A i \in DOMAIN bet[b].legs : LegResult(bet[b].legs[i]) # "unresolved"
  BY <1>1, <1>3 DEF IInv, BookInv, BetInOrder, Resolved, LegResults
<1>5. \A i \in DOMAIN bet[b].legs : LegResult(bet[b].legs[i])' = LegResult(bet[b].legs[i])
  BY <1>1, <1>4, ResolvedStays
<1>6. Resolved(b)' = Resolved(b)
  BY <1>2, <1>5 DEF Resolved
<1>7. QED
  BY <1>2, <1>3, <1>6

\* settle_due writes what it read, and it still is what the events say.
LEMMA NewResultsStand ==
  ASSUME IInv, [Next]_vars, NEW r \in Runners, SettleDue(r),
         NEW b \in Bets, b = Current(r), bet'[b].results = run[r].results
  PROVE  /\ bet'[b].mode = "trial"
         /\ bet'[b].results = Resolved(b)'
<1>1. run[r].phase = "deciding" /\ AllResolved(r)
  BY DEF SettleDue, Conclude
<1>2. ReadingStands(r) /\ b \in run[r].queue /\ Exists(b) /\ bet[b].mode = "trial"
  BY <1>1, CurrentInQueue DEF IInv, RunInv
<1>3. bet'[b].mode = "trial" /\ bet'[b].legs = bet[b].legs
  BY <1>2, NextIsBookStep, BookGrows DEF IInv
<1>4. /\ DOMAIN run[r].results = DOMAIN bet[b].legs
      /\ \A i \in DOMAIN bet[b].legs :
           /\ LegResult(bet[b].legs[i]) # "unresolved"
           /\ run[r].results[i] = LegResult(bet[b].legs[i])
  BY <1>1, <1>2 DEF ReadingStands, AllResolved
<1>5. \A i \in DOMAIN bet[b].legs : run[r].results[i] = LegResult(bet[b].legs[i])'
  BY <1>2, <1>4, ResolvedStays
<1>6. run[r].results \in Seq(LegResults)
  BY SettleDueSettles
<1>7. run[r].results = [i \in DOMAIN run[r].results |-> run[r].results[i]]
  BY <1>6
<1>8. Resolved(b)' = [i \in DOMAIN bet[b].legs |-> run[r].results[i]]
  BY <1>3, <1>5 DEF Resolved
<1>9. QED
  BY <1>3, <1>4, <1>7, <1>8

LEMMA NextStandingResults ==
  ASSUME IInv, [Next]_vars
  PROVE  SettledOnStandingResults'
<1> SUFFICES ASSUME NEW b \in Bets, author'[b] \in Runners
             PROVE  bet'[b].mode = "trial" /\ bet'[b].results = Resolved(b)'
  BY DEF SettledOnStandingResults
<1>1. CASE author'[b] = author[b]
  BY <1>1, StandingResultsStay
<1>2. CASE author'[b] # author[b]
  <2>1. PICK r \in Runners : SettleDue(r) /\ b = Current(r) /\ bet'[b].results = run[r].results
    BY <1>2, NewAuthor, ProcessAssumption
  <2>2. QED
    BY <2>1, NewResultsStand
<1>3. QED
  BY <1>1, <1>2

\* A runner reports what it has just done or found.
LEMMA NewOutcome ==
  ASSUME IInv, NEW r \in Runners, NEW result, Conclude(r, result), NEW b \in Bets
  PROVE  outcome'[r][b] = IF b = Current(r) THEN result ELSE outcome[r][b]
<1>1. outcome[r] \in [Bets -> Outcomes] /\ outcome \in [Runners -> [Bets -> Outcomes]]
  BY DEF IInv, TypeOK
<1>2. QED
  BY <1>1 DEF Conclude

LEMMA NextOutcomes ==
  ASSUME IInv, [Next]_vars
  PROVE  OutcomesAreTrue'
<1> SUFFICES ASSUME NEW r \in Runners, NEW b \in Bets
             PROVE  /\ outcome'[r][b] = "settled" => author'[b] = r
                    /\ outcome'[r][b] = "already_settled" =>
                         HasSettlement(b)' /\ author'[b] # r
  BY DEF OutcomesAreTrue
<1>1. /\ outcome[r][b] = "settled" => author[b] = r
      /\ outcome[r][b] = "already_settled" => HasSettlement(b) /\ author[b] # r
  BY DEF IInv, OutcomesAreTrue
<1>2. HasSettlement(b) => HasSettlement(b)' /\ author'[b] = author[b]
  BY NextIsBookStep, BookGrows DEF IInv
<1>3. author[b] = r => HasSettlement(b)
  BY ProcessAssumption DEF IInv, BookInv, BetInOrder
<1>4. CASE outcome'[r][b] = outcome[r][b]
  BY <1>1, <1>2, <1>3, <1>4
<1>5. CASE ListDue(r)
  BY <1>5 DEF ListDue, IInv, TypeOK
<1>6. CASE SettleDue(r)
  <2>1. outcome'[r][b] = IF b = Current(r) THEN "settled" ELSE outcome[r][b]
    BY <1>6, NewOutcome DEF SettleDue
  <2>2. author' = [author EXCEPT ![Current(r)] = r]
    BY <1>6 DEF SettleDue, WriteSettlement
  <2>3. QED
    BY <1>4, <2>1, <2>2 DEF IInv, TypeOK
<1>7. CASE LoseRace(r)
  <2>1. outcome'[r][b] = IF b = Current(r) THEN "already_settled" ELSE outcome[r][b]
    BY <1>7, NewOutcome DEF LoseRace
  <2>2. run[r].phase = "deciding" /\ (run[r].settled \/ HasSettlement(Current(r)))
    BY <1>7 DEF LoseRace, Conclude, BetIdFree
  <2>3. HasSettlement(Current(r)) /\ author[Current(r)] # r
    BY <2>2, CurrentInQueue DEF IInv, RunInv, ReadingStands
  <2>4. QED
    BY <1>2, <1>4, <2>1, <2>3
<1>8. CASE LeaveUnresolved(r) \/ FailBet(r)
  <2>1. outcome'[r][b] \in {"unresolved", "failed"} \/ outcome'[r][b] = outcome[r][b]
    BY <1>8, NewOutcome DEF LeaveUnresolved, FailBet
  <2>2. QED
    BY <1>4, <2>1
<1>9. CASE ReadNext(r) \/ Die(r)
  BY <1>4, <1>9 DEF ReadNext, Die
<1>10. outcome'[r] = outcome[r] \/ RunnerNext(r)
  BY ProcessSteps DEF ApiStep, RunStep, IInv, TypeOK
<1>11. QED
  BY <1>4, <1>5, <1>6, <1>7, <1>8, <1>9, <1>10 DEF RunnerNext, Decide

-----------------------------------------------------------------------------
(* The invariant and the theorems.                                         *)

LEMMA InitIInv ==
  ASSUME Init
  PROVE  IInv
<1>1. Life!ConsistentRow = ConsistentRow
  BY DEF Life!ConsistentRow, ConsistentRow, Life!EventRow, EventRow, Life!Consistent,
         Consistent, Life!Statuses, Statuses, Life!Results, Results
<1>2. event \in [Events -> ConsistentRow]
  BY <1>1 DEF Init, Life!Init
<1>3. BookTypes
  BY DEF Init, BookTypes, NoBet
<1>4. \A b \in Bets : BetInOrder(b)
  BY DEF Init, BetInOrder, NoBet, NoSettlement, Exists, HasSettlement
<1>5. ledger \in Seq(Entry)
  BY DEF Init
<1>6. api \in [Apis -> ApiState]
  BY IdleType DEF Init, Replies
<1>7. RunIdle \in RunState
  <2>1. <<>> \in Seq(LegResults \cup {"unresolved"})
    OBVIOUS
  <2>2. QED
    BY <2>1 DEF RunIdle, RunState
<1>8. run \in [Runners -> RunState] /\ outcome \in [Runners -> [Bets -> Outcomes]]
  BY <1>7 DEF Init, Outcomes
<1>9. ApiInv /\ RunInv
  BY DEF Init, ApiInv, RunInv, Idle, RunIdle
<1>10. SettledOnStandingResults /\ OutcomesAreTrue
  BY ProcessAssumption DEF Init, SettledOnStandingResults, OutcomesAreTrue
<1>11. QED
  BY <1>2, <1>3, <1>4, <1>5, <1>6, <1>8, <1>9, <1>10 DEF IInv, TypeOK, BookInv, BookTypes

LEMMA NextIInv ==
  ASSUME IInv, [Next]_vars
  PROVE  IInv'
<1>1. BookInv'
  BY NextIsBookStep, BookStepInv DEF IInv
<1>2. QED
  BY <1>1, NextTypeOK, NextApiInv, NextRunInv, NextStandingResults, NextOutcomes DEF IInv

LEMMA SpecIInv == Spec => []IInv
  BY InitIInv, NextIInv, PTL DEF Spec

\* Every variable keeps its type, whatever the requests and the runs do.
THEOREM SettlementTypes == Spec => []TypeOK
<1>1. IInv => TypeOK
  BY DEF IInv
<1>2. QED
  BY <1>1, SpecIInv, PTL

\* The status of a settlement (_aggregate_status) is that of the stored results
\* of the legs, whoever won the race to write them.
THEOREM SettlementsMatchTheirLegs == Spec => []SettlementMatchesLegs
<1>1. ASSUME IInv, NEW b \in Bets, NEW found,
             found = {bet[b].results[i] : i \in DOMAIN bet[b].results}
      PROVE  /\ settlement[b].status = "none" => found \subseteq {"pending"}
             /\ settlement[b].status # "none" => found # {} /\ "pending" \notin found
             /\ settlement[b].status = "lost" <=> "lost" \in found
             /\ settlement[b].status = "won" <=> found = {"won"}
             /\ settlement[b].status = "void" <=> found = {"void"}
             /\ settlement[b].status = "manual_review" <=> found = {"won", "void"}
  <2>1. BetInOrder(b) /\ DOMAIN bet[b].results = DOMAIN bet[b].legs
    BY <1>1 DEF IInv, BookInv, TypeOK
  <2>2. CASE HasSettlement(b)
    <3> DEFINE results == bet[b].results
    <3>1. DOMAIN results # {} /\ \A i \in DOMAIN results : results[i] \in LegResults
      BY <2>1, <2>2 DEF BetInOrder
    <3>2. settlement[b].status = Aggregate(results)
      BY <2>1, <2>2 DEF BetInOrder
    <3>3. found = {results[i] : i \in DOMAIN results}
      BY <1>1
    <3> HIDE DEF results
    <3>4. settlement[b].status # "none"
      BY <2>2 DEF HasSettlement
    <3>5. QED
      BY <3>1, <3>2, <3>3, <3>4, AggregateMeaning
  <2>3. CASE ~HasSettlement(b)
    <3>1. settlement[b].status = "none" /\ found \subseteq {"pending"}
      BY <1>1, <2>1, <2>3 DEF BetInOrder, HasSettlement
    <3>2. QED
      BY <3>1
  <2>4. QED
    BY <2>2, <2>3
<1>2. IInv => SettlementMatchesLegs
  BY <1>1 DEF SettlementMatchesLegs
<1>3. QED
  BY <1>2, SpecIInv, PTL

\* A bet is closed exactly when its settlement is final: a manual review neither
\* closes it nor lets settle_due take it again.
THEOREM ReviewLeavesTheBetOpen == Spec => []StatusFollowsSettlement
<1>1. ASSUME IInv, NEW b \in Bets
      PROVE  bet[b].status = "settled" <=> settlement[b].status \in FinalStatuses
  <2>1. BetInOrder(b)
    BY <1>1 DEF IInv, BookInv
  <2>2. QED
    BY <2>1 DEF BetInOrder, HasSettlement, FinalStatuses
<1>2. IInv => StatusFollowsSettlement
  BY <1>1 DEF StatusFollowsSettlement
<1>3. QED
  BY <1>2, SpecIInv, PTL

\* No step changes a settlement, a settled bet or its legs: UNIQUE(bet_id) makes
\* every later attempt fail as a whole.
THEOREM SettlementsAreFinal == Spec => SettlementIsFinal
<1>1. ASSUME IInv, [Next]_vars, NEW b \in Bets, HasSettlement(b)
      PROVE  settlement'[b] = settlement[b] /\ bet'[b] = bet[b] /\ author'[b] = author[b]
  BY <1>1, NextIsBookStep, BookGrows DEF IInv
<1>2. IInv /\ [Next]_vars =>
        [\A b \in Bets : HasSettlement(b) =>
           settlement'[b] = settlement[b] /\ bet'[b] = bet[b] /\ author'[b] = author[b]]_vars
  BY <1>1
<1>3. QED
  BY <1>2, SpecIInv, PTL DEF Spec, SettlementIsFinal

\* settle_due reads the events, then writes; what it wrote is still what the
\* events say, because ingestion never touches a final event.
THEOREM AutomaticResultsStand == Spec => []SettledOnStandingResults
<1>1. IInv => SettledOnStandingResults
  BY DEF IInv
<1>2. QED
  BY <1>1, SpecIInv, PTL

\* The lists of SettleDueResult tell who settled each bet.
THEOREM RunReportsAreTrue == Spec => []OutcomesAreTrue
<1>1. IInv => OutcomesAreTrue
  BY DEF IInv
<1>2. QED
  BY <1>1, SpecIInv, PTL

\* UNIQUE(recommendation_id), checked at the commit, keeps two concurrent
\* requests from betting twice on one recommendation.
THEOREM RecommendationsBetOnce == Spec => []OneBetPerRecommendation
<1>1. Init => OneBetPerRecommendation
  BY DEF Init, OneBetPerRecommendation, NoBet
<1>2. ASSUME IInv, OneBetPerRecommendation, [Next]_vars
      PROVE  OneBetPerRecommendation'
  <2>1. BookStep /\ BookInv
    BY <1>2, NextIsBookStep DEF IInv
  <2>2. CASE UNCHANGED <<bet, settlement, author>>
    BY <1>2, <2>2 DEF OneBetPerRecommendation
  <2>3. CASE Placing
    <3>1. PICK b \in Bets, mode \in Modes, slip \in Slips, rec \in Recs \cup {NoRec} :
            Placed(b, mode, slip, rec)
      BY <2>3 DEF Placing
    <3>2. bet' = [bet EXCEPT ![b] = NewBet(mode, slip, rec)]
      BY <3>1 DEF Placed
    <3>3. NewBet(mode, slip, rec).rec = rec
      BY DEF NewBet
    <3>4. \A c \in Bets : bet'[c].rec = IF c = b THEN rec ELSE bet[c].rec
      BY <2>1, <3>2, <3>3 DEF BookInv, BookTypes
    <3>5. rec = NoRec \/ \A c \in Bets : bet[c].rec # rec
      BY <3>1 DEF Placed, RecFree
    <3>6. QED
      BY <1>2, <3>4, <3>5 DEF OneBetPerRecommendation
  <2>4. CASE Settling
    <3>1. PICK b \in Bets, who \in Apis \cup Runners, results \in Seq(LegResults) :
            Settled(b, results, who)
      BY <2>4 DEF Settling
    <3>2. SettledBet(b, results).rec = bet[b].rec
      BY <2>1, <3>1, SettledRows DEF BookInv
    <3>3. \A c \in Bets : bet'[c].rec = bet[c].rec
      BY <2>1, <3>1, <3>2 DEF Settled, WriteSettlement, BookInv, BookTypes
    <3>4. QED
      BY <1>2, <3>3 DEF OneBetPerRecommendation
  <2>5. QED
    BY <2>1, <2>2, <2>3, <2>4 DEF BookStep
<1>3. QED
  BY <1>1, <1>2, SpecIInv, PTL DEF Spec

=============================================================================
