---------------------------- MODULE LedgerProofs ----------------------------
(***************************************************************************)
(* Proofs about the money of Settlement, for any number of bets, stakes,   *)
(* odds and movements: the ledger has exactly the movements the bets call  *)
(* for, and its sum is what the bets have earned.                          *)
(*                                                                         *)
(* A sum is a recursive function, and what it is worth is shown by looking *)
(* at the first place where it would be worth something else.              *)
(***************************************************************************)
EXTENDS SettlementProofs, FiniteSetTheorems

-----------------------------------------------------------------------------
(* Sums.                                                                   *)

IsSum(sum, amount, n) ==
  sum = [i \in 0..n |-> IF i = 0 THEN 0 ELSE sum[i - 1] + amount[i]]

LEMMA SumExists ==
  ASSUME NEW n \in Nat, NEW amount \in [1..n -> Int]
  PROVE  \E sum : IsSum(sum, amount, n)
<1> DEFINE Bad == {k \in 0..n : ~\E sum : IsSum(sum, amount, k)}
<1>1. Bad \subseteq Nat /\ (Bad = {} => \E sum : IsSum(sum, amount, n))
  <2>1. n \in 0..n
    OBVIOUS
  <2>2. Bad \subseteq Nat
    BY SMT
  <2>3. QED
    BY <2>1, <2>2, Zenon
<1> HIDE DEF Bad
<1> SUFFICES ASSUME Bad # {} PROVE FALSE
  BY <1>1
<1>2. PICK k \in Bad : \A m \in Bad : k <= m
  BY <1>1, LeastNumber
<1> USE DEF Bad
<1>3. k # 0
  <2>1. IsSum([i \in 0..0 |-> 0], amount, 0)
    BY DEF IsSum
  <2>2. QED
    BY <2>1, <1>2
<1>4. k - 1 \in 0..n /\ k - 1 \notin Bad
  BY <1>2, <1>3
<1>5. PICK s : IsSum(s, amount, k - 1)
  BY <1>4
<1> DEFINE s2 == [i \in 0..k |-> IF i = k THEN s[k-1] + amount[k] ELSE s[i]]
<1>6. s2 = [i \in 0..k |-> IF i = 0 THEN 0 ELSE s2[i - 1] + amount[i]]
  <2>1. ASSUME NEW i \in 0..k PROVE s2[i] = IF i = 0 THEN 0 ELSE s2[i - 1] + amount[i]
    BY <1>3, <1>4, <1>5 DEF IsSum
  <2> QED BY <2>1
<1>7. IsSum(s2, amount, k)
  BY <1>6 DEF IsSum
<1>8. QED
  BY <1>2, <1>7

LEMMA TotalDef ==
  ASSUME NEW n \in Nat, NEW amount \in [1..n -> Int]
  PROVE  \E sum : IsSum(sum, amount, n) /\ Total(amount, n) = sum[n]
<1>1. IsSum(CHOOSE sum : IsSum(sum, amount, n), amount, n)
  BY SumExists
<1>2. Total(amount, n) = (CHOOSE sum : IsSum(sum, amount, n))[n]
  BY DEF Total, IsSum
<1>3. QED
  BY <1>1, <1>2

LEMMA SumValues ==
  ASSUME NEW n \in Nat, NEW amount, NEW sum, IsSum(sum, amount, n)
  PROVE  /\ sum[0] = 0
         /\ \A i \in 1..n : sum[i] = sum[i - 1] + amount[i]
  BY DEF IsSum

\* When the amounts differ at one place only, if at all, so do the sums.
LEMMA TotalChanged ==
  ASSUME NEW n \in Nat, NEW k \in 1..n, NEW f \in [1..n -> Int], NEW g \in [1..n -> Int],
         \A i \in 1..n : i # k => f[i] = g[i]
  PROVE  Total(f, n) \in Int /\ Total(g, n) = Total(f, n) + g[k] - f[k]
<1>s. PICK s : IsSum(s, f, n) /\ Total(f, n) = s[n]
  BY TotalDef
<1>t. PICK t : IsSum(t, g, n) /\ Total(g, n) = t[n]
  BY TotalDef
<1> DEFINE Right(i) == /\ s[i] \in Int /\ t[i] \in Int
                       /\ t[i] = IF i < k THEN s[i] ELSE s[i] + g[k] - f[k]
           Bad == {i \in 0..n : ~Right(i)}
<1>1. Bad \subseteq Nat /\ (Bad = {} => Right(n))
  OBVIOUS
<1>0. Right(n) => Total(f, n) \in Int /\ Total(g, n) = Total(f, n) + g[k] - f[k]
  BY <1>s, <1>t
<1> HIDE DEF Bad
<1> SUFFICES ASSUME Bad # {} PROVE FALSE
  BY <1>0, <1>1
<1>2. PICK i \in Bad : \A m \in Bad : i <= m
  BY <1>1, LeastNumber
<1> USE DEF Bad
<1>3. i # 0
  BY <1>2, <1>s, <1>t, SumValues
<1>4. i \in 1..n /\ i - 1 \in 0..n /\ ~(i <= i - 1)
  BY <1>2, <1>3
<1>5. s[i] = s[i - 1] + f[i] /\ t[i] = t[i - 1] + g[i]
  BY <1>4, <1>s, <1>t, SumValues
<1>6. Right(i - 1)
  BY <1>2, <1>4
<1>7. f[i] \in Int /\ g[i] \in Int /\ (i # k => f[i] = g[i])
  BY <1>4
<1>8. Right(i)
  <2>1. CASE i = k
    <3>1. i - 1 < k /\ ~(i < k)
      BY <1>4, <2>1
    <3>2. s[i - 1] \in Int /\ t[i - 1] = s[i - 1]
      BY <1>6, <3>1
    <3>3. s[i] \in Int /\ t[i] \in Int /\ t[i] = s[i] + g[i] - f[i]
      BY <1>5, <1>7, <3>2
    <3>4. QED
      BY <2>1, <3>1, <3>3
  <2>2. CASE i < k
    BY <1>4, <1>5, <1>6, <1>7, <2>2
  <2>3. CASE i > k
    <3>1. ~(i - 1 < k) /\ ~(i < k)
      BY <1>4, <2>3
    <3>2. s[i - 1] \in Int /\ t[i - 1] = s[i - 1] + g[k] - f[k]
      BY <1>6, <3>1
    <3>3. f[i] = g[i] /\ f[k] \in Int /\ g[k] \in Int
      BY <1>7, <2>3
    <3>4. s[i] \in Int /\ t[i] \in Int /\ t[i] = s[i] + g[k] - f[k]
      <4>1. PICK x \in Int, y \in Int, d \in Int : x = s[i - 1] /\ y = f[i] /\ d = g[k] - f[k]
        BY <1>7, <3>2, <3>3
      <4>2. t[i - 1] = x + d
        BY <3>2, <3>3, <4>1
      <4>3. s[i] = x + y /\ t[i] = (x + d) + y
        BY <1>5, <3>3, <4>1, <4>2
      <4>4. s[i] + g[k] - f[k] = (x + y) + d
        BY <3>3, <4>1, <4>3
      <4>5. QED
        BY <4>3, <4>4
    <3>5. t[i] = IF i < k THEN s[i] ELSE s[i] + g[k] - f[k]
      BY <3>1, <3>4
    <3>6. QED
      BY <3>4, <3>5
  <2>4. QED
    BY <1>4, <2>1, <2>2, <2>3
<1>9. QED
  BY <1>2, <1>8

LEMMA TotalEmpty == ASSUME NEW f \in [1..0 -> Int] PROVE Total(f, 0) = 0
  BY TotalDef, SumValues

LEMMA TotalAppended ==
  ASSUME NEW n \in Nat, NEW f \in [1..n -> Int], NEW g \in [1..(n + 1) -> Int],
         \A i \in 1..n : f[i] = g[i]
  PROVE  Total(g, n + 1) = Total(f, n) + g[n + 1]
<1>1. PICK s : IsSum(s, f, n) /\ Total(f, n) = s[n]
  BY TotalDef
<1>2. PICK t : IsSum(t, g, n + 1) /\ Total(g, n + 1) = t[n + 1]
  BY TotalDef
<1> DEFINE Bad == {i \in 0..n : s[i] # t[i]}
<1>3. Bad = {}
  <2>1. Bad \subseteq Nat
    OBVIOUS
  <2> HIDE DEF Bad
  <2> SUFFICES ASSUME Bad # {} PROVE FALSE
    OBVIOUS
  <2>2. PICK i \in Bad : \A m \in Bad : i <= m
    BY <2>1, LeastNumber
  <2> USE DEF Bad
  <2>3. i # 0
    BY <1>1, <1>2, <2>2, SumValues
  <2>4. i \in 1..n /\ i \in 1..(n + 1) /\ i - 1 \in 0..n /\ ~(i <= i - 1)
    BY <2>2, <2>3
  <2>5. s[i - 1] = t[i - 1]
    BY <2>2, <2>4
  <2>6. s[i] = s[i - 1] + f[i] /\ t[i] = t[i - 1] + g[i]
    <3>1. n + 1 \in Nat
      OBVIOUS
    <3>2. s[i] = s[i - 1] + f[i]
      BY <1>1, <2>4, SumValues
    <3>3. \A j \in 1..(n + 1) : t[j] = t[j - 1] + g[j]
      BY <1>2, <3>1, SumValues
    <3>4. QED
      BY <2>4, <3>2, <3>3
  <2>7. QED
    BY <2>2, <2>4, <2>5, <2>6
<1>4. s[n] = t[n]
  <2>1. n \in 0..n
    OBVIOUS
  <2>2. QED
    BY <1>3, <2>1
<1>5. t[n + 1] = t[n] + g[n + 1]
  <2>1. n + 1 \in 1..(n + 1) /\ (n + 1) - 1 = n
    OBVIOUS
  <2>2. t[n + 1] = t[(n + 1) - 1] + g[n + 1]
    BY <1>2, <2>1, SumValues
  <2>3. QED
    BY <2>1, <2>2
<1>6. QED
  BY <1>1, <1>2, <1>4, <1>5

-----------------------------------------------------------------------------
(* How the ledger moves with the book.                                     *)

LedgerStep ==
  \/ UNCHANGED <<bet, settlement, ledger>>
  \/ \E b \in Bets, mode \in Modes, slip \in Slips, rec \in Recs \cup {NoRec}, seen \in Nat :
       /\ Placed(b, mode, slip, rec)
       /\ ledger' = Movement(mode, b, "bet_placed", -slip.stake, seen)
  \/ \E b \in Bets, who \in Apis \cup Runners : \E results \in Seq(LegResults), seen \in Nat :
       /\ Settled(b, results, who)
       /\ ledger' = PayoutLedger(b, Aggregate(results), seen)

\* A run settles trial bets, which move no money.
LEMMA NextIsLedgerStep ==
  ASSUME IInv, [Next]_vars
  PROVE  LedgerStep
<1>1. CASE UNCHANGED vars
  BY <1>1 DEF vars, LedgerStep
<1>2. CASE EventMoves
  BY <1>2 DEF EventMoves, bookVars, LedgerStep
<1>3. ASSUME NEW a \in Apis, ApiNext(a) PROVE LedgerStep
  <2>1. CASE Register(a)
    <3>1. /\ api[a].mode \in Modes /\ api[a].slip \in Slips /\ api[a].rec \in Recs \cup {NoRec}
          /\ DOMAIN api[a].slip.legs # {}
      BY <2>1 DEF IInv, TypeOK, ApiState, ApiInv, Register
    <3>2. api[a].seen \in Nat
      BY <2>1 DEF IInv, TypeOK, ApiState, Register
    <3>3. PICK b \in Bets :
            /\ Placed(b, api[a].mode, api[a].slip, api[a].rec)
            /\ ledger' = Movement(api[a].mode, b, "bet_placed", -api[a].slip.stake, api[a].seen)
      BY <2>1, <3>1 DEF Register, Placed
    <3>4. QED
      BY <3>1, <3>2, <3>3 DEF LedgerStep
  <2>2. CASE Settle(a)
    <3>1. /\ api[a].bet \in Bets
          /\ api[a].results \in Seq(LegResults)
          /\ Settled(api[a].bet, api[a].results, a)
      BY <2>2, SettleSettles
    <3>2. api[a].seen \in Nat
      BY <2>2 DEF IInv, TypeOK, ApiState, Settle
    <3>3. ledger' = PayoutLedger(api[a].bet, Aggregate(api[a].results), api[a].seen)
      BY <2>2 DEF Settle
    <3>4. QED
      BY <3>1, <3>2, <3>3 DEF LedgerStep
  <2>3. CASE BeginRegister(a) \/ RegisterConflict(a) \/ BeginSettle(a) \/ RefuseSettle(a)
             \/ SettleRaced(a) \/ ApiFails(a)
    BY <2>3 DEF BeginRegister, RegisterConflict, BeginSettle, RefuseSettle, SettleRaced,
                ApiFails, bookVars, LedgerStep
  <2>4. QED
    BY <1>3, <2>1, <2>2, <2>3 DEF ApiNext
<1>4. ASSUME NEW r \in Runners, RunnerNext(r) PROVE LedgerStep
  <2>1. CASE SettleDue(r)
    <3>1. /\ Current(r) \in run[r].queue
          /\ Current(r) \in Bets
          /\ run[r].results \in Seq(LegResults)
          /\ Settled(Current(r), run[r].results, r)
      BY <2>1, SettleDueSettles
    <3>2. bet[Current(r)].mode = "trial"
      BY <2>1, <3>1 DEF IInv, RunInv, SettleDue, Conclude
    <3>3. ledger' = PayoutLedger(Current(r), Aggregate(run[r].results), 0)
      BY <2>1, <3>2 DEF SettleDue, PayoutLedger, Movement
    <3>4. 0 \in Nat
      OBVIOUS
    <3>5. QED
      BY <3>1, <3>3, <3>4 DEF LedgerStep
  <2>2. CASE ListDue(r) \/ ReadNext(r) \/ LeaveUnresolved(r) \/ LoseRace(r) \/ FailBet(r) \/ Die(r)
    BY <2>2 DEF ListDue, ReadNext, LeaveUnresolved, LoseRace, FailBet, Die, bookVars, LedgerStep
  <2>3. QED
    BY <1>4, <2>1, <2>2 DEF RunnerNext, Decide
<1>5. QED
  BY <1>1, <1>2, <1>3, <1>4 DEF Next

LEMMA AppendedMovement ==
  ASSUME ledger \in Seq(Entry), NEW e \in Entry, ledger' = Append(ledger, e), NEW c \in Bets
  PROVE  /\ Movements(c)' = IF e.bet = c THEN Movements(c) \cup {Len(ledger) + 1} ELSE Movements(c)
         /\ Len(ledger) + 1 \notin Movements(c)
         /\ \A i \in Movements(c) : ledger'[i] = ledger[i]
         /\ ledger'[Len(ledger) + 1] = e
<1>1. /\ DOMAIN ledger = 1..Len(ledger) /\ Len(ledger) \in Nat
      /\ DOMAIN ledger' = 1..(Len(ledger) + 1)
      /\ \A i \in 1..Len(ledger) : ledger'[i] = ledger[i]
      /\ ledger'[Len(ledger) + 1] = e
  OBVIOUS
<1>2. DOMAIN ledger' = DOMAIN ledger \cup {Len(ledger) + 1} /\ Len(ledger) + 1 \notin DOMAIN ledger
  BY <1>1
<1>3. QED
  BY <1>1, <1>2 DEF Movements

LEMMA BalanceAppended ==
  ASSUME ledger \in Seq(Entry), NEW e \in Entry, ledger' = Append(ledger, e)
  PROVE  Balance(Len(ledger))' = Balance(Len(ledger)) + e.amount
<1> DEFINE n == Len(ledger)
<1>1. /\ n \in Nat /\ Len(ledger') = n + 1
      /\ \A i \in 1..n : ledger[i] \in Entry /\ ledger'[i] = ledger[i]
      /\ ledger'[n + 1] = e
  OBVIOUS
<1>2. PICK f : f = [i \in 1..n |-> ledger[i].amount]
  OBVIOUS
<1>3. PICK g : g = [i \in 1..(n + 1) |-> ledger'[i].amount]
  OBVIOUS
<1>4. f \in [1..n -> Int]
  BY <1>1, <1>2 DEF Entry
<1>5. g \in [1..(n + 1) -> Int] /\ g[n + 1] = e.amount /\ \A i \in 1..n : f[i] = g[i]
  <2>1. \A i \in 1..(n + 1) : i \in 1..n \/ i = n + 1
    BY <1>1
  <2>2. \A i \in 1..(n + 1) : ledger'[i] \in Entry
    BY <1>1, <2>1
  <2>3. n + 1 \in 1..(n + 1) /\ \A i \in 1..n : i \in 1..(n + 1)
    BY <1>1
  <2>4. QED
    BY <1>1, <1>2, <1>3, <2>2, <2>3 DEF Entry
<1>6. Total(g, n + 1) = Total(f, n) + g[n + 1]
  BY <1>1, <1>4, <1>5, TotalAppended
<1>7. Balance(Len(ledger)) = Total(f, n) /\ Balance(Len(ledger))' = Total(g, n + 1)
  BY <1>1, <1>2, <1>3 DEF Balance
<1>8. QED
  BY <1>5, <1>6, <1>7

\* What the two steps of the book do to the rows that the money depends on.
LEMMA PlacedRow ==
  ASSUME BookInv, NEW b \in Bets, NEW mode \in Modes, NEW slip \in Slips,
         NEW rec \in Recs \cup {NoRec}, Placed(b, mode, slip, rec)
  PROVE  /\ bet[b].mode = "none" /\ settlement[b].status = "none"
         /\ bet'[b].mode = mode /\ bet'[b].stake = slip.stake /\ bet'[b].status = "pending"
         /\ settlement'[b].status = "none"
         /\ slip.stake \in Nat \ {0}
         /\ \A c \in Bets : c # b => bet'[c] = bet[c] /\ settlement'[c] = settlement[c]
<1>1. BetInOrder(b) /\ BookTypes
  BY DEF BookInv
<1>2. bet'[b] = NewBet(mode, slip, rec)
  BY <1>1 DEF Placed, BookTypes
<1>3. bet[b].mode = "none" /\ settlement[b].status = "none" /\ settlement' = settlement
  BY <1>1 DEF Placed, BetInOrder, Exists, HasSettlement
<1>4. \A c \in Bets : c # b => bet'[c] = bet[c]
  BY <1>1 DEF Placed, BookTypes
<1>5. slip.stake \in Nat \ {0}
  BY SlipAssumption DEF Slip
<1>6. QED
  BY <1>2, <1>3, <1>4, <1>5 DEF NewBet

LEMMA SettledRow ==
  ASSUME BookInv, NEW b \in Bets, NEW who, NEW results \in Seq(LegResults),
         Settled(b, results, who)
  PROVE  /\ bet[b].mode \in Modes
         /\ bet[b].stake \in Nat \ {0} /\ bet[b].odds \in Nat \ {0}
         /\ bet[b].status = "pending" /\ settlement[b].status = "none"
         /\ bet'[b].mode = bet[b].mode /\ bet'[b].stake = bet[b].stake /\ bet'[b].odds = bet[b].odds
         /\ bet'[b].status = IF Aggregate(results) \in FinalStatuses THEN "settled" ELSE "pending"
         /\ settlement'[b] = NewSettlement(b, Aggregate(results))
         /\ \A c \in Bets : c # b => bet'[c] = bet[c] /\ settlement'[c] = settlement[c]
<1>1. BetInOrder(b) /\ BookTypes
  BY DEF BookInv
<1>2. bet[b] \in BetRow
  BY <1>1, SettledRows
<1>3. settlement[b].status = "none" /\ bet[b].status = "pending"
  BY <1>1, <1>2 DEF Settled, WriteSettlement, BetIdFree, BetInOrder, HasSettlement, BetRow
<1>4. bet'[b] = SettledBet(b, results) /\ settlement'[b] = NewSettlement(b, Aggregate(results))
  BY <1>1 DEF Settled, WriteSettlement, BookTypes
<1>5. \A c \in Bets : c # b => bet'[c] = bet[c] /\ settlement'[c] = settlement[c]
  BY <1>1 DEF Settled, WriteSettlement, BookTypes
<1>6. bet[b].mode \in Modes /\ bet[b].stake \in Nat \ {0} /\ bet[b].odds \in Nat \ {0}
  BY <1>2 DEF BetRow
<1>7. /\ SettledBet(b, results).mode = bet[b].mode
      /\ SettledBet(b, results).stake = bet[b].stake
      /\ SettledBet(b, results).odds = bet[b].odds
      /\ SettledBet(b, results).status
           = IF Aggregate(results) \in FinalStatuses THEN "settled" ELSE "pending"
  BY <1>2, <1>3 DEF SettledBet, BetRow
<1>8. QED
  BY <1>3, <1>4, <1>5, <1>6, <1>7

-----------------------------------------------------------------------------
(* The invariant.                                                          *)

\* The amounts of a settlement are those of its status.
Priced(b) == HasSettlement(b) => settlement[b] = NewSettlement(b, settlement[b].status)

IsPaid(b) == settlement[b].status \in {"won", "void"}

StakeMovement(b, i) == ledger[i].reason = "bet_placed" /\ ledger[i].amount = -bet[b].stake

PayoutMovement(b, i) ==
  ledger[i].reason = PayoutReason[settlement[b].status] /\ ledger[i].amount = settlement[b].payout

\* LedgerFollowsBets without counting.
Booked(b) ==
  /\ bet[b].mode # "real" => Movements(b) = {}
  /\ bet[b].mode = "real" /\ ~IsPaid(b) => \E i : Movements(b) = {i} /\ StakeMovement(b, i)
  /\ bet[b].mode = "real" /\ IsPaid(b) =>
       \E i, j : i # j /\ Movements(b) = {i, j} /\ StakeMovement(b, i) /\ PayoutMovement(b, j)

MoneyInv == IInv /\ \A b \in Bets : Priced(b) /\ Booked(b)

LEMMA NextPriced ==
  ASSUME IInv, LedgerStep, NEW b \in Bets, Priced(b)
  PROVE  Priced(b)'
<1>0. BookInv
  BY DEF IInv
<1>1. CASE bet'[b] = bet[b] /\ settlement'[b] = settlement[b]
  BY <1>1 DEF Priced, HasSettlement, NewSettlement, Payout, Profit
<1>2. ASSUME NEW mode \in Modes, NEW slip \in Slips, NEW rec \in Recs \cup {NoRec},
             Placed(b, mode, slip, rec)
      PROVE  Priced(b)'
  BY <1>0, <1>2, PlacedRow DEF Priced, HasSettlement
<1>3. ASSUME NEW who \in Apis \cup Runners, NEW results \in Seq(LegResults),
             Settled(b, results, who)
      PROVE  Priced(b)'
  <2>1. /\ bet'[b].stake = bet[b].stake /\ bet'[b].odds = bet[b].odds
        /\ settlement'[b] = NewSettlement(b, Aggregate(results))
    BY <1>0, <1>3, SettledRow
  <2> DEFINE status == Aggregate(results)
  <2> HIDE DEF status
  <2>2. settlement'[b].status = status
    BY <2>1 DEF NewSettlement, status
  <2>3. NewSettlement(b, settlement[b].status)' = NewSettlement(b, status)
    BY <2>1, <2>2 DEF NewSettlement, Payout, Profit
  <2>4. QED
    BY <2>1, <2>3 DEF Priced, status
<1>4. CASE UNCHANGED <<bet, settlement, ledger>>
  BY <1>1, <1>4
<1>5. ASSUME NEW c \in Bets, NEW mode \in Modes, NEW slip \in Slips, NEW rec \in Recs \cup {NoRec},
             Placed(c, mode, slip, rec)
      PROVE  Priced(b)'
  BY <1>0, <1>1, <1>2, <1>5, PlacedRow
<1>6. ASSUME NEW c \in Bets, NEW who \in Apis \cup Runners, NEW results \in Seq(LegResults),
             Settled(c, results, who)
      PROVE  Priced(b)'
  BY <1>0, <1>1, <1>3, <1>6, SettledRow
<1>7. QED
  BY <1>4, <1>5, <1>6 DEF LedgerStep

\* A step that adds no movement of a bet leaves its movements as they were.
LEMMA OthersBooked ==
  ASSUME NEW b \in Bets, Booked(b), bet'[b] = bet[b], settlement'[b] = settlement[b],
         ledger \in Seq(Entry),
         ledger' = ledger \/ \E e \in Entry : e.bet # b /\ ledger' = Append(ledger, e)
  PROVE  Booked(b)'
<1>1. Movements(b)' = Movements(b) /\ \A i \in Movements(b) : ledger'[i] = ledger[i]
  <2>1. CASE ledger' = ledger
    BY <2>1 DEF Movements
  <2>2. CASE \E e \in Entry : e.bet # b /\ ledger' = Append(ledger, e)
    <3>1. PICK e \in Entry : e.bet # b /\ ledger' = Append(ledger, e)
      BY <2>2
    <3>2. QED
      BY <3>1, AppendedMovement
  <2>3. QED
    BY <2>1, <2>2
<1>2. \A i \in Movements(b) : StakeMovement(b, i)' <=> StakeMovement(b, i)
  BY <1>1 DEF StakeMovement
<1>3. \A i \in Movements(b) : PayoutMovement(b, i)' <=> PayoutMovement(b, i)
  BY <1>1 DEF PayoutMovement
<1>4. IsPaid(b)' <=> IsPaid(b)
  BY DEF IsPaid
<1>5. CASE bet[b].mode # "real"
  BY <1>1, <1>5 DEF Booked
<1>6. CASE bet[b].mode = "real" /\ ~IsPaid(b)
  <2>1. PICK i : Movements(b) = {i} /\ StakeMovement(b, i)
    BY <1>6 DEF Booked
  <2>2. Movements(b)' = {i} /\ StakeMovement(b, i)'
    BY <1>1, <1>2, <2>1
  <2>3. QED
    BY <1>4, <1>6, <2>2 DEF Booked
<1>7. CASE bet[b].mode = "real" /\ IsPaid(b)
  <2>1. PICK i, j : i # j /\ Movements(b) = {i, j} /\ StakeMovement(b, i) /\ PayoutMovement(b, j)
    BY <1>7 DEF Booked
  <2>2. i # j /\ Movements(b)' = {i, j} /\ StakeMovement(b, i)' /\ PayoutMovement(b, j)'
    BY <1>1, <1>2, <1>3, <2>1
  <2>3. QED
    BY <1>4, <1>7, <2>2 DEF Booked
<1>8. QED
  BY <1>5, <1>6, <1>7

\* The movement of a step: none, or one of the bet the step is about.
LEMMA PlacedMoves ==
  ASSUME BookInv, ledger \in Seq(Entry), NEW b \in Bets, NEW mode \in Modes, NEW slip \in Slips,
         NEW rec \in Recs \cup {NoRec}, NEW seen \in Nat, Placed(b, mode, slip, rec),
         ledger' = Movement(mode, b, "bet_placed", -slip.stake, seen)
  PROVE  \/ mode # "real" /\ ledger' = ledger
         \/ /\ mode = "real"
            /\ \E e \in Entry : /\ e.bet = b /\ e.reason = "bet_placed" /\ e.amount = -slip.stake
                                /\ ledger' = Append(ledger, e)
<1>1. CASE mode # "real"
  BY <1>1 DEF Movement
<1>2. CASE mode = "real"
  <2>1. -slip.stake \in Int
    BY PlacedRow
  <2>2. [bet |-> b, reason |-> "bet_placed", amount |-> -slip.stake, seen |-> seen] \in Entry
    BY <2>1 DEF Entry
  <2>3. QED
    BY <1>2, <2>2 DEF Movement
<1>3. QED
  BY <1>1, <1>2

LEMMA SettledMoves ==
  ASSUME BookInv, ledger \in Seq(Entry), NEW b \in Bets, NEW who, NEW results \in Seq(LegResults),
         NEW seen \in Nat, Settled(b, results, who),
         ledger' = PayoutLedger(b, Aggregate(results), seen)
  PROVE  \/ ~(bet[b].mode = "real" /\ Aggregate(results) \in {"won", "void"}) /\ ledger' = ledger
         \/ /\ bet[b].mode = "real" /\ Aggregate(results) \in {"won", "void"}
            /\ \E e \in Entry : /\ e.bet = b /\ e.reason = PayoutReason[Aggregate(results)]
                                /\ e.amount = settlement'[b].payout
                                /\ ledger' = Append(ledger, e)
<1> DEFINE status == Aggregate(results)
<1>1. /\ settlement'[b] = NewSettlement(b, status)
      /\ bet[b].stake \in Nat \ {0} /\ bet[b].odds \in Nat \ {0}
  BY SettledRow
<1>2. ledger' = PayoutLedger(b, status, seen)
  OBVIOUS
<1> HIDE DEF status
<1>3. CASE ~(bet[b].mode = "real" /\ status \in {"won", "void"})
  BY <1>2, <1>3 DEF PayoutLedger, Movement, status
<1>4. CASE bet[b].mode = "real" /\ status \in {"won", "void"}
  <2>1. Payout(b, status) = settlement'[b].payout
    BY <1>1 DEF NewSettlement
  <2>2. Payout(b, status) \in Int
    BY <1>1, <1>4 DEF Payout
  <2>3. PayoutReason[status] \in {"bet_placed", "bet_won", "bet_void"}
    BY <1>4 DEF PayoutReason
  <2>4. [bet |-> b, reason |-> PayoutReason[status], amount |-> Payout(b, status), seen |-> seen]
          \in Entry
    BY <2>2, <2>3 DEF Entry
  <2>5. ledger' = Append(ledger, [bet |-> b, reason |-> PayoutReason[status],
                                  amount |-> Payout(b, status), seen |-> seen])
    BY <1>2, <1>4 DEF PayoutLedger, Movement
  <2>6. QED
    BY <1>4, <2>1, <2>4, <2>5 DEF status
<1>5. QED
  BY <1>3, <1>4 DEF status

LEMMA PlacedBooked ==
  ASSUME IInv, NEW b \in Bets, NEW mode \in Modes, NEW slip \in Slips,
         NEW rec \in Recs \cup {NoRec}, NEW seen \in Nat, Placed(b, mode, slip, rec),
         ledger' = Movement(mode, b, "bet_placed", -slip.stake, seen), Booked(b)
  PROVE  Booked(b)'
<1>0. BookInv /\ ledger \in Seq(Entry)
  BY DEF IInv, TypeOK
<1>1. /\ Movements(b) = {} /\ ~IsPaid(b)'
      /\ bet'[b].mode = mode /\ bet'[b].stake = slip.stake
  BY <1>0, PlacedRow DEF Booked, IsPaid
<1>2. CASE mode # "real" /\ ledger' = ledger
  BY <1>1, <1>2 DEF Booked, Movements
<1>3. CASE mode = "real" /\ ledger' # ledger
  <2>1. PICK e \in Entry : /\ e.bet = b /\ e.reason = "bet_placed" /\ e.amount = -slip.stake
                           /\ ledger' = Append(ledger, e)
    BY <1>0, <1>3, PlacedMoves
  <2>2. PICK i : i = Len(ledger) + 1
    OBVIOUS
  <2>3. Movements(b)' = {i} /\ ledger'[i] = e
    BY <1>0, <1>1, <2>1, <2>2, AppendedMovement
  <2>4. StakeMovement(b, i)'
    BY <1>1, <2>1, <2>3 DEF StakeMovement
  <2>5. QED
    BY <1>1, <1>3, <2>3, <2>4 DEF Booked
<1>4. CASE mode = "real" /\ ledger' = ledger
  <2>1. PICK e \in Entry : e.bet = b /\ ledger' = Append(ledger, e)
    BY <1>0, <1>4, PlacedMoves
  <2>2. QED
    BY <1>0, <1>4, <2>1
<1>5. QED
  BY <1>0, <1>2, <1>3, <1>4, PlacedMoves

LEMMA SettledBooked ==
  ASSUME IInv, NEW b \in Bets, NEW who \in Apis \cup Runners, NEW results \in Seq(LegResults),
         NEW seen \in Nat, Settled(b, results, who),
         ledger' = PayoutLedger(b, Aggregate(results), seen), Booked(b)
  PROVE  Booked(b)'
<1>0. BookInv /\ ledger \in Seq(Entry)
  BY DEF IInv, TypeOK
<1> DEFINE status == Aggregate(results)
<1>1. /\ bet'[b].mode = bet[b].mode /\ bet'[b].stake = bet[b].stake
      /\ settlement'[b] = NewSettlement(b, status) /\ settlement[b].status = "none"
  BY <1>0, SettledRow
<1>2. ~IsPaid(b) /\ settlement'[b].status = status
  BY <1>1 DEF IsPaid, NewSettlement
<1>3. IsPaid(b)' <=> status \in {"won", "void"}
  BY <1>2 DEF IsPaid
<1> HIDE DEF status
<1>4. CASE ~(bet[b].mode = "real" /\ status \in {"won", "void"}) /\ ledger' = ledger
  <2>1. Movements(b)' = Movements(b)
    BY <1>4 DEF Movements
  <2>2. CASE bet[b].mode # "real"
    BY <1>1, <2>1, <2>2 DEF Booked
  <2>3. CASE bet[b].mode = "real"
    <3>1. PICK i : Movements(b) = {i} /\ StakeMovement(b, i)
      BY <1>2, <2>3 DEF Booked
    <3>2. StakeMovement(b, i)'
      BY <1>1, <1>4, <3>1 DEF StakeMovement
    <3>3. ~IsPaid(b)'
      BY <1>3, <1>4, <2>3
    <3>4. QED
      BY <1>1, <2>1, <2>3, <3>1, <3>2, <3>3 DEF Booked
  <2>4. QED
    BY <2>2, <2>3
<1>5. ASSUME bet[b].mode = "real", status \in {"won", "void"},
             NEW e \in Entry, e.bet = b, e.reason = PayoutReason[status],
             e.amount = settlement'[b].payout, ledger' = Append(ledger, e)
      PROVE  Booked(b)'
  <2>1. PICK i : Movements(b) = {i} /\ StakeMovement(b, i)
    BY <1>2, <1>5 DEF Booked
  <2>2. PICK j : j = Len(ledger) + 1
    OBVIOUS
  <2>3. Movements(b)' = {i, j} /\ i # j /\ ledger'[i] = ledger[i] /\ ledger'[j] = e
    <3>1. /\ Movements(b)' = Movements(b) \cup {j} /\ j \notin Movements(b)
          /\ \A m \in Movements(b) : ledger'[m] = ledger[m]
          /\ ledger'[j] = e
      BY <1>0, <1>5, <2>2, AppendedMovement
    <3>2. QED
      BY <2>1, <3>1
  <2>4. StakeMovement(b, i)'
    BY <1>1, <2>1, <2>3 DEF StakeMovement
  <2>5. PayoutMovement(b, j)'
    BY <1>2, <1>5, <2>3 DEF PayoutMovement
  <2>6. bet'[b].mode = "real" /\ IsPaid(b)'
    BY <1>1, <1>3, <1>5
  <2>7. QED
    BY <2>3, <2>4, <2>5, <2>6 DEF Booked
<1>6. QED
  BY <1>0, <1>4, <1>5, SettledMoves DEF status

LEMMA NextBooked ==
  ASSUME IInv, LedgerStep, NEW b \in Bets, Booked(b)
  PROVE  Booked(b)'
<1>0. BookInv /\ ledger \in Seq(Entry)
  BY DEF IInv, TypeOK
<1>1. CASE UNCHANGED <<bet, settlement, ledger>>
  BY <1>0, <1>1, OthersBooked
<1>2. ASSUME NEW c \in Bets, NEW mode \in Modes, NEW slip \in Slips, NEW rec \in Recs \cup {NoRec},
             NEW seen \in Nat, Placed(c, mode, slip, rec),
             ledger' = Movement(mode, c, "bet_placed", -slip.stake, seen)
      PROVE  Booked(b)'
  <2>1. CASE b = c
    BY <1>2, <2>1, PlacedBooked
  <2>2. CASE b # c
    <3>1. bet'[b] = bet[b] /\ settlement'[b] = settlement[b]
      BY <1>0, <1>2, <2>2, PlacedRow
    <3>2. ledger' = ledger \/ \E e \in Entry : e.bet = c /\ ledger' = Append(ledger, e)
      BY <1>0, <1>2, PlacedMoves
    <3>3. QED
      BY <1>0, <2>2, <3>1, <3>2, OthersBooked
  <2>3. QED
    BY <2>1, <2>2
<1>3. ASSUME NEW c \in Bets, NEW who \in Apis \cup Runners, NEW results \in Seq(LegResults),
             NEW seen \in Nat, Settled(c, results, who),
             ledger' = PayoutLedger(c, Aggregate(results), seen)
      PROVE  Booked(b)'
  <2>1. CASE b = c
    BY <1>3, <2>1, SettledBooked
  <2>2. CASE b # c
    <3>1. bet'[b] = bet[b] /\ settlement'[b] = settlement[b]
      BY <1>0, <1>3, <2>2, SettledRow
    <3>2. ledger' = ledger \/ \E e \in Entry : e.bet = c /\ ledger' = Append(ledger, e)
      BY <1>0, <1>3, SettledMoves
    <3>3. QED
      BY <1>0, <2>2, <3>1, <3>2, OthersBooked
  <2>3. QED
    BY <2>1, <2>2
<1>4. QED
  BY <1>1, <1>2, <1>3 DEF LedgerStep

-----------------------------------------------------------------------------
(* The balance.                                                            *)

LEMMA NetType == MoneyInv => \A b \in Bets : Net(b) \in Int
<1> SUFFICES ASSUME IInv, NEW b \in Bets, Priced(b) PROVE Net(b) \in Int
  BY DEF MoneyInv
<1>1. CASE bet[b].mode # "real"
  BY <1>1 DEF Net
<1>2. CASE bet[b].mode = "real"
  <2>1. bet[b].stake \in Int /\ bet[b].odds \in Int
    BY <1>2, BetRows DEF Exists
  <2>2. CASE bet[b].status = "settled"
    <3>1. HasSettlement(b) /\ settlement[b].status \in FinalStatuses
      BY <2>2 DEF IInv, BookInv, BetInOrder
    <3>2. settlement[b].profit = Profit(b, settlement[b].status)
      BY <3>1 DEF Priced, NewSettlement
    <3>3. bet[b].stake * bet[b].odds \in Int
      BY <2>1
    <3>4. Profit(b, settlement[b].status) \in Int
      BY <2>1, <3>1, <3>3 DEF Profit, FinalStatuses
    <3>5. QED
      BY <1>2, <2>2, <3>2, <3>4 DEF Net
  <2>3. CASE bet[b].status # "settled"
    BY <1>2, <2>1, <2>3 DEF Net
  <2>4. QED
    BY <2>2, <2>3
<1>3. QED
  BY <1>1, <1>2

\* The net result of a row, to compare the row before and after a step.
LEMMA PlacedNet ==
  ASSUME IInv, NEW b \in Bets, NEW mode \in Modes, NEW slip \in Slips,
         NEW rec \in Recs \cup {NoRec}, Placed(b, mode, slip, rec)
  PROVE  Net(b) = 0 /\ Net(b)' = IF mode = "real" THEN -slip.stake ELSE 0
  BY PlacedRow DEF IInv, Net

LEMMA SettledNet ==
  ASSUME IInv, NEW b \in Bets, NEW who, NEW results \in Seq(LegResults), Settled(b, results, who)
  PROVE  IF bet[b].mode = "real" /\ Aggregate(results) \in {"won", "void"}
           THEN Net(b)' = Net(b) + settlement'[b].payout
           ELSE Net(b)' = Net(b)
<1> DEFINE status == Aggregate(results)
<1>1. /\ bet[b].stake \in Nat \ {0} /\ bet[b].odds \in Nat \ {0}
      /\ bet[b].status = "pending"
      /\ bet'[b].mode = bet[b].mode /\ bet'[b].stake = bet[b].stake
      /\ bet'[b].status = IF status \in FinalStatuses THEN "settled" ELSE "pending"
      /\ settlement'[b] = NewSettlement(b, status)
  BY SettledRow DEF IInv
<1>2. status \in FinalStatuses \cup {"manual_review"}
  BY AggregateType
<1> HIDE DEF status
<1>3. settlement'[b].payout = Payout(b, status) /\ settlement'[b].profit = Profit(b, status)
  BY <1>1 DEF NewSettlement
<1>4. CASE bet[b].mode # "real"
  BY <1>1, <1>4 DEF Net
<1>5. CASE bet[b].mode = "real"
  <2>1. Net(b) = -bet[b].stake
    BY <1>1, <1>5 DEF Net
  <2>2. CASE status = "won"
    <3>1. PICK p \in Int : p = bet[b].stake * bet[b].odds
      BY <1>1
    <3>2. Net(b)' = p - bet[b].stake /\ settlement'[b].payout = p
      BY <1>1, <1>3, <1>5, <2>2, <3>1 DEF Net, Payout, Profit, FinalStatuses
    <3>3. Net(b)' = Net(b) + settlement'[b].payout
      BY <1>1, <2>1, <3>2
    <3>4. QED
      BY <1>5, <2>2, <3>3 DEF status
  <2>3. CASE status = "void"
    <3>1. Net(b)' = 0 /\ settlement'[b].payout = bet[b].stake
      BY <1>1, <1>3, <1>5, <2>3 DEF Net, Payout, Profit, FinalStatuses
    <3>2. Net(b)' = Net(b) + settlement'[b].payout
      BY <1>1, <2>1, <3>1
    <3>3. QED
      BY <1>5, <2>3, <3>2 DEF status
  <2>4. CASE status \notin {"won", "void"}
    <3>1. Net(b)' = -bet[b].stake
      BY <1>1, <1>2, <1>3, <1>5, <2>4 DEF Net, Profit, FinalStatuses
    <3>2. QED
      BY <2>1, <2>4, <3>1 DEF status
  <2>5. QED
    BY <2>2, <2>3, <2>4
<1>6. QED
  BY <1>4, <1>5

Earned == Total([b \in Bets |-> Net(b)], MaxBets)

LEMMA EarnedChanged ==
  ASSUME NEW c \in Bets, \A b \in Bets : Net(b) \in Int /\ Net(b)' \in Int,
         \A b \in Bets : b # c => Net(b)' = Net(b)
  PROVE  Earned \in Int /\ Earned' = Earned + Net(c)' - Net(c)
<1>1. PICK f : f = [b \in Bets |-> Net(b)]
  OBVIOUS
<1>2. PICK g : g = [b \in Bets |-> Net(b)']
  OBVIOUS
<1>3. MaxBets \in Nat /\ c \in 1..MaxBets
  BY MaxBetsAssumption DEF Bets
<1>4. f \in [1..MaxBets -> Int] /\ g \in [1..MaxBets -> Int]
  BY <1>1, <1>2 DEF Bets
<1>5. \A b \in 1..MaxBets : b # c => f[b] = g[b]
  BY <1>1, <1>2 DEF Bets
<1>6. f[c] = Net(c) /\ g[c] = Net(c)'
  BY <1>1, <1>2
<1>7. Total(f, MaxBets) \in Int /\ Total(g, MaxBets) = Total(f, MaxBets) + g[c] - f[c]
  BY <1>3, <1>4, <1>5, TotalChanged
<1>8. Earned = Total(f, MaxBets) /\ Earned' = Total(g, MaxBets)
  BY <1>1, <1>2 DEF Earned
<1>9. QED
  BY <1>6, <1>7, <1>8

\* What a step of the book adds to the balance.
LEMMA PlacedCash ==
  ASSUME IInv, NEW b \in Bets, NEW mode \in Modes, NEW slip \in Slips,
         NEW rec \in Recs \cup {NoRec}, NEW seen \in Nat, Placed(b, mode, slip, rec),
         ledger' = Movement(mode, b, "bet_placed", -slip.stake, seen)
  PROVE  IF mode = "real"
           THEN Balance(Len(ledger))' = Balance(Len(ledger)) + (-slip.stake)
           ELSE Balance(Len(ledger))' = Balance(Len(ledger))
<1>0. BookInv /\ ledger \in Seq(Entry)
  BY DEF IInv, TypeOK
<1>1. CASE mode # "real" /\ ledger' = ledger
  BY <1>1 DEF Balance
<1>2. ASSUME mode = "real", NEW e \in Entry, e.amount = -slip.stake, ledger' = Append(ledger, e)
      PROVE  Balance(Len(ledger))' = Balance(Len(ledger)) + (-slip.stake)
  BY <1>0, <1>2, BalanceAppended
<1>3. QED
  BY <1>0, <1>1, <1>2, PlacedMoves

LEMMA SettledCash ==
  ASSUME IInv, NEW b \in Bets, NEW who \in Apis \cup Runners, NEW results \in Seq(LegResults),
         NEW seen \in Nat, Settled(b, results, who),
         ledger' = PayoutLedger(b, Aggregate(results), seen)
  PROVE  IF bet[b].mode = "real" /\ Aggregate(results) \in {"won", "void"}
           THEN /\ Balance(Len(ledger))' = Balance(Len(ledger)) + settlement'[b].payout
                /\ settlement'[b].payout \in Int
           ELSE Balance(Len(ledger))' = Balance(Len(ledger))
<1>0. BookInv /\ ledger \in Seq(Entry)
  BY DEF IInv, TypeOK
<1>1. CASE ~(bet[b].mode = "real" /\ Aggregate(results) \in {"won", "void"}) /\ ledger' = ledger
  BY <1>1 DEF Balance
<1>2. ASSUME bet[b].mode = "real" /\ Aggregate(results) \in {"won", "void"}, NEW e \in Entry,
             e.amount = settlement'[b].payout, ledger' = Append(ledger, e)
      PROVE  /\ Balance(Len(ledger))' = Balance(Len(ledger)) + settlement'[b].payout
             /\ settlement'[b].payout \in Int
  <2>1. e.amount \in Int
    BY DEF Entry
  <2>2. QED
    BY <1>0, <1>2, <2>1, BalanceAppended
<1>3. QED
  BY <1>0, <1>1, <1>2, SettledMoves

LEMMA EarnedType == MoneyInv => Earned \in Int
<1> SUFFICES ASSUME MoneyInv PROVE Earned \in Int
  OBVIOUS
<1>1. PICK f : f = [b \in Bets |-> Net(b)]
  OBVIOUS
<1>2. f \in [1..MaxBets -> Int]
  BY <1>1, NetType DEF Bets
<1>3. MaxBets \in Nat /\ 1 \in 1..MaxBets
  BY MaxBetsAssumption
<1>4. Total(f, MaxBets) \in Int
  BY <1>2, <1>3, TotalChanged
<1>5. QED
  BY <1>1, <1>4 DEF Earned

LEMMA NextBalance ==
  ASSUME MoneyInv, MoneyInv', LedgerStep, BalanceIsProfit
  PROVE  BalanceIsProfit'
<1>0. IInv /\ BookInv
  BY DEF MoneyInv, IInv
<1>1. \A b \in Bets : Net(b) \in Int
  BY NetType
<1>2. \A b \in Bets : Net(b)' \in Int
  <2>1. (\A b \in Bets : Net(b) \in Int)'
    BY NetType, PTL
  <2>2. QED
    BY <2>1
<1>3. Balance(Len(ledger)) = Earned /\ (BalanceIsProfit' <=> Balance(Len(ledger))' = Earned')
  BY DEF BalanceIsProfit, Earned
<1>4. CASE UNCHANGED <<bet, settlement, ledger>>
  BY <1>4 DEF BalanceIsProfit, Balance, Net
<1>5. ASSUME NEW c \in Bets, \A b \in Bets : b # c => bet'[b] = bet[b] /\ settlement'[b] = settlement[b]
      PROVE  Earned \in Int /\ Earned' = Earned + Net(c)' - Net(c)
  <2>1. \A b \in Bets : b # c => Net(b)' = Net(b)
    BY <1>5 DEF Net
  <2>2. QED
    BY <1>1, <1>2, <2>1, EarnedChanged
<1>6. ASSUME NEW c \in Bets, NEW mode \in Modes, NEW slip \in Slips, NEW rec \in Recs \cup {NoRec},
             NEW seen \in Nat, Placed(c, mode, slip, rec),
             ledger' = Movement(mode, c, "bet_placed", -slip.stake, seen)
      PROVE  BalanceIsProfit'
  <2>1. Earned \in Int /\ Earned' = Earned + Net(c)' - Net(c)
    BY <1>0, <1>5, <1>6, PlacedRow
  <2>2. Net(c) = 0 /\ Net(c)' = IF mode = "real" THEN -slip.stake ELSE 0
    BY <1>0, <1>6, PlacedNet
  <2>3. slip.stake \in Nat
    BY SlipAssumption DEF Slip
  <2>4. Balance(Len(ledger))' = Earned'
    BY <1>0, <1>3, <1>6, <2>1, <2>2, <2>3, PlacedCash
  <2>5. QED
    BY <1>3, <2>4
<1>7. ASSUME NEW c \in Bets, NEW who \in Apis \cup Runners, NEW results \in Seq(LegResults),
             NEW seen \in Nat, Settled(c, results, who),
             ledger' = PayoutLedger(c, Aggregate(results), seen)
      PROVE  BalanceIsProfit'
  <2>1. Earned \in Int /\ Earned' = Earned + Net(c)' - Net(c)
    BY <1>0, <1>5, <1>7, SettledRow
  <2>2. CASE bet[c].mode = "real" /\ Aggregate(results) \in {"won", "void"}
    <3>1. Net(c) \in Int /\ Net(c)' = Net(c) + settlement'[c].payout
      BY <1>0, <1>1, <1>7, <2>2, SettledNet
    <3>2. /\ Balance(Len(ledger))' = Balance(Len(ledger)) + settlement'[c].payout
          /\ settlement'[c].payout \in Int
      BY <1>0, <1>7, <2>2, SettledCash
    <3>3. QED
      BY <1>3, <2>1, <3>1, <3>2
  <2>3. CASE ~(bet[c].mode = "real" /\ Aggregate(results) \in {"won", "void"})
    <3>1. Net(c) \in Int /\ Net(c)' = Net(c)
      BY <1>0, <1>1, <1>7, <2>3, SettledNet
    <3>2. Balance(Len(ledger))' = Balance(Len(ledger))
      BY <1>0, <1>7, <2>3, SettledCash
    <3>3. QED
      BY <1>3, <2>1, <3>1, <3>2
  <2>4. QED
    BY <2>2, <2>3
<1>8. QED
  BY <1>4, <1>6, <1>7 DEF LedgerStep

LEMMA TotalOfNothing ==
  ASSUME NEW n \in Nat, NEW f \in [1..n -> Int], \A i \in 1..n : f[i] = 0
  PROVE  Total(f, n) = 0
<1>1. PICK s : IsSum(s, f, n) /\ Total(f, n) = s[n]
  BY TotalDef
<1> DEFINE Bad == {k \in 0..n : s[k] # 0}
<1>2. Bad \subseteq Nat /\ (Bad = {} => s[n] = 0)
  OBVIOUS
<1> HIDE DEF Bad
<1> SUFFICES ASSUME Bad # {} PROVE FALSE
  BY <1>1, <1>2
<1>3. PICK k \in Bad : \A m \in Bad : k <= m
  BY <1>2, LeastNumber
<1> USE DEF Bad
<1>4. k # 0
  BY <1>1, <1>3, SumValues
<1>5. k \in 1..n /\ k - 1 \in 0..n /\ ~(k <= k - 1)
  BY <1>3, <1>4
<1>6. s[k - 1] = 0
  BY <1>3, <1>5
<1>7. s[k] = s[k - 1] + f[k] /\ f[k] = 0
  BY <1>1, <1>5, SumValues
<1>8. QED
  BY <1>3, <1>6, <1>7

LEMMA InitMoney ==
  ASSUME Init
  PROVE  MoneyInv /\ BalanceIsProfit
<1>1. IInv
  BY InitIInv
<1>2. ASSUME NEW b \in Bets PROVE Priced(b) /\ Booked(b)
  BY DEF Init, Priced, Booked, HasSettlement, NoSettlement, NoBet, Movements
<1>3. Balance(Len(ledger)) = 0
  <2>1. PICK f : f = [i \in 1..0 |-> ledger[i].amount]
    OBVIOUS
  <2>2. f \in [1..0 -> Int]
    BY <2>1
  <2>3. Len(ledger) = 0
    BY DEF Init
  <2>4. QED
    BY <2>1, <2>2, <2>3, TotalEmpty DEF Balance
<1>4. Total([b \in Bets |-> Net(b)], MaxBets) = 0
  <2>1. PICK f : f = [b \in Bets |-> Net(b)]
    OBVIOUS
  <2>2. \A b \in Bets : Net(b) = 0
    BY DEF Init, Net, NoBet
  <2>3. f \in [1..MaxBets -> Int] /\ \A b \in 1..MaxBets : f[b] = 0
    BY <2>1, <2>2 DEF Bets
  <2>4. MaxBets \in Nat
    BY MaxBetsAssumption
  <2>5. QED
    BY <2>1, <2>3, <2>4, TotalOfNothing
<1>5. QED
  BY <1>1, <1>2, <1>3, <1>4 DEF MoneyInv, BalanceIsProfit

LEMMA NextMoney ==
  ASSUME MoneyInv, BalanceIsProfit, [Next]_vars
  PROVE  MoneyInv' /\ BalanceIsProfit'
<1>1. IInv' /\ LedgerStep
  BY NextIInv, NextIsLedgerStep DEF MoneyInv
<1>2. \A b \in Bets : Priced(b)' /\ Booked(b)'
  BY <1>1, NextPriced, NextBooked DEF MoneyInv
<1>3. MoneyInv'
  BY <1>1, <1>2 DEF MoneyInv
<1>4. QED
  BY <1>1, <1>3, NextBalance

LEMMA SpecMoney == Spec => [](MoneyInv /\ BalanceIsProfit)
  BY InitMoney, NextMoney, PTL DEF Spec

-----------------------------------------------------------------------------

\* The sum of the movements of the bankroll is what the settlements say the real
\* bets have earned, less the stakes of those still open or under review, after
\* any number of bets placed and settled by any number of processes.
THEOREM BalanceMatchesProfits == Spec => []BalanceIsProfit
  BY SpecMoney, PTL

LEMMA OneOrTwo ==
  ASSUME NEW i, NEW j
  PROVE  Cardinality({i}) = 1 /\ (i # j => Cardinality({i, j}) = 2)
<1>1. IsFiniteSet({i}) /\ Cardinality({i}) = 1
  BY FS_Singleton
<1>2. CASE i # j
  <2>1. Cardinality({i} \cup {j}) = Cardinality({i}) + 1
    BY <1>1, <1>2, FS_AddElement
  <2>2. {i} \cup {j} = {i, j}
    OBVIOUS
  <2>3. QED
    BY <1>1, <2>1, <2>2
<1>3. QED
  BY <1>1, <1>2

LEMMA BookedIsCounted ==
  ASSUME NEW b \in Bets, Booked(b)
  PROVE  LET real == bet[b].mode = "real"
             paid == real /\ settlement[b].status \in {"won", "void"}
         IN /\ real => Moved(b, "bet_placed", -bet[b].stake)
            /\ paid => Moved(b, PayoutReason[settlement[b].status], settlement[b].payout)
            /\ Cardinality(Movements(b)) = IF paid THEN 2 ELSE IF real THEN 1 ELSE 0
<1> DEFINE Of(reason, amount) ==
             {i \in Movements(b) : ledger[i].reason = reason /\ ledger[i].amount = amount}
<1>1. CASE bet[b].mode # "real"
  BY <1>1, FS_EmptySet DEF Booked
<1>2. CASE bet[b].mode = "real" /\ ~IsPaid(b)
  <2>1. PICK i : Movements(b) = {i} /\ StakeMovement(b, i)
    BY <1>2 DEF Booked
  <2>2. Of("bet_placed", -bet[b].stake) = {i}
    BY <2>1 DEF StakeMovement
  <2>3. Moved(b, "bet_placed", -bet[b].stake) /\ Cardinality(Movements(b)) = 1
    BY <2>1, <2>2, OneOrTwo DEF Moved
  <2>4. QED
    BY <1>2, <2>3 DEF IsPaid
<1>3. CASE bet[b].mode = "real" /\ IsPaid(b)
  <2>1. PICK i, j : i # j /\ Movements(b) = {i, j} /\ StakeMovement(b, i) /\ PayoutMovement(b, j)
    BY <1>3 DEF Booked
  <2>2. PayoutReason[settlement[b].status] # "bet_placed"
    BY <1>3 DEF IsPaid, PayoutReason
  <2>3. Of("bet_placed", -bet[b].stake) = {i}
    BY <2>1, <2>2 DEF StakeMovement, PayoutMovement
  <2>4. Of(PayoutReason[settlement[b].status], settlement[b].payout) = {j}
    BY <2>1, <2>2 DEF StakeMovement, PayoutMovement
  <2>5. Moved(b, "bet_placed", -bet[b].stake)
    BY <2>3, OneOrTwo DEF Moved
  <2>6. Moved(b, PayoutReason[settlement[b].status], settlement[b].payout)
    BY <2>4, OneOrTwo DEF Moved
  <2>7. Cardinality(Movements(b)) = 2
    <3>1. Cardinality({i, j}) = 2
      BY <2>1, OneOrTwo
    <3>2. QED
      BY <2>1, <3>1
  <2>8. settlement[b].status \in {"won", "void"}
    BY <1>3 DEF IsPaid
  <2>9. QED
    BY <1>3, <2>5, <2>6, <2>7, <2>8, Zenon
<1>4. QED
  BY <1>1, <1>2, <1>3

\* The bankroll moves once when a real bet is placed and once when it is won or
\* void, never for a trial bet and never for anything else, whoever wins the race
\* to settle it.
THEOREM MovementsFollowBets == Spec => []LedgerFollowsBets
<1>1. MoneyInv => LedgerFollowsBets
  BY BookedIsCounted DEF MoneyInv, LedgerFollowsBets
<1>2. QED
  BY <1>1, SpecMoney, PTL

-----------------------------------------------------------------------------
(* The book of BetBook.                                                    *)

LEMMA CashType == MoneyInv /\ BalanceIsProfit => Balance(Len(ledger)) \in Int
  BY EarnedType DEF BalanceIsProfit, Earned

LEMMA PlacedIsPlace ==
  ASSUME MoneyInv, BalanceIsProfit, NEW b \in Bets, NEW mode \in Modes, NEW slip \in Slips,
         NEW rec \in Recs \cup {NoRec}, NEW seen \in Nat, Placed(b, mode, slip, rec),
         ledger' = Movement(mode, b, "bet_placed", -slip.stake, seen)
  PROVE  \E stake \in {s.stake : s \in Slips} \cup {0} : Book!Place(b, stake)
<1>0. IInv /\ BookInv /\ Balance(Len(ledger)) \in Int
  BY CashType DEF MoneyInv, IInv
<1>1. /\ bet[b].mode = "none" /\ settlement[b].status = "none"
      /\ settlement'[b].status = "none"
      /\ bet'[b].mode = mode /\ bet'[b].stake = slip.stake
      /\ slip.stake \in Nat \ {0}
      /\ \A c \in Bets : c # b => bet'[c] = bet[c] /\ settlement'[c] = settlement[c]
  BY <1>0, PlacedRow
<1>2. Phase(b) = "absent" /\ Phase(b)' = "open"
  BY <1>1 DEF Phase, Exists, Modes, FinalStatuses
<1>3. \A c \in Bets : c # b => Phase(c)' = Phase(c) /\ AtRisk(c)' = AtRisk(c)
  BY <1>1 DEF Phase, Exists, AtRisk
<1>4. PICK stake : stake = IF mode = "real" THEN slip.stake ELSE 0
  OBVIOUS
<1>5. AtRisk(b)' = stake /\ stake \in {s.stake : s \in Slips} \cup {0}
  BY <1>1, <1>4 DEF AtRisk
<1>6. Balance(Len(ledger))' = Balance(Len(ledger)) - stake
  BY <1>0, <1>1, <1>4, PlacedCash
<1>7. [c \in Bets |-> Phase(c)]' = [[c \in Bets |-> Phase(c)] EXCEPT ![b] = "open"]
  BY <1>2, <1>3
<1>8. [c \in Bets |-> AtRisk(c)]' = [[c \in Bets |-> AtRisk(c)] EXCEPT ![b] = stake]
  BY <1>3, <1>5
<1>9. QED
  BY <1>2, <1>5, <1>6, <1>7, <1>8 DEF Book!Place

LEMMA SettledIsClose ==
  ASSUME MoneyInv, BalanceIsProfit, NEW b \in Bets, NEW who \in Apis \cup Runners,
         NEW results \in Seq(LegResults), NEW seen \in Nat, Settled(b, results, who),
         ledger' = PayoutLedger(b, Aggregate(results), seen)
  PROVE  Book!Close(b) \/ Book!Review(b)
<1> DEFINE status == Aggregate(results)
<1>0. IInv /\ BookInv /\ Balance(Len(ledger)) \in Int
  BY CashType DEF MoneyInv, IInv
<1>1. /\ bet[b].mode \in Modes
      /\ bet[b].stake \in Nat \ {0} /\ bet[b].odds \in Nat \ {0}
      /\ settlement[b].status = "none"
      /\ bet'[b].mode = bet[b].mode /\ bet'[b].stake = bet[b].stake
      /\ settlement'[b] = NewSettlement(b, status)
      /\ \A c \in Bets : c # b => bet'[c] = bet[c] /\ settlement'[c] = settlement[c]
  BY <1>0, SettledRow
<1>2. status \in FinalStatuses \cup {"manual_review"}
  BY AggregateType
<1>3. IF bet[b].mode = "real" /\ status \in {"won", "void"}
        THEN /\ Balance(Len(ledger))' = Balance(Len(ledger)) + settlement'[b].payout
             /\ settlement'[b].payout \in Int
        ELSE Balance(Len(ledger))' = Balance(Len(ledger))
  BY <1>0, SettledCash
<1> HIDE DEF status
<1>4. settlement'[b].status = status /\ settlement'[b].payout = Payout(b, status)
  BY <1>1 DEF NewSettlement
<1>5. Phase(b) = "open" /\ Phase(b)' = IF status = "manual_review" THEN "review" ELSE "closed"
  BY <1>1, <1>2, <1>4 DEF Phase, Exists, Modes, FinalStatuses
<1>6. \A c \in Bets : c # b => Phase(c)' = Phase(c)
  BY <1>1 DEF Phase, Exists
<1>7. \A c \in Bets : AtRisk(c)' = AtRisk(c)
  BY <1>1 DEF AtRisk
<1>8. [c \in Bets |-> Phase(c)]' = [[c \in Bets |-> Phase(c)] EXCEPT ![b] = Phase(b)']
  BY <1>6
<1>9. [c \in Bets |-> AtRisk(c)]' = [c \in Bets |-> AtRisk(c)]
  BY <1>7
<1>10. CASE status = "manual_review"
  BY <1>3, <1>5, <1>8, <1>9, <1>10 DEF Book!Review
<1>11. CASE status # "manual_review"
  <2>1. status \in {"won", "void"} => settlement'[b].payout >= bet[b].stake
    <3>1. bet[b].stake * bet[b].odds >= bet[b].stake
      BY <1>1
    <3>2. QED
      BY <1>1, <1>4, <3>1 DEF Payout
  <2>2. PICK x \in Int, y \in Int : x = Balance(Len(ledger)) /\ y = Balance(Len(ledger))'
    <3>1. Balance(Len(ledger))' \in Int
      BY <1>0, <1>3
    <3>2. QED
      BY <1>0, <3>1
  <2>3. CASE bet[b].mode = "real" /\ status \in {"won", "void"}
    <3>1. y >= x + AtRisk(b)
      BY <1>1, <1>3, <2>1, <2>2, <2>3 DEF AtRisk
    <3>2. AtRisk(b) # 0
      BY <1>1, <2>3 DEF AtRisk
    <3>3. QED
      BY <1>5, <1>8, <1>9, <1>11, <2>2, <3>1, <3>2 DEF Book!Close
  <2>4. CASE ~(bet[b].mode = "real" /\ status \in {"won", "void"})
    BY <1>3, <1>5, <1>8, <1>9, <1>11, <2>4 DEF Book!Close
  <2>5. QED
    BY <2>3, <2>4
<1>12. QED
  BY <1>10, <1>11

\* The bets of all the processes together are one book: each takes its stake from
\* the bankroll when it is placed, and is closed or sent to review once, which
\* returns nothing, the stake, or more, and nothing for a trial bet.
THEOREM BetsImplementTheBook == Spec => ImplementsBetBook
<1>1. ASSUME Init PROVE Book!Init
  <2>1. Balance(Len(ledger)) = 0
    <3>1. PICK f : f = [i \in 1..0 |-> ledger[i].amount]
      OBVIOUS
    <3>2. f \in [1..0 -> Int] /\ Len(ledger) = 0
      BY <1>1, <3>1 DEF Init
    <3>3. QED
      BY <3>1, <3>2, TotalEmpty DEF Balance
  <2>2. \A b \in Bets : Phase(b) = "absent" /\ bet[b].mode # "real"
    BY <1>1 DEF Init, NoBet, NoSettlement, Phase, Exists, FinalStatuses
  <2>3. QED
    BY <2>1, <2>2 DEF Book!Init, AtRisk
<1>2. ASSUME MoneyInv, BalanceIsProfit, [Next]_vars
      PROVE  [Book!Next]_<<[b \in Bets |-> Phase(b)], [b \in Bets |-> AtRisk(b)],
                           Balance(Len(ledger))>>
  <2>1. LedgerStep
    BY <1>2, NextIsLedgerStep DEF MoneyInv
  <2>2. CASE UNCHANGED <<bet, settlement, ledger>>
    BY <2>2 DEF Phase, Exists, AtRisk, Balance
  <2>3. ASSUME NEW b \in Bets, NEW mode \in Modes, NEW slip \in Slips,
               NEW rec \in Recs \cup {NoRec}, NEW seen \in Nat, Placed(b, mode, slip, rec),
               ledger' = Movement(mode, b, "bet_placed", -slip.stake, seen)
        PROVE  Book!Next
    BY <1>2, <2>3, PlacedIsPlace DEF Book!Next
  <2>4. ASSUME NEW b \in Bets, NEW who \in Apis \cup Runners, NEW results \in Seq(LegResults),
               NEW seen \in Nat, Settled(b, results, who),
               ledger' = PayoutLedger(b, Aggregate(results), seen)
        PROVE  Book!Next
    BY <1>2, <2>4, SettledIsClose DEF Book!Next
  <2>5. QED
    BY <2>1, <2>2, <2>3, <2>4 DEF LedgerStep
<1>3. QED
  BY <1>1, <1>2, SpecMoney, PTL DEF Spec, ImplementsBetBook, Book!Spec

=============================================================================
