-------------------------- MODULE TrialCycleProofs --------------------------
(***************************************************************************)
(* Proofs about TrialCycle, for any slots, events and requests.            *)
(*                                                                         *)
(* The bets and recommendations change in three ways: a request adds a bet *)
(* that is nobody's execution, a pending bet ends, or a cycle adds a       *)
(* recommendation with its bet.  The third keeps the book in order because *)
(* of what the scheduler knows between Look and Commit (LookHolds): the    *)
(* events it chooses from are scheduled, and none of its bets is pending   *)
(* on them.  Nobody else moves events or adds such a bet.                  *)
(***************************************************************************)
EXTENDS TrialCycle, SequenceTheorems, FiniteSetTheorems, FunctionTheorems, TLAPS

OneBetPerRec ==
  \A b, c \in DOMAIN bet : bet[b].rec # NoRec /\ bet[b].rec = bet[c].rec => b = c

EveryRecBets ==
  \A r \in DOMAIN rec : rec[r] # {} => \E b \in DOMAIN bet : bet[b].rec = r

BetsMatchRecs ==
  \A b \in DOMAIN bet : FromCycle(b) =>
    bet[b].mode = "trial" /\ bet[b].events = EventsOf(rec[bet[b].rec])

RecsSpread ==
  \A r \in DOMAIN rec : \A s, t \in rec[r] : EventOf[s] = EventOf[t] => s = t

BookInv ==
  /\ OneBetPerRec
  /\ EveryRecBets
  /\ BetsMatchRecs
  /\ RecsSpread
  /\ OneCycleBetPerEvent

LookHolds ==
  tick.phase = "deciding" =>
    \A s \in tick.seen :
      /\ status[EventOf[s]] = "scheduled"
      /\ \A b \in DOMAIN bet :
           FromCycle(b) /\ Pending(b) => EventOf[s] \notin bet[b].events

IInv == TypeOK /\ BookInv /\ LookHolds

-----------------------------------------------------------------------------
(* Types.                                                                  *)

LEMMA Appended ==
  ASSUME NEW S, NEW seq \in Seq(S), NEW x \in S
  PROVE  /\ Append(seq, x) \in Seq(S)
         /\ DOMAIN Append(seq, x) = DOMAIN seq \cup {Len(seq) + 1}
         /\ Len(seq) + 1 \notin DOMAIN seq
         /\ \A i \in DOMAIN seq : Append(seq, x)[i] = seq[i]
         /\ Append(seq, x)[Len(seq) + 1] = x
<1>1. /\ Append(seq, x) \in Seq(S)
      /\ Len(Append(seq, x)) = Len(seq) + 1
      /\ \A i \in 1..Len(seq) : Append(seq, x)[i] = seq[i]
      /\ Append(seq, x)[Len(seq) + 1] = x
  BY AppendProperties
<1>2. /\ Len(seq) \in Nat
      /\ DOMAIN seq = 1..Len(seq)
      /\ DOMAIN Append(seq, x) = 1..(Len(seq) + 1)
  BY <1>1, LenProperties
<1>3. QED
  BY <1>1, <1>2

LEMMA TickType ==
  ASSUME NEW phase \in Phases, NEW at \in Times, NEW seen \in SUBSET Slots
  PROVE  Tick(phase, at, seen) \in [phase: Phases, at: Times, seen: SUBSET Slots]
  BY DEF Tick

LEMMA EligibleType ==
  ASSUME NEW now
  PROVE  Eligible(now) \subseteq Slots
  BY DEF Eligible

LEMMA InitTypes == Init => TypeOK
<1>1. 0 \in Times
  BY TimeAssumption DEF Times
<1>2. SUFFICES ASSUME Init PROVE TypeOK
  OBVIOUS
<1>3. tick \in [phase: Phases, at: Times, seen: SUBSET Slots]
  BY <1>1, <1>2, TickType DEF Init, Phases
<1>4. <<>> \in Seq(SUBSET Slots) /\ <<>> \in Seq(BetRow) /\ DOMAIN <<>> = {}
  OBVIOUS
<1>5. QED
  BY <1>1, <1>2, <1>3, <1>4 DEF Init, TypeOK

\* Every step but Commit leaves the recommendations alone, and most leave the bets.
LEMMA NextTypes == TypeOK /\ [Next]_vars => TypeOK'
<1> SUFFICES ASSUME TypeOK, [Next]_vars PROVE TypeOK'
  OBVIOUS
<1> USE DEF TypeOK
<1>0. 0 \in Times /\ tick.at \in Times
  BY TimeAssumption DEF Times
<1>1. CASE StartTick
  BY <1>1, TickType DEF StartTick, Phases
<1>2. CASE Ingest
  <2>1. status' \in [Events -> Statuses]
    BY <1>2 DEF Ingest
  <2>2. QED
    BY <1>2, <2>1 DEF Ingest
<1>3. CASE EndIngest
  BY <1>3 DEF EndIngest, Phases
<1>4. ASSUME NEW b \in 1..MaxBets, SettleBet(b) \/ SettleByHand(b) PROVE TypeOK'
  <2>1. PICK ending \in {"closed", "review"} :
          b \in DOMAIN bet /\ bet' = [bet EXCEPT ![b].phase = ending]
    BY <1>4 DEF SettleBet, SettleByHand, Endings, Due
  <2>2. bet[b] \in BetRow
    BY <2>1
  <2>3. [bet[b] EXCEPT !.phase = ending] \in BetRow
    BY <2>1, <2>2 DEF BetRow
  <2>4. bet' \in Seq(BetRow) /\ DOMAIN bet' = DOMAIN bet
    <3>1. b \in 1..Len(bet)
      BY <2>1, LenProperties
    <3>2. bet' = [bet EXCEPT ![b] = [bet[b] EXCEPT !.phase = ending]]
      BY <2>1
    <3>3. [bet EXCEPT ![b] = [bet[b] EXCEPT !.phase = ending]] \in Seq(BetRow)
      BY <2>3, <3>1, ExceptSeq
    <3>4. QED
      BY <3>2, <3>3
  <2>5. \A c \in DOMAIN bet : bet'[c].rec = bet[c].rec
    BY <2>1, <2>2 DEF BetRow
  <2>6. QED
    BY <1>4, <2>4, <2>5 DEF SettleBet, SettleByHand
<1>5. CASE Look
  BY <1>0, <1>5, TickType, EligibleType DEF Look, Phases
<1>6. CASE Commit
  <2>1. PICK slots \in Decisions(tick.seen) :
          /\ rec' = Append(rec, slots)
          /\ \/ slots = {} /\ UNCHANGED bet
             \/ slots # {} /\ bet' = Append(bet, [mode |-> "trial", events |-> EventsOf(slots),
                                                 rec |-> Len(rec) + 1, phase |-> "open"])
    BY <1>6 DEF Commit, Recommend, TrialBet
  <2>2. slots \in SUBSET Slots
    BY <2>1 DEF Decisions
  <2>3. rec' \in Seq(SUBSET Slots) /\ DOMAIN rec' = DOMAIN rec \cup {Len(rec) + 1}
    BY <2>1, <2>2, Appended
  <2>4. Len(rec) \in Nat
    BY LenProperties
  <2>5. [mode |-> "trial", events |-> EventsOf(slots), rec |-> Len(rec) + 1, phase |-> "open"]
          \in BetRow
    BY <2>2, <2>4, OfferAssumption DEF BetRow, EventsOf
  <2>6. bet' \in Seq(BetRow) /\ \A b \in DOMAIN bet' : bet'[b].rec = NoRec \/ bet'[b].rec \in DOMAIN rec'
    <3>1. CASE slots = {}
      BY <2>1, <2>3, <3>1
    <3>2. CASE slots # {}
      <4> DEFINE new == [mode |-> "trial", events |-> EventsOf(slots),
                         rec |-> Len(rec) + 1, phase |-> "open"]
      <4>1. bet' = Append(bet, new) /\ new \in BetRow /\ new.rec = Len(rec) + 1
        BY <2>1, <2>5, <3>2
      <4> HIDE DEF new
      <4>2. /\ bet' \in Seq(BetRow)
            /\ DOMAIN bet' = DOMAIN bet \cup {Len(bet) + 1}
            /\ \A i \in DOMAIN bet : bet'[i] = bet[i]
            /\ bet'[Len(bet) + 1] = new
        BY <4>1, Appended
      <4>3. QED
        BY <2>3, <4>1, <4>2
    <3>3. QED
      BY <3>1, <3>2
  <2>7. tick' \in [phase: Phases, at: Times, seen: SUBSET Slots]
    BY <1>0, <1>6, TickType DEF Commit, Phases
  <2>8. QED
    BY <1>6, <2>3, <2>6, <2>7 DEF Commit
<1>7. CASE FailTick \/ Leave \/ Interrupt \/ Restart
  <2>1. tick' \in [phase: Phases, at: Times, seen: SUBSET Slots]
    BY <1>0, <1>7, TickType DEF FailTick, Leave, Interrupt, Restart, Phases
  <2>2. QED
    BY <1>7, <2>1 DEF FailTick, Leave, Interrupt, Restart
<1>8. CASE RequestStop
  BY <1>8 DEF RequestStop
<1>9. CASE Elapse
  BY <1>9, TimeAssumption DEF Elapse, Times
<1>10. ASSUME NEW s \in Slots, Observe(s) \/ Withdraw(s) PROVE TypeOK'
  <2>1. 0..clock \subseteq Times
    BY TimeAssumption DEF Times
  <2>2. PICK t \in Times \cup {Closed} : offer' = [offer EXCEPT ![s] = t]
    BY <1>10, <2>1 DEF Observe, Withdraw
  <2>3. offer' \in [Slots -> Times \cup {Closed}]
    BY <2>2
  <2>4. QED
    BY <1>10, <2>3 DEF Observe, Withdraw
<1>11. CASE RegisterBet
  <2>1. PICK ask \in Requests :
          /\ RecFree(ask.rec)
          /\ bet' = Append(bet, [mode |-> ask.mode, events |-> {ask.event}, rec |-> ask.rec,
                                 phase |-> "open"])
    BY <1>11 DEF RegisterBet
  <2> DEFINE new == [mode |-> ask.mode, events |-> {ask.event}, rec |-> ask.rec, phase |-> "open"]
  <2>2. new \in BetRow
    BY RequestAssumption DEF BetRow
  <2>3. new.rec = NoRec \/ new.rec \in DOMAIN rec
    <3>1. ask.rec \in Nat /\ DOMAIN rec = 1..Len(rec) /\ Len(rec) \in Nat
      BY RequestAssumption, LenProperties
    <3>2. QED
      BY <2>1, <3>1 DEF RecFree, NoRec
  <2>4. /\ bet' \in Seq(BetRow)
        /\ DOMAIN bet' = DOMAIN bet \cup {Len(bet) + 1}
        /\ \A i \in DOMAIN bet : bet'[i] = bet[i]
        /\ bet'[Len(bet) + 1] = new
    BY <2>1, <2>2, Appended
  <2>5. QED
    BY <1>11, <2>3, <2>4 DEF RegisterBet
<1>12. CASE UNCHANGED vars
  BY <1>12 DEF vars
<1>13. QED
  BY <1>1, <1>2, <1>3, <1>4, <1>5, <1>6, <1>7, <1>8, <1>9, <1>10, <1>11, <1>12
  DEF Next, RunnerNext, Operator, Others

\* The types hold for any slots, events, requests and bounds.
THEOREM TrialTypes == Spec => []TypeOK
  BY InitTypes, NextTypes, PTL DEF Spec

-----------------------------------------------------------------------------
(* The book of recommendations and bets.                                   *)

\* What every step but Commit does to the bets of the cycles: none appears, none
\* becomes pending, none moves to another event.
NoNewCycleBet ==
  \A b \in DOMAIN bet' : FromCycle(b)' =>
    /\ b \in DOMAIN bet
    /\ FromCycle(b)
    /\ bet'[b].events = bet[b].events
    /\ Pending(b)' => Pending(b)

LEMMA RequestKeepsBook ==
  ASSUME TypeOK, BookInv, NEW new \in BetRow, RecFree(new.rec),
         bet' = Append(bet, new), UNCHANGED rec
  PROVE  BookInv' /\ NoNewCycleBet
<1>1. /\ DOMAIN bet' = DOMAIN bet \cup {Len(bet) + 1}
      /\ Len(bet) + 1 \notin DOMAIN bet
      /\ \A i \in DOMAIN bet : bet'[i] = bet[i]
      /\ bet'[Len(bet) + 1] = new
  BY Appended DEF TypeOK
<1>2. \/ new.rec = NoRec
      \/ new.rec \in DOMAIN rec /\ \A b \in DOMAIN bet : bet[b].rec # new.rec
  <2>1. new.rec \in Nat /\ Len(rec) \in Nat /\ DOMAIN rec = 1..Len(rec)
    BY LenProperties DEF BetRow, TypeOK
  <2>2. QED
    BY <2>1 DEF RecFree, NoRec
<1>3. \A c \in DOMAIN bet' : c \notin DOMAIN bet => ~FromCycle(c)'
  BY <1>1, <1>2 DEF FromCycle, BookInv, EveryRecBets
<1>4. \A b \in DOMAIN bet : (FromCycle(b)' <=> FromCycle(b)) /\ (Pending(b)' <=> Pending(b))
  BY <1>1 DEF FromCycle, Pending
<1>5. NoNewCycleBet
  BY <1>1, <1>3, <1>4 DEF NoNewCycleBet
<1>6. OneBetPerRec'
  BY <1>1, <1>2 DEF BookInv, OneBetPerRec
<1>7. EveryRecBets'
  <2> SUFFICES ASSUME NEW r \in DOMAIN rec, rec[r] # {} PROVE \E b \in DOMAIN bet' : bet'[b].rec = r
    BY DEF EveryRecBets
  <2>1. PICK b \in DOMAIN bet : bet[b].rec = r
    BY DEF BookInv, EveryRecBets
  <2>2. QED
    BY <1>1, <2>1
<1>8. BetsMatchRecs'
  BY <1>1, <1>3, <1>4 DEF BookInv, BetsMatchRecs
<1>9. RecsSpread'
  BY DEF BookInv, RecsSpread
<1>10. OneCycleBetPerEvent'
  BY <1>5 DEF NoNewCycleBet, BookInv, OneCycleBetPerEvent
<1>11. QED
  BY <1>5, <1>6, <1>7, <1>8, <1>9, <1>10 DEF BookInv

LEMMA EndingKeepsBook ==
  ASSUME TypeOK, BookInv, NEW b \in DOMAIN bet, NEW ending \in {"closed", "review"},
         bet[b].phase = "open", bet' = [bet EXCEPT ![b].phase = ending], UNCHANGED rec
  PROVE  BookInv' /\ NoNewCycleBet
<1>1. /\ DOMAIN bet' = DOMAIN bet
      /\ \A c \in DOMAIN bet : /\ bet'[c].rec = bet[c].rec
                              /\ bet'[c].events = bet[c].events
                              /\ bet'[c].mode = bet[c].mode
                              /\ c # b => bet'[c] = bet[c]
  <2>1. DOMAIN bet = 1..Len(bet) /\ \A c \in DOMAIN bet : bet[c] \in BetRow
    BY LenProperties, ElementOfSeq DEF TypeOK
  <2>2. QED
    BY <2>1 DEF BetRow
<1>2. \A c \in DOMAIN bet : (FromCycle(c)' <=> FromCycle(c)) /\ (Pending(c)' => Pending(c))
  BY <1>1 DEF FromCycle, Pending
<1>3. NoNewCycleBet
  BY <1>1, <1>2 DEF NoNewCycleBet
<1>4. OneBetPerRec' /\ EveryRecBets' /\ RecsSpread'
  BY <1>1 DEF BookInv, OneBetPerRec, EveryRecBets, RecsSpread
<1>5. BetsMatchRecs'
  BY <1>1, <1>2 DEF BookInv, BetsMatchRecs
<1>6. OneCycleBetPerEvent'
  BY <1>3 DEF NoNewCycleBet, BookInv, OneCycleBetPerEvent
<1>7. QED
  BY <1>3, <1>4, <1>5, <1>6 DEF BookInv

\* A cycle that decides not to bet leaves a recommendation that nothing executes.
LEMMA NoBetKeepsBook ==
  ASSUME TypeOK, BookInv, rec' = Append(rec, {}), UNCHANGED bet
  PROVE  BookInv'
<1>1. /\ DOMAIN rec' = DOMAIN rec \cup {Len(rec) + 1}
      /\ \A i \in DOMAIN rec : rec'[i] = rec[i]
      /\ rec'[Len(rec) + 1] = {}
  BY Appended DEF TypeOK
<1>2. \A b \in DOMAIN bet : FromCycle(b)' => FromCycle(b)
  BY <1>1 DEF FromCycle, TypeOK
<1>3. OneBetPerRec' /\ EveryRecBets' /\ RecsSpread'
  BY <1>1 DEF BookInv, OneBetPerRec, EveryRecBets, RecsSpread
<1>4. BetsMatchRecs'
  BY <1>1, <1>2 DEF BookInv, BetsMatchRecs, FromCycle, TypeOK
<1>5. OneCycleBetPerEvent'
  BY <1>2 DEF BookInv, OneCycleBetPerEvent, Pending
<1>6. QED
  BY <1>3, <1>4, <1>5 DEF BookInv

\* A cycle that bets on slots whose events carry no pending bet of a cycle.
LEMMA BetKeepsBook ==
  ASSUME TypeOK, BookInv, NEW slots \in SUBSET Slots, slots # {},
         \A s, t \in slots : EventOf[s] = EventOf[t] => s = t,
         \A s \in slots : \A b \in DOMAIN bet :
           FromCycle(b) /\ Pending(b) => EventOf[s] \notin bet[b].events,
         NEW new \in BetRow, new.mode = "trial", new.events = EventsOf(slots),
         new.rec = Len(rec) + 1,
         rec' = Append(rec, slots), bet' = Append(bet, new)
  PROVE  BookInv'
<1> DEFINE r == Len(rec) + 1  b == Len(bet) + 1
<1>1. /\ DOMAIN rec' = DOMAIN rec \cup {r} /\ r \notin DOMAIN rec
      /\ \A i \in DOMAIN rec : rec'[i] = rec[i]
      /\ rec'[r] = slots
  BY Appended DEF TypeOK
<1>2. /\ DOMAIN bet' = DOMAIN bet \cup {b} /\ b \notin DOMAIN bet
      /\ \A i \in DOMAIN bet : bet'[i] = bet[i]
      /\ bet'[b] = new
  BY Appended DEF TypeOK
<1>3. r # NoRec
  BY LenProperties DEF TypeOK, NoRec
<1> HIDE DEF r, b
<1>4. new.rec = r
  BY DEF r
<1>5. \A c \in DOMAIN bet : bet[c].rec # r
  BY <1>1, <1>3 DEF TypeOK
<1>6. \A c \in DOMAIN bet : (FromCycle(c)' <=> FromCycle(c)) /\ (Pending(c)' <=> Pending(c))
  BY <1>1, <1>2 DEF FromCycle, Pending, TypeOK
<1>7. OneBetPerRec'
  BY <1>2, <1>4, <1>5 DEF BookInv, OneBetPerRec
<1>8. EveryRecBets'
  <2> SUFFICES ASSUME NEW q \in DOMAIN rec', rec'[q] # {}
               PROVE \E c \in DOMAIN bet' : bet'[c].rec = q
    BY DEF EveryRecBets
  <2>1. CASE q = r
    BY <1>2, <1>4, <2>1
  <2>2. CASE q \in DOMAIN rec
    <3>1. PICK c \in DOMAIN bet : bet[c].rec = q
      BY <1>1, <2>2 DEF BookInv, EveryRecBets
    <3>2. QED
      BY <1>2, <3>1
  <2>3. QED
    BY <1>1, <2>1, <2>2
<1>9. BetsMatchRecs'
  <2> SUFFICES ASSUME NEW c \in DOMAIN bet', FromCycle(c)'
               PROVE bet'[c].mode = "trial" /\ bet'[c].events = EventsOf(rec'[bet'[c].rec])
    BY DEF BetsMatchRecs, EventsOf
  <2>1. CASE c = b
    BY <1>1, <1>2, <1>4, <2>1
  <2>2. CASE c \in DOMAIN bet
    BY <1>1, <1>2, <1>6, <2>2 DEF BookInv, BetsMatchRecs, FromCycle, TypeOK
  <2>3. QED
    BY <1>2, <2>1, <2>2
<1>10. RecsSpread'
  BY <1>1 DEF BookInv, RecsSpread
<1>11. \A c \in DOMAIN bet : FromCycle(c) /\ Pending(c) => bet[c].events \cap new.events = {}
  BY DEF EventsOf
<1>12. OneCycleBetPerEvent'
  <2> SUFFICES ASSUME NEW c \in DOMAIN bet', NEW d \in DOMAIN bet',
                      FromCycle(c)', FromCycle(d)', Pending(c)', Pending(d)',
                      bet'[c].events \cap bet'[d].events # {}
               PROVE c = d
    BY DEF OneCycleBetPerEvent
  <2>1. CASE c \in DOMAIN bet /\ d \in DOMAIN bet
    BY <1>2, <1>6, <2>1 DEF BookInv, OneCycleBetPerEvent
  <2>2. CASE c = b /\ d \in DOMAIN bet
    BY <1>2, <1>6, <1>11, <2>2
  <2>3. CASE d = b /\ c \in DOMAIN bet
    BY <1>2, <1>6, <1>11, <2>3
  <2>4. QED
    BY <1>2, <2>1, <2>2, <2>3
<1>13. QED
  BY <1>7, <1>8, <1>9, <1>10, <1>12 DEF BookInv

-----------------------------------------------------------------------------
(* The steps.                                                              *)

LEMMA BookUntouched ==
  ASSUME BookInv, UNCHANGED <<rec, bet>>
  PROVE  BookInv' /\ NoNewCycleBet
<1>1. \A b \in DOMAIN bet : (FromCycle(b)' <=> FromCycle(b)) /\ (Pending(b)' <=> Pending(b))
  BY DEF FromCycle, Pending
<1>2. NoNewCycleBet
  BY <1>1 DEF NoNewCycleBet
<1>3. BetsMatchRecs' /\ OneCycleBetPerEvent'
  BY <1>1 DEF BookInv, BetsMatchRecs, OneCycleBetPerEvent, EventsOf
<1>4. QED
  BY <1>2, <1>3 DEF BookInv, OneBetPerRec, EveryRecBets, RecsSpread

LEMMA LookStays ==
  ASSUME LookHolds, NoNewCycleBet, UNCHANGED <<status, tick>>
  PROVE  LookHolds'
  BY DEF LookHolds, NoNewCycleBet

\* What Look sees.
LEMMA EligibleIsFree ==
  ASSUME BookInv, NEW now, NEW s \in Eligible(now)
  PROVE  /\ status[EventOf[s]] = "scheduled"
         /\ \A b \in DOMAIN bet :
              FromCycle(b) /\ Pending(b) => EventOf[s] \notin bet[b].events
  BY DEF Eligible, HeldEvents, BookInv, BetsMatchRecs

\* What Commit does, when it bets.
LEMMA CommitShape ==
  ASSUME TypeOK, Commit
  PROVE  \E slots \in Decisions(tick.seen) :
           \/ slots = {} /\ rec' = Append(rec, {}) /\ UNCHANGED bet
           \/ \E new \in BetRow :
                /\ slots # {}
                /\ new.mode = "trial" /\ new.events = EventsOf(slots) /\ new.rec = Len(rec) + 1
                /\ new.phase = "open"
                /\ rec' = Append(rec, slots) /\ bet' = Append(bet, new)
<1>1. PICK slots \in Decisions(tick.seen) :
        /\ rec' = Append(rec, slots)
        /\ \/ slots = {} /\ UNCHANGED bet
           \/ slots # {} /\ bet' = Append(bet, [mode |-> "trial", events |-> EventsOf(slots),
                                               rec |-> Len(rec) + 1, phase |-> "open"])
  BY DEF Commit, Recommend, TrialBet
<1>2. CASE slots = {}
  BY <1>1, <1>2
<1>3. CASE slots # {}
  <2> DEFINE new == [mode |-> "trial", events |-> EventsOf(slots),
                     rec |-> Len(rec) + 1, phase |-> "open"]
  <2>1. slots \subseteq Slots /\ Len(rec) \in Nat
    BY LenProperties DEF Decisions, TypeOK
  <2>2. /\ new \in BetRow /\ bet' = Append(bet, new)
        /\ new.mode = "trial" /\ new.events = EventsOf(slots) /\ new.rec = Len(rec) + 1
        /\ new.phase = "open"
    BY <1>1, <1>3, <2>1, OfferAssumption DEF BetRow, EventsOf
  <2> HIDE DEF new
  <2>3. QED
    BY <1>1, <1>3, <2>2
<1>4. QED
  BY <1>2, <1>3

LEMMA CommitKeepsBook ==
  ASSUME TypeOK, BookInv, LookHolds, Commit
  PROVE  BookInv' /\ LookHolds'
<1>1. PICK slots \in Decisions(tick.seen) :
        \/ slots = {} /\ rec' = Append(rec, {}) /\ UNCHANGED bet
        \/ \E new \in BetRow :
             /\ slots # {}
             /\ new.mode = "trial" /\ new.events = EventsOf(slots) /\ new.rec = Len(rec) + 1
             /\ rec' = Append(rec, slots) /\ bet' = Append(bet, new)
  BY CommitShape
<1>2. /\ slots \in SUBSET Slots
      /\ slots \subseteq tick.seen
      /\ \A s, t \in slots : EventOf[s] = EventOf[t] => s = t
  BY DEF Decisions, TypeOK
<1>3. \A s \in slots : \A b \in DOMAIN bet :
        FromCycle(b) /\ Pending(b) => EventOf[s] \notin bet[b].events
  BY <1>2 DEF LookHolds, Commit
<1>4. BookInv'
  <2>1. CASE slots = {} /\ rec' = Append(rec, {}) /\ UNCHANGED bet
    BY <2>1, NoBetKeepsBook
  <2>2. ASSUME NEW new \in BetRow, slots # {},
               new.mode = "trial", new.events = EventsOf(slots), new.rec = Len(rec) + 1,
               rec' = Append(rec, slots), bet' = Append(bet, new)
        PROVE  BookInv'
    BY <1>2, <1>3, <2>2, BetKeepsBook
  <2>3. QED
    BY <1>1, <2>1, <2>2
<1>5. tick'.phase # "deciding"
  BY DEF Commit, Tick
<1>6. QED
  BY <1>4, <1>5 DEF LookHolds

LEMMA RequestShape ==
  ASSUME TypeOK, RegisterBet
  PROVE  \E new \in BetRow : RecFree(new.rec) /\ bet' = Append(bet, new)
<1>1. PICK ask \in Requests :
        /\ RecFree(ask.rec)
        /\ bet' = Append(bet, [mode |-> ask.mode, events |-> {ask.event}, rec |-> ask.rec,
                               phase |-> "open"])
  BY DEF RegisterBet
<1> DEFINE new == [mode |-> ask.mode, events |-> {ask.event}, rec |-> ask.rec, phase |-> "open"]
<1>2. new \in BetRow /\ RecFree(new.rec) /\ bet' = Append(bet, new)
  BY <1>1, RequestAssumption DEF BetRow
<1> HIDE DEF new
<1>3. QED
  BY <1>2

LEMMA OtherStepsKeepBook ==
  ASSUME TypeOK, BookInv, LookHolds, [Next]_vars
  PROVE  Commit \/ (BookInv' /\ LookHolds' /\ NoNewCycleBet)
<1>1. CASE StartTick \/ Ingest \/ EndIngest \/ FailTick \/ Leave \/ Interrupt \/ Restart
  <2>1. BookInv' /\ NoNewCycleBet
    BY <1>1, BookUntouched
    DEF StartTick, Ingest, EndIngest, FailTick, Leave, Interrupt, Restart
  <2>2. tick'.phase # "deciding"
    BY <1>1 DEF StartTick, Ingest, EndIngest, FailTick, Leave, Interrupt, Restart, Tick, TypeOK
  <2>3. QED
    BY <2>1, <2>2 DEF LookHolds
<1>2. CASE Look
  <2>1. BookInv' /\ NoNewCycleBet
    BY <1>2, BookUntouched DEF Look
  <2>2. /\ tick'.seen = Eligible(tick.at)
        /\ UNCHANGED <<status, rec, bet>>
    BY <1>2 DEF Look, Tick
  <2>3. \A s \in Eligible(tick.at) :
          /\ status[EventOf[s]] = "scheduled"
          /\ \A b \in DOMAIN bet :
               FromCycle(b) /\ Pending(b) => EventOf[s] \notin bet[b].events
    BY EligibleIsFree
  <2>4. \A b \in DOMAIN bet : (FromCycle(b)' <=> FromCycle(b)) /\ (Pending(b)' <=> Pending(b))
    BY <2>2 DEF FromCycle, Pending
  <2>5. LookHolds'
    BY <2>2, <2>3, <2>4 DEF LookHolds
  <2>6. QED
    BY <2>1, <2>5
<1>3. ASSUME NEW b \in 1..MaxBets, SettleBet(b) \/ SettleByHand(b)
      PROVE  BookInv' /\ LookHolds' /\ NoNewCycleBet
  <2>1. PICK ending \in {"closed", "review"} :
          /\ b \in DOMAIN bet /\ bet[b].phase = "open"
          /\ bet' = [bet EXCEPT ![b].phase = ending]
    BY <1>3 DEF SettleBet, SettleByHand, Endings, Due
  <2>2. UNCHANGED <<status, rec, tick>>
    BY <1>3 DEF SettleBet, SettleByHand
  <2>3. BookInv' /\ NoNewCycleBet
    BY <2>1, <2>2, EndingKeepsBook
  <2>4. QED
    BY <2>2, <2>3, LookStays
<1>4. CASE RegisterBet
  <2>1. PICK new \in BetRow : RecFree(new.rec) /\ bet' = Append(bet, new)
    BY <1>4, RequestShape
  <2>2. UNCHANGED <<status, rec, tick>>
    BY <1>4 DEF RegisterBet
  <2>3. BookInv' /\ NoNewCycleBet
    BY <2>1, <2>2, RequestKeepsBook
  <2>4. QED
    BY <2>2, <2>3, LookStays
<1>5. CASE UNCHANGED <<status, rec, bet, tick>>
  BY <1>5, BookUntouched, LookStays
<1>6. (\/ RequestStop \/ Elapse \/ UNCHANGED vars \/ \E s \in Slots : Observe(s) \/ Withdraw(s))
        => UNCHANGED <<status, rec, bet, tick>>
  BY DEF RequestStop, Elapse, Observe, Withdraw, vars
<1>7. QED
  BY <1>1, <1>2, <1>3, <1>4, <1>5, <1>6 DEF Next, RunnerNext, Operator, Others

LEMMA InitBook == Init => BookInv /\ LookHolds
  BY DEF Init, BookInv, OneBetPerRec, EveryRecBets, BetsMatchRecs, RecsSpread,
         OneCycleBetPerEvent, LookHolds, Tick

LEMMA Inductive == IInv /\ [Next]_vars => IInv'
  BY NextTypes, OtherStepsKeepBook, CommitKeepsBook DEF IInv

LEMMA Invariance == Spec => []IInv
<1>1. Init => IInv
  BY InitTypes, InitBook DEF IInv
<1>2. QED
  BY <1>1, Inductive, PTL DEF Spec

\* However requests, failures, kills and restarts fall between the check and the
\* bet, the scheduler has at most one pending bet on each event.
THEOREM OnePendingBetPerEvent == Spec => []OneCycleBetPerEvent
<1>1. IInv => OneCycleBetPerEvent
  BY DEF IInv, BookInv
<1>2. QED
  BY <1>1, Invariance, PTL

LEMMA SpreadCardinality ==
  ASSUME NEW slots \in SUBSET Slots, \A s, t \in slots : EventOf[s] = EventOf[t] => s = t
  PROVE  Cardinality(EventsOf(slots)) = Cardinality(slots)
<1> DEFINE f == [s \in slots |-> EventOf[s]]
<1>1. f \in Injection(slots, EventsOf(slots))
  BY DEF Injection, IsInjective, EventsOf
<1>2. f \in Surjection(slots, EventsOf(slots))
  BY DEF Surjection, EventsOf
<1>3. ExistsBijection(slots, EventsOf(slots))
  BY <1>1, <1>2 DEF ExistsBijection, Bijection
<1>4. IsFiniteSet(slots)
  BY OfferAssumption, FS_Subset
<1>5. QED
  BY <1>3, <1>4, FS_Bijection

\* A recommendation to bet has exactly one bet, with its legs, in every
\* reachable state.
THEOREM RecommendationsGetTheirBet == Spec => []RecommendationsAreExecuted
<1>1. IInv => RecommendationsAreExecuted
  <2> SUFFICES ASSUME IInv, NEW r \in DOMAIN rec, rec[r] # {}
               PROVE  LET executions == {b \in DOMAIN bet : bet[b].rec = r}
                      IN /\ Cardinality(executions) = 1
                         /\ \A b \in executions :
                              /\ bet[b].mode = "trial"
                              /\ bet[b].events = EventsOf(rec[r])
                              /\ Cardinality(bet[b].events) = Cardinality(rec[r])
    BY DEF RecommendationsAreExecuted
  <2>1. r # NoRec
    BY LenProperties DEF IInv, TypeOK, NoRec
  <2>2. PICK b \in DOMAIN bet : bet[b].rec = r
    BY DEF IInv, BookInv, EveryRecBets
  <2>3. {c \in DOMAIN bet : bet[c].rec = r} = {b}
    BY <2>1, <2>2 DEF IInv, BookInv, OneBetPerRec
  <2>4. bet[b].mode = "trial" /\ bet[b].events = EventsOf(rec[r])
    BY <2>1, <2>2 DEF IInv, BookInv, BetsMatchRecs, FromCycle
  <2>5. rec[r] \in SUBSET Slots
    BY LenProperties, ElementOfSeq DEF IInv, TypeOK
  <2>6. Cardinality(EventsOf(rec[r])) = Cardinality(rec[r])
    BY <2>5, SpreadCardinality DEF IInv, BookInv, RecsSpread
  <2>7. QED
    BY <2>3, <2>4, <2>6, FS_Singleton
<1>2. QED
  BY <1>1, Invariance, PTL

\* No cycle ever bets on an event that has left "scheduled".
THEOREM CyclesBetBeforeTheEvent == Spec => CycleBetsBeforeTheEvent
<1>1. IInv /\ [Next]_vars =>
        [\A b \in DOMAIN bet' \ DOMAIN bet :
           FromCycle(b)' => \A e \in bet'[b].events : status[e] = "scheduled"]_vars
  <2> SUFFICES ASSUME IInv, [Next]_vars, NEW b \in DOMAIN bet' \ DOMAIN bet, FromCycle(b)'
               PROVE  \A e \in bet'[b].events : status[e] = "scheduled"
    OBVIOUS
  <2>1. Commit
    BY OtherStepsKeepBook DEF IInv, NoNewCycleBet
  <2>2. PICK slots \in Decisions(tick.seen) :
          \/ slots = {} /\ rec' = Append(rec, {}) /\ UNCHANGED bet
          \/ \E new \in BetRow :
               /\ slots # {}
               /\ new.mode = "trial" /\ new.events = EventsOf(slots) /\ new.rec = Len(rec) + 1
               /\ rec' = Append(rec, slots) /\ bet' = Append(bet, new)
    BY <2>1, CommitShape DEF IInv
  <2>3. PICK new \in BetRow : new.events = EventsOf(slots) /\ bet' = Append(bet, new)
    BY <2>2
  <2>4. bet'[b] = new
    BY <2>3, Appended DEF IInv, TypeOK
  <2>5. \A s \in slots : status[EventOf[s]] = "scheduled"
    BY <2>1 DEF Decisions, IInv, LookHolds, Commit
  <2>6. QED
    BY <2>3, <2>4, <2>5 DEF EventsOf
<1>2. QED
  BY <1>1, Invariance, PTL DEF Spec, CycleBetsBeforeTheEvent

-----------------------------------------------------------------------------
(* The refinement of Reservations.                                         *)

\* Holders names the recommendations whose pending bets are on the event.
HeldBy ==
  \A e \in Events : \A r :
    r \in Holders[e] <=> \E b \in DOMAIN bet : Holds(b, e) /\ bet[b].rec = r

LEMMA HolderKnown == HeldBy
  BY DEF HeldBy, Holders

LEMMA HolderKnownNext == HeldBy'
  BY HolderKnown, PTL

LEMMA HoldersByEvent ==
  /\ Holders = [e \in Events |-> Holders[e]]
  /\ Holders' = [e \in Events |-> Holders'[e]]
  BY DEF Holders

\* The steps that neither begin nor end a reservation.
LEMMA HoldersStay ==
  ASSUME \A b \in DOMAIN bet : b \in DOMAIN bet' /\ bet'[b].rec = bet[b].rec,
         \A b \in DOMAIN bet, e \in Events : Holds(b, e)' <=> Holds(b, e),
         \A b \in DOMAIN bet', e \in Events : b \notin DOMAIN bet => ~Holds(b, e)'
  PROVE  Holders' = Holders
<1>1. ASSUME NEW e \in Events PROVE Holders'[e] = Holders[e]
  <2>1. ASSUME NEW r PROVE r \in Holders'[e] <=> r \in Holders[e]
    BY HolderKnown, HolderKnownNext DEF HeldBy
  <2> QED
    BY <2>1
<1> QED
  BY <1>1, HoldersByEvent

LEMMA RequestReservesNothing ==
  ASSUME TypeOK, NEW new \in BetRow, bet' = Append(bet, new), UNCHANGED rec, NoNewCycleBet
  PROVE  Holders' = Holders
<1>1. /\ DOMAIN bet' = DOMAIN bet \cup {Len(bet) + 1}
      /\ \A i \in DOMAIN bet : bet'[i] = bet[i]
  BY Appended DEF TypeOK
<1>2. \A b \in DOMAIN bet, e \in Events : Holds(b, e)' <=> Holds(b, e)
  BY <1>1 DEF Holds, FromCycle, Pending
<1>3. \A b \in DOMAIN bet', e \in Events : b \notin DOMAIN bet => ~Holds(b, e)'
  BY DEF NoNewCycleBet, Holds
<1> QED
  BY <1>1, <1>2, <1>3, HoldersStay

\* A bet that ends gives all its events back, one that goes under review none.
LEMMA EndingReleases ==
  ASSUME TypeOK, BookInv, NEW b \in DOMAIN bet, NEW ending \in {"closed", "review"},
         bet[b].phase = "open", bet' = [bet EXCEPT ![b].phase = ending], UNCHANGED <<rec, status>>
  PROVE  Holders' = Holders \/ \E r \in 1..Len(rec) : Desk!Release(r)
<1>1. /\ DOMAIN bet' = DOMAIN bet
      /\ \A c \in DOMAIN bet : /\ bet'[c].rec = bet[c].rec
                               /\ bet'[c].events = bet[c].events
                               /\ c # b => bet'[c] = bet[c]
      /\ bet'[b].phase = ending
  <2>1. DOMAIN bet = 1..Len(bet) /\ \A c \in DOMAIN bet : bet[c] \in BetRow
    BY LenProperties, ElementOfSeq DEF TypeOK
  <2> QED
    BY <2>1 DEF BetRow
<1>2. \A c \in DOMAIN bet, e \in Events : c # b => (Holds(c, e)' <=> Holds(c, e))
  BY <1>1 DEF Holds, FromCycle, Pending
<1>3. CASE ending = "review" \/ ~FromCycle(b)
  <2>1. \A e \in Events : Holds(b, e)' <=> Holds(b, e)
    BY <1>1, <1>3 DEF Holds, FromCycle, Pending
  <2>2. \A c \in DOMAIN bet, e \in Events : Holds(c, e)' <=> Holds(c, e)
    BY <1>2, <2>1
  <2> QED
    BY <1>1, <2>2, HoldersStay
<1>4. CASE ending = "closed" /\ FromCycle(b)
  <2>1. PICK r : r = bet[b].rec
    OBVIOUS
  <2>2. r \in 1..Len(rec) /\ r # NoRec
    BY <1>4, <2>1, LenProperties DEF FromCycle, TypeOK
  <2>3. \A e \in Events : ~Holds(b, e)'
    BY <1>1, <1>4 DEF Holds, Pending
  <2>4. \A c \in DOMAIN bet : c # b => bet[c].rec # r
    BY <2>1, <2>2 DEF BookInv, OneBetPerRec
  <2>5. ASSUME NEW e \in Events PROVE Holders'[e] = Holders[e] \ {r}
    <3>1. ASSUME NEW q
          PROVE  q \in Holders'[e] <=> \E c \in DOMAIN bet : c # b /\ Holds(c, e) /\ bet[c].rec = q
      BY <1>1, <1>2, <2>3, HolderKnownNext DEF HeldBy
    <3>2. ASSUME NEW q PROVE q \in Holders'[e] <=> q \in Holders[e] /\ q # r
      BY <2>1, <2>4, <3>1, HolderKnown DEF HeldBy
    <3> QED
      BY <3>2
  <2>6. Holders' = [e \in Events |-> Holders[e] \ {r}]
    BY <2>5, HoldersByEvent
  <2> QED
    BY <2>2, <2>6 DEF Desk!Release
<1> QED
  BY <1>3, <1>4

\* What a cycle decides on it takes in one step, all of it scheduled and free.
LEMMA CommitIssues ==
  ASSUME TypeOK, LookHolds, Commit
  PROVE  \E es \in SUBSET Events : Desk!Issue(es)
<1>1. PICK slots \in Decisions(tick.seen) :
        \/ slots = {} /\ rec' = Append(rec, {}) /\ UNCHANGED bet
        \/ \E new \in BetRow :
             /\ slots # {}
             /\ new.mode = "trial" /\ new.events = EventsOf(slots) /\ new.rec = Len(rec) + 1
             /\ new.phase = "open"
             /\ rec' = Append(rec, slots) /\ bet' = Append(bet, new)
  BY CommitShape
<1>2. /\ slots \in SUBSET Slots /\ slots \subseteq tick.seen
      /\ Cardinality(slots) <= MaxLegs
      /\ \A s, t \in slots : EventOf[s] = EventOf[t] => s = t
  BY DEF Decisions, TypeOK
<1>3. PICK es : es = EventsOf(slots)
  OBVIOUS
<1>4. es \in SUBSET Events
  BY <1>2, <1>3, OfferAssumption DEF EventsOf
<1>5. Cardinality(es) <= MaxLegs
  BY <1>2, <1>3, SpreadCardinality
<1>6. \A e \in es : status[e] = "scheduled" /\ \A b \in DOMAIN bet : ~Holds(b, e)
  BY <1>2, <1>3 DEF LookHolds, Commit, EventsOf, Holds
<1>7. ASSUME NEW e \in es PROVE Holders[e] = {}
  <2>1. e \in Events /\ \A r : r \notin Holders[e]
    BY <1>4, <1>6, HolderKnown DEF HeldBy
  <2> QED
    BY <2>1
<1>8. /\ rec' = Append(rec, slots) /\ DOMAIN rec' = DOMAIN rec \cup {Len(rec) + 1}
      /\ Len(rec') = Len(rec) + 1 /\ Len(rec) \in Nat
      /\ \A r \in DOMAIN rec : rec'[r] = rec[r]
      /\ rec'[Len(rec) + 1] = slots
  <2>1. rec' = Append(rec, slots) /\ rec \in Seq(SUBSET Slots)
    BY <1>1 DEF TypeOK
  <2> QED
    BY <1>2, <2>1, Appended, AppendProperties, LenProperties
<1>9. \A b \in DOMAIN bet : FromCycle(b) <=> bet[b].rec # NoRec /\ rec'[bet[b].rec] # {}
  BY <1>8 DEF FromCycle, TypeOK
<1>10. ASSUME NEW e \in Events
       PROVE  Holders'[e] = IF e \in es THEN {Len(rec) + 1} ELSE Holders[e]
  <2>1. CASE slots = {} /\ UNCHANGED bet
    <3>1. e \notin es
      BY <1>3, <2>1 DEF EventsOf
    <3>2. \A b \in DOMAIN bet : Holds(b, e)' <=> Holds(b, e)
      BY <1>9, <2>1 DEF Holds, FromCycle, Pending
    <3>3. ASSUME NEW r PROVE r \in Holders'[e] <=> r \in Holders[e]
      BY <2>1, <3>2, HolderKnown, HolderKnownNext DEF HeldBy
    <3> QED
      BY <3>1, <3>3
  <2>2. ASSUME NEW new \in BetRow, slots # {}, new.phase = "open",
               new.events = EventsOf(slots), new.rec = Len(rec) + 1, bet' = Append(bet, new)
        PROVE  Holders'[e] = IF e \in es THEN {Len(rec) + 1} ELSE Holders[e]
    <3>1. PICK n : n = Len(bet) + 1
      OBVIOUS
    <3>2. /\ DOMAIN bet' = DOMAIN bet \cup {n} /\ n \notin DOMAIN bet
          /\ \A b \in DOMAIN bet : bet'[b] = bet[b]
          /\ bet'[n] = new
      BY <2>2, <3>1, Appended DEF TypeOK
    <3>3. \A b \in DOMAIN bet : Holds(b, e)' <=> Holds(b, e)
      BY <1>9, <3>2 DEF Holds, FromCycle, Pending
    <3>4. Holds(n, e)' <=> e \in es
      <4>1. FromCycle(n)'
        BY <1>8, <2>2, <3>2 DEF FromCycle, NoRec
      <4>2. Pending(n)'
        BY <2>2, <3>2 DEF Pending
      <4> QED
        BY <1>3, <2>2, <3>2, <4>1, <4>2 DEF Holds
    <3>5. ASSUME NEW r
          PROVE  r \in Holders'[e] <=> r \in Holders[e] \/ (e \in es /\ r = Len(rec) + 1)
      BY <2>2, <3>2, <3>3, <3>4, HolderKnown, HolderKnownNext DEF HeldBy
    <3> QED
      BY <1>7, <3>5
  <2> QED
    BY <1>1, <2>1, <2>2
<1>11. Holders' = [e \in Events |-> IF e \in es THEN {Len(rec) + 1} ELSE Holders[e]]
  BY <1>10, HoldersByEvent
<1>12. UNCHANGED status
  BY DEF Commit
<1>13. Desk!Issue(es)
  <2>1. Len(rec)' = Len(rec) + 1
    BY <1>8
  <2>2. \A e \in es : status[e] = "scheduled" /\ Holders[e] = {}
    BY <1>6, <1>7
  <2>3. Desk!Cardinality(es) = Cardinality(es)
    BY DEF Desk!Cardinality, Cardinality
  <2> QED
    BY <1>5, <1>11, <1>12, <2>1, <2>2, <2>3 DEF Desk!Issue
<1> QED
  BY <1>4, <1>13

LEMMA StepReserves ==
  ASSUME IInv, [Next]_vars
  PROVE  [Desk!Next]_<<status, Len(rec), Holders>>
<1> USE DEF IInv
<1>1. CASE UNCHANGED <<status, rec, bet>>
  BY <1>1 DEF Holders, Holds, FromCycle, Pending
<1>2. CASE Ingest
  <2>1. Holders' = Holders /\ UNCHANGED rec
    BY <1>2 DEF Ingest, Holders, Holds, FromCycle, Pending
  <2>2. PICK e \in Events : Desk!Move(e)
    BY <1>2, <2>1 DEF Ingest, Desk!Move, Desk!Statuses, Statuses,
       Desk!AllowedTransitions, AllowedTransitions
  <2> QED
    BY <2>2 DEF Desk!Next
<1>3. ASSUME NEW b \in 1..MaxBets, SettleBet(b) \/ SettleByHand(b)
      PROVE  [Desk!Next]_<<status, Len(rec), Holders>>
  <2>1. PICK ending \in {"closed", "review"} :
          /\ b \in DOMAIN bet /\ bet[b].phase = "open"
          /\ bet' = [bet EXCEPT ![b].phase = ending]
    BY <1>3 DEF SettleBet, SettleByHand, Endings, Due
  <2>2. UNCHANGED <<rec, status>>
    BY <1>3 DEF SettleBet, SettleByHand
  <2>3. Holders' = Holders \/ \E r \in 1..Len(rec) : Desk!Release(r)
    BY <2>1, <2>2, EndingReleases
  <2> QED
    BY <2>2, <2>3 DEF Desk!Next
<1>4. CASE RegisterBet
  <2>1. PICK new \in BetRow : RecFree(new.rec) /\ bet' = Append(bet, new)
    BY <1>4, RequestShape
  <2>2. UNCHANGED <<rec, status>>
    BY <1>4 DEF RegisterBet
  <2>3. NoNewCycleBet
    BY <2>1, <2>2, RequestKeepsBook
  <2>4. Holders' = Holders
    BY <2>1, <2>2, <2>3, RequestReservesNothing
  <2> QED
    BY <2>2, <2>4
<1>5. CASE Commit
  BY <1>5, CommitIssues DEF Desk!Next
<1>6. (\/ StartTick \/ EndIngest \/ Look \/ FailTick \/ Leave \/ Operator \/ Elapse
       \/ UNCHANGED vars \/ \E s \in Slots : Observe(s) \/ Withdraw(s))
        => UNCHANGED <<status, rec, bet>>
  BY DEF StartTick, EndIngest, Look, FailTick, Leave, Operator, RequestStop, Interrupt,
     Restart, Elapse, Observe, Withdraw, vars
<1> QED
  BY <1>1, <1>2, <1>3, <1>4, <1>5, <1>6 DEF Next, RunnerNext, Others

\* trial_service.py:85-115: for any slots, offers, requests and failures, the
\* scheduler takes the events of a bet as if it looked and wrote in one step, and
\* holds them until the bet has ended.
THEOREM CyclesImplementReservations == Spec => ImplementsReservations
<1>1. Init => Desk!Init
  <2> SUFFICES ASSUME Init PROVE Desk!Init
    OBVIOUS
  <2>1. rec = <<>> /\ bet = <<>> /\ DOMAIN bet = {} /\ Len(rec) = 0
    BY DEF Init
  <2>2. Holders = [e \in Events |-> {}]
    BY <2>1 DEF Holders
  <2> QED
    BY <2>1, <2>2 DEF Init, Desk!Init, Desk!Statuses, Statuses
<1>2. IInv /\ [Next]_vars => [Desk!Next]_<<status, Len(rec), Holders>>
  BY StepReserves
<1> QED
  BY <1>1, <1>2, Invariance, PTL DEF Spec, ImplementsReservations, Desk!Spec

=============================================================================
