------------------------------- MODULE BetBook ------------------------------
(***************************************************************************)
(* What the book of bets promises to the owner of the bankroll: money      *)
(* leaves when a bet is placed and comes back at most once, when the bet   *)
(* is closed; it is all of the stake or nothing, or more when the bet is   *)
(* won; a bet under review moves no money and is not reopened.             *)
(***************************************************************************)
EXTENDS Integers

CONSTANTS
  Bets,
  Stakes   \* what a bet may take from the bankroll

VARIABLES
  phase,    \* of each bet: absent, open, review or closed
  atRisk,   \* what each bet has taken from the bankroll: 0 for trial bets
  cash      \* the bankroll, counted from where it started

Init ==
  /\ phase = [b \in Bets |-> "absent"]
  /\ atRisk = [b \in Bets |-> 0]
  /\ cash = 0

Place(b, stake) ==
  /\ phase[b] = "absent"
  /\ phase' = [phase EXCEPT ![b] = "open"]
  /\ atRisk' = [atRisk EXCEPT ![b] = stake]
  /\ cash' = cash - stake

Close(b) ==
  /\ phase[b] = "open"
  /\ phase' = [phase EXCEPT ![b] = "closed"]
  /\ UNCHANGED atRisk
  /\ cash' = cash \/ cash' >= cash + atRisk[b]
  /\ atRisk[b] = 0 => cash' = cash

Review(b) ==
  /\ phase[b] = "open"
  /\ phase' = [phase EXCEPT ![b] = "review"]
  /\ UNCHANGED <<atRisk, cash>>

Next == \E b \in Bets : Close(b) \/ Review(b) \/ \E stake \in Stakes \cup {0} : Place(b, stake)

Spec == Init /\ [][Next]_<<phase, atRisk, cash>>

=============================================================================
