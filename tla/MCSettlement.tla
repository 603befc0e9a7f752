---------------------------- MODULE MCSettlement ----------------------------
(***************************************************************************)
(* Values for the constants of Settlement: single bets, combined bets that *)
(* can win, lose, be void or need a review, a selection nobody recognizes, *)
(* and a slip with two legs on one event, which must be refused.           *)
(***************************************************************************)
EXTENDS Settlement, TLC

CONSTANTS e1, e2

Slip1(e, pick, stake) ==
  [type |-> "simple", legs |-> <<[event |-> e, pick |-> pick]>>, stake |-> stake, odds |-> 2]

Slip2(p1, p2) ==
  [type |-> "compound", legs |-> <<[event |-> e1, pick |-> p1], [event |-> e2, pick |-> p2]>>,
   stake |-> 3, odds |-> 3]

TwiceOneEvent ==
  [type |-> "compound", legs |-> <<[event |-> e1, pick |-> "home"], [event |-> e1, pick |-> "draw"]>>,
   stake |-> 3, odds |-> 3]

MCCombined == {Slip1(e1, "home", 2), Slip2("home", "away")}
MCSingles == {Slip1(e1, "home", 2), TwiceOneEvent}
MCDue == {Slip1(e1, "home", 2), Slip1(e1, "unknown", 2)}

MCSymmetry == Permutations(Apis) \cup Permutations(Runners)

=============================================================================
