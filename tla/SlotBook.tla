------------------------------ MODULE SlotBook ------------------------------
(***************************************************************************)
(* What the life cycle of opportunities promises to the readers of the     *)
(* table (TrialService, the API): per slot, a version number that counts   *)
(* up and at most one offer, the decision of the newest version while that *)
(* version is still a candidate.                                           *)
(***************************************************************************)
EXTENDS Integers

CONSTANTS Slots, Decisions, NoDecision

VARIABLES
  version,  \* number of versions each slot has had
  offer     \* the decision on offer in each slot, NoDecision when closed

Init ==
  /\ version = [s \in Slots |-> 0]
  /\ offer = [s \in Slots |-> NoDecision]

NextVersion(s, d) ==
  /\ version' = [version EXCEPT ![s] = @ + 1]
  /\ offer' = [offer EXCEPT ![s] = d]

\* A slot never seen, or closed, gets a new version with any decision.
Open(s, d) ==
  /\ offer[s] = NoDecision
  /\ NextVersion(s, d)

\* An open version is replaced only because odds or probability changed.
Reprice(s, d) ==
  /\ offer[s] # NoDecision
  /\ offer[s] # d
  /\ NextVersion(s, d)

Close(s) ==
  /\ offer[s] # NoDecision
  /\ offer' = [offer EXCEPT ![s] = NoDecision]
  /\ UNCHANGED version

Next == \E s \in Slots : Close(s) \/ \E d \in Decisions : Open(s, d) \/ Reprice(s, d)

Spec == Init /\ [][Next]_<<version, offer>>

=============================================================================
