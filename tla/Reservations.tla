---------------------------- MODULE Reservations ----------------------------
(***************************************************************************)
(* What the scheduler promises to whoever backs its recommendations: they  *)
(* are issued one after the other, each takes all its events in one step,  *)
(* at a moment when they are scheduled and no other holds them, and it     *)
(* gives them back all at once, when its bet has ended, for good.          *)
(***************************************************************************)
EXTENDS EventRows, Naturals, FiniteSets

CONSTANT MaxLegs   \* what a recommendation may hold

VARIABLES
  status,   \* status of each row of events
  issued,   \* how many recommendations there are
  holders   \* of each event: the recommendations that hold it

Init ==
  /\ status \in [Events -> Statuses]
  /\ issued = 0
  /\ holders = [e \in Events |-> {}]

Move(e) ==
  /\ \E new \in Statuses :
       /\ <<status[e], new>> \in AllowedTransitions
       /\ status' = [status EXCEPT ![e] = new]
  /\ UNCHANGED <<issued, holders>>

\* No events: a recommendation not to bet.
Issue(es) ==
  /\ issued' = issued + 1
  /\ Cardinality(es) <= MaxLegs
  /\ \A e \in es : status[e] = "scheduled" /\ holders[e] = {}
  /\ holders' = [e \in Events |-> IF e \in es THEN {issued + 1} ELSE holders[e]]
  /\ UNCHANGED status

Release(r) ==
  /\ UNCHANGED <<status, issued>>
  /\ holders' = [e \in Events |-> holders[e] \ {r}]

Next ==
  \/ \E e \in Events : Move(e)
  \/ \E es \in SUBSET Events : Issue(es)
  \/ \E r \in 1..issued : Release(r)

Spec == Init /\ [][Next]_<<status, issued, holders>>

=============================================================================
