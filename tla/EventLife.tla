------------------------------ MODULE EventLife -----------------------------
(***************************************************************************)
(* What the ingestion of results promises to the readers of the events     *)
(* table (settlement, the trial cycle): an event moves one way, towards    *)
(* finished or cancelled, and a row that got there is never written again. *)
(***************************************************************************)
EXTENDS EventRows

VARIABLE event   \* the events table: external_id -> row

Init == event \in [Events -> ConsistentRow]

Advance(e, row) ==
  /\ <<event[e].status, row.status>> \in AllowedTransitions
  /\ event' = [event EXCEPT ![e] = row]

Next == \E e \in Events : \E row \in ConsistentRow : Advance(e, row)

Spec == Init /\ [][Next]_event

=============================================================================
