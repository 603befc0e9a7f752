------------------------------ MODULE EventRows -----------------------------
(***************************************************************************)
(* The vocabulary of the events table: the columns that ingestion writes   *)
(* and settlement reads, and the moves between them that are legal.        *)
(***************************************************************************)

CONSTANTS
  Events,     \* rows of the events table, named by external_id
  NoResult    \* the result column when it is NULL

Statuses == {"scheduled", "live", "finished", "cancelled"}

\* The keys of _RESULT_TO_SELECTION.
Results == {"home_win", "away_win", "draw"}

ASSUME NoResultAssumption == NoResult \notin Results

EventRow == [status: Statuses, result: Results \cup {NoResult}]

\* A result is stored with 'finished' and with nothing else.
Consistent(row) == (row.status = "finished") <=> (row.result # NoResult)

ConsistentRow == {row \in EventRow : Consistent(row)}

\* Mutants of AllowedTransitions: a forgotten pair; a result that can be corrected.
MutNeverCancelledLate == ({"scheduled", "live"} \X {"live", "finished"}) \ {<<"live", "live">>}

MutFinishedReopens ==
  (({"scheduled", "live"} \X {"live", "finished", "cancelled"}) \ {<<"live", "live">>})
    \cup {<<"finished", "cancelled">>}

\* _ALLOWED_TRANSITIONS as a set of pairs.
AllowedTransitions ==
  ({"scheduled", "live"} \X {"live", "finished", "cancelled"}) \ {<<"live", "live">>}

Terminal(row) == row.status \in {"finished", "cancelled"}

=============================================================================
