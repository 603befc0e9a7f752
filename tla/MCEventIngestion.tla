-------------------------- MODULE MCEventIngestion --------------------------
(***************************************************************************)
(* Values for the constants of EventIngestion: two stored events and one   *)
(* that is not, well-formed updates that contradict each other about e1,   *)
(* and one of each malformed kind.                                         *)
(***************************************************************************)
EXTENDS EventIngestion

CONSTANTS e1, e2, e3

About(e, status, result) == [id |-> e, status |-> status, result |-> result]

MCUpdates ==
  { About(e1, "scheduled", NoResult),
    About(e1, "live", NoResult),
    About(e1, "finished", "home_win"),
    About(e1, "finished", "draw"),
    About(e1, "cancelled", NoResult),
    About(e2, "finished", "away_win"),
    About(e3, "live", NoResult),
    About(e1, "postponed", NoResult),
    About(e1, "finished", NoResult),
    About(e1, "finished", "abandoned"),
    About(e1, "live", "home_win") }

=============================================================================
