----------------------------- MODULE MCBackfill ------------------------------
(***************************************************************************)
(* Values for the constants of Backfill: two slots, one of them spelled in *)
(* two ways.                                                               *)
(***************************************************************************)
EXTENDS Backfill, TLC

CONSTANTS home, homeSpelled, away

MCNorm == (home :> home) @@ (homeSpelled :> home) @@ (away :> away)

=============================================================================
