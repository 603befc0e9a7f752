---------------------------- MODULE MCTrialCycle ----------------------------
(***************************************************************************)
(* Values for the constants of TrialCycle: event e1 has one or two slots   *)
(* and starts first.                                                       *)
(***************************************************************************)
EXTENDS TrialCycle

CONSTANTS e1, e2, s1, s2, s3

MCEventOf == [s \in Slots |-> IF s = s3 THEN e2 ELSE e1]

MCRequests ==
  { [mode |-> "trial", event |-> e1, rec |-> 0], [mode |-> "real", event |-> e2, rec |-> 1] }

MCStart == [e \in Events |-> IF e = e1 THEN 1 ELSE 2]

=============================================================================
