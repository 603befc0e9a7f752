----------------------- MODULE MCOpportunityLifecycle -----------------------
(* Values of the constants of OpportunityLifecycle for TLC: slots s1 and s2 *)
(* belong to event e1, slot s3 to event e2.                                 *)
EXTENDS OpportunityLifecycle, TLC

CONSTANTS s1, s2, s3, e1, e2

MCEventOf == [s \in Slots |-> IF s = s3 THEN e2 ELSE e1]

MCSymmetry == Permutations(Procs) \cup Permutations(Decisions)

=============================================================================
