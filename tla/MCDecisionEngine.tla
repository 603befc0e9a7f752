------------------------- MODULE MCDecisionEngine --------------------------
(* Values of the constants of DecisionEngine for TLC, with quarters as the  *)
(* unit of probability.                                                     *)
EXTENDS DecisionEngine, KellyGrowth, TLC

\* Two offers that do not dominate each other, one dominated by the second, a
\* fair one, and one that cannot be priced.
MCPrices == {<<3, 2>>, <<2, 4>>, <<2, 3>>, <<2, 2>>, <<4, 2>>}

MCKinds == {[event |-> e, p |-> pr[1], odds |-> pr[2]] : e \in Events, pr \in MCPrices}

MCSymmetry == Permutations(Events)

=============================================================================
