\* Four offers on three events, and a limit of three legs.
CONSTANTS
  Events = {e1, e2, e3}
  Kinds <- MCKinds
  Unit = 4
  MaxOdds = 4
  MaxLegs = 3
  MaxOffers = 4
  Growth <- LogGrowth
SPECIFICATION Spec
SYMMETRY MCSymmetry
INVARIANTS NothingBetter LimitSparesTheBestSimple
PROPERTIES DiscardedDoNotMatter
\* Once every offer has come and gone nothing is left to decide.
CHECK_DEADLOCK FALSE
