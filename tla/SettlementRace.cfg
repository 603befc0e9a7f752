\* One bet, single or combined: a request and two runners race to settle it.
CONSTANTS
  e1 = e1
  e2 = e2
  Events = {e1, e2}
  NoResult = NoResult
  MaxBets = 1
  Slips <- MCCombined
  Apis = {a1}
  Runners = {r1, r2}
  Mortal = {r1, r2}
  NoRec = NoRec
  Recs = {}
  NoAmount = NoAmount
  Nobody = Nobody
SPECIFICATION Spec
SYMMETRY MCSymmetry
INVARIANTS TypeOK SettlementMatchesLegs StatusFollowsSettlement BalanceIsProfit SettledOnStandingResults OutcomesAreTrue
PROPERTIES SettlementIsFinal ImplementsBetBook
