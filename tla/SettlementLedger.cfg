\* Two bets registered, with or without a recommendation, and settled by two overlapping requests.
CONSTANTS
  e1 = e1
  e2 = e2
  Events = {e1}
  NoResult = NoResult
  MaxBets = 2
  Slips <- MCSingles
  Apis = {a1, a2}
  Runners = {}
  Mortal = {}
  NoRec = NoRec
  Recs = {rec1}
  NoAmount = NoAmount
  Nobody = Nobody
SPECIFICATION Spec
SYMMETRY MCSymmetry
INVARIANTS LedgerFollowsBets OneBetPerRecommendation
