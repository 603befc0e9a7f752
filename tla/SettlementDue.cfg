\* The scheduler r1, a request, and two bets, one of which may be unresolvable.
CONSTANTS
  e1 = e1
  e2 = e2
  Events = {e1}
  NoResult = NoResult
  MaxBets = 2
  Slips <- MCDue
  Apis = {a1}
  Runners = {r1}
  Mortal = {}
  NoRec = NoRec
  Recs = {}
  NoAmount = NoAmount
  Nobody = Nobody
SPECIFICATION FairSpec
PROPERTIES DueBetsSettle
