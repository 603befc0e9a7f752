\* Two overlapping requests to register.
CONSTANTS
  e1 = e1
  e2 = e2
  Events = {e1}
  NoResult = NoResult
  MaxBets = 2
  Slips <- MCSingles
  Apis = {a1, a2}
  Runners = {}
  Mortal = {}
  NoRec = NoRec
  Recs = {}
  NoAmount = NoAmount
  Nobody = Nobody
SPECIFICATION Spec
INVARIANTS BalanceAfterIsRunning
