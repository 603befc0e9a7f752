\* The scheduler over two events, with requests, failures, kills and restarts.
CONSTANTS
  e1 = e1
  e2 = e2
  s1 = s1
  s2 = s2
  s3 = s3
  Events = {e1, e2}
  NoResult = NoResult
  Slots = {s1, s3}
  EventOf <- MCEventOf
  Start <- MCStart
  Requests <- MCRequests
  TTL = 0
  MaxTime = 1
  MaxRecs = 2
  MaxBets = 2
SPECIFICATION FairSpec
INVARIANTS TypeOK OneCycleBetPerEvent RecommendationsAreExecuted
PROPERTIES ImplementsReservations StopIsHeeded SettlementGoesOn
