\* One process: passes over two slots of one event, in every order of three instants.
CONSTANTS
  s1 = s1
  s2 = s2
  s3 = s3
  e1 = e1
  e2 = e2
  Slots = {s1, s2}
  Events = {e1}
  EventOf <- MCEventOf
  StoredEvents = {e1}
  Procs = {p1}
  Decisions = {d1, d2}
  NoDecision = NoDecision
  NoSlot = NoSlot
  MaxTime = 3
  MaxAttempts = 3
SPECIFICATION Spec
INVARIANT TypeOK
PROPERTIES CompletedPassSettles StaleObservationIgnored
