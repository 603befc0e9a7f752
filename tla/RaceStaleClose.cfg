\* Two processes race on one slot: a close decided on an old read expires a candidate observed later.
CONSTANTS
  s1 = s1
  s2 = s2
  s3 = s3
  e1 = e1
  e2 = e2
  Slots = {s1}
  Events = {e1}
  EventOf <- MCEventOf
  StoredEvents = {e1}
  Procs = {p1, p2}
  Decisions = {d1, d2}
  NoDecision = NoDecision
  NoSlot = NoSlot
  MaxTime = 3
  MaxAttempts = 3
SPECIFICATION Spec
PROPERTIES StaleObservationIgnored
