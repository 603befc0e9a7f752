\* Two processes race on slot s1 and may give up; s3 belongs to an event not stored.
CONSTANTS
  s1 = s1
  s2 = s2
  s3 = s3
  e1 = e1
  e2 = e2
  Slots = {s1, s3}
  Events = {e1, e2}
  EventOf <- MCEventOf
  StoredEvents = {e1}
  Procs = {p1, p2}
  Decisions = {d1, d2}
  NoDecision = NoDecision
  NoSlot = NoSlot
  MaxTime = 2
  MaxAttempts = 2
SPECIFICATION FairSpec
INVARIANTS LifecycleInv
PROPERTIES RowsOnlyAdvance ImplementsSlotBook PassTerminates
