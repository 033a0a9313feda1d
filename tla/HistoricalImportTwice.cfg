\* Two rows match one Person.
SPECIFICATION MCFairSpec
CONSTANTS
  None = None
  e1 = e1
  e2 = e2
  m1 = m1
  m2 = m2
  n1 = n1
  n2 = n2
  ev = ev
  b1 = b1
  b2 = b2
  Scenarios = {"twice"}
  MembershipBatch = {b1}
  EventbriteBatch = {}
  Rows = 2
  Source <- MCSource
  Numbered = 3
  FirstPeople <- MCFirstPeople
  NewIdentity <- MCNewIdentity
  Event <- MCEvent
  MaxChanges = 0
  MaxCrashes = 0
  MayPostEarly = FALSE
  Importer = {i1}
  External = {x1}
  Participant = {1}
  MaxRows = 1
INVARIANTS FilledOnce
CHECK_DEADLOCK FALSE
