\* Membership Forms, Eventbrite orders, failed batches and single rows; uploads that are cut off, staff in between;
\* imports that share events.
SPECIFICATION MCFairSpec
CONSTANTS
  None = None
  e1 = e1
  e2 = e2
  m1 = m1
  m2 = m2
  n1 = n1
  n2 = n2
  ev = ev
  b1 = b1
  b2 = b2
  Scenarios = {"members", "buyers", "failing"}
  MembershipBatch = {b1}
  EventbriteBatch = {b2}
  Rows = 3
  Source <- MCSource
  Numbered = 6
  FirstPeople <- MCFirstPeople
  NewIdentity <- MCNewIdentity
  Event <- MCEvent
  MaxChanges = 2
  MaxCrashes = 1
  MayPostEarly = FALSE
  Importer = {i1, i2}
  External = {x1, x2}
  Participant = {1}
  MaxRows = 2
INVARIANTS StatusTellsRecords ImportedAtMostOnce ReviewedInTurn ProvenanceIsUnique RowsAreSound OneEventForAll
PROPERTIES StaffDecisionsStand ImportOnlyFills LifecycleInTurn
CHECK_DEADLOCK FALSE
