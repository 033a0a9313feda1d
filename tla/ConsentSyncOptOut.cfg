\* Two preference changes, stalled workers, late requests; profile edits and a crash when workers are in time.
SPECIFICATION MCSpec
CONSTANTS
  Person = {p1}
  Worker = {w1, w2}
  NoOwner = NoOwner
  MaxJobs = 2
  MaxEdits = 1
  MaxAttempts = 2
  MaxCrashes = 1
SYMMETRY Symmetry
INVARIANTS IInvInTime OptOutReachesBrevo ProfileReachesBrevoInTime
PROPERTIES NeverResubscribes LeaseInTime
CHECK_DEADLOCK FALSE
