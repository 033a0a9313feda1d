\* A preference job that runs while the Person is archived is skipped for good.
SPECIFICATION Spec
CONSTANTS
  Person = {p1}
  Worker = {w1, w2}
  NoOwner = NoOwner
  MaxJobs = 1
  MaxEdits = 0
  MaxAttempts = 2
  MaxCrashes = 0
INVARIANTS OptedOutNotMarketed
CHECK_DEADLOCK FALSE
