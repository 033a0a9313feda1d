\* A worker that outlives the stale window settles a job it no longer owns.
SPECIFICATION Spec
CONSTANTS
  Person = {p1}
  Worker = {w1, w2}
  NoOwner = NoOwner
  MaxJobs = 2
  MaxEdits = 1
  MaxAttempts = 2
  MaxCrashes = 1
INVARIANTS ProfileReachesBrevo
CHECK_DEADLOCK FALSE
