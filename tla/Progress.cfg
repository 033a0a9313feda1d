\* Fair workers, web processes and provider; crashes, failures, deadlocks and stops.
SPECIFICATION MCFairSpec
CONSTANTS
  Person = {p}
  Email = {e, f}
  None = None
  Worker = {w1}
  MaxAttempts = 2
  MaxClaims = 4
  MaxChanges = 1
  MaxCrashes = 1
  MayChangeEmail = TRUE
  NoOwner = NoOwner
  Handler = {h1, h2}
  Clerk = {c1}
  Happening = {e1, e2}
  Stamped = {e1}
  Importer = {i1, i2}
  External = {x1, x2}
PROPERTIES JobsEnd RequestsEnd
CHECK_DEADLOCK FALSE
