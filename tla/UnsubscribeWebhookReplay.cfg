\* The same event is handled twice at the same time.
SPECIFICATION Spec
CONSTANTS
  Person = {p}
  Handler = {h1, h2}
  Clerk = {c1}
  Event = {e1}
  Stamped = {e1}
  MaxWrites = 2
  MaxFailures = 0
  None = None
INVARIANTS OncePerEvent
CHECK_DEADLOCK FALSE
