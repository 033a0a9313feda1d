\* Two deliveries at a time race each other and two staff users; or one at a time.
SPECIFICATION MCSpec
CONSTANTS
  Person = {p, q}
  Handler = {h1, h2}
  Clerk = {c1, c2}
  Event = {e1, e2}
  Stamped = {e1}
  MaxWrites = 2
  MaxFailures = 1
  None = None
SYMMETRY Symmetry
INVARIANTS IInv HistoryIsMeaningful AckedIsKept OncePerEventInTurn
CHECK_DEADLOCK FALSE
