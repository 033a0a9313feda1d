\* Brevo: two workers in time, two jobs, two crashes; Mailchimp: two workers, two People who may share an address; process: three jobs in batches of two.
SPECIFICATION MCSpec
CONSTANTS
  NoOwner = NoOwner
  Worker = {w1, w2}
  MaxJobs = 2
  MaxAttempts = 3
  StaleAfter = 2
  Backoff <- MCBackoff
  MaxCrashes = 2
  Person = {p, q}
  Email = {e, f}
  None = None
  MaxClaims = 2
  MaxChanges = 1
  MailAttempts = 2
  MailCrashes = 0
  MayChangeEmail = FALSE
  Queued = {1, 2, 3}
  NoJob = 0
  Requested = 3
  MAX_WORKER_BATCH_SIZE = 2
  MaxFaults = 2
SYMMETRY Symmetry
INVARIANTS IInv LeaseHeldByOne NoResultIsLost
PROPERTIES DoneStaysDone LeaseContract ConsentIsApplied LinkedToOne
CHECK_DEADLOCK FALSE
