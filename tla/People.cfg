\* Two requests on the records of one Person, two staff users on identities, a reader of histories and lists.
SPECIFICATION MCSpec
CONSTANTS
  Person = {ann}
  Kind = {"person", "membership", "note", "skill", "profile", "tag", "interest"}
  Value = {v1}
  Client = {c1, c2}
  None = None
  Email = {"e1"}
  MaxPeople = 3
  RaceNumber = {}
  RaceStyle = {"plain"}
  Signaller = {"a1"}
  SignalNumber = {"n1"}
  SignalStyle = {"plain", "spaced"}
  Listed = {1, 2, 3}
  ListedRecord <- Ordered
  ListedCatalog = {}
  ListedQuery <- PageQueries
  ListSize = 2
  Today = 24313
  Reported = {1, 2}
  ReportedRecord <- Varied
  ReportedCatalog <- Entries
  ReportedQuery <- VariedQueries
  Id = {1, 2, 3}
  Time = {1, 2}
  AuditKind <- TrailKinds
  Reader = "ann"
  PageSize = 1
SYMMETRY Symmetry
INVARIANTS ReadsAgree LastEventTellsState DuplicatesAreExplained HistoryIsTrue PagesAreComplete
PROPERTIES HistoryIsChain ArchivedStandsStill
CHECK_DEADLOCK FALSE
