\* Concurrent changes of roles and assignments; logins and recoveries; runs of createsuperuser.
SPECIFICATION MCSpec
CONSTANTS
  User = {ann, bob, cid}
  Role = {admin, viewer}
  CRM_ADMIN = admin
  Clerk = {c1, c2}
  Account = {1}
  NoAccount = 0
  Browser = {c1, c2}
  MaxResets = 2
  MaxLogins = 2
  MaxLinks = 1
  Run = {1, 2, 3}
  Spelling = {"ann@x", "Ann@x", "bob@x"}
  Normal <- Lower
  MaxPeople = 4
  MayOverlap = FALSE
SYMMETRY Symmetry
INVARIANTS RevocationsAreSafe AdminRemains AccessIsAudited RecoveryIsFinal AccountsMatchPeople
PROPERTIES StaysSwitchedOff
CHECK_DEADLOCK FALSE
