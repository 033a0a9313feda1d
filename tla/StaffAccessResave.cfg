\* A change form saved while another request reactivates or revokes.
SPECIFICATION Spec
CONSTANTS
  User = {ann, bob}
  Role = {admin, viewer}
  CRM_ADMIN = admin
  Clerk = {c1, c2}
  MayOverlap = TRUE
INVARIANTS AdminRemains
CHECK_DEADLOCK FALSE
