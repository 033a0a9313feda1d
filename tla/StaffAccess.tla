----------------------------- MODULE StaffAccess -----------------------------
(***************************************************************************)
(* staff_access: staff roles, their assignments to users and the audit of  *)
(* them, as the Django admin site changes them.  An assignment is revoked  *)
(* and reactivated, never deleted, and one active CRM_ADMIN assignment     *)
(* must remain.                                                            *)
(*                                                                         *)
(* A revocation locks, counts and writes in one transaction.  What it has  *)
(* locked is held from BeginRevoke to FinishRevoke; the other transactions *)
(* decide and write under their locks and are one step, which waits.       *)
(***************************************************************************)
EXTENDS Naturals, FiniteSets

CONSTANTS User,        \* user accounts
          Role,        \* staff roles
          CRM_ADMIN,   \* the role that must keep an active assignment
          Clerk,       \* requests that can run at the same time
          MayOverlap   \* may assignments change while a change form is open?

ASSUME StaffAssumption ==
  IsFiniteSet(User) /\ CRM_ADMIN \in Role /\ MayOverlap \in BOOLEAN

Assignment == User \X Role
Idle == {}
NoForm == <<>>

VARIABLES row,         \* StaffRoleAssignment: "none", "active", "revoked"
          roleActive,  \* StaffRole.is_active
          selected,    \* clerk: the assignments an open revocation has locked
          form,        \* clerk: the assignment a change form has loaded
          event        \* assignment: its last AuditEvent

vars == <<row, roleActive, selected, form, event>>

ActionOf == {"NONE", "STAFF_ROLE_ASSIGNED", "STAFF_ROLE_REVOKED", "STAFF_ROLE_REACTIVATED"}

(* The first administrator is assigned in the admin site, by a superuser.   *)
Init ==
  /\ \E admins \in (SUBSET User) \ {{}} :
       LET assigned == admins \X {CRM_ADMIN}
       IN  /\ row = [a \in Assignment |-> IF a \in assigned THEN "active" ELSE "none"]
           /\ event = [a \in Assignment |-> IF a \in assigned THEN "STAFF_ROLE_ASSIGNED" ELSE "NONE"]
  /\ roleActive = [r \in Role |-> TRUE]
  /\ selected = [c \in Clerk |-> Idle]
  /\ form = [c \in Clerk |-> NoForm]

-----------------------------------------------------------------------------
(* StaffRoleAssignmentQuerySet.active.                                      *)
Active == {a \in Assignment : row[a] = "active" /\ roleActive[a[2]]}

(* get_active_staff_role_codes_for_user: what the permission classes ask.   *)
StaffRoleCodes(u) == {r \in Role : <<u, r>> \in Active}

(* A revocation locks the CRM_ADMIN role, then the selected assignments     *)
(* joined with their roles.                                                 *)
RoleLocked(r) ==
  \E c \in Clerk : selected[c] # Idle /\ r \in {CRM_ADMIN} \cup {a[2] : a \in selected[c]}

RowLocked(a) == \E c \in Clerk : a \in selected[c]

Free(c) == selected[c] = Idle /\ form[c] = NoForm

(* No change form is open that would write an assignment back.              *)
Undisturbed == MayOverlap \/ \A c \in Clerk : form[c] = NoForm

EffectiveAdmins(A) == {a \in A \cap Active : a[2] = CRM_ADMIN}

(* The final administrator is protected.                                    *)
MayRevoke(A) ==
  EffectiveAdmins(A) # {} => Cardinality(EffectiveAdmins(A)) < Cardinality(EffectiveAdmins(Active))

(* Mutation of BeginRevoke: the revocation locks nothing before it counts.  *)
BeginRevokeUnlocked(c, A) ==
  /\ Free(c) /\ Undisturbed
  /\ MayRevoke(A)
  /\ selected' = [selected EXCEPT ![c] = A]
  /\ UNCHANGED <<row, roleActive, form, event>>

(* revoke_staff_role_assignments up to its count: a refusal leaves no trace.*)
BeginRevoke(c, A) ==
  /\ Free(c) /\ Undisturbed
  /\ \A r \in {CRM_ADMIN} \cup {a[2] : a \in A} : ~RoleLocked(r)
  /\ \A a \in A : row[a] # "none" /\ ~RowLocked(a)
  /\ MayRevoke(A)
  /\ selected' = [selected EXCEPT ![c] = A]
  /\ UNCHANGED <<row, roleActive, form, event>>

(* ... and its writes: those still active are revoked and audited.          *)
FinishRevoke(c) ==
  LET revoked == {a \in selected[c] : row[a] = "active"}
  IN  /\ selected[c] # Idle
      /\ row' = [a \in Assignment |-> IF a \in revoked THEN "revoked" ELSE row[a]]
      /\ event' = [a \in Assignment |-> IF a \in revoked THEN "STAFF_ROLE_REVOKED" ELSE event[a]]
      /\ selected' = [selected EXCEPT ![c] = Idle]
      /\ UNCHANGED <<roleActive, form>>

(* reactivate_selected_assignments: the selected ones that are inactive.    *)
Reactivate(A) ==
  /\ A # {} /\ Undisturbed
  /\ \A a \in A : row[a] = "revoked" /\ ~RoleLocked(a[2])
  /\ row' = [a \in Assignment |-> IF a \in A THEN "active" ELSE row[a]]
  /\ event' = [a \in Assignment |-> IF a \in A THEN "STAFF_ROLE_REACTIVATED" ELSE event[a]]
  /\ UNCHANGED <<roleActive, selected, form>>

(* The add form: a new assignment, or the one that is there reactivated.    *)
Assign(u, r) ==
  /\ ~RoleLocked(r) /\ Undisturbed
  /\ row[<<u, r>>] # "active"
  /\ row' = [row EXCEPT ![<<u, r>>] = "active"]
  /\ event' = [event EXCEPT ![<<u, r>>] =
                 IF row[<<u, r>>] = "none" THEN "STAFF_ROLE_ASSIGNED" ELSE "STAFF_ROLE_REACTIVATED"]
  /\ UNCHANGED <<roleActive, selected, form>>

(* Mutation of SetRole: the CRM_ADMIN role is not protected.                *)
SetAnyRole(r) ==
  /\ ~RoleLocked(r)
  /\ roleActive' = [roleActive EXCEPT ![r] = ~roleActive[r]]
  /\ UNCHANGED <<row, selected, form, event>>

(* The role form, and deactivate_staff_role.                                *)
SetRole(r) ==
  /\ ~RoleLocked(r)
  /\ roleActive[r] => r # CRM_ADMIN
  /\ roleActive' = [roleActive EXCEPT ![r] = ~roleActive[r]]
  /\ UNCHANGED <<row, selected, form, event>>

(* The change form has no field to edit, but saving it is an update of      *)
(* every column of the row as the request read it.                          *)
LoadForm(c, a) ==
  /\ Free(c)
  /\ MayOverlap \/ \A d \in Clerk : selected[d] = Idle
  /\ row[a] # "none"
  /\ form' = [form EXCEPT ![c] = <<a, row[a]>>]
  /\ UNCHANGED <<row, roleActive, selected, event>>

SaveForm(c) ==
  /\ form[c] # NoForm
  /\ ~RowLocked(form[c][1])
  /\ row' = [row EXCEPT ![form[c][1]] = form[c][2]]
  /\ form' = [form EXCEPT ![c] = NoForm]
  /\ UNCHANGED <<roleActive, selected, event>>

Next ==
  \/ \E c \in Clerk : \E A \in (SUBSET Assignment) \ {{}} : BeginRevoke(c, A)
  \/ \E c \in Clerk : FinishRevoke(c) \/ SaveForm(c)
  \/ \E A \in SUBSET Assignment : Reactivate(A)
  \/ \E u \in User, r \in Role : Assign(u, r)
  \/ \E r \in Role : SetRole(r)
  \/ \E c \in Clerk, a \in Assignment : LoadForm(c, a)

Spec == Init /\ [][Next]_vars

-----------------------------------------------------------------------------
TypeOK ==
  /\ row \in [Assignment -> {"none", "active", "revoked"}]
  /\ roleActive \in [Role -> BOOLEAN]
  /\ selected \in [Clerk -> SUBSET Assignment]
  /\ form \in [Clerk -> {NoForm} \cup (Assignment \X {"active", "revoked"})]
  /\ event \in [Assignment -> ActionOf]

(* "At least one active CRM_ADMIN assignment must remain": whatever is      *)
(* revoked, reactivated, assigned and deactivated at the same time, some    *)
(* user can still act as a CRM administrator.                               *)
AdminRemains == \E u \in User : CRM_ADMIN \in StaffRoleCodes(u)

(* Two revocations never hold the same assignments, and what one of them    *)
(* has counted is still true when it writes: it leaves an administrator     *)
(* outside the assignments it is about to revoke.                           *)
CountStillHolds ==
  \A c \in Clerk : selected[c] # Idle => EffectiveAdmins(Active \ selected[c]) # {}

(* The last audit event of an assignment says whether it is active: no      *)
(* change of who may use the CRM goes unrecorded.                           *)
AuditTellsState ==
  \A a \in Assignment :
    /\ row[a] = "none" <=> event[a] = "NONE"
    /\ row[a] = "revoked" <=> event[a] = "STAFF_ROLE_REVOKED"

-----------------------------------------------------------------------------
(* A revocation has locked the CRM_ADMIN role, so there is only one.        *)
OneRevocation ==
  \A c, d \in Clerk : selected[c] # Idle /\ selected[d] # Idle => c = d

(* Only assignments that exist are selected.                                *)
SelectedExist == \A c \in Clerk : \A a \in selected[c] : row[a] # "none"

(* An open change form holds the row as it is, and no revocation is open.   *)
FormsAreFresh ==
  \A c \in Clerk : form[c] # NoForm =>
    /\ form[c][2] = row[form[c][1]]
    /\ \A d \in Clerk : selected[d] = Idle

RoleStays == roleActive[CRM_ADMIN]

(* The inductive invariant, as long as assignments do not change while a    *)
(* change form is open.                                                     *)
IInv ==
  /\ TypeOK /\ RoleStays /\ AdminRemains /\ CountStillHolds /\ AuditTellsState
  /\ OneRevocation /\ SelectedExist /\ FormsAreFresh
=============================================================================
