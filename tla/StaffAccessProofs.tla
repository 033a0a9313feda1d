-------------------------- MODULE StaffAccessProofs --------------------------
(***************************************************************************)
(* Proofs about StaffAccess, for every set of users, roles and requests:   *)
(* unless assignments change while a change form is open, an administrator *)
(* remains and the audit trail says who is active.                         *)
(***************************************************************************)
EXTENDS MCStaffAccess, FiniteSetTheorems, FunctionTheorems, TLAPS

-----------------------------------------------------------------------------
(* There are finitely many administrators, however many roles there are.    *)
LEMMA AdminsAreFinite ==
  ASSUME NEW A PROVE IsFiniteSet(EffectiveAdmins(A))
  <1> DEFINE Pairs == {<<u, CRM_ADMIN>> : u \in User}
             f == [u \in User |-> <<u, CRM_ADMIN>>]
  <1>1. f \in Surjection(User, Pairs)
    BY DEF Surjection
  <1>2. IsFiniteSet(Pairs)
    BY <1>1, FS_Surjection, StaffAssumption
  <1>3. EffectiveAdmins(A) \subseteq Pairs
    BY DEF EffectiveAdmins, Active, Assignment
  <1> QED BY <1>2, <1>3, FS_Subset

(* What the count is for: a permitted revocation leaves an administrator    *)
(* outside the assignments it revokes.                                      *)
LEMMA CountLeavesOne ==
  ASSUME NEW A, MayRevoke(A), EffectiveAdmins(Active) # {}
  PROVE  EffectiveAdmins(Active \ A) # {}
  <1> SUFFICES ASSUME EffectiveAdmins(Active \ A) = {} PROVE FALSE
    OBVIOUS
  <1>1. EffectiveAdmins(Active) = EffectiveAdmins(A)
    BY DEF EffectiveAdmins
  <1>2. Cardinality(EffectiveAdmins(Active)) \in Nat
    BY AdminsAreFinite, FS_CardinalityType
  <1> QED BY <1>1, <1>2 DEF MayRevoke

(* The two ways to say that there is an administrator.                      *)
LEMMA AdminsAreUsers == AdminRemains <=> EffectiveAdmins(Active) # {}
  <1>1. ASSUME NEW u \in User, CRM_ADMIN \in StaffRoleCodes(u)
        PROVE  <<u, CRM_ADMIN>> \in EffectiveAdmins(Active)
    BY <1>1 DEF EffectiveAdmins, StaffRoleCodes
  <1>2. ASSUME NEW a \in EffectiveAdmins(Active)
        PROVE  a[1] \in User /\ CRM_ADMIN \in StaffRoleCodes(a[1])
    <2>1. a \in Active /\ a \in Assignment /\ a[2] = CRM_ADMIN
      BY DEF EffectiveAdmins, Active
    <2>2. a[1] \in User /\ CRM_ADMIN \in Role /\ a = <<a[1], CRM_ADMIN>>
      BY <2>1, StaffAssumption DEF Assignment
    <2> QED BY <2>1, <2>2 DEF StaffRoleCodes
  <1> QED BY <1>1, <1>2 DEF AdminRemains

-----------------------------------------------------------------------------
(* One administrator, and no transaction or form open.                      *)
THEOREM InitInv == Init => IInv
  <1> SUFFICES ASSUME Init PROVE IInv
    OBVIOUS
  <1>1. PICK admins \in (SUBSET User) \ {{}} :
          /\ row = [a \in Assignment |-> IF a \in admins \X {CRM_ADMIN} THEN "active" ELSE "none"]
          /\ event = [a \in Assignment |-> IF a \in admins \X {CRM_ADMIN}
                                           THEN "STAFF_ROLE_ASSIGNED" ELSE "NONE"]
    BY DEF Init
  <1>2. /\ roleActive = [r \in Role |-> TRUE]
        /\ selected = [c \in Clerk |-> Idle] /\ form = [c \in Clerk |-> NoForm]
    BY DEF Init
  <1>3. TypeOK
    BY <1>1, <1>2 DEF TypeOK, ActionOf, Idle
  <1>4. RoleStays
    BY <1>2, StaffAssumption DEF RoleStays
  <1>5. AdminRemains
    <2>1. PICK u \in admins : u \in User
      OBVIOUS
    <2>2. <<u, CRM_ADMIN>> \in Assignment /\ <<u, CRM_ADMIN>> \in admins \X {CRM_ADMIN}
      BY <2>1, StaffAssumption DEF Assignment
    <2> QED BY <1>1, <1>2, <2>2, StaffAssumption DEF AdminRemains, StaffRoleCodes, Active
  <1>6. CountStillHolds /\ OneRevocation /\ SelectedExist /\ FormsAreFresh
    BY <1>2 DEF CountStillHolds, OneRevocation, SelectedExist, FormsAreFresh, Idle
  <1>7. AuditTellsState
    BY <1>1 DEF AuditTellsState
  <1> QED BY <1>3, <1>4, <1>5, <1>6, <1>7 DEF IInv

(* A row is what it was or becomes active: whoever administrates goes on.   *)
LEMMA MoreActive ==
  ASSUME roleActive'[CRM_ADMIN] = roleActive[CRM_ADMIN], NEW B,
         \A a \in Assignment \ B : row[a] = "active" => row'[a] = "active"
  PROVE  EffectiveAdmins(Active \ B) \subseteq EffectiveAdmins(Active)'
  BY DEF EffectiveAdmins, Active

(* A revocation counts the administrators under its locks.                  *)
LEMMA BeginRevokeKeeps ==
  ASSUME MayOverlap = FALSE, IInv, NEW c \in Clerk, NEW A \in (SUBSET Assignment) \ {{}},
         BeginRevoke(c, A)
  PROVE  IInv'
  <1> USE DEF IInv, BeginRevoke
  <1>1. TypeOK'
    BY DEF TypeOK
  <1>2. RoleStays' /\ AdminRemains' /\ AuditTellsState'
    BY DEF RoleStays, AdminRemains, StaffRoleCodes, Active, AuditTellsState
  <1>3. \A d \in Clerk : selected[d] = Idle
    BY DEF RoleLocked
  <1>4. \A d \in Clerk : selected'[d] = IF d = c THEN A ELSE Idle
    BY <1>3 DEF TypeOK
  <1>5. OneRevocation' /\ SelectedExist'
    BY <1>4 DEF OneRevocation, SelectedExist, Idle
  <1>6. \A d \in Clerk : form[d] = NoForm
    BY DEF Undisturbed
  <1>7. FormsAreFresh'
    BY <1>6 DEF FormsAreFresh
  <1>8. CountStillHolds'
    <2>1. EffectiveAdmins(Active \ A) # {}
      BY CountLeavesOne, AdminsAreUsers
    <2>2. EffectiveAdmins(Active \ A)' = EffectiveAdmins(Active \ A)
      BY DEF EffectiveAdmins, Active
    <2> QED BY <1>4, <2>1, <2>2 DEF CountStillHolds, EffectiveAdmins, Active
  <1> QED BY <1>1, <1>2, <1>5, <1>7, <1>8

(* Its second half: what was counted still holds, since nobody took a role  *)
(* away in between.                                                         *)
LEMMA FinishRevokeKeeps ==
  ASSUME MayOverlap = FALSE, IInv, NEW c \in Clerk, FinishRevoke(c)
  PROVE  IInv'
  <1> USE DEF IInv
  <1> DEFINE revoked == {a \in selected[c] : row[a] = "active"}
  <1>0. /\ selected[c] # Idle
        /\ row' = [a \in Assignment |-> IF a \in revoked THEN "revoked" ELSE row[a]]
        /\ event' = [a \in Assignment |-> IF a \in revoked THEN "STAFF_ROLE_REVOKED" ELSE event[a]]
        /\ selected' = [selected EXCEPT ![c] = Idle]
        /\ roleActive' = roleActive /\ form' = form
    BY DEF FinishRevoke
  <1>1. TypeOK'
    BY <1>0 DEF TypeOK, ActionOf, Idle
  <1>2. RoleStays'
    BY <1>0 DEF RoleStays
  <1>3. \A d \in Clerk : selected'[d] = Idle
    BY <1>0 DEF OneRevocation, TypeOK
  <1>4. CountStillHolds' /\ OneRevocation' /\ SelectedExist'
    BY <1>3 DEF CountStillHolds, OneRevocation, SelectedExist, Idle
  <1>5. AdminRemains'
    <2>1. EffectiveAdmins(Active \ selected[c]) # {}
      BY <1>0 DEF CountStillHolds
    <2>2. \A a \in Assignment \ selected[c] : row[a] = "active" => row'[a] = "active"
      BY <1>0
    <2>3. (EffectiveAdmins(Active) # {})'
      BY <1>0, <2>1, <2>2, MoreActive
    <2> QED BY <2>3, AdminsAreUsers, PTL
  <1>6. AuditTellsState'
    BY <1>0 DEF AuditTellsState
  <1>7. FormsAreFresh'
    BY <1>0, <1>3 DEF FormsAreFresh
  <1> QED BY <1>1, <1>2, <1>4, <1>5, <1>6, <1>7

(* Reactivating and assigning change rows from not active to active, while  *)
(* no form is open, and of a role that no revocation has locked.            *)
LEMMA ActivationKeeps ==
  ASSUME MayOverlap = FALSE, IInv, Undisturbed, NEW A \in (SUBSET Assignment) \ {{}},
         \A a \in A : ~RoleLocked(a[2]),
         row' = [a \in Assignment |-> IF a \in A THEN "active" ELSE row[a]],
         event' \in [Assignment -> ActionOf],
         \A a \in Assignment : event'[a] = event[a] \/ (a \in A /\ event'[a] \notin {"NONE", "STAFF_ROLE_REVOKED"}),
         \A a \in A : event'[a] \notin {"NONE", "STAFF_ROLE_REVOKED"},
         UNCHANGED <<roleActive, selected, form>>
  PROVE  IInv'
  <1> USE DEF IInv
  <1>1. TypeOK'
    BY DEF TypeOK
  <1>2. RoleStays'
    BY DEF RoleStays
  <1>3. \A B : EffectiveAdmins(Active \ B) \subseteq EffectiveAdmins(Active \ B)'
    BY DEF EffectiveAdmins, Active
  <1>4. CountStillHolds'
    BY <1>3 DEF CountStillHolds, EffectiveAdmins, Active
  <1>5. AdminRemains'
    <2>1. EffectiveAdmins(Active) # {}
      BY AdminsAreUsers
    <2>2. EffectiveAdmins(Active) \subseteq EffectiveAdmins(Active)'
      BY <1>2 DEF EffectiveAdmins, Active
    <2>3. (EffectiveAdmins(Active) # {})'
      BY <2>1, <2>2
    <2> QED BY <2>3, AdminsAreUsers, PTL
  <1>6. AuditTellsState'
    BY DEF AuditTellsState, TypeOK
  <1>7. OneRevocation' /\ SelectedExist'
    BY DEF OneRevocation, SelectedExist, TypeOK
  <1>8. FormsAreFresh'
    BY DEF FormsAreFresh, Undisturbed
  <1> QED BY <1>1, <1>2, <1>4, <1>5, <1>6, <1>7, <1>8

(* A reactivation adds active rows, never one with a role that is off.      *)
LEMMA ReactivateKeeps ==
  ASSUME MayOverlap = FALSE, IInv, NEW A \in SUBSET Assignment, Reactivate(A)
  PROVE  IInv'
  <1>1. event' \in [Assignment -> ActionOf]
    BY DEF Reactivate, IInv, TypeOK, ActionOf
  <1>2. \A a \in Assignment : event'[a] = IF a \in A THEN "STAFF_ROLE_REACTIVATED" ELSE event[a]
    BY DEF Reactivate
  <1> QED BY <1>1, <1>2, ActivationKeeps DEF Reactivate

(* An assignment is new or the reactivation of one that was revoked.        *)
LEMMA AssignKeeps ==
  ASSUME MayOverlap = FALSE, IInv, NEW u \in User, NEW r \in Role, Assign(u, r)
  PROVE  IInv'
  <1> DEFINE a == <<u, r>>
             A == {a}
  <1>1. a \in Assignment /\ a[2] = r
    BY DEF Assignment
  <1>2. row' = [b \in Assignment |-> IF b \in A THEN "active" ELSE row[b]]
    BY DEF Assign, IInv, TypeOK
  <1>3. event' \in [Assignment -> ActionOf]
    BY <1>1 DEF Assign, IInv, TypeOK, ActionOf
  <1>4. \A b \in Assignment : b # a => event'[b] = event[b]
    BY DEF Assign, IInv, TypeOK
  <1>5. event'[a] \in {"STAFF_ROLE_ASSIGNED", "STAFF_ROLE_REACTIVATED"}
    BY <1>1 DEF Assign, IInv, TypeOK
  <1>6. Undisturbed /\ ~RoleLocked(r) /\ UNCHANGED <<roleActive, selected, form>>
    BY DEF Assign
  <1>7. A \in (SUBSET Assignment) \ {{}} /\ \A b \in A : ~RoleLocked(b[2])
    BY <1>1, <1>6
  <1>8. \A b \in Assignment : event'[b] = event[b] \/ (b \in A /\ event'[b] \notin {"NONE", "STAFF_ROLE_REVOKED"})
    BY <1>4, <1>5
  <1>9. \A b \in A : event'[b] \notin {"NONE", "STAFF_ROLE_REVOKED"}
    BY <1>5
  <1> HIDE DEF A
  <1> QED BY <1>2, <1>3, <1>6, <1>7, <1>8, <1>9, ActivationKeeps

(* Switching a role off is refused when its holders are all the             *)
(* administrators there are.                                                *)
LEMMA SetRoleKeeps ==
  ASSUME IInv, NEW r \in Role, SetRole(r)
  PROVE  IInv'
  <1> USE DEF IInv, SetRole
  <1>1. TypeOK' /\ RoleStays'
    BY StaffAssumption DEF TypeOK, RoleStays
  <1>2. roleActive'[CRM_ADMIN] = roleActive[CRM_ADMIN]
    BY <1>1 DEF RoleStays, TypeOK
  <1>3. \A B : EffectiveAdmins(Active \ B)' = EffectiveAdmins(Active \ B)
    BY <1>2 DEF EffectiveAdmins, Active
  <1>4. CountStillHolds'
    BY <1>3 DEF CountStillHolds, EffectiveAdmins, Active
  <1>5. AdminRemains'
    BY <1>2 DEF AdminRemains, StaffRoleCodes, Active
  <1>6. AuditTellsState' /\ OneRevocation' /\ SelectedExist' /\ FormsAreFresh'
    BY DEF AuditTellsState, OneRevocation, SelectedExist, FormsAreFresh
  <1> QED BY <1>1, <1>4, <1>5, <1>6

(* A form is loaded from the row as it is.                                  *)
LEMMA LoadFormKeeps ==
  ASSUME MayOverlap = FALSE, IInv, NEW c \in Clerk, NEW a \in Assignment, LoadForm(c, a)
  PROVE  IInv'
  <1> USE DEF IInv, LoadForm
  <1>1. TypeOK'
    BY DEF TypeOK
  <1>2. /\ RoleStays' /\ AdminRemains' /\ CountStillHolds' /\ AuditTellsState'
        /\ OneRevocation' /\ SelectedExist'
    BY DEF RoleStays, AdminRemains, StaffRoleCodes, Active, CountStillHolds, EffectiveAdmins,
           AuditTellsState, OneRevocation, SelectedExist
  <1>3. \A d \in Clerk : form'[d] = IF d = c THEN <<a, row[a]>> ELSE form[d]
    BY DEF TypeOK
  <1>4. FormsAreFresh'
    BY <1>3 DEF FormsAreFresh
  <1> QED BY <1>1, <1>2, <1>4

(* Saving a fresh form writes what is there.                                *)
LEMMA SaveFormKeeps ==
  ASSUME IInv, NEW c \in Clerk, SaveForm(c)
  PROVE  IInv'
  <1> USE DEF IInv
  <1>1. row' = row
    <2>1. form[c] # NoForm /\ form[c][2] = row[form[c][1]]
      BY DEF FormsAreFresh, SaveForm
    <2>2. row' = [row EXCEPT ![form[c][1]] = row[form[c][1]]]
      BY <2>1 DEF SaveForm
    <2> QED BY <2>2 DEF TypeOK
  <1>2. \A d \in Clerk : form'[d] = IF d = c THEN NoForm ELSE form[d]
    BY DEF SaveForm, TypeOK
  <1>3. UNCHANGED <<roleActive, selected, event>>
    BY DEF SaveForm
  <1>4. TypeOK'
    BY <1>1, <1>3 DEF SaveForm, TypeOK
  <1>5. /\ RoleStays' /\ AdminRemains' /\ CountStillHolds' /\ AuditTellsState'
        /\ OneRevocation' /\ SelectedExist'
    BY <1>1, <1>3 DEF RoleStays, AdminRemains, StaffRoleCodes, Active, CountStillHolds,
           EffectiveAdmins, AuditTellsState, OneRevocation, SelectedExist
  <1>6. FormsAreFresh'
    BY <1>1, <1>2, <1>3 DEF FormsAreFresh
  <1> QED BY <1>4, <1>5, <1>6

(* Every step keeps the invariant when no form is saved over a newer row.   *)
THEOREM NextInv ==
  ASSUME MayOverlap = FALSE PROVE IInv /\ [Next]_vars => IInv'
  <1> SUFFICES ASSUME IInv, [Next]_vars PROVE IInv'
    OBVIOUS
  <1>1. ASSUME NEW c \in Clerk, NEW A \in (SUBSET Assignment) \ {{}}, BeginRevoke(c, A)
        PROVE  IInv'
    BY <1>1, BeginRevokeKeeps
  <1>2. ASSUME NEW c \in Clerk, FinishRevoke(c) PROVE IInv'
    BY <1>2, FinishRevokeKeeps
  <1>3. ASSUME NEW c \in Clerk, SaveForm(c) PROVE IInv'
    BY <1>3, SaveFormKeeps
  <1>4. ASSUME NEW A \in SUBSET Assignment, Reactivate(A) PROVE IInv'
    BY <1>4, ReactivateKeeps
  <1>5. ASSUME NEW u \in User, NEW r \in Role, Assign(u, r) PROVE IInv'
    BY <1>5, AssignKeeps
  <1>6. ASSUME NEW r \in Role, SetRole(r) PROVE IInv'
    BY <1>6, SetRoleKeeps
  <1>7. ASSUME NEW c \in Clerk, NEW a \in Assignment, LoadForm(c, a) PROVE IInv'
    BY <1>7, LoadFormKeeps
  <1>8. CASE UNCHANGED vars
    BY <1>8 DEF vars, IInv, TypeOK, RoleStays, AdminRemains, StaffRoleCodes, Active,
           CountStillHolds, EffectiveAdmins, AuditTellsState, OneRevocation, SelectedExist,
           FormsAreFresh
  <1> QED BY <1>1, <1>2, <1>3, <1>4, <1>5, <1>6, <1>7, <1>8 DEF Next

-----------------------------------------------------------------------------
(* As long as no assignment changes while a change form is open, IInv   *)
(* is invariant.                                                            *)
THEOREM IInvariance ==
  ASSUME MayOverlap = FALSE PROVE Spec => []IInv
  <1>1. IInv /\ [Next]_vars => IInv'
    BY NextInv
  <1> QED BY <1>1, InitInv, PTL DEF Spec

(* "At least one active operational CRM_ADMIN assignment must remain at all *)
(* times" (docs/AUTHORIZATION.md:51), however many staff users revoke,      *)
(* reactivate, assign and deactivate at the same time.                      *)
THEOREM AnAdminRemains ==
  ASSUME MayOverlap = FALSE PROVE Spec => []AdminRemains
  <1>1. IInv => AdminRemains
    BY DEF IInv
  <1> QED BY <1>1, IInvariance, PTL

(* What revoke_staff_role_assignments has counted is still true when it     *)
(* writes.                                                                  *)
THEOREM CountsStillHold ==
  ASSUME MayOverlap = FALSE PROVE Spec => []CountStillHolds
  <1>1. IInv => CountStillHolds
    BY DEF IInv
  <1> QED BY <1>1, IInvariance, PTL

(* The last audit event of every assignment says whether it is active.      *)
THEOREM RolesAreAudited ==
  ASSUME MayOverlap = FALSE PROVE Spec => []AuditTellsState
  <1>1. IInv => AuditTellsState
    BY DEF IInv
  <1> QED BY <1>1, IInvariance, PTL

-----------------------------------------------------------------------------
(* The three together, one of which is at work: each is a behaviour of its  *)
(* own component, so that what is proved of the component holds.            *)
LEMMA PartsRun ==
  MCSpec => Spec /\ Accounts!Spec /\ Accounts!Creation!Spec
  <1>1. MCInit => Init /\ Accounts!Init /\ Accounts!Creation!Init
    BY DEF MCInit
  <1>2. ASSUME [MCNext]_<<part, vars, sessionVars, creationVars>>
        PROVE  /\ [Next]_vars
               /\ [Accounts!Next]_(Accounts!vars)
               /\ [Accounts!Creation!Next]_(Accounts!Creation!vars)
    BY <1>2 DEF MCNext, sessionVars, creationVars, Accounts!vars, Accounts!account, Accounts!past, Accounts!Creation!vars
  <1> QED BY <1>1, <1>2, PTL DEF MCSpec, Spec, Accounts!Spec, Accounts!Creation!Spec

(* What a revocation has counted, and everything it takes, holds for any    *)
(* users, roles, accounts and runs of createsuperuser, unless a change form *)
(* is saved over what was changed while it was open.                        *)
THEOREM RevocationsStaySafe == ASSUME MayOverlap = FALSE PROVE MCSpec => []RevocationsAreSafe
  <1>1. Spec => []IInv
    BY IInvariance
  <1>2. Accounts!Spec => []Accounts!IInv
    BY Accounts!Invariance, AccountsAssumption
  <1>3. Accounts!Creation!Spec => []Accounts!Creation!IInv
    BY Accounts!CreationInit, Accounts!CreationNext, AccountsAssumption, PTL DEF Accounts!Creation!Spec
  <1> QED BY <1>1, <1>2, <1>3, PartsRun, PTL DEF RevocationsAreSafe

(* The audit trail tells who may use the CRM, and since when.               *)
THEOREM AccessStaysAudited == ASSUME MayOverlap = FALSE PROVE MCSpec => []AccessIsAudited
  <1>1. Spec => []AuditTellsState
    BY RolesAreAudited
  <1>2. Accounts!Spec => [](Accounts!SessionsAreAudited /\ Accounts!RecoveriesAreAudited)
    BY Accounts!AccessIsInTheTrail, AccountsAssumption
  <1> QED BY <1>1, <1>2, PartsRun, PTL DEF AccessIsAudited

(* A recovery ends the sessions before it and its own link, for good.       *)
THEOREM RecoveryStaysFinal == MCSpec => []RecoveryIsFinal
  <1>1. Accounts!Spec => []Accounts!RecoveryIsFinal
    BY Accounts!RecoveriesAreFinal, AccountsAssumption
  <1> QED BY <1>1, PartsRun, PTL DEF RecoveryIsFinal

(* An account that was switched off is switched on by nothing that was      *)
(* under way.                                                               *)
THEOREM SwitchedOffStays == MCSpec => StaysSwitchedOff
  <1>1. Accounts!Spec => Accounts!StaysSwitchedOff
    BY Accounts!NobodySwitchesOn, AccountsAssumption
  <1> QED BY <1>1, PartsRun, PTL DEF StaysSwitchedOff

(* However createsuperuser runs overlap or fail: one account per address,   *)
(* and each with its Person.                                                *)
THEOREM AccountsStayMatched == MCSpec => []AccountsMatchPeople
  <1>1. Accounts!Creation!Spec =>
          [](Accounts!Creation!OneAccountPerAddress /\ Accounts!Creation!AccountsMatchPeople)
    BY Accounts!AccountsAreApart, AccountsAssumption
  <1> QED BY <1>1, PartsRun, PTL DEF AccountsMatchPeople
=============================================================================
