---------------------------- MODULE MCStaffAccess ----------------------------
(* Who may use the CRM, for TLC: staff roles, sessions, or createsuperuser. *)
(* A behaviour has one of the three at work, chosen at the start.           *)
EXTENDS StaffAccess, Sequences, TLC

CONSTANTS Account, NoAccount, Browser, MaxResets, MaxLogins, MaxLinks,   \* AccountSessions
          Run, Spelling, Normal(_), MaxPeople                            \* AccountCreation

VARIABLES part,
          active, secret, stamp, link, used, session, request, opened,
            resets, logins, setBack,                                     \* AccountSessions
          people, accounts, run                                          \* AccountCreation

sessionVars == <<active, secret, stamp, link, used, session, request, opened, resets, logins, setBack>>
creationVars == <<people, accounts, run>>

(* AccountSessions, and as Accounts!Creation AccountCreation, with what is  *)
(* proved about them.                                                      *)
Accounts == INSTANCE AccountSessionsProofs WITH User <- Account, NoUser <- NoAccount

ASSUME AccountsAssumption == Accounts!SessionAssumption /\ Accounts!Creation!CreationAssumption

(* An address with two spellings.                                           *)
Lower(s) == IF s = "Ann@x" THEN "ann@x" ELSE s

MCInit ==
  /\ part \in {"roles", "sessions", "creation"}
  /\ Init /\ (part # "roles" => Cardinality(Active) = Cardinality(User))
  /\ Accounts!Init /\ Accounts!Creation!Init

MCNext ==
  /\ UNCHANGED part
  /\ \/ part = "roles" /\ Next /\ UNCHANGED <<sessionVars, creationVars>>
     \/ part = "sessions" /\ Accounts!Next /\ UNCHANGED <<vars, creationVars>>
     \/ part = "creation" /\ Accounts!Creation!Next /\ UNCHANGED <<vars, sessionVars>>

MCSpec == MCInit /\ [][MCNext]_<<part, vars, sessionVars, creationVars>>

-----------------------------------------------------------------------------
(* Types; and what a revocation has counted still holds when it writes,     *)
(* with what it takes to be inductive.                                      *)
RevocationsAreSafe == IInv /\ Accounts!IInv /\ Accounts!Creation!IInv

(* Who may use the CRM, and since when, is in the audit trail: the state of *)
(* every assignment, every session that was opened at the API (a login at   *)
(* /admin/ has no event), and every recovery; a form of the admin site that *)
(* sets a password back after it has none.                                  *)
AccessIsAudited ==
  /\ AuditTellsState
  /\ Accounts!SessionsAreAudited
  /\ Accounts!RecoveriesAreAudited

(* After a recovery neither the sessions before it nor its link open the    *)
(* account, unless a form of the admin site has set the password back.      *)
RecoveryIsFinal == Accounts!RecoveryIsFinal

(* An account is switched on by a form that says so and nothing else.       *)
StaysSwitchedOff == Accounts!StaysSwitchedOff

(* Of AccountCreation: one account per address, a Person for each account.  *)
AccountsMatchPeople == Accounts!Creation!OneAccountPerAddress /\ Accounts!Creation!AccountsMatchPeople

Symmetry == Permutations(User) \cup Permutations(Clerk)
=============================================================================
