--------------------------- MODULE AccountSessions ---------------------------
(***************************************************************************)
(* accounts: logging in and out, recovering a password, and the form of    *)
(* the admin site for an account.  A session carries the hash of the       *)
(* password it was opened with; a recovery link carries the password and   *)
(* the last login it was issued under.  Both are compared with the row of  *)
(* the account, so they stop to match when it changes, and match again if  *)
(* it is changed back.                                                     *)
(*                                                                         *)
(* A login authenticates, stamps last_login, writes its audit event and    *)
(* answers with the session; a recovery checks its link and then saves the *)
(* password with its audit event; the form reads the row and then saves    *)
(* all of it.  Requests interleave between these steps.  Every password    *)
(* and every login has a version of its own that is not given twice.       *)
(***************************************************************************)
EXTENDS Naturals, FiniteSets

CONSTANTS User,        \* accounts
          NoUser,      \* no account
          Browser,     \* browsers, each with one request at a time
          MaxResets,   \* bound: recoveries of an account
          MaxLogins,   \* bound: logins of an account
          MaxLinks     \* bound: links of an account that are out at once

SessionAssumption == NoUser \notin User /\ {MaxResets, MaxLogins, MaxLinks} \subseteq Nat

VARIABLES active,    \* User.is_active
          secret,    \* User.password, as a version
          stamp,     \* User.last_login, as a version
          link,      \* recovery links that were sent and have not expired
          used,      \* links that have reset a password
          session,   \* browser: its session
          request,   \* browser: the request under way
          opened,    \* browser: account of the LOGIN_SUCCEEDED of its last login
          resets,    \* account: PASSWORD_RESET events
          logins,    \* account: logins
          setBack    \* accounts whose password a form has changed since their last recovery

account == <<active, secret, stamp>>
past == <<resets, logins, setBack>>
vars == <<account, link, used, session, request, opened, past>>

Door == {"api", "admin"}    \* POST /api/v1/auth/login/, or the login page of /admin/
Link == [user : User, secret : 0 .. MaxResets, stamp : 0 .. MaxLogins]
None == [step |-> "none"]

Init ==
  /\ active = [u \in User |-> TRUE]
  /\ secret = [u \in User |-> 0] /\ stamp = [u \in User |-> 0]
  /\ link = {} /\ used = {}
  /\ session = [b \in Browser |-> None]
  /\ request = [b \in Browser |-> None]
  /\ opened = [b \in Browser |-> NoUser]
  /\ resets = [u \in User |-> 0] /\ logins = [u \in User |-> 0]
  /\ setBack = {}

-----------------------------------------------------------------------------
(* django.contrib.auth.get_user: for whom the requests of a browser, to the *)
(* API and to /admin/ alike, are made.                                      *)
Usable(b) ==
  /\ session[b] # None
  /\ active[session[b].user] /\ session[b].hash = secret[session[b].user]

(* It ends a session whose hash does not match, and leaves that of an       *)
(* account which is switched off.                                           *)
Refuse(b) ==
  /\ request[b] = None /\ session[b] # None
  /\ active[session[b].user] /\ session[b].hash # secret[session[b].user]
  /\ session' = [session EXCEPT ![b] = None]
  /\ UNCHANGED <<account, link, used, request, opened, past>>

(* The right password of an active account: LoginSerializer.validate, or    *)
(* the form of the admin site.                                              *)
Authenticate(b, u, door) ==
  /\ request[b] = None /\ active[u]
  /\ request' = [request EXCEPT ![b] =
       [step |-> "login", user |-> u, secret |-> secret[u], door |-> door]]
  /\ UNCHANGED <<account, link, used, session, opened, past>>

(* The session of the browser is of the account that logs in, under the     *)
(* same password: login() goes on with it.                                  *)
GoesOn(b) ==
  session[b] # None /\ session[b].user = request[b].user /\ session[b].hash = request[b].secret

(* django.contrib.auth.login gives up any other session of the browser and  *)
(* stamps last_login; the new session is stored with the answer.  The admin *)
(* site answers right away.                                                 *)
StampLogin(b) ==
  /\ request[b].step = "login" /\ logins[request[b].user] < MaxLogins
  /\ logins' = [logins EXCEPT ![request[b].user] = @ + 1]
  /\ stamp' = [stamp EXCEPT ![request[b].user] = logins[request[b].user] + 1]
  /\ request' = [request EXCEPT ![b].step = IF request[b].door = "api" THEN "audit" ELSE "answer"]
  /\ session' = [session EXCEPT ![b] = IF GoesOn(b) THEN @ ELSE None]
  /\ opened' = [opened EXCEPT ![b] = IF GoesOn(b) THEN @ ELSE NoUser]
  /\ UNCHANGED <<active, secret, link, used, resets, setBack>>

(* Mutation of AuditLogin: a login that cannot be audited goes on.          *)
AuditLoginOrNot(b) ==
  /\ request[b].step = "audit"
  /\ request' = [request EXCEPT ![b].step = "answer"]
  /\ opened' \in {opened, [opened EXCEPT ![b] = request[b].user]}
  /\ UNCHANGED <<account, link, used, session, past>>

(* The audit event, or, when it cannot be written, a 500 and no session.    *)
AuditLogin(b) ==
  /\ request[b].step = "audit"
  /\ \/ /\ opened' = [opened EXCEPT ![b] = request[b].user]
        /\ request' = [request EXCEPT ![b].step = "answer"]
        /\ UNCHANGED session
     \/ /\ opened' = [opened EXCEPT ![b] = NoUser]
        /\ request' = [request EXCEPT ![b] = None]
        /\ session' = [session EXCEPT ![b] = None]
  /\ UNCHANGED <<account, link, used, past>>

(* Mutation of AnswerLogin: the session takes the password as it is by now. *)
AnswerLoginRefreshed(b) ==
  /\ request[b].step = "answer"
  /\ session' = [session EXCEPT ![b] =
       [user |-> request[b].user, door |-> request[b].door,
        proof |-> request[b].secret, hash |-> secret[request[b].user]]]
  /\ request' = [request EXCEPT ![b] = None]
  /\ UNCHANGED <<account, link, used, opened, past>>

(* The session, with the password the login authenticated with.             *)
AnswerLogin(b) ==
  /\ request[b].step = "answer"
  /\ session' = [session EXCEPT ![b] =
       [user |-> request[b].user, door |-> request[b].door,
        proof |-> request[b].secret, hash |-> request[b].secret]]
  /\ request' = [request EXCEPT ![b] = None]
  /\ UNCHANGED <<account, link, used, opened, past>>

(* LogoutView.post: the event comes first; without it nothing happens.  The *)
(* admin site logs out without one.                                         *)
Logout(b) ==
  /\ request[b] = None /\ Usable(b)
  /\ session' = [session EXCEPT ![b] = None]
  /\ UNCHANGED <<account, link, used, request, opened, past>>

-----------------------------------------------------------------------------
(* PasswordResetRequestView.post: an active account is sent a link, unless  *)
(* the message cannot be delivered.                                         *)
SendLink(u) ==
  /\ active[u] /\ Cardinality({l \in link : l.user = u}) < MaxLinks
  /\ link' = link \cup {[user |-> u, secret |-> secret[u], stamp |-> stamp[u]]}
  /\ UNCHANGED <<account, used, session, request, opened, past>>

Expire(l) ==
  /\ l \in link
  /\ link' = link \ {l}
  /\ UNCHANGED <<account, used, session, request, opened, past>>

(* PasswordResetConfirmSerializer.validate: the account as it is now.       *)
Valid(l) == active[l.user] /\ l.secret = secret[l.user] /\ l.stamp = stamp[l.user]

CheckLink(b, l) ==
  /\ request[b] = None /\ l \in link /\ Valid(l)
  /\ request' = [request EXCEPT ![b] = [step |-> "confirm", link |-> l]]
  /\ UNCHANGED <<account, link, used, session, opened, past>>

(* Mutation of ResetPassword: every column is written as it was read.       *)
ResetPasswordWholeRow(b) ==
  /\ request[b].step = "confirm"
  /\ LET l == request[b].link IN
       /\ resets[l.user] < MaxResets
       /\ resets' = [resets EXCEPT ![l.user] = @ + 1]
       /\ secret' = [secret EXCEPT ![l.user] = resets[l.user] + 1]
       /\ active' = [active EXCEPT ![l.user] = TRUE]
       /\ used' = used \cup {l}
       /\ setBack' = setBack \ {l.user}
  /\ request' = [request EXCEPT ![b] = None]
  /\ UNCHANGED <<stamp, link, session, opened, logins>>

(* PasswordResetConfirmView.post: the password column and its event.        *)
ResetPassword(b) ==
  /\ request[b].step = "confirm"
  /\ LET l == request[b].link IN
       /\ resets[l.user] < MaxResets
       /\ resets' = [resets EXCEPT ![l.user] = @ + 1]
       /\ secret' = [secret EXCEPT ![l.user] = resets[l.user] + 1]
       /\ used' = used \cup {l}
       /\ setBack' = setBack \ {l.user}
  /\ request' = [request EXCEPT ![b] = None]
  /\ UNCHANGED <<active, stamp, link, session, opened, logins>>

-----------------------------------------------------------------------------
(* UserAdmin: the change form is posted with is_active as the staff user    *)
(* left the box, and the row is read.  The staff user may be anybody.       *)
LoadAccountForm(b, u, on) ==
  /\ request[b] = None
  /\ request' = [request EXCEPT ![b] =
       [step |-> "form", user |-> u, active |-> on, secret |-> secret[u], stamp |-> stamp[u]]]
  /\ UNCHANGED <<account, link, used, session, opened, past>>

(* The same POST saves the row: every column, password and last_login as    *)
(* they were read, without a lock in between and without an audit event.    *)
SaveAccountForm(b) ==
  /\ request[b].step = "form"
  /\ LET row == request[b] IN
       /\ active' = [active EXCEPT ![row.user] = row.active]
       /\ secret' = [secret EXCEPT ![row.user] = row.secret]
       /\ stamp' = [stamp EXCEPT ![row.user] = row.stamp]
       /\ setBack' = IF row.secret = secret[row.user] THEN setBack ELSE setBack \cup {row.user}
  /\ request' = [request EXCEPT ![b] = None]
  /\ UNCHANGED <<link, used, session, opened, resets, logins>>

(* A request ends without its last step: it fails or its process dies.      *)
Abandon(b) ==
  /\ request[b] # None
  /\ request' = [request EXCEPT ![b] = None]
  /\ UNCHANGED <<account, link, used, session, opened, past>>

Next ==
  \/ \E b \in Browser :
       \/ \E u \in User, door \in Door : Authenticate(b, u, door)
       \/ StampLogin(b) \/ AuditLogin(b) \/ AnswerLogin(b) \/ Logout(b) \/ Refuse(b)
       \/ \E l \in link : CheckLink(b, l)
       \/ ResetPassword(b)
       \/ \E u \in User, on \in BOOLEAN : LoadAccountForm(b, u, on)
       \/ SaveAccountForm(b) \/ Abandon(b)
  \/ \E u \in User : SendLink(u)
  \/ \E l \in link : Expire(l)

Spec == Init /\ [][Next]_vars

-----------------------------------------------------------------------------
TypeOK ==
  /\ active \in [User -> BOOLEAN]
  /\ secret \in [User -> 0 .. MaxResets] /\ stamp \in [User -> 0 .. MaxLogins]
  /\ link \subseteq Link /\ used \subseteq Link
  /\ session \in [Browser -> {None} \cup
       [user : User, door : Door, proof : 0 .. MaxResets, hash : 0 .. MaxResets]]
  /\ request \in [Browser -> {None}
       \cup [step : {"login", "audit", "answer"}, user : User, secret : 0 .. MaxResets, door : Door]
       \cup [step : {"confirm"}, link : Link]
       \cup [step : {"form"}, user : User, active : BOOLEAN, secret : 0 .. MaxResets, stamp : 0 .. MaxLogins]]
  /\ opened \in [Browser -> User \cup {NoUser}]
  /\ resets \in [User -> 0 .. MaxResets] /\ logins \in [User -> 0 .. MaxLogins]
  /\ setBack \subseteq User

(* No browser works for an account with a session that was opened by a      *)
(* password from before the last recovery, also when the recovery fell      *)
(* between the authentication and the answer (views.py:128), unless a form  *)
(* of the admin site has changed the password since.                        *)
RecoveryEndsSessions ==
  \A b \in Browser :
    Usable(b) /\ session[b].user \notin setBack => session[b].proof = resets[session[b].user]

(* A recovery that begins after a link was used is not let in by that link, *)
(* whatever logins and recoveries lie between (serializers.py:113), with    *)
(* the same exception.                                                      *)
UsedLinkIsRefused == \A l \in used : l.user \notin setBack => ~Valid(l)

(* Neither the sessions from before a recovery nor its link open the        *)
(* account afterwards, as long as no form sets its password back.           *)
RecoveryIsFinal == RecoveryEndsSessions /\ UsedLinkIsRefused

(* Every session that was opened at the API has its LOGIN_SUCCEEDED event   *)
(* (views.py:130), also one that was opened at the admin site before.       *)
SessionsAreAudited ==
  \A b \in Browser :
    session[b] # None /\ session[b].door = "api" => opened[b] = session[b].user

(* An account is switched on by nothing but a form that says so: no login   *)
(* and no recovery under way undoes that it was switched off (views.py:262).*)
StaysSwitchedOff ==
  [][\A u \in User : active'[u] /\ ~active[u] =>
       \E b \in Browser : request[b].step = "form" /\ request[b].user = u /\ request[b].active]_vars

(* No password is newer than its PASSWORD_RESET event, and it is the one of *)
(* the last event unless a form has changed it since.                       *)
RecoveriesAreAudited ==
  \A u \in User : secret[u] <= resets[u] /\ (u \notin setBack => secret[u] = resets[u])

-----------------------------------------------------------------------------
(* A session carries the hash of the password it was opened with.           *)
SessionsAreGenuine == \A b \in Browser : session[b] # None => session[b].hash = session[b].proof

(* A login under way has given up any session that was not its own, and     *)
(* answers at the API only when its event is written.                       *)
LoginsComeFirst ==
  \A b \in Browser :
    /\ request[b].step \in {"audit", "answer"} => session[b] = None \/ GoesOn(b)
    /\ request[b].step = "audit" => request[b].door = "api"
    /\ request[b].step = "answer" /\ request[b].door = "api" => opened[b] = request[b].user

(* What links and forms carry was a password of the account, and a used     *)
(* link carries one from before the last recovery.                          *)
LinksAreOld ==
  /\ \A l \in link : l.secret <= resets[l.user]
  /\ \A b \in Browser :
       /\ request[b].step = "confirm" => request[b].link.secret <= resets[request[b].link.user]
       /\ request[b].step = "form" => request[b].secret <= resets[request[b].user]
  /\ \A l \in used : l.secret < resets[l.user]

(* The inductive invariant.                                                 *)
IInv ==
  /\ TypeOK /\ SessionsAreAudited /\ RecoveriesAreAudited
  /\ SessionsAreGenuine /\ LoginsComeFirst /\ LinksAreOld
=============================================================================
