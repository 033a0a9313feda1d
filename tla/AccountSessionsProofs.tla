------------------------ MODULE AccountSessionsProofs ------------------------
(***************************************************************************)
(* Proofs about AccountSessions, for any number of accounts, browsers,     *)
(* logins and recoveries: what a login, a recovery or a form of the admin  *)
(* site leaves behind is the whole of what opens the account afterwards.   *)
(* After them, of AccountCreation: how many accounts there come to be.     *)
(***************************************************************************)
EXTENDS AccountSessions, Sequences, TLAPS

(* The requests in which something is under way.                            *)
Login == [step : {"login", "audit", "answer"}, user : User, secret : 0 .. MaxResets, door : Door]
Confirm == [step : {"confirm"}, link : Link]
Form == [step : {"form"}, user : User, active : BOOLEAN, secret : 0 .. MaxResets, stamp : 0 .. MaxLogins]

(* What a session is.                                                       *)
Session == [user : User, door : Door, proof : 0 .. MaxResets, hash : 0 .. MaxResets]

(* What a request holds, by its step.                                       *)
LEMMA RequestShape ==
  ASSUME TypeOK, NEW b \in Browser
  PROVE  /\ request[b].step \in {"login", "audit", "answer"} => request[b] \in Login
         /\ request[b].step = "confirm" => request[b] \in Confirm
         /\ request[b].step = "form" => request[b] \in Form
         /\ request[b] = None => request[b].step = "none"
  BY DEF TypeOK, Login, Confirm, Form, None

(* A fresh installation: nobody is logged in, no link is out.               *)
THEOREM InitInv == ASSUME SessionAssumption PROVE Init => IInv
  BY DEF SessionAssumption, Init, IInv, TypeOK, SessionsAreAudited, RecoveriesAreAudited,
         SessionsAreGenuine, LoginsComeFirst, LinksAreOld, None

-----------------------------------------------------------------------------
(* What is said of the rows, the sessions and the links stays when these    *)
(* stay and the requests carry nothing new.                                 *)
LEMMA OnlyRequests ==
  ASSUME IInv, NEW b \in Browser, NEW q, request' = [request EXCEPT ![b] = q],
         q \in {None} \cup Login \cup Confirm \cup Form,
         q.step \notin {"audit", "answer"},
         q.step = "confirm" => q.link.secret <= resets[q.link.user],
         q.step = "form" => q.secret <= resets[q.user],
         UNCHANGED <<account, link, used, session, opened, past>>
  PROVE  IInv'
  <1> USE DEF IInv
  <1>1. \A d \in Browser : request'[d] = IF d = b THEN q ELSE request[d]
    BY DEF TypeOK
  <1>2. TypeOK'
    BY DEF TypeOK, Login, Confirm, Form, account, past
  <1>3. SessionsAreAudited' /\ RecoveriesAreAudited' /\ SessionsAreGenuine'
    BY DEF SessionsAreAudited, RecoveriesAreAudited, SessionsAreGenuine, account, past
  <1>4. LoginsComeFirst'
    BY <1>1 DEF LoginsComeFirst, GoesOn
  <1>5. LinksAreOld'
    BY <1>1 DEF LinksAreOld, past
  <1> QED BY <1>2, <1>3, <1>4, <1>5

(* authenticate() reads the password and remembers what it read.            *)
LEMMA AuthenticateKeeps ==
  ASSUME IInv, NEW b \in Browser, NEW u \in User, NEW door \in Door, Authenticate(b, u, door)
  PROVE  IInv'
  <1> DEFINE q == [step |-> "login", user |-> u, secret |-> secret[u], door |-> door]
  <1>1. q \in Login /\ q.step = "login"
    BY DEF Login, IInv, TypeOK
  <1>2. request' = [request EXCEPT ![b] = q] /\ UNCHANGED <<account, link, used, session, opened, past>>
    BY DEF Authenticate
  <1> HIDE DEF q
  <1> QED BY <1>1, <1>2, OnlyRequests

(* A link is opened: its user and the secret it was signed with are         *)
(* remembered.                                                              *)
LEMMA CheckLinkKeeps ==
  ASSUME IInv, NEW b \in Browser, NEW l \in link, CheckLink(b, l)
  PROVE  IInv'
  <1> DEFINE q == [step |-> "confirm", link |-> l]
  <1>1. q \in Confirm /\ q.step = "confirm" /\ q.link = l /\ l.secret <= resets[l.user]
    BY DEF Confirm, IInv, TypeOK, LinksAreOld
  <1>2. request' = [request EXCEPT ![b] = q] /\ UNCHANGED <<account, link, used, session, opened, past>>
    BY DEF CheckLink
  <1> HIDE DEF q
  <1> QED BY <1>1, <1>2, OnlyRequests

(* The form reads the row as it is.                                         *)
LEMMA LoadAccountFormKeeps ==
  ASSUME IInv, NEW b \in Browser, NEW u \in User, NEW on \in BOOLEAN, LoadAccountForm(b, u, on)
  PROVE  IInv'
  <1> DEFINE q == [step |-> "form", user |-> u, active |-> on, secret |-> secret[u], stamp |-> stamp[u]]
  <1>1. q \in Form /\ q.step = "form"
    BY DEF Form, IInv, TypeOK
  <1>2. q.secret <= resets[q.user]
    BY DEF IInv, RecoveriesAreAudited
  <1>3. request' = [request EXCEPT ![b] = q] /\ UNCHANGED <<account, link, used, session, opened, past>>
    BY DEF LoadAccountForm
  <1> HIDE DEF q
  <1> QED BY <1>1, <1>2, <1>3, OnlyRequests

(* A request that dies leaves nothing behind.                               *)
LEMMA AbandonKeeps ==
  ASSUME IInv, NEW b \in Browser, Abandon(b)
  PROVE  IInv'
  <1>1. None.step = "none"
    BY DEF None
  <1> QED BY <1>1, OnlyRequests DEF Abandon

-----------------------------------------------------------------------------
(* A session of another account, or of another password, is given up before *)
(* there can be a new one.                                                  *)
LEMMA StampLoginKeeps ==
  ASSUME SessionAssumption, IInv, NEW b \in Browser, StampLogin(b)
  PROVE  IInv'
  <1> USE DEF IInv
  <1> DEFINE q == [request[b] EXCEPT !.step = IF request[b].door = "api" THEN "audit" ELSE "answer"]
             u == request[b].user
  <1>1. request[b] \in Login /\ logins[u] < MaxLogins
    BY RequestShape DEF StampLogin
  <1>2. /\ q \in Login /\ q.user = u /\ q.secret = request[b].secret /\ q.door = request[b].door
        /\ q.step = IF q.door = "api" THEN "audit" ELSE "answer"
    BY <1>1 DEF Login
  <1>3. /\ logins' = [logins EXCEPT ![u] = @ + 1]
        /\ stamp' = [stamp EXCEPT ![u] = logins[u] + 1]
        /\ request' = [request EXCEPT ![b] = q]
        /\ session' = [session EXCEPT ![b] = IF GoesOn(b) THEN @ ELSE None]
        /\ opened' = [opened EXCEPT ![b] = IF GoesOn(b) THEN @ ELSE NoUser]
        /\ UNCHANGED <<active, secret, link, used, resets, setBack>>
    BY DEF StampLogin
  <1>4. u \in User
    BY <1>1 DEF Login
  <1>5. /\ stamp' \in [User -> 0 .. MaxLogins] /\ logins' \in [User -> 0 .. MaxLogins]
    BY <1>1, <1>3, <1>4 DEF TypeOK, SessionAssumption
  <1> HIDE DEF q, u
  <1>6. \A d \in Browser : /\ request'[d] = IF d = b THEN q ELSE request[d]
                           /\ d # b => session'[d] = session[d] /\ opened'[d] = opened[d]
    BY <1>3 DEF TypeOK
  <1>7. \/ session'[b] = None
        \/ session'[b] = session[b] /\ opened'[b] = opened[b] /\ GoesOn(b)
    BY <1>3 DEF TypeOK
  <1>8. TypeOK'
    BY <1>2, <1>3, <1>5 DEF TypeOK, Login
  <1>9. SessionsAreAudited' /\ RecoveriesAreAudited' /\ SessionsAreGenuine'
    BY <1>3, <1>6, <1>7 DEF SessionsAreAudited, RecoveriesAreAudited, SessionsAreGenuine
  <1>10. LoginsComeFirst'
    <2>1. ASSUME NEW d \in Browser, d # b
          PROVE  /\ request'[d] = request[d] /\ session'[d] = session[d] /\ opened'[d] = opened[d]
                 /\ GoesOn(d)' = GoesOn(d)
      BY <1>6, <2>1 DEF GoesOn
    <2>2. session'[b] = None \/ GoesOn(b)'
      BY <1>2, <1>6, <1>7 DEF GoesOn, u
    <2>3. request'[b].step \in {"audit", "answer"} /\ (request'[b].step = "audit" <=> request'[b].door = "api")
      BY <1>2, <1>6
    <2> QED BY <2>1, <2>2, <2>3 DEF LoginsComeFirst
  <1>11. LinksAreOld'
    BY <1>2, <1>3, <1>6 DEF LinksAreOld
  <1> QED BY <1>8, <1>9, <1>10, <1>11

(* The event of the login comes before the answer; without it there is no   *)
(* session.                                                                 *)
LEMMA AuditLoginKeeps ==
  ASSUME SessionAssumption, IInv, NEW b \in Browser, AuditLogin(b)
  PROVE  IInv'
  <1> USE DEF IInv
  <1> DEFINE q == [request[b] EXCEPT !.step = "answer"]
  <1>1. request[b] \in Login /\ (session[b] = None \/ GoesOn(b))
    BY RequestShape DEF AuditLogin, LoginsComeFirst
  <1>2. q \in Login /\ q.step = "answer" /\ q.user = request[b].user /\ q.secret = request[b].secret
    BY <1>1 DEF Login
  <1>3. \/ /\ opened' = [opened EXCEPT ![b] = request[b].user]
           /\ request' = [request EXCEPT ![b] = q] /\ session' = session
        \/ /\ opened' = [opened EXCEPT ![b] = NoUser]
           /\ request' = [request EXCEPT ![b] = None] /\ session' = [session EXCEPT ![b] = None]
    BY DEF AuditLogin
  <1>4. UNCHANGED <<account, link, used, past>>
    BY DEF AuditLogin
  <1> HIDE DEF q
  <1>5. \A d \in Browser : d # b => /\ request'[d] = request[d] /\ opened'[d] = opened[d]
                                    /\ session'[d] = session[d]
    BY <1>3 DEF TypeOK
  <1>6. \/ /\ request'[b] = q /\ opened'[b] = q.user /\ session'[b] = session[b]
           /\ session'[b] = None \/ (session'[b].user = q.user /\ session'[b].hash = q.secret)
        \/ request'[b] = None /\ session'[b] = None
    BY <1>1, <1>2, <1>3 DEF TypeOK, GoesOn
  <1>7. TypeOK'
    BY <1>1, <1>2, <1>3, <1>4 DEF TypeOK, Login, account, past
  <1>8. SessionsAreAudited' /\ RecoveriesAreAudited' /\ SessionsAreGenuine'
    BY <1>4, <1>5, <1>6 DEF SessionsAreAudited, RecoveriesAreAudited, SessionsAreGenuine, account, past
  <1>9. LoginsComeFirst'
    <2>1. ASSUME NEW d \in Browser, d # b PROVE GoesOn(d)' = GoesOn(d)
      BY <1>5, <2>1 DEF GoesOn
    <2>2. request'[b] = None \/ (request'[b].step = "answer" /\ opened'[b] = request'[b].user
                                  /\ (session'[b] = None \/ GoesOn(b)'))
      BY <1>2, <1>6 DEF GoesOn
    <2> QED BY <1>5, <2>1, <2>2 DEF LoginsComeFirst, None
  <1>10. LinksAreOld'
    BY <1>2, <1>4, <1>5, <1>6 DEF LinksAreOld, past, None
  <1> QED BY <1>7, <1>8, <1>9, <1>10

(* login() starts a session with the hash that was read, not with the       *)
(* present one.                                                             *)
LEMMA AnswerLoginKeeps ==
  ASSUME IInv, NEW b \in Browser, AnswerLogin(b)
  PROVE  IInv'
  <1> USE DEF IInv
  <1> DEFINE s == [user |-> request[b].user, door |-> request[b].door,
                   proof |-> request[b].secret, hash |-> request[b].secret]
  <1>1. request[b] \in Login /\ (request[b].door = "api" => opened[b] = request[b].user)
    BY RequestShape DEF AnswerLogin, LoginsComeFirst
  <1>2. s \in Session /\ s.hash = s.proof /\ (s.door = "api" => opened[b] = s.user)
    BY <1>1 DEF Login, Session
  <1>3. /\ session' = [session EXCEPT ![b] = s]
        /\ request' = [request EXCEPT ![b] = None]
        /\ UNCHANGED <<account, link, used, opened, past>>
    BY DEF AnswerLogin
  <1> HIDE DEF s
  <1>4. \A d \in Browser : /\ request'[d] = IF d = b THEN None ELSE request[d]
                           /\ session'[d] = IF d = b THEN s ELSE session[d]
    BY <1>3 DEF TypeOK
  <1>5. TypeOK'
    BY <1>2, <1>3 DEF TypeOK, Session, account, past
  <1>6. SessionsAreAudited' /\ RecoveriesAreAudited' /\ SessionsAreGenuine'
    BY <1>2, <1>3, <1>4 DEF SessionsAreAudited, RecoveriesAreAudited, SessionsAreGenuine, account, past
  <1>7. LoginsComeFirst' /\ LinksAreOld'
    BY <1>3, <1>4 DEF LoginsComeFirst, LinksAreOld, GoesOn, account, past, None
  <1> QED BY <1>5, <1>6, <1>7

(* Logging out, and the refusal of a session, take it away and add none.    *)
LEMMA SessionEndsKeeps ==
  ASSUME IInv, NEW b \in Browser, Logout(b) \/ Refuse(b)
  PROVE  IInv'
  <1> USE DEF IInv
  <1>1. /\ session' = [session EXCEPT ![b] = None]
        /\ UNCHANGED <<account, link, used, request, opened, past>>
    BY DEF Logout, Refuse
  <1>2. \A d \in Browser : session'[d] = IF d = b THEN None ELSE session[d]
    BY <1>1 DEF TypeOK
  <1>3. TypeOK'
    BY <1>1 DEF TypeOK, account, past
  <1>4. SessionsAreAudited' /\ RecoveriesAreAudited' /\ SessionsAreGenuine'
    BY <1>1, <1>2 DEF SessionsAreAudited, RecoveriesAreAudited, SessionsAreGenuine, account, past
  <1>5. LoginsComeFirst' /\ LinksAreOld'
    BY <1>1, <1>2 DEF LoginsComeFirst, LinksAreOld, GoesOn, account, past
  <1> QED BY <1>3, <1>4, <1>5

-----------------------------------------------------------------------------
(* A link carries the password it is sent under.                            *)
LEMMA SendLinkKeeps ==
  ASSUME IInv, NEW u \in User, SendLink(u)
  PROVE  IInv'
  <1> USE DEF IInv
  <1> DEFINE n == [user |-> u, secret |-> secret[u], stamp |-> stamp[u]]
  <1>1. n \in Link /\ n.secret <= resets[n.user]
    BY DEF Link, TypeOK, RecoveriesAreAudited
  <1>2. link' = link \cup {n} /\ UNCHANGED <<account, used, session, request, opened, past>>
    BY DEF SendLink
  <1> HIDE DEF n
  <1>3. TypeOK'
    BY <1>1, <1>2 DEF TypeOK, account, past
  <1>4. SessionsAreAudited' /\ RecoveriesAreAudited' /\ SessionsAreGenuine' /\ LoginsComeFirst'
    BY <1>2 DEF SessionsAreAudited, RecoveriesAreAudited, SessionsAreGenuine, LoginsComeFirst,
                GoesOn, account, past
  <1>5. LinksAreOld'
    BY <1>1, <1>2 DEF LinksAreOld, account, past
  <1> QED BY <1>3, <1>4, <1>5

(* The password moves past every link that was sent so far.                 *)
LEMMA ResetPasswordKeeps ==
  ASSUME SessionAssumption, IInv, NEW b \in Browser, ResetPassword(b)
  PROVE  IInv'
  <1> USE DEF IInv
  <1> DEFINE l == request[b].link
             n == resets[l.user] + 1
  <1>1. l \in Link /\ l.secret <= resets[l.user] /\ resets[l.user] < MaxResets
    BY RequestShape DEF ResetPassword, Confirm, LinksAreOld
  <1>2. /\ resets' = [resets EXCEPT ![l.user] = n]
        /\ secret' = [secret EXCEPT ![l.user] = n]
        /\ used' = used \cup {l} /\ setBack' = setBack \ {l.user}
        /\ request' = [request EXCEPT ![b] = None]
        /\ UNCHANGED <<active, stamp, link, session, opened, logins>>
    BY DEF ResetPassword
  <1>3. l.user \in User
    BY <1>1 DEF Link
  <1>4. n \in 0 .. MaxResets
    BY <1>1, <1>3 DEF TypeOK, SessionAssumption
  <1>5. \A u \in User : /\ secret[u] \in Nat /\ resets[u] \in Nat /\ resets[u] <= resets'[u]
                        /\ secret'[u] = IF u = l.user THEN resets'[u] ELSE secret[u]
                        /\ u # l.user => resets'[u] = resets[u]
    BY <1>2, <1>3 DEF TypeOK, SessionAssumption
  <1>6. resets'[l.user] = resets[l.user] + 1
    BY <1>2, <1>3 DEF TypeOK
  <1> HIDE DEF l, n
  <1>7. \A d \in Browser : request'[d] = IF d = b THEN None ELSE request[d]
    BY <1>2 DEF TypeOK
  <1>8. TypeOK'
    BY <1>1, <1>2, <1>4 DEF TypeOK
  <1>9. SessionsAreAudited' /\ SessionsAreGenuine'
    BY <1>2 DEF SessionsAreAudited, SessionsAreGenuine
  <1>10. RecoveriesAreAudited'
    <2>1. \A u \in User : resets'[u] \in Nat
      BY <1>8 DEF TypeOK, SessionAssumption
    <2>2. \A u \in User : u # l.user => (u \in setBack' <=> u \in setBack)
      BY <1>2
    <2> QED BY <1>5, <2>1, <2>2 DEF RecoveriesAreAudited
  <1>11. LoginsComeFirst'
    BY <1>2, <1>7 DEF LoginsComeFirst, GoesOn, None
  <1>12. ASSUME NEW u \in User, NEW s \in 0 .. MaxResets
         PROVE  (s <= resets[u] => s <= resets'[u]) /\ (s < resets[u] => s < resets'[u])
    <2>1. s \in Nat /\ resets[u] \in Nat /\ resets'[u] \in Nat /\ resets[u] <= resets'[u]
      BY <1>5, <1>8 DEF TypeOK, SessionAssumption
    <2> QED BY <2>1
  <1>13. \A k \in Link : k.user \in User /\ k.secret \in 0 .. MaxResets
    BY DEF Link
  <1>14. l.secret < resets'[l.user]
    BY <1>1, <1>3, <1>5, <1>6, <1>13, SMT DEF SessionAssumption
  <1>15. ASSUME NEW d \in Browser
         PROVE  /\ request'[d].step = "confirm" => request'[d].link.secret <= resets'[request'[d].link.user]
                /\ request'[d].step = "form" => request'[d].secret <= resets'[request'[d].user]
    <2>1. CASE d = b
      BY <1>7, <2>1 DEF None
    <2>2. CASE d # b /\ request[d].step = "confirm"
      <3>1. request'[d] = request[d] /\ request[d].link \in Link
        BY <1>7, <2>2, RequestShape DEF Confirm
      <3> QED BY <2>2, <3>1, <1>12, <1>13 DEF LinksAreOld
    <2>3. CASE d # b /\ request[d].step = "form"
      <3>1. request'[d] = request[d] /\ request[d].user \in User /\ request[d].secret \in 0 .. MaxResets
        BY <1>7, <2>3, RequestShape DEF Form
      <3> QED BY <2>3, <3>1, <1>12 DEF LinksAreOld
    <2>4. CASE d # b /\ request[d].step \notin {"confirm", "form"}
      BY <1>7, <2>4
    <2> QED BY <2>1, <2>2, <2>3, <2>4
  <1>16. \A k \in link' : k.secret <= resets'[k.user]
    BY <1>2, <1>12, <1>13 DEF LinksAreOld, TypeOK
  <1>17. \A k \in used' : k.secret < resets'[k.user]
    BY <1>2, <1>12, <1>13, <1>14 DEF LinksAreOld, TypeOK
  <1>18. LinksAreOld'
    BY <1>15, <1>16, <1>17 DEF LinksAreOld
  <1> QED BY <1>8, <1>9, <1>10, <1>11, <1>18

(* A form writes a password that the account had; when it is not the        *)
(* present one, the account is one whose password was set back.             *)
LEMMA SaveAccountFormKeeps ==
  ASSUME IInv, NEW b \in Browser, SaveAccountForm(b)
  PROVE  IInv'
  <1> USE DEF IInv
  <1> DEFINE f == request[b]
  <1>1. f \in Form /\ f.secret <= resets[f.user]
    BY RequestShape DEF SaveAccountForm, LinksAreOld
  <1>2. /\ active' = [active EXCEPT ![f.user] = f.active]
        /\ secret' = [secret EXCEPT ![f.user] = f.secret]
        /\ stamp' = [stamp EXCEPT ![f.user] = f.stamp]
        /\ setBack' = IF f.secret = secret[f.user] THEN setBack ELSE setBack \cup {f.user}
        /\ request' = [request EXCEPT ![b] = None]
        /\ UNCHANGED <<link, used, session, opened, resets, logins>>
    BY DEF SaveAccountForm
  <1> HIDE DEF f
  <1>3. /\ f.user \in User /\ f.active \in BOOLEAN
        /\ f.secret \in 0 .. MaxResets /\ f.stamp \in 0 .. MaxLogins
    BY <1>1 DEF Form
  <1>4. \A d \in Browser : request'[d] = IF d = b THEN None ELSE request[d]
    BY <1>2 DEF TypeOK
  <1>5. \A u \in User : secret'[u] = IF u = f.user THEN f.secret ELSE secret[u]
    BY <1>2 DEF TypeOK
  <1>6. TypeOK'
    BY <1>2, <1>3 DEF TypeOK
  <1>7. SessionsAreAudited' /\ SessionsAreGenuine'
    BY <1>2 DEF SessionsAreAudited, SessionsAreGenuine
  <1>8. RecoveriesAreAudited'
    BY <1>1, <1>2, <1>5 DEF RecoveriesAreAudited
  <1>9. LoginsComeFirst' /\ LinksAreOld'
    BY <1>2, <1>4 DEF LoginsComeFirst, LinksAreOld, GoesOn, None
  <1> QED BY <1>6, <1>7, <1>8, <1>9

-----------------------------------------------------------------------------
(* Logins, recoveries, forms, and links sent and expired.                   *)
THEOREM NextInv == ASSUME SessionAssumption PROVE IInv /\ [Next]_vars => IInv'
  <1> SUFFICES ASSUME IInv, [Next]_vars PROVE IInv'
    OBVIOUS
  <1>1. ASSUME NEW b \in Browser,
               (\E u \in User, door \in Door : Authenticate(b, u, door))
               \/ StampLogin(b) \/ AuditLogin(b) \/ AnswerLogin(b) \/ Logout(b) \/ Refuse(b)
        PROVE  IInv'
    BY <1>1, AuthenticateKeeps, StampLoginKeeps, AuditLoginKeeps, AnswerLoginKeeps, SessionEndsKeeps
  <1>2. ASSUME NEW b \in Browser,
               (\E l \in link : CheckLink(b, l)) \/ ResetPassword(b)
               \/ (\E u \in User, on \in BOOLEAN : LoadAccountForm(b, u, on))
               \/ SaveAccountForm(b) \/ Abandon(b)
        PROVE  IInv'
    BY <1>2, CheckLinkKeeps, ResetPasswordKeeps, LoadAccountFormKeeps, SaveAccountFormKeeps, AbandonKeeps
  <1>3. ASSUME NEW u \in User, SendLink(u) PROVE IInv'
    BY <1>3, SendLinkKeeps
  <1>4. ASSUME NEW l \in link, Expire(l) PROVE IInv'
    BY <1>4 DEF Expire, IInv, TypeOK, SessionsAreAudited, RecoveriesAreAudited, SessionsAreGenuine,
                LoginsComeFirst, LinksAreOld, GoesOn, account, past
  <1>5. CASE UNCHANGED vars
    BY <1>5 DEF vars, account, past, IInv, TypeOK, SessionsAreAudited, RecoveriesAreAudited,
                SessionsAreGenuine, LoginsComeFirst, LinksAreOld, GoesOn
  <1> QED BY <1>1, <1>2, <1>3, <1>4, <1>5 DEF Next

(* The invariant holds.                                                     *)
THEOREM Invariance == ASSUME SessionAssumption PROVE Spec => []IInv
  BY InitInv, NextInv, PTL DEF Spec

(* No session from before the last recovery is usable, also when the        *)
(* recovery fell into the login that opened it, and a used link opens       *)
(* nothing, unless a form of the admin site has set the password back.      *)
THEOREM RecoveriesAreFinal == ASSUME SessionAssumption PROVE Spec => []RecoveryIsFinal
  <1>1. ASSUME IInv PROVE RecoveryEndsSessions
    <2> SUFFICES ASSUME NEW b \in Browser, Usable(b), session[b].user \notin setBack
                 PROVE  session[b].proof = resets[session[b].user]
      BY DEF RecoveryEndsSessions
    <2>1. session[b] \in Session /\ session[b].user \in User
      BY <1>1 DEF IInv, TypeOK, Usable, Session
    <2> QED BY <1>1, <2>1 DEF IInv, SessionsAreGenuine, RecoveriesAreAudited, Usable
  <1>2. ASSUME IInv PROVE UsedLinkIsRefused
    <2> SUFFICES ASSUME NEW l \in used, l.user \notin setBack PROVE ~Valid(l)
      BY DEF UsedLinkIsRefused
    <2>1. l.user \in User /\ l.secret \in 0 .. MaxResets /\ l.secret < resets[l.user]
      BY <1>2 DEF IInv, TypeOK, Link, LinksAreOld
    <2>2. secret[l.user] = resets[l.user] /\ resets[l.user] \in 0 .. MaxResets
      BY <1>2, <2>1 DEF IInv, RecoveriesAreAudited, TypeOK
    <2> QED BY <2>1, <2>2 DEF Valid, SessionAssumption
  <1>3. IInv => RecoveryIsFinal
    BY <1>1, <1>2 DEF RecoveryIsFinal
  <1> QED BY <1>3, Invariance, PTL

(* Every session of the API and every recovery is in the audit trail.       *)
THEOREM AccessIsInTheTrail ==
  ASSUME SessionAssumption PROVE Spec => [](SessionsAreAudited /\ RecoveriesAreAudited)
  BY Invariance, PTL DEF IInv

(* Only a form that says so switches an account on: no request that goes on *)
(* while somebody switches the account off writes it back.                  *)
THEOREM NobodySwitchesOn == ASSUME SessionAssumption PROVE Spec => StaysSwitchedOff
  <1> DEFINE Meant(u) == \E b \in Browser : request[b].step = "form" /\ request[b].user = u /\ request[b].active
  <1>1. ASSUME IInv, [Next]_vars, NEW u \in User, active'[u], ~active[u]
        PROVE  Meant(u)
    <2>1. active' # active
      BY <1>1
    <2>2. PICK b \in Browser : SaveAccountForm(b)
      BY <1>1, <2>1 DEF Next, vars, account, Authenticate, StampLogin, AuditLogin, AnswerLogin, Logout,
           Refuse, CheckLink, ResetPassword, Abandon, SendLink, LoadAccountForm, Expire
    <2>3. active' = [active EXCEPT ![request[b].user] = request[b].active] /\ request[b].step = "form"
      BY <2>2 DEF SaveAccountForm
    <2>4. request[b].user = u /\ request[b].active
      BY <1>1, <2>3 DEF IInv, TypeOK
    <2> QED BY <2>3, <2>4
  <1>2. IInv /\ [Next]_vars => [\A u \in User : active'[u] /\ ~active[u] => Meant(u)]_vars
    BY <1>1
  <1> QED BY <1>2, Invariance, PTL DEF Spec, StaysSwitchedOff

-----------------------------------------------------------------------------
(* createsuperuser: how the first accounts come into being, for any runs of *)
(* the command and any way of writing an address.                           *)
CONSTANTS Run, Spelling, Normal(_), MaxPeople

VARIABLES people, accounts, run

Creation == INSTANCE AccountCreation

(* What a run may be doing.                                                 *)
RunStates == {Creation!Idle} \cup [step : {"person"}, email : Spelling]
               \cup [step : {"user"}, email : Spelling, person : 1 .. MaxPeople]

(* The invariant, before the first run.                                     *)
LEMMA CreationInit == ASSUME Creation!CreationAssumption, Creation!Init PROVE Creation!IInv
  <1>1. Creation!TypeOK
    BY DEF Creation!CreationAssumption, Creation!Init, Creation!TypeOK, Creation!Idle
  <1>2. \A r \in Run : run[r].step # "user"
    BY DEF Creation!Init, Creation!Idle
  <1> QED BY <1>1, <1>2 DEF Creation!Init, Creation!IInv, Creation!AddressesAreNormal,
                            Creation!PeopleAreReserved, Creation!AccountsMatchPeople

(* Steps that insert no account and reserve no Person.                      *)
LEMMA Undecided ==
  ASSUME Creation!IInv, NEW r \in Run, NEW d \in RunStates, d.step # "user",
         run' = [run EXCEPT ![r] = d],
         UNCHANGED <<people, accounts>>
  PROVE  Creation!IInv'
  <1> USE DEF Creation!IInv
  <1>1. Creation!TypeOK'
    BY DEF Creation!TypeOK, RunStates
  <1>2. Creation!PeopleAreReserved'
    BY DEF Creation!TypeOK, Creation!PeopleAreReserved
  <1> QED BY <1>1, <1>2 DEF Creation!AddressesAreNormal, Creation!AccountsMatchPeople

(* The Person of a run is new.                                              *)
LEMMA CreatePersonKeeps ==
  ASSUME Creation!CreationAssumption, Creation!IInv, NEW r \in Run, Creation!CreatePerson(r)
  PROVE  Creation!IInv'
  <1> USE DEF Creation!IInv
  <1> DEFINE n == Len(people) + 1
             d == [step |-> "user", email |-> run[r].email, person |-> n]
  <1>1. run[r].email \in Spelling /\ Normal(run[r].email) \in Spelling
    BY DEF Creation!CreatePerson, Creation!TypeOK, Creation!Idle, Creation!CreationAssumption
  <1>2. /\ people' = Append(people, Normal(run[r].email)) /\ accounts' = accounts
        /\ run' = [run EXCEPT ![r] = d] /\ n \in 1 .. MaxPeople
    BY DEF Creation!CreatePerson, Creation!TypeOK, Creation!CreationAssumption
  <1>3. /\ people' \in Seq(Spelling) /\ Len(people') = n /\ people'[n] = Normal(run[r].email)
        /\ Len(people) \in Nat /\ \A m \in 1 .. Len(people) : people'[m] = people[m]
    BY <1>1, <1>2 DEF Creation!TypeOK
  <1>4. d \in RunStates /\ d.step = "user" /\ d.person = n /\ d.email = run[r].email
    BY <1>1, <1>2 DEF RunStates
  <1> HIDE DEF n, d
  <1>5. \A a \in accounts : a \in [email : Spelling, person : 1 .. Len(people)] /\ a.person \in 1 .. Len(people)
    BY DEF Creation!TypeOK
  <1>6. Creation!TypeOK'
    BY <1>2, <1>3, <1>4, <1>5 DEF Creation!TypeOK, RunStates, n
  <1>7. Creation!PeopleAreReserved'
    <2> SUFFICES ASSUME NEW q \in Run, run'[q].step = "user"
                 PROVE  /\ run'[q].person \in 1 .. Len(people')
                             /\ people'[run'[q].person] = Normal(run'[q].email)
                        /\ \A a \in accounts' : a.person # run'[q].person
                        /\ \A o \in Run \ {q} : run'[o].step = "user" => run'[o].person # run'[q].person
      BY DEF Creation!PeopleAreReserved
    <2>1. run'[r] = d /\ \A o \in Run \ {r} : run'[o] = run[o]
      BY <1>2 DEF Creation!TypeOK
    <2>2. \A o \in Run \ {r} : run[o].step = "user" => run[o].person \in 1 .. Len(people)
      BY DEF Creation!PeopleAreReserved
    <2>3. \A m \in 1 .. Len(people) : m # n /\ m \in 1 .. n
      BY <1>3 DEF n
    <2>4. CASE q = r
      BY <1>2, <1>3, <1>4, <1>5, <2>1, <2>2, <2>3, <2>4
    <2>5. CASE q # r
      BY <1>2, <1>3, <1>4, <2>1, <2>2, <2>3, <2>5 DEF Creation!PeopleAreReserved
    <2> QED BY <2>4, <2>5
  <1>8. Creation!AddressesAreNormal' /\ Creation!AccountsMatchPeople'
    BY <1>2, <1>3, <1>5 DEF Creation!AddressesAreNormal, Creation!AccountsMatchPeople
  <1> QED BY <1>6, <1>7, <1>8

(* The account: refused by the unique constraint, or the first of its       *)
(* address, with the Person the run has inserted for it.                    *)
LEMMA SaveUserKeeps ==
  ASSUME Creation!CreationAssumption, Creation!IInv, NEW r \in Run, Creation!SaveUser(r)
  PROVE  Creation!IInv'
  <1> USE DEF Creation!IInv
  <1> DEFINE e == Normal(run[r].email)
             a == [email |-> e, person |-> run[r].person]
  <1>1. Creation!Idle \in RunStates /\ Creation!Idle.step # "user"
          /\ run' = [run EXCEPT ![r] = Creation!Idle] /\ people' = people
    BY DEF Creation!SaveUser, RunStates, Creation!Idle
  <1>2. CASE Creation!Taken(e)
    BY <1>1, <1>2, Undecided DEF Creation!SaveUser
  <1>3. CASE ~Creation!Taken(e)
    <2>1. run[r].email \in Spelling /\ e \in Spelling /\ Normal(e) = e
      BY DEF Creation!SaveUser, Creation!TypeOK, Creation!Idle, Creation!CreationAssumption
    <2>2. accounts' = accounts \cup {a}
      BY <1>3 DEF Creation!SaveUser
    <2>3. /\ run[r].person \in 1 .. Len(people) /\ people[run[r].person] = e
          /\ \A b \in accounts : b.person # run[r].person
          /\ \A q \in Run \ {r} : run[q].step = "user" => run[q].person # run[r].person
      BY DEF Creation!SaveUser, Creation!PeopleAreReserved
    <2>4. /\ a \in [email : Spelling, person : 1 .. Len(people)]
          /\ a.email = e /\ a.person = run[r].person
      BY <2>1, <2>3
    <2>5. \A b \in accounts : b.email # e
      BY <1>3 DEF Creation!Taken
    <2> HIDE DEF e, a
    <2>6. Creation!TypeOK'
      BY <1>1, <2>2, <2>4 DEF Creation!TypeOK
    <2>7. Creation!AddressesAreNormal'
      BY <2>1, <2>2, <2>4, <2>5 DEF Creation!AddressesAreNormal
    <2>8. Creation!AccountsMatchPeople'
      BY <1>1, <2>1, <2>2, <2>3, <2>4 DEF Creation!AccountsMatchPeople
    <2>9. Creation!PeopleAreReserved'
      <3>1. run'[r] = Creation!Idle /\ \A q \in Run \ {r} : run'[q] = run[q]
        BY <1>1 DEF Creation!TypeOK
      <3> QED BY <1>1, <2>2, <2>3, <2>4, <3>1 DEF Creation!PeopleAreReserved
    <2> QED BY <2>6, <2>7, <2>8, <2>9
  <1> QED BY <1>2, <1>3

(* Every step of every run keeps it.                                        *)
LEMMA CreationNext == ASSUME Creation!CreationAssumption, Creation!IInv,
                             [Creation!Next]_(Creation!vars)
                      PROVE  Creation!IInv'
  <1>1. ASSUME NEW r \in Run, NEW s \in Spelling, Creation!Enter(r, s) PROVE Creation!IInv'
    <2>1. [step |-> "person", email |-> s] \in RunStates
            /\ [step |-> "person", email |-> s].step # "user"
      BY DEF RunStates
    <2> QED BY <1>1, <2>1, Undecided DEF Creation!Enter
  <1>2. ASSUME NEW r \in Run, Creation!Abandon(r) PROVE Creation!IInv'
    <2>1. Creation!Idle \in RunStates /\ Creation!Idle.step # "user"
      BY DEF RunStates, Creation!Idle
    <2> QED BY <1>2, <2>1, Undecided DEF Creation!Abandon
  <1>3. CASE UNCHANGED Creation!vars
    BY <1>3 DEF Creation!vars, Creation!IInv, Creation!TypeOK, Creation!AddressesAreNormal,
                Creation!PeopleAreReserved, Creation!AccountsMatchPeople
  <1> QED BY <1>1, <1>2, <1>3, CreatePersonKeeps, SaveUserKeeps DEF Creation!Next

(* Whatever runs of the command overlap, fail or are abandoned: one account *)
(* per address, however it was spelled, and a Person of its own for each,   *)
(* with that address.                                                       *)
THEOREM AccountsAreApart ==
  ASSUME Creation!CreationAssumption
  PROVE  Creation!Spec => [](Creation!OneAccountPerAddress /\ Creation!AccountsMatchPeople)
  <1>1. Creation!Spec => []Creation!IInv
    BY CreationInit, CreationNext, PTL DEF Creation!Spec
  <1>2. Creation!IInv => Creation!OneAccountPerAddress /\ Creation!AccountsMatchPeople
    BY DEF Creation!IInv, Creation!AddressesAreNormal, Creation!OneAccountPerAddress
  <1> QED BY <1>1, <1>2, PTL
=============================================================================
