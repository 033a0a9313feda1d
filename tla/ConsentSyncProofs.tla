--------------------------- MODULE ConsentSyncProofs ---------------------------
(***************************************************************************)
(* Proofs about ConsentSync: an opt-out always has a job on its way to     *)
(* Brevo, whatever the workers' pace; a profile edit has one when they are *)
(* in time; and no step lifts a restriction.                               *)
(***************************************************************************)
EXTENDS ConsentSync, TLAPS

-----------------------------------------------------------------------------
(* What a request does to a contact: it never makes one disappear, and what *)
(* protects one stays.                                                      *)
LEMMA AppliedKeeps ==
  ASSUME NEW req \in Request, NEW c \in Contact
  PROVE  /\ Applied(req, c) \in Contact
         /\ c.exists => Applied(req, c).exists
         /\ c.exists /\ Protected(c) => Protected(Applied(req, c))
         /\ ~Applied(req, c).exists => Applied(req, c) = c
BY DEF Request, Contact, Applied, New, Absent, Protected

(* A busy worker has a job that is not NEW, and the job a Person.           *)
LEMMA BusyHasJob ==
  ASSUME TypeOK, NEW w \in Worker, worker[w].pc # "idle"
  PROVE  /\ worker[w].job \in Job
         /\ job[worker[w].job] \in Row
         /\ job[worker[w].job].status # "NEW"
         /\ PersonOf(w) \in Person
         /\ KindOf(w) \in Kind
         /\ RequestOf(w) \in Request
         /\ RequestOf(w).profile = person[PersonOf(w)].profile
<1>1. worker[w].job \in Job /\ job[worker[w].job] \in Row /\ job[worker[w].job].status # "NEW"
  BY DEF TypeOK, Hand, Job
<1>2. PersonOf(w) \in Person /\ KindOf(w) \in Kind
  BY <1>1 DEF PersonOf, KindOf, Row
<1>3. RequestOf(w) \in Request /\ RequestOf(w).profile = person[PersonOf(w)].profile
  BY <1>2 DEF RequestOf, Wanted, Request, TypeOK, PersonRow, Contact, Protected
<1> QED BY <1>1, <1>2, <1>3

(* A job that is enqueued was NEW, and the others stay.                     *)
LEMMA EnqueueAdds ==
  ASSUME TypeOK, NEW p \in Person, NEW kind \in Kind, Enqueue(p, kind)
  PROVE  \E j \in Job : /\ job[j].status = "NEW"
                        /\ job' = [job EXCEPT ![j] = NewRow(p, kind)]
                        /\ job' \in [Job -> Row]
<1>1. PICK j \in Job : Free(j) /\ job' = [job EXCEPT ![j] = NewRow(p, kind)]
  BY DEF Enqueue
<1>2. NewRow(p, kind) \in Row
  BY ConsentAssumption DEF NewRow, Row
<1> QED BY <1>1, <1>2 DEF Free, TypeOK

-----------------------------------------------------------------------------
(* Types hold initially.                                                    *)
LEMMA InitTypes == Init => TypeOK
<1> SUFFICES ASSUME Init PROVE TypeOK
  OBVIOUS
<1>1. 0 \in 0..MaxEdits /\ 0 \in 0..MaxAttempts
  BY ConsentAssumption
<1>2. (CHOOSE p \in Person : TRUE) \in Person
  BY ConsentAssumption
<1>3. Absent \in Contact
  BY <1>1 DEF Absent, Contact
<1>4. contact \in [Person -> Contact]
  <2>1. /\ [Absent EXCEPT !.exists = TRUE] \in Contact
        /\ [Absent EXCEPT !.exists = TRUE, !.inList = TRUE] \in Contact
        /\ [Absent EXCEPT !.exists = TRUE, !.blocked = TRUE] \in Contact
    BY <1>3 DEF Contact
  <2> QED BY <1>3, <2>1 DEF Init
<1>5. \A p \in Person : ~contact[p].exists => contact[p] = Absent
  BY DEF Init, Absent
<1>6. job \in [Job -> Row]
  BY <1>1, <1>2 DEF Init, Row, Kind
<1>7. worker \in [Worker -> Hand]
  BY <1>1 DEF Init, Idle, Hand
<1>8. consent \in [Person -> Consent] /\ person \in [Person -> PersonRow]
  BY <1>1 DEF Init, Consent, PersonRow
<1>9. \A w \in Worker : worker[w].pc = "idle"
  BY DEF Init, Idle
<1> QED BY <1>4, <1>5, <1>6, <1>7, <1>8, <1>9 DEF TypeOK, Init

(* Every step keeps the types.                                              *)
LEMMA NextTypes == TypeOK /\ HandsAreSound /\ AttachingFound /\ [Next]_vars => TypeOK'
<1> SUFFICES ASSUME TypeOK, HandsAreSound, AttachingFound, [Next]_vars PROVE TypeOK'
  OBVIOUS
<1>0. stalls' = stalls
  BY DEF Next, vars
<1> USE <1>0 DEF crmVars, brevoVars, queueVars
<1>1. ASSUME NEW p \in Person, NEW s \in {"OPTED_IN", "OPTED_OUT"}, RecordPreference(p, s)
      PROVE  TypeOK'
  <2>1. PICK j \in Job : job[j].status = "NEW" /\ job' = [job EXCEPT ![j] = NewRow(p, "preference")]
                         /\ job' \in [Job -> Row]
    BY <1>1, EnqueueAdds DEF RecordPreference, Kind
  <2>2. consent' \in [Person -> Consent]
    BY <1>1 DEF RecordPreference, TypeOK, Consent
  <2> QED BY <1>1, <2>1, <2>2 DEF RecordPreference, TypeOK, NewRow
<1>2. ASSUME NEW p \in Person, ReceiveUnsubscribe(p) PROVE TypeOK'
  <2>1. consent' \in [Person -> Consent]
    BY <1>2 DEF ReceiveUnsubscribe, TypeOK, Consent
  <2> QED BY <1>2, <2>1 DEF ReceiveUnsubscribe, TypeOK
<1>3. ASSUME NEW p \in Person, EditPerson(p) PROVE TypeOK'
  <2>1. person' \in [Person -> PersonRow]
    <3>1. person[p].profile \in 0..MaxEdits /\ person[p].email \in BOOLEAN
      BY DEF TypeOK, PersonRow
    <3>2. person[p].profile < MaxEdits => person[p].profile + 1 \in 0..MaxEdits
      BY <3>1, ConsentAssumption
    <3> QED BY <1>3, <3>1, <3>2 DEF EditPerson, TypeOK, PersonRow
  <2>2. CASE UNCHANGED job
    BY <1>3, <2>1, <2>2 DEF EditPerson, TypeOK
  <2>3. CASE Enqueue(p, "profile")
    <3>1. PICK j \in Job : job[j].status = "NEW" /\ job' = [job EXCEPT ![j] = NewRow(p, "profile")]
                           /\ job' \in [Job -> Row]
      BY <2>3, EnqueueAdds DEF Kind
    <3> QED BY <1>3, <2>1, <3>1 DEF EditPerson, TypeOK, NewRow
  <2> QED BY <1>3, <2>2, <2>3 DEF EditPerson, EnqueueCoalesced
<1>4. ASSUME NEW p \in Person, ArchiveOrRestore(p) PROVE TypeOK'
  <2>1. person' \in [Person -> PersonRow]
    BY <1>4 DEF ArchiveOrRestore, TypeOK, PersonRow
  <2> QED BY <1>4, <2>1 DEF ArchiveOrRestore, TypeOK
<1>5. ASSUME NEW p \in Person, Unsubscribe(p) PROVE TypeOK'
  <2>1. contact' \in [Person -> Contact]
    <3>1. [contact[p] EXCEPT !.blocked = TRUE] \in Contact
      BY DEF TypeOK, Contact
    <3>2. [contact[p] EXCEPT !.inList = FALSE, !.unsubscribed = TRUE] \in Contact
      BY DEF TypeOK, Contact
    <3>3. \/ contact' = [contact EXCEPT ![p] = [contact[p] EXCEPT !.blocked = TRUE]]
          \/ contact' = [contact EXCEPT ![p] =
                           [contact[p] EXCEPT !.inList = FALSE, !.unsubscribed = TRUE]]
      BY <1>5 DEF Unsubscribe, TypeOK
    <3> QED BY <3>1, <3>2, <3>3 DEF TypeOK
  <2>2. \A q \in Person : contact'[q].exists = contact[q].exists
    BY <1>5 DEF Unsubscribe, TypeOK, Contact
  <2>3. \A q \in Person : ~contact'[q].exists => contact'[q] = contact[q]
    BY <1>5 DEF Unsubscribe, TypeOK, Contact
  <2>4. event' \in [Person -> BOOLEAN]
    BY <1>5 DEF Unsubscribe, TypeOK
  <2> QED BY <1>5, <2>1, <2>2, <2>3, <2>4 DEF Unsubscribe, TypeOK
<1>6. ASSUME NEW p \in Person, DeleteContact(p) PROVE TypeOK'
  <2>1. Absent \in Contact
    BY ConsentAssumption DEF Absent, Contact
  <2>2. contact' \in [Person -> Contact]
    BY <1>6, <2>1 DEF DeleteContact, TypeOK
  <2>3. reference' \in [Person -> {"none", "linked", "dangling"}]
    BY <1>6 DEF DeleteContact, TypeOK
  <2> QED BY <1>6, <2>2, <2>3 DEF DeleteContact, TypeOK
<1>7. ASSUME NEW j \in Job, Arrive(j) PROVE TypeOK'
  <2> DEFINE p == job[j].person
  <2>1. p \in Person
    BY DEF TypeOK, Row
  <2>2. PICK req \in inflight[j] :
          /\ inflight' = [inflight EXCEPT ![j] = @ \ {req}]
          /\ \/ UNCHANGED <<contact, adrift>>
             \/ /\ contact' = [contact EXCEPT ![p] = Applied(req, @)]
                /\ adrift' = [adrift EXCEPT ![p] = @
                     \cup (IF WillLook(p) THEN {} ELSE {"preference"})
                     \cup (IF req.profile = person[p].profile THEN {} ELSE {"profile"})]
          /\ UNCHANGED <<crmVars, reference, queueVars, event>>
    BY <1>7 DEF Arrive
  <2>3. req \in Request
    BY DEF TypeOK
  <2>4. contact[p] \in Contact
    BY <2>1 DEF TypeOK
  <2> HIDE DEF p
  <2>5. Applied(req, contact[p]) \in Contact
        /\ (contact[p].exists => Applied(req, contact[p]).exists)
        /\ (~Applied(req, contact[p]).exists => Applied(req, contact[p]) = contact[p])
    BY <2>3, <2>4, AppliedKeeps
  <2>6. contact' \in [Person -> Contact]
        /\ \A q \in Person : /\ contact[q].exists => contact'[q].exists
                             /\ ~contact'[q].exists => contact'[q] = contact[q]
    BY <2>1, <2>2, <2>5 DEF TypeOK
  <2>7. adrift' \in [Person -> SUBSET Kind]
    BY <2>1, <2>2 DEF TypeOK, Kind
  <2>8. inflight' \in [Job -> SUBSET Request]
    BY <2>2 DEF TypeOK
  <2> QED BY <2>2, <2>6, <2>7, <2>8 DEF TypeOK
<1>8. ASSUME NEW w \in Worker, Claim(w) PROVE TypeOK'
  <2>1. PICK R \in SUBSET Recoverable : \E j \in Job :
          /\ job[j].status = "PENDING" \/ j \in R
          /\ inflight[j] = {}
          /\ job' = [i \in Job |->
                    IF i = j THEN [job[i] EXCEPT !.status = "PROCESSING", !.attempts = OneMore(@)]
                    ELSE IF i \in R THEN [job[i] EXCEPT !.status = "PENDING"] ELSE job[i]]
          /\ worker' = [worker EXCEPT ![w] = [Idle EXCEPT !.pc = "claimed", !.job = j,
                                                          !.attempts = job'[j].attempts]]
    BY <1>8 DEF Claim
  <2>2. PICK j \in Job :
          /\ job' = [i \in Job |->
                    IF i = j THEN [job[i] EXCEPT !.status = "PROCESSING", !.attempts = OneMore(@)]
                    ELSE IF i \in R THEN [job[i] EXCEPT !.status = "PENDING"] ELSE job[i]]
          /\ worker' = [worker EXCEPT ![w] = [Idle EXCEPT !.pc = "claimed", !.job = j,
                                                          !.attempts = job'[j].attempts]]
    BY <2>1
  <2>3. \A n \in 0..MaxAttempts : OneMore(n) \in 0..MaxAttempts
    BY ConsentAssumption DEF OneMore
  <2>4. \A i \in Job : job[i] \in Row
    BY DEF TypeOK
  <2>5. \A i \in Job : [job[i] EXCEPT !.status = "PROCESSING", !.attempts = OneMore(@)] \in Row
    BY <2>3, <2>4 DEF Row
  <2>6. \A i \in Job : [job[i] EXCEPT !.status = "PENDING"] \in Row
    BY <2>4 DEF Row
  <2>7. job' \in [Job -> Row]
    BY <2>2, <2>4, <2>5, <2>6
  <2>8. job'[j].status = "PROCESSING" /\ job'[j].attempts \in 0..MaxAttempts
    BY <2>2, <2>4, <2>7 DEF Row
  <2>9. [Idle EXCEPT !.pc = "claimed", !.job = j, !.attempts = job'[j].attempts] \in Hand
    BY <2>8 DEF Idle, Hand
  <2>10. worker' \in [Worker -> Hand] /\ worker'[w].job = j
         /\ \A v \in Worker : v # w => worker'[v] = worker[v]
    BY <2>2, <2>9 DEF TypeOK, Idle
  <2>11. \A i \in Job : job[i].status # "NEW" => job'[i].status # "NEW"
    BY <2>2, <2>4 DEF Row
  <2>12. \A v \in Worker : worker'[v].pc # "idle" =>
           worker'[v].job # 0 /\ job'[worker'[v].job].status # "NEW"
    BY <2>8, <2>10, <2>11, BusyHasJob DEF Job
  <2> QED BY <1>8, <2>7, <2>10, <2>12 DEF Claim, TypeOK
<1>9. ASSUME NEW w \in Worker, NEW h \in Hand, h.job = worker[w].job,
             worker[w].pc # "idle", worker' = [worker EXCEPT ![w] = h],
             UNCHANGED job
      PROVE  /\ worker' \in [Worker -> Hand]
             /\ \A v \in Worker : worker'[v].pc # "idle" =>
                  worker'[v].job # 0 /\ job'[worker'[v].job].status # "NEW"
  BY <1>9 DEF TypeOK
<1>10. ASSUME NEW w \in Worker, worker[w].pc # "idle",
              NEW r \in {"ok", "temporary", "permanent"}, Answer(w, r), UNCHANGED job
       PROVE  /\ worker' \in [Worker -> Hand]
              /\ \A v \in Worker : worker'[v].pc # "idle" =>
                   worker'[v].job # 0 /\ job'[worker'[v].job].status # "NEW"
  <2>1. [worker[w] EXCEPT !.pc = "synced", !.result = r] \in Hand
    BY DEF TypeOK, Hand
  <2>2. worker' = [worker EXCEPT ![w] = [worker[w] EXCEPT !.pc = "synced", !.result = r]]
    BY <1>10 DEF Answer, TypeOK, Hand
  <2>3. [worker[w] EXCEPT !.pc = "synced", !.result = r].job = worker[w].job
    BY DEF TypeOK, Hand
  <2> QED BY <1>10, <2>1, <2>2, <2>3, <1>9
<1>11. ASSUME NEW w \in Worker, BeginPreference(w) PROVE TypeOK'
  <2>1. PersonOf(w) \in Person /\ worker[w].pc # "idle"
    BY <1>11, BusyHasJob DEF BeginPreference
  <2>2. CASE Answer(w, "ok") /\ adrift' = [adrift EXCEPT ![PersonOf(w)] = @ \cup {"preference"}]
    BY <1>10, <1>11, <2>1, <2>2 DEF BeginPreference, TypeOK, Kind
  <2>3. CASE /\ worker' = [worker EXCEPT ![w].pc = "calling", ![w].seen = consent[PersonOf(w)].state]
             /\ UNCHANGED adrift
    <3>1. consent[PersonOf(w)].state \in {"UNKNOWN", "OPTED_IN", "OPTED_OUT"}
      BY <2>1 DEF TypeOK, Consent
    <3> DEFINE h == [worker[w] EXCEPT !.pc = "calling", !.seen = consent[PersonOf(w)].state]
    <3>2. h \in Hand /\ h.job = worker[w].job
      BY <3>1 DEF TypeOK, Hand
    <3>3. worker' = [worker EXCEPT ![w] = h]
      BY <2>3 DEF TypeOK, Hand
    <3> HIDE DEF h
    <3> QED BY <1>9, <1>11, <2>1, <2>3, <3>2, <3>3 DEF BeginPreference, TypeOK
  <2> QED BY <1>11, <2>2, <2>3 DEF BeginPreference
<1>12. ASSUME NEW w \in Worker, BeginProfile(w) PROVE TypeOK'
  <2>1. PersonOf(w) \in Person /\ worker[w].pc # "idle"
    BY <1>12, BusyHasJob DEF BeginProfile
  <2>2. CASE Answer(w, "ok") /\ adrift' = [adrift EXCEPT ![PersonOf(w)] = @ \cup {"profile"}]
    BY <1>10, <1>12, <2>1, <2>2 DEF BeginProfile, TypeOK, Kind
  <2>3. CASE worker' = [worker EXCEPT ![w].pc = "calling"] /\ UNCHANGED adrift
    <3> DEFINE h == [worker[w] EXCEPT !.pc = "calling"]
    <3>2. h \in Hand /\ h.job = worker[w].job
      BY DEF TypeOK, Hand
    <3>3. worker' = [worker EXCEPT ![w] = h]
      BY <2>3 DEF TypeOK, Hand
    <3> HIDE DEF h
    <3> QED BY <1>9, <1>12, <2>1, <2>3, <3>2, <3>3 DEF BeginProfile, TypeOK
  <2> QED BY <1>12, <2>2, <2>3 DEF BeginProfile
<1>13. ASSUME NEW w \in Worker, Reconcile(w) PROVE TypeOK'
  BY <1>10, <1>13 DEF Reconcile, TypeOK
<1>14. ASSUME NEW w \in Worker, CallBrevo(w) PROVE TypeOK'
  <2> DEFINE p == PersonOf(w)
             c == Applied(RequestOf(w), contact[p])
  <2>1. p \in Person /\ RequestOf(w) \in Request /\ worker[w].pc # "idle"
    BY <1>14, BusyHasJob DEF CallBrevo
  <2>2. contact[p] \in Contact
    BY <2>1 DEF TypeOK
  <2>3. c \in Contact /\ (contact[p].exists => c.exists) /\ (~c.exists => c = contact[p])
    BY <2>1, <2>2, AppliedKeeps
  <2>4. contact' = [contact EXCEPT ![p] = c]
    BY <1>14 DEF CallBrevo
  <2>5. contact' \in [Person -> Contact]
        /\ \A q \in Person : /\ contact[q].exists => contact'[q].exists
                             /\ ~contact'[q].exists => contact'[q] = contact[q]
    <3> HIDE DEF c, p
    <3> QED BY <2>1, <2>3, <2>4 DEF TypeOK
  <2>6. adrift' \in [Person -> SUBSET Kind]
    BY <1>14, <2>1 DEF CallBrevo, TypeOK
  <2>7. /\ worker' \in [Worker -> Hand]
        /\ \A v \in Worker : worker'[v].pc # "idle" =>
             worker'[v].job # 0 /\ job'[worker'[v].job].status # "NEW"
    <3>1. CASE Answer(w, "ok")
      BY <1>10, <1>14, <2>1, <3>1 DEF CallBrevo
    <3>2. CASE worker' = [worker EXCEPT ![w].pc = "attaching"]
      <4> DEFINE h == [worker[w] EXCEPT !.pc = "attaching"]
      <4>2. h \in Hand /\ h.job = worker[w].job
        BY DEF TypeOK, Hand
      <4>3. worker' = [worker EXCEPT ![w] = h]
        BY <3>2 DEF TypeOK, Hand
      <4>4. UNCHANGED job
        BY <1>14 DEF CallBrevo
      <4> HIDE DEF h
      <4> QED BY <1>9, <2>1, <4>2, <4>3, <4>4
    <3> QED BY <1>14, <3>1, <3>2 DEF CallBrevo
  <2> HIDE DEF c, p
  <2> QED BY <1>14, <2>5, <2>6, <2>7 DEF CallBrevo, TypeOK
<1>15. ASSUME NEW w \in Worker, CallRefused(w) PROVE TypeOK'
  BY <1>10, <1>15 DEF CallRefused, TypeOK
<1>16. ASSUME NEW w \in Worker, worker[w].pc # "idle", GiveUp(w)
       PROVE  inflight' \in [Job -> SUBSET Request]
  BY <1>16, BusyHasJob DEF GiveUp, TypeOK
<1>17. ASSUME NEW w \in Worker, CallUnanswered(w) PROVE TypeOK'
  <2>1. inflight' \in [Job -> SUBSET Request]
    BY <1>16, <1>17 DEF CallUnanswered
  <2> QED BY <1>10, <1>17, <2>1 DEF CallUnanswered, TypeOK
<1>18. ASSUME NEW w \in Worker, AttachReference(w) PROVE TypeOK'
  <2>1. PersonOf(w) \in Person /\ worker[w].pc # "idle"
    BY <1>18, BusyHasJob DEF AttachReference
  <2>2. reference' \in [Person -> {"none", "linked", "dangling"}]
        /\ \A q \in Person : reference'[q] = "linked" => contact[q].exists
    BY <1>18, <2>1 DEF AttachReference, AttachingFound, TypeOK
  <2> QED BY <1>10, <1>18, <2>1, <2>2 DEF AttachReference, TypeOK
<1>19. ASSUME NEW w \in Worker, worker' = [worker EXCEPT ![w] = Idle],
              \A i \in Job : job[i].status # "NEW" => job'[i].status # "NEW"
       PROVE  /\ worker' \in [Worker -> Hand]
              /\ \A v \in Worker : worker'[v].pc # "idle" =>
                   worker'[v].job # 0 /\ job'[worker'[v].job].status # "NEW"
  <2>1. Idle \in Hand /\ Idle.pc = "idle"
    BY ConsentAssumption DEF Idle, Hand
  <2>2. \A v \in Worker : v # w => worker'[v] = worker[v]
    BY <1>19 DEF TypeOK
  <2>3. worker' \in [Worker -> Hand] /\ worker'[w] = Idle
    BY <1>19, <2>1 DEF TypeOK
  <2> QED BY <1>19, <2>1, <2>2, <2>3, BusyHasJob DEF TypeOK
<1>20. ASSUME NEW w \in Worker, Complete(w) PROVE TypeOK'
  <2>1. worker[w].job \in Job /\ PersonOf(w) \in Person /\ KindOf(w) \in Kind
    BY <1>20, BusyHasJob DEF Complete
  <2>2. worker[w].result \in {"none", "ok", "temporary", "permanent"}
    BY DEF TypeOK, Hand
  <2> DEFINE s == Outcome(worker[w].result, worker[w].attempts)
  <2>3. job' = [job EXCEPT ![worker[w].job].status = s]
    BY <1>20 DEF Complete
  <2>4. s \in {"SUCCEEDED", "FAILED", "PENDING"}
    BY <1>20, <2>2 DEF Outcome, HandsAreSound, Complete
  <2> HIDE DEF s
  <2>5. [job[worker[w].job] EXCEPT !.status = s] \in Row
    BY <2>1, <2>4 DEF TypeOK, Row, Done
  <2>6. job' = [job EXCEPT ![worker[w].job] = [job[worker[w].job] EXCEPT !.status = s]]
    BY <2>1, <2>3 DEF TypeOK
  <2>7. job' \in [Job -> Row]
    BY <2>1, <2>5, <2>6 DEF TypeOK
  <2>8. \A i \in Job : job[i].status # "NEW" => job'[i].status # "NEW"
    BY <2>1, <2>4, <2>6 DEF TypeOK, Row
  <2>9. adrift' \in [Person -> SUBSET Kind]
    BY <1>20, <2>1 DEF Complete, TypeOK
  <2> QED BY <1>19, <1>20, <2>7, <2>8, <2>9 DEF Complete, TypeOK
<1>21. ASSUME NEW w \in Worker, Crash(w) PROVE TypeOK'
  <2>1. inflight' \in [Job -> SUBSET Request]
    BY <1>16, <1>21 DEF Crash, TypeOK
  <2>2. crashes' \in Nat
    BY <1>21 DEF Crash, TypeOK
  <2> QED BY <1>19, <1>21, <2>1, <2>2 DEF Crash, TypeOK
<1>22. CASE UNCHANGED vars
  BY <1>22 DEF vars, TypeOK
<1> QED BY <1>1, <1>2, <1>3, <1>4, <1>5, <1>6, <1>7, <1>8, <1>11, <1>12, <1>13, <1>14,
           <1>15, <1>17, <1>18, <1>20, <1>21, <1>22 DEF Next, Work, Staff, Brevo
(* The invariant holds initially.                                           *)
LEMMA InitInv == Init => IInv
<1> SUFFICES ASSUME Init PROVE IInv
  OBVIOUS
<1>1. \A w \in Worker : worker[w].pc = "idle" /\ worker[w].job = 0
  BY DEF Init, Idle
<1>2. \A p \in Person : ~event[p] /\ consent[p].state = "UNKNOWN"
  BY DEF Init
<1> QED BY <1>1, <1>2, InitTypes DEF IInv, HandsAreSound, EventsAreOfProtected, CallersHaveSeen,
           AttachingFound, StaleOptInIsFollowed, OptOutWillReachBrevo

-----------------------------------------------------------------------------
(* A job that is not NEW stays so, and is about the same Person and kind.   *)
RowsStay == \A j \in Job : job[j].status # "NEW" =>
  job'[j].kind = job[j].kind /\ job'[j].person = job[j].person

(* No step deletes a row of the queue or changes what it is about.          *)
LEMMA NextRows == TypeOK /\ [Next]_vars => RowsStay
<1> SUFFICES ASSUME TypeOK, [Next]_vars PROVE RowsStay
  OBVIOUS
<1> USE DEF crmVars, brevoVars, queueVars
<1>1. ASSUME NEW p \in Person, NEW kind \in Kind, Enqueue(p, kind) PROVE RowsStay
  <2>1. PICK j \in Job : job[j].status = "NEW" /\ job' = [job EXCEPT ![j] = NewRow(p, kind)]
    BY <1>1, EnqueueAdds
  <2> QED BY <2>1 DEF RowsStay, TypeOK
<1>2. ASSUME NEW p \in Person, NEW s \in {"OPTED_IN", "OPTED_OUT"}, RecordPreference(p, s)
      PROVE  RowsStay
  BY <1>1, <1>2 DEF RecordPreference, Kind
<1>3. ASSUME NEW p \in Person, EditPerson(p) PROVE RowsStay
  BY <1>1, <1>3 DEF EditPerson, EnqueueCoalesced, Kind, RowsStay
<1>4. ASSUME NEW w \in Worker, Claim(w) PROVE RowsStay
  <2>1. PICK R \in SUBSET Recoverable : \E j \in Job :
          job' = [i \in Job |->
                    IF i = j THEN [job[i] EXCEPT !.status = "PROCESSING", !.attempts = OneMore(@)]
                    ELSE IF i \in R THEN [job[i] EXCEPT !.status = "PENDING"] ELSE job[i]]
    BY <1>4 DEF Claim
  <2>2. \A i \in Job : job[i] \in Row
    BY DEF TypeOK
  <2> QED BY <2>1, <2>2 DEF RowsStay, Row
<1>5. ASSUME NEW w \in Worker, Complete(w) PROVE RowsStay
  <2>1. \A i \in Job : job[i] \in Row
    BY DEF TypeOK
  <2> DEFINE s == Outcome(worker[w].result, worker[w].attempts)
  <2>2. job' = [job EXCEPT ![worker[w].job].status = s]
    BY <1>5 DEF Complete
  <2> HIDE DEF s
  <2> QED BY <2>1, <2>2 DEF RowsStay, TypeOK, Row
<1>6. CASE UNCHANGED job
  BY <1>6 DEF RowsStay
<1> QED BY <1>2, <1>3, <1>4, <1>5, <1>6 DEF Next, Work, Staff, Brevo, ReceiveUnsubscribe,
      ArchiveOrRestore, Unsubscribe, DeleteContact, Arrive, BeginPreference, BeginProfile,
      Reconcile, CallBrevo, CallRefused, CallUnanswered, AttachReference, Crash, vars

-----------------------------------------------------------------------------
(* No step but a deletion makes a contact disappear or lose its protection. *)
LEMMA ContactStays ==
  ASSUME TypeOK, [Next]_vars
  PROVE  \A p \in Person : contact[p].exists =>
           \/ contact'[p].exists /\ (Protected(contact[p]) => Protected(contact'[p]))
           \/ DeleteContact(p) /\ ~contact'[p].exists
<1> USE DEF crmVars, brevoVars, queueVars
<1> DEFINE Stays == \A p \in Person : contact[p].exists =>
             contact'[p].exists /\ (Protected(contact[p]) => Protected(contact'[p]))
<1>1. ASSUME NEW q \in Person, Unsubscribe(q) PROVE Stays
  <2>1. \A p \in Person : p # q => contact'[p] = contact[p]
    BY <1>1 DEF Unsubscribe, TypeOK
  <2>2. ~Protected(contact[q]) /\ contact'[q].exists
    BY <1>1 DEF Unsubscribe, TypeOK, Contact
  <2> QED BY <2>1, <2>2
<1>2. ASSUME NEW q \in Person, NEW req \in Request,
             contact' = [contact EXCEPT ![q] = Applied(req, contact[q])]
      PROVE Stays
  <2>1. contact[q] \in Contact
    BY DEF TypeOK
  <2>2. contact[q].exists =>
          /\ Applied(req, contact[q]).exists
          /\ Protected(contact[q]) => Protected(Applied(req, contact[q]))
    BY <2>1, AppliedKeeps
  <2> QED BY <1>2, <2>2 DEF TypeOK
<1>3. ASSUME NEW j \in Job, Arrive(j) PROVE Stays
  <2>1. PICK req \in inflight[j] :
         \/ UNCHANGED contact
         \/ contact' = [contact EXCEPT ![job[j].person] = Applied(req, contact[job[j].person])]
    BY <1>3 DEF Arrive
  <2>2. req \in Request /\ job[j].person \in Person
    BY DEF TypeOK, Row
  <2> QED BY <1>2, <2>1, <2>2
<1>4. ASSUME NEW w \in Worker, CallBrevo(w) PROVE Stays
  <2>1. PersonOf(w) \in Person /\ RequestOf(w) \in Request
    BY <1>4, BusyHasJob DEF CallBrevo
  <2>2. contact' = [contact EXCEPT ![PersonOf(w)] = Applied(RequestOf(w), contact[PersonOf(w)])]
    BY <1>4 DEF CallBrevo
  <2> QED BY <1>2, <2>1, <2>2
<1>5. ASSUME NEW q \in Person, DeleteContact(q)
      PROVE  /\ ~contact'[q].exists
             /\ \A p \in Person : p # q => contact'[p] = contact[p]
  BY <1>5 DEF DeleteContact, Absent, TypeOK
<1>6. ASSUME UNCHANGED contact PROVE Stays
  BY <1>6
<1>7. Stays \/ \E q \in Person : DeleteContact(q)
  <2> HIDE DEF Stays
  <2> HIDE DEF Stays
  <2>1. ASSUME NEW w \in Worker, Work(w) \/ Crash(w) PROVE Stays
    <3>1. CallBrevo(w) \/ UNCHANGED contact
      BY <2>1 DEF Work, Claim, BeginPreference, BeginProfile, Reconcile, CallRefused,
                  CallUnanswered, AttachReference, Complete, Crash
    <3> QED BY <1>4, <1>6, <3>1
  <2>2. ASSUME NEW p \in Person, Staff(p) \/ ReceiveUnsubscribe(p) PROVE Stays
    <3>1. UNCHANGED contact
      BY <2>2 DEF Staff, RecordPreference, EditPerson, ArchiveOrRestore, ReceiveUnsubscribe
    <3> QED BY <1>6, <3>1
  <2>3. CASE UNCHANGED vars
    BY <1>6, <2>3 DEF vars
  <2> QED BY <1>1, <1>3, <2>1, <2>2, <2>3 DEF Next, Brevo
<1> QED BY <1>5, <1>7

-----------------------------------------------------------------------------
(* A step of one worker leaves the others' hands alone, and any other step  *)
(* all of them.                                                             *)
LEMMA HandsStay ==
  ASSUME TypeOK, [Next]_vars
  PROVE  \/ UNCHANGED worker
         \/ \E w \in Worker : /\ Work(w) \/ Crash(w)
                              /\ \A v \in Worker : v # w => worker'[v] = worker[v]
<1> USE DEF crmVars, brevoVars, queueVars
<1>1. ASSUME NEW w \in Worker, Work(w) \/ Crash(w), NEW v \in Worker, v # w
      PROVE  worker'[v] = worker[v]
  <2>1. CASE Claim(w)
    BY <1>1, <2>1 DEF Claim, TypeOK
  <2>2. CASE BeginPreference(w)
    BY <1>1, <2>2 DEF BeginPreference, Answer, TypeOK
  <2>3. CASE BeginProfile(w)
    BY <1>1, <2>3 DEF BeginProfile, Answer, TypeOK
  <2>4. CASE Reconcile(w) \/ CallRefused(w) \/ CallUnanswered(w) \/ AttachReference(w)
    BY <1>1, <2>4 DEF Reconcile, CallRefused, CallUnanswered, AttachReference, Answer, TypeOK
  <2>5. CASE CallBrevo(w)
    BY <1>1, <2>5 DEF CallBrevo, Answer, TypeOK
  <2>6. CASE Complete(w) \/ Crash(w)
    BY <1>1, <2>6 DEF Complete, Crash, TypeOK
  <2> QED BY <1>1, <2>1, <2>2, <2>3, <2>4, <2>5, <2>6 DEF Work
<1>2. ASSUME NEW p \in Person, Staff(p) \/ Brevo(p) \/ ReceiveUnsubscribe(p) PROVE UNCHANGED worker
  BY <1>2 DEF Staff, Brevo, RecordPreference, EditPerson, ArchiveOrRestore, ReceiveUnsubscribe,
              Unsubscribe, DeleteContact
<1>3. ASSUME NEW j \in Job, Arrive(j) PROVE UNCHANGED worker
  BY <1>3 DEF Arrive
<1>4. CASE UNCHANGED vars
  BY <1>4 DEF vars
<1> QED BY <1>1, <1>2, <1>3, <1>4 DEF Next

(* What a worker's own step makes of its hand.                              *)
Begun(w) == /\ worker'[w].pc = "calling" /\ worker'[w].job = worker[w].job
            /\ \/ /\ BeginPreference(w) /\ consent[PersonOf(w)].state # "UNKNOWN"
                  /\ worker'[w].seen = consent[PersonOf(w)].state
               \/ BeginProfile(w)

Answered(w) == /\ worker'[w].pc = "synced" /\ worker'[w].job = worker[w].job
               /\ worker'[w].result \in {"ok", "temporary", "permanent"}
               /\ worker'[w].result = "ok" =>
                    \/ BeginPreference(w) /\ "preference" \in adrift'[PersonOf(w)]
                    \/ BeginProfile(w) /\ "profile" \in adrift'[PersonOf(w)]
                    \/ CallBrevo(w)
                    \/ worker[w].pc = "attaching"

(* The five ways a step of a worker may leave its own hand.                 *)
LEMMA OwnStep ==
  ASSUME TypeOK, NEW w \in Worker, Work(w) \/ Crash(w)
  PROVE  \/ worker'[w] = Idle
         \/ worker'[w].pc = "claimed"
         \/ Answered(w)
         \/ Begun(w)
         \/ /\ CallBrevo(w) /\ worker'[w].pc = "attaching" /\ worker'[w].job = worker[w].job
            /\ KindOf(w) = "preference" /\ contact'[PersonOf(w)].exists
<1>1. ASSUME NEW r \in {"ok", "temporary", "permanent"}, Answer(w, r)
      PROVE  worker'[w].pc = "synced" /\ worker'[w].job = worker[w].job /\ worker'[w].result = r
  BY <1>1 DEF Answer, TypeOK, Hand
<1>2. CASE Claim(w)
  BY <1>2 DEF Claim, TypeOK, Idle
<1>3. CASE BeginPreference(w)
  <2>1. CASE Answer(w, "ok") /\ adrift' = [adrift EXCEPT ![PersonOf(w)] = @ \cup {"preference"}]
    <3>1. PersonOf(w) \in Person
      BY <1>3, BusyHasJob DEF BeginPreference
    <3>2. "preference" \in adrift'[PersonOf(w)]
      BY <2>1, <3>1 DEF TypeOK
    <3> QED BY <1>1, <1>3, <2>1, <3>2 DEF Answered
  <2>2. CASE /\ ~(Ineligible(PersonOf(w)) \/ consent[PersonOf(w)].state = "UNKNOWN")
             /\ worker' = [worker EXCEPT ![w].pc = "calling", ![w].seen = consent[PersonOf(w)].state]
    <3>1. worker'[w].pc = "calling" /\ worker'[w].job = worker[w].job
          /\ worker'[w].seen = consent[PersonOf(w)].state
      BY <2>2 DEF TypeOK, Hand
    <3> QED BY <1>3, <2>2, <3>1 DEF Begun
  <2> QED BY <1>3, <2>1, <2>2 DEF BeginPreference
<1>4. CASE BeginProfile(w)
  <2>1. CASE Answer(w, "ok") /\ adrift' = [adrift EXCEPT ![PersonOf(w)] = @ \cup {"profile"}]
    <3>1. PersonOf(w) \in Person
      BY <1>4, BusyHasJob DEF BeginProfile
    <3>2. "profile" \in adrift'[PersonOf(w)]
      BY <2>1, <3>1 DEF TypeOK
    <3> QED BY <1>1, <1>4, <2>1, <3>2 DEF Answered
  <2>2. CASE worker' = [worker EXCEPT ![w].pc = "calling"]
    <3>1. worker'[w].pc = "calling" /\ worker'[w].job = worker[w].job
      BY <2>2 DEF TypeOK, Hand
    <3> QED BY <1>4, <3>1 DEF Begun
  <2> QED BY <1>4, <2>1, <2>2 DEF BeginProfile
<1>5. CASE Reconcile(w) \/ CallRefused(w) \/ CallUnanswered(w) \/ AttachReference(w)
  <2>1. Answer(w, "ok") => worker[w].pc = "attaching"
    <3>1. Answer(w, "temporary") \/ Answer(w, "permanent") => ~Answer(w, "ok")
      BY <1>1
    <3> QED BY <1>5, <3>1 DEF Reconcile, CallRefused, CallUnanswered, AttachReference
  <2>2. \E r \in {"ok", "temporary", "permanent"} : Answer(w, r)
    BY <1>5 DEF Reconcile, CallRefused, CallUnanswered, AttachReference
  <2>3. PICK r \in {"ok", "temporary", "permanent"} : Answer(w, r)
    BY <2>2
  <2> QED BY <1>1, <2>1, <2>3 DEF Answered
<1>6. CASE CallBrevo(w)
  <2>1. CASE Answer(w, "ok")
    BY <1>1, <1>6, <2>1 DEF Answered
  <2>2. CASE /\ KindOf(w) = "preference" /\ Applied(RequestOf(w), contact[PersonOf(w)]).exists
             /\ worker' = [worker EXCEPT ![w].pc = "attaching"]
    <3>1. worker'[w].pc = "attaching" /\ worker'[w].job = worker[w].job
      BY <2>2 DEF TypeOK, Hand
    <3>2. PersonOf(w) \in Person
      BY <1>6, BusyHasJob DEF CallBrevo
    <3>3. contact'[PersonOf(w)] = Applied(RequestOf(w), contact[PersonOf(w)])
      BY <1>6, <3>2 DEF CallBrevo, TypeOK
    <3> QED BY <1>6, <2>2, <3>1, <3>3
  <2> QED BY <1>6, <2>1, <2>2 DEF CallBrevo
<1>7. CASE Complete(w) \/ Crash(w)
  BY <1>7 DEF Complete, Crash, TypeOK
<1> QED BY <1>2, <1>3, <1>4, <1>5, <1>6, <1>7 DEF Work

(* A worker whose hand stays keeps its job's Person and kind.               *)
LEMMA SameHand ==
  ASSUME TypeOK, [Next]_vars, NEW w \in Worker, worker[w].pc # "idle",
         worker'[w].job = worker[w].job
  PROVE  PersonOf(w)' = PersonOf(w) /\ KindOf(w)' = KindOf(w)
<1>1. worker[w].job \in Job /\ job[worker[w].job].status # "NEW"
  BY BusyHasJob
<1> QED BY <1>1, NextRows DEF RowsStay, PersonOf, KindOf

(* Idle workers hold nothing, and who has finished has a result.            *)
LEMMA NextHands == TypeOK /\ HandsAreSound /\ [Next]_vars => HandsAreSound'
<1> SUFFICES ASSUME TypeOK, HandsAreSound, [Next]_vars, NEW v \in Worker
             PROVE  /\ worker'[v].pc = "idle" => worker'[v].job = 0
                    /\ worker'[v].pc = "synced" => worker'[v].result # "none"
  BY DEF HandsAreSound
<1>1. CASE worker'[v] = worker[v]
  <2>1. worker[v].pc = "idle" => worker[v].job = 0
    BY DEF HandsAreSound
  <2>2. worker[v].pc = "synced" => worker[v].result # "none"
    BY DEF HandsAreSound
  <2> QED BY <1>1, <2>1, <2>2
<1>2. CASE Work(v) \/ Crash(v)
  BY <1>2, OwnStep DEF Begun, Answered, Idle
<1> QED BY <1>1, <1>2, HandsStay

(* A worker that calls for a preference has seen a consent: with UNKNOWN it *)
(* stops before.                                                            *)
LEMMA NextCallers == TypeOK /\ CallersHaveSeen /\ [Next]_vars => CallersHaveSeen'
<1> SUFFICES ASSUME TypeOK, CallersHaveSeen, [Next]_vars, NEW v \in Worker,
                    worker'[v].pc = "calling", KindOf(v)' = "preference"
             PROVE  worker'[v].seen # "UNKNOWN"
  BY DEF CallersHaveSeen
<1>1. CASE worker'[v] = worker[v]
  BY <1>1, SameHand DEF CallersHaveSeen
<1>2. CASE Work(v) \/ Crash(v)
  <2>1. Begun(v)
    BY <1>2, OwnStep DEF Idle, Answered
  <2>2. KindOf(v)' = KindOf(v)
    BY <2>1, SameHand DEF Begun, BeginPreference, BeginProfile
  <2> QED BY <2>1, <2>2 DEF Begun, BeginProfile, KindOf
<1> QED BY <1>1, <1>2, HandsStay

(* The contact a worker is about to attach is there; DELETE waits for the   *)
(* lock of the Person.                                                      *)
LEMMA NextAttaching == TypeOK /\ AttachingFound /\ [Next]_vars => AttachingFound'
<1> SUFFICES ASSUME TypeOK, AttachingFound, [Next]_vars, NEW v \in Worker,
                    worker'[v].pc = "attaching"
             PROVE  KindOf(v)' = "preference" /\ contact'[PersonOf(v)'].exists
  BY DEF AttachingFound
<1>1. CASE worker'[v] = worker[v]
  <2>1. KindOf(v)' = KindOf(v) /\ PersonOf(v)' = PersonOf(v) /\ PersonOf(v) \in Person
    BY <1>1, SameHand, BusyHasJob
  <2>2. ~DeleteContact(PersonOf(v))
    BY <1>1 DEF DeleteContact, Unlocked, Syncing
  <2> QED BY <1>1, <2>1, <2>2, ContactStays DEF AttachingFound
<1>2. CASE Work(v) \/ Crash(v)
  <2>1. CallBrevo(v) /\ worker'[v].job = worker[v].job
        /\ KindOf(v) = "preference" /\ contact'[PersonOf(v)].exists
    BY <1>2, OwnStep DEF Idle, Begun, Answered
  <2>2. KindOf(v)' = KindOf(v) /\ PersonOf(v)' = PersonOf(v)
    BY <2>1, SameHand DEF CallBrevo
  <2> QED BY <2>1, <2>2
<1> QED BY <1>1, <1>2, HandsStay

(* An unsubscribe event is of a contact Brevo protects, until the contact   *)
(* is deleted.                                                              *)
LEMMA NextEvents == TypeOK /\ EventsAreOfProtected /\ [Next]_vars => EventsAreOfProtected'
<1> SUFFICES ASSUME TypeOK, EventsAreOfProtected, [Next]_vars, NEW p \in Person, event'[p]
             PROVE  contact'[p].exists /\ Protected(contact'[p])
  BY DEF EventsAreOfProtected, Protected
<1>1. CASE event[p]
  BY <1>1, ContactStays DEF EventsAreOfProtected, DeleteContact
<1>2. CASE ~event[p]
  <2>1. Unsubscribe(p)
    <3> USE DEF crmVars, brevoVars, queueVars
    <3>1. ASSUME NEW w \in Worker, Work(w) \/ Crash(w) PROVE UNCHANGED event
      BY <3>1 DEF Work, Claim, BeginPreference, BeginProfile, Reconcile, CallBrevo, CallRefused,
                  CallUnanswered, AttachReference, Complete, Crash
    <3>2. ASSUME NEW q \in Person, Staff(q) \/ DeleteContact(q) PROVE UNCHANGED event
      BY <3>2 DEF Staff, RecordPreference, EditPerson, ArchiveOrRestore, DeleteContact
    <3>3. ASSUME NEW q \in Person, ReceiveUnsubscribe(q) PROVE ~event'[p]
      BY <1>2, <3>3 DEF ReceiveUnsubscribe, TypeOK
    <3>4. ASSUME NEW j \in Job, Arrive(j) PROVE UNCHANGED event
      BY <3>4 DEF Arrive
    <3>5. ASSUME NEW q \in Person, Unsubscribe(q) PROVE q = p
      BY <1>2, <3>5 DEF Unsubscribe, TypeOK
    <3>6. CASE UNCHANGED vars
      BY <1>2, <3>6 DEF vars
    <3> QED BY <1>2, <3>1, <3>2, <3>3, <3>4, <3>5, <3>6 DEF Next, Brevo
  <2> QED BY <2>1 DEF Unsubscribe, TypeOK, Contact, Protected
<1> QED BY <1>1, <1>2

-----------------------------------------------------------------------------
(* An open job stays open until a worker that has it completes it.          *)
LEMMA OpenStays ==
  ASSUME TypeOK, [Next]_vars, NEW j \in Job, Open(j)
  PROVE  Open(j)' \/ \E w \in Worker : Complete(w) /\ worker[w].job = j
<1> USE DEF crmVars, brevoVars, queueVars
<1>1. ASSUME NEW p \in Person, NEW kind \in Kind, Enqueue(p, kind) PROVE Open(j)'
  <2>1. PICK i \in Job : job[i].status = "NEW" /\ job' = [job EXCEPT ![i] = NewRow(p, kind)]
    BY <1>1, EnqueueAdds
  <2> QED BY <2>1 DEF Open, TypeOK
<1>2. ASSUME NEW p \in Person, NEW s \in {"OPTED_IN", "OPTED_OUT"}, RecordPreference(p, s)
      PROVE  Open(j)'
  BY <1>1, <1>2 DEF RecordPreference, Kind
<1>3. ASSUME UNCHANGED job PROVE Open(j)'
  BY <1>3 DEF Open
<1>4. ASSUME NEW p \in Person, EditPerson(p) PROVE Open(j)'
  BY <1>1, <1>3, <1>4 DEF EditPerson, EnqueueCoalesced, Kind
<1>5. ASSUME NEW w \in Worker, Claim(w) PROVE Open(j)'
  <2>1. PICK R \in SUBSET Recoverable : \E k \in Job :
          job' = [i \in Job |->
                    IF i = k THEN [job[i] EXCEPT !.status = "PROCESSING", !.attempts = OneMore(@)]
                    ELSE IF i \in R THEN [job[i] EXCEPT !.status = "PENDING"] ELSE job[i]]
    BY <1>5 DEF Claim
  <2>2. \A i \in Job : job[i] \in Row
    BY DEF TypeOK
  <2> QED BY <2>1, <2>2 DEF Open, Row
<1>6. ASSUME NEW w \in Worker, Complete(w), worker[w].job # j PROVE Open(j)'
  BY <1>6 DEF Complete, Open, TypeOK
<1>7. CASE UNCHANGED vars
  BY <1>3, <1>7 DEF vars
<1>8. ASSUME NEW w \in Worker, Work(w) \/ Crash(w)
      PROVE  UNCHANGED job \/ Claim(w) \/ Complete(w)
  BY <1>8 DEF Work, BeginPreference, BeginProfile, Reconcile, CallBrevo, CallRefused,
              CallUnanswered, AttachReference, Crash
<1>9. ASSUME NEW p \in Person, Brevo(p) \/ ReceiveUnsubscribe(p) \/ ArchiveOrRestore(p)
      PROVE  UNCHANGED job
  BY <1>9 DEF Brevo, Unsubscribe, DeleteContact, ReceiveUnsubscribe, ArchiveOrRestore
<1>10. ASSUME NEW i \in Job, Arrive(i) PROVE UNCHANGED job
  BY <1>10 DEF Arrive
<1> QED BY <1>2, <1>3, <1>4, <1>5, <1>6, <1>7, <1>8, <1>9, <1>10 DEF Next, Staff

(* A job that has been enqueued for p is yet to look.                       *)
LEMMA NewJobLooks ==
  ASSUME TypeOK, HandsAreSound, NEW p \in Person, NEW s \in {"OPTED_IN", "OPTED_OUT"},
         RecordPreference(p, s)
  PROVE  WillLook(p)'
<1>1. PICK j \in Job : job[j].status = "NEW" /\ job' = [job EXCEPT ![j] = NewRow(p, "preference")]
  BY EnqueueAdds DEF RecordPreference, Kind
<1>2. UNCHANGED worker
  BY DEF RecordPreference
<1>3. \A w \in Worker : worker[w].job # j
  BY <1>1 DEF TypeOK, HandsAreSound, Job
<1>4. job'[j] = NewRow(p, "preference")
  BY <1>1 DEF TypeOK
<1> QED BY <1>2, <1>3, <1>4 DEF WillLook, Open, NewRow

(* While no synchronization of p's preference begins, a job of p that is    *)
(* yet to look stays so.                                                    *)
LEMMA LookStays ==
  ASSUME TypeOK, HandsAreSound, [Next]_vars, NEW p \in Person, WillLook(p),
         \A w \in Worker : BeginPreference(w) => PersonOf(w) # p
  PROVE  WillLook(p)'
<1>1. PICK j \in Job : /\ Open(j) /\ job[j].kind = "preference" /\ job[j].person = p
                      /\ \A w \in Worker : worker[w].job = j => worker[w].pc = "claimed"
  BY DEF WillLook
<1>2. job'[j].kind = "preference" /\ job'[j].person = p
  BY <1>1, NextRows DEF RowsStay, Open
<1>3. Open(j)'
  BY <1>1, OpenStays DEF Complete
<1>4. ASSUME NEW w \in Worker, worker'[w].job = j, worker'[w].pc # "claimed"
      PROVE  FALSE
  <2>1. CASE worker'[w] = worker[w]
    BY <1>1, <1>4, <2>1
  <2>2. CASE Work(w) \/ Crash(w)
    <3>1. worker'[w].job = worker[w].job /\ (Begun(w) \/ Answered(w) \/ CallBrevo(w))
      BY <1>4, <2>2, OwnStep DEF Idle, Job, Begun, Answered
    <3>2. worker[w].pc = "claimed"
      BY <1>1, <1>4, <3>1
    <3>3. KindOf(w) = "preference" /\ PersonOf(w) = p
      BY <1>1, <1>4, <3>1 DEF KindOf, PersonOf
    <3>4. ~BeginPreference(w)
      BY <3>3
    <3>5. Claim(w) \/ BeginProfile(w) \/ Crash(w)
      BY <2>2, <3>2, <3>4 DEF Work, Reconcile, CallBrevo, CallRefused, CallUnanswered,
                              AttachReference, Complete
    <3>6. ~Claim(w) /\ ~BeginProfile(w)
      BY <3>2, <3>3 DEF Claim, BeginProfile, KindOf
    <3>7. worker'[w] = Idle
      BY <3>5, <3>6 DEF Crash, TypeOK
    <3> QED BY <1>4, <3>7 DEF Idle, Job
  <2> QED BY <2>1, <2>2, HandsStay
<1> QED BY <1>1, <1>2, <1>3, <1>4 DEF WillLook, Open

(* A job that is yet to look is one that will settle the matter.            *)
LEMMA LookSettles ==
  ASSUME NEW p \in Person, WillLook(p) PROVE WillSettle(p)
BY DEF WillLook, WillSettle

-----------------------------------------------------------------------------
(* An opt-out is staff's or the recipient's doing.                          *)
LEMMA OptOutsComeFrom ==
  ASSUME TypeOK, [Next]_vars, NEW p \in Person, consent'[p].state = "OPTED_OUT"
  PROVE  \/ consent[p].state = "OPTED_OUT"
         \/ RecordPreference(p, "OPTED_OUT")
         \/ ReceiveUnsubscribe(p)
<1> USE DEF crmVars, brevoVars, queueVars
<1>1. ASSUME UNCHANGED consent PROVE consent[p].state = "OPTED_OUT"
  BY <1>1
<1>2. ASSUME NEW w \in Worker, Work(w) \/ Crash(w) PROVE UNCHANGED consent
  BY <1>2 DEF Work, Claim, BeginPreference, BeginProfile, Reconcile, CallBrevo, CallRefused,
              CallUnanswered, AttachReference, Complete, Crash
<1>3. ASSUME NEW q \in Person, Brevo(q) \/ EditPerson(q) \/ ArchiveOrRestore(q)
      PROVE  UNCHANGED consent
  BY <1>3 DEF Brevo, Unsubscribe, DeleteContact, EditPerson, ArchiveOrRestore
<1>4. ASSUME NEW j \in Job, Arrive(j) PROVE UNCHANGED consent
  BY <1>4 DEF Arrive
<1>5. ASSUME NEW q \in Person, NEW s \in {"OPTED_IN", "OPTED_OUT"}, RecordPreference(q, s)
      PROVE  consent[p].state = "OPTED_OUT" \/ (q = p /\ s = "OPTED_OUT")
  <2>1. consent'[q].state = s /\ (p # q => consent'[p] = consent[p])
    BY <1>5 DEF RecordPreference, TypeOK
  <2> QED BY <2>1
<1>6. ASSUME NEW q \in Person, ReceiveUnsubscribe(q)
      PROVE  consent[p].state = "OPTED_OUT" \/ q = p
  BY <1>6 DEF ReceiveUnsubscribe, TypeOK
<1>7. CASE UNCHANGED vars
  BY <1>1, <1>7 DEF vars
<1> QED BY <1>1, <1>2, <1>3, <1>4, <1>5, <1>6, <1>7 DEF Next, Staff

(* The withdrawal of an opt-in that a worker still believes in is followed. *)
LEMMA NextStale ==
  TypeOK /\ HandsAreSound /\ EventsAreOfProtected /\ StaleOptInIsFollowed /\ [Next]_vars
    => StaleOptInIsFollowed'
<1> SUFFICES ASSUME TypeOK, HandsAreSound, EventsAreOfProtected, StaleOptInIsFollowed, [Next]_vars,
                    NEW v \in Worker, worker'[v].pc = "calling", KindOf(v)' = "preference",
                    worker'[v].seen = "OPTED_IN", consent'[PersonOf(v)'].state = "OPTED_OUT"
             PROVE  \/ WillLook(PersonOf(v))'
                    \/ contact'[PersonOf(v)'].exists /\ Protected(contact'[PersonOf(v)'])
  BY DEF StaleOptInIsFollowed, Protected
<1>1. CASE worker'[v] = worker[v]
  <2>1. PICK p \in Person : p = PersonOf(v) /\ PersonOf(v)' = p /\ KindOf(v) = "preference"
    BY <1>1, SameHand, BusyHasJob
  <2>2. ~Unlocked(p)
    BY <1>1, <2>1 DEF Unlocked, Syncing
  <2>3. ~DeleteContact(p)
    BY <2>2 DEF DeleteContact
  <2>4. \A w \in Worker : BeginPreference(w) => PersonOf(w) # p
    BY <2>2 DEF BeginPreference
  <2>5. CASE consent[p].state = "OPTED_OUT"
    <3>1. WillLook(p) \/ (contact[p].exists /\ Protected(contact[p]))
      BY <1>1, <2>1, <2>5 DEF StaleOptInIsFollowed
    <3>2. WillLook(p) => WillLook(p)'
      BY <2>1, <2>4, LookStays
    <3>3. contact[p].exists /\ Protected(contact[p]) => contact'[p].exists /\ Protected(contact'[p])
      BY <2>1, <2>3, ContactStays
    <3>4. WillLook(p)' => WillLook(PersonOf(v))'
      BY <2>1
    <3> QED BY <2>1, <3>1, <3>2, <3>3, <3>4
  <2>6. CASE RecordPreference(p, "OPTED_OUT")
    <3>1. WillLook(p)'
      BY <2>1, <2>6, NewJobLooks
    <3> QED BY <2>1, <3>1
  <2>7. CASE ReceiveUnsubscribe(p)
    <3>1. contact[p].exists /\ Protected(contact[p])
      BY <2>1, <2>7 DEF EventsAreOfProtected, ReceiveUnsubscribe
    <3> QED BY <2>1, <2>3, <3>1, ContactStays
  <2> QED BY <2>1, <2>5, <2>6, <2>7, OptOutsComeFrom
<1>2. CASE Work(v) \/ Crash(v)
  <2>1. Begun(v)
    BY <1>2, OwnStep DEF Idle, Answered
  <2>2. KindOf(v)' = KindOf(v) /\ PersonOf(v)' = PersonOf(v)
    BY <2>1, SameHand DEF Begun, BeginPreference, BeginProfile
  <2>3. BeginPreference(v) /\ consent[PersonOf(v)].state = "OPTED_IN"
    BY <2>1, <2>2 DEF Begun, BeginProfile, KindOf
  <2> QED BY <2>2, <2>3 DEF BeginPreference, crmVars
<1> QED BY <1>1, <1>2, HandsStay

-----------------------------------------------------------------------------
(* A synchronization of the preference leaves an opted-out contact          *)
(* restricted, or a job that is yet to look behind.                         *)
LEMMA CallLeavesNothing ==
  ASSUME TypeOK, HandsAreSound, CallersHaveSeen, StaleOptInIsFollowed, [Next]_vars,
         NEW w \in Worker, CallBrevo(w), KindOf(w) = "preference",
         NEW p \in Person, p = PersonOf(w), consent[p].state = "OPTED_OUT",
         Marketable(contact'[p])
  PROVE  worker[w].seen = "OPTED_IN" /\ WillLook(p)'
<1> DEFINE req == RequestOf(w)
<1>1. contact[p] \in Contact /\ req \in Request
  BY BusyHasJob DEF CallBrevo, TypeOK
<1>2. contact'[p] = Applied(req, contact[p])
  BY DEF CallBrevo, TypeOK
<1>3. worker[w].seen \in {"OPTED_IN", "OPTED_OUT"}
  BY DEF CallersHaveSeen, CallBrevo, TypeOK, Hand
<1>4. worker[w].seen # "OPTED_OUT"
  <2>1. SUFFICES ASSUME worker[w].seen = "OPTED_OUT" PROVE FALSE
    OBVIOUS
  <2>2. ~req.create /\ req.block = (contact[p].exists /\ ~Protected(contact[p]))
    BY <2>1 DEF RequestOf, Wanted
  <2> QED BY <1>1, <1>2, <2>2 DEF Applied, Marketable, Protected, Contact
<1>5. ~(contact[p].exists /\ Protected(contact[p]))
  BY <1>1, <1>2, AppliedKeeps DEF Marketable
<1>6. WillLook(p)
  BY <1>3, <1>4, <1>5 DEF StaleOptInIsFollowed, CallBrevo
<1>7. \A v \in Worker : BeginPreference(v) => PersonOf(v) # p
  BY DEF CallBrevo, BeginPreference, Unlocked, Syncing
<1> QED BY <1>3, <1>4, <1>6, <1>7, LookStays

(* Only a preference that is brought to Brevo takes a Person off adrift.    *)
LEMMA AdriftStays ==
  ASSUME TypeOK, [Next]_vars, NEW p \in Person, NEW kind \in adrift[p]
  PROVE  \/ kind \in adrift'[p]
         \/ \E w \in Worker : CallBrevo(w) /\ KindOf(w) = kind /\ PersonOf(w) = p
<1> USE DEF crmVars, brevoVars, queueVars
<1>1. ASSUME UNCHANGED adrift PROVE kind \in adrift'[p]
  BY <1>1
<1>2. ASSUME NEW w \in Worker, Work(w) \/ Crash(w)
      PROVE  \/ UNCHANGED adrift \/ CallBrevo(w) \/ Complete(w)
             \/ BeginPreference(w) \/ BeginProfile(w)
  BY <1>2 DEF Work, Claim, Reconcile, CallRefused, CallUnanswered, AttachReference, Crash
<1>3. ASSUME NEW q \in Person, Staff(q) \/ Brevo(q) \/ ReceiveUnsubscribe(q) PROVE UNCHANGED adrift
  BY <1>3 DEF Staff, Brevo, RecordPreference, EditPerson, ArchiveOrRestore, Unsubscribe,
              DeleteContact, ReceiveUnsubscribe
<1>4. ASSUME NEW q \in Person, NEW S, adrift' = [adrift EXCEPT ![q] = @ \cup S]
      PROVE  kind \in adrift'[p]
  BY <1>4 DEF TypeOK
<1>5. ASSUME NEW j \in Job, Arrive(j) PROVE kind \in adrift'[p]
  BY <1>5 DEF Arrive, TypeOK
<1>6. ASSUME NEW w \in Worker, Complete(w) PROVE kind \in adrift'[p]
  BY <1>4, <1>6, BusyHasJob DEF Complete
<1>7. ASSUME NEW w \in Worker, BeginPreference(w) \/ BeginProfile(w) PROVE kind \in adrift'[p]
  BY <1>1, <1>4, <1>7, BusyHasJob DEF BeginPreference, BeginProfile
<1>8. ASSUME NEW w \in Worker, CallBrevo(w)
      PROVE  kind \in adrift'[p] \/ (KindOf(w) = kind /\ PersonOf(w) = p)
  BY <1>8 DEF CallBrevo, TypeOK
<1>9. CASE UNCHANGED vars
  BY <1>1, <1>9 DEF vars
<1> QED BY <1>1, <1>2, <1>3, <1>5, <1>6, <1>7, <1>8, <1>9 DEF Next

(* A contact comes into the campaigns' reach by a synchronization of the    *)
(* preference or a late request.                                            *)
LEMMA MarketableComesFrom ==
  ASSUME TypeOK, [Next]_vars, NEW p \in Person, Marketable(contact'[p])
  PROVE  \/ Marketable(contact[p])
         \/ \E w \in Worker : CallBrevo(w) /\ KindOf(w) = "preference" /\ PersonOf(w) = p
         \/ \E j \in Job : Arrive(j) /\ (WillLook(p) \/ "preference" \in adrift'[p])
<1> USE DEF crmVars, brevoVars, queueVars
<1>1. ASSUME UNCHANGED contact PROVE Marketable(contact[p])
  BY <1>1
<1>2. ASSUME NEW w \in Worker, Work(w) \/ Crash(w) PROVE UNCHANGED contact \/ CallBrevo(w)
  BY <1>2 DEF Work, Claim, BeginPreference, BeginProfile, Reconcile, CallRefused,
              CallUnanswered, AttachReference, Complete, Crash
<1>3. ASSUME NEW q \in Person, Staff(q) \/ ReceiveUnsubscribe(q) PROVE UNCHANGED contact
  BY <1>3 DEF Staff, RecordPreference, EditPerson, ArchiveOrRestore, ReceiveUnsubscribe
<1>4. ASSUME NEW q \in Person, Unsubscribe(q) PROVE Marketable(contact[p])
  <2>1. CASE q # p
    BY <1>4, <2>1 DEF Unsubscribe, TypeOK
  <2>2. CASE q = p
    BY <1>4, <2>2 DEF Unsubscribe, TypeOK, Contact, Marketable, Protected
  <2> QED BY <2>1, <2>2
<1>5. ASSUME NEW q \in Person, DeleteContact(q) PROVE Marketable(contact[p])
  BY <1>5 DEF DeleteContact, TypeOK, Absent, Marketable
<1>6. ASSUME NEW j \in Job, Arrive(j)
      PROVE  Marketable(contact[p]) \/ WillLook(p) \/ "preference" \in adrift'[p]
  <2>1. job[j].person \in Person
    BY DEF TypeOK, Row
  <2> QED BY <1>1, <1>6, <2>1 DEF Arrive, TypeOK
<1>7. ASSUME NEW w \in Worker, CallBrevo(w)
      PROVE  Marketable(contact[p]) \/ (KindOf(w) = "preference" /\ PersonOf(w) = p)
  <2>1. PersonOf(w) \in Person /\ KindOf(w) \in Kind
    BY <1>7, BusyHasJob DEF CallBrevo
  <2>2. PersonOf(w) # p => contact'[p] = contact[p]
    BY <1>7 DEF CallBrevo, TypeOK
  <2>3. CASE PersonOf(w) = p /\ KindOf(w) = "profile"
    <3>1. contact[p] \in Contact /\ contact'[p] = Applied(RequestOf(w), contact[p])
      BY <1>7, <2>3 DEF CallBrevo, TypeOK
    <3>2. ~RequestOf(w).create /\ ~RequestOf(w).block /\ ~RequestOf(w).list
      BY <2>3 DEF RequestOf, Wanted
    <3> QED BY <3>1, <3>2 DEF Applied, Marketable, Protected, Contact
  <2> QED BY <2>1, <2>2, <2>3 DEF Kind
<1>8. CASE UNCHANGED vars
  BY <1>1, <1>8 DEF vars
<1> QED BY <1>1, <1>2, <1>3, <1>4, <1>5, <1>6, <1>7, <1>8 DEF Next, Brevo

(* An open job that will settle p's opt-out stays one, or the matter is     *)
(* settled: the contact is restricted or p is adrift.                       *)
LEMMA SettleStays ==
  ASSUME TypeOK, HandsAreSound, CallersHaveSeen, StaleOptInIsFollowed, [Next]_vars,
         NEW p \in Person, WillSettle(p), consent[p].state = "OPTED_OUT", Marketable(contact'[p])
  PROVE  WillSettle(p)' \/ "preference" \in adrift'[p]
<1>1. PICK j \in Job :
        /\ Open(j) /\ job[j].kind = "preference" /\ job[j].person = p
        /\ \A w \in Worker : worker[w].job = j =>
             \/ worker[w].pc = "claimed"
             \/ worker[w].pc = "calling" /\ worker[w].seen = "OPTED_OUT"
             \/ worker[w].pc = "synced" /\ worker[w].result # "ok"
  BY DEF WillSettle
<1>2. job'[j].kind = "preference" /\ job'[j].person = p
  BY <1>1, NextRows DEF RowsStay, Open
<1>3. Open(j)' \/ "preference" \in adrift'[p]
  <2>1. ASSUME NEW w \in Worker, Complete(w), worker[w].job = j
        PROVE  Open(j)' \/ "preference" \in adrift'[p]
    <3>1. worker[w].result \in {"temporary", "permanent"}
      BY <1>1, <2>1 DEF Complete, HandsAreSound, TypeOK, Hand
    <3>2. Outcome(worker[w].result, worker[w].attempts) \in {"PENDING", "FAILED"}
      BY <3>1 DEF Outcome
    <3>3. job'[j].status \in {"PENDING", "FAILED"}
      <4> DEFINE s == Outcome(worker[w].result, worker[w].attempts)
      <4>1. job' = [job EXCEPT ![j].status = s]
        BY <2>1 DEF Complete
      <4>2. job[j] \in Row
        BY DEF TypeOK
      <4> HIDE DEF s
      <4>3. job'[j].status = s
        BY <4>1, <4>2 DEF TypeOK, Row
      <4> QED BY <3>2, <4>3 DEF s
    <3>4. job'[j].status = "FAILED" => "preference" \in adrift'[p]
      BY <1>1, <2>1 DEF Complete, TypeOK, PersonOf, KindOf
    <3> QED BY <3>3, <3>4 DEF Open
  <2> QED BY <1>1, <2>1, OpenStays
<1>4. ASSUME NEW w \in Worker, worker'[w].job = j
      PROVE  \/ worker'[w].pc = "claimed"
             \/ worker'[w].pc = "calling" /\ worker'[w].seen = "OPTED_OUT"
             \/ worker'[w].pc = "synced" /\ worker'[w].result # "ok"
             \/ "preference" \in adrift'[p]
  <2>1. CASE worker'[w] = worker[w]
    BY <1>1, <1>4, <2>1
  <2>2. CASE Work(w) \/ Crash(w)
    <3>1. worker'[w] # Idle
      BY <1>4 DEF Idle, Job
    <3>2. worker'[w].job = worker[w].job => KindOf(w) = "preference" /\ PersonOf(w) = p
      BY <1>1, <1>4 DEF KindOf, PersonOf
    <3>3. worker'[w].job = worker[w].job => ~CallBrevo(w)
      <4>1. SUFFICES ASSUME worker'[w].job = worker[w].job, CallBrevo(w) PROVE FALSE
        OBVIOUS
      <4>2. worker[w].seen = "OPTED_IN"
        BY <3>2, <4>1, CallLeavesNothing
      <4> QED BY <1>1, <1>4, <4>1, <4>2 DEF CallBrevo
    <3>4. CASE Answered(w)
      <4>1. worker[w].pc # "attaching"
        BY <1>1, <1>4, <3>4 DEF Answered
      <4>2. ~BeginProfile(w)
        BY <3>2, <3>4 DEF Answered, BeginProfile, KindOf
      <4> QED BY <3>2, <3>3, <3>4, <4>1, <4>2 DEF Answered
    <3>5. CASE Begun(w)
      BY <3>2, <3>5 DEF Begun, BeginProfile, KindOf
    <3> QED BY <2>2, <3>1, <3>3, <3>4, <3>5, OwnStep
  <2> QED BY <2>1, <2>2, HandsStay
<1> QED BY <1>1, <1>2, <1>3, <1>4 DEF WillSettle

(* Every step keeps the promise about opt-outs.                             *)
LEMMA NextOptOut == IInv /\ [Next]_vars => OptOutWillReachBrevo'
<1> SUFFICES ASSUME IInv, [Next]_vars, NEW p \in Person, consent'[p].state = "OPTED_OUT",
                    Marketable(contact'[p])
             PROVE  WillSettle(p)' \/ "preference" \in adrift'[p]
  BY DEF OptOutWillReachBrevo, Marketable, Protected
<1> USE DEF IInv
<1>1. CASE RecordPreference(p, "OPTED_OUT")
  <2>1. WillLook(p)'
    BY <1>1, NewJobLooks
  <2> QED BY <2>1 DEF WillLook, WillSettle
<1>2. CASE ReceiveUnsubscribe(p)
  BY <1>2 DEF EventsAreOfProtected, ReceiveUnsubscribe, Marketable
<1>3. CASE consent[p].state = "OPTED_OUT"
  <2>1. ASSUME NEW w \in Worker, CallBrevo(w), KindOf(w) = "preference", PersonOf(w) = p
        PROVE  WillSettle(p)'
    <3>1. WillLook(p)'
      BY <1>3, <2>1, CallLeavesNothing
    <3> QED BY <3>1 DEF WillLook, WillSettle
  <2>2. CASE Marketable(contact[p])
    <3>1. WillSettle(p) \/ "preference" \in adrift[p]
      BY <1>3, <2>2 DEF OptOutWillReachBrevo
    <3>2. CASE WillSettle(p)
      BY <1>3, <3>2, SettleStays
    <3>3. CASE "preference" \in adrift[p]
      BY <2>1, <3>3, AdriftStays
    <3> QED BY <3>1, <3>2, <3>3
  <2>3. ASSUME NEW j \in Job, Arrive(j), WillLook(p) PROVE WillSettle(p)'
    <3>1. UNCHANGED <<job, worker>>
      BY <2>3 DEF Arrive, queueVars
    <3> QED BY <2>3, <3>1 DEF WillLook, WillSettle, Open
  <2> QED BY <2>1, <2>2, <2>3, MarketableComesFrom
<1> QED BY <1>1, <1>2, <1>3, OptOutsComeFrom

(* The invariant is inductive.                                              *)
LEMMA NextInv == IInv /\ [Next]_vars => IInv'
BY NextTypes, NextHands, NextEvents, NextCallers, NextAttaching, NextStale, NextOptOut DEF IInv

(* The types and what the promise about opt-outs rests on always hold.      *)
THEOREM Invariance == Spec => []IInv
BY InitInv, NextInv, PTL DEF Spec

(* However many workers there are, however slow, and in whatever order they *)
(* run the jobs: a contact that campaigns reach although its Person has     *)
(* opted out has a preference job waiting or running, or is adrift.         *)
THEOREM OptOutsReachBrevo == Spec => []OptOutReachesBrevo
<1>1. IInv => OptOutReachesBrevo
  BY DEF IInv, OptOutWillReachBrevo, WillSettle, OptOutReachesBrevo, Waiting
<1> QED BY <1>1, Invariance, PTL

(* Neither a synchronization nor a request that arrives late, in any        *)
(* number, lifts the restriction of a contact that stays.                   *)
THEOREM RestrictionsStay == Spec => NeverResubscribes
<1>1. IInv /\ [Next]_vars =>
        [\A p \in Person : contact[p].exists /\ contact'[p].exists /\ Protected(contact[p])
           => Protected(contact'[p])]_vars
  BY ContactStays DEF IInv
<1> QED BY <1>1, Invariance, PTL DEF Spec, NeverResubscribes

-----------------------------------------------------------------------------
(* When no worker outlives the stale window, a job is held by one worker.   *)
LEMMA NextHeld ==
  ~stalls /\ TypeOK /\ HandsAreSound /\ HeldByOne /\ [Next]_vars => HeldByOne'
<1> SUFFICES ASSUME ~stalls, TypeOK, HandsAreSound, HeldByOne, [Next]_vars PROVE HeldByOne'
  OBVIOUS
<1> USE DEF crmVars, brevoVars, queueVars
<1>1. ASSUME NEW w \in Worker, Claim(w) PROVE HeldByOne'
  <2>1. PICK R \in SUBSET Recoverable : \E j \in Job :
          /\ job[j].status = "PENDING" \/ j \in R
          /\ inflight[j] = {}
          /\ job' = [i \in Job |->
                    IF i = j THEN [job[i] EXCEPT !.status = "PROCESSING", !.attempts = OneMore(@)]
                    ELSE IF i \in R THEN [job[i] EXCEPT !.status = "PENDING"] ELSE job[i]]
          /\ worker' = [worker EXCEPT ![w] = [Idle EXCEPT !.pc = "claimed", !.job = j,
                                                          !.attempts = job'[j].attempts]]
    BY <1>1 DEF Claim
  <2>2. PICK j \in Job :
          /\ job[j].status = "PENDING" \/ j \in R
          /\ job' = [i \in Job |->
                    IF i = j THEN [job[i] EXCEPT !.status = "PROCESSING", !.attempts = OneMore(@)]
                    ELSE IF i \in R THEN [job[i] EXCEPT !.status = "PENDING"] ELSE job[i]]
          /\ worker' = [worker EXCEPT ![w] = [Idle EXCEPT !.pc = "claimed", !.job = j,
                                                          !.attempts = job'[j].attempts]]
    BY <2>1
  <2>3. \A i \in Job : job[i] \in Row
    BY DEF TypeOK
  <2>4. \A v \in Worker : worker[v].pc # "idle" => worker[v].job \notin R /\ worker[v].job # j
    BY <2>2 DEF HeldByOne, Recoverable, Held
  <2>5. worker'[w].job = j /\ job'[j].status = "PROCESSING"
    BY <2>2, <2>3 DEF TypeOK, Idle, Row
  <2>6. \A v \in Worker : v # w => worker'[v] = worker[v]
    BY <2>2 DEF TypeOK
  <2>7. \A v \in Worker : worker[v].pc # "idle" => job'[worker[v].job] = job[worker[v].job]
    BY <2>2, <2>4, BusyHasJob
  <2> QED BY <2>4, <2>5, <2>6, <2>7 DEF HeldByOne
<1>2. ASSUME NEW w \in Worker, Complete(w) PROVE HeldByOne'
  <2>1. worker'[w].pc = "idle" /\ \A v \in Worker : v # w => worker'[v] = worker[v]
    BY <1>2 DEF Complete, TypeOK, Idle
  <2>2. \A i \in Job : i # worker[w].job => job'[i] = job[i]
    BY <1>2 DEF Complete, TypeOK
  <2>3. \A v \in Worker : v # w /\ worker[v].pc # "idle" => worker[v].job # worker[w].job
    BY <1>2 DEF Complete, HeldByOne
  <2> QED BY <2>1, <2>2, <2>3, BusyHasJob DEF HeldByOne
<1>3. ASSUME NEW p \in Person, NEW kind \in Kind, Enqueue(p, kind), UNCHANGED worker
      PROVE  HeldByOne'
  <2>1. PICK j \in Job : job[j].status = "NEW" /\ job' = [job EXCEPT ![j] = NewRow(p, kind)]
    BY <1>3, EnqueueAdds
  <2>2. \A v \in Worker : worker[v].pc # "idle" => job'[worker[v].job] = job[worker[v].job]
    BY <2>1, BusyHasJob DEF TypeOK
  <2> QED BY <1>3, <2>2 DEF HeldByOne
<1>4. ASSUME UNCHANGED <<job, worker>> PROVE HeldByOne'
  BY <1>4 DEF HeldByOne
<1>5. ASSUME NEW p \in Person, NEW s \in {"OPTED_IN", "OPTED_OUT"}, RecordPreference(p, s)
      PROVE  HeldByOne'
  BY <1>3, <1>5 DEF RecordPreference, Kind
<1>6. ASSUME NEW p \in Person, EditPerson(p) PROVE HeldByOne'
  BY <1>3, <1>4, <1>6 DEF EditPerson, EnqueueCoalesced, Kind
<1>7. ASSUME NEW p \in Person, Brevo(p) \/ ReceiveUnsubscribe(p) \/ ArchiveOrRestore(p)
      PROVE  UNCHANGED <<job, worker>>
  BY <1>7 DEF Brevo, Unsubscribe, DeleteContact, ReceiveUnsubscribe, ArchiveOrRestore
<1>8. ASSUME NEW j \in Job, Arrive(j) PROVE UNCHANGED <<job, worker>>
  BY <1>8 DEF Arrive
<1>9. ASSUME NEW w \in Worker, Work(w) \/ Crash(w), ~Claim(w), ~Complete(w) PROVE HeldByOne'
  <2>1. UNCHANGED job
    BY <1>9 DEF Work, BeginPreference, BeginProfile, Reconcile, CallBrevo, CallRefused,
                CallUnanswered, AttachReference, Crash
  <2>2. worker[w].pc # "idle"
    BY <1>9 DEF Work, BeginPreference, BeginProfile, Reconcile, CallBrevo, CallRefused,
                CallUnanswered, AttachReference, Crash
  <2>3. worker'[w] = Idle \/ worker'[w].job = worker[w].job
    BY <1>9 DEF Work, BeginPreference, BeginProfile, Reconcile, CallBrevo, CallRefused,
                CallUnanswered, AttachReference, Crash, Answer, TypeOK, Hand
  <2>4. \A v \in Worker : v # w => worker'[v] = worker[v]
    BY <1>9 DEF Work, BeginPreference, BeginProfile, Reconcile, CallBrevo, CallRefused,
                CallUnanswered, AttachReference, Crash, Answer, TypeOK
  <2> QED BY <2>1, <2>2, <2>3, <2>4 DEF HeldByOne, Idle
<1>10. CASE UNCHANGED vars
  BY <1>4, <1>10 DEF vars
<1> QED BY <1>1, <1>2, <1>4, <1>5, <1>6, <1>7, <1>8, <1>9, <1>10 DEF Next, Staff

(* Where a contact's profile comes from: it is the one it had, the Person's *)
(* own or, if a late request brought another, the Person is adrift.         *)
LEMMA ProfileComesFrom ==
  ASSUME TypeOK, [Next]_vars, NEW p \in Person, contact'[p].exists
  PROVE  \/ contact[p].exists /\ contact'[p].profile = contact[p].profile
         \/ contact'[p].profile = person[p].profile
         \/ "profile" \in adrift'[p]
<1> DEFINE Goal == \/ contact[p].exists /\ contact'[p].profile = contact[p].profile
                   \/ contact'[p].profile = person[p].profile
                   \/ "profile" \in adrift'[p]
<1> USE DEF crmVars, brevoVars, queueVars
<1>1. ASSUME UNCHANGED contact PROVE Goal
  BY <1>1
<1>2. ASSUME NEW w \in Worker, Work(w) \/ Crash(w) PROVE UNCHANGED contact \/ CallBrevo(w)
  BY <1>2 DEF Work, Claim, BeginPreference, BeginProfile, Reconcile, CallRefused,
              CallUnanswered, AttachReference, Complete, Crash
<1>3. ASSUME NEW q \in Person, Staff(q) \/ ReceiveUnsubscribe(q) PROVE UNCHANGED contact
  BY <1>3 DEF Staff, RecordPreference, EditPerson, ArchiveOrRestore, ReceiveUnsubscribe
<1>4. ASSUME NEW q \in Person, Unsubscribe(q) PROVE Goal
  <2>1. CASE q # p
    BY <1>4, <2>1 DEF Unsubscribe, TypeOK
  <2>2. CASE q = p
    BY <1>4, <2>2 DEF Unsubscribe, TypeOK, Contact
  <2> QED BY <2>1, <2>2
<1>5. ASSUME NEW q \in Person, DeleteContact(q) PROVE Goal
  BY <1>5 DEF DeleteContact, TypeOK, Absent
<1>6. ASSUME NEW q \in Person, NEW req \in Request,
             contact' = [contact EXCEPT ![q] = Applied(req, contact[q])]
      PROVE  \/ contact[p].exists /\ contact'[p].profile = contact[p].profile
             \/ q = p /\ contact'[p].profile = req.profile
  <2>1. CASE q # p
    BY <1>6, <2>1 DEF TypeOK
  <2>2. CASE q = p
    <3>1. contact'[p] = Applied(req, contact[p]) /\ contact[p] \in Contact
      BY <1>6, <2>2 DEF TypeOK
    <3>2. New(req).profile = req.profile
      BY DEF New, Absent
    <3>3. CASE req.create /\ ~contact[p].exists
      BY <2>2, <3>1, <3>2, <3>3 DEF Applied
    <3>4. CASE req.create /\ contact[p].exists
      BY <3>1, <3>4 DEF Applied
    <3>5. CASE ~req.create
      BY <2>2, <3>1, <3>5 DEF Applied, Contact
    <3> QED BY <3>3, <3>4, <3>5
  <2> QED BY <2>1, <2>2
<1>7. ASSUME NEW w \in Worker, CallBrevo(w) PROVE Goal
  <2>1. contact' = [contact EXCEPT ![PersonOf(w)] = Applied(RequestOf(w), contact[PersonOf(w)])]
    BY <1>7 DEF CallBrevo
  <2>2. PersonOf(w) \in Person /\ RequestOf(w) \in Request
        /\ RequestOf(w).profile = person[PersonOf(w)].profile
    BY <1>7, BusyHasJob DEF CallBrevo
  <2> QED BY <1>6, <2>1, <2>2
<1>8. ASSUME NEW j \in Job, Arrive(j) PROVE Goal
  <2>1. PICK req \in inflight[j] :
         \/ UNCHANGED contact
         \/ /\ contact' = [contact EXCEPT ![job[j].person] = Applied(req, contact[job[j].person])]
            /\ req.profile # person[job[j].person].profile => "profile" \in adrift'[job[j].person]
    <3>1. job[j].person \in Person
      BY DEF TypeOK, Row
    <3> QED BY <1>8, <3>1 DEF Arrive, TypeOK
  <2>2. req \in Request /\ job[j].person \in Person
    BY DEF TypeOK, Row
  <2> QED BY <1>1, <1>6, <2>1, <2>2
<1>9. CASE UNCHANGED vars
  BY <1>9 DEF vars
<1> QED BY <1>1, <1>2, <1>3, <1>4, <1>5, <1>7, <1>8, <1>9 DEF Next, Brevo

(* What a synchronization of the profile leaves is the Person's profile.    *)
LEMMA CallBringsProfile ==
  ASSUME TypeOK, NEW w \in Worker, CallBrevo(w), KindOf(w) = "profile",
         NEW p \in Person, p = PersonOf(w), contact'[p].exists
  PROVE  contact'[p].profile = person[p].profile
<1>1. contact[p] \in Contact /\ contact'[p] = Applied(RequestOf(w), contact[p])
  BY DEF CallBrevo, TypeOK
<1>2. /\ ~RequestOf(w).create
      /\ RequestOf(w).profile = person[p].profile
      /\ RequestOf(w).attributes = (contact[p].exists /\ contact[p].profile # person[p].profile)
  BY DEF RequestOf, Wanted
<1>3. contact[p].exists
  BY <1>1, <1>2 DEF Applied
<1> QED BY <1>1, <1>2, <1>3 DEF Applied, Contact

(* An open job that will bring p's profile to Brevo stays one.              *)
LEMMA UpdateStays ==
  ASSUME TypeOK, HandsAreSound, AttachingFound, [Next]_vars, NEW p \in Person, WillUpdate(p),
         contact'[p].exists => contact'[p].profile # person[p].profile
  PROVE  \/ WillUpdate(p)' \/ "profile" \in adrift'[p] \/ ~contact'[p].exists
<1>1. PICK j \in Job :
        /\ Open(j) /\ job[j].kind = "profile" /\ job[j].person = p
        /\ \A w \in Worker : worker[w].job = j /\ worker[w].pc = "synced" => worker[w].result # "ok"
  BY DEF WillUpdate
<1>2. job'[j].kind = "profile" /\ job'[j].person = p
  BY <1>1, NextRows DEF RowsStay, Open
<1>3. Open(j)' \/ "profile" \in adrift'[p]
  <2>1. ASSUME NEW w \in Worker, Complete(w), worker[w].job = j
        PROVE  Open(j)' \/ "profile" \in adrift'[p]
    <3>1. worker[w].result \in {"temporary", "permanent"}
      BY <1>1, <2>1 DEF Complete, HandsAreSound, TypeOK, Hand
    <3>2. Outcome(worker[w].result, worker[w].attempts) \in {"PENDING", "FAILED"}
      BY <3>1 DEF Outcome
    <3>3. job'[j].status \in {"PENDING", "FAILED"}
      <4> DEFINE s == Outcome(worker[w].result, worker[w].attempts)
      <4>1. job' = [job EXCEPT ![j].status = s]
        BY <2>1 DEF Complete
      <4>2. job[j] \in Row
        BY DEF TypeOK
      <4> HIDE DEF s
      <4>3. job'[j].status = s
        BY <4>1, <4>2 DEF TypeOK, Row
      <4> QED BY <3>2, <4>3 DEF s
    <3>4. job'[j].status = "FAILED" => "profile" \in adrift'[p]
      BY <1>1, <2>1 DEF Complete, TypeOK, PersonOf, KindOf
    <3> QED BY <3>3, <3>4 DEF Open
  <2> QED BY <1>1, <2>1, OpenStays
<1>4. ASSUME NEW w \in Worker, worker'[w].job = j, worker'[w].pc = "synced",
             worker'[w].result = "ok", contact'[p].exists
      PROVE  "profile" \in adrift'[p]
  <2>1. CASE worker'[w] = worker[w]
    BY <1>1, <1>4, <2>1
  <2>2. CASE Work(w) \/ Crash(w)
    <3>1. Answered(w)
      BY <1>4, <2>2, OwnStep DEF Idle, Begun
    <3>2. KindOf(w) = "profile" /\ PersonOf(w) = p
      BY <1>1, <1>4, <3>1 DEF KindOf, PersonOf, Answered
    <3>3. ~CallBrevo(w)
      BY <1>4, <3>2, CallBringsProfile
    <3>4. worker[w].pc # "attaching" /\ ~BeginPreference(w)
      BY <3>2 DEF AttachingFound, BeginPreference, KindOf
    <3> QED BY <1>4, <3>1, <3>2, <3>3, <3>4 DEF Answered
  <2> QED BY <2>1, <2>2, HandsStay
<1> QED BY <1>1, <1>2, <1>3, <1>4 DEF WillUpdate

(* Every step keeps the promise about profiles, when workers are in time: a *)
(* job an edit is coalesced into is nobody's.                               *)
LEMMA NextProfile ==
  TypeOK /\ HandsAreSound /\ AttachingFound /\ HeldByOne /\ ProfileWillReachBrevo /\ [Next]_vars
    => ProfileWillReachBrevo'
<1> SUFFICES ASSUME TypeOK, HandsAreSound, AttachingFound, HeldByOne, ProfileWillReachBrevo,
                    [Next]_vars, NEW p \in Person, contact'[p].exists,
                    contact'[p].profile # person'[p].profile
             PROVE  WillUpdate(p)' \/ "profile" \in adrift'[p]
  BY DEF ProfileWillReachBrevo
<1>1. CASE EditPerson(p)
  <2>1. PICK j \in Job : /\ job'[j].status = "PENDING" /\ job'[j].kind = "profile"
                        /\ job'[j].person = p /\ job[j].status \in {"NEW", "PENDING"}
    <3>1. CASE \E j \in Job : /\ job[j].status = "PENDING"
                             /\ job[j].kind = "profile" /\ job[j].person = p
      BY <1>1, <3>1 DEF EditPerson, EnqueueCoalesced
    <3>2. CASE Enqueue(p, "profile")
      <4>1. PICK j \in Job : job[j].status = "NEW" /\ job' = [job EXCEPT ![j] = NewRow(p, "profile")]
        BY <3>2, EnqueueAdds DEF Kind
      <4>2. job'[j] = NewRow(p, "profile")
        BY <4>1 DEF TypeOK
      <4> QED BY <4>1, <4>2 DEF NewRow
    <3> QED BY <1>1, <3>1, <3>2 DEF EditPerson, EnqueueCoalesced
  <2>2. \A w \in Worker : worker[w].pc # "idle" => worker[w].job # j
    BY <2>1 DEF HeldByOne
  <2>3. UNCHANGED worker
    BY <1>1 DEF EditPerson
  <2> QED BY <2>1, <2>2, <2>3 DEF WillUpdate, Open
<1>2. CASE person'[p].profile = person[p].profile
  <2>1. CASE contact[p].exists /\ contact'[p].profile = contact[p].profile
    <3>1. WillUpdate(p) \/ "profile" \in adrift[p]
      BY <1>2, <2>1 DEF ProfileWillReachBrevo
    <3>2. CASE WillUpdate(p)
      BY <1>2, <3>2, UpdateStays
    <3>3. CASE "profile" \in adrift[p]
      BY <1>2, <3>3, AdriftStays, CallBringsProfile
    <3> QED BY <3>1, <3>2, <3>3
  <2> QED BY <1>2, <2>1, ProfileComesFrom
<1>3. EditPerson(p) \/ person'[p].profile = person[p].profile
  <2> USE DEF crmVars, brevoVars, queueVars
  <2>1. ASSUME NEW w \in Worker, Work(w) \/ Crash(w) PROVE UNCHANGED person
    BY <2>1 DEF Work, Claim, BeginPreference, BeginProfile, Reconcile, CallBrevo, CallRefused,
                CallUnanswered, AttachReference, Complete, Crash
  <2>2. ASSUME NEW q \in Person, NEW s \in {"OPTED_IN", "OPTED_OUT"}, RecordPreference(q, s)
        PROVE  UNCHANGED person
    BY <2>2 DEF RecordPreference
  <2>3. ASSUME NEW q \in Person, Brevo(q) \/ ReceiveUnsubscribe(q) PROVE UNCHANGED person
    BY <2>3 DEF Brevo, Unsubscribe, DeleteContact, ReceiveUnsubscribe
  <2>4. ASSUME NEW q \in Person, EditPerson(q), q # p PROVE person'[p] = person[p]
    BY <2>4 DEF EditPerson, TypeOK
  <2>5. ASSUME NEW q \in Person, ArchiveOrRestore(q)
        PROVE  person'[p].profile = person[p].profile
    <3>1. person[q] \in PersonRow
      BY DEF TypeOK
    <3> QED BY <2>5, <3>1 DEF ArchiveOrRestore, TypeOK, PersonRow
  <2>6. ASSUME NEW j \in Job, Arrive(j) PROVE UNCHANGED person
    BY <2>6 DEF Arrive
  <2>7. CASE UNCHANGED vars
    BY <2>7 DEF vars
  <2> QED BY <2>1, <2>2, <2>3, <2>4, <2>5, <2>6, <2>7 DEF Next, Staff
<1> QED BY <1>1, <1>2, <1>3

(* The pace of the workers is what it was at the start.                     *)
LEMMA PaceStays == ASSUME [Next]_vars PROVE stalls' = stalls
BY DEF Next, vars

(* The inductive invariant, whether workers may stall or all are in time.   *)
THEOREM InvarianceInTime == Spec => []IInvInTime
<1>1. Init => IInvInTime
  <2> SUFFICES ASSUME Init PROVE IInvInTime
    OBVIOUS
  <2>1. \A w \in Worker : worker[w].pc = "idle"
    BY DEF Init, Idle
  <2>2. \A p \in Person : contact[p].profile = 0 /\ person[p].profile = 0
    <3>1. \A p \in Person : person[p].profile = 0
      BY DEF Init
    <3>2. /\ Absent.profile = 0 /\ [Absent EXCEPT !.exists = TRUE].profile = 0
          /\ [Absent EXCEPT !.exists = TRUE, !.inList = TRUE].profile = 0
          /\ [Absent EXCEPT !.exists = TRUE, !.blocked = TRUE].profile = 0
      BY DEF Absent
    <3> QED BY <3>1, <3>2 DEF Init
  <2> QED BY <2>1, <2>2, InitInv DEF IInvInTime, HeldByOne, ProfileWillReachBrevo
<1>2. IInvInTime /\ [Next]_vars => IInvInTime'
  BY NextInv, NextHeld, NextProfile, PaceStays DEF IInvInTime, IInv
<1> QED BY <1>1, <1>2, PTL DEF Spec

(* When workers record their results in time, a linked contact that lags    *)
(* behind its Person's profile has a profile job waiting or running, or is  *)
(* adrift: an edit that is coalesced into a waiting job is not lost.        *)
THEOREM ProfilesReachBrevo == Spec => []ProfileReachesBrevoInTime
<1>1. IInvInTime => ProfileReachesBrevoInTime
  BY DEF IInvInTime, IInv, TypeOK, ProfileWillReachBrevo, WillUpdate, ProfileReachesBrevo, Waiting,
         ProfileReachesBrevoInTime
<1> QED BY <1>1, InvarianceInTime, PTL

-----------------------------------------------------------------------------
(* Refinement: who holds a job is its owner, what nobody holds has none,    *)
(* and nobody owns what they do not hold.                                   *)
Holds(w, j) == worker[w].pc # "idle" /\ worker[w].job = j

LEMMA OwnerIsHolder ==
  ASSUME NEW j
  PROVE  /\ \A w \in Worker : Holds(w, j) /\ (\A v \in Worker : Holds(v, j) => v = w)
              => Owner(j) = w
         /\ (\A v \in Worker : ~Holds(v, j)) => Owner(j) = NoOwner
         /\ \A w \in Worker : ~Holds(w, j) => Owner(j) # w
BY ConsentAssumption DEF Owner, Held, Holds

(* The same of the next state.                                              *)
LEMMA OwnerIsHolderNext ==
  ASSUME NEW j
  PROVE  /\ \A w \in Worker : Holds(w, j)' /\ (\A v \in Worker : Holds(v, j)' => v = w)
              => Owner(j)' = w
         /\ (\A v \in Worker : ~Holds(v, j)') => Owner(j)' = NoOwner
BY DEF Owner, Held, Holds

(* A job nobody takes or leaves keeps its owner.                            *)
LEMMA OwnerKept ==
  ASSUME NEW j, \A v \in Worker : Holds(v, j)' <=> Holds(v, j)
  PROVE  Owner(j)' = Owner(j)
BY DEF Owner, Held, Holds

(* A claim is a step Acquire of the lease: what it recovers has no owner.   *)
LEMMA ClaimAcquires ==
  ASSUME ~stalls, stalls' = stalls, TypeOK, HeldByOne, NEW w \in Worker, Claim(w)
  PROVE  \E j \in Job : Lease!Acquire(w, j)
<1>1. PICK R \in SUBSET Recoverable, j \in Job :
        /\ job[j].status = "PENDING" \/ j \in R
        /\ job' = [i \in Job |->
                  IF i = j THEN [job[i] EXCEPT !.status = "PROCESSING", !.attempts = OneMore(@)]
                  ELSE IF i \in R THEN [job[i] EXCEPT !.status = "PENDING"] ELSE job[i]]
        /\ worker' = [worker EXCEPT ![w] = [Idle EXCEPT !.pc = "claimed", !.job = j,
                                                        !.attempts = job'[j].attempts]]
  BY DEF Claim
<1>2. /\ Holds(w, j)' /\ \A i \in Job : i # j => ~Holds(w, i)'
      /\ \A v \in Worker, i \in Job : v # w => (Holds(v, i)' <=> Holds(v, i))
  BY <1>1 DEF TypeOK, Idle, Holds
<1>3. \A i \in Job : ~Holds(w, i)
  BY DEF Claim, Holds
<1>4. \A i \in R : job[i].status = "PROCESSING" /\ \A v \in Worker : ~Holds(v, i)
  BY DEF Recoverable, Held, Holds
<1>5. R \in SUBSET Lease!Orphans
  <2>1. \A i \in R : i \in Job /\ job[i].status = "PROCESSING" /\ Owner(i) = NoOwner
    BY <1>4, OwnerIsHolder DEF Recoverable
  <2> QED BY <2>1 DEF Lease!Orphans
<1>6. \A v \in Worker : ~Holds(v, j)
  BY <1>1, <1>4 DEF HeldByOne, Holds
<1>7. Owner(j)' = w
  BY <1>2, <1>6, OwnerIsHolderNext
<1>8. \A i \in Job : i # j => Owner(i)' = Owner(i)
  BY <1>2, <1>3, OwnerKept
<1>9. \A i \in Job : Owner(i) # w
  BY <1>3, OwnerIsHolder
<1>10. \A i \in Job : job'[i].status = IF i = j THEN "PROCESSING"
                                     ELSE IF i \in R THEN "PENDING" ELSE job[i].status
  <2>1. \A i \in Job : job[i] \in Row
    BY DEF TypeOK
  <2> QED BY <1>1, <2>1 DEF Row
<1> QED BY <1>1, <1>5, <1>7, <1>8, <1>9, <1>10 DEF Lease!Acquire

(* A worker that records its result, or dies, gives its job up.             *)
LEMMA OwnersAfterRelease ==
  ASSUME TypeOK, HeldByOne, NEW w \in Worker, worker[w].pc # "idle",
         worker' = [worker EXCEPT ![w] = Idle], NEW j \in Job, worker[w].job = j
  PROVE  /\ Owner(j) # NoOwner /\ Owner(j)' = NoOwner
         /\ \A i \in Job : i # j => Owner(i)' = Owner(i)
<1>1. Holds(w, j) /\ \A v \in Worker : Holds(v, j) => v = w
  BY DEF HeldByOne, Holds
<1>2. worker'[w].pc = "idle" /\ \A v \in Worker : v # w => worker'[v] = worker[v]
  BY DEF TypeOK, Idle
<1>3. Owner(j) # NoOwner
  BY <1>1, OwnerIsHolder, ConsentAssumption
<1>4. \A v \in Worker : ~Holds(v, j)'
  BY <1>1, <1>2 DEF Holds
<1>5. Owner(j)' = NoOwner
  BY <1>4, OwnerIsHolderNext
<1>6. ASSUME NEW i \in Job, i # j PROVE Owner(i)' = Owner(i)
  <2>1. \A v \in Worker : Holds(v, i)' <=> Holds(v, i)
    BY <1>2, <1>6 DEF Holds
  <2> QED BY <2>1, OwnerKept
<1> QED BY <1>3, <1>5, <1>6

(* When workers are in time, the queue between the CRM and Brevo implements *)
(* JobLease, coalescing, rolled back and repeated synchronizations and all. *)
THEOREM Refinement == Spec => LeaseInTime
<1>1. Init => Lease!Init
  <2> SUFFICES ASSUME Init PROVE Lease!Init
    OBVIOUS
  <2>1. \A j \in Job : job[j].status = "NEW" /\ \A w \in Worker : ~Holds(w, j)
    BY DEF Init, Idle, Holds
  <2>2. \A j \in Job : Owner(j) = NoOwner
    BY <2>1, OwnerIsHolder
  <2> QED BY <2>1, <2>2 DEF Lease!Init
<1>2. ASSUME IInvInTime, [Next]_vars, ~stalls PROVE [Lease!Next]_(Lease!vars)
  <2>0. stalls' = stalls
    BY <1>2, PaceStays
  <2> USE <1>2, <2>0 DEF crmVars, brevoVars, queueVars
  <2>1. TypeOK /\ HeldByOne /\ HandsAreSound
    BY DEF IInvInTime, IInv
  <2>2. ASSUME UNCHANGED <<job, worker>> PROVE UNCHANGED Lease!vars
    BY <2>2, OwnerKept DEF Lease!vars, Holds
  <2>3. ASSUME NEW p \in Person, NEW kind \in Kind, Enqueue(p, kind), UNCHANGED worker
        PROVE  Lease!Next
    <3>1. PICK j \in Job : job[j].status = "NEW" /\ job' = [job EXCEPT ![j] = NewRow(p, kind)]
      BY <2>1, <2>3, EnqueueAdds
    <3>2. job'[j].status = "PENDING" /\ \A i \in Job : i # j => job'[i] = job[i]
      <4>1. job'[j] = NewRow(p, kind) /\ \A i \in Job : i # j => job'[i] = job[i]
        BY <2>1, <3>1 DEF TypeOK
      <4> QED BY <4>1 DEF NewRow
    <3>3. \A i \in Job : Owner(i)' = Owner(i)
      BY <2>3, OwnerKept DEF Holds
    <3>4. Lease!Submit(j)
      <4>1. \A i \in Job : job'[i].status = IF i = j THEN "PENDING" ELSE job[i].status
        BY <3>2
      <4>2. job[j].status = "NEW"
        BY <3>1
      <4> QED BY <3>3, <4>1, <4>2 DEF Lease!Submit
    <3> QED BY <3>4 DEF Lease!Next
  <2>4. ASSUME NEW p \in Person, NEW s \in {"OPTED_IN", "OPTED_OUT"}, RecordPreference(p, s)
        PROVE  Lease!Next
    BY <2>3, <2>4 DEF RecordPreference, Kind
  <2>5. ASSUME NEW p \in Person, EditPerson(p) PROVE [Lease!Next]_(Lease!vars)
    BY <2>2, <2>3, <2>5 DEF EditPerson, EnqueueCoalesced, Kind
  <2>6. ASSUME NEW w \in Worker, Claim(w) PROVE Lease!Next
    BY <2>1, <2>6, ClaimAcquires DEF Lease!Next
  <2>7. ASSUME NEW w \in Worker, Complete(w) PROVE Lease!Next
    <3> DEFINE s == Outcome(worker[w].result, worker[w].attempts)
    <3>1. PICK j \in Job : worker[w].job = j /\ worker[w].pc # "idle"
      BY <2>1, <2>7, BusyHasJob DEF Complete
    <3>2. s \in Done \cup {"PENDING"}
      <4>1. worker[w].result \in {"ok", "temporary", "permanent"}
        BY <2>1, <2>7 DEF Complete, HandsAreSound, TypeOK, Hand
      <4> QED BY <4>1 DEF Outcome, Done
    <3>3. job' = [job EXCEPT ![j].status = s] /\ worker' = [worker EXCEPT ![w] = Idle]
      BY <2>7, <3>1 DEF Complete
    <3> HIDE DEF s
    <3>4. \A i \in Job : job'[i].status = IF i = j THEN s ELSE job[i].status
      <4>1. \A i \in Job : job[i] \in Row
        BY <2>1 DEF TypeOK
      <4> QED BY <2>1, <3>3, <4>1 DEF TypeOK, Row
    <3>5. /\ Owner(j) # NoOwner /\ Owner(j)' = NoOwner
          /\ \A i \in Job : i # j => Owner(i)' = Owner(i)
      BY <2>1, <3>1, <3>3, OwnersAfterRelease
    <3>6. Lease!Settle(j)
      BY <3>2, <3>4, <3>5 DEF Lease!Settle, Lease!Done, Done
    <3> QED BY <3>6 DEF Lease!Next
  <2>8. ASSUME NEW w \in Worker, Crash(w) PROVE Lease!Next
    <3>1. PICK j \in Job : worker[w].job = j
      BY <2>1, <2>8, BusyHasJob DEF Crash
    <3>2. /\ Owner(j) # NoOwner /\ Owner(j)' = NoOwner
          /\ \A i \in Job : i # j => Owner(i)' = Owner(i)
      BY <2>1, <2>8, <3>1, OwnersAfterRelease DEF Crash
    <3>3. Lease!Abandon(j)
      BY <2>8, <3>2 DEF Crash, Lease!Abandon
    <3> QED BY <3>3 DEF Lease!Next
  <2>9. ASSUME NEW w \in Worker, Work(w), ~Claim(w), ~Complete(w) PROVE UNCHANGED Lease!vars
    <3>1. worker[w].pc # "idle" /\ UNCHANGED job
      BY <2>9 DEF Work, BeginPreference, BeginProfile, Reconcile, CallBrevo, CallRefused,
                  CallUnanswered, AttachReference
    <3>2. worker'[w].pc # "idle" /\ worker'[w].job = worker[w].job
      BY <2>1, <2>9 DEF Work, BeginPreference, BeginProfile, Reconcile, CallBrevo, CallRefused,
                  CallUnanswered, AttachReference, Answer, TypeOK, Hand
    <3>3. \A v \in Worker : v # w => worker'[v] = worker[v]
      BY <2>1, <2>9 DEF Work, BeginPreference, BeginProfile, Reconcile, CallBrevo, CallRefused,
                  CallUnanswered, AttachReference, Answer, TypeOK
    <3>4. \A i \in Job : Owner(i)' = Owner(i)
      BY <3>1, <3>2, <3>3, OwnerKept DEF Holds
    <3> QED BY <3>1, <3>4 DEF Lease!vars
  <2>10. ASSUME NEW p \in Person, Brevo(p) \/ ReceiveUnsubscribe(p) \/ ArchiveOrRestore(p)
         PROVE  UNCHANGED <<job, worker>>
    BY <2>10 DEF Brevo, Unsubscribe, DeleteContact, ReceiveUnsubscribe, ArchiveOrRestore
  <2>11. ASSUME NEW j \in Job, Arrive(j) PROVE UNCHANGED <<job, worker>>
    BY <2>11 DEF Arrive
  <2>12. CASE UNCHANGED vars
    BY <2>2, <2>12 DEF vars
  <2>13. CASE \E w \in Worker : Work(w) \/ Crash(w)
    BY <2>6, <2>7, <2>8, <2>9, <2>13
  <2>14. CASE \E p \in Person : Staff(p) \/ Brevo(p) \/ ReceiveUnsubscribe(p)
    BY <2>2, <2>4, <2>5, <2>10, <2>14 DEF Staff
  <2> QED BY <2>2, <2>11, <2>12, <2>13, <2>14 DEF Next
<1>3. ASSUME [Next]_vars, stalls PROVE UNCHANGED Lease!vars
  BY <1>3, PaceStays DEF Lease!vars
<1>4. ASSUME IInvInTime, [Next]_vars PROVE [Lease!Next]_(Lease!vars)
  BY <1>2, <1>3, <1>4
<1> QED BY <1>1, <1>4, InvarianceInTime, PTL DEF Spec, LeaseInTime, Lease!Spec

===============================================================================
