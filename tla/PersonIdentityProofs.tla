-------------------------- MODULE PersonIdentityProofs --------------------------
(***************************************************************************)
(* Proofs about PersonIdentity: for any number of staff, People, addresses *)
(* and numbers, two People who look alike were reviewed or written by      *)
(* transactions that ran at the same time; and archived signals stand      *)
(* still.  After them, of PeopleDirectory: the pages are complete.         *)
(***************************************************************************)
EXTENDS PersonIdentity, Integers, Sequences, FiniteSetTheorems, SequenceTheorems, TLAPS

-----------------------------------------------------------------------------
(* Looking alike does not depend on who is compared with whom.              *)
LEMMA SameIsMutual ==
  /\ \A e, f : SameEmail(e, f) => SameEmail(f, e)
  /\ \A m, n \in Mobile : SameMobile(m, n) => SameMobile(n, m)
<1>1. \A e, f : SameEmail(e, f) => SameEmail(f, e)
  BY DEF SameEmail
<1>2. \A m \in Mobile : CrmMobile(m).number = m.number
  BY DEF CrmMobile, Mobile, NoMobile
<1>3. \A m, n \in Mobile : SameMobile(m, n) => SameMobile(n, m)
  BY <1>2 DEF SameMobile
<1> QED BY <1>1, <1>3

-----------------------------------------------------------------------------
(* An actor without a request has a record of the request's form.           *)
LEMMA NobodyAsks ==
  IdentityAssumption => NoRequest \in Request /\ NoRequest.op = "none" /\ NoRequest.person = 0
BY DEF IdentityAssumption, NoRequest, Request, Address, Mobile, PersonId

(* What a commit does to the other requests: they keep what they are about  *)
(* to write, and know that they have not seen p.                            *)
LEMMA CommitKeeps ==
  ASSUME IdentityAssumption, TypeOK, NEW a \in Actor, NEW p \in PersonId, Commit(a, p)
  PROVE  /\ request' \in [Actor -> Request]
         /\ request'[a] = NoRequest
         /\ \A b \in Actor \ {a} :
              /\ request'[b].op = request[b].op
              /\ request'[b].person = request[b].person
              /\ request'[b].email = request[b].email
              /\ request'[b].mobile = request[b].mobile
              /\ request'[b].reviewed = request[b].reviewed
              /\ request[b].op # "none" => request'[b].since = request[b].since \cup {p}
         /\ raced' = raced \cup {{p, q} : q \in request[a].since \ {p}}
         /\ raced' \subseteq SUBSET PersonId
<1> DEFINE req == [request EXCEPT ![a] = NoRequest]
<1>1. NoRequest \in Request /\ NoRequest.op = "none"
  BY NobodyAsks
<1>2. /\ req \in [Actor -> Request]
      /\ req[a] = NoRequest
      /\ \A b \in Actor \ {a} : req[b] = request[b]
  BY <1>1 DEF TypeOK
<1>3. request' = Missed(a, p, req)
  BY DEF Commit
<1> HIDE DEF req
<1>4. \A b \in Actor : req[b] \in Request /\ [req[b] EXCEPT !.since = @ \cup {p}] \in Request
  BY <1>2 DEF Request
<1>5. request' \in [Actor -> Request]
  BY <1>3, <1>4 DEF Missed
<1>6. request'[a] = NoRequest
  BY <1>2, <1>3 DEF Missed
<1>7. ASSUME NEW b \in Actor \ {a}
      PROVE  /\ request'[b].op = request[b].op
             /\ request'[b].person = request[b].person
             /\ request'[b].email = request[b].email
             /\ request'[b].mobile = request[b].mobile
             /\ request'[b].reviewed = request[b].reviewed
             /\ request[b].op # "none" => request'[b].since = request[b].since \cup {p}
  <2>1. req[b] = request[b] /\ request[b] \in Request
    BY <1>2, <1>4
  <2>2. request'[b] = IF request[b].op # "none"
                      THEN [request[b] EXCEPT !.since = @ \cup {p}] ELSE request[b]
    BY <1>3, <2>1 DEF Missed
  <2> QED BY <2>1, <2>2 DEF Request
<1>8. request[a].since \subseteq PersonId
  BY DEF TypeOK, Request
<1>9. raced' = raced \cup {{p, q} : q \in request[a].since \ {p}}
  BY DEF Commit
<1>10. raced' \subseteq SUBSET PersonId
  BY <1>8, <1>9 DEF TypeOK
<1> QED BY <1>5, <1>6, <1>7, <1>9, <1>10

(* The invariant holds initially.                                           *)
LEMMA InitInv == IdentityAssumption /\ Init => IInv
<1> SUFFICES ASSUME IdentityAssumption, Init PROVE IInv
  OBVIOUS
<1>1. /\ Absent \in Row /\ ~Absent.archived /\ Absent.type = "NONE"
      /\ \A e \in Email : LET row == [Absent EXCEPT !.type = "TECHNICAL", !.email = e]
                         IN  row \in Row /\ ~row.archived /\ row.type = "TECHNICAL"
  BY DEF Absent, Row, Address, Mobile, NoMobile
<1>2. PICK first \in {Absent} \cup {[Absent EXCEPT !.type = "TECHNICAL", !.email = e] : e \in Email} :
        people = [p \in PersonId |-> IF p = 1 THEN first ELSE Absent]
  BY DEF Init
<1>3. first \in Row /\ ~first.archived /\ first.type # "BUSINESS"
  BY <1>1, <1>2
<1>4. /\ people \in [PersonId -> Row]
      /\ \A p \in PersonId : ~people[p].archived /\ people[p].type # "BUSINESS"
  BY <1>1, <1>2, <1>3
<1>5. Business(people) = {}
  BY <1>4 DEF Business
<1>6. NoRequest \in Request /\ NoRequest.op = "none" /\ NoRequest.person = 0
  BY NobodyAsks
<1>7. /\ request \in [Actor -> Request]
      /\ \A a \in Actor : request[a].op = "none" /\ request[a].person = 0
  BY <1>6 DEF Init
<1>8. TypeOK
  BY <1>4, <1>7 DEF TypeOK, Init
<1>9. DuplicatesAreExplained
  BY <1>5 DEF DuplicatesAreExplained, Duplicates
<1> QED BY <1>4, <1>7, <1>8, <1>9
        DEF IInv, CheckedEverybody, EditsAreCurrent, OnlyPeopleAreArchived

-----------------------------------------------------------------------------
(* A comparison that is passed leaves its request in order.                 *)
LEMMA CheckKeeps ==
  ASSUME IdentityAssumption, IInv, NEW a \in Actor, Idle(a), NEW r \in Request,
         r.op # "none", request' = [request EXCEPT ![a] = r], UNCHANGED <<people, audit, raced>>,
         r.op = "create" => r.person = 0,
         r.op = "patch" => /\ r.person \in Business(people) /\ Unlocked(r.person)
                           /\ ~people[r.person].archived /\ r.reviewed = {},
         DuplicatePeople(people, r.email, r.mobile, r.person) \subseteq r.reviewed \cup r.since
  PROVE  IInv'
<1>1. request' \in [Actor -> Request] /\ request'[a] = r
      /\ \A b \in Actor \ {a} : request'[b] = request[b]
  BY DEF IInv, TypeOK
<1>2. Business(people) \subseteq PersonId /\ 0 \notin PersonId
  BY DEF IInv, TypeOK, Business, PersonId
<1>3. r.op = "patch" <=> r.person # 0
  BY <1>2 DEF Request
<1>4. \A b \in Actor : request'[b].op = "patch" <=> request'[b].person # 0
  BY <1>1, <1>3 DEF IInv, TypeOK
<1>5. \A b \in Actor : request'[b].op = "patch" =>
        /\ request'[b].person \in Business(people)
        /\ \A c \in Actor \ {b} : request'[c].person # request'[b].person
  <2>1. SUFFICES ASSUME NEW b \in Actor, request'[b].op = "patch"
                 PROVE  /\ request'[b].person \in Business(people)
                        /\ \A c \in Actor \ {b} : request'[c].person # request'[b].person
    OBVIOUS
  <2>2. CASE b = a
    BY <1>1, <2>1, <2>2 DEF Unlocked
  <2>3. CASE b # a
    <3>1. request'[b] = request[b] /\ request[b].person \in Business(people)
          /\ \A c \in Actor \ {b} : request[c].person # request[b].person
      BY <1>1, <2>1, <2>3 DEF IInv, TypeOK
    <3>2. r.person # request[b].person
      BY <1>2, <1>3, <2>3, <3>1 DEF Unlocked
    <3> QED BY <1>1, <3>1, <3>2
  <2> QED BY <2>2, <2>3
<1>6. TypeOK'
  BY <1>1, <1>4, <1>5 DEF IInv, TypeOK, Business
<1>7. CheckedEverybody'
  BY <1>1 DEF IInv, CheckedEverybody
<1>8. EditsAreCurrent'
  BY <1>1 DEF IInv, EditsAreCurrent
<1>9. OnlyPeopleAreArchived' /\ DuplicatesAreExplained'
  BY DEF IInv, OnlyPeopleAreArchived, DuplicatesAreExplained, Duplicates, Alike, Business
<1> QED BY <1>6, <1>7, <1>8, <1>9 DEF IInv

(* The check of a create is made on the rows as they are.                   *)
LEMMA CheckCreateKeeps ==
  ASSUME IdentityAssumption, IInv, NEW a \in Actor, CheckCreate(a) PROVE IInv'
<1> DEFINE r(e, m, ids) == [op |-> "create", person |-> 0, email |-> e, mobile |-> m,
                            reviewed |-> ids, since |-> {}]
<1>1. PICK e \in Address, m \in Mobile :
        LET evidence == Evidence(people, e, m)
            Accept(ids) == request' = [request EXCEPT ![a] = r(e, m, ids)]
        IN \/ ~RequiresReview(evidence) /\ Accept({})
           \/ \E reviewed \in Reviewable : MayOverride(reviewed, evidence) /\ Accept(reviewed.people)
  BY DEF CheckCreate
<1>2. Matches(people, e, m) \subseteq PersonId
  BY DEF Matches, EmailMatches, MobileMatches, Business, IInv, TypeOK
<1>3. ASSUME NEW ids \in SUBSET PersonId, Matches(people, e, m) \subseteq ids,
             request' = [request EXCEPT ![a] = r(e, m, ids)]
      PROVE  IInv'
  <2>1. r(e, m, ids) \in Request
    BY DEF Request, IdentityAssumption
  <2>2. DuplicatePeople(people, e, m, 0) \subseteq ids
    BY <1>3 DEF DuplicatePeople
  <2>3. Idle(a) /\ UNCHANGED <<people, audit, raced>>
    BY DEF CheckCreate
  <2> QED BY <1>3, <2>1, <2>2, <2>3, CheckKeeps
<1>4. CASE ~RequiresReview(Evidence(people, e, m)) /\ request' = [request EXCEPT ![a] = r(e, m, {})]
  <2>1. Matches(people, e, m) = {}
    BY <1>4 DEF RequiresReview, Evidence, Collision, Matches
  <2> QED BY <1>3, <1>4, <2>1
<1>5. ASSUME NEW reviewed \in Reviewable, MayOverride(reviewed, Evidence(people, e, m)),
             request' = [request EXCEPT ![a] = r(e, m, reviewed.people)]
      PROVE  IInv'
  <2>1. reviewed.people = Matches(people, e, m)
    BY <1>5 DEF MayOverride, Evidence
  <2> QED BY <1>2, <1>3, <1>5, <2>1
<1> QED BY <1>1, <1>4, <1>5

(* The check of a patch holds the lock of its Person, so that what it read  *)
(* stays.                                                                   *)
LEMMA CheckPatchKeeps ==
  ASSUME IdentityAssumption, IInv, NEW a \in Actor, CheckPatch(a) PROVE IInv'
<1>1. PICK p \in Business(people) : \E e \in Address, m \in Mobile :
       /\ Unlocked(p) /\ ~people[p].archived
       /\ DuplicatePeople(people, e, m, p) = {}
       /\ request' = [request EXCEPT ![a] = [op |-> "patch", person |-> p, email |-> e,
                        mobile |-> m, reviewed |-> {}, since |-> {}]]
  BY DEF CheckPatch
<1>2. PICK e \in Address, m \in Mobile :
       /\ Unlocked(p) /\ ~people[p].archived
       /\ DuplicatePeople(people, e, m, p) = {}
       /\ request' = [request EXCEPT ![a] = [op |-> "patch", person |-> p, email |-> e,
                        mobile |-> m, reviewed |-> {}, since |-> {}]]
  BY <1>1
<1> DEFINE r == [op |-> "patch", person |-> p, email |-> e, mobile |-> m,
                 reviewed |-> {}, since |-> {}]
<1>3. p \in 0 .. MaxPeople
  BY DEF Business, IInv, TypeOK, PersonId, IdentityAssumption
<1>4. r \in Request
  BY <1>3 DEF Request
<1>5. Idle(a) /\ UNCHANGED <<people, audit, raced>>
  BY DEF CheckPatch
<1> QED BY <1>2, <1>4, <1>5, CheckKeeps
-----------------------------------------------------------------------------
(* Writing the row of p, on which the request of a was compared, leaves     *)
(* everything else in order: what was not reviewed has been committed since.*)
LEMMA WriteKeeps ==
  ASSUME IdentityAssumption, IInv, NEW a \in Actor, NEW p \in PersonId, NEW row \in Row,
         request[a].op # "none", Commit(a, p),
         people' = [people EXCEPT ![p] = row],
         row.email = request[a].email, row.mobile = request[a].mobile,
         row.type = "BUSINESS", ~row.archived,
         request[a].person \in {0, p},
         \A b \in Actor \ {a} : request[b].person # p,
         audit \subseteq audit', audit' \subseteq [person : PersonId, override : SUBSET PersonId],
         request[a].reviewed # {} =>
           \E event \in audit' : event.person = p /\ event.override = request[a].reviewed
  PROVE  IInv'
<1>1. /\ request' \in [Actor -> Request]
      /\ request'[a] = NoRequest
      /\ \A b \in Actor \ {a} :
           /\ request'[b].op = request[b].op
           /\ request'[b].person = request[b].person
           /\ request'[b].email = request[b].email
           /\ request'[b].mobile = request[b].mobile
           /\ request'[b].reviewed = request[b].reviewed
           /\ request[b].op # "none" => request'[b].since = request[b].since \cup {p}
      /\ raced' = raced \cup {{p, q} : q \in request[a].since \ {p}}
      /\ raced' \subseteq SUBSET PersonId
  BY CommitKeeps DEF IInv
<1>2. NoRequest.op = "none" /\ NoRequest.person = 0
  BY NobodyAsks
<1>3. /\ people' \in [PersonId -> Row] /\ people'[p] = row
      /\ \A q \in PersonId : q # p => people'[q] = people[q]
  BY DEF IInv, TypeOK
<1>4. /\ Business(people)' = Business(people) \cup {p}
      /\ Business(people) \subseteq PersonId
      /\ 0 \notin PersonId
  BY <1>3 DEF Business, IInv, TypeOK, PersonId
<1>5. TypeOK'
  <2>1. \A b \in Actor : request'[b].op = "patch" <=> request'[b].person # 0
    BY <1>1, <1>2 DEF IInv, TypeOK
  <2>2. ASSUME NEW b \in Actor, request'[b].op = "patch"
        PROVE  /\ request'[b].person \in Business(people)'
               /\ \A c \in Actor \ {b} : request'[c].person # request'[b].person
    <3>1. b # a
      BY <1>1, <1>2, <2>2
    <3>2. /\ request[b].person \in Business(people)
          /\ \A c \in Actor \ {b} : request[c].person # request[b].person
      BY <1>1, <2>2, <3>1 DEF IInv, TypeOK
    <3> QED BY <1>1, <1>2, <1>4, <3>1, <3>2
  <2> QED BY <1>1, <1>3, <2>1, <2>2 DEF TypeOK
<1>6. CheckedEverybody'
  <2>1. SUFFICES ASSUME NEW b \in Actor, request'[b].op # "none",
                        NEW q \in DuplicatePeople(people', request'[b].email, request'[b].mobile,
                                                  request'[b].person)
                 PROVE  q \in request'[b].reviewed \cup request'[b].since
    BY DEF CheckedEverybody, DuplicatePeople, Matches, EmailMatches, MobileMatches, Business
  <2>2. b # a
    BY <1>1, <1>2, <2>1
  <2>3. CASE q = p
    BY <1>1, <2>1, <2>2, <2>3
  <2>4. CASE q # p
    <3>1. q \in DuplicatePeople(people, request[b].email, request[b].mobile, request[b].person)
      <4>1. q \in DuplicatePeople(people', request[b].email, request[b].mobile, request[b].person)
        BY <1>1, <2>1, <2>2
      <4>2. q \in PersonId
        BY <1>3, <4>1 DEF DuplicatePeople, Matches, EmailMatches, MobileMatches, Business
      <4>3. people'[q] = people[q] /\ q \in DOMAIN people
        BY <1>3, <2>4, <4>2 DEF IInv, TypeOK
      <4> QED BY <4>1, <4>3 DEF DuplicatePeople, Matches, EmailMatches, MobileMatches, Business
    <3> QED BY <1>1, <2>1, <2>2, <3>1 DEF IInv, CheckedEverybody
  <2> QED BY <2>3, <2>4
<1>7. EditsAreCurrent'
  <2>1. SUFFICES ASSUME NEW b \in Actor, request'[b].op = "patch"
                 PROVE  request'[b].reviewed = {} /\ ~people'[request'[b].person].archived
    BY DEF EditsAreCurrent
  <2>2. b # a
    BY <1>1, <1>2, <2>1
  <2>3. request[b].person \in PersonId /\ request[b].person # p
    BY <1>1, <1>4, <2>1, <2>2 DEF IInv, TypeOK
  <2> QED BY <1>1, <1>3, <2>1, <2>2, <2>3 DEF IInv, EditsAreCurrent
<1>8. OnlyPeopleAreArchived'
  BY <1>3 DEF IInv, OnlyPeopleAreArchived
<1>9. ASSUME NEW q \in PersonId, q # p, people[q].type = "BUSINESS",
             \/ SameEmail(row.email, people[q].email)
             \/ SameMobile(row.mobile, people[q].mobile)
      PROVE  \/ \E event \in audit' : event.person = p /\ q \in event.override
             \/ {p, q} \in raced'
  <2>1. q \in DuplicatePeople(people, request[a].email, request[a].mobile, request[a].person)
    BY <1>4, <1>9 DEF DuplicatePeople, Matches, EmailMatches, MobileMatches, Business, IInv, TypeOK
  <2>2. q \in request[a].reviewed \cup request[a].since
    BY <2>1 DEF IInv, CheckedEverybody
  <2> QED BY <1>1, <1>9, <2>2
<1>10. DuplicatesAreExplained'
  <2>1. SUFFICES ASSUME NEW q \in PersonId, NEW s \in PersonId, q # s,
                        q \in Business(people)', s \in Business(people)', Alike(q, s)'
                 PROVE  \/ \E event \in audit' : event.person \in {q, s}
                                               /\ {q, s} \ {event.person} \subseteq event.override
                        \/ {q, s} \in raced'
    BY <1>3 DEF DuplicatesAreExplained, Duplicates, Business
  <2>2. ASSUME NEW t \in PersonId, t # p, t \in Business(people)', Alike(p, t)'
        PROVE  \/ \E event \in audit' : event.person = p /\ t \in event.override
               \/ {p, t} \in raced'
    BY <1>3, <1>4, <1>9, <2>2 DEF Alike, Business
  <2>3. CASE q = p
    BY <2>1, <2>2, <2>3
  <2>4. CASE s = p
    <3>1. Alike(p, q)'
      <4>1. people'[q].mobile \in Mobile /\ people'[s].mobile \in Mobile
        BY <1>3 DEF Row
      <4> QED BY <2>1, <2>4, <4>1, SameIsMutual DEF Alike
    <3>2. {p, q} = {q, s}
      BY <2>4
    <3>3. \/ \E event \in audit' : event.person = p /\ q \in event.override
          \/ {p, q} \in raced'
      BY <2>1, <2>2, <2>4, <3>1
    <3>4. {q, s} \ {p} \subseteq {q}
      BY <2>4
    <3> QED BY <2>4, <3>2, <3>3, <3>4
  <2>5. CASE q # p /\ s # p
    <3>1. q \in Business(people) /\ s \in Business(people) /\ Alike(q, s)
      BY <1>3, <1>4, <2>1, <2>5 DEF Alike
    <3>2. <<q, s>> \in Duplicates
      BY <2>1, <3>1 DEF Duplicates
    <3>3. \/ \E event \in audit : event.person \in {q, s}
                                /\ {q, s} \ {event.person} \subseteq event.override
          \/ {q, s} \in raced
      BY <3>2 DEF IInv, DuplicatesAreExplained
    <3> QED BY <1>1, <3>3
  <2> QED BY <2>3, <2>4, <2>5
<1> QED BY <1>5, <1>6, <1>7, <1>8, <1>10 DEF IInv

(* The insert: whoever it duplicates it had reviewed, or is written since   *)
(* its check.                                                               *)
LEMMA CreateKeeps ==
  ASSUME IdentityAssumption, IInv, NEW a \in Actor, Create(a) PROVE IInv'
<1>1. PICK p \in PersonId :
       /\ people[p].type = "NONE"
       /\ people' = [people EXCEPT ![p] =
            [type |-> "BUSINESS", email |-> request[a].email, mobile |-> request[a].mobile,
             archived |-> FALSE]]
       /\ audit' = audit \cup {[person |-> p, override |-> request[a].reviewed]}
       /\ Commit(a, p)
  BY DEF Create
<1> DEFINE row == [type |-> "BUSINESS", email |-> request[a].email, mobile |-> request[a].mobile,
                   archived |-> FALSE]
<1>2. request[a] \in Request
  BY DEF IInv, TypeOK
<1>3. row \in Row
  BY <1>2 DEF Request, Row
<1>4. request[a].op # "none" /\ request[a].person = 0
  BY DEF Create, IInv, TypeOK
<1>5. \A b \in Actor : request[b].person # p
  <2>1. p \notin Business(people) /\ p # 0
    BY <1>1 DEF Business, PersonId
  <2> QED BY <2>1 DEF IInv, TypeOK
<1>6. audit' \subseteq [person : PersonId, override : SUBSET PersonId]
  BY <1>1, <1>2 DEF IInv, TypeOK, Request
<1>7. \E event \in audit' : event.person = p /\ event.override = request[a].reviewed
  <2> DEFINE event == [person |-> p, override |-> request[a].reviewed]
  <2>1. event.person = p /\ event.override = request[a].reviewed
    OBVIOUS
  <2>2. event \in audit'
    BY <1>1
  <2> HIDE DEF event
  <2> QED BY <2>1, <2>2
<1>8. /\ row.email = request[a].email /\ row.mobile = request[a].mobile
      /\ row.type = "BUSINESS" /\ ~row.archived
      /\ people' = [people EXCEPT ![p] = row]
  BY <1>1
<1>9. audit \subseteq audit' /\ Commit(a, p)
  BY <1>1
<1> HIDE DEF row
<1> QED BY <1>3, <1>4, <1>5, <1>6, <1>7, <1>8, <1>9, WriteKeeps

(* The save of a patch: whoever it duplicates was written since its check.  *)
LEMMA SavePatchKeeps ==
  ASSUME IdentityAssumption, IInv, NEW a \in Actor, SavePatch(a) PROVE IInv'
<1>1. PICK p \in PersonId : p = request[a].person /\ p \in Business(people)
  BY DEF SavePatch, IInv, TypeOK, Business
<1>2. /\ people' = [people EXCEPT ![p].email = request[a].email, ![p].mobile = request[a].mobile]
      /\ Commit(a, p) /\ audit' = audit /\ request[a].op = "patch"
  BY <1>1 DEF SavePatch
<1> DEFINE row == [people[p] EXCEPT !.email = request[a].email, !.mobile = request[a].mobile]
<1>3. people[p] \in Row /\ people[p].type = "BUSINESS" /\ request[a] \in Request
  BY <1>1 DEF IInv, TypeOK, Business
<1>4. ~people[p].archived /\ request[a].reviewed = {}
  BY <1>1, <1>2 DEF IInv, EditsAreCurrent
<1>5. /\ row \in Row /\ row.type = "BUSINESS" /\ ~row.archived
      /\ row.email = request[a].email /\ row.mobile = request[a].mobile
  BY <1>3, <1>4 DEF Row, Request
<1>6. people' = [people EXCEPT ![p] = row]
  BY <1>2 DEF IInv, TypeOK, Row
<1>7. \A b \in Actor \ {a} : request[b].person # p
  BY <1>1, <1>2 DEF IInv, TypeOK
<1>8. audit' \subseteq [person : PersonId, override : SUBSET PersonId]
  BY <1>2 DEF IInv, TypeOK
<1> HIDE DEF row
<1> QED BY <1>1, <1>2, <1>4, <1>5, <1>6, <1>7, <1>8, WriteKeeps

(* A request that ends without a write takes its check along.               *)
LEMMA RollbackKeeps ==
  ASSUME IdentityAssumption, IInv, NEW a \in Actor, Rollback(a) PROVE IInv'
<1>1. /\ request' \in [Actor -> Request]
      /\ request'[a] = NoRequest
      /\ \A b \in Actor \ {a} : request'[b] = request[b]
      /\ NoRequest.op = "none" /\ NoRequest.person = 0
      /\ UNCHANGED <<people, audit, raced>>
  BY NobodyAsks DEF Rollback, IInv, TypeOK
<1>2. Business(people) \subseteq PersonId /\ 0 \notin PersonId
  BY DEF IInv, TypeOK, Business, PersonId
<1>3. TypeOK'
  <2>1. \A b \in Actor : request'[b].op = "patch" <=> request'[b].person # 0
    BY <1>1 DEF IInv, TypeOK
  <2>2. ASSUME NEW b \in Actor, request'[b].op = "patch"
        PROVE  /\ request'[b].person \in Business(people)
               /\ \A c \in Actor \ {b} : request'[c].person # request'[b].person
    BY <1>1, <1>2, <2>2 DEF IInv, TypeOK
  <2> QED BY <1>1, <2>1, <2>2 DEF IInv, TypeOK, Business
<1>4. CheckedEverybody' /\ EditsAreCurrent'
  BY <1>1 DEF IInv, CheckedEverybody, EditsAreCurrent
<1>5. OnlyPeopleAreArchived' /\ DuplicatesAreExplained'
  BY <1>1 DEF IInv, OnlyPeopleAreArchived, DuplicatesAreExplained, Duplicates, Alike, Business
<1> QED BY <1>3, <1>4, <1>5 DEF IInv

(* Archive and restore touch no signal, and only People nobody edits.       *)
LEMMA ArchiveKeeps ==
  ASSUME IdentityAssumption, IInv, NEW p \in PersonId, Archive(p) \/ Restore(p) PROVE IInv'
<1>1. PICK archived \in BOOLEAN : people' = [people EXCEPT ![p].archived = archived]
  BY DEF Archive, Restore
<1>2. Unlocked(p) /\ people[p].type = "BUSINESS" /\ UNCHANGED <<request, audit, raced>>
  BY DEF Archive, Restore
<1>3. [people[p] EXCEPT !.archived = archived] \in Row
  BY DEF IInv, TypeOK, Row
<1>4. people' = [people EXCEPT ![p] = [people[p] EXCEPT !.archived = archived]]
  BY <1>1 DEF IInv, TypeOK
<1>5. /\ people' \in [PersonId -> Row]
      /\ \A q \in PersonId : q # p => people'[q] = people[q]
      /\ \A q \in PersonId : /\ people'[q].type = people[q].type
                            /\ people'[q].email = people[q].email
                            /\ people'[q].mobile = people[q].mobile
  BY <1>3, <1>4 DEF IInv, TypeOK, Row
<1>6. Business(people)' = Business(people) /\ Business(people) \subseteq PersonId
  BY <1>5 DEF Business, IInv, TypeOK
<1>7. TypeOK'
  BY <1>2, <1>5, <1>6 DEF IInv, TypeOK
<1>8. \A e, m, self : DuplicatePeople(people', e, m, self) = DuplicatePeople(people, e, m, self)
  <2>1. DOMAIN people = PersonId /\ DOMAIN people' = PersonId
    BY <1>5 DEF IInv, TypeOK
  <2> QED BY <1>5, <2>1 DEF DuplicatePeople, Matches, EmailMatches, MobileMatches, Business
<1>9. CheckedEverybody'
  BY <1>2, <1>8 DEF IInv, CheckedEverybody
<1>10. EditsAreCurrent'
  BY <1>2, <1>5, <1>6 DEF IInv, EditsAreCurrent, Unlocked, TypeOK
<1>11. OnlyPeopleAreArchived'
  BY <1>2, <1>5 DEF IInv, OnlyPeopleAreArchived
<1>12. Duplicates' \subseteq Duplicates
  BY <1>5, <1>6 DEF Duplicates, Alike
<1>13. DuplicatesAreExplained'
  BY <1>2, <1>12 DEF IInv, DuplicatesAreExplained
<1> QED BY <1>7, <1>9, <1>10, <1>11, <1>13 DEF IInv

(* The invariant is inductive.                                              *)
LEMMA NextInv == IdentityAssumption /\ IInv /\ [Next]_vars => IInv'
<1> SUFFICES ASSUME IdentityAssumption, IInv, [Next]_vars PROVE IInv'
  OBVIOUS
<1>1. CASE UNCHANGED vars
  BY <1>1 DEF vars, IInv, TypeOK, CheckedEverybody, EditsAreCurrent, OnlyPeopleAreArchived,
              DuplicatesAreExplained, Duplicates, Alike, Business
<1>2. CASE Next
  BY <1>2, CheckCreateKeeps, CreateKeeps, CheckPatchKeeps, SavePatchKeeps, RollbackKeeps,
     ArchiveKeeps DEF Next
<1> QED BY <1>1, <1>2

(* The types and what the explanation of duplicates rests on always hold.   *)
THEOREM Invariance ==
  ASSUME IdentityAssumption
  PROVE  Spec => []IInv
BY InitInv, NextInv, PTL DEF Spec

(* However many staff work at once: two People with one address or one      *)
(* number were reviewed as such or written by overlapping transactions.     *)
THEOREM LookalikesHaveReasons ==
  ASSUME IdentityAssumption
  PROVE  Spec => []DuplicatesAreExplained
<1>1. IInv => DuplicatesAreExplained
  BY DEF IInv
<1> QED BY <1>1, Invariance, PTL

(* An edit that was begun before its Person was archived does not change    *)
(* the archived Person: the lock it holds keeps the archive waiting.        *)
THEOREM ArchivedSignalsStay ==
  ASSUME IdentityAssumption
  PROVE  Spec => ArchivedStandsStill
<1> DEFINE Still == \A p \in PersonId : people[p].archived =>
                      people'[p].email = people[p].email /\ people'[p].mobile = people[p].mobile
<1>1. IInv /\ [Next]_vars => Still
  <2> SUFFICES ASSUME IInv, [Next]_vars PROVE Still
    OBVIOUS
  <2>1. ASSUME NEW a \in Actor, Create(a) PROVE Still
    BY <2>1 DEF Create, IInv, OnlyPeopleAreArchived, TypeOK
  <2>2. ASSUME NEW a \in Actor, SavePatch(a) PROVE Still
    <3>1. ~people[request[a].person].archived
      BY <2>2 DEF SavePatch, IInv, EditsAreCurrent
    <3> QED BY <2>2, <3>1 DEF SavePatch, IInv, TypeOK
  <2>3. ASSUME NEW q \in PersonId, Archive(q) \/ Restore(q) PROVE Still
    BY <2>3 DEF Archive, Restore, IInv, TypeOK, Row
  <2>4. ASSUME UNCHANGED people PROVE Still
    BY <2>4
  <2> HIDE DEF Still
  <2> QED BY <2>1, <2>2, <2>3, <2>4 DEF Next, vars, CheckCreate, CheckPatch, Rollback
<1>2. IInv /\ [Next]_vars =>
        [\A p \in PersonId : people[p].archived =>
           /\ people'[p].email = people[p].email
           /\ people'[p].mobile = people[p].mobile]_vars
  BY <1>1
<1> QED BY <1>2, Invariance, PTL DEF Spec, ArchivedStandsStill

-----------------------------------------------------------------------------
(* Reading the directory page by page: for any People, queries and page     *)
(* size.                                                                    *)
CONSTANTS Person, Record, Catalog, Query, PageSize, Today

VARIABLES crm, inactive, query, seen, page, steady

Pages == INSTANCE PeopleDirectory

(* The instance counts as everybody does.                                   *)
LEMMA Sizes ==
  \A S : Pages!Cardinality(S) = Cardinality(S) /\ (Pages!IsFiniteSet(S) <=> IsFiniteSet(S))
  BY DEF Pages!Cardinality, Cardinality, Pages!IsFiniteSet, IsFiniteSet

(* A key is three numbers, of which the last one is the Person's own.       *)
LEMMA KeyShape ==
  ASSUME Pages!DirectoryAssumption, Pages!TypeOK, NEW order
  PROVE  /\ \A p \in Person : /\ DOMAIN Pages!Key(p, order) = 1 .. 3
                              /\ Pages!Key(p, order)[1] \in Int /\ Pages!Key(p, order)[2] \in Int
         /\ \/ \A p \in Person : Pages!Key(p, order)[3] = p
            \/ \A p \in Person : Pages!Key(p, order)[3] = -p
  <1>1. \A p \in Person : crm[p].first \in Int /\ crm[p].last \in Int /\ crm[p].joined \in Nat
    BY Sizes DEF Pages!DirectoryAssumption, Pages!TypeOK
  <1>2. \A joined : Pages!NullsLast(joined) \in Int
    BY DEF Pages!NullsLast
  <1>3. ASSUME NEW p \in Person
        PROVE  /\ DOMAIN Pages!Key(p, order) = 1 .. 3
               /\ Pages!Key(p, order)[1] \in Int /\ Pages!Key(p, order)[2] \in Int
    BY <1>1, <1>2 DEF Pages!Key
  <1>4. CASE order \in {"name", "-first_name", "last_name", "-last_name", "membership_joined_at"}
    <2>1. \A p \in Person : Pages!Key(p, order)[3] = p
      BY <1>1, <1>2, <1>4 DEF Pages!Key
    <2> QED BY <1>3, <2>1
  <1>5. CASE order \notin {"name", "-first_name", "last_name", "-last_name", "membership_joined_at"}
    <2>1. \A p \in Person : Pages!Key(p, order)[3] = -p
      BY <1>1, <1>2, <1>5 DEF Pages!Key
    <2> QED BY <1>3, <2>1
  <1> QED BY <1>3, <1>4, <1>5

(* The orderings leave no choice among People (querying.py:14).             *)
LEMMA KeysOrder ==
  ASSUME Pages!DirectoryAssumption, Pages!TypeOK, NEW p \in Person, NEW q \in Person, NEW order
  PROVE  /\ ~Pages!Before(Pages!Key(p, order), Pages!Key(p, order))
         /\ p # q => \/ Pages!Before(Pages!Key(p, order), Pages!Key(q, order))
                     \/ Pages!Before(Pages!Key(q, order), Pages!Key(p, order))
  <1> DEFINE k == Pages!Key(p, order)
             l == Pages!Key(q, order)
  <1>1. /\ DOMAIN k = 1 .. 3 /\ k[1] \in Int /\ k[2] \in Int /\ k[3] \in Int
        /\ DOMAIN l = 1 .. 3 /\ l[1] \in Int /\ l[2] \in Int /\ l[3] \in Int
        /\ p # q => k[3] # l[3]
    <2>1. p \in Int /\ q \in Int
      BY Sizes DEF Pages!DirectoryAssumption
    <2> QED BY <2>1, KeyShape
  <1> HIDE DEF k, l
  <1>2. 1 .. 1 - 1 = {} /\ 1 .. 2 - 1 = {1} /\ 1 .. 3 - 1 = {1, 2} /\ 1 .. 3 = {1, 2, 3}
    OBVIOUS
  <1>3. ~Pages!Before(k, k)
    BY <1>1, <1>2 DEF Pages!Before
  <1>4. ASSUME p # q PROVE Pages!Before(k, l) \/ Pages!Before(l, k)
    <2>1. CASE k[1] # l[1]
      BY <1>1, <1>2, <2>1 DEF Pages!Before
    <2>2. CASE k[1] = l[1] /\ k[2] # l[2]
      BY <1>1, <1>2, <2>2 DEF Pages!Before
    <2>3. CASE k[1] = l[1] /\ k[2] = l[2]
      BY <1>1, <1>2, <1>4, <2>3 DEF Pages!Before
    <2> QED BY <2>1, <2>2, <2>3
  <1> QED BY <1>3, <1>4 DEF k, l

(* A listing has everyone who is selected, and its position i has i - 1     *)
(* People before it.                                                        *)
Earlier(q, p) == {o \in Pages!Selected(q) : Pages!Before(Pages!Key(o, q.order), Pages!Key(p, q.order))}

LEMMA ListingShape ==
  ASSUME Pages!DirectoryAssumption, Pages!TypeOK, NEW q, NEW rows \in Pages!Listings(q)
  PROVE  /\ rows \in Seq(Person) /\ Len(rows) = Cardinality(Pages!Selected(q)) /\ Len(rows) \in Nat
         /\ \A p \in Pages!Selected(q) : \E i \in 1 .. Len(rows) : rows[i] = p
         /\ \A i \in 1 .. Len(rows) : rows[i] \in Pages!Selected(q) /\ Cardinality(Earlier(q, rows[i])) = i - 1
  <1> DEFINE V == Pages!Selected(q)
             n == Cardinality(V)
             Less(o, p) == Pages!Before(Pages!Key(o, q.order), Pages!Key(p, q.order))
  <1>1. V \in SUBSET Person /\ IsFiniteSet(V) /\ n \in Nat
    <2>1. V \in SUBSET Person
      BY DEF Pages!Selected, Pages!InState, Pages!ArchivedBusiness, Pages!ActiveBusiness, Pages!Business
    <2> QED BY <2>1, FS_Subset, FS_CardinalityType, Sizes DEF Pages!DirectoryAssumption
  <1>2. /\ rows \in [1 .. n -> V] /\ \A i, j \in 1 .. n : i # j => rows[i] # rows[j]
        /\ \A i, j \in 1 .. n : i < j => ~Less(rows[j], rows[i])
    BY Sizes DEF Pages!Listings, Pages!SetToSeqs
  <1>3. \A o, p \in V : ~Less(p, p) /\ (o # p => Less(o, p) \/ Less(p, o))
    BY <1>1, KeysOrder
  <1>4. \A p : Earlier(q, p) = {o \in V : Less(o, p)}
    BY DEF Earlier
  <1> HIDE DEF V, n, Less
  <1>5. rows \in Seq(Person) /\ Len(rows) = n
    BY <1>1, <1>2
  <1>6. \A p \in V : \E i \in 1 .. n : rows[i] = p
    <2>1. rows \in Injection(1 .. n, V)
      BY <1>2 DEF Injection, IsInjective
    <2>2. Cardinality(1 .. n) = n
      <3>1. 1 \in Int /\ n \in Int
        BY <1>1
      <3> QED BY <1>1, <3>1, FS_Interval
    <2>3. rows \in Surjection(1 .. n, V)
      BY <1>1, <2>1, <2>2, FS_Injection DEF n
    <2> QED BY <2>3 DEF Surjection
  <1>7. ASSUME NEW i \in 1 .. n
        PROVE  Cardinality(Earlier(q, rows[i])) = i - 1
    <2> DEFINE B == Earlier(q, rows[i])
               g == [j \in 1 .. i - 1 |-> rows[j]]
    <2>0. /\ \A j \in 1 .. i - 1 : j \in 1 .. n /\ j # i /\ j < i
          /\ \A j \in 1 .. n : j < i => j \in 1 .. i - 1
      BY <1>1
    <2>1. ASSUME NEW j \in 1 .. i - 1 PROVE rows[j] \in B
      <3>1. rows[j] \in V /\ rows[i] \in V /\ rows[j] # rows[i] /\ ~Less(rows[i], rows[j])
        BY <1>2, <2>0
      <3> QED BY <1>3, <1>4, <3>1
    <2>2. ASSUME NEW f \in B PROVE \E j \in 1 .. i - 1 : rows[j] = f
      <3>1. f \in V /\ Less(f, rows[i])
        BY <1>4
      <3>2. PICK j \in 1 .. n : rows[j] = f
        BY <1>6, <3>1
      <3>3. j # i /\ ~(i < j)
        BY <1>2, <1>3, <3>1, <3>2
      <3> QED BY <1>1, <2>0, <3>2, <3>3
    <2>3. g \in Bijection(1 .. i - 1, B)
      <3>1. g \in Injection(1 .. i - 1, B)
        BY <1>2, <2>0, <2>1 DEF Injection, IsInjective
      <3>2. g \in Surjection(1 .. i - 1, B)
        BY <2>1, <2>2 DEF Surjection
      <3> QED BY <3>1, <3>2 DEF Bijection
    <2>4. IsFiniteSet(1 .. i - 1) /\ Cardinality(1 .. i - 1) = i - 1
      <3>1. 1 \in Int /\ i - 1 \in Int /\ i >= 1
        BY <1>1
      <3> QED BY <3>1, FS_Interval
    <2> HIDE DEF B, g
    <2>5. Cardinality(B) = i - 1
      BY <2>3, <2>4, FS_Bijection DEF ExistsBijection
    <2> QED BY <2>5 DEF B
  <1> QED BY <1>1, <1>2, <1>5, <1>6, <1>7 DEF V, n

(* So there is one listing.                                                 *)
LEMMA OneListing ==
  ASSUME Pages!DirectoryAssumption, Pages!TypeOK,
         NEW rows \in Pages!Listings(query), NEW other \in Pages!Listings(query)
  PROVE  rows = other
  <1>1. /\ rows \in Seq(Person) /\ other \in Seq(Person) /\ Len(rows) = Len(other) /\ Len(rows) \in Nat
        /\ \A i \in 1 .. Len(rows) : rows[i] \in Pages!Selected(query)
    BY ListingShape
  <1>2. ASSUME NEW i \in 1 .. Len(rows) PROVE rows[i] = other[i]
    <2>1. PICK j \in 1 .. Len(other) : other[j] = rows[i]
      BY <1>1, ListingShape
    <2>2. Cardinality(Earlier(query, rows[i])) = i - 1 /\ Cardinality(Earlier(query, rows[i])) = j - 1
      BY <2>1, ListingShape
    <2>3. i = j
      BY <1>1, <2>2
    <2> QED BY <2>1, <2>3
  <1> QED BY <1>1, <1>2, SeqEqual

(* Before the first page nothing of it has been read.                       *)
LEMMA BeforeTheFirstPage ==
  ASSUME Pages!DirectoryAssumption, Pages!TypeOK, NEW q, NEW rows \in Pages!Listings(q)
  PROVE  SubSeq(rows, 1, Pages!SmallerOf(0 * PageSize, Len(rows))) = <<>>
  <1>1. PageSize \in Nat /\ Len(rows) \in Nat /\ rows \in Seq(Person)
    BY ListingShape, Sizes DEF Pages!DirectoryAssumption
  <1>2. Pages!SmallerOf(0 * PageSize, Len(rows)) = 0
    BY <1>1 DEF Pages!SmallerOf
  <1>3. SubSeq(rows, 1, 0) = <<>>
    BY <1>1, SubSeqEmpty
  <1> QED BY <1>2, <1>3

-----------------------------------------------------------------------------
(* Nothing has been read.                                                   *)
LEMMA DirectoryInit == ASSUME Pages!DirectoryAssumption, Pages!Init PROVE Pages!IInv
  <1>1. Cardinality(Person) \in Nat /\ PageSize \in Nat \ {0}
    BY FS_CardinalityType, Sizes DEF Pages!DirectoryAssumption
  <1>2. Pages!TypeOK
    BY <1>1, Sizes DEF Pages!Init, Pages!TypeOK
  <1>3. ASSUME NEW rows \in Pages!Listings(query)
        PROVE  seen = SubSeq(rows, 1, Pages!SmallerOf(page * PageSize, Len(rows)))
    <2>1. SubSeq(rows, 1, Pages!SmallerOf(0 * PageSize, Len(rows))) = <<>>
      BY <1>2, BeforeTheFirstPage
    <2>2. page = 0 /\ seen = <<>>
      BY DEF Pages!Init
    <2> QED BY <2>1, <2>2
  <1>4. Pages!PagesAdvance
    BY <1>3 DEF Pages!Init, Pages!PagesAdvance
  <1> QED BY <1>2, <1>4 DEF Pages!IInv

(* The next page begins where the pages so far end.                         *)
LEMMA NextPageKeeps == ASSUME Pages!DirectoryAssumption, Pages!IInv, Pages!NextPage PROVE Pages!IInv'
  <1>0. Pages!TypeOK /\ Pages!PagesAdvance
    BY DEF Pages!IInv
  <1> DEFINE n == page * PageSize
             next == (page + 1) * PageSize
  <1>1. /\ page \in Nat /\ PageSize \in Nat \ {0} /\ n \in Nat /\ next = n + PageSize /\ next \in Nat
        /\ IsFiniteSet(Person) /\ Cardinality(Person) \in Nat
    <2>1. page \in Nat /\ PageSize \in Nat \ {0} /\ IsFiniteSet(Person)
      BY <1>0, Sizes DEF Pages!TypeOK, Pages!DirectoryAssumption
    <2> QED BY <2>1, FS_CardinalityType
  <1>2. PICK rows \in Pages!Listings(query) :
          LET last == Pages!SmallerOf(next, Len(rows)) IN seen' = seen \o SubSeq(rows, n + 1, last)
    BY Sizes DEF Pages!NextPage
  <1>3. /\ page' = page + 1 /\ UNCHANGED <<crm, inactive, query, steady>>
        /\ n < Cardinality(Pages!Selected(query))
    BY Sizes DEF Pages!NextPage, Pages!HasNext
  <1> HIDE DEF n
  <1> DEFINE last == Pages!SmallerOf(next, Len(rows))
  <1>4. rows \in Seq(Person) /\ Len(rows) = Cardinality(Pages!Selected(query)) /\ Len(rows) \in Nat
    BY <1>0, ListingShape
  <1>5. last \in n .. Len(rows) /\ last = Pages!SmallerOf(next, Len(rows))
    BY <1>1, <1>3, <1>4 DEF Pages!SmallerOf
  <1>6. seen' = seen \o SubSeq(rows, n + 1, last)
    BY <1>2
  <1> HIDE DEF last
  <1>7. Pages!TypeOK'
    <2>1. SubSeq(rows, n + 1, last) \in Seq(Person)
      BY <1>1, <1>4, <1>5, SubSeqProperties
    <2>2. seen' \in Seq(Person)
      BY <1>0, <1>6, <2>1, ConcatProperties, Sizes DEF Pages!TypeOK
    <2>3. Pages!Selected(query) \in SUBSET Person
      BY DEF Pages!Selected, Pages!InState, Pages!ArchivedBusiness, Pages!ActiveBusiness, Pages!Business
    <2>4. Cardinality(Pages!Selected(query)) <= Cardinality(Person)
      BY <1>1, <2>3, FS_Subset
    <2>5. next < Cardinality(Person) + PageSize
      BY <1>1, <1>3, <1>4, <2>4
    <2> QED BY <1>0, <1>1, <1>3, <2>2, <2>5, Sizes DEF Pages!TypeOK
  <1>8. Pages!Listings(query)' = Pages!Listings(query)
    BY <1>3 DEF Pages!Listings, Pages!Selected, Pages!InState, Pages!ArchivedBusiness,
                Pages!ActiveBusiness, Pages!Business, Pages!ByRelationship, Pages!ByCatalog,
                Pages!Chosen, Pages!Key, Pages!NullsLast, Pages!Before
  <1>9. ASSUME steady, NEW other \in Pages!Listings(query)
        PROVE  seen' = SubSeq(other, 1, Pages!SmallerOf(next, Len(other)))
    <2>1. other = rows
      BY <1>0, OneListing
    <2>2. seen = SubSeq(rows, 1, n)
      <3>1. Pages!SmallerOf(n, Len(rows)) = n
        BY <1>1, <1>3, <1>4 DEF Pages!SmallerOf
      <3>2. seen = SubSeq(rows, 1, Pages!SmallerOf(n, Len(rows)))
        BY <1>0, <1>9 DEF Pages!PagesAdvance, n
      <3> QED BY <3>1, <3>2
    <2>3. 1 \in 1 .. Len(rows) + 1 /\ n \in 1 - 1 .. Len(rows)
      BY <1>1, <1>3, <1>4
    <2>4. SubSeq(rows, 1, n) \o SubSeq(rows, n + 1, last) = SubSeq(rows, 1, last)
      BY <1>4, <1>5, <2>3, ConcatAdjacentSubSeq
    <2> QED BY <1>5, <1>6, <2>1, <2>2, <2>4
  <1>10. Pages!PagesAdvance'
    BY <1>1, <1>3, <1>8, <1>9 DEF Pages!PagesAdvance, Pages!SmallerOf
  <1> QED BY <1>7, <1>10 DEF Pages!IInv

(* A new query, an edit, a catalog entry: nothing is claimed of the pages.  *)
LEMMA OthersKeep ==
  ASSUME Pages!DirectoryAssumption, Pages!IInv,
         \/ \E q \in Query : Pages!Ask(q)
         \/ \E p \in Person, r \in Record : Pages!Edit(p, r)
         \/ \E v \in Catalog : Pages!SwitchEntry(v)
  PROVE  Pages!IInv'
  <1>0. Pages!TypeOK /\ Pages!PagesAdvance
    BY DEF Pages!IInv
  <1>1. Cardinality(Person) \in Nat /\ PageSize \in Nat \ {0}
    BY FS_CardinalityType, Sizes DEF Pages!DirectoryAssumption
  <1>2. ASSUME NEW q \in Query, Pages!Ask(q) PROVE Pages!IInv'
    <2>1. query' = q /\ seen' = <<>> /\ page' = 0 /\ steady' = TRUE /\ UNCHANGED <<crm, inactive>>
      BY <1>2 DEF Pages!Ask
    <2>2. Pages!TypeOK'
      BY <1>0, <1>1, <2>1, Sizes DEF Pages!TypeOK
    <2>3. Pages!Listings(query)' = Pages!Listings(q)
      BY <2>1 DEF Pages!Listings, Pages!Selected, Pages!InState, Pages!ArchivedBusiness,
                  Pages!ActiveBusiness, Pages!Business, Pages!ByRelationship, Pages!ByCatalog,
                  Pages!Chosen, Pages!Key, Pages!NullsLast, Pages!Before
    <2>4. ASSUME NEW rows \in Pages!Listings(q)
          PROVE  SubSeq(rows, 1, Pages!SmallerOf(0 * PageSize, Len(rows))) = <<>>
      BY <1>0, <1>1, <2>4, BeforeTheFirstPage
    <2>5. ASSUME NEW rows \in Pages!Listings(q)
          PROVE  seen' = SubSeq(rows, 1, Pages!SmallerOf(page' * PageSize, Len(rows)))
      BY <2>1, <2>4
    <2>6. Pages!PagesAdvance'
      BY <2>1, <2>3, <2>5 DEF Pages!PagesAdvance, Pages!SmallerOf
    <2> QED BY <2>2, <2>6 DEF Pages!IInv
  <1>3. ASSUME NEW p \in Person, NEW r \in Record, Pages!Edit(p, r) PROVE Pages!IInv'
    BY <1>0, <1>3, Sizes DEF Pages!Edit, Pages!IInv, Pages!TypeOK, Pages!PagesAdvance
  <1>4. ASSUME NEW v \in Catalog, Pages!SwitchEntry(v) PROVE Pages!IInv'
    BY <1>0, <1>4, Sizes DEF Pages!SwitchEntry, Pages!IInv, Pages!TypeOK, Pages!PagesAdvance
  <1> QED BY <1>2, <1>3, <1>4

(* Every step keeps the invariant.                                          *)
LEMMA DirectoryNext ==
  ASSUME Pages!DirectoryAssumption, Pages!IInv, [Pages!Next]_(Pages!vars)
  PROVE  Pages!IInv'
  <1>1. CASE Pages!NextPage
    BY <1>1, NextPageKeeps
  <1>2. CASE UNCHANGED Pages!vars
    <2>1. Pages!TypeOK'
      BY <1>2, Sizes DEF Pages!IInv, Pages!TypeOK, Pages!vars
    <2>2. Pages!Listings(query)' = Pages!Listings(query)
      BY <1>2 DEF Pages!vars, Pages!Listings, Pages!Selected, Pages!InState, Pages!ArchivedBusiness,
                  Pages!ActiveBusiness, Pages!Business, Pages!ByRelationship, Pages!ByCatalog,
                  Pages!Chosen, Pages!Key, Pages!NullsLast, Pages!Before
    <2>3. Pages!PagesAdvance'
      BY <1>2, <2>2 DEF Pages!IInv, Pages!PagesAdvance, Pages!vars, Pages!SmallerOf
    <2> QED BY <2>1, <2>3 DEF Pages!IInv
  <1> QED BY <1>1, <1>2, OthersKeep DEF Pages!Next

(* While nothing changes there is one listing, of which the pages so far    *)
(* are the beginning.                                                       *)
THEOREM DirectoryInvariance ==
  ASSUME Pages!DirectoryAssumption PROVE Pages!Spec => []Pages!IInv
  BY DirectoryInit, DirectoryNext, PTL DEF Pages!Spec

(* However many People there are and whatever equal names or dates they     *)
(* have: while nothing changes, the pages are the listing that the query    *)
(* and its ordering ask for, with everyone in it once.                      *)
THEOREM DirectoriesAreComplete ==
  ASSUME Pages!DirectoryAssumption PROVE Pages!Spec => []Pages!PagesAreComplete
  <1>1. ASSUME Pages!IInv PROVE Pages!PagesAreComplete
    <2>0. Pages!TypeOK /\ Pages!PagesAdvance
      BY <1>1 DEF Pages!IInv
    <2> SUFFICES ASSUME steady, ~Pages!HasNext PROVE seen \in Pages!Listings(query)
      BY DEF Pages!PagesAreComplete
    <2>1. page \in Nat /\ PageSize \in Nat \ {0} /\ page * PageSize \in Nat
      BY <2>0, Sizes DEF Pages!TypeOK, Pages!DirectoryAssumption
    <2>2. page * PageSize >= Cardinality(Pages!Selected(query)) /\ IsFiniteSet(Pages!Selected(query))
      <3>1. Pages!Selected(query) \in SUBSET Person
        BY DEF Pages!Selected, Pages!InState, Pages!ArchivedBusiness, Pages!ActiveBusiness, Pages!Business
      <3>2. IsFiniteSet(Pages!Selected(query)) /\ Cardinality(Pages!Selected(query)) \in Nat
        BY <3>1, FS_Subset, FS_CardinalityType, Sizes DEF Pages!DirectoryAssumption
      <3> QED BY <2>1, <3>2, Sizes DEF Pages!HasNext
    <2>3. CASE page = 0
      <3>1. Pages!Selected(query) = {} /\ seen = <<>>
        <4>1. Cardinality(Pages!Selected(query)) = 0
          <5>1. Cardinality(Pages!Selected(query)) \in Nat /\ 0 * PageSize = 0
            BY <2>1, <2>2, FS_CardinalityType
          <5> QED BY <2>2, <2>3, <5>1
        <4>2. Pages!Selected(query) = {}
          BY <2>2, <4>1, FS_EmptySet
        <4> QED BY <2>0, <2>3, <4>2 DEF Pages!PagesAdvance
      <3>2. <<>> \in [1 .. 0 -> {}] /\ 1 .. 0 = {} /\ DOMAIN <<>> = {}
        OBVIOUS
      <3> QED BY <3>1, <3>2, FS_EmptySet, Sizes DEF Pages!Listings, Pages!SetToSeqs
    <2>4. CASE page > 0
      <3>1. PICK rows \in Pages!Listings(query) :
              seen = SubSeq(rows, 1, Pages!SmallerOf(page * PageSize, Len(rows)))
        BY <2>0, <2>4 DEF Pages!PagesAdvance
      <3>2. rows \in Seq(Person) /\ Len(rows) = Cardinality(Pages!Selected(query)) /\ Len(rows) \in Nat
        BY <2>0, ListingShape
      <3>3. Pages!SmallerOf(page * PageSize, Len(rows)) = Len(rows)
        BY <2>1, <2>2, <3>2 DEF Pages!SmallerOf
      <3> QED BY <3>1, <3>2, <3>3, SubSeqFull
    <2> QED BY <2>1, <2>3, <2>4
  <1> QED BY <1>1, DirectoryInvariance, PTL

-----------------------------------------------------------------------------
(* The filters say what the projections show.                               *)
LEMMA FiltersMatch == ASSUME Pages!DirectoryAssumption, Pages!TypeOK PROVE Pages!FiltersMatchProjections
  <1> SUFFICES ASSUME NEW p \in Pages!Business
               PROVE  /\ \A r \in {"CONTACT", "ACTIVE_MEMBER", "FORMER_MEMBER"} :
                           Pages!ByRelationship(p, {r}) <=> Pages!Relationship(p) = r
                      /\ \A v \in Catalog : Pages!ByCatalog(p, {v}) <=> v \in Pages!Shown(p)
    BY DEF Pages!FiltersMatchProjections
  <1>1. crm[p].member \in {"NONE", "ACTIVE", "FORMER"}
    BY Sizes DEF Pages!Business, Pages!TypeOK, Pages!DirectoryAssumption
  <1>2. \A r \in {"CONTACT", "ACTIVE_MEMBER", "FORMER_MEMBER"} :
          Pages!ByRelationship(p, {r}) <=> Pages!Relationship(p) = r
    BY <1>1 DEF Pages!ByRelationship, Pages!Relationship
  <1>3. \A v \in Catalog : Pages!ByCatalog(p, {v}) <=> v \in Pages!Shown(p)
    BY DEF Pages!ByCatalog, Pages!Shown
  <1> QED BY <1>2, <1>3

(* The audience is chosen among active People.                              *)
LEMMA AudienceIsActive ==
  ASSUME Pages!DirectoryAssumption, NEW q \in Query
  PROVE  Pages!Selected([q EXCEPT !.record_state = "active"]) \in SUBSET Pages!ActiveBusiness
  <1> DEFINE a == [q EXCEPT !.record_state = "active"]
  <1>1. a.record_state = "active"
    BY Sizes DEF Pages!DirectoryAssumption
  <1> HIDE DEF a
  <1>2. Pages!InState(a.record_state) = Pages!ActiveBusiness
    BY <1>1 DEF Pages!InState
  <1>3. Pages!Selected(a) \in SUBSET Pages!ActiveBusiness
    BY <1>2 DEF Pages!Selected
  <1> QED BY <1>3 DEF a

(* Everybody selected is of one class, and the eligible ones are whom the   *)
(* synchronization would subscribe.                                         *)
LEMMA AudienceMatches == ASSUME Pages!DirectoryAssumption, Pages!TypeOK PROVE Pages!AudienceMatchesSync
  <1> DEFINE All == Pages!Selected([query EXCEPT !.record_state = "active"])
             Of(c) == {p \in All : Pages!Classification(p) = c}
  <1>1. All \in SUBSET Pages!ActiveBusiness /\ IsFiniteSet(All)
    <2>1. query \in Query /\ IsFiniteSet(Person)
      BY Sizes DEF Pages!TypeOK, Pages!DirectoryAssumption
    <2>2. All \in SUBSET Pages!ActiveBusiness
      BY <2>1, AudienceIsActive
    <2>3. All \in SUBSET Person
      BY <2>2 DEF Pages!ActiveBusiness, Pages!Business
    <2> QED BY <2>1, <2>2, <2>3, FS_Subset
  <1>2. /\ Pages!AudienceRows(query, "eligible") = {p \in All : Pages!Classification(p) = "ELIGIBLE"}
        /\ Pages!AudienceRows(query, "excluded") = {p \in All : Pages!Classification(p) # "ELIGIBLE"}
        /\ Pages!AudienceRows(query, "all") = All
    BY DEF Pages!AudienceRows
  <1>3. Pages!AudienceCounts(query) = [c \in Pages!Class |-> Cardinality(Of(c))]
    BY Sizes DEF Pages!AudienceCounts
  <1> HIDE DEF All
  <1>4. \A p \in All : Pages!SyncSubscribes(p) <=> Pages!Classification(p) = "ELIGIBLE"
    <2>1. ASSUME NEW p \in All PROVE p \in Pages!Business /\ ~crm[p].archived
      BY <1>1 DEF Pages!ActiveBusiness
    <2>2. ASSUME NEW p \in All PROVE Pages!SyncSubscribes(p) <=> Pages!Classification(p) = "ELIGIBLE"
      BY <2>1 DEF Pages!SyncSubscribes, Pages!Classification
    <2> QED BY <2>2
  <1>5. \A p \in All : Pages!Classification(p) \in Pages!Class
    BY DEF Pages!Classification, Pages!Class
  <1> DEFINE E == Of("ELIGIBLE")
             O == Of("EXCLUDED_OPTED_OUT")
             U == Of("EXCLUDED_CONSENT_UNKNOWN")
             N == Of("EXCLUDED_NO_EMAIL")
             X == {p \in All : Pages!Classification(p) # "ELIGIBLE"}
  <1>6. /\ E \in SUBSET All /\ X \in SUBSET All /\ E \cup X = All /\ E \cap X = {}
        /\ O \cup U \in SUBSET All /\ O \in SUBSET All /\ U \in SUBSET All /\ N \in SUBSET All
        /\ O \cap U = {} /\ (O \cup U) \cap N = {} /\ (O \cup U) \cup N = X
    BY <1>5 DEF Pages!Class
  <1>7. /\ Pages!AudienceCounts(query)["ELIGIBLE"] = Cardinality(E)
        /\ Pages!AudienceCounts(query)["EXCLUDED_OPTED_OUT"] = Cardinality(O)
        /\ Pages!AudienceCounts(query)["EXCLUDED_CONSENT_UNKNOWN"] = Cardinality(U)
        /\ Pages!AudienceCounts(query)["EXCLUDED_NO_EMAIL"] = Cardinality(N)
    BY <1>3 DEF Pages!Class
  <1>8. Pages!AudienceRows(query, "eligible") = E /\ Pages!AudienceRows(query, "excluded") = X
    BY <1>2
  <1>9. E = {p \in All : Pages!SyncSubscribes(p)}
    BY <1>4
  <1> HIDE DEF E, O, U, N, X
  <1>10. \A S, T \in SUBSET All : S \cap T = {} => /\ Cardinality(S \cup T) = Cardinality(S) + Cardinality(T)
                                                   /\ Cardinality(S) \in Nat /\ Cardinality(T) \in Nat
    <2> SUFFICES ASSUME NEW S \in SUBSET All, NEW T \in SUBSET All, S \cap T = {}
                 PROVE  /\ Cardinality(S \cup T) = Cardinality(S) + Cardinality(T)
                        /\ Cardinality(S) \in Nat /\ Cardinality(T) \in Nat
      OBVIOUS
    <2>1. IsFiniteSet(S) /\ IsFiniteSet(T) /\ Cardinality(S \cap T) = 0
      BY <1>1, FS_Subset, FS_EmptySet
    <2>2. Cardinality(S) \in Nat /\ Cardinality(T) \in Nat
      BY <2>1, FS_CardinalityType
    <2>3. Cardinality(S \cup T) = Cardinality(S) + Cardinality(T) - Cardinality(S \cap T)
      BY <2>1, FS_Union
    <2> QED BY <2>1, <2>2, <2>3
  <1>11. /\ Cardinality(All) = Cardinality(E) + Cardinality(X)
         /\ Cardinality(X) = Cardinality(O) + Cardinality(U) + Cardinality(N)
    <2>1. Cardinality(All) = Cardinality(E) + Cardinality(X)
      BY <1>6, <1>10
    <2>2. Cardinality(X) = Cardinality(O \cup U) + Cardinality(N)
      BY <1>6, <1>10
    <2>3. Cardinality(O \cup U) = Cardinality(O) + Cardinality(U)
      BY <1>6, <1>10
    <2> QED BY <2>1, <2>2, <2>3
  <1> QED BY <1>2, <1>7, <1>8, <1>9, <1>11, Sizes DEF Pages!AudienceMatchesSync

(* The dashboard counts whom the directory lists.                           *)
LEMMA DashboardMatches == ASSUME Pages!DirectoryAssumption, Pages!TypeOK PROVE Pages!DashboardMatchesDirectory
  <1>1. ASSUME NEW r
        PROVE  Pages!Selected([Pages!Everyone EXCEPT !.relationship = r])
                 = {p \in Pages!ActiveBusiness : Pages!ByRelationship(p, r)}
    BY DEF Pages!Selected, Pages!Everyone, Pages!Chosen, Pages!InState
  <1>2. {p \in Pages!ActiveBusiness : Pages!ByRelationship(p, {})} = Pages!ActiveBusiness
    BY DEF Pages!ByRelationship
  <1>3. ASSUME NEW m \in {<<"ACTIVE", "ACTIVE_MEMBER">>, <<"NONE", "CONTACT">>, <<"FORMER", "FORMER_MEMBER">>}
        PROVE  {p \in Pages!ActiveBusiness : Pages!ByRelationship(p, {m[2]})}
                 = {p \in Pages!ActiveBusiness : crm[p].member = m[1]}
    BY DEF Pages!ByRelationship
  <1> QED BY <1>1, <1>2, <1>3 DEF Pages!DashboardMatchesDirectory, Pages!Overview

(* A month of a year has one index.                                         *)
LEMMA YearsAndMonths ==
  \A i, j \in Int : i \div 12 = j \div 12 /\ (i % 12) + 1 = (j % 12) + 1 => i = j
  BY Z3

(* So who joined within the window joined in one of its months, and the     *)
(* months up to some month are those before it and that one.                *)
LEMMA GrowthCounts == ASSUME Pages!DirectoryAssumption, Pages!TypeOK PROVE Pages!GrowthCountsEveryone
  <1> DEFINE In(i) == {p \in Pages!Business : crm[p].joined = i}
             UpTo(i) == {p \in Pages!Business : crm[p].joined \in (Today - 5) .. i}
  <1>1. ASSUME NEW i \in Int, NEW j \in Int
        PROVE  Pages!MonthStart(i) = Pages!MonthStart(j) <=> i = j
    BY YearsAndMonths DEF Pages!MonthStart
  <1>2. Today \in Int /\ \A p \in Pages!Business : crm[p].joined \in Int
    BY DEF Pages!DirectoryAssumption, Pages!TypeOK, Pages!Business
  <1>3. ASSUME NEW S \in SUBSET Pages!Business PROVE IsFiniteSet(S) /\ Cardinality(S) \in Nat
    <2>1. S \subseteq Person /\ IsFiniteSet(Person)
      BY Sizes DEF Pages!DirectoryAssumption, Pages!Business
    <2> QED BY <2>1, FS_Subset, FS_CardinalityType
  <1>4. ASSUME NEW back \in 0 .. 5 PROVE Pages!MembersByMonth[Today - back] = Cardinality(In(Today - back))
    <2>1. Today - back \in Pages!Window
      BY <1>2 DEF Pages!Window
    <2>2. {p \in Pages!Business : /\ crm[p].joined \in Pages!Window
                                 /\ Pages!MonthStart(crm[p].joined) = Pages!MonthStart(Today - back)}
            = In(Today - back)
      BY <1>1, <1>2, <2>1
    <2> QED BY <2>1, <2>2, Sizes DEF Pages!MembersByMonth
  <1>5. ASSUME NEW back \in 0 .. 4
        PROVE  Cardinality(UpTo(Today - back))
                 = Cardinality(UpTo(Today - (back + 1))) + Cardinality(In(Today - back))
    <2>1. \A i \in Int : /\ i \in (Today - 5) .. (Today - back) <=>
                             i \in (Today - 5) .. (Today - (back + 1)) \/ i = Today - back
                         /\ Today - back \notin (Today - 5) .. (Today - (back + 1))
      BY <1>2
    <2>2. /\ UpTo(Today - back) = UpTo(Today - (back + 1)) \cup In(Today - back)
          /\ UpTo(Today - (back + 1)) \cap In(Today - back) = {}
      BY <1>2, <2>1
    <2>3. UpTo(Today - (back + 1)) \in SUBSET Pages!Business /\ In(Today - back) \in SUBSET Pages!Business
      OBVIOUS
    <2> HIDE DEF In, UpTo
    <2>4. /\ IsFiniteSet(UpTo(Today - (back + 1))) /\ IsFiniteSet(In(Today - back))
          /\ Cardinality(UpTo(Today - (back + 1))) \in Nat /\ Cardinality(In(Today - back)) \in Nat
      BY <1>3, <2>3
    <2>5. Cardinality(UpTo(Today - back))
            = Cardinality(UpTo(Today - (back + 1))) + Cardinality(In(Today - back)) - Cardinality({})
      BY <2>2, <2>4, FS_Union
    <2> QED BY <2>4, <2>5, FS_EmptySet
  <1>6. UpTo(Today - 5) = In(Today - 5)
    BY <1>2
  <1>7. {p \in Pages!Business : crm[p].joined \in Pages!Window} = UpTo(Today - 0)
    BY <1>2 DEF Pages!Window
  <1>8. \A back \in 0 .. 5 : Cardinality(In(Today - back)) \in Nat
    <2>1. \A back \in 0 .. 5 : In(Today - back) \in SUBSET Pages!Business
      OBVIOUS
    <2> HIDE DEF In
    <2> QED BY <1>3, <2>1
  <1> HIDE DEF In, UpTo
  <1>9. Cardinality(UpTo(Today - 0))
          = Cardinality(In(Today - 5)) + Cardinality(In(Today - 4)) + Cardinality(In(Today - 3))
            + Cardinality(In(Today - 2)) + Cardinality(In(Today - 1)) + Cardinality(In(Today - 0))
    <2>1. /\ Cardinality(UpTo(Today - 0)) = Cardinality(UpTo(Today - 1)) + Cardinality(In(Today - 0))
          /\ Cardinality(UpTo(Today - 1)) = Cardinality(UpTo(Today - 2)) + Cardinality(In(Today - 1))
          /\ Cardinality(UpTo(Today - 2)) = Cardinality(UpTo(Today - 3)) + Cardinality(In(Today - 2))
          /\ Cardinality(UpTo(Today - 3)) = Cardinality(UpTo(Today - 4)) + Cardinality(In(Today - 3))
          /\ Cardinality(UpTo(Today - 4)) = Cardinality(UpTo(Today - 5)) + Cardinality(In(Today - 4))
      <3>1. 0 + 1 = 1 /\ 1 + 1 = 2 /\ 2 + 1 = 3 /\ 3 + 1 = 4 /\ 4 + 1 = 5
        OBVIOUS
      <3> QED BY <1>5, <3>1
    <2> QED BY <1>6, <1>8, <2>1
  <1>10. \A back \in {0, 1, 2, 3, 4, 5} : Pages!MembersByMonth[Today - back] = Cardinality(In(Today - back))
    BY <1>4
  <1> QED BY <1>7, <1>9, <1>10, Sizes DEF Pages!GrowthCountsEveryone

(* Of any People, queries and catalogs: the filters, the audience and the   *)
(* dashboard agree with what is shown of everybody and synchronized.        *)
THEOREM DirectoryReadsAgree ==
  ASSUME Pages!DirectoryAssumption
  PROVE  Pages!Spec => [](/\ Pages!FiltersMatchProjections /\ Pages!AudienceMatchesSync
                          /\ Pages!DashboardMatchesDirectory /\ Pages!GrowthCountsEveryone)
  <1>1. ASSUME Pages!IInv
        PROVE  /\ Pages!FiltersMatchProjections /\ Pages!AudienceMatchesSync
               /\ Pages!DashboardMatchesDirectory /\ Pages!GrowthCountsEveryone
    BY <1>1, FiltersMatch, AudienceMatches, DashboardMatches, GrowthCounts DEF Pages!IInv
  <1> QED BY <1>1, DirectoryInvariance, PTL
=============================================================================
