---------------------------- MODULE PersonIdentity ----------------------------
(***************************************************************************)
(* The writes of the People API (people.views): creating a Contact or a    *)
(* Member, editing, archiving and restoring.  A request that creates or    *)
(* edits first compares the proposed identity with the table and writes    *)
(* only then; another request may commit in between, because rows that do  *)
(* not exist yet cannot be locked and addresses are not unique.            *)
(*                                                                         *)
(* A row has the columns the identity policy reads; every other column is  *)
(* written without looking at anybody else's row.                          *)
(***************************************************************************)
EXTENDS IdentityPolicy

CONSTANTS Actor,       \* staff with write access, each with one request at a time
          Email, Number,
          Style,       \* the ways in which staff write a number
          MaxPeople    \* bound: how many People there ever are

IdentityAssumption ==
  /\ MaxPeople \in Nat \ {0}
  /\ Style \subseteq Written
  /\ None \notin Email \cup Number

VARIABLES people,   \* people[p]: the row of the Person with the id p
          request,  \* request[a]: the transaction a's request has open
          audit,    \* PERSON_CREATED events with their override metadata
          raced     \* history: pairs {p, q} whose signals were written by
                    \* transactions of which neither could see the other

vars == <<people, request, audit, raced>>

PersonId == 1..MaxPeople
Mobile == {NoMobile} \cup [number : Number, written : Style]
Address == Email \cup {None}
Absent == [type |-> "NONE", email |-> None, mobile |-> NoMobile,
           archived |-> FALSE]
Row == [type : {"NONE", "BUSINESS", "TECHNICAL"}, email : Address, mobile : Mobile,
        archived : BOOLEAN]
NoRequest == [op |-> "none", person |-> 0, email |-> None, mobile |-> NoMobile,
              reviewed |-> {}, since |-> {}]
Request == [op : {"none", "create", "patch"}, person : 0..MaxPeople,
            email : Address, mobile : Mobile, reviewed : SUBSET PersonId, since : SUBSET PersonId]

(* There may be a TECHNICAL Person, who has an address and is nobody's      *)
(* duplicate.                                                              *)
Init ==
  /\ people \in {[p \in PersonId |-> IF p = 1 THEN first ELSE Absent] :
                   first \in {Absent} \cup
                     {[Absent EXCEPT !.type = "TECHNICAL", !.email = e] : e \in Email}}
  /\ request = [a \in Actor |-> NoRequest]
  /\ audit = {}
  /\ raced = {}

-----------------------------------------------------------------------------
Idle(a) == request[a].op = "none"

(* PATCH, archive and restore lock the Person's row.                        *)
Unlocked(p) == \A a \in Actor : request[a].person # p

(* The evidence a client sends with an override, from a 409 answer it was   *)
(* given now, earlier or to somebody else: a collision of existing People.  *)
Reviewable == [collision : CollisionKind \ {"NO_BLOCKING"},
               people : SUBSET Business(people) \ {{}}]

(* matches_reviewed_evidence                                                *)
MayOverride(reviewed, evidence) == reviewed = evidence

(* POST of a Contact or a Member, up to the comparison: no collision, or    *)
(* one that was reviewed as it is now.  Otherwise the request is refused.   *)
CheckCreate(a) ==
  /\ Idle(a)
  /\ \E e \in Address, m \in Mobile :
       LET evidence == Evidence(people, e, m)
           Accept(ids) == request' = [request EXCEPT ![a] =
             [op |-> "create", person |-> 0, email |-> e, mobile |-> m, reviewed |-> ids, since |-> {}]]
       IN \/ ~RequiresReview(evidence) /\ Accept({})
          \/ \E reviewed \in Reviewable : MayOverride(reviewed, evidence) /\ Accept(reviewed.people)
  /\ UNCHANGED <<people, audit, raced>>

(* Everybody whose check is done and whose write is not has not seen p.     *)
Missed(a, p, req) == [b \in Actor |->
  IF b # a /\ req[b].op # "none" THEN [req[b] EXCEPT !.since = @ \cup {p}] ELSE req[b]]

Commit(a, p) ==
  /\ request' = Missed(a, p, [request EXCEPT ![a] = NoRequest])
  /\ raced' = raced \cup {{p, q} : q \in request[a].since \ {p}}

(* The rest of the creation: the row and the audit event, for a Member also *)
(* the Membership and its event, in the transaction of the comparison.     *)
Create(a) ==
  /\ request[a].op = "create"
  /\ \E p \in PersonId :
       /\ people[p].type = "NONE" /\ \A q \in 1..(p - 1) : people[q].type # "NONE"
       /\ people' = [people EXCEPT ![p] =
            [type |-> "BUSINESS", email |-> request[a].email, mobile |-> request[a].mobile,
             archived |-> FALSE]]
       /\ audit' = audit \cup {[person |-> p, override |-> request[a].reviewed]}
       /\ Commit(a, p)

(* PATCH, up to the comparison: the Person is locked, must be a BUSINESS    *)
(* Person that is not archived, and something must change.  There is no     *)
(* override.  The comparison happens only if the address or the number      *)
(* does change, and then with both as they will be.                        *)
CheckPatch(a) ==
  /\ Idle(a)
  /\ \E p \in Business(people), e \in Address, m \in Mobile :
       /\ Unlocked(p) /\ ~people[p].archived
       /\ <<e, m>> # <<people[p].email, people[p].mobile>>
       /\ DuplicatePeople(people, e, m, p) = {}
       /\ request' = [request EXCEPT ![a] = [op |-> "patch", person |-> p, email |-> e,
                        mobile |-> m, reviewed |-> {}, since |-> {}]]
  /\ UNCHANGED <<people, audit, raced>>

SavePatch(a) ==
  /\ request[a].op = "patch"
  /\ LET p == request[a].person IN
       /\ people' = [people EXCEPT ![p].email = request[a].email, ![p].mobile = request[a].mobile]
       /\ Commit(a, p)
  /\ UNCHANGED audit

(* A validation error, an audit event that cannot be written or the loss of *)
(* the database connection rolls the transaction back.                     *)
Rollback(a) ==
  /\ ~Idle(a)
  /\ request' = [request EXCEPT ![a] = NoRequest]
  /\ UNCHANGED <<people, audit, raced>>

Archive(p) ==
  /\ people[p].type = "BUSINESS" /\ Unlocked(p) /\ ~people[p].archived
  /\ people' = [people EXCEPT ![p].archived = TRUE]
  /\ UNCHANGED <<request, audit, raced>>

Restore(p) ==
  /\ people[p].type = "BUSINESS" /\ Unlocked(p) /\ people[p].archived
  /\ people' = [people EXCEPT ![p].archived = FALSE]
  /\ UNCHANGED <<request, audit, raced>>

Next == \/ \E a \in Actor : \/ CheckCreate(a) \/ Create(a) \/ CheckPatch(a)
                            \/ SavePatch(a) \/ Rollback(a)
        \/ \E p \in PersonId : Archive(p) \/ Restore(p)

Spec == Init /\ [][Next]_vars

-----------------------------------------------------------------------------
(* Types; who is being edited exists, and is nobody else's.                 *)
TypeOK ==
  /\ people \in [PersonId -> Row]
  /\ request \in [Actor -> Request]
  /\ audit \subseteq [person : PersonId, override : SUBSET PersonId]
  /\ raced \subseteq SUBSET PersonId
  /\ \A a \in Actor : request[a].op = "patch" <=> request[a].person # 0
  /\ \A a \in Actor : request[a].op = "patch" =>
       /\ request[a].person \in Business(people)
       /\ \A b \in Actor \ {a} : request[b].person # request[a].person

Alike(p, q) == \/ SameEmail(people[p].email, people[q].email)
               \/ SameMobile(people[p].mobile, people[q].mobile)

Duplicates == {pair \in Business(people) \X Business(people) :
  pair[1] # pair[2] /\ Alike(pair[1], pair[2])}

(* Two People with one address or one number are accounted for, whatever    *)
(* they were created as, edited to, archived and restored since: an audit   *)
(* event of one of them names the other as reviewed, or the transactions    *)
(* that wrote them ran at the same time.  The race is the one the API       *)
(* documents; the invariant says that there is no other way.               *)
DuplicatesAreExplained ==
  \A pair \in Duplicates :
     \/ \E event \in audit : event.person \in {pair[1], pair[2]}
                             /\ {pair[1], pair[2]} \ {event.person} \subseteq event.override
     \/ {pair[1], pair[2]} \in raced

(* The signals of an archived Person stand still until it is restored, also *)
(* while an edit that was begun before the archive is under way.            *)
ArchivedStandsStill ==
  [][\A p \in PersonId : people[p].archived =>
       /\ people'[p].email = people[p].email
       /\ people'[p].mobile = people[p].mobile]_vars

(* What the two rest on.  Whoever matches what an open request is going to  *)
(* write was reviewed or has been written since the comparison.             *)
CheckedEverybody == \A a \in Actor : request[a].op # "none" =>
  DuplicatePeople(people, request[a].email, request[a].mobile, request[a].person)
    \subseteq request[a].reviewed \cup request[a].since

(* An edit reviews nobody, and its Person is not archived under it; who     *)
(* does not exist is not archived.                                          *)
EditsAreCurrent == \A a \in Actor : request[a].op = "patch" =>
  request[a].reviewed = {} /\ ~people[request[a].person].archived
OnlyPeopleAreArchived == \A p \in PersonId : people[p].type = "NONE" => ~people[p].archived

(* The inductive invariant.                                                 *)
IInv == /\ TypeOK /\ CheckedEverybody /\ EditsAreCurrent /\ OnlyPeopleAreArchived
        /\ DuplicatesAreExplained
=============================================================================
