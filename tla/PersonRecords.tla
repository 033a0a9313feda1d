---------------------------- MODULE PersonRecords ----------------------------
(***************************************************************************)
(* memberships, notes, tags, skills, interests, professional_profiles and  *)
(* audit: the records a Person has, and the requests that change them.     *)
(* Every such request validates its body, locks the Person, refuses if the *)
(* Person is archived, reads the record, writes it and its audit event,    *)
(* and commits.  Archiving and restoring the Person takes the same lock.   *)
(*                                                                         *)
(* A record is named by its Person and kind: one membership, one profile,  *)
(* one assignment of a given tag, skill or interest, one note, and the     *)
(* Person row itself.  It is "none", "on" (ACTIVE, assigned, not archived) *)
(* or "off" (FORMER, removed, archived).  Of its texts two fields are      *)
(* kept; a note has one.  The Django admin site is left out.               *)
(***************************************************************************)
CONSTANTS Person,   \* BUSINESS People
          Kind,     \* the kinds of records that requests change
          Value,    \* texts of a field
          Client    \* requests that can run at the same time

Kinds == {"person", "membership", "note", "tag", "skill", "interest", "profile"}
Blank == "blank"

ASSUME RecordsAssumption == Kind \subseteq Kinds /\ "person" \in Kind /\ Blank \notin Value

Record == Person \X Kinds
Field == {"f", "g"}
Content == [Field -> Value \cup {Blank}]
Empty == [f \in Field |-> Blank]
NoRequest == <<>>

VARIABLES active,   \* tag, skill, interest: is its definition active?
          state,    \* record: "none", "on", "off"
          content,  \* record: its fields
          audit,    \* record: its last AuditEvent
          request   \* client: the request it runs

vars == <<active, state, content, audit, request>>

(* A handler changes one record from one state to another and names the     *)
(* event.  Below, one of them for every request.                            *)
Move(op, kind, from, to, event) == [op |-> op, kind |-> kind, from |-> from, to |-> to, event |-> event]

EditPerson    == Move("edit", "person", "on", "on", "PERSON_UPDATED")
ArchivePerson == Move("archive", "person", "on", "off", "PERSON_ARCHIVED")
RestorePerson == Move("restore", "person", "off", "on", "PERSON_RESTORED")

MakeMember    == Move("make", "membership", "none", "on", "MEMBERSHIP_CREATED")
EndMembership == Move("end", "membership", "on", "off", "MEMBERSHIP_ENDED")

CreateNote  == Move("create", "note", "none", "on", "NOTE_CREATED")
EditNote    == Move("edit", "note", "on", "on", "NOTE_UPDATED")
ArchiveNote == Move("archive", "note", "on", "off", "NOTE_ARCHIVED")
RestoreNote == Move("restore", "note", "off", "on", "NOTE_RESTORED")

(* A removed tag keeps its row, which a new assignment reactivates.         *)
AssignTag == {Move("assign", "tag", "none", "on", "TAG_ASSIGNED"),
              Move("assign", "tag", "off", "on", "TAG_REACTIVATED")}
RemoveTag == Move("remove", "tag", "on", "off", "TAG_REMOVED")

(* The row of a removed skill or interest is deleted.                       *)
AssignSkill == Move("assign", "skill", "none", "on", "SKILL_ASSIGNED")
RemoveSkill == Move("remove", "skill", "on", "none", "SKILL_REMOVED")

AssignInterest == Move("assign", "interest", "none", "on", "INTEREST_ASSIGNED")
RemoveInterest == Move("remove", "interest", "on", "none", "INTEREST_REMOVED")

CreateProfile == Move("create", "profile", "none", "on", "PROFESSIONAL_PROFILE_CREATED")
EditProfile   == Move("edit", "profile", "on", "on", "PROFESSIONAL_PROFILE_UPDATED")

Moves ==
  {m \in {EditPerson, ArchivePerson, RestorePerson, MakeMember, EndMembership,
          CreateNote, EditNote, ArchiveNote, RestoreNote, RemoveTag, AssignSkill, RemoveSkill,
          AssignInterest, RemoveInterest, CreateProfile, EditProfile} \cup AssignTag : m.kind \in Kind}

(* What record_audit_event keeps: the event, what it says the record was    *)
(* and has become and, where the event carries values, the fields before    *)
(* and after.                                                               *)
Event == [action : {m.event : m \in Moves} \cup {"NONE", "PERSON_CREATED"},
          from : {"none", "on", "off"}, to : {"none", "on", "off"}, before : Content, fields : Content]

Init ==
  /\ active = [k \in {"tag", "skill", "interest"} |-> TRUE]
  /\ state = [r \in Record |-> IF r[2] = "person" THEN "on" ELSE "none"]
  /\ content = [r \in Record |-> Empty]
  /\ audit = [r \in Record |-> [action |-> IF r[2] = "person" THEN "PERSON_CREATED" ELSE "NONE",
                                from |-> "none", to |-> state[r], before |-> Empty, fields |-> Empty]]
  /\ request = [c \in Client |-> NoRequest]

-----------------------------------------------------------------------------
Archived(p) == state[<<p, "person">>] = "off"
Locked(p) == \E c \in Client : request[c] # NoRequest /\ request[c].locked /\ request[c].record[1] = p
Offered(kind) == kind \in DOMAIN active => active[kind]

(* The fields a body may set: a note has a body, a profile and a Person any *)
(* of theirs, the others have none.                                         *)
Bodies(m) ==
  IF m.op \notin {"create", "edit"} THEN {<<>>}
  ELSE IF m.kind = "note" THEN [{"f"} -> Value]
  ELSE UNION {[F -> Value] : F \in (SUBSET Field) \ {{}}}

(* A request, with the record as it saw it once it had the lock.            *)
Request == [record : Record, move : Moves, body : UNION {Bodies(m) : m \in Moves},
            locked : BOOLEAN, seen : Content]

(* Serializers look a skill or an interest up, and may refuse it, before    *)
(* the transaction starts.  "seen" is what the request read of the record.  *)
Receive(c) ==
  /\ request[c] = NoRequest
  /\ \E m \in Moves, p \in Person : \E body \in Bodies(m) :
       /\ m.op = "assign" /\ m.kind # "tag" => Offered(m.kind)
       /\ request' = [request EXCEPT ![c] =
            [record |-> <<p, m.kind>>, move |-> m, body |-> body, locked |-> FALSE, seen |-> Empty]]
  /\ UNCHANGED <<active, state, content, audit>>

(* Mutation of Accepted: what has already ended may be ended again.         *)
AcceptedTwice(q) ==
  /\ q.move \in {ArchivePerson, RestorePerson} \/ ~Archived(q.record[1])
  /\ state[q.record] \in {q.move.from, q.move.to}
  /\ q.move \in AssignTag => Offered("tag")

(* Whether the request goes on once it has the lock.                        *)
Accepted(q) ==
  /\ q.move \in {ArchivePerson, RestorePerson} \/ ~Archived(q.record[1])
  /\ state[q.record] = q.move.from
  /\ q.move \in AssignTag => Offered("tag")

(* With the lock the record is read; a conflict ends the request.           *)
Entered(q) ==
  IF Accepted(q) THEN [q EXCEPT !.locked = TRUE, !.seen = content[q.record]] ELSE NoRequest

(* Mutation of Lock: the Person is read without FOR UPDATE.                 *)
LockNothing(c) ==
  /\ request[c] # NoRequest /\ ~request[c].locked
  /\ request' = [request EXCEPT ![c] = Entered(request[c])]
  /\ UNCHANGED <<active, state, content, audit>>

(* Person FOR UPDATE, which all of them take first.                         *)
Lock(c) ==
  /\ request[c] # NoRequest /\ ~request[c].locked
  /\ ~Locked(request[c].record[1])
  /\ request' = [request EXCEPT ![c] = Entered(request[c])]
  /\ UNCHANGED <<active, state, content, audit>>

(* The record with the fields of the body set.                              *)
Edited(q) == [f \in Field |-> IF f \in DOMAIN q.body THEN q.body[f] ELSE q.seen[f]]

Written(q) == IF q.move.to = "none" THEN Empty ELSE Edited(q)

(* An edit that changes nothing is not audited; a note's text never is.     *)
Silent(q) == q.move.op = "edit" /\ Edited(q) = q.seen
Shown(q, fields) == IF q.record[2] = "note" THEN Empty ELSE fields

AuditEvent(q) ==
  [action |-> q.move.event, from |-> q.move.from, to |-> q.move.to,
   before |-> Shown(q, q.seen), fields |-> Shown(q, Written(q))]

(* Mutation of Audited: what ends a record is not audited.                  *)
AuditedEdits(q) == IF Silent(q) \/ q.move.to # "on" THEN audit[q.record] ELSE AuditEvent(q)

Audited(q) == IF Silent(q) THEN audit[q.record] ELSE AuditEvent(q)

(* The record and its audit event are committed together.                   *)
Write(c) ==
  LET q == request[c]
  IN  /\ q # NoRequest /\ q.locked
      /\ state' = [state EXCEPT ![q.record] = q.move.to]
      /\ content' = [content EXCEPT ![q.record] = Written(q)]
      /\ audit' = [audit EXCEPT ![q.record] = Audited(q)]
      /\ request' = [request EXCEPT ![c] = NoRequest]
      /\ UNCHANGED active

(* A tag, a skill or an interest is withdrawn or offered again.             *)
SetActive(kind) ==
  /\ active' = [active EXCEPT ![kind] = ~@]
  /\ UNCHANGED <<state, content, audit, request>>

Next ==
  \/ \E c \in Client : Receive(c) \/ Lock(c) \/ Write(c)
  \/ \E kind \in DOMAIN active \cap Kind : SetActive(kind)

Spec == Init /\ [][Next]_vars

-----------------------------------------------------------------------------
TypeOK ==
  /\ active \in [{"tag", "skill", "interest"} -> BOOLEAN]
  /\ state \in [Record -> {"none", "on", "off"}]
  /\ content \in [Record -> Content]
  /\ audit \in [Record -> Event]
  /\ request \in [Client -> {NoRequest} \cup Request]

(* While a Person is archived, none of its records changes, whatever        *)
(* request was already under way when it was archived.                      *)
ArchivedIsFrozen ==
  [][\A p \in Person : Archived(p) /\ Archived(p)' =>
       \A k \in Kinds : UNCHANGED <<state[<<p, k>>], content[<<p, k>>]>>]_vars

(* The last audit event of a record says what state it is in and, where     *)
(* events carry values, what its fields hold.                               *)
LastEventTellsState ==
  \A r \in Record : audit[r].to = state[r] /\ (r[2] # "note" => audit[r].fields = content[r])

(* The history of a record is a chain: each event starts from the state and *)
(* the fields that the event before it has left.  Two requests never make   *)
(* the same change, and no edit undoes one it has not seen.                 *)
HistoryIsChain ==
  [][\A r \in Record : audit'[r] # audit[r] =>
       audit'[r].from = audit[r].to /\ audit'[r].before = audit[r].fields]_vars

-----------------------------------------------------------------------------
(* What a request asks for is one of the moves of its record.               *)
RequestsAreMoves ==
  \A c \in Client : request[c] # NoRequest =>
    request[c].record[2] = request[c].move.kind /\ request[c].body \in Bodies(request[c].move)

(* The lock of a Person is held by one request.                             *)
OneLock ==
  \A c, d \in Client :
    /\ request[c] # NoRequest /\ request[c].locked
    /\ request[d] # NoRequest /\ request[d].locked
    /\ request[c].record[1] = request[d].record[1]
    => c = d

(* What a request has read under the lock is still so.                      *)
LockedIsCurrent ==
  \A c \in Client : request[c] # NoRequest /\ request[c].locked =>
    LET q == request[c]
    IN  /\ q.move \in {ArchivePerson, RestorePerson} \/ ~Archived(q.record[1])
        /\ state[q.record] = q.move.from /\ content[q.record] = q.seen

(* The text of a note is in no event.                                       *)
NotesAreSilent == \A r \in Record : r[2] = "note" => audit[r].fields = Empty

(* The inductive invariant.                                                 *)
IInv ==
  /\ TypeOK /\ LastEventTellsState
  /\ RequestsAreMoves /\ OneLock /\ LockedIsCurrent /\ NotesAreSilent
=============================================================================
