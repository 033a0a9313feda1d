------------------------- MODULE PersonRecordsProofs -------------------------
(***************************************************************************)
(* Proofs about PersonRecords, for every set of People, clients, texts and *)
(* kinds of records: the lock of the Person makes every request see what   *)
(* it changes, so the audit trail is a chain that ends in the present, and *)
(* nothing of an archived Person changes.  After them, of AuditHistory:    *)
(* what reading the trail page by page can miss.                           *)
(***************************************************************************)
EXTENDS MCPeople, FiniteSetTheorems, TLAPS

(* What all the handlers have in common.                                    *)
LEMMA MoveShape ==
  ASSUME NEW m \in Moves
  PROVE  /\ m.kind \in Kinds
         /\ m.from \in {"none", "on", "off"} /\ m.to \in {"none", "on", "off"}
         /\ m.op = "edit" => m.from = m.to /\ m.to = "on"
         /\ m \in {ArchivePerson, RestorePerson} => m.kind = "person"
  BY DEF Moves, Move, EditPerson, ArchivePerson, RestorePerson, MakeMember, EndMembership, CreateNote,
         EditNote, ArchiveNote, RestoreNote, AssignTag, RemoveTag, AssignSkill, RemoveSkill,
         AssignInterest, RemoveInterest, CreateProfile, EditProfile, Kinds

(* A body sets texts.                                                       *)
LEMMA BodyTexts ==
  ASSUME NEW m, NEW body \in Bodies(m), NEW f \in Field, f \in DOMAIN body
  PROVE  body[f] \in Value
  <1>1. CASE body = <<>>
    BY <1>1
  <1>2. CASE body \in [{"f"} -> Value]
    BY <1>2
  <1>3. CASE body \in UNION {[F -> Value] : F \in (SUBSET Field) \ {{}}}
    BY <1>3
  <1> QED BY <1>1, <1>2, <1>3 DEF Bodies

(* What a write makes of the record.                                        *)
LEMMA WrittenType ==
  ASSUME NEW q \in Request, q.body \in Bodies(q.move)
  PROVE  /\ Edited(q) \in Content /\ Written(q) \in Content /\ Empty \in Content
         /\ Shown(q, q.seen) \in Content /\ Shown(q, Written(q)) \in Content
  <1>1. q.seen \in Content
    BY DEF Request
  <1>2. ASSUME NEW f \in Field PROVE (IF f \in DOMAIN q.body THEN q.body[f] ELSE q.seen[f]) \in Value \cup {Blank}
    BY <1>1, BodyTexts DEF Content
  <1>3. Edited(q) \in Content
    BY <1>2 DEF Edited, Content
  <1>4. Empty \in Content
    BY DEF Empty, Content
  <1> QED BY <1>1, <1>3, <1>4 DEF Written, Shown

(* The state and the fields an event says the record has after it.          *)
LEMMA EventShape ==
  ASSUME NEW q \in Request, q.body \in Bodies(q.move)
  PROVE  /\ AuditEvent(q) \in Event
         /\ AuditEvent(q).from = q.move.from /\ AuditEvent(q).to = q.move.to
         /\ AuditEvent(q).before = Shown(q, q.seen)
         /\ AuditEvent(q).fields = Shown(q, Written(q))
  <1>1. q.move \in Moves
    BY DEF Request
  <1>2. AuditEvent(q) \in Event
    BY <1>1, MoveShape, WrittenType DEF AuditEvent, Event
  <1> QED BY <1>2 DEF AuditEvent

-----------------------------------------------------------------------------
(* At first nothing is recorded and nobody asks.                            *)
THEOREM InitInv == Init => IInv
  <1> SUFFICES ASSUME Init PROVE IInv
    OBVIOUS
  <1> USE DEF Init
  <1>1. Empty \in Content
    BY DEF Empty, Content
  <1>2. audit \in [Record -> Event]
    <2>1. ASSUME NEW r \in Record
          PROVE  [action |-> IF r[2] = "person" THEN "PERSON_CREATED" ELSE "NONE", from |-> "none",
                  to |-> state[r], before |-> Empty, fields |-> Empty] \in Event
      BY <1>1 DEF Event
    <2> QED BY <2>1
  <1>3. TypeOK
    BY <1>1, <1>2 DEF TypeOK
  <1>4. LastEventTellsState /\ NotesAreSilent
    BY DEF LastEventTellsState, NotesAreSilent
  <1>5. RequestsAreMoves /\ OneLock /\ LockedIsCurrent
    BY DEF RequestsAreMoves, OneLock, LockedIsCurrent
  <1> QED BY <1>3, <1>4, <1>5 DEF IInv

(* A request is received with what the client wants; it has read nothing    *)
(* yet.                                                                     *)
LEMMA ReceiveKeeps ==
  ASSUME IInv, NEW c \in Client, Receive(c)
  PROVE  IInv'
  <1> USE DEF IInv
  <1>1. PICK m \in Moves, p \in Person : \E body \in Bodies(m) :
          request' = [request EXCEPT ![c] =
            [record |-> <<p, m.kind>>, move |-> m, body |-> body, locked |-> FALSE, seen |-> Empty]]
    BY DEF Receive
  <1>2. PICK body \in Bodies(m) :
          request' = [request EXCEPT ![c] =
            [record |-> <<p, m.kind>>, move |-> m, body |-> body, locked |-> FALSE, seen |-> Empty]]
    BY <1>1
  <1> DEFINE q == [record |-> <<p, m.kind>>, move |-> m, body |-> body, locked |-> FALSE, seen |-> Empty]
  <1>3. q \in Request /\ q.record[2] = q.move.kind /\ q.body \in Bodies(q.move) /\ ~q.locked
    BY MoveShape DEF Request, Record, Empty, Content
  <1>4. UNCHANGED <<active, state, content, audit>>
    BY DEF Receive
  <1>5. \A d \in Client : request'[d] = IF d = c THEN q ELSE request[d]
    BY <1>2 DEF TypeOK
  <1> HIDE DEF q
  <1>6. request' \in [Client -> {NoRequest} \cup Request]
    BY <1>2, <1>3 DEF TypeOK, q
  <1>7. TypeOK' /\ LastEventTellsState' /\ NotesAreSilent'
    BY <1>4, <1>6 DEF TypeOK, LastEventTellsState, NotesAreSilent
  <1>8. RequestsAreMoves' /\ OneLock'
    BY <1>3, <1>5 DEF RequestsAreMoves, OneLock
  <1>9. LockedIsCurrent'
    BY <1>3, <1>4, <1>5 DEF LockedIsCurrent, Archived
  <1> QED BY <1>7, <1>8, <1>9

(* select_for_update: who gets the lock reads the row as it is now.         *)
LEMMA LockKeeps ==
  ASSUME IInv, NEW c \in Client, Lock(c)
  PROVE  IInv'
  <1> USE DEF IInv
  <1> DEFINE q == Entered(request[c])
  <1>1. /\ request[c] # NoRequest /\ ~request[c].locked /\ ~Locked(request[c].record[1])
        /\ request' = [request EXCEPT ![c] = q]
        /\ UNCHANGED <<active, state, content, audit>>
    BY DEF Lock
  <1>2. request[c] \in Request
    BY <1>1 DEF TypeOK
  <1>3. \/ q = NoRequest
        \/ /\ q \in Request /\ q.record = request[c].record /\ q.move = request[c].move
           /\ q.body = request[c].body /\ q.locked /\ q.seen = content[q.record]
           /\ Accepted(request[c])
    BY <1>2 DEF Entered, TypeOK, Request
  <1>4. \A d \in Client : request'[d] = IF d = c THEN q ELSE request[d]
    BY <1>1 DEF TypeOK
  <1>5. request' \in [Client -> {NoRequest} \cup Request]
    BY <1>1, <1>3 DEF TypeOK
  <1> HIDE DEF q
  <1>6. TypeOK' /\ LastEventTellsState' /\ NotesAreSilent'
    BY <1>1, <1>5 DEF TypeOK, LastEventTellsState, NotesAreSilent
  <1>7. RequestsAreMoves'
    BY <1>1, <1>3, <1>4 DEF RequestsAreMoves
  <1>8. OneLock'
    BY <1>1, <1>3, <1>4 DEF OneLock, Locked
  <1>9. LockedIsCurrent'
    BY <1>1, <1>3, <1>4 DEF LockedIsCurrent, Archived, Accepted
  <1> QED BY <1>6, <1>7, <1>8, <1>9

(* Two requests that hold locks are about different People.                 *)
LEMMA WriteKeeps ==
  ASSUME IInv, NEW c \in Client, Write(c)
  PROVE  IInv'
  <1> USE DEF IInv
  <1> DEFINE q == request[c]
  <1>1. /\ q # NoRequest /\ q.locked
        /\ state' = [state EXCEPT ![q.record] = q.move.to]
        /\ content' = [content EXCEPT ![q.record] = Written(q)]
        /\ audit' = [audit EXCEPT ![q.record] = Audited(q)]
        /\ request' = [request EXCEPT ![c] = NoRequest]
        /\ active' = active
    BY DEF Write
  <1>2. q \in Request /\ q.body \in Bodies(q.move) /\ q.record[2] = q.move.kind
    BY <1>1 DEF TypeOK, RequestsAreMoves
  <1>3. /\ q.record \in Record /\ q.move \in Moves
        /\ state[q.record] = q.move.from /\ content[q.record] = q.seen
    BY <1>1, <1>2 DEF Request, LockedIsCurrent
  <1> HIDE DEF q
  <1>4. Audited(q) \in Event
    BY <1>2, <1>3, EventShape DEF Audited, TypeOK
  <1>5. TypeOK'
    BY <1>1, <1>2, <1>3, <1>4, MoveShape, WrittenType DEF TypeOK
  <1>6. Audited(q).to = q.move.to /\ (q.record[2] # "note" => Audited(q).fields = Written(q))
    <2>1. CASE Silent(q)
      BY <2>1, <1>3, MoveShape DEF Silent, Audited, LastEventTellsState, Written
    <2>2. CASE ~Silent(q)
      BY <2>2, <1>2, EventShape DEF Audited, Shown
    <2> QED BY <2>1, <2>2
  <1>7. LastEventTellsState'
    BY <1>1, <1>3, <1>6 DEF LastEventTellsState, TypeOK
  <1>8. q.record[2] = "note" => Audited(q).fields = Empty
    BY <1>2, <1>3, EventShape DEF Audited, Shown, NotesAreSilent
  <1>9. NotesAreSilent'
    BY <1>1, <1>3, <1>8 DEF NotesAreSilent, TypeOK
  <1>10. \A d \in Client : request'[d] = IF d = c THEN NoRequest ELSE request[d]
    BY <1>1 DEF TypeOK
  <1>11. RequestsAreMoves' /\ OneLock'
    BY <1>10 DEF RequestsAreMoves, OneLock
  <1>12. LockedIsCurrent'
    <2> SUFFICES ASSUME NEW d \in Client, request'[d] # NoRequest, request'[d].locked
                 PROVE  LET e == request'[d]
                        IN  /\ e.move \in {ArchivePerson, RestorePerson} \/ state'[<<e.record[1], "person">>] # "off"
                            /\ state'[e.record] = e.move.from /\ content'[e.record] = e.seen
      BY DEF LockedIsCurrent, Archived
    <2> DEFINE e == request[d]
    <2>1. d # c /\ request'[d] = e /\ e # NoRequest /\ e.locked
      BY <1>10
    <2>2. e \in Request /\ e.record \in Record
      BY <2>1 DEF TypeOK, Request
    <2>3. e.record[1] # q.record[1]
      BY <1>1, <2>1 DEF OneLock, q
    <2>4. /\ e.move \in {ArchivePerson, RestorePerson} \/ state[<<e.record[1], "person">>] # "off"
          /\ state[e.record] = e.move.from /\ content[e.record] = e.seen
      BY <2>1 DEF LockedIsCurrent, Archived
    <2> HIDE DEF e
    <2>5. e.record # q.record /\ <<e.record[1], "person">> # q.record
      BY <2>3
    <2>6. state'[e.record] = state[e.record] /\ content'[e.record] = content[e.record]
      BY <1>1, <2>2, <2>5 DEF TypeOK
    <2>7. <<e.record[1], "person">> \in Record
      BY <2>2 DEF Record, Kinds
    <2>8. state'[<<e.record[1], "person">>] = state[<<e.record[1], "person">>]
      BY <1>1, <2>5, <2>7 DEF TypeOK
    <2> QED BY <2>1, <2>4, <2>6, <2>8
  <1> QED BY <1>5, <1>7, <1>9, <1>11, <1>12

(* Each step of a request keeps the invariant.                              *)
THEOREM NextInv == IInv /\ [Next]_vars => IInv'
  <1> SUFFICES ASSUME IInv, [Next]_vars PROVE IInv'
    OBVIOUS
  <1>1. ASSUME NEW c \in Client, Receive(c) PROVE IInv'
    BY <1>1, ReceiveKeeps
  <1>2. ASSUME NEW c \in Client, Lock(c) PROVE IInv'
    BY <1>2, LockKeeps
  <1>3. ASSUME NEW c \in Client, Write(c) PROVE IInv'
    BY <1>3, WriteKeeps
  <1>4. ASSUME NEW kind \in DOMAIN active \cap Kind, SetActive(kind) PROVE IInv'
    BY <1>4 DEF SetActive, IInv, TypeOK, LastEventTellsState, RequestsAreMoves, OneLock,
                LockedIsCurrent, Archived, NotesAreSilent
  <1>5. CASE UNCHANGED vars
    BY <1>5 DEF vars, IInv, TypeOK, LastEventTellsState, RequestsAreMoves, OneLock,
                LockedIsCurrent, Archived, NotesAreSilent
  <1> QED BY <1>1, <1>2, <1>3, <1>4, <1>5 DEF Next

(* The invariant holds.                                                     *)
THEOREM Invariance == Spec => []IInv
  BY InitInv, NextInv, PTL DEF Spec

(* The last audit event of every record tells the truth: what events say    *)
(* the record became is what it is.                                         *)
THEOREM EventsTellState == Spec => []LastEventTellsState
  BY Invariance, PTL DEF IInv

-----------------------------------------------------------------------------
(* An event that a write adds starts from what the event before it left.    *)
LEMMA WriteContinues ==
  ASSUME IInv, NEW c \in Client, Write(c), NEW r \in Record, audit'[r] # audit[r]
  PROVE  audit'[r].from = audit[r].to /\ audit'[r].before = audit[r].fields
  <1> DEFINE q == request[c]
  <1>1. /\ q # NoRequest /\ q.locked
        /\ audit' = [audit EXCEPT ![q.record] = Audited(q)]
    BY DEF Write
  <1>2. q \in Request /\ q.body \in Bodies(q.move)
    BY <1>1 DEF IInv, TypeOK, RequestsAreMoves
  <1>3. q.record \in Record /\ state[q.record] = q.move.from /\ content[q.record] = q.seen
    BY <1>1, <1>2 DEF Request, IInv, LockedIsCurrent
  <1> HIDE DEF q
  <1>4. r = q.record /\ audit'[r] = Audited(q)
    BY <1>1, <1>3 DEF IInv, TypeOK
  <1>5. audit'[r] = AuditEvent(q)
    BY <1>4 DEF Audited
  <1>6. audit[r].to = state[r] /\ Shown(q, q.seen) = audit[r].fields
    BY <1>3, <1>4 DEF IInv, LastEventTellsState, NotesAreSilent, Shown
  <1> QED BY <1>2, <1>3, <1>4, <1>5, <1>6, EventShape

(* The events of a record are a chain: no request made its change from a    *)
(* state, or from fields, that another had already changed.                 *)
THEOREM EventsAreAChain == Spec => HistoryIsChain
  <1>1. ASSUME IInv, [Next]_vars, NEW r \in Record, audit'[r] # audit[r]
        PROVE  audit'[r].from = audit[r].to /\ audit'[r].before = audit[r].fields
    <2>1. PICK c \in Client : Write(c)
      BY <1>1 DEF Next, Receive, Lock, SetActive, vars
    <2> QED BY <1>1, <2>1, WriteContinues
  <1>2. IInv /\ [Next]_vars =>
          [\A r \in Record : audit'[r] # audit[r] =>
             audit'[r].from = audit[r].to /\ audit'[r].before = audit[r].fields]_vars
    BY <1>1
  <1> QED BY <1>2, Invariance, PTL DEF Spec, HistoryIsChain

(* A write of an archived Person's record would be the end of the archiving *)
(* or of its absence.                                                       *)
LEMMA WriteSparesArchived ==
  ASSUME IInv, NEW c \in Client, Write(c), NEW p \in Person, NEW k \in Kinds,
         state[<<p, "person">>] = "off", state'[<<p, "person">>] = "off"
  PROVE  state'[<<p, k>>] = state[<<p, k>>] /\ content'[<<p, k>>] = content[<<p, k>>]
  <1> DEFINE q == request[c]
  <1>1. /\ q # NoRequest /\ q.locked
        /\ state' = [state EXCEPT ![q.record] = q.move.to]
        /\ content' = [content EXCEPT ![q.record] = Written(q)]
    BY DEF Write
  <1>2. q \in Request /\ q.record[2] = q.move.kind
    BY <1>1 DEF IInv, TypeOK, RequestsAreMoves
  <1>3. /\ q.record \in Record /\ q.move \in Moves /\ state[q.record] = q.move.from
        /\ q.move \in {ArchivePerson, RestorePerson} \/ state[<<q.record[1], "person">>] # "off"
    BY <1>1, <1>2 DEF Request, IInv, LockedIsCurrent, Archived
  <1> HIDE DEF q
  <1>4. q.record[1] # p
    <2> SUFFICES ASSUME q.record[1] = p PROVE FALSE
      OBVIOUS
    <2>1. q.move \in {ArchivePerson, RestorePerson}
      BY <1>3
    <2>2. q.record = <<p, "person">>
      BY <1>2, <1>3, <2>1, MoveShape DEF Record
    <2>3. q.move.from = "off" /\ q.move.to = "off"
      BY <1>1, <1>3, <2>2 DEF IInv, TypeOK
    <2> QED BY <2>1, <2>3 DEF ArchivePerson, RestorePerson, Move
  <1>5. q.record # <<p, k>> /\ <<p, k>> \in Record
    BY <1>4 DEF Record
  <1> QED BY <1>1, <1>5 DEF IInv, TypeOK

(* Nothing of an archived Person changes: a request that was waiting for    *)
(* the lock when the Person was archived is refused, and one that had it    *)
(* has ended before.                                                        *)
THEOREM NothingArchivedChanges == Spec => ArchivedIsFrozen
  <1>1. ASSUME IInv, [Next]_vars, NEW p \in Person, Archived(p), Archived(p)', NEW k \in Kinds
        PROVE  UNCHANGED <<state[<<p, k>>], content[<<p, k>>]>>
    <2>1. CASE \E c \in Client : Write(c)
      BY <1>1, <2>1, WriteSparesArchived DEF Archived
    <2>2. CASE UNCHANGED <<state, content>>
      BY <2>2
    <2> QED BY <1>1, <2>1, <2>2 DEF Next, Receive, Lock, SetActive, vars
  <1>2. IInv /\ [Next]_vars =>
          [\A p \in Person : Archived(p) /\ Archived(p)' =>
             \A k \in Kinds : UNCHANGED <<state[<<p, k>>], content[<<p, k>>]>>]_vars
    BY <1>1
  <1> QED BY <1>2, Invariance, PTL DEF Spec, ArchivedIsFrozen

-----------------------------------------------------------------------------
(* Reading the trail page by page, while others write to it: for any events *)
(* and page size.                                                           *)
(* The instance counts as everybody does.                                   *)
LEMMA Sizes ==
  \A S : Trail!Cardinality(S) = Cardinality(S) /\ (Trail!IsFiniteSet(S) <=> IsFiniteSet(S))
  BY DEF Trail!Cardinality, Cardinality, Trail!IsFiniteSet, IsFiniteSet

(* What a role sees is finitely many events, and so is what is before one.  *)
LEMMA VisibleIsFinite ==
  ASSUME IsFiniteSet(events), NEW r
  PROVE  /\ IsFiniteSet(Trail!Visible(r)) /\ Cardinality(Trail!Visible(r)) \in Nat
         /\ \A S \in SUBSET Trail!Visible(r) :
              IsFiniteSet(S) /\ Cardinality(S) \in Nat /\ Cardinality(S) <= Cardinality(Trail!Visible(r))
  <1>1. Trail!Visible(r) \in SUBSET events
    BY DEF Trail!Visible, Trail!Scope
  <1>2. IsFiniteSet(Trail!Visible(r)) /\ Cardinality(Trail!Visible(r)) \in Nat
    BY <1>1, FS_Subset, FS_CardinalityType
  <1>3. ASSUME NEW S \in SUBSET Trail!Visible(r)
        PROVE  IsFiniteSet(S) /\ Cardinality(S) \in Nat /\ Cardinality(S) <= Cardinality(Trail!Visible(r))
    BY <1>2, FS_Subset, FS_CardinalityType
  <1> QED BY <1>2, <1>3

(* Time and id order the events: of two, one is newer.                      *)
LEMMA NewerOrders ==
  ASSUME Trail!HistoryAssumption, NEW e \in Trail!Event, NEW f \in Trail!Event
  PROVE  ~Trail!Newer(e, e) /\ (e.id # f.id => Trail!Newer(e, f) \/ Trail!Newer(f, e))
  <1>1. e.time \in Time /\ e.id \in Id /\ f.time \in Time /\ f.id \in Id
    BY DEF Trail!Event
  <1>2. Time \subseteq Int /\ Id \subseteq Int
    BY Sizes DEF Trail!HistoryAssumption
  <1>3. e.time \in Int /\ e.id \in Int /\ f.time \in Int /\ f.id \in Int
    BY <1>1, <1>2
  <1> QED BY <1>3 DEF Trail!Newer

(* Position i of a listing has i - 1 newer events before it, and every      *)
(* event has a position.                                                    *)
LEMMA ListedInOrder ==
  ASSUME Trail!HistoryAssumption, Trail!TypeOK, Trail!PagesAdvance,
         NEW rows \in Trail!Listings(Trail!Visible(asked))
  PROVE  /\ DOMAIN rows = 1 .. Len(rows) /\ Len(rows) = Cardinality(Trail!Visible(asked))
         /\ \A e \in Trail!Visible(asked) : \E i \in 1 .. Len(rows) : rows[i] = e
         /\ \A i \in 1 .. Len(rows) : rows[i] \in Trail!Visible(asked) /\ Cardinality(Trail!Before(rows[i])) = i - 1
  <1> DEFINE V == Trail!Visible(asked)
             n == Cardinality(V)
  <1>1. /\ V \subseteq Trail!Event /\ IsFiniteSet(V) /\ n \in Nat
        /\ \A e, f \in V : e # f => e.id # f.id
    BY VisibleIsFinite, Sizes DEF Trail!TypeOK, Trail!PagesAdvance, Trail!Visible, Trail!Scope
  <1>2. /\ rows \in [1 .. n -> V] /\ \A i, j \in 1 .. n : i # j => rows[i] # rows[j]
        /\ \A i, j \in 1 .. n : i < j => ~Trail!Newer(rows[j], rows[i])
    BY Sizes DEF Trail!Listings, Trail!SetToSeqs
  <1> HIDE DEF V, n
  <1>3. rows \in Seq(V) /\ Len(rows) = n
    BY <1>1, <1>2
  <1>4. \A e \in V : \E i \in 1 .. n : rows[i] = e
    <2>1. rows \in Injection(1 .. n, V)
      BY <1>2 DEF Injection, IsInjective
    <2>2. Cardinality(1 .. n) = n
      <3>1. 1 \in Int /\ n \in Int
        BY <1>1
      <3> QED BY <1>1, <3>1, FS_Interval
    <2>3. rows \in Surjection(1 .. n, V)
      BY <1>1, <2>1, <2>2, FS_Injection DEF n
    <2> QED BY <2>3 DEF Surjection
  <1>5. ASSUME NEW i \in 1 .. n
        PROVE  Cardinality(Trail!Before(rows[i])) = i - 1
    <2> DEFINE B == Trail!Before(rows[i])
               g == [j \in 1 .. i - 1 |-> rows[j]]
    <2>0. /\ \A j \in 1 .. i - 1 : j \in 1 .. n /\ j # i /\ j < i
          /\ \A j \in 1 .. n : j < i => j \in 1 .. i - 1
      BY <1>1
    <2>1. ASSUME NEW j \in 1 .. i - 1 PROVE rows[j] \in B
      <3>1. rows[j] \in V /\ rows[i] \in V /\ rows[j].id # rows[i].id /\ ~Trail!Newer(rows[i], rows[j])
        BY <1>1, <1>2, <2>0
      <3> QED BY <1>1, <3>1, NewerOrders DEF Trail!Before, V
    <2>2. ASSUME NEW f \in B PROVE \E j \in 1 .. i - 1 : rows[j] = f
      <3>1. PICK j \in 1 .. n : rows[j] = f
        BY <1>4 DEF Trail!Before, V
      <3>2. Trail!Newer(rows[j], rows[i]) /\ rows[i] \in Trail!Event
        BY <1>1, <1>2, <3>1 DEF Trail!Before
      <3>3. j # i /\ ~(i < j)
        BY <1>2, <3>2, NewerOrders
      <3> QED BY <1>1, <2>0, <3>1, <3>3
    <2>3. g \in Bijection(1 .. i - 1, B)
      <3>1. g \in Injection(1 .. i - 1, B)
        BY <1>2, <2>0, <2>1 DEF Injection, IsInjective
      <3>2. g \in Surjection(1 .. i - 1, B)
        BY <2>1, <2>2 DEF Surjection
      <3> QED BY <3>1, <3>2 DEF Bijection
    <2>4. IsFiniteSet(1 .. i - 1) /\ Cardinality(1 .. i - 1) = i - 1
      <3>1. 1 \in Int /\ i - 1 \in Int /\ i >= 1
        BY <1>1
      <3> QED BY <3>1, FS_Interval
    <2> HIDE DEF B, g
    <2>5. Cardinality(B) = i - 1
      BY <2>3, <2>4, FS_Bijection DEF ExistsBijection
    <2> QED BY <2>5 DEF B
  <1> QED BY <1>2, <1>3, <1>4, <1>5 DEF V, n

(* The rows of a page are the ones that its place in the order says.        *)
LEMMA RowsShow ==
  ASSUME Trail!HistoryAssumption, Trail!IInv, Trail!Rows, ~demoted
  PROVE  /\ (page + 1) * PageSize < counted =>
              \A e \in start \ Trail!Shown' : Cardinality(Trail!Before(e)) >= (page + 1) * PageSize
         /\ ~((page + 1) * PageSize < counted) => Cardinality(start \ Trail!Shown') <= late
  <1>0. Trail!TypeOK /\ Trail!PagesAdvance
    BY DEF Trail!IInv
  <1> DEFINE n == page * PageSize
             next == (page + 1) * PageSize
  <1>1. counted \in Nat /\ late \in Nat /\ page \in Nat /\ PageSize \in Nat \ {0}
        /\ n \in Nat /\ next = n + PageSize /\ next \in Nat
    BY <1>0, Sizes DEF Trail!TypeOK, Trail!Rows, Trail!HistoryAssumption
  <1>2. PICK rows \in Trail!Listings(Trail!Visible(asked)) :
          LET last == Trail!SmallerOf(next, Trail!SmallerOf(counted, Len(rows)))
          IN  seen' = seen \cup {<<rows[i], asked>> : i \in n + 1 .. last}
    BY DEF Trail!Rows
  <1> HIDE DEF n, next
  <1>3. /\ DOMAIN rows = 1 .. Len(rows) /\ Len(rows) = counted + late
        /\ \A e \in Trail!Visible(asked) : \E i \in 1 .. Len(rows) : rows[i] = e
        /\ \A i \in 1 .. Len(rows) : rows[i] \in Trail!Visible(asked) /\ Cardinality(Trail!Before(rows[i])) = i - 1
    BY <1>0, ListedInOrder, Sizes DEF Trail!PagesAdvance, Trail!Rows
  <1> DEFINE last == IF next < counted THEN next ELSE counted
  <1>4. seen' = seen \cup {<<rows[i], asked>> : i \in n + 1 .. last}
    <2>1. Len(rows) \in Nat /\ counted <= Len(rows)
      BY <1>1, <1>3
    <2>2. Trail!SmallerOf(next, Trail!SmallerOf(counted, Len(rows))) = last
      BY <1>1, <2>1 DEF Trail!SmallerOf
    <2> HIDE DEF last
    <2> QED BY <1>2, <2>2
  <1>5. last \in Nat /\ last = IF next < counted THEN next ELSE counted
    BY <1>1
  <1> HIDE DEF last
  <1>6. ASSUME NEW e \in start \ Trail!Shown'
        PROVE  \E i \in 1 .. Len(rows) : rows[i] = e /\ i > last /\ Cardinality(Trail!Before(e)) = i - 1
    <2>1. e \in Trail!Visible(asked) /\ e \notin Trail!Shown /\ Cardinality(Trail!Before(e)) >= n
      <3>1. e \notin Trail!Shown
        BY <1>4 DEF Trail!Shown
      <3>2. counted # Trail!NoCount /\ more
        BY <1>0, Sizes DEF Trail!Rows, Trail!PagesAdvance
      <3> QED BY <1>0, <3>1, <3>2, Sizes DEF Trail!PagesAdvance, Trail!InReading, n
    <2>2. PICK i \in 1 .. Len(rows) : rows[i] = e
      BY <1>3, <2>1
    <2>3. Cardinality(Trail!Before(e)) = i - 1 /\ i >= n + 1
      BY <1>1, <1>3, <2>1, <2>2
    <2>4. \A j \in n + 1 .. last : rows[j] # e
      <3>1. \A j \in n + 1 .. last : <<rows[j], asked>> \in seen'
        BY <1>4
      <3>2. ASSUME NEW j \in n + 1 .. last PROVE rows[j] \in Trail!Shown'
        <4>1. <<rows[j], asked>>[1] = rows[j]
          OBVIOUS
        <4>2. <<rows[j], asked>> \in seen'
          BY <3>1
        <4> QED BY <4>1, <4>2 DEF Trail!Shown
      <3> QED BY <3>2
    <2>5. i > last
      BY <1>1, <1>3, <1>5, <2>2, <2>3, <2>4
    <2> QED BY <2>2, <2>3, <2>5
  <1>7. ASSUME next < counted, NEW e \in start \ Trail!Shown'
        PROVE  Cardinality(Trail!Before(e)) >= next
    BY <1>1, <1>3, <1>5, <1>6, <1>7
  <1>8. ASSUME ~(next < counted)
        PROVE  Cardinality(start \ Trail!Shown') <= late
    <2> DEFINE R == counted + 1 .. counted + late
               T == {rows[i] : i \in R}
               g == [i \in R |-> rows[i]]
    <2>1. IsFiniteSet(R) /\ Cardinality(R) = late
      <3>1. counted + 1 \in Int /\ counted + late \in Int
        BY <1>1
      <3> QED BY <1>1, <3>1, FS_Interval
    <2>2. g \in Surjection(R, T)
      BY DEF Surjection
    <2>3. start \ Trail!Shown' \in SUBSET T
      <3>1. ASSUME NEW e \in start \ Trail!Shown' PROVE e \in T
        <4>1. PICK i \in 1 .. Len(rows) : rows[i] = e /\ i > last
          BY <1>6
        <4>2. i \in R
          BY <1>1, <1>3, <1>5, <1>8, <4>1
        <4> QED BY <4>1, <4>2
      <3> QED BY <3>1
    <2> HIDE DEF R, T, g
    <2>4. IsFiniteSet(T) /\ Cardinality(T) <= late
      BY <2>1, <2>2, FS_Surjection
    <2>5. Cardinality(start \ Trail!Shown') <= Cardinality(T) /\ IsFiniteSet(start \ Trail!Shown')
      BY <2>3, <2>4, FS_Subset
    <2>6. Cardinality(T) \in Nat /\ Cardinality(start \ Trail!Shown') \in Nat
      BY <2>4, <2>5, FS_CardinalityType
    <2> QED BY <1>1, <2>4, <2>5, <2>6
  <1> QED BY <1>7, <1>8 DEF next

-----------------------------------------------------------------------------
(* Nobody has read anything.                                                *)
LEMMA HistoryInit == Trail!Init => Trail!IInv
  <1> SUFFICES ASSUME Trail!Init PROVE Trail!IInv
    OBVIOUS
  <1>1. Trail!TypeOK
    BY DEF Trail!Init, Trail!TypeOK, Trail!Role, Trail!NoCount
  <1>2. Trail!PagesAdvance
    BY FS_EmptySet, Sizes DEF Trail!Init, Trail!PagesAdvance, Trail!InReading, Trail!NoCount
  <1> QED BY <1>1, <1>2, Sizes DEF Trail!Init, Trail!IInv, Trail!HistoryLosesNothing, Trail!NotesStayHidden

(* The count: of what the role sees now, which is no less than before.      *)
LEMMA CountKeepsHistory ==
  ASSUME Trail!HistoryAssumption, Trail!IInv, Trail!Count
  PROVE  Trail!IInv'
  <1>0. Trail!TypeOK /\ Trail!PagesAdvance
    BY DEF Trail!IInv
  <1> DEFINE count == Cardinality(Trail!Visible(role))
  <1>1. /\ counted = Trail!NoCount /\ more /\ asked' = role /\ late' = 0
        /\ start' = IF page = 0 THEN Trail!Visible(role) ELSE start
        /\ UNCHANGED <<events, role, page, seen, demoted>>
    BY Sizes DEF Trail!Count
  <1>2. \/ (page = 0 \/ page * PageSize < count) /\ counted' = count /\ more' = more
        \/ page > 0 /\ page * PageSize >= count /\ counted' = Trail!NoCount /\ more' = FALSE
    BY Sizes DEF Trail!Count
  <1>3. IsFiniteSet(events) /\ count \in Nat /\ Trail!Visible(role) \subseteq events
    BY <1>0, VisibleIsFinite, Sizes DEF Trail!PagesAdvance, Trail!Visible, Trail!Scope
  <1>4. Trail!Visible(asked)' = Trail!Visible(role) /\ Trail!Shown' = Trail!Shown
    BY <1>1 DEF Trail!Visible, Trail!Scope, Trail!Sees, Trail!Restricted, Trail!Shown
  <1>5. \A e : Trail!Before(e)' = {f \in Trail!Visible(role) : Trail!Newer(f, e)}
    BY <1>1, <1>4 DEF Trail!Before, Trail!Newer
  <1>6. Trail!TypeOK'
    BY <1>0, <1>1, <1>2, <1>3 DEF Trail!TypeOK
  <1>7. ASSUME page > 0, ~demoted
        PROVE  /\ start' = start /\ start \subseteq Trail!Visible(role)
               /\ \A e \in start \ Trail!Shown : Cardinality(Trail!Before(e)') >= page * PageSize
    <2>1. /\ asked = "CRM_MANAGER" => role = "CRM_MANAGER"
          /\ start \subseteq Trail!Visible(asked)
          /\ \A e \in start \ Trail!Shown : Cardinality(Trail!Before(e)) >= page * PageSize
      BY <1>0, <1>1, <1>7, Sizes DEF Trail!PagesAdvance, Trail!InReading
    <2>2. Trail!Visible(asked) \subseteq Trail!Visible(role)
      BY <1>0, <2>1 DEF Trail!Visible, Trail!Sees, Trail!TypeOK, Trail!Role
    <2>3. ASSUME NEW e \in start \ Trail!Shown
          PROVE  Cardinality(Trail!Before(e)') >= page * PageSize
      <3> DEFINE B == {f \in Trail!Visible(role) : Trail!Newer(f, e)}
      <3>1. Trail!Before(e) \in SUBSET B /\ B \in SUBSET Trail!Visible(role)
        BY <2>2 DEF Trail!Before
      <3> HIDE DEF B
      <3>2. IsFiniteSet(B) /\ Cardinality(B) \in Nat
        BY <1>3, <3>1, VisibleIsFinite
      <3>3. Cardinality(Trail!Before(e)) <= Cardinality(B) /\ Cardinality(Trail!Before(e)) \in Nat
        BY <3>1, <3>2, FS_Subset, FS_CardinalityType
      <3>4. page * PageSize \in Nat
        BY <1>0, Sizes DEF Trail!TypeOK, Trail!HistoryAssumption
      <3> QED BY <1>5, <2>1, <3>2, <3>3, <3>4 DEF B
    <2> QED BY <1>1, <1>7, <2>1, <2>2, <2>3
  <1>8. Trail!PagesAdvance'
    <2>1. counted' # Trail!NoCount => more' /\ Cardinality(Trail!Visible(asked)') = counted' + late'
      <3> SUFFICES ASSUME counted' # Trail!NoCount
                   PROVE  more' /\ Cardinality(Trail!Visible(asked)') = counted' + late'
        OBVIOUS
      <3>1. counted' = count /\ more' = more
        BY <1>2
      <3> QED BY <1>1, <1>3, <1>4, <3>1
    <2>2. ASSUME Trail!InReading', ~demoted, page = 0
          PROVE  /\ start' \subseteq Trail!Visible(asked)'
                 /\ \A e \in start' \ Trail!Shown' : Cardinality(Trail!Before(e)') >= page * PageSize
      <3>1. ASSUME NEW e PROVE Cardinality(Trail!Before(e)') >= 0
        <4>1. {f \in Trail!Visible(role) : Trail!Newer(f, e)} \in SUBSET Trail!Visible(role)
          OBVIOUS
        <4> QED BY <1>3, <1>5, <4>1, VisibleIsFinite
      <3>2. page * PageSize = 0
        BY <2>2, Sizes DEF Trail!HistoryAssumption
      <3> QED BY <1>1, <1>4, <2>2, <3>1, <3>2
    <2>3. ASSUME Trail!InReading', ~demoted
          PROVE  /\ (asked = "CRM_MANAGER" => role = "CRM_MANAGER")'
                 /\ start' \subseteq Trail!Visible(asked)'
                 /\ \A e \in start' \ Trail!Shown' : Cardinality(Trail!Before(e)') >= page * PageSize
      <3>1. page = 0 \/ page > 0
        BY <1>0 DEF Trail!TypeOK
      <3> QED BY <1>1, <1>4, <1>7, <2>2, <2>3, <3>1
    <2> QED BY <1>0, <1>1, <2>1, <2>3, Sizes DEF Trail!PagesAdvance
  <1>9. Trail!HistoryLosesNothing'
    <2> SUFFICES ASSUME page > 0, counted' = Trail!NoCount, ~more', ~demoted
                 PROVE  Cardinality(start' \ Trail!Shown') <= late'
      BY <1>1, Sizes DEF Trail!HistoryLosesNothing
    <2>1. page * PageSize >= count /\ page * PageSize \in Nat
      <3>1. page * PageSize >= count
        BY <1>2, <1>3 DEF Trail!NoCount
      <3>2. page \in Nat /\ PageSize \in Nat
        BY <1>0, Sizes DEF Trail!TypeOK, Trail!HistoryAssumption
      <3> QED BY <3>1, <3>2
    <2>2. ASSUME NEW e \in start' \ Trail!Shown' PROVE FALSE
      <3> DEFINE B == {f \in Trail!Visible(role) : Trail!Newer(f, e)}
      <3>1. e \in Trail!Visible(role) /\ e \in Trail!Event /\ Cardinality(B) >= page * PageSize
        BY <1>0, <1>1, <1>3, <1>4, <1>5, <1>7, <2>2 DEF Trail!TypeOK
      <3>2. B \in SUBSET (Trail!Visible(role) \ {e})
        BY <3>1, NewerOrders
      <3> HIDE DEF B
      <3>3. IsFiniteSet(Trail!Visible(role)) /\ Cardinality(Trail!Visible(role) \ {e}) = count - 1
        BY <1>3, <3>1, VisibleIsFinite, FS_RemoveElement
      <3>4. Cardinality(B) <= count - 1 /\ Cardinality(B) \in Nat
        <4>1. IsFiniteSet(Trail!Visible(role) \ {e})
          BY <3>3, FS_Subset
        <4> QED BY <3>2, <3>3, <4>1, FS_Subset, FS_CardinalityType
      <3> QED BY <1>3, <2>1, <3>1, <3>4
    <2>3. start' \ Trail!Shown' = {}
      BY <2>2
    <2> QED BY <1>1, <2>3, FS_EmptySet
  <1>10. Trail!NotesStayHidden'
    <2> DEFINE free == {e \in Trail!Scope : e.kind.entity # "InternalNote"}
    <2>1. free \subseteq events /\ IsFiniteSet(free) /\ Cardinality(free) \in Nat
      <3>1. free \in SUBSET events
        BY DEF Trail!Scope
      <3> HIDE DEF free
      <3> QED BY <1>3, <3>1, FS_Subset, FS_CardinalityType
    <2>2. ASSUME role = "CRM_VIEWER" PROVE count <= Cardinality(free)
      <3>1. Trail!Visible(role) \in SUBSET free
        BY <2>2 DEF Trail!Visible, Trail!Sees, Trail!Restricted
      <3> HIDE DEF free
      <3> QED BY <2>1, <3>1, FS_Subset
    <2>3. free' = free
      BY <1>1 DEF Trail!Scope
    <2> HIDE DEF free
    <2>4. counted' # Trail!NoCount /\ asked' = "CRM_VIEWER" => counted' <= Cardinality(free)
      BY <1>1, <1>2, <2>2
    <2>5. (counted # Trail!NoCount /\ asked = "CRM_VIEWER" =>
             counted <= Cardinality({e \in Trail!Scope : e.kind.entity # "InternalNote"}))'
      BY <2>3, <2>4 DEF free
    <2> QED BY <1>1, <2>5, Sizes DEF Trail!IInv, Trail!NotesStayHidden
  <1> QED BY <1>6, <1>8, <1>9, <1>10 DEF Trail!IInv

(* The rows: of the events the page shows none was shown to the wrong role. *)
LEMMA RowsKeepHistory ==
  ASSUME Trail!HistoryAssumption, Trail!IInv, Trail!Rows
  PROVE  Trail!IInv'
  <1>0. Trail!TypeOK /\ Trail!PagesAdvance
    BY DEF Trail!IInv
  <1>1. /\ counted # Trail!NoCount /\ page' = page + 1 /\ more' = ((page + 1) * PageSize < counted)
        /\ counted' = Trail!NoCount /\ UNCHANGED <<events, role, asked, start, late, demoted>>
    BY DEF Trail!Rows
  <1>2. page \in Nat /\ counted \in Nat /\ page' \in Nat
    BY <1>0, <1>1 DEF Trail!TypeOK
  <1>3. \A s \in seen' : s \in seen \/ (s[1] \in Trail!Visible(asked) /\ s = <<s[1], asked>>)
    <2>1. PICK rows \in Trail!Listings(Trail!Visible(asked)) :
            LET last == Trail!SmallerOf((page + 1) * PageSize, Trail!SmallerOf(counted, Len(rows)))
            IN  seen' = seen \cup {<<rows[i], asked>> : i \in page * PageSize + 1 .. last}
      BY DEF Trail!Rows
    <2> DEFINE last == Trail!SmallerOf((page + 1) * PageSize, Trail!SmallerOf(counted, Len(rows)))
               first == page * PageSize + 1
    <2>2. \A i \in 1 .. Len(rows) : rows[i] \in Trail!Visible(asked)
      BY <1>0, ListedInOrder
    <2>3. first \in Nat /\ first >= 1 /\ last <= Len(rows) /\ Len(rows) \in Nat /\ last \in Nat
      <3>1. Len(rows) = Cardinality(Trail!Visible(asked)) /\ Len(rows) \in Nat
        BY <1>0, ListedInOrder, VisibleIsFinite, Sizes DEF Trail!PagesAdvance
      <3>2. page * PageSize \in Nat /\ (page + 1) * PageSize \in Nat
        BY <1>2, Sizes DEF Trail!HistoryAssumption
      <3> QED BY <1>2, <3>1, <3>2 DEF Trail!SmallerOf
    <2>4. seen' = seen \cup {<<rows[i], asked>> : i \in first .. last}
      BY <2>1
    <2> HIDE DEF first, last
    <2> QED BY <2>2, <2>3, <2>4
  <1>4. Trail!Visible(asked) \subseteq Trail!Event
    BY <1>0 DEF Trail!TypeOK, Trail!Visible, Trail!Scope
  <1>5. Trail!TypeOK'
    BY <1>0, <1>1, <1>2, <1>3, <1>4 DEF Trail!TypeOK
  <1>6. Trail!Visible(asked)' = Trail!Visible(asked) /\ \A e : Trail!Before(e)' = Trail!Before(e)
    BY <1>1 DEF Trail!Visible, Trail!Scope, Trail!Sees, Trail!Restricted, Trail!Before, Trail!Newer
  <1>7. ASSUME ~demoted
        PROVE  /\ asked = "CRM_MANAGER" => role = "CRM_MANAGER"
               /\ start \subseteq Trail!Visible(asked)
    BY <1>0, <1>1, <1>7, Sizes DEF Trail!PagesAdvance, Trail!InReading
  <1>8. Trail!PagesAdvance'
    BY <1>0, <1>1, <1>6, <1>7, RowsShow, Sizes DEF Trail!PagesAdvance
  <1>9. Trail!HistoryLosesNothing'
    BY <1>1, RowsShow, Sizes DEF Trail!HistoryLosesNothing
  <1>10. Trail!NotesStayHidden'
    <2>1. \A s \in seen' : s[2] = "CRM_VIEWER" =>
            s[1].kind.entity # "InternalNote" /\ s[1].kind.action # "NOTE"
      <3> SUFFICES ASSUME NEW s \in seen', s[2] = "CRM_VIEWER"
                   PROVE  s[1].kind.entity # "InternalNote" /\ s[1].kind.action # "NOTE"
        OBVIOUS
      <3>1. CASE s \in seen
        BY <3>1, Sizes DEF Trail!IInv, Trail!NotesStayHidden
      <3>2. CASE s[1] \in Trail!Visible(asked) /\ s = <<s[1], asked>>
        <4>1. asked = "CRM_VIEWER"
          BY <3>2
        <4> QED BY <3>2, <4>1 DEF Trail!Visible, Trail!Sees, Trail!Restricted
      <3> QED BY <1>3, <3>1, <3>2
    <2> QED BY <1>1, <2>1, Sizes DEF Trail!NotesStayHidden
  <1> QED BY <1>5, <1>8, <1>9, <1>10 DEF Trail!IInv

(* An event that is committed moves others back, wherever it comes to be.   *)
LEMMA CommitKeepsHistory ==
  ASSUME Trail!HistoryAssumption, Trail!IInv, NEW e \in Trail!Event, Trail!Commit(e)
  PROVE  Trail!IInv'
  <1>0. Trail!TypeOK /\ Trail!PagesAdvance
    BY DEF Trail!IInv
  <1>1. /\ \A f \in events : f.id # e.id
        /\ events' = events \cup {e}
        /\ late' = IF counted # Trail!NoCount /\ Trail!Sees(asked, e) THEN late + 1 ELSE late
        /\ UNCHANGED <<role, asked, counted, page, more, seen, start, demoted>>
    BY DEF Trail!Commit, Trail!reading
  <1>2. Trail!TypeOK'
    BY <1>0, <1>1 DEF Trail!TypeOK
  <1>3. /\ IsFiniteSet(events) /\ IsFiniteSet(events') /\ e \notin events
        /\ \A f, g \in events' : f.id = g.id => f = g
    BY <1>0, <1>1, FS_AddElement, Sizes DEF Trail!PagesAdvance
  <1>4. /\ Trail!Visible(asked)' = Trail!Visible(asked) \cup (IF Trail!Sees(asked, e) THEN {e} ELSE {})
        /\ e \notin Trail!Visible(asked) /\ Trail!Shown' = Trail!Shown
    BY <1>1, <1>3 DEF Trail!Visible, Trail!Scope, Trail!Sees, Trail!Restricted, Trail!Shown
  <1>5. counted # Trail!NoCount => more /\ Cardinality(Trail!Visible(asked)') = counted + late'
    <2>1. IsFiniteSet(Trail!Visible(asked)) /\ Cardinality(Trail!Visible(asked)) \in Nat
      BY <1>3, VisibleIsFinite
    <2>2. CASE Trail!Sees(asked, e)
      <3>1. Cardinality(Trail!Visible(asked) \cup {e}) = Cardinality(Trail!Visible(asked)) + 1
        BY <1>4, <2>1, FS_AddElement
      <3>2. Trail!Visible(asked)' = Trail!Visible(asked) \cup {e}
        BY <1>4, <2>2
      <3>3. ASSUME counted # Trail!NoCount
            PROVE  more /\ Cardinality(Trail!Visible(asked)') = counted + late'
        <4>1. Cardinality(Trail!Visible(asked)) = counted + late /\ more /\ counted \in Nat /\ late \in Nat
              /\ late' = late + 1
          BY <1>0, <1>1, <2>2, <3>3, Sizes DEF Trail!PagesAdvance, Trail!TypeOK
        <4> QED BY <3>1, <3>2, <4>1
      <3> QED BY <3>3
    <2>3. CASE ~Trail!Sees(asked, e)
      <3>1. Trail!Visible(asked)' = Trail!Visible(asked)
        BY <1>4, <2>3
      <3> QED BY <1>0, <1>1, <2>3, <3>1, Sizes DEF Trail!PagesAdvance
    <2> QED BY <2>2, <2>3
  <1>6. ASSUME Trail!InReading', ~demoted'
        PROVE  (/\ asked = "CRM_MANAGER" => role = "CRM_MANAGER"
                /\ start \subseteq Trail!Visible(asked)
                /\ more => \A f \in start \ Trail!Shown : Cardinality(Trail!Before(f)) >= page * PageSize)'
    <2>1. /\ asked = "CRM_MANAGER" => role = "CRM_MANAGER"
          /\ start \subseteq Trail!Visible(asked)
          /\ more => \A f \in start \ Trail!Shown : Cardinality(Trail!Before(f)) >= page * PageSize
      BY <1>0, <1>1, <1>6, Sizes DEF Trail!PagesAdvance, Trail!InReading
    <2>2. ASSUME NEW f
          PROVE  /\ Cardinality(Trail!Before(f)) \in Nat /\ Cardinality(Trail!Before(f)') \in Nat
                 /\ Cardinality(Trail!Before(f)) <= Cardinality(Trail!Before(f)')
      <3>1. Trail!Before(f) \in SUBSET (Trail!Before(f)') /\ Trail!Before(f)' \in SUBSET (events')
        BY <1>4 DEF Trail!Before, Trail!Newer, Trail!Visible, Trail!Scope
      <3>2. IsFiniteSet(Trail!Before(f)')
        BY <1>3, <3>1, FS_Subset
      <3> QED BY <3>1, <3>2, FS_Subset, FS_CardinalityType
    <2>3. page * PageSize \in Nat
      BY <1>0, Sizes DEF Trail!TypeOK, Trail!HistoryAssumption
    <2>4. ASSUME more', NEW f \in start \ Trail!Shown PROVE Cardinality(Trail!Before(f)') >= page * PageSize
      <3>1. Cardinality(Trail!Before(f)) >= page * PageSize
        BY <1>1, <2>1, <2>4
      <3> QED BY <2>2, <2>3, <3>1
    <2> QED BY <1>1, <1>4, <2>1, <2>4
  <1>7. Trail!PagesAdvance'
    BY <1>1, <1>3, <1>5, <1>6, Sizes DEF Trail!PagesAdvance
  <1>8. Trail!HistoryLosesNothing'
    BY <1>1, <1>4, Sizes DEF Trail!IInv, Trail!HistoryLosesNothing
  <1>9. Trail!NotesStayHidden'
    <2> DEFINE free == {f \in Trail!Scope : f.kind.entity # "InternalNote"}
    <2>1. free \in SUBSET (free') /\ free' \in SUBSET (events')
      BY <1>1 DEF Trail!Scope
    <2> HIDE DEF free
    <2>2. IsFiniteSet(free')
      BY <1>3, <2>1, FS_Subset
    <2>3. Cardinality(free) <= Cardinality(free') /\ Cardinality(free) \in Nat /\ Cardinality(free') \in Nat
      BY <2>1, <2>2, FS_Subset, FS_CardinalityType
    <2>4. ASSUME counted # Trail!NoCount, asked = "CRM_VIEWER" PROVE counted <= Cardinality(free')
      <3>1. counted <= Cardinality(free) /\ counted \in Nat
        BY <1>0, <2>4, Sizes DEF Trail!IInv, Trail!NotesStayHidden, free, Trail!TypeOK
      <3> QED BY <2>3, <3>1
    <2>5. (counted # Trail!NoCount /\ asked = "CRM_VIEWER" =>
             counted <= Cardinality({f \in Trail!Scope : f.kind.entity # "InternalNote"}))'
      BY <1>1, <2>4 DEF free
    <2> QED BY <1>1, <2>5, Sizes DEF Trail!IInv, Trail!NotesStayHidden
  <1> QED BY <1>2, <1>7, <1>8, <1>9 DEF Trail!IInv

(* Reading from the first page on again, or with another role.              *)
LEMMA TurnKeepsHistory ==
  ASSUME Trail!HistoryAssumption, Trail!IInv,
         Trail!StartOver \/ (\E r \in Trail!Role : Trail!SetRole(r)) \/ UNCHANGED Trail!vars
  PROVE  Trail!IInv'
  <1>0. Trail!TypeOK /\ Trail!PagesAdvance
    BY DEF Trail!IInv
  <1>1. CASE Trail!StartOver
    <2>1. /\ counted = Trail!NoCount /\ page' = 0 /\ more' = TRUE /\ seen' = {} /\ start' = {} /\ late' = 0
          /\ demoted' = FALSE /\ UNCHANGED <<events, role, asked, counted>>
      BY <1>1 DEF Trail!StartOver
    <2>2. Trail!TypeOK'
      BY <1>0, <2>1 DEF Trail!TypeOK
    <2>3. Trail!PagesAdvance'
      BY <1>0, <2>1, Sizes DEF Trail!PagesAdvance, Trail!InReading
    <2> QED BY <2>1, <2>2, <2>3, Sizes DEF Trail!IInv, Trail!HistoryLosesNothing, Trail!NotesStayHidden
  <1>2. ASSUME UNCHANGED <<events, asked, counted, page, more, seen, start, late>>,
               role' \in Trail!Role, demoted' \in BOOLEAN,
               ~demoted' => ~demoted /\ (role = "CRM_MANAGER" => role' = "CRM_MANAGER")
        PROVE  Trail!IInv'
    <2>1. /\ Trail!Visible(asked)' = Trail!Visible(asked) /\ Trail!Shown' = Trail!Shown
          /\ \A e : Trail!Before(e)' = Trail!Before(e)
      BY <1>2 DEF Trail!Visible, Trail!Scope, Trail!Sees, Trail!Restricted, Trail!Shown,
                    Trail!Before, Trail!Newer
    <2>2. Trail!TypeOK'
      BY <1>0, <1>2 DEF Trail!TypeOK
    <2>3. Trail!PagesAdvance'
      BY <1>0, <1>2, <2>1, Sizes DEF Trail!PagesAdvance, Trail!InReading
    <2>4. Trail!HistoryLosesNothing'
      BY <1>2, <2>1, Sizes DEF Trail!IInv, Trail!HistoryLosesNothing
    <2>5. Trail!Scope' = Trail!Scope
      BY <1>2 DEF Trail!Scope
    <2>6. Trail!NotesStayHidden'
      BY <1>2, <2>5, Sizes DEF Trail!IInv, Trail!NotesStayHidden
    <2> QED BY <2>2, <2>3, <2>4, <2>6 DEF Trail!IInv
  <1>3. ASSUME NEW r \in Trail!Role, Trail!SetRole(r) PROVE Trail!IInv'
    BY <1>0, <1>2, <1>3 DEF Trail!SetRole, Trail!reading, Trail!Role, Trail!TypeOK
  <1>4. CASE UNCHANGED Trail!vars
    BY <1>0, <1>2, <1>4 DEF Trail!vars, Trail!reading, Trail!TypeOK
  <1> QED BY <1>1, <1>3, <1>4

(* Every step keeps the invariant.                                          *)
LEMMA HistoryNext == ASSUME Trail!HistoryAssumption, Trail!IInv, [Trail!Next]_(Trail!vars) PROVE Trail!IInv'
  BY CountKeepsHistory, RowsKeepHistory, CommitKeepsHistory, TurnKeepsHistory DEF Trail!Next

(* Whatever is written while a history is read, and however long a page is: *)
(* who reads to the last page has seen every event that was there at the    *)
(* first but for as many as came between the last count and its rows.       *)
THEOREM HistoriesAreComplete ==
  ASSUME Trail!HistoryAssumption PROVE Trail!Spec => []Trail!HistoryLosesNothing
  BY HistoryInit, HistoryNext, PTL DEF Trail!Spec, Trail!IInv

(* No page and no count shown to a viewer depends on notes.                 *)
THEOREM NotesAreHidden ==
  ASSUME Trail!HistoryAssumption PROVE Trail!Spec => []Trail!NotesStayHidden
  BY HistoryInit, HistoryNext, PTL DEF Trail!Spec, Trail!IInv

-----------------------------------------------------------------------------
(* The parts of the People API together, one of which is at work: each      *)
(* behaves as its own module says.                                          *)
LEMMA RecordsAndTrailRun == MCSpec => Spec /\ Trail!Spec
  <1>1. MCInit => Init /\ Trail!Init
    BY DEF MCInit
  <1>2. ASSUME [MCNext]_allVars PROVE [Next]_vars /\ [Trail!Next]_(Trail!vars)
    BY <1>2 DEF MCNext, allVars, trailVars, Trail!vars, Trail!reading
  <1> QED BY <1>1, <1>2, PTL DEF MCSpec, Spec, Trail!Spec

LEMMA IdentitiesRun ==
  MCSpec => /\ part = "races" => Races!Spec
            /\ part = "signals" => Signals!Spec
  <1>1. /\ MCInit /\ part = "races" => Races!Init
        /\ MCInit /\ part = "signals" => Signals!Init
    BY DEF MCInit
  <1>2. /\ part = "races" /\ [MCNext]_allVars => [Races!Next]_(Races!vars) /\ (part = "races")'
        /\ part = "signals" /\ [MCNext]_allVars => [Signals!Next]_(Signals!vars) /\ (part = "signals")'
    BY DEF MCNext, allVars, identityVars, Races!vars, Signals!vars
  <1> QED BY <1>1, <1>2, PTL DEF MCSpec, Races!Spec, Signals!Spec

LEMMA DirectoriesRun ==
  MCSpec => /\ part = "pages" => Races!Pages!Spec
            /\ part = "reports" => Signals!Pages!Spec
  <1>1. /\ MCInit /\ part = "pages" => Races!Pages!Init
        /\ MCInit /\ part = "reports" => Signals!Pages!Init
    BY DEF MCInit
  <1>2. /\ part = "pages" /\ [MCNext]_allVars => [Races!Pages!Next]_(Races!Pages!vars) /\ (part = "pages")'
        /\ part = "reports" /\ [MCNext]_allVars =>
             [Signals!Pages!Next]_(Signals!Pages!vars) /\ (part = "reports")'
    BY DEF MCNext, allVars, directoryVars, Races!Pages!vars, Signals!Pages!vars
  <1> QED BY <1>1, <1>2, PTL DEF MCSpec, Races!Pages!Spec, Signals!Pages!Spec

(* A behaviour works on one part from its start to its end.                 *)
LEMMA OnePart ==
  MCSpec => /\ [](part = "races") \/ []~(part = "races")
            /\ [](part = "signals") \/ []~(part = "signals")
            /\ [](part = "pages") \/ []~(part = "pages")
            /\ [](part = "reports") \/ []~(part = "reports")
  <1>1. [MCNext]_allVars => /\ part = "races" <=> (part = "races")'
                            /\ part = "signals" <=> (part = "signals")'
                            /\ part = "pages" <=> (part = "pages")'
                            /\ part = "reports" <=> (part = "reports")'
    BY DEF MCNext, allVars
  <1> QED BY <1>1, PTL DEF MCSpec

(* For any People, texts, clients, addresses, events, lists and queries:    *)
(* filters, audience, dashboard and overview agree on everybody, and every  *)
(* part has what it takes to be inductive.                                  *)
THEOREM ReadsStayInAgreement == MCSpec => []ReadsAgree
  <1>1. Spec => []IInv
    BY Invariance
  <1>2. Trail!Spec => []Trail!IInv
    BY HistoryInit, HistoryNext, PeopleAssumption, PTL DEF Trail!Spec
  <1>3. Races!Spec => []Races!IInv
    BY Races!Invariance, PeopleAssumption
  <1>4. Signals!Spec => []Signals!IInv
    BY Signals!Invariance, PeopleAssumption
  <1>5. Races!Pages!Spec => []Races!Pages!IInv
    BY Races!DirectoryInvariance, PeopleAssumption
  <1>6. Signals!Pages!Spec => []Signals!Pages!IInv
    BY Signals!DirectoryInvariance, PeopleAssumption
  <1>7. Signals!Pages!Spec =>
          [](/\ Signals!Pages!FiltersMatchProjections /\ Signals!Pages!AudienceMatchesSync
             /\ Signals!Pages!DashboardMatchesDirectory /\ Signals!Pages!GrowthCountsEveryone)
    BY Signals!DirectoryReadsAgree, PeopleAssumption
  <1> QED BY <1>1, <1>2, <1>3, <1>4, <1>5, <1>6, <1>7, OnePart,
             RecordsAndTrailRun, IdentitiesRun, DirectoriesRun, PTL DEF ReadsAgree

(* The pages of the directory are the listing, whatever names are equal.    *)
THEOREM PagesStayComplete == MCSpec => []PagesAreComplete
  <1>1. Races!Pages!Spec => []Races!Pages!PagesAreComplete
    BY Races!DirectoriesAreComplete, PeopleAssumption
  <1> QED BY <1>1, OnePart, DirectoriesRun, PTL DEF PagesAreComplete

(* Two People who look alike were reviewed or written in a race.            *)
THEOREM DuplicatesStayExplained == MCSpec => []DuplicatesAreExplained
  <1>1. Races!Spec => []Races!DuplicatesAreExplained
    BY Races!LookalikesHaveReasons, PeopleAssumption
  <1>2. Signals!Spec => []Signals!DuplicatesAreExplained
    BY Signals!LookalikesHaveReasons, PeopleAssumption
  <1> QED BY <1>1, <1>2, OnePart, IdentitiesRun, PTL DEF DuplicatesAreExplained

(* Neither records nor signals of an archived Person change.                *)
THEOREM ArchivedStays == MCSpec => ArchivedStandsStill
  <1>1. Races!Spec => Races!ArchivedStandsStill
    BY Races!ArchivedSignalsStay, PeopleAssumption
  <1>2. Signals!Spec => Races!ArchivedStandsStill
    <2>1. Signals!Spec => Signals!ArchivedStandsStill
      BY Signals!ArchivedSignalsStay, PeopleAssumption
    <2> QED BY <2>1 DEF Signals!ArchivedStandsStill, Races!ArchivedStandsStill, Signals!PersonId, Races!PersonId,
                        Signals!vars, Races!vars
  <1>3. MCSpec /\ part \notin {"races", "signals"} => Races!ArchivedStandsStill
    <2>1. part \notin {"races", "signals"} /\ [MCNext]_allVars =>
            UNCHANGED Races!vars /\ (part \notin {"races", "signals"})'
      BY DEF MCNext, allVars, identityVars, Races!vars
    <2>2. part \notin {"races", "signals"} /\ [MCNext]_allVars =>
            /\ (part \notin {"races", "signals"})'
            /\ [\A p \in Races!PersonId : people[p].archived =>
                  /\ people'[p].email = people[p].email
                  /\ people'[p].mobile = people[p].mobile]_(Races!vars)
      BY <2>1
    <2> QED BY <2>2, PTL DEF MCSpec, Races!ArchivedStandsStill
  <1>4. part = "races" \/ part = "signals" \/ part \notin {"races", "signals"}
    OBVIOUS
  <1> QED BY <1>1, <1>2, <1>3, <1>4, RecordsAndTrailRun, IdentitiesRun, NothingArchivedChanges, PTL
          DEF ArchivedStandsStill

(* Who reads a history to the end misses no event, and learns of no note.   *)
THEOREM HistoryStaysTrue == MCSpec => []HistoryIsTrue
  <1>1. Trail!Spec => []Trail!HistoryLosesNothing
    BY HistoriesAreComplete, PeopleAssumption
  <1>2. Trail!Spec => []Trail!NotesStayHidden
    BY NotesAreHidden, PeopleAssumption
  <1> QED BY <1>1, <1>2, RecordsAndTrailRun, PTL DEF HistoryIsTrue
=============================================================================
