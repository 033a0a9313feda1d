------------------------ MODULE HistoricalImportProofs ------------------------
(***************************************************************************)
(* Proofs about HistoricalImport, for any batches, workbooks, People and   *)
(* changes by staff: no batch is imported twice, no analysis takes back    *)
(* what staff decided, an import overwrites nothing that the CRM knows, the*)
(* status of a batch tells its records, what an import does was reviewed.  *)
(* After them, of EventReferences: imports that run at once share Events.  *)
(***************************************************************************)
EXTENDS MCHistoricalImport, FiniteSetTheorems, WellFoundedInduction, TLAPS

Answer == [processed : Nat, skipped : Nat, created : Nat, matched : Nat]

(* A record without an outcome, and with a decision if it is resolved.      *)
Unwritten(rec) == /\ rec.outcome = "NONE"
                  /\ rec.status = "RESOLVED" => rec.method \in Create \cup Match

-----------------------------------------------------------------------------
(* The records of a batch and the People are finitely many.                 *)
LEMMA RecordsAreFinite ==
  ASSUME NEW b \in Batch
  PROVE  IsFiniteSet(RecordsOf(b))
  <1>1. IsFiniteSet(1 .. Rows) /\ IsFiniteSet({b})
    <2>1. 1 \in Int /\ Rows \in Int
      BY ImportAssumption
    <2> QED BY <2>1, FS_Interval, FS_Singleton
  <1>2. IsFiniteSet({b} \X (1 .. Rows))
    BY <1>1, FS_Product
  <1>3. RecordsOf(b) \subseteq {b} \X (1 .. Rows)
    BY DEF RecordsOf, Record
  <1> QED BY <1>2, <1>3, FS_Subset

(* Every table has finitely many People.                                    *)
LEMMA IdsAreFinite ==
  ASSUME NEW table
  PROVE  IsFiniteSet(Ids(table)) /\ Cardinality(Ids(table)) \in Nat
  <1>1. IsFiniteSet(Person)
    BY ImportAssumption, FS_Interval DEF Person
  <1>2. IsFiniteSet(Ids(table))
    BY <1>1, FS_Subset DEF Ids
  <1> QED BY <1>2, FS_CardinalityType

(* The answer of an import consists of counts.                              *)
LEMMA AnswersAreCounts ==
  ASSUME NEW b \in Batch
  PROVE  Result(b) \in Answer
  <1>1. ASSUME NEW S, S \subseteq RecordsOf(b)
        PROVE  Cardinality(S) \in Nat
    BY <1>1, RecordsAreFinite, FS_Subset, FS_CardinalityType
  <1> DEFINE invalid == {r \in RecordsOf(b) : record[r].status = "INVALID"}
             found == {r \in RecordsOf(b) : Matched(r)}
  <1>2. /\ Cardinality(RecordsOf(b) \ invalid) \in Nat
        /\ Cardinality(invalid) \in Nat
        /\ Cardinality(Leaders(b)) \in Nat
        /\ Cardinality(found) \in Nat
    BY <1>1 DEF Leaders
  <1> QED BY <1>2 DEF Result, Answer

(* What an analysis makes of a record: it leaves it alone, or it is one     *)
(* that the analysis may decide or that fails with its batch.               *)
LEMMA AnalyzeShape ==
  ASSUME Shape, NEW b \in Batch, Analyze(b)
  PROVE  /\ \E s \in {"FAILED", "READY_FOR_REVIEW", "READY_FOR_IMPORT"} : status' = [status EXCEPT ![b] = s]
         /\ DOMAIN record' = Record
         /\ \A r \in Record : DOMAIN record'[r] = DOMAIN NoRecord
         /\ \A r \in Record :
              \/ record'[r] = record[r]
              \/ /\ r[1] = b /\ record[r].status # "NONE"
                 /\ record'[r].status \in {"RESOLVED", "REVIEW_REQUIRED", "FAILED"}
                 /\ record'[r].method \notin ByStaff /\ Unwritten(record'[r])
                 /\ record[r].method \in ByStaff => status'[b] = "FAILED"
  <1> DEFINE fresh == [r \in Record |-> IF r \in Analyzable(b) THEN Analyzed(record[r]) ELSE record[r]]
             duplicates == Duplicates(b, fresh)
             review == \E r \in Analyzable(b) : fresh[r].status = "REVIEW_REQUIRED"
  <1>1. /\ record' = [r \in Record |-> IF r \in duplicates
                                       THEN Decided(fresh[r], "FAILED", "NOT_RESOLVED", 0)
                                       ELSE fresh[r]]
        /\ status' = [status EXCEPT ![b] =
             IF duplicates # {} THEN "FAILED"
             ELSE IF review THEN "READY_FOR_REVIEW" ELSE "READY_FOR_IMPORT"]
    BY DEF Analyze
  <1>2. ASSUME NEW rec
        PROVE  /\ Analyzed(rec).status \in {"RESOLVED", "REVIEW_REQUIRED"}
               /\ Analyzed(rec).method \notin ByStaff
               /\ DOMAIN Analyzed(rec) = DOMAIN NoRecord
               /\ Unwritten(Analyzed(rec))
    BY DEF Analyzed, Decided, ByStaff, NoRecord, Unwritten, Create, Match
  <1>3. ASSUME NEW r \in Analyzable(b)
        PROVE  /\ r \in Record /\ r[1] = b /\ record[r].status # "NONE" /\ record[r].method \notin ByStaff
    BY DEF Analyzable, RecordsOf
  <1>4. ASSUME NEW r \in duplicates
        PROVE  r \in Record /\ r[1] = b /\ record[r].status # "NONE"
    BY DEF Duplicates, RecordsOf
  <1>5. ASSUME NEW rec
        PROVE  /\ Decided(rec, "FAILED", "NOT_RESOLVED", 0).status = "FAILED"
               /\ Decided(rec, "FAILED", "NOT_RESOLVED", 0).method \notin ByStaff
               /\ DOMAIN Decided(rec, "FAILED", "NOT_RESOLVED", 0) = DOMAIN NoRecord
               /\ Unwritten(Decided(rec, "FAILED", "NOT_RESOLVED", 0))
    BY DEF Decided, ByStaff, NoRecord, Unwritten
  <1>6. \A r \in Record : fresh[r] = IF r \in Analyzable(b) THEN Analyzed(record[r]) ELSE record[r]
    OBVIOUS
  <1> HIDE DEF fresh, duplicates, review
  <1>7. \E s \in {"FAILED", "READY_FOR_REVIEW", "READY_FOR_IMPORT"} : status' = [status EXCEPT ![b] = s]
    BY <1>1
  <1>8. duplicates # {} => status'[b] = "FAILED"
    BY <1>1 DEF Shape
  <1>9. DOMAIN record' = Record
    BY <1>1
  <1>10. ASSUME NEW r \in Record
         PROVE  /\ DOMAIN record'[r] = DOMAIN NoRecord
                /\ \/ record'[r] = record[r]
                   \/ /\ r[1] = b /\ record[r].status # "NONE"
                      /\ record'[r].status \in {"RESOLVED", "REVIEW_REQUIRED", "FAILED"}
                      /\ record'[r].method \notin ByStaff /\ Unwritten(record'[r])
                      /\ record[r].method \in ByStaff => status'[b] = "FAILED"
    <2>1. CASE r \in duplicates
      BY <2>1, <1>1, <1>4, <1>5, <1>8
    <2>2. CASE r \notin duplicates /\ r \in Analyzable(b)
      BY <2>2, <1>1, <1>2, <1>3, <1>6
    <2>3. CASE r \notin duplicates /\ r \notin Analyzable(b)
      BY <2>3, <1>1, <1>6 DEF Shape
    <2> QED BY <2>1, <2>2, <2>3
  <1> QED BY <1>7, <1>9, <1>10

(* A decision of staff concerns one record that waits for a review.         *)
LEMMA ResolveShape ==
  ASSUME Shape, NEW r \in Record, Resolve(r)
  PROVE  /\ record[r].status = "REVIEW_REQUIRED" /\ record'[r].status = "RESOLVED"
         /\ Unwritten(record'[r])
         /\ DOMAIN record' = Record
         /\ \A q \in Record : DOMAIN record'[q] = DOMAIN NoRecord
         /\ \A q \in Record : q # r => record'[q] = record[q]
         /\ \E s \in {"READY_FOR_REVIEW", "READY_FOR_IMPORT"} : status' = [status EXCEPT ![r[1]] = s]
  <1>1. PICK decision \in Decision : SamePerson(r, decision) \/ DifferentPerson(r, decision)
    BY DEF Resolve
  <1>2. record[r].status = "REVIEW_REQUIRED"
    BY DEF Resolve, ReviewQueue
  <1>3. \E s \in {"READY_FOR_REVIEW", "READY_FOR_IMPORT"} : status' = [status EXCEPT ![r[1]] = s]
    BY DEF Resolve
  <1>4. CASE SamePerson(r, decision)
    <2> DEFINE new == Decided(record[r], "RESOLVED", "STAFF_MATCH", decision.person)
    <2>1. new.status = "RESOLVED" /\ DOMAIN new = DOMAIN NoRecord /\ Unwritten(new)
      BY DEF Decided, NoRecord, Unwritten, Create, Match
    <2>2. record' = [record EXCEPT ![r] = new]
      BY <1>4 DEF SamePerson
    <2> HIDE DEF new
    <2> QED BY <1>2, <1>3, <2>1, <2>2 DEF Shape
  <1>5. CASE DifferentPerson(r, decision)
    <2> DEFINE evidence == EvidenceOf(record[r].source)
               new == [Decided(record[r], "RESOLVED", "STAFF_CREATE_NEW", 0) EXCEPT !.evidence = evidence]
    <2>1. new.status = "RESOLVED" /\ DOMAIN new = DOMAIN NoRecord /\ Unwritten(new)
      BY DEF Decided, NoRecord, Unwritten, Create, Match
    <2>2. record' = [record EXCEPT ![r] = new]
      BY <1>5 DEF DifferentPerson
    <2> HIDE DEF new
    <2> QED BY <1>2, <1>3, <2>1, <2>2 DEF Shape
  <1> QED BY <1>1, <1>4, <1>5

(* An import writes outcomes; it takes no decision and opens no review.     *)
LEMMA CommitShape ==
  ASSUME Shape, NEW b \in Batch, CommitImport(b)
  PROVE  /\ DOMAIN record' = Record
         /\ \A r \in Record : DOMAIN record'[r] = DOMAIN NoRecord
         /\ \A r \in Record : \/ record'[r] = record[r]
                              \/ /\ r \in RecordsOf(b) /\ record'[r].method = record[r].method
                                 /\ record'[r].status \in {record[r].status, "COMMITTED"}
  <1>1. record' = [r \in Record |-> IF r \in RecordsOf(b) THEN Committed(b, r) ELSE record[r]]
    BY DEF CommitImport
  <1>2. ASSUME NEW r \in RecordsOf(b)
        PROVE  /\ DOMAIN Committed(b, r) = DOMAIN NoRecord
               /\ Committed(b, r).method = record[r].method
               /\ Committed(b, r).status \in {record[r].status, "COMMITTED"}
    <2>1. r \in Record
      BY DEF RecordsOf
    <2>2. DOMAIN record[r] = DOMAIN NoRecord
      BY <2>1 DEF Shape
    <2>3. DOMAIN record[r] = {"status", "source", "method", "person", "candidates", "evidence", "outcome"}
      BY <2>2 DEF NoRecord
    <2>4. CASE ~Matched(r) /\ ~Creates(r)
      BY <2>2, <2>3, <2>4 DEF Committed
    <2>5. CASE Matched(r) \/ Creates(r)
      BY <2>2, <2>3, <2>5 DEF Committed
    <2> QED BY <2>4, <2>5
  <1> QED BY <1>1, <1>2 DEF Shape

-----------------------------------------------------------------------------
(* What a Person is before and after the writes of an import.               *)
LEMMA FilledShape ==
  ASSUME Shape, NEW b \in Batch, NEW p \in Person
  PROVE  /\ DOMAIN Filled(b, p) = DOMAIN Absent
         /\ Filled(b, p).type = people[p].type
         /\ Filled(b, p).membership = people[p].membership
         /\ people[p].email # None => Filled(b, p).email = people[p].email
         /\ people[p].mobile.number # None => Filled(b, p).mobile = people[p].mobile
  <1> DEFINE emails == {r \in RowsFor(b, p) : FillsEmail(r)}
             mobiles == {r \in RowsFor(b, p) : FillsMobile(r)}
  <1>1. DOMAIN people[p] = {"type", "email", "mobile", "name", "membership"}
    BY DEF Shape, Absent
  <1>2. people[p].email # None => emails = {}
    BY DEF RowsFor, FillsEmail, PersonOf
  <1>3. people[p].mobile.number # None => mobiles = {}
    BY DEF RowsFor, FillsMobile, PersonOf
  <1> DEFINE email == IF emails = {} THEN people[p].email ELSE record[Latest(emails)].source.email
             mobile == IF mobiles = {} THEN people[p].mobile ELSE record[Latest(mobiles)].source.mobile
  <1>4. Filled(b, p) = [people[p] EXCEPT !.email = email, !.mobile = mobile]
    BY <1>1 DEF Filled
  <1>5. /\ people[p].email # None => email = people[p].email
        /\ people[p].mobile.number # None => mobile = people[p].mobile
    BY <1>2, <1>3
  <1> HIDE DEF email, mobile
  <1>6. DOMAIN people[p] = DOMAIN Absent
    BY DEF Shape
  <1> QED BY <1>1, <1>4, <1>5, <1>6

(* Joining a membership changes nothing but the membership, and never an    *)
(* existing one.                                                            *)
LEMMA JoinedShape ==
  ASSUME NEW b, NEW line, DOMAIN line = DOMAIN Absent
  PROVE  /\ DOMAIN Joined(b, line) = DOMAIN Absent
         /\ Joined(b, line).type = line.type
         /\ Joined(b, line).email = line.email /\ Joined(b, line).mobile = line.mobile
         /\ line.membership # "NONE" => Joined(b, line).membership = line.membership
  BY DEF Joined, Absent

(* The new People of an import: each leading row has one of its own, with   *)
(* an id after all those there were.                                        *)
LEMMA NewPeople ==
  ASSUME NEW b \in Batch
  PROVE  /\ \A r \in Leaders(b) : /\ PersonOf(r) \in Nat
                                  /\ Used < PersonOf(r) /\ PersonOf(r) <= Used + Cardinality(Leaders(b))
         /\ \A r, q \in Leaders(b) : PersonOf(r) = PersonOf(q) => r = q
  <1> DEFINE UpTo(r) == {q \in Leaders(b) : q[2] <= r[2]}
  <1>1. ASSUME NEW r \in Leaders(b)
        PROVE  /\ r = <<b, r[2]>> /\ r[2] \in Int
               /\ PersonOf(r) = Used + Cardinality(UpTo(r))
    <2>1. r \in Record /\ r[1] = b /\ Creates(r)
      BY DEF Leaders, RecordsOf
    <2>2. ~Matched(r)
      BY <2>1 DEF Creates, Matched, Create, Match
    <2> QED BY <2>1, <2>2 DEF PersonOf, NewPerson, Record
  <1>0. \A r \in Leaders(b) : r[2] \in Int
    BY <1>1
  <1>2. IsFiniteSet(Leaders(b)) /\ Cardinality(Leaders(b)) \in Nat
    BY RecordsAreFinite, FS_Subset, FS_CardinalityType DEF Leaders
  <1>3. ASSUME NEW r \in Leaders(b)
        PROVE  /\ UpTo(r) \subseteq Leaders(b) /\ IsFiniteSet(UpTo(r)) /\ r \in UpTo(r)
               /\ Cardinality(UpTo(r)) \in Nat /\ Cardinality(UpTo(r)) > 0
               /\ Cardinality(UpTo(r)) <= Cardinality(Leaders(b))
    <2>0. r[2] <= r[2]
      BY <1>0
    <2>1. UpTo(r) \in SUBSET Leaders(b) /\ r \in UpTo(r)
      BY <2>0
    <2> HIDE DEF UpTo
    <2>2. IsFiniteSet(UpTo(r)) /\ Cardinality(UpTo(r)) <= Cardinality(Leaders(b))
      BY <1>2, <2>1, FS_Subset
    <2>3. Cardinality(UpTo(r)) \in Nat /\ Cardinality(UpTo(r)) # 0
      BY <2>1, <2>2, FS_CardinalityType, FS_EmptySet
    <2> QED BY <2>1, <2>2, <2>3
  <1>4. ASSUME NEW r \in Leaders(b), NEW q \in Leaders(b), r[2] < q[2]
        PROVE  Cardinality(UpTo(r)) # Cardinality(UpTo(q))
    <2>0. r[2] \in Int /\ q[2] \in Int /\ q[2] <= q[2] /\ ~(q[2] <= r[2])
      BY <1>0, <1>4
    <2>1. q \notin UpTo(r) /\ q \in UpTo(q)
      BY <2>0
    <2>2. ASSUME NEW x \in UpTo(r) PROVE x \in UpTo(q)
      <3>1. x \in Leaders(b) /\ x[2] \in Int /\ x[2] <= r[2]
        BY <1>0
      <3>2. x[2] <= q[2]
        BY <1>4, <2>0, <3>1
      <3> QED BY <3>1, <3>2
    <2>3. UpTo(r) \in SUBSET UpTo(q)
      BY <2>2
    <2> HIDE DEF UpTo
    <2> QED BY <1>3, <2>1, <2>3, FS_Subset
  <1>5. Used \in Nat
    BY IdsAreFinite DEF Used
  <1> HIDE DEF UpTo
  <1>6. ASSUME NEW r \in Leaders(b), NEW q \in Leaders(b), PersonOf(r) = PersonOf(q)
        PROVE  r = q
    <2>1. Cardinality(UpTo(r)) = Cardinality(UpTo(q))
      BY <1>1, <1>3, <1>5, <1>6
    <2>2. r[2] = q[2]
      BY <1>1, <1>4, <2>1
    <2> QED BY <1>1, <2>2
  <1> QED BY <1>1, <1>2, <1>3, <1>5, <1>6

(* What an import writes about People: the new ones, and for the others     *)
(* only what was missing.                                                   *)
LEMMA CommitPeople ==
  ASSUME Shape, IdsAscend, NEW b \in Batch, CommitImport(b)
  PROVE  /\ DOMAIN people' = Person
         /\ \A p \in Person :
              /\ DOMAIN people'[p] = DOMAIN Absent
              /\ people'[p].type # "NONE" <=> p \in Ids(people) \/ \E r \in Leaders(b) : PersonOf(r) = p
              /\ (\E r \in Leaders(b) : PersonOf(r) = p) => people'[p].type = "BUSINESS"
         /\ \A p \in Ids(people) :
              /\ people'[p].type = people[p].type
              /\ people[p].email # None => people'[p].email = people[p].email
              /\ people[p].mobile.number # None => people'[p].mobile = people[p].mobile
              /\ people[p].membership # "NONE" => people'[p].membership = people[p].membership
  <1>1. people' = [p \in Person |->
          CASE RowsFor(b, p) = {} -> people[p]
            [] \E r \in Leaders(b) : PersonOf(r) = p ->
                 Joined(b, Founded(record[CHOOSE r \in Leaders(b) : PersonOf(r) = p].source))
            [] OTHER -> Joined(b, Filled(b, p))]
    BY DEF CommitImport
  <1>2. ASSUME NEW r \in Leaders(b), NEW p \in Person, PersonOf(r) = p
        PROVE  RowsFor(b, p) # {} /\ p \notin Ids(people)
    <2>1. r \in RowsFor(b, p)
      BY <1>2 DEF Leaders, RowsFor
    <2>2. Used \in Nat /\ Used < p /\ p \in Int
      BY <1>2, NewPeople, IdsAreFinite DEF Used
    <2> QED BY <2>1, <2>2 DEF IdsAscend, Ids, Person
  <1>3. ASSUME NEW p \in Person, \E r \in Leaders(b) : PersonOf(r) = p
        PROVE  DOMAIN people'[p] = DOMAIN Absent /\ people'[p].type = "BUSINESS"
    <2> DEFINE source == record[CHOOSE r \in Leaders(b) : PersonOf(r) = p].source
    <2>1. people'[p] = Joined(b, Founded(source))
      BY <1>1, <1>2, <1>3
    <2>2. DOMAIN Founded(source) = DOMAIN Absent /\ Founded(source).type = "BUSINESS"
      BY DEF Founded, Absent
    <2> HIDE DEF source
    <2> QED BY <2>1, <2>2, JoinedShape
  <1>4. ASSUME NEW p \in Person, ~\E r \in Leaders(b) : PersonOf(r) = p
        PROVE  /\ DOMAIN people'[p] = DOMAIN Absent
               /\ people'[p].type = people[p].type
               /\ people[p].email # None => people'[p].email = people[p].email
               /\ people[p].mobile.number # None => people'[p].mobile = people[p].mobile
               /\ people[p].membership # "NONE" => people'[p].membership = people[p].membership
    <2>1. CASE RowsFor(b, p) = {}
      BY <1>1, <1>4, <2>1 DEF Shape
    <2>2. CASE RowsFor(b, p) # {}
      <3>1. people'[p] = Joined(b, Filled(b, p))
        BY <1>1, <1>4, <2>2
      <3> QED BY <3>1, FilledShape, JoinedShape
    <2> QED BY <2>1, <2>2
  <1>5. DOMAIN people' = Person
    BY <1>1
  <1>6. ASSUME NEW p \in Person
        PROVE  /\ DOMAIN people'[p] = DOMAIN Absent
               /\ people'[p].type # "NONE" <=> p \in Ids(people) \/ \E r \in Leaders(b) : PersonOf(r) = p
               /\ (\E r \in Leaders(b) : PersonOf(r) = p) => people'[p].type = "BUSINESS"
    BY <1>3, <1>4 DEF Ids
  <1>7. \A p \in Ids(people) : p \in Person /\ ~\E r \in Leaders(b) : PersonOf(r) = p
    BY <1>2 DEF Ids
  <1> QED BY <1>4, <1>5, <1>6, <1>7

(* Ids still ascend after an import.                                        *)
LEMMA CommitAscends ==
  ASSUME Shape, IdsAscend, NEW b \in Batch, CommitImport(b)
  PROVE  IdsAscend'
  <1> DEFINE T == {PersonOf(r) : r \in Leaders(b)}
             f == [r \in Leaders(b) |-> PersonOf(r)]
             n == Cardinality(Leaders(b))
  <1>1. Used \in Nat /\ n \in Nat /\ Used + n <= Numbered /\ Numbered \in Nat
    BY IdsAreFinite, RecordsAreFinite, FS_Subset, FS_CardinalityType, ImportAssumption
       DEF Used, Leaders, CommitImport
  <1>2. T \subseteq Person
    BY <1>1, NewPeople DEF Person
  <1>3. IsFiniteSet(T) /\ Cardinality(T) \in Nat
    <2>1. IsFiniteSet(Person)
      BY <1>1, FS_Interval DEF Person
    <2> HIDE DEF T
    <2> QED BY <1>2, <2>1, FS_Subset, FS_CardinalityType
  <1>4. f \in Injection(Leaders(b), T)
    BY NewPeople DEF Injection, IsInjective
  <1>5. n <= Cardinality(T)
    <2> HIDE DEF T, f
    <2> QED BY <1>3, <1>4, FS_Injection
  <1>6. \A p \in T : Used < p /\ p <= Used + n
    BY NewPeople
  <1>7. Ids(people)' = Ids(people) \cup T
    BY <1>2, CommitPeople DEF Ids
  <1>8. Ids(people) \cap T = {}
    BY <1>1, <1>6 DEF IdsAscend, Ids, Person
  <1> HIDE DEF T, f, n
  <1>9. Cardinality(Ids(people) \cup T) = Used + Cardinality(T)
    BY <1>1, <1>3, <1>8, IdsAreFinite, FS_Union, FS_EmptySet DEF Used
  <1>10. Used' = Used + Cardinality(T)
    BY <1>7, <1>9 DEF Used
  <1>11. ASSUME NEW p \in Ids(people)' PROVE p <= Used'
    BY <1>1, <1>2, <1>3, <1>5, <1>6, <1>7, <1>10 DEF IdsAscend, Ids, Person
  <1> QED BY <1>11 DEF IdsAscend

-----------------------------------------------------------------------------
(* Before any upload there are no rows.                                     *)
THEOREM InitRows == Init => RowsInv
  <1> SUFFICES ASSUME Init PROVE RowsInv
    OBVIOUS
  <1>1. Shape
    BY FirstPeopleAssumption DEF Init, Shape, BatchStatus
  <1>2. RowsAreUploaded
    BY DEF Init, RowsAreUploaded, RecordsOf, NoRecord, ByStaff
  <1>3. IdsAscend
    BY FirstPeopleAssumption DEF Init, IdsAscend, Used
  <1> QED BY <1>1, <1>2, <1>3 DEF RowsInv

(* The steps that leave records and People alone.                           *)
LEMMA LifecycleKeepsRows ==
  ASSUME RowsInv, UNCHANGED <<record, people, imported>>,
         status' \in [Batch -> BatchStatus],
         upload' \in [Batch -> {"none", "reading", "staged", "failing", "done", "dead"}],
         checked' \subseteq Batch,
         \A b \in Batch : upload'[b] \in {"none", "reading"} => upload[b] \in {"none", "reading"}
  PROVE  RowsInv'
  <1>1. Shape'
    BY DEF RowsInv, Shape
  <1>2. RowsAreUploaded'
    BY DEF RowsInv, RowsAreUploaded, RecordsOf
  <1>3. IdsAscend'
    BY DEF RowsInv, IdsAscend, Used, Ids
  <1> QED BY <1>1, <1>2, <1>3 DEF RowsInv

(* The steps that change records and leave People alone.                    *)
LEMMA RecordsKeepRows ==
  ASSUME RowsInv, UNCHANGED <<people, imported, checked>>,
         status' \in [Batch -> BatchStatus],
         upload' \in [Batch -> {"none", "reading", "staged", "failing", "done", "dead"}],
         DOMAIN record' = Record,
         \A r \in Record : DOMAIN record'[r] = DOMAIN NoRecord,
         \A r \in Record : record'[r].status \in {"NONE", "STAGED", "REVIEW_REQUIRED"} =>
           record'[r].method \notin ByStaff,
         \A b \in Batch : upload'[b] \in {"none", "reading"} => upload[b] \in {"none", "reading"},
         \A r \in Record : record'[r].status # "NONE" =>
           record[r].status # "NONE" \/ upload'[r[1]] \notin {"none", "reading"}
  PROVE  RowsInv'
  <1>1. Shape'
    BY DEF RowsInv, Shape
  <1>2. RowsAreUploaded'
    BY DEF RowsInv, RowsAreUploaded, RecordsOf
  <1>3. IdsAscend'
    BY DEF RowsInv, IdsAscend, Used, Ids
  <1> QED BY <1>1, <1>2, <1>3 DEF RowsInv

(* Staging writes rows of its own batch only, undecided ones.               *)
LEMMA StageRowsShape ==
  ASSUME Shape, NEW b \in Batch, StageRows(b)
  PROVE  /\ DOMAIN record' = Record
         /\ \A r \in Record : DOMAIN record'[r] = DOMAIN NoRecord
         /\ \A r \in Record : \/ record'[r] = record[r]
                              \/ /\ r[1] = b /\ record'[r].status \in {"STAGED", "INVALID"}
                                 /\ record'[r].method = "NONE" /\ Unwritten(record'[r])
  <1>1. PICK n \in 0 .. Rows : \E lines \in [1 .. n -> Source] :
          record' = [r \in Record |->
            IF r[1] = b /\ r[2] <= n
            THEN [NoRecord EXCEPT !.source = lines[r[2]],
                                  !.status = IF lines[r[2]].valid THEN "STAGED" ELSE "INVALID"]
            ELSE record[r]]
    BY DEF StageRows
  <1>2. PICK lines \in [1 .. n -> Source] :
          record' = [r \in Record |->
            IF r[1] = b /\ r[2] <= n
            THEN [NoRecord EXCEPT !.source = lines[r[2]],
                                  !.status = IF lines[r[2]].valid THEN "STAGED" ELSE "INVALID"]
            ELSE record[r]]
    BY <1>1
  <1>3. ASSUME NEW s
        PROVE  LET new == [NoRecord EXCEPT !.source = s, !.status = IF s.valid THEN "STAGED" ELSE "INVALID"]
               IN  /\ DOMAIN new = DOMAIN NoRecord
                   /\ new.status \in {"STAGED", "INVALID"} /\ new.method = "NONE" /\ Unwritten(new)
    BY DEF NoRecord, Unwritten
  <1>4. DOMAIN record' = Record
    BY <1>2
  <1>5. ASSUME NEW r \in Record
        PROVE  /\ DOMAIN record'[r] = DOMAIN NoRecord
               /\ \/ record'[r] = record[r]
                  \/ /\ r[1] = b /\ record'[r].status \in {"STAGED", "INVALID"}
                     /\ record'[r].method = "NONE" /\ Unwritten(record'[r])
    <2>1. CASE r[1] = b /\ r[2] <= n
      BY <1>2, <1>3, <2>1
    <2>2. CASE ~(r[1] = b /\ r[2] <= n)
      BY <1>2, <2>2 DEF Shape
    <2> QED BY <2>1, <2>2
  <1> QED BY <1>4, <1>5

(* What an upload does, in turn or dying, keeps the invariant of the rows.  *)
LEMMA UploadKeepsRows ==
  ASSUME RowsInv, NEW b \in Batch, StartUpload(b) \/ UploadStep(b) \/ CrashUpload(b)
  PROVE  RowsInv'
  <1> USE DEF RowsInv
  <1>1. CASE StartUpload(b) \/ RejectWorkbook(b) \/ FinishStaging(b) \/ FailUpload(b) \/ CrashUpload(b)
    <2>1. /\ UNCHANGED <<record, people, imported, checked>>
          /\ status' \in [Batch -> BatchStatus]
          /\ upload' \in [Batch -> {"none", "reading", "staged", "failing", "done", "dead"}]
          /\ \A d \in Batch : upload'[d] \in {"none", "reading"} => upload[d] \in {"none", "reading"}
      BY <1>1 DEF StartUpload, RejectWorkbook, FinishStaging, FailUpload, CrashUpload, crmVars, Shape,
                  BatchStatus
    <2> QED BY <2>1, LifecycleKeepsRows DEF Shape
  <1>2. CASE StageRows(b)
    <2>1. /\ UNCHANGED <<status, people, imported, checked>>
          /\ upload' = [upload EXCEPT ![b] = "staged"]
      BY <1>2 DEF StageRows, crmVars
    <2>2. "NONE" \notin ByStaff
      BY DEF ByStaff
    <2>3. /\ DOMAIN record' = Record
          /\ \A r \in Record : DOMAIN record'[r] = DOMAIN NoRecord
          /\ \A r \in Record : \/ record'[r] = record[r]
                               \/ /\ r[1] = b /\ record'[r].status \in {"STAGED", "INVALID"}
                                  /\ record'[r].method = "NONE"
      BY <1>2, StageRowsShape
    <2>4. /\ upload' \in [Batch -> {"none", "reading", "staged", "failing", "done", "dead"}]
          /\ upload'[b] = "staged"
          /\ \A d \in Batch : upload'[d] \in {"none", "reading"} => upload[d] \in {"none", "reading"}
      BY <2>1 DEF Shape
    <2>5. \A r \in Record : record'[r].status \in {"NONE", "STAGED", "REVIEW_REQUIRED"} =>
            record'[r].method \notin ByStaff
      BY <2>2, <2>3 DEF RowsAreUploaded
    <2>6. \A r \in Record : record'[r].status # "NONE" =>
            record[r].status # "NONE" \/ upload'[r[1]] \notin {"none", "reading"}
      BY <2>3, <2>4
    <2>7. status' \in [Batch -> BatchStatus]
      BY <2>1 DEF Shape
    <2> QED BY <2>1, <2>3, <2>4, <2>5, <2>6, <2>7, RecordsKeepRows
  <1>3. CASE AnalyzeUpload(b)
    <2>1. upload[b] = "staged" /\ UNCHANGED <<people, imported, checked>>
      BY <1>3 DEF AnalyzeUpload, crmVars
    <2>2. CASE Analyze(b) /\ upload' = [upload EXCEPT ![b] = "done"]
      <3>1. status' \in [Batch -> BatchStatus]
        <4>1. PICK s \in {"FAILED", "READY_FOR_REVIEW", "READY_FOR_IMPORT"} : status' = [status EXCEPT ![b] = s]
          BY <2>2, AnalyzeShape
        <4> QED BY <4>1 DEF Shape, BatchStatus
      <3> QED BY <2>1, <2>2, <3>1, AnalyzeShape, RecordsKeepRows DEF Shape, RowsAreUploaded
    <2>3. CASE upload' = [upload EXCEPT ![b] = "failing"] /\ UNCHANGED <<status, record>>
      BY <2>1, <2>3, LifecycleKeepsRows DEF Shape
    <2> QED BY <1>3, <2>2, <2>3 DEF AnalyzeUpload
  <1> QED BY <1>1, <1>2, <1>3 DEF UploadStep

(* Analysis and review change rows, never People.                           *)
LEMMA DecisionsKeepRows ==
  ASSUME RowsInv, (\E b \in Batch : PostAnalyze(b)) \/ (\E r \in Record : Resolve(r))
  PROVE  RowsInv'
  <1> USE DEF RowsInv
  <1>1. ASSUME NEW b \in Batch, PostAnalyze(b) PROVE RowsInv'
    <2>1. Analyze(b) /\ UNCHANGED <<upload, people, imported, checked>>
      BY <1>1 DEF PostAnalyze, crmVars
    <2>2. status' \in [Batch -> BatchStatus]
      <3>1. PICK s \in {"FAILED", "READY_FOR_REVIEW", "READY_FOR_IMPORT"} : status' = [status EXCEPT ![b] = s]
        BY <2>1, AnalyzeShape
      <3> QED BY <3>1 DEF Shape, BatchStatus
    <2> QED BY <2>1, <2>2, AnalyzeShape, RecordsKeepRows DEF Shape, RowsAreUploaded
  <1>2. ASSUME NEW r \in Record, Resolve(r) PROVE RowsInv'
    <2>1. UNCHANGED <<upload, people, imported, checked>>
      BY <1>2 DEF Resolve, crmVars
    <2>2. status' \in [Batch -> BatchStatus]
      <3>1. PICK s \in {"READY_FOR_REVIEW", "READY_FOR_IMPORT"} : status' = [status EXCEPT ![r[1]] = s]
        BY <1>2, ResolveShape
      <3> QED BY <3>1 DEF Shape, BatchStatus
    <2> QED BY <1>2, <2>1, <2>2, ResolveShape, RecordsKeepRows DEF Shape, RowsAreUploaded
  <1> QED BY <1>1, <1>2

(* An import writes People: updates keep their shape, new ones get ids of   *)
(* their own.                                                               *)
LEMMA ImportKeepsRows ==
  ASSUME RowsInv, NEW b \in Batch, CheckImport(b) \/ CommitImport(b) \/ AbortImport(b)
  PROVE  RowsInv'
  <1> USE DEF RowsInv
  <1>1. CASE CheckImport(b) \/ AbortImport(b)
    <2>1. UNCHANGED <<status, upload, record, people, imported>> /\ checked' \subseteq Batch
      BY <1>1 DEF CheckImport, AbortImport, crmVars, Shape
    <2> QED BY <2>1, LifecycleKeepsRows DEF Shape
  <1>2. CASE CommitImport(b)
    <2>1. /\ status' = [status EXCEPT ![b] = "IMPORTED"]
          /\ imported' = [imported EXCEPT ![b] = Append(@, Result(b))]
          /\ checked' = checked \ {b} /\ upload' = upload
      BY <1>2 DEF CommitImport
    <2>2. imported' \in [Batch -> Seq(Answer)]
      <3>1. imported \in [Batch -> Seq(Answer)] /\ Result(b) \in Answer
        BY AnswersAreCounts DEF Shape, Answer
      <3> HIDE DEF Answer
      <3> QED BY <2>1, <3>1
    <2>3. Shape'
      BY <1>2, <2>1, <2>2, CommitShape, CommitPeople DEF Shape, BatchStatus, Answer
    <2>4. RowsAreUploaded'
      <3>1. ASSUME NEW r \in Record
            PROVE  /\ record'[r].status # "NONE" => record[r].status # "NONE"
                   /\ record'[r].status \in {"NONE", "STAGED", "REVIEW_REQUIRED"} =>
                        record'[r].method \notin ByStaff
        BY <1>2, CommitShape DEF RowsAreUploaded, RecordsOf
      <3> QED BY <2>1, <3>1 DEF RowsAreUploaded, RecordsOf
    <2> QED BY <1>2, <2>3, <2>4, CommitAscends
  <1> QED BY <1>1, <1>2

(* Staff give new People the next id and change no type.                    *)
LEMMA StaffKeepsRows ==
  ASSUME RowsInv, CreatePerson \/ \E p \in Person : PatchPerson(p) \/ EndMembership(p)
  PROVE  RowsInv'
  <1> USE DEF RowsInv
  <1>1. UNCHANGED <<status, upload, checked, record, imported>>
    BY DEF CreatePerson, PatchPerson, EndMembership
  <1>2. RowsAreUploaded'
    BY <1>1 DEF RowsAreUploaded, RecordsOf
  <1>3. CASE CreatePerson
    <2>1. PICK s \in NewIdentity : people' = [people EXCEPT ![Used + 1] = Founded(s)]
      BY <1>3 DEF CreatePerson
    <2>2. Used \in Nat /\ Used + 1 \in Person /\ Used < Numbered
      BY <1>3, IdsAreFinite, ImportAssumption DEF CreatePerson, Used, Person
    <2>3. DOMAIN Founded(s) = DOMAIN Absent /\ Founded(s).type = "BUSINESS"
      BY DEF Founded, Absent
    <2>4. Shape'
      BY <1>1, <2>1, <2>2, <2>3 DEF Shape
    <2>5. Ids(people)' = Ids(people) \cup {Used + 1}
      BY <2>1, <2>2, <2>3 DEF Shape, Ids
    <2>6. Used + 1 \notin Ids(people)
      BY <2>2 DEF IdsAscend
    <2>7. Cardinality(Ids(people) \cup {Used + 1}) = Used + 1
      BY <2>6, IdsAreFinite, FS_AddElement DEF Used
    <2>8. Used' = Used + 1
      BY <2>5, <2>7 DEF Used
    <2>9. ASSUME NEW p \in Ids(people)' PROVE p <= Used'
      BY <2>2, <2>5, <2>8 DEF IdsAscend, Ids, Person
    <2>10. IdsAscend'
      BY <2>9 DEF IdsAscend
    <2> QED BY <1>2, <2>4, <2>10
  <1>4. ASSUME NEW p \in Person, PatchPerson(p) \/ EndMembership(p) PROVE RowsInv'
    <2>1. /\ DOMAIN people' = Person
          /\ \A q \in Person : DOMAIN people'[q] = DOMAIN Absent /\ people'[q].type = people[q].type
      <3>1. DOMAIN people[p] = {"type", "email", "mobile", "name", "membership"}
        BY DEF Shape, Absent
      <3>2. CASE PatchPerson(p)
        <4>1. PICK s \in NewIdentity : people' = [people EXCEPT ![p].email = s.email, ![p].mobile = s.mobile]
          BY <3>2 DEF PatchPerson
        <4> QED BY <3>1, <4>1 DEF Shape
      <3>3. CASE EndMembership(p)
        <4>1. people' = [people EXCEPT ![p].membership = "FORMER"]
          BY <3>3 DEF EndMembership
        <4> QED BY <3>1, <4>1 DEF Shape
      <3> QED BY <1>4, <3>2, <3>3
    <2>2. Ids(people)' = Ids(people)
      BY <2>1 DEF Ids
    <2>3. IdsAscend'
      BY <2>2 DEF IdsAscend, Used
    <2>4. Shape'
      BY <1>1, <2>1 DEF Shape
    <2> QED BY <1>2, <2>3, <2>4
  <1> QED BY <1>3, <1>4

(* Every step keeps the invariant of the rows.                              *)
THEOREM NextRows == RowsInv /\ [Next]_vars => RowsInv'
  <1> SUFFICES ASSUME RowsInv, [Next]_vars PROVE RowsInv'
    OBVIOUS
  <1>1. CASE UNCHANGED vars
    BY <1>1, LifecycleKeepsRows DEF vars, RowsInv, Shape
  <1>2. CASE Next
    BY <1>2, UploadKeepsRows, DecisionsKeepRows, ImportKeepsRows, StaffKeepsRows DEF Next
  <1> QED BY <1>1, <1>2

(* The invariant of records and People holds.                               *)
THEOREM RowsInvariance == Spec => []RowsInv
  BY InitRows, NextRows, PTL DEF Spec

-----------------------------------------------------------------------------
(* Before any upload no batch has had a turn.                               *)
THEOREM InitTurns == Init => TurnsInv
  BY DEF Init, TurnsInv, BatchesInTurn, ImportedAtMostOnce, NoRecord

(* A step of one batch disturbs the turns of no other.                      *)
LEMMA OneBatch ==
  ASSUME TurnsInv, NEW b \in Batch,
         \A d \in Batch : d # b => /\ status'[d] = status[d] /\ upload'[d] = upload[d]
                                   /\ d \in checked' <=> d \in checked
                                   /\ imported'[d] = imported[d],
         \A r \in Record : r[1] # b => record'[r] = record[r],
         upload'[b] = "none" <=> status'[b] = "NONE",
         upload'[b] \in {"reading", "staged", "failing"} => status'[b] = "PROCESSING",
         b \in checked' => status'[b] = "READY_FOR_IMPORT",
         \A r \in Record : r[1] = b /\ record'[r].status = "REVIEW_REQUIRED" =>
           upload'[b] \in {"done", "dead"} /\ b \notin checked' /\ status'[b] # "IMPORTED",
         Len(imported'[b]) = IF status'[b] = "IMPORTED" THEN 1 ELSE 0
  PROVE  TurnsInv'
  <1>1. \A r \in Record : r[1] \in Batch
    BY DEF Record
  <1>2. BatchesInTurn'
    BY <1>1 DEF TurnsInv, BatchesInTurn
  <1>3. ImportedAtMostOnce'
    BY DEF TurnsInv, ImportedAtMostOnce
  <1> QED BY <1>2, <1>3 DEF TurnsInv

(* How far a batch is when its upload or its import goes on.                *)
LEMMA TurnOf ==
  ASSUME Shape, TurnsInv, NEW b \in Batch
  PROVE  /\ upload[b] = "none" <=> status[b] = "NONE"
         /\ upload[b] \in {"reading", "staged", "failing"} => status[b] = "PROCESSING"
         /\ upload[b] \in {"none", "reading", "staged", "failing"} => b \notin checked
         /\ b \in checked => status[b] = "READY_FOR_IMPORT"
         /\ \A r \in Record : r[1] = b /\ record[r].status = "REVIEW_REQUIRED" =>
              upload[b] \in {"done", "dead"} /\ b \notin checked /\ status[b] # "IMPORTED"
         /\ Len(imported[b]) = IF status[b] = "IMPORTED" THEN 1 ELSE 0
  BY DEF TurnsInv, BatchesInTurn, ImportedAtMostOnce

(* An analysis, by the upload or by staff, is of a batch that was not       *)
(* imported.                                                                *)
LEMMA AnalyzeKeepsTurns ==
  ASSUME Shape, TurnsInv, NEW b \in Batch, Analyze(b), Unlocked(b), AnalysisAllowed(b),
         upload'[b] \in {"done", "dead"}, \A d \in Batch : d # b => upload'[d] = upload[d],
         UNCHANGED <<checked, imported>>
  PROVE  TurnsInv'
  <1>1. PICK s \in {"FAILED", "READY_FOR_REVIEW", "READY_FOR_IMPORT"} : status' = [status EXCEPT ![b] = s]
    BY AnalyzeShape
  <1>2. \A r \in Record : r[1] # b => record'[r] = record[r]
    BY AnalyzeShape
  <1>3. b \notin checked' /\ status[b] # "IMPORTED"
    BY DEF Unlocked, AnalysisAllowed
  <1>4. status'[b] = s /\ \A d \in Batch : d # b => status'[d] = status[d]
    BY <1>1 DEF Shape
  <1>5. Len(imported'[b]) = IF status'[b] = "IMPORTED" THEN 1 ELSE 0
    BY <1>3, <1>4, TurnOf
  <1> QED BY <1>2, <1>3, <1>4, <1>5, OneBatch

(* An upload writes only the status of its own batch, which nobody has      *)
(* imported.                                                                *)
LEMMA UploadKeepsTurns ==
  ASSUME RowsInv, TurnsInv, NEW b \in Batch, StartUpload(b) \/ UploadStep(b) \/ CrashUpload(b)
  PROVE  TurnsInv'
  <1>0. Shape
    BY DEF RowsInv
  <1>1. CASE StartUpload(b) \/ RejectWorkbook(b) \/ FinishStaging(b) \/ FailUpload(b) \/ CrashUpload(b)
    <2>1. UNCHANGED <<record, checked, imported>>
      BY <1>1 DEF StartUpload, RejectWorkbook, FinishStaging, FailUpload, CrashUpload, crmVars
    <2>2. /\ \A d \in Batch : d # b => status'[d] = status[d] /\ upload'[d] = upload[d]
          /\ upload[b] \in {"none", "reading", "staged", "failing"}
          /\ \/ upload'[b] = "reading" /\ status'[b] = "PROCESSING"
             \/ upload'[b] = "done" /\ status'[b] \in {"FAILED", "STAGED"}
             \/ upload'[b] = "dead" /\ status'[b] = status[b] /\ upload[b] # "none"
      BY <1>0, <1>1 DEF StartUpload, RejectWorkbook, FinishStaging, FailUpload, CrashUpload, Shape
    <2>3. /\ b \notin checked /\ status[b] # "IMPORTED" /\ status'[b] \notin {"IMPORTED", "NONE"}
          /\ \A r \in Record : r[1] = b => record[r].status # "REVIEW_REQUIRED"
      BY <1>0, <2>2, TurnOf
    <2>4. Len(imported'[b]) = IF status'[b] = "IMPORTED" THEN 1 ELSE 0
      BY <1>0, <2>1, <2>3, TurnOf
    <2> QED BY <2>1, <2>2, <2>3, <2>4, OneBatch
  <1>2. CASE StageRows(b)
    <2>1. /\ UNCHANGED <<status, checked, imported>>
          /\ upload[b] = "reading" /\ upload' = [upload EXCEPT ![b] = "staged"]
      BY <1>2 DEF StageRows, crmVars
    <2>2. upload'[b] = "staged" /\ \A d \in Batch : d # b => upload'[d] = upload[d]
      BY <1>0, <2>1 DEF Shape
    <2>3. /\ \A r \in Record : r[1] # b => record'[r] = record[r]
          /\ \A r \in Record : r[1] = b => record'[r].status # "REVIEW_REQUIRED"
      BY <1>0, <1>2, <2>1, StageRowsShape, TurnOf
    <2>4. b \notin checked /\ status[b] = "PROCESSING" /\ Len(imported[b]) = 0
      BY <1>0, <2>1, TurnOf
    <2> QED BY <2>1, <2>2, <2>3, <2>4, OneBatch
  <1>3. CASE AnalyzeUpload(b)
    <2>1. upload[b] = "staged" /\ Unlocked(b) /\ UNCHANGED <<imported, checked>>
      BY <1>3 DEF AnalyzeUpload, crmVars
    <2>2. CASE AnalysisAllowed(b) /\ Analyze(b) /\ upload' = [upload EXCEPT ![b] = "done"]
      <3>1. upload'[b] = "done" /\ \A d \in Batch : d # b => upload'[d] = upload[d]
        BY <1>0, <2>2 DEF Shape
      <3> QED BY <1>0, <2>1, <2>2, <3>1, AnalyzeKeepsTurns
    <2>3. CASE upload' = [upload EXCEPT ![b] = "failing"] /\ UNCHANGED <<status, record>>
      <3>1. upload'[b] = "failing" /\ \A d \in Batch : d # b => upload'[d] = upload[d]
        BY <1>0, <2>3 DEF Shape
      <3>2. /\ b \notin checked /\ status[b] = "PROCESSING" /\ Len(imported[b]) = 0
            /\ \A r \in Record : r[1] = b => record[r].status # "REVIEW_REQUIRED"
        BY <1>0, <2>1, TurnOf
      <3> QED BY <2>1, <2>3, <3>1, <3>2, OneBatch
    <2> QED BY <1>3, <2>2, <2>3 DEF AnalyzeUpload
  <1> QED BY <1>1, <1>2, <1>3 DEF UploadStep

(* A review is open only in a batch that is not imported, so its decision   *)
(* revives no imported batch.                                               *)
LEMMA DecisionsKeepTurns ==
  ASSUME MayPostEarly = FALSE, RowsInv, TurnsInv,
         (\E b \in Batch : PostAnalyze(b)) \/ (\E r \in Record : Resolve(r))
  PROVE  TurnsInv'
  <1>0. Shape
    BY DEF RowsInv
  <1>1. ASSUME NEW b \in Batch, PostAnalyze(b) PROVE TurnsInv'
    <2>1. /\ Analyze(b) /\ Unlocked(b) /\ AnalysisAllowed(b) /\ upload[b] \in {"done", "dead"}
          /\ UNCHANGED <<upload, checked, imported>>
      BY <1>1 DEF PostAnalyze, crmVars
    <2> QED BY <1>0, <2>1, AnalyzeKeepsTurns
  <1>2. ASSUME NEW r \in Record, Resolve(r) PROVE TurnsInv'
    <2>1. PICK b \in Batch : b = r[1]
      BY DEF Record
    <2>2. UNCHANGED <<upload, checked, imported>>
      BY <1>2 DEF Resolve, crmVars
    <2>3. PICK s \in {"READY_FOR_REVIEW", "READY_FOR_IMPORT"} : status' = [status EXCEPT ![b] = s]
      BY <1>0, <1>2, <2>1, ResolveShape
    <2>4. status'[b] = s /\ \A d \in Batch : d # b => status'[d] = status[d]
      BY <1>0, <2>3 DEF Shape
    <2>5. record[r].status = "REVIEW_REQUIRED" /\ \A q \in Record : q # r => record'[q] = record[q]
      BY <1>0, <1>2, ResolveShape
    <2>6. upload[b] \in {"done", "dead"} /\ b \notin checked /\ status[b] # "IMPORTED"
      BY <1>0, <2>1, <2>5, TurnOf
    <2>7. Len(imported'[b]) = 0
      BY <1>0, <2>2, <2>6, TurnOf
    <2> QED BY <2>1, <2>2, <2>4, <2>5, <2>6, <2>7, OneBatch
  <1> QED BY <1>1, <1>2

(* An import holds a batch that is ready and has nothing to review; when it *)
(* ends, the batch is imported and nothing takes it back.                   *)
LEMMA ImportKeepsTurns ==
  ASSUME RowsInv, TurnsInv, NEW b \in Batch, CheckImport(b) \/ CommitImport(b) \/ AbortImport(b)
  PROVE  TurnsInv'
  <1>0. Shape
    BY DEF RowsInv
  <1>1. CASE CheckImport(b)
    <2>1. /\ Unlocked(b) /\ status[b] = "READY_FOR_IMPORT" /\ Preflight(b) /\ checked' = checked \cup {b}
          /\ UNCHANGED <<status, upload, record, imported>>
      BY <1>1 DEF CheckImport, Ready, crmVars
    <2>2. \A r \in Record : r[1] = b => record[r].status # "REVIEW_REQUIRED"
      BY <2>1 DEF Preflight, Settled, RecordsOf
    <2> QED BY <1>0, <2>1, <2>2, OneBatch, TurnOf
  <1>2. CASE AbortImport(b)
    <2>1. /\ b \in checked /\ checked' = checked \ {b}
          /\ UNCHANGED <<status, upload, record, imported>>
      BY <1>2 DEF AbortImport, crmVars
    <2> QED BY <1>0, <2>1, OneBatch, TurnOf
  <1>3. CASE CommitImport(b)
    <2>1. /\ b \in checked /\ checked' = checked \ {b} /\ upload' = upload
          /\ status' = [status EXCEPT ![b] = "IMPORTED"]
          /\ imported' = [imported EXCEPT ![b] = Append(@, Result(b))]
      BY <1>3 DEF CommitImport
    <2>2. status'[b] = "IMPORTED" /\ \A d \in Batch : d # b =>
            status'[d] = status[d] /\ imported'[d] = imported[d]
      BY <1>0, <2>1 DEF Shape
    <2>3. Len(imported'[b]) = 1
      <3>1. Len(imported[b]) = 0
        BY <1>0, <2>1, TurnOf
      <3>2. imported[b] \in Seq(Answer) /\ Result(b) \in Answer
        BY <1>0, AnswersAreCounts DEF Shape, Answer
      <3>3. imported'[b] = Append(imported[b], Result(b))
        BY <1>0, <2>1 DEF Shape
      <3> HIDE DEF Answer
      <3> QED BY <3>1, <3>2, <3>3
    <2>4. \A r \in Record : r[1] # b => record'[r] = record[r]
      BY <1>0, <1>3, CommitShape DEF RecordsOf
    <2>5. \A r \in Record : r[1] = b => record'[r].status # "REVIEW_REQUIRED"
      BY <1>0, <1>3, <2>1, CommitShape, TurnOf
    <2>6. upload[b] \in {"done", "dead"}
      BY <1>0, <2>1, TurnOf DEF Shape
    <2> QED BY <2>1, <2>2, <2>3, <2>4, <2>5, <2>6, OneBatch
  <1> QED BY <1>1, <1>2, <1>3

(* Every step keeps the turns of the batches when nobody posts to one still *)
(* read.                                                                    *)
THEOREM NextTurns ==
  ASSUME MayPostEarly = FALSE PROVE RowsInv /\ TurnsInv /\ [Next]_vars => TurnsInv'
  <1> SUFFICES ASSUME RowsInv, TurnsInv, [Next]_vars PROVE TurnsInv'
    OBVIOUS
  <1>1. CASE CreatePerson \/ \E p \in Person : PatchPerson(p) \/ EndMembership(p)
    <2>1. UNCHANGED <<status, upload, checked, record, imported>>
      BY <1>1 DEF CreatePerson, PatchPerson, EndMembership
    <2> QED BY <2>1 DEF TurnsInv, BatchesInTurn, ImportedAtMostOnce
  <1>2. CASE UNCHANGED vars
    BY <1>2 DEF vars, TurnsInv, BatchesInTurn, ImportedAtMostOnce
  <1> QED BY <1>1, <1>2, UploadKeepsTurns, DecisionsKeepTurns, ImportKeepsTurns DEF Next

(* The turns of the batches, from the first upload on.                      *)
LEMMA TurnsInvariance == ASSUME MayPostEarly = FALSE PROVE Spec => []TurnsInv
  BY InitTurns, NextTurns, RowsInvariance, PTL DEF Spec

(* No batch is imported twice, whatever staff post and whenever, as long as *)
(* no analysis is posted for a batch that is still uploading.               *)
THEOREM NoSecondImport == ASSUME MayPostEarly = FALSE PROVE Spec => []ImportedAtMostOnce
  BY TurnsInvariance, PTL DEF TurnsInv

-----------------------------------------------------------------------------
(* An analysis that is allowed assesses the batch, or fails it.             *)
LEMMA AnalysisFollows ==
  ASSUME Shape, NEW b \in Batch, Analyze(b), AnalysisAllowed(b)
  PROVE  Lifecycle!Next
  <1>1. PICK s \in {"FAILED", "READY_FOR_REVIEW", "READY_FOR_IMPORT"} : status' = [status EXCEPT ![b] = s]
    BY AnalyzeShape
  <1>2. status[b] \in Lifecycle!Status \ Lifecycle!Terminal
    BY DEF AnalysisAllowed, Lifecycle!Status, Lifecycle!Terminal
  <1>3. Lifecycle!Assess(b) \/ Lifecycle!Fail(b)
    BY <1>1, <1>2 DEF Lifecycle!Assess, Lifecycle!Fail, Lifecycle!Become
  <1> QED BY <1>3 DEF Lifecycle!Next

(* The status of a batch moves only along the documented life cycle.        *)
LEMMA UploadFollows ==
  ASSUME RowsInv, TurnsInv, NEW b \in Batch, StartUpload(b) \/ UploadStep(b) \/ CrashUpload(b)
  PROVE  Lifecycle!Next \/ UNCHANGED status
  <1>0. Shape
    BY DEF RowsInv
  <1>1. CASE StartUpload(b)
    <2>1. Lifecycle!Upload(b)
      BY <1>0, <1>1, TurnOf DEF StartUpload, Lifecycle!Upload, Lifecycle!Become
    <2> QED BY <2>1 DEF Lifecycle!Next
  <1>2. CASE RejectWorkbook(b) \/ FailUpload(b)
    <2>1. Lifecycle!Fail(b)
      BY <1>0, <1>2, TurnOf DEF RejectWorkbook, FailUpload, Lifecycle!Fail, Lifecycle!Become,
         Lifecycle!Status, Lifecycle!Terminal
    <2> QED BY <2>1 DEF Lifecycle!Next
  <1>3. CASE FinishStaging(b)
    <2>1. Lifecycle!Stage(b)
      BY <1>0, <1>3, TurnOf DEF FinishStaging, Lifecycle!Stage, Lifecycle!Become
    <2> QED BY <2>1 DEF Lifecycle!Next
  <1>4. CASE StageRows(b) \/ CrashUpload(b)
    BY <1>4 DEF StageRows, CrashUpload
  <1>5. CASE AnalyzeUpload(b)
    BY <1>0, <1>5, AnalysisFollows DEF AnalyzeUpload
  <1> QED BY <1>1, <1>2, <1>3, <1>4, <1>5 DEF UploadStep

(* With nobody posting to a batch still read, every status follows the      *)
(* documented life cycle, whatever staff and imports do, except that a      *)
(* review of a failed batch can still be decided and revives it.            *)
THEOREM LifecycleIsFollowed ==
  ASSUME MayPostEarly = FALSE PROVE Spec => LifecycleUnlessRevived
  <1>1. Init => Lifecycle!Init
    BY DEF Init, Lifecycle!Init
  <1>2. ASSUME RowsInv, TurnsInv, [Next]_vars PROVE [Lifecycle!Next \/ Revives]_status
    <2> USE <1>2
    <2>0. Shape
      BY DEF RowsInv
    <2>1. ASSUME NEW b \in Batch, PostAnalyze(b) PROVE Lifecycle!Next
      BY <2>0, <2>1, AnalysisFollows DEF PostAnalyze
    <2>2. ASSUME NEW r \in Record, Resolve(r) PROVE Lifecycle!Next \/ Revives
      <3>1. PICK b \in Batch : b = r[1]
        BY DEF Record
      <3>2. PICK s \in {"READY_FOR_REVIEW", "READY_FOR_IMPORT"} : status' = [status EXCEPT ![b] = s]
        BY <2>0, <2>2, <3>1, ResolveShape
      <3>3. record[r].status = "REVIEW_REQUIRED"
        BY <2>0, <2>2, ResolveShape
      <3>4. status[b] \in BatchStatus \ {"NONE", "IMPORTED"}
        BY <2>0, <3>1, <3>3, TurnOf DEF Shape
      <3>5. CASE status[b] = "FAILED"
        BY <3>2, <3>5 DEF Revives
      <3>6. CASE status[b] # "FAILED"
        <4>1. Lifecycle!Assess(b)
          BY <3>2, <3>4, <3>6 DEF BatchStatus, Lifecycle!Assess, Lifecycle!Become,
             Lifecycle!Status, Lifecycle!Terminal
        <4> QED BY <4>1 DEF Lifecycle!Next
      <3> QED BY <3>5, <3>6
    <2>3. ASSUME NEW b \in Batch, CommitImport(b) PROVE Lifecycle!Next
      <3>1. Lifecycle!Import(b)
        BY <2>0, <2>3, TurnOf DEF CommitImport, Lifecycle!Import, Lifecycle!Become
      <3> QED BY <3>1 DEF Lifecycle!Next
    <2>4. ASSUME NEW b \in Batch, CheckImport(b) \/ AbortImport(b) PROVE UNCHANGED status
      BY <2>4 DEF CheckImport, AbortImport
    <2>5. CASE CreatePerson \/ \E p \in Person : PatchPerson(p) \/ EndMembership(p)
      BY <2>5 DEF CreatePerson, PatchPerson, EndMembership
    <2>6. CASE UNCHANGED vars
      BY <2>6 DEF vars
    <2> QED BY <2>1, <2>2, <2>3, <2>4, <2>5, <2>6, UploadFollows DEF Next
  <1> QED BY <1>1, <1>2, RowsInvariance, TurnsInvariance, PTL DEF Spec, LifecycleUnlessRevived

-----------------------------------------------------------------------------
(* What staff decided about a record stays, unless the batch fails.         *)
THEOREM DecisionsStand == Spec => StaffDecisionsStand
  <1>1. ASSUME RowsInv, [Next]_vars, NEW r \in Record, record[r].method \in ByStaff
        PROVE  record'[r].method = record[r].method \/ status'[r[1]] = "FAILED"
    <2>0. Shape /\ RowsAreUploaded
      BY <1>1 DEF RowsInv
    <2>1. CASE UNCHANGED record
      BY <2>1
    <2>2. ASSUME NEW b \in Batch, Analyze(b)
          PROVE  record'[r].method = record[r].method \/ status'[r[1]] = "FAILED"
      BY <1>1, <2>0, <2>2, AnalyzeShape
    <2>3. ASSUME NEW b \in Batch, StageRows(b)
          PROVE  record'[r].method = record[r].method
      <3>1. upload[b] = "reading"
        BY <2>3 DEF StageRows
      <3>2. r[1] # b
        BY <1>1, <2>0, <3>1 DEF RowsAreUploaded, RecordsOf
      <3> QED BY <2>0, <2>3, <3>2, StageRowsShape
    <2>4. ASSUME NEW q \in Record, Resolve(q)
          PROVE  record'[r].method = record[r].method
      <3>1. r # q
        BY <1>1, <2>0, <2>4, ResolveShape DEF RowsAreUploaded
      <3> QED BY <2>0, <2>4, <3>1, ResolveShape
    <2>5. ASSUME NEW b \in Batch, CommitImport(b)
          PROVE  record'[r].method = record[r].method
      BY <2>0, <2>5, CommitShape
    <2> QED BY <1>1, <2>1, <2>2, <2>3, <2>4, <2>5
            DEF Next, vars, UploadStep, StartUpload, RejectWorkbook, FinishStaging, AnalyzeUpload,
                FailUpload, CrashUpload, PostAnalyze, CheckImport, AbortImport, CreatePerson,
                PatchPerson, EndMembership
  <1>2. RowsInv /\ [Next]_vars =>
          [\A r \in Record : record[r].method \in ByStaff =>
             record'[r].method = record[r].method \/ status'[r[1]] = "FAILED"]_vars
    BY <1>1
  <1> QED BY <1>2, RowsInvariance, PTL DEF Spec, StaffDecisionsStand

(* An import fills in what was missing and overwrites nothing: no row of a  *)
(* new Person has the id of one that was there.                             *)
THEOREM ImportsOnlyFill == Spec => ImportOnlyFills
  <1>1. ASSUME RowsInv, [Next]_vars, imported' # imported, NEW p \in Business(people)
        PROVE  /\ people[p].email # None => people'[p].email = people[p].email
               /\ people[p].mobile.number # None => people'[p].mobile = people[p].mobile
               /\ people[p].membership # "NONE" => people'[p].membership = people[p].membership
    <2>1. PICK b \in Batch : CommitImport(b)
      BY <1>1 DEF Next, vars, crmVars, UploadStep, StartUpload, StageRows, RejectWorkbook, FinishStaging,
                  AnalyzeUpload, FailUpload, CrashUpload, PostAnalyze, CheckImport, AbortImport,
                  Resolve, CreatePerson, PatchPerson, EndMembership
    <2>2. Shape /\ IdsAscend /\ p \in Ids(people)
      BY <1>1 DEF RowsInv, Shape, Business, Ids
    <2> QED BY <2>1, <2>2, CommitPeople
  <1>2. RowsInv /\ [Next]_vars =>
          [imported' # imported => \A p \in Business(people) :
             /\ people[p].email # None => people'[p].email = people[p].email
             /\ people[p].mobile.number # None => people'[p].mobile = people[p].mobile
             /\ people[p].membership # "NONE" => people'[p].membership = people[p].membership]_vars
    BY <1>1
  <1> QED BY <1>2, RowsInvariance, PTL DEF Spec, ImportOnlyFills

-----------------------------------------------------------------------------
(* A set of numbers that is not empty has a least element.                  *)
LEMMA LeastNumber ==
  ASSUME NEW n \in Nat, NEW T \in SUBSET (1 .. n), T # {}
  PROVE  \E x \in T : \A y \in T : x <= y
  <1> DEFINE C == {1 .. x : x \in T}
  <1>1. IsFiniteSet(1 .. n)
    <2>1. 1 \in Int /\ n \in Int
      OBVIOUS
    <2> QED BY <2>1, FS_Interval
  <1>2. IsWellFoundedOn(StrictSubsetOrdering(1 .. n), SUBSET (1 .. n))
    <2>1. FiniteSubsetsOf(1 .. n) = SUBSET (1 .. n)
      BY <1>1, FS_FiniteSubsetsOfFinite
    <2>2. IsWellFoundedOn(StrictSubsetOrdering(1 .. n), FiniteSubsetsOf(1 .. n))
      BY FS_StrictSubsetOrderingWellFounded
    <2> QED BY <2>1, <2>2
  <1>3. C \subseteq SUBSET (1 .. n) /\ C # {}
    <2>1. \A x \in T : 1 .. x \subseteq 1 .. n
      OBVIOUS
    <2> QED BY <2>1
  <1>4. PICK X \in C : \A Y \in C : ~(<<Y, X>> \in StrictSubsetOrdering(1 .. n))
    <2> HIDE DEF C
    <2> QED BY <1>2, <1>3, WFMin
  <1>5. PICK x \in T : X = 1 .. x
    BY <1>4
  <1>6. ASSUME NEW y \in T, y < x PROVE FALSE
    <2>1. 1 .. y \in C /\ 1 .. y \subseteq 1 .. x /\ x \notin 1 .. y /\ x \in 1 .. x
      BY <1>6
    <2>2. <<1 .. y, X>> \in StrictSubsetOrdering(1 .. n)
      BY <1>3, <1>4, <1>5, <2>1 DEF StrictSubsetOrdering
    <2> QED BY <1>4, <2>1, <2>2
  <1> QED BY <1>6

(* ... and a largest one.                                                   *)
LEMMA LargestNumber ==
  ASSUME NEW n \in Nat, NEW T \in SUBSET (1 .. n), T # {}
  PROVE  \E x \in T : \A y \in T : x >= y
  <1> DEFINE U == {n + 1 - x : x \in T}
  <1>1. U \in SUBSET (1 .. n) /\ U # {}
    <2>1. \A x \in T : n + 1 - x \in 1 .. n
      OBVIOUS
    <2> QED BY <2>1
  <1>2. PICK u \in U : \A v \in U : u <= v
    <2> HIDE DEF U
    <2> QED BY <1>1, LeastNumber
  <1>3. PICK x \in T : u = n + 1 - x
    BY <1>2
  <1>4. ASSUME NEW y \in T PROVE x >= y
    <2>1. u <= n + 1 - y
      BY <1>2
    <2> QED BY <1>3, <2>1
  <1> QED BY <1>4

(* The recursion of Leads, as a condition on the set of rows that lead.     *)
LeadersTo(b, n, L) ==
  \A i \in 1 .. n : i \in L <=>
    /\ Creates(<<b, i>>)
    /\ \A j \in 1 .. (i - 1) :
         j \in L => ~SharesSignal(record[<<b, j>>].source, record[<<b, i>>].source)

LEMMA LeadersExist ==
  ASSUME NEW b \in Batch
  PROVE  \E L \in SUBSET (1 .. Rows) : LeadersTo(b, Rows, L)
  <1> DEFINE Without == {n \in 1 .. Rows : ~\E L \in SUBSET (1 .. n) : LeadersTo(b, n, L)}
  <1>0. Rows \in Nat \ {0}
    BY ImportAssumption
  <1>1. SUFFICES ASSUME Without # {} PROVE FALSE
    <2>1. Rows \notin Without
      BY <1>1
    <2> QED BY <1>0, <2>1
  <1>2. PICK n \in Without : \A m \in Without : n <= m
    <2>1. Without \in SUBSET (1 .. Rows)
      OBVIOUS
    <2> HIDE DEF Without
    <2> QED BY <1>0, <1>1, <2>1, LeastNumber
  <1>3. PICK L \in SUBSET (1 .. (n - 1)) : LeadersTo(b, n - 1, L)
    <2>1. CASE n = 1
      <3>1. 1 .. (n - 1) = {}
        BY <2>1
      <3>2. LeadersTo(b, n - 1, {})
        BY <3>1 DEF LeadersTo
      <3> QED BY <3>2
    <2>2. CASE n # 1
      <3>1. n - 1 \in 1 .. Rows /\ n - 1 \notin Without
        BY <1>0, <1>2, <2>2
      <3> QED BY <3>1
    <2> QED BY <2>1, <2>2
  <1> DEFINE leads == /\ Creates(<<b, n>>)
                      /\ \A j \in 1 .. (n - 1) : j \in L =>
                           ~SharesSignal(record[<<b, j>>].source, record[<<b, n>>].source)
             M == L \cup (IF leads THEN {n} ELSE {})
  <1>4. n \in 1 .. Rows /\ M \in SUBSET (1 .. n) /\ (n \in M <=> leads)
        /\ \A i \in 1 .. (n - 1) : i \in M <=> i \in L
    BY <1>0, <1>2, <1>3
  <1> HIDE DEF M
  <1>5. LeadersTo(b, n, M)
    <2> SUFFICES ASSUME NEW i \in 1 .. n
                 PROVE  i \in M <=>
                          /\ Creates(<<b, i>>)
                          /\ \A j \in 1 .. (i - 1) : j \in M =>
                               ~SharesSignal(record[<<b, j>>].source, record[<<b, i>>].source)
      BY DEF LeadersTo
    <2>1. CASE i = n
      BY <1>4, <2>1
    <2>2. CASE i # n
      <3>1. i \in 1 .. (n - 1) /\ \A j \in 1 .. (i - 1) : j \in 1 .. (n - 1)
        BY <1>4, <2>2
      <3>2. \A j \in 1 .. (i - 1) : j \in M <=> j \in L
        BY <1>4, <3>1
      <3> QED BY <1>3, <1>4, <3>1, <3>2 DEF LeadersTo
    <2> QED BY <2>1, <2>2
  <1> QED BY <1>2, <1>4, <1>5

(* A row leads if it creates a Person and no row that leads before it has   *)
(* a signal of its.                                                         *)
LEMMA LeadsAre ==
  ASSUME NEW b \in Batch
  PROVE  /\ DOMAIN Leads(b) = 1 .. Rows
         /\ \A i \in 1 .. Rows : Leads(b)[i] <=>
              /\ Creates(<<b, i>>)
              /\ \A j \in 1 .. (i - 1) :
                   Leads(b)[j] => ~SharesSignal(record[<<b, j>>].source, record[<<b, i>>].source)
  <1> DEFINE Step(g) == [i \in 1 .. Rows |->
                /\ Creates(<<b, i>>)
                /\ \A j \in 1 .. (i - 1) :
                     g[j] => ~SharesSignal(record[<<b, j>>].source, record[<<b, i>>].source)]
  <1>1. PICK L \in SUBSET (1 .. Rows) : LeadersTo(b, Rows, L)
    BY LeadersExist
  <1> DEFINE f == [i \in 1 .. Rows |-> i \in L]
  <1>2. f = Step(f)
    <2>0. Rows \in Nat
      BY ImportAssumption
    <2>1. ASSUME NEW i \in 1 .. Rows PROVE f[i] = Step(f)[i]
      <3>1. \A j \in 1 .. (i - 1) : j \in 1 .. Rows
        BY <2>0
      <3>2. \A j \in 1 .. (i - 1) : f[j] <=> j \in L
        BY <3>1
      <3>3. i \in L <=> /\ Creates(<<b, i>>)
                        /\ \A j \in 1 .. (i - 1) : f[j] =>
                             ~SharesSignal(record[<<b, j>>].source, record[<<b, i>>].source)
        BY <1>1, <3>2 DEF LeadersTo
      <3>4. f[i] = (i \in L)
        OBVIOUS
      <3>5. Step(f)[i] = (/\ Creates(<<b, i>>)
                        /\ \A j \in 1 .. (i - 1) : f[j] =>
                             ~SharesSignal(record[<<b, j>>].source, record[<<b, i>>].source))
        <4> HIDE DEF f
        <4> QED OBVIOUS
      <3> HIDE DEF f, Step
      <3> QED BY <3>3, <3>4, <3>5
    <2> QED BY <2>1
  <1>3. Leads(b) = CHOOSE g : g = Step(g)
    BY DEF Leads
  <1>4. Leads(b) = Step(Leads(b))
    <2> HIDE DEF f, Step
    <2> QED BY <1>2, <1>3
  <1> QED BY <1>4

-----------------------------------------------------------------------------
(* Every row that creates a Person shares the one of a leading row: its own *)
(* or that of the last one before it with a signal of its.                  *)
LEMMA EveryRowHasAPerson ==
  ASSUME NEW b \in Batch, NEW r \in RecordsOf(b), Creates(r)
  PROVE  \E q \in Leaders(b) : PersonOf(q) = PersonOf(r)
  <1>1. CASE r \in Leaders(b)
    BY <1>1
  <1>2. CASE r \notin Leaders(b)
    <2>1. r = <<b, r[2]>> /\ r[2] \in 1 .. Rows /\ ~Leads(b)[r[2]] /\ Rows \in Nat
      BY <1>2, ImportAssumption DEF RecordsOf, Record, Leaders
    <2>2. LeadersOf(r) # {} /\ LeadersOf(r) \in SUBSET (1 .. Rows)
      BY <2>1, LeadsAre DEF LeadersOf
    <2> DEFINE m == Max(LeadersOf(r))
    <2>3. m \in LeadersOf(r)
      BY <2>1, <2>2, LargestNumber DEF Max
    <2>4. m \in 1 .. Rows /\ Leads(b)[m]
      BY <2>1, <2>2, <2>3 DEF LeadersOf
    <2> HIDE DEF m
    <2> DEFINE q == <<b, m>>
    <2>5. q \in Record /\ q[1] = b /\ q[2] = m /\ Creates(q)
      BY <2>4, LeadsAre DEF Record
    <2>6. q \in Leaders(b)
      BY <2>4, <2>5 DEF Leaders, RecordsOf, Creates
    <2>7. ~Matched(r) /\ ~Matched(q)
      BY <2>5 DEF Creates, Matched, Create, Match
    <2> HIDE DEF q
    <2>8. PersonOf(r) = NewPerson(b, m) /\ PersonOf(q) = NewPerson(b, m)
      <3>1. r[1] = b
        BY DEF RecordsOf
      <3> QED BY <1>2, <2>5, <2>6, <2>7, <3>1 DEF PersonOf, m
    <2> QED BY <2>6, <2>8
  <1> QED BY <1>1, <1>2

(* People stay BUSINESS People while an import writes, and the new ones are *)
(* People.                                                                  *)
LEMMA CommitBusiness ==
  ASSUME Shape, IdsAscend, NEW b \in Batch, CommitImport(b)
  PROVE  /\ Business(people) \subseteq Business(people)'
         /\ \A r \in Leaders(b) : PersonOf(r) \in Business(people)'
  <1>1. \A r \in Leaders(b) : PersonOf(r) \in Person
    <2>1. Used + Cardinality(Leaders(b)) <= Numbered
      BY DEF CommitImport
    <2>2. Used \in Nat /\ Cardinality(Leaders(b)) \in Nat /\ Numbered \in Nat
      BY IdsAreFinite, RecordsAreFinite, FS_Subset, FS_CardinalityType, ImportAssumption DEF Used, Leaders
    <2> QED BY <2>1, <2>2, NewPeople DEF Person
  <1>2. Business(people) \subseteq Ids(people)
    BY DEF Shape, Business, Ids
  <1>3. \A p \in Business(people) : p \in Business(people)'
    BY <1>2, CommitPeople DEF Business, Ids
  <1> QED BY <1>1, <1>3, CommitPeople DEF Business

(* What an import makes of a row: an invalid one is skipped, any other has  *)
(* its Person, who is new if the row leads.                                 *)
LEMMA CommitRecords ==
  ASSUME Shape, IdsAscend, ChecksHold, NEW b \in Batch, CommitImport(b), NEW r \in RecordsOf(b)
  PROVE  \/ /\ record'[r].status = "INVALID" /\ record'[r].outcome = "SKIPPED"
            /\ r \notin Leaders(b)
         \/ /\ record'[r].status = "COMMITTED"
            /\ record'[r].person = PersonOf(r) /\ PersonOf(r) \in Business(people)'
            /\ record'[r].outcome = IF r \in Leaders(b) THEN "CREATED" ELSE "EXISTING"
  <1>1. r \in Record /\ b \in checked /\ record'[r] = Committed(b, r)
    BY DEF CommitImport, RecordsOf
  <1>2. DOMAIN record[r] = {"status", "source", "method", "person", "candidates", "evidence", "outcome"}
    BY <1>1 DEF Shape, NoRecord
  <1>3. /\ record[r].status \in {"INVALID", "RESOLVED"}
        /\ Matched(r) => record[r].person \in Business(people)
        /\ record[r].status = "RESOLVED" => Matched(r) \/ Creates(r)
    BY <1>1 DEF ChecksHold, Settled, Matched, Creates
  <1>4. CASE ~Matched(r) /\ ~Creates(r)
    <2>1. record[r].status = "INVALID" /\ r \notin Leaders(b)
      BY <1>3, <1>4 DEF Leaders
    <2>2. record'[r] = [record[r] EXCEPT !.outcome = "SKIPPED"]
      BY <1>1, <1>4 DEF Committed
    <2> QED BY <1>2, <2>1, <2>2
  <1>5. CASE Matched(r) \/ Creates(r)
    <2> DEFINE outcome == IF r \in Leaders(b) THEN "CREATED" ELSE "EXISTING"
    <2>1. record'[r] = [record[r] EXCEPT !.status = "COMMITTED", !.person = PersonOf(r), !.outcome = outcome]
      BY <1>1, <1>5 DEF Committed
    <2> HIDE DEF outcome
    <2>2. record'[r].status = "COMMITTED" /\ record'[r].person = PersonOf(r) /\ record'[r].outcome = outcome
      BY <1>2, <2>1
    <2>3. CASE Matched(r)
      <3>1. PersonOf(r) = record[r].person
        BY <2>3 DEF PersonOf
      <3> QED BY <1>3, <2>2, <2>3, <3>1, CommitBusiness DEF outcome
    <2>4. CASE Creates(r)
      <3>1. PersonOf(r) \in Business(people)'
        BY <2>4, EveryRowHasAPerson, CommitBusiness
      <3> QED BY <2>2, <3>1 DEF outcome
    <2> QED BY <1>5, <2>3, <2>4
  <1> QED BY <1>4, <1>5

(* A step that writes no outcome leaves what imports have written.          *)
LEMMA UnwrittenKeeps ==
  ASSUME WrittenInv, UNCHANGED <<audit, imported>>,
         \A b \in Batch : status'[b] = "IMPORTED" <=> status[b] = "IMPORTED",
         Business(people) \subseteq Business(people)',
         \A r \in Record : \/ record'[r] = record[r]
                           \/ /\ r[1] \notin checked' /\ status[r[1]] # "IMPORTED"
                              /\ Unwritten(record'[r]),
         \A b \in checked' : b \in checked \/ \A r \in RecordsOf(b) :
            Settled(r) /\ (Matched(r) => record[r].person \in Business(people))
  PROVE  WrittenInv'
  <1> USE DEF WrittenInv
  <1>0. \A r \in Record : r[1] \in Batch
    BY DEF Record
  <1>1. ChecksHold'
    <2>1. \A r \in Record : record'[r].status = "RESOLVED" => record'[r].method \in Create \cup Match
      BY DEF ChecksHold, Unwritten
    <2>2. ASSUME NEW b \in checked', NEW r \in RecordsOf(b)'
          PROVE  (Settled(r) /\ (Matched(r) => record[r].person \in Business(people)))'
      <3>1. r \in Record /\ r[1] = b /\ record'[r] = record[r] /\ r \in RecordsOf(b)
        BY DEF RecordsOf
      <3>2. Settled(r) /\ (Matched(r) => record[r].person \in Business(people))
        BY <3>1 DEF ChecksHold
      <3> QED BY <3>1, <3>2 DEF Settled, Matched
    <2> QED BY <2>1, <2>2 DEF ChecksHold
  <1>2. WritesStay'
    <2> SUFFICES ASSUME NEW r \in Record
                 PROVE  (/\ record[r].outcome # "NONE" => status[r[1]] = "IMPORTED"
                         /\ status[r[1]] = "IMPORTED" =>
                              \/ record[r].status = "NONE" /\ record[r].outcome = "NONE"
                              \/ record[r].status = "INVALID" /\ record[r].outcome = "SKIPPED"
                              \/ /\ record[r].status = "COMMITTED" /\ record[r].outcome \in {"CREATED", "EXISTING"}
                                 /\ record[r].person \in Business(people))'
      BY DEF WritesStay
    <2>1. CASE record'[r] = record[r]
      BY <1>0, <2>1 DEF WritesStay
    <2>2. CASE status[r[1]] # "IMPORTED" /\ Unwritten(record'[r])
      BY <1>0, <2>2 DEF Unwritten
    <2> QED BY <2>1, <2>2
  <1>3. ASSUME NEW e \in audit, e.action = "PERSON_CREATED"
        PROVE  /\ e.record \in Record /\ record[e.record].outcome = "CREATED"
               /\ record'[e.record] = record[e.record]
               /\ e = [action |-> "PERSON_CREATED", person |-> record[e.record].person, record |-> e.record]
    BY <1>3 DEF CreationsAreRecorded, WritesStay
  <1>4. CreationsAreRecorded'
    BY <1>3 DEF CreationsAreRecorded
  <1>5. ProvenanceIsUnique'
    <2> DEFINE creations == {entry \in audit : entry.action = "PERSON_CREATED"}
    <2>1. creations' = creations
      OBVIOUS
    <2>2. ASSUME NEW r \in Record
          PROVE  record'[r].outcome = "CREATED" <=>
                   [action |-> "PERSON_CREATED", person |-> record'[r].person, record |-> r] \in creations'
      <3>1. CASE record'[r] = record[r]
        BY <3>1, <2>1 DEF ProvenanceIsUnique
      <3>2. CASE status[r[1]] # "IMPORTED" /\ Unwritten(record'[r])
        BY <1>3, <3>2 DEF Unwritten, WritesStay
      <3> QED BY <3>1, <3>2
    <2> QED BY <2>1, <2>2 DEF ProvenanceIsUnique
  <1> QED BY <1>1, <1>2, <1>4, <1>5

(* Staff around the imports take nobody away, and give nothing to nobody.   *)
LEMMA StaffKeepsPeople ==
  ASSUME Shape, CreatePerson \/ \E p \in Person : PatchPerson(p) \/ EndMembership(p)
  PROVE  /\ Business(people) \subseteq Business(people)'
         /\ \A p \in Person : people'[p].type = "NONE" =>
              people[p].type = "NONE" /\ (people'[p] = people[p] \/ people[p] # Absent)
  <1>1. ASSUME NEW p \in Person PROVE DOMAIN people[p] = {"type", "email", "mobile", "name", "membership"}
    BY DEF Shape, Absent
  <1>2. CASE CreatePerson
    <2>1. PICK s \in NewIdentity : people' = [people EXCEPT ![Used + 1] = Founded(s)]
      BY <1>2 DEF CreatePerson
    <2>2. Founded(s).type = "BUSINESS"
      BY DEF Founded
    <2> QED BY <2>1, <2>2 DEF Shape, Business
  <1>3. ASSUME NEW p \in Person, PatchPerson(p)
        PROVE  /\ Business(people) \subseteq Business(people)'
               /\ \A q \in Person : people'[q].type = "NONE" =>
                    people[q].type = "NONE" /\ people'[q] = people[q]
    <2>1. PICK s \in NewIdentity : people' = [people EXCEPT ![p].email = s.email, ![p].mobile = s.mobile]
      BY <1>3 DEF PatchPerson
    <2>2. people[p].type = "BUSINESS"
      BY <1>3 DEF PatchPerson, Business
    <2> QED BY <1>1, <2>1, <2>2 DEF Shape, Business
  <1>4. ASSUME NEW p \in Person, EndMembership(p)
        PROVE  /\ Business(people) \subseteq Business(people)'
               /\ \A q \in Person : people'[q].type = "NONE" =>
                    people[q].type = "NONE" /\ (people'[q] = people[q] \/ people[q] # Absent)
    <2>1. people' = [people EXCEPT ![p].membership = "FORMER"] /\ people[p] # Absent
      BY <1>4 DEF EndMembership, Absent
    <2> QED BY <1>1, <2>1 DEF Shape, Business
  <1> QED BY <1>2, <1>3, <1>4

(* Nothing but an import writes outcomes or takes a BUSINESS Person away.   *)
LEMMA OnlyImportsWrite ==
  ASSUME MayPostEarly = FALSE, RowsInv, TurnsInv, WrittenInv, [Next]_vars,
         ~\E b \in Batch : CommitImport(b)
  PROVE  WrittenInv'
  <1>0. Shape /\ IdsAscend
    BY DEF RowsInv
  <1>1. ASSUME NEW b \in Batch, StartUpload(b) \/ RejectWorkbook(b) \/ FinishStaging(b) \/ FailUpload(b)
                                \/ CrashUpload(b) \/ AbortImport(b)
        PROVE  WrittenInv'
    <2>1. UNCHANGED <<record, people, audit, imported>> /\ checked' \subseteq checked
      BY <1>1 DEF StartUpload, RejectWorkbook, FinishStaging, FailUpload, CrashUpload, AbortImport, crmVars
    <2>2. \A d \in Batch : status'[d] = "IMPORTED" <=> status[d] = "IMPORTED"
      BY <1>0, <1>1, TurnOf DEF StartUpload, RejectWorkbook, FinishStaging, FailUpload, CrashUpload,
                                AbortImport, Shape
    <2> QED BY <2>1, <2>2, UnwrittenKeeps DEF Business
  <1>2. ASSUME NEW b \in Batch, StageRows(b) PROVE WrittenInv'
    <2>1. /\ UNCHANGED <<status, checked, people, audit, imported>> /\ upload[b] = "reading"
      BY <1>2 DEF StageRows, crmVars
    <2>2. status[b] = "PROCESSING" /\ b \notin checked
      BY <1>0, <2>1, TurnOf
    <2>3. \A r \in Record : record'[r] = record[r] \/ (r[1] = b /\ Unwritten(record'[r]))
      BY <1>0, <1>2, StageRowsShape
    <2> QED BY <2>1, <2>2, <2>3, UnwrittenKeeps DEF Business
  <1>3. ASSUME NEW b \in Batch, Analyze(b), Unlocked(b), AnalysisAllowed(b),
               UNCHANGED <<checked, people, audit, imported>>
        PROVE  WrittenInv'
    <2>1. b \notin checked /\ status[b] # "IMPORTED"
      BY <1>3 DEF Unlocked, AnalysisAllowed
    <2>2. \A d \in Batch : status'[d] = "IMPORTED" <=> status[d] = "IMPORTED"
      <3>1. PICK s \in {"FAILED", "READY_FOR_REVIEW", "READY_FOR_IMPORT"} : status' = [status EXCEPT ![b] = s]
        BY <1>0, <1>3, AnalyzeShape
      <3> QED BY <1>0, <2>1, <3>1 DEF Shape
    <2>3. \A r \in Record : record'[r] = record[r] \/ (r[1] = b /\ Unwritten(record'[r]))
      BY <1>0, <1>3, AnalyzeShape
    <2> QED BY <1>3, <2>1, <2>2, <2>3, UnwrittenKeeps DEF Business
  <1>4. ASSUME NEW b \in Batch, AnalyzeUpload(b) \/ PostAnalyze(b) PROVE WrittenInv'
    <2>1. Unlocked(b) /\ UNCHANGED <<checked, people, audit, imported>>
      BY <1>4 DEF AnalyzeUpload, PostAnalyze, crmVars
    <2>2. CASE AnalysisAllowed(b) /\ Analyze(b)
      BY <1>3, <2>1, <2>2
    <2>3. CASE UNCHANGED <<status, record>>
      BY <2>1, <2>3, UnwrittenKeeps DEF Business
    <2> QED BY <1>4, <2>2, <2>3 DEF AnalyzeUpload, PostAnalyze
  <1>5. ASSUME NEW r \in Record, Resolve(r) PROVE WrittenInv'
    <2>1. PICK b \in Batch : b = r[1]
      BY DEF Record
    <2>2. UNCHANGED <<checked, people, audit, imported>>
      BY <1>5 DEF Resolve, crmVars
    <2>3. record[r].status = "REVIEW_REQUIRED" /\ Unwritten(record'[r])
          /\ \A q \in Record : q # r => record'[q] = record[q]
      BY <1>0, <1>5, ResolveShape
    <2>4. b \notin checked /\ status[b] # "IMPORTED"
      BY <1>0, <2>1, <2>3, TurnOf
    <2>5. \A d \in Batch : status'[d] = "IMPORTED" <=> status[d] = "IMPORTED"
      BY <1>0, <1>5, <2>1, <2>4, ResolveShape DEF Shape
    <2> QED BY <2>1, <2>2, <2>3, <2>4, <2>5, UnwrittenKeeps DEF Business
  <1>6. ASSUME NEW b \in Batch, CheckImport(b) PROVE WrittenInv'
    <2>1. UNCHANGED <<status, record, people, audit, imported>> /\ checked' = checked \cup {b} /\ Preflight(b)
      BY <1>6 DEF CheckImport, crmVars
    <2> QED BY <2>1, UnwrittenKeeps DEF Business, Preflight
  <1>7. ASSUME CreatePerson \/ \E p \in Person : PatchPerson(p) \/ EndMembership(p)
        PROVE  WrittenInv'
    <2>1. UNCHANGED <<status, checked, record, audit, imported>>
      BY <1>7 DEF CreatePerson, PatchPerson, EndMembership
    <2>2. Business(people) \subseteq Business(people)'
      BY <1>0, <1>7, StaffKeepsPeople
    <2> QED BY <2>1, <2>2, UnwrittenKeeps
  <1>8. CASE UNCHANGED vars
    BY <1>8, UnwrittenKeeps DEF vars, Business
  <1> QED BY <1>1, <1>2, <1>4, <1>5, <1>6, <1>7, <1>8 DEF Next, UploadStep

(* An import writes each row of its batch once and says in the trail which  *)
(* row created whom.                                                        *)
LEMMA CommitWrites ==
  ASSUME RowsInv, TurnsInv, WrittenInv, NEW b \in Batch, CommitImport(b)
  PROVE  WrittenInv'
  <1> USE DEF WrittenInv
  <1>0. Shape /\ IdsAscend /\ ChecksHold
    BY DEF RowsInv
  <1>1. /\ b \in checked /\ checked' = checked \ {b}
        /\ audit' = audit \cup Events(b)
        /\ status' = [status EXCEPT ![b] = "IMPORTED"]
        /\ imported' = [imported EXCEPT ![b] = Append(@, Result(b))]
        /\ \A r \in Record : r \notin RecordsOf(b) => record'[r] = record[r]
    BY DEF CommitImport
  <1>2. status[b] = "READY_FOR_IMPORT" /\ Len(imported[b]) = 0
    BY <1>0, <1>1, TurnOf
  <1>3. status'[b] = "IMPORTED" /\ \A d \in Batch : d # b => status'[d] = status[d] /\ imported'[d] = imported[d]
    BY <1>0, <1>1 DEF Shape
  <1>4. imported'[b][1] = Result(b)
    <2>1. imported[b] \in Seq(Answer) /\ Result(b) \in Answer
      BY <1>0, AnswersAreCounts DEF Shape, Answer
    <2>2. imported'[b] = Append(imported[b], Result(b))
      BY <1>0, <1>1 DEF Shape
    <2> HIDE DEF Answer
    <2> QED BY <1>2, <2>1, <2>2
  <1>5. \A r \in Record : r[1] \in Batch /\ (r \in RecordsOf(b) <=> r[1] = b /\ record[r].status # "NONE")
    BY DEF Record, RecordsOf
  <1>6. Business(people) \subseteq Business(people)'
    BY <1>0, CommitBusiness
  <1>7. ChecksHold'
    <2>1. \A r \in Record : record'[r].status = "RESOLVED" => record'[r].method \in Create \cup Match
      BY <1>0, <1>1, CommitRecords DEF ChecksHold
    <2>2. ASSUME NEW d \in checked', NEW r \in RecordsOf(d)'
          PROVE  (Settled(r) /\ (Matched(r) => record[r].person \in Business(people)))'
      <3>1. r \in Record /\ r[1] = d /\ d # b /\ d \in checked
        BY <1>1 DEF RecordsOf
      <3>2. record'[r] = record[r] /\ r \in RecordsOf(d)
        BY <1>1, <1>5, <3>1 DEF RecordsOf
      <3>3. Settled(r) /\ (Matched(r) => record[r].person \in Business(people))
        BY <3>1, <3>2 DEF ChecksHold
      <3> QED BY <1>6, <3>2, <3>3 DEF Settled, Matched
    <2> QED BY <2>1, <2>2 DEF ChecksHold
  <1>8. WritesStay'
    <2> SUFFICES ASSUME NEW r \in Record
                 PROVE  (/\ record[r].outcome # "NONE" => status[r[1]] = "IMPORTED"
                         /\ status[r[1]] = "IMPORTED" =>
                              \/ record[r].status = "NONE" /\ record[r].outcome = "NONE"
                              \/ record[r].status = "INVALID" /\ record[r].outcome = "SKIPPED"
                              \/ /\ record[r].status = "COMMITTED" /\ record[r].outcome \in {"CREATED", "EXISTING"}
                                 /\ record[r].person \in Business(people))'
      BY DEF WritesStay
    <2>1. CASE r \in RecordsOf(b)
      BY <1>0, <1>3, <1>5, <2>1, CommitRecords
    <2>2. CASE r \notin RecordsOf(b) /\ r[1] = b
      BY <1>1, <1>2, <1>3, <1>5, <2>2 DEF WritesStay
    <2>3. CASE r[1] # b
      BY <1>1, <1>3, <1>5, <1>6, <2>3 DEF WritesStay
    <2> QED BY <2>1, <2>2, <2>3
  <1> DEFINE creations == {entry \in audit : entry.action = "PERSON_CREATED"}
             Of(d) == {entry \in creations : entry.record[1] = d}
             E(r) == [action |-> "PERSON_CREATED", person |-> PersonOf(r), record |-> r]
             new == {E(r) : r \in Leaders(b)}
  <1>9. ASSUME NEW e \in creations
        PROVE  /\ e.record \in Record /\ record[e.record].outcome = "CREATED"
               /\ record'[e.record] = record[e.record] /\ e.record[1] # b
               /\ e = [action |-> "PERSON_CREATED", person |-> record[e.record].person, record |-> e.record]
               /\ e.person \in Business(people)
    <2>1. /\ e.record \in Record /\ record[e.record].outcome = "CREATED"
          /\ e = [action |-> "PERSON_CREATED", person |-> record[e.record].person, record |-> e.record]
      BY DEF CreationsAreRecorded
    <2>2. /\ status[e.record[1]] = "IMPORTED" /\ record[e.record].person \in Business(people)
      BY <2>1 DEF WritesStay
    <2>3. e.person = record[e.record].person
      <3> DEFINE x == record[e.record].person
                 y == e.record
      <3>1. e = [action |-> "PERSON_CREATED", person |-> x, record |-> y]
        BY <2>1
      <3> HIDE DEF x, y
      <3>2. e.person = x
        BY <3>1
      <3> QED BY <3>2 DEF x
    <2> QED BY <1>1, <1>2, <1>5, <2>1, <2>2, <2>3
  <1>10. creations' = creations \cup new
    <2>1. \A e \in Events(b) : e.action = "PERSON_CREATED" <=> e \in new
      BY DEF Events
    <2>2. new \subseteq Events(b)
      BY DEF Events
    <2> HIDE DEF new
    <2> QED BY <1>1, <2>1, <2>2
  <1>11. ASSUME NEW r \in Leaders(b)
         PROVE  /\ r \in Record /\ r[1] = b /\ record'[r].outcome = "CREATED"
                /\ record'[r].person = PersonOf(r)
    <2>1. r \in RecordsOf(b)
      BY DEF Leaders
    <2> QED BY <1>0, <1>5, <2>1, CommitRecords DEF RecordsOf
  <1>12. \A r \in Leaders(b) : E(r).action = "PERSON_CREATED" /\ E(r).person = PersonOf(r) /\ E(r).record = r
    OBVIOUS
  <1>13. CreationsAreRecorded'
    <2> SUFFICES ASSUME NEW e \in creations'
                 PROVE  /\ e.record \in Record /\ record'[e.record].outcome = "CREATED"
                        /\ e = [action |-> "PERSON_CREATED", person |-> record'[e.record].person, record |-> e.record]
      BY DEF CreationsAreRecorded
    <2>1. CASE e \in creations
      BY <1>9, <2>1
    <2>2. CASE e \in new
      BY <1>11, <2>2
    <2> HIDE DEF creations, new
    <2> QED BY <1>10, <2>1, <2>2
  <1>14. ASSUME NEW e \in creations', NEW f \in creations', e.person = f.person
         PROVE  e = f
    <2>1. \A g \in creations : g.person \in Int /\ g.person <= Used
      <3>1. \A p \in Business(people) : p \in Ids(people) /\ p \in Int
        BY <1>0 DEF Shape, Business, Ids, Person
      <3> QED BY <1>0, <1>9, <3>1 DEF IdsAscend
    <2>2. \A g \in new : \E r \in Leaders(b) : g = E(r) /\ g.person = PersonOf(r) /\ g.person \in Int /\ Used < g.person
      BY NewPeople
    <2>3. Used \in Nat
      BY IdsAreFinite DEF Used
    <2>4. CASE e \in creations /\ f \in creations
      BY <1>14, <2>4 DEF ProvenanceIsUnique
    <2>5. CASE e \in new /\ f \in new
      BY <1>14, <2>2, <2>5, NewPeople
    <2>6. CASE (e \in creations /\ f \in new) \/ (e \in new /\ f \in creations)
      <3> HIDE DEF creations, new
      <3> QED BY <1>14, <2>1, <2>2, <2>3, <2>6
    <2> HIDE DEF creations, new
    <2> QED BY <1>10, <2>4, <2>5, <2>6
  <1>15. ASSUME NEW r \in Record
         PROVE  record'[r].outcome = "CREATED" <=>
                  [action |-> "PERSON_CREATED", person |-> record'[r].person, record |-> r] \in creations'
    <2> DEFINE e == [action |-> "PERSON_CREATED", person |-> record'[r].person, record |-> r]
    <2>1. ASSUME e \in creations' PROVE record'[r].outcome = "CREATED"
      BY <1>13, <2>1 DEF CreationsAreRecorded
    <2>2. ASSUME record'[r].outcome = "CREATED", r \in RecordsOf(b) PROVE e \in creations'
      <3>1. r \in Leaders(b)
        BY <1>0, <2>2, CommitRecords
      <3>2. e = E(r)
        BY <1>11, <3>1
      <3>3. E(r) \in new
        BY <3>1
      <3> HIDE DEF creations, new, e, E
      <3> QED BY <1>10, <3>2, <3>3
    <2>3. ASSUME record'[r].outcome = "CREATED", r \notin RecordsOf(b) PROVE e \in creations'
      <3>1. record'[r] = record[r]
        BY <1>1, <2>3
      <3>2. e \in creations
        BY <2>3, <3>1 DEF ProvenanceIsUnique
      <3> HIDE DEF creations, new, e
      <3> QED BY <1>10, <3>2
    <2> HIDE DEF creations
    <2> QED BY <2>1, <2>2, <2>3
  <1>16. \A e \in new : e.record[1] = b
    BY <1>11
  <1>17. Of(b)' = new /\ \A d \in Batch : d # b => Of(d)' = Of(d)
    <2>1. \A e \in creations : e.record[1] # b
      BY <1>9
    <2>2. \A d \in Batch : Of(d)' = {entry \in creations' : entry.record[1] = d}
      OBVIOUS
    <2> HIDE DEF creations, new
    <2> QED BY <1>10, <1>16, <2>1, <2>2
  <1>18. Cardinality(new) = Cardinality(Leaders(b))
    <2> DEFINE f == [r \in Leaders(b) |-> E(r)]
    <2>1. f \in Bijection(Leaders(b), new)
      BY <1>12 DEF Bijection, Injection, Surjection, IsInjective
    <2>2. IsFiniteSet(Leaders(b))
      BY RecordsAreFinite, FS_Subset DEF Leaders
    <2> HIDE DEF f, new
    <2> QED BY <2>1, <2>2, FS_Bijection DEF ExistsBijection
  <1>19. ASSUME NEW d \in Batch, status'[d] = "IMPORTED"
         PROVE  imported'[d][1].created = Cardinality(Of(d)')
    <2>1. CASE d = b
      <3>1. Result(b).created = Cardinality(Leaders(b))
        BY DEF Result
      <3> HIDE DEF Of, new
      <3> QED BY <1>4, <1>17, <1>18, <2>1, <3>1
    <2>2. CASE d # b
      <3>1. imported[d][1].created = Cardinality(Of(d))
        BY <1>3, <1>19, <2>2 DEF ProvenanceIsUnique
      <3> QED BY <1>3, <1>17, <2>2, <3>1
    <2> QED BY <2>1, <2>2
  <1>20. ProvenanceIsUnique'
    BY <1>14, <1>15, <1>19 DEF ProvenanceIsUnique
  <1> QED BY <1>7, <1>8, <1>13, <1>20

(* Before any upload nothing is written.                                    *)
LEMMA InitWritten == Init => WrittenInv
  <1> SUFFICES ASSUME Init PROVE WrittenInv
    OBVIOUS
  <1>1. audit = {} /\ checked = {} /\ \A b \in Batch : status[b] = "NONE"
    BY DEF Init
  <1>2. \A r \in Record : r[1] \in Batch /\ record[r].status = "NONE" /\ record[r].outcome = "NONE"
    BY DEF Init, Record, NoRecord
  <1> QED BY <1>1, <1>2 DEF WrittenInv, ChecksHold, WritesStay, CreationsAreRecorded, ProvenanceIsUnique

(* What imports have written stays written.                                 *)
THEOREM WrittenInvariance == ASSUME MayPostEarly = FALSE PROVE Spec => []WrittenInv
  <1>1. RowsInv /\ TurnsInv /\ WrittenInv /\ [Next]_vars => WrittenInv'
    BY OnlyImportsWrite, CommitWrites
  <1> QED BY <1>1, InitWritten, RowsInvariance, TurnsInvariance, PTL DEF Spec

(* The trail names one record for every Person that imports have created,   *)
(* and as many as each import has answered.                                 *)
THEOREM ProvenanceHolds == ASSUME MayPostEarly = FALSE PROVE Spec => []ProvenanceIsUnique
  BY WrittenInvariance, PTL DEF WrittenInv

(* No row of an imported batch is left over.                                *)
THEOREM ImportsAreComplete == ASSUME MayPostEarly = FALSE PROVE Spec => []ImportedIsComplete
  <1>1. ASSUME WrittenInv, NEW b \in Batch, status[b] = "IMPORTED"
        PROVE  /\ Summary(b).committed + Summary(b).invalid = Summary(b).total
               /\ \A r \in RecordsOf(b) :
                    IF record[r].status = "INVALID" THEN record[r].outcome = "SKIPPED"
                    ELSE record[r].person \in Business(people)
    <2>1. \A r \in RecordsOf(b) :
            \/ record[r].status = "INVALID" /\ record[r].outcome = "SKIPPED"
            \/ record[r].status = "COMMITTED" /\ record[r].person \in Business(people)
      BY <1>1 DEF WrittenInv, WritesStay, RecordsOf
    <2> DEFINE With(s) == {r \in RecordsOf(b) : record[r].status = s}
    <2>2. With("COMMITTED") \cup With("INVALID") = RecordsOf(b) /\ With("COMMITTED") \cap With("INVALID") = {}
      BY <2>1
    <2>3. IsFiniteSet(With("COMMITTED")) /\ IsFiniteSet(With("INVALID"))
      BY RecordsAreFinite, FS_Subset
    <2>4. /\ Summary(b).committed = Cardinality(With("COMMITTED"))
          /\ Summary(b).invalid = Cardinality(With("INVALID"))
          /\ Summary(b).total = Cardinality(RecordsOf(b))
      BY DEF Summary
    <2> HIDE DEF With
    <2>5. Cardinality(With("COMMITTED")) \in Nat /\ Cardinality(With("INVALID")) \in Nat
      BY <2>3, FS_CardinalityType
    <2>6. Cardinality(With("COMMITTED") \cap With("INVALID")) = 0
      BY <2>2, FS_EmptySet
    <2>7. Cardinality(RecordsOf(b)) =
            Cardinality(With("COMMITTED")) + Cardinality(With("INVALID")) - Cardinality(With("COMMITTED") \cap With("INVALID"))
      BY <2>2, <2>3, FS_Union
    <2>8. Cardinality(RecordsOf(b)) = Cardinality(With("COMMITTED")) + Cardinality(With("INVALID"))
      BY <2>5, <2>6, <2>7
    <2> QED BY <2>1, <2>4, <2>8
  <1>2. WrittenInv => ImportedIsComplete
    BY <1>1 DEF ImportedIsComplete
  <1> QED BY <1>2, WrittenInvariance, PTL

-----------------------------------------------------------------------------
(* What a record is, next to the BUSINESS People there are.                 *)
Fits(rec, known) ==
  /\ rec.status \in RecordStatus
  /\ rec.status # "NONE" => rec.source \in Source
  /\ rec.status = "RESOLVED" /\ rec.method \in Match => rec.person \in rec.candidates \cap known
  /\ rec.status = "RESOLVED" /\ rec.method \in Create => rec.person = 0

(* Nothing is out of type while records fit and nobody is taken away.       *)
LEMMA FitKeeps ==
  ASSUME TypeOK, RowsInv', TurnsInv',
         Business(people) \subseteq Business(people)', UNCHANGED participation,
         \A p \in Person : people'[p].type = "NONE" => people'[p] = Absent,
         \A r \in Record : record'[r] = record[r] \/ Fits(record'[r], Business(people)')
  PROVE  TypeOK'
  <1>1. /\ status' \in [Batch -> BatchStatus]
        /\ upload' \in [Batch -> {"none", "reading", "staged", "failing", "done", "dead"}]
        /\ checked' \subseteq {b \in Batch : status'[b] # "NONE"}
    BY DEF RowsInv, Shape, TurnsInv, BatchesInTurn
  <1>2. participation' \subseteq Event \X Business(people)'
    BY DEF TypeOK
  <1>3. ASSUME NEW r \in Record
        PROVE  (/\ record[r].status \in RecordStatus
                /\ record[r].status # "NONE" => record[r].source \in Source
                /\ Matched(r) => record[r].person \in record[r].candidates \cap Business(people)
                /\ Creates(r) => record[r].person = 0)'
    <2>1. CASE record'[r] = record[r]
      BY <2>1 DEF TypeOK, Matched, Creates
    <2>2. CASE Fits(record'[r], Business(people)')
      BY <2>2 DEF Fits, Matched, Creates
    <2> QED BY <2>1, <2>2
  <1> QED BY <1>1, <1>2, <1>3 DEF TypeOK

(* What a batch is recorded as stays, where neither its rows nor its status *)
(* change.                                                                  *)
LEMMA RecordedKept ==
  ASSUME NEW b \in Batch, Recorded(b), status'[b] = status[b],
         \A r \in Record : r[1] = b => record'[r] = record[r]
  PROVE  Recorded(b)'
  <1>1. RecordsOf(b)' = RecordsOf(b) /\ \A r \in RecordsOf(b) : record'[r] = record[r]
    BY DEF RecordsOf
  <1>2. ReviewQueue(b)' = ReviewQueue(b)
    BY <1>1 DEF ReviewQueue
  <1>3. Revived(b)' <=> Revived(b)
    BY <1>1 DEF Revived
  <1> QED BY <1>1, <1>2, <1>3 DEF Recorded

(* While nothing waits for a review, an upload may write any other status.  *)
LEMMA RecordedOnUpload ==
  ASSUME NEW b \in Batch, Recorded(b), ReviewQueue(b) = {}, UNCHANGED record,
         status[b] \notin {"IMPORTED", "FAILED"},
         status'[b] \notin {"READY_FOR_REVIEW", "READY_FOR_IMPORT"}
  PROVE  Recorded(b)'
  <1>1. RecordsOf(b)' = RecordsOf(b) /\ ReviewQueue(b)' = {} /\ (Revived(b)' <=> Revived(b))
    BY DEF RecordsOf, ReviewQueue, Revived
  <1> QED BY <1>1 DEF Recorded

(* A workbook brings rows of the kinds there are, none of them decided.     *)
LEMMA StagedFit ==
  ASSUME RowsInv, TurnsInv, FitInv, NEW b \in Batch, StageRows(b)
  PROVE  /\ \A r \in Record : record'[r] = record[r] \/ Fits(record'[r], Business(people)')
         /\ StatusIsRecorded'
  <1>0. Shape
    BY DEF RowsInv
  <1>1. upload[b] = "reading" /\ UNCHANGED status
    BY DEF StageRows
  <1>2. PICK n \in 0 .. Rows : \E lines \in [1 .. n -> Source] :
          record' = [r \in Record |->
            IF r[1] = b /\ r[2] <= n
            THEN [NoRecord EXCEPT !.source = lines[r[2]],
                                  !.status = IF lines[r[2]].valid THEN "STAGED" ELSE "INVALID"]
            ELSE record[r]]
    BY DEF StageRows
  <1>3. PICK lines \in [1 .. n -> Source] :
          record' = [r \in Record |->
            IF r[1] = b /\ r[2] <= n
            THEN [NoRecord EXCEPT !.source = lines[r[2]],
                                  !.status = IF lines[r[2]].valid THEN "STAGED" ELSE "INVALID"]
            ELSE record[r]]
    BY <1>2
  <1>4. ASSUME NEW r \in Record, record'[r] # record[r]
        PROVE  Fits(record'[r], Business(people)')
    <2>1. r[1] = b /\ r[2] <= n /\ r[2] \in 1 .. n
      <3>1. r[1] = b /\ r[2] <= n
        BY <1>3, <1>4
      <3> QED BY <3>1, ImportAssumption DEF Record
    <2>2. lines[r[2]] \in Source
      BY <2>1
    <2> DEFINE line == lines[r[2]]
               kind == IF line.valid THEN "STAGED" ELSE "INVALID"
    <2>3. record'[r] = [NoRecord EXCEPT !.source = line, !.status = kind]
      BY <1>3, <2>1
    <2>4. kind \in {"STAGED", "INVALID"} /\ line \in Source
      BY <2>2
    <2> HIDE DEF line, kind
    <2>5. record'[r].source = line /\ record'[r].status = kind
      BY <2>3 DEF NoRecord
    <2> QED BY <2>4, <2>5 DEF Fits, RecordStatus
  <1>5. status[b] = "PROCESSING" /\ RecordsOf(b) = {}
    BY <1>0, <1>1, TurnOf DEF RowsInv, RowsAreUploaded
  <1>6. Recorded(b)'
    <2>1. \A r \in RecordsOf(b)' : record'[r].status \in {"STAGED", "INVALID"}
      BY <1>0, <1>5, StageRowsShape DEF RecordsOf
    <2>2. ReviewQueue(b)' = {}
      BY <2>1 DEF ReviewQueue
    <2> QED BY <1>1, <1>5, <2>1, <2>2 DEF Recorded
  <1>7. ASSUME NEW d \in Batch, d # b PROVE Recorded(d)'
    <2>1. \A r \in Record : r[1] = d => record'[r] = record[r]
      BY <1>3, <1>7
    <2> QED BY <1>1, <2>1, RecordedKept DEF FitInv, StatusIsRecorded
  <1> QED BY <1>4, <1>6, <1>7 DEF StatusIsRecorded

(* What an analysis says of one record: that of a Person who is there, and  *)
(* a candidate, or of nobody.                                               *)
LEMMA AnalyzedFits ==
  ASSUME NEW rec, rec.source \in Source, DOMAIN rec = DOMAIN NoRecord
  PROVE  Fits(Analyzed(rec), Business(people)) /\ Analyzed(rec).source \in Source
  <1> DEFINE found == Found(rec.source)
             sure == Unmistakable(rec.source)
             fresh == [rec EXCEPT !.candidates = found, !.evidence = NoEvidence]
             only == CHOOSE p \in sure : TRUE
  <1>1. sure \subseteq found /\ found \subseteq Business(people)
    BY DEF Unmistakable, Found
  <1>2. sure # {} => only \in found \cap Business(people)
    BY <1>1
  <1>3. Analyzed(rec) =
          CASE found = {} -> Decided(fresh, "RESOLVED", "NO_MATCH", 0)
            [] sure # {}  -> Decided(fresh, "RESOLVED", "AUTO_MATCH", only)
            [] OTHER      -> Decided(fresh, "REVIEW_REQUIRED", "NOT_RESOLVED", 0)
    BY DEF Analyzed
  <1> HIDE DEF found, sure, only
  <1>4. found = {} => sure = {}
    BY <1>1
  <1>5. fresh.source = rec.source /\ fresh.candidates = found
    BY DEF NoRecord
  <1> HIDE DEF fresh
  <1>6. /\ Fits(Decided(fresh, "RESOLVED", "NO_MATCH", 0), Business(people))
        /\ sure # {} => Fits(Decided(fresh, "RESOLVED", "AUTO_MATCH", only), Business(people))
        /\ Fits(Decided(fresh, "REVIEW_REQUIRED", "NOT_RESOLVED", 0), Business(people))
    BY <1>2, <1>5 DEF Fits, Decided, RecordStatus, Create, Match
  <1>7. \A status1, method, p : Decided(fresh, status1, method, p).source = rec.source
    BY <1>5 DEF Decided
  <1> QED BY <1>3, <1>4, <1>6, <1>7

(* After an analysis every record of the batch is decided, waits for a      *)
(* review or cannot be imported, and the status of the batch says which.    *)
LEMMA AnalysisFits ==
  ASSUME RowsInv, TurnsInv, FitInv, UNCHANGED people,
         NEW b \in Batch, AnalysisAllowed(b), Analyze(b)
  PROVE  /\ \A r \in Record : record'[r] = record[r] \/ Fits(record'[r], Business(people)')
         /\ StatusIsRecorded'
  <1> DEFINE fresh == [r \in Record |-> IF r \in Analyzable(b) THEN Analyzed(record[r]) ELSE record[r]]
             duplicates == Duplicates(b, fresh)
             review == \E r \in Analyzable(b) : fresh[r].status = "REVIEW_REQUIRED"
  <1>0. Shape /\ RowsAreUploaded /\ TypeOK /\ Recorded(b)
    BY DEF RowsInv, FitInv, StatusIsRecorded
  <1>1. /\ record' = [r \in Record |-> IF r \in duplicates
                                       THEN Decided(fresh[r], "FAILED", "NOT_RESOLVED", 0)
                                       ELSE fresh[r]]
        /\ status' = [status EXCEPT ![b] =
             IF duplicates # {} THEN "FAILED"
             ELSE IF review THEN "READY_FOR_REVIEW" ELSE "READY_FOR_IMPORT"]
    BY DEF Analyze
  <1>2. ASSUME NEW r \in Analyzable(b)
        PROVE  /\ r \in RecordsOf(b) /\ r \in Record
               /\ fresh[r] = Analyzed(record[r]) /\ fresh[r].source \in Source
               /\ fresh[r].status \in {"RESOLVED", "REVIEW_REQUIRED"}
               /\ Fits(fresh[r], Business(people))
    <2>1. r \in RecordsOf(b) /\ r \in Record /\ record[r].status # "NONE"
      BY DEF Analyzable, RecordsOf
    <2>2. record[r].source \in Source /\ DOMAIN record[r] = DOMAIN NoRecord
      BY <1>0, <2>1 DEF TypeOK, Shape
    <2>3. fresh[r] = Analyzed(record[r])
      BY <2>1
    <2>4. Analyzed(record[r]).status \in {"RESOLVED", "REVIEW_REQUIRED"}
      BY DEF Analyzed, Decided
    <2> HIDE DEF fresh
    <2> QED BY <2>1, <2>2, <2>3, <2>4, AnalyzedFits
  <1>3. ASSUME NEW r \in Record, r \notin Analyzable(b) PROVE fresh[r] = record[r]
    BY <1>3
  <1>4. duplicates \subseteq RecordsOf(b)
    BY DEF Duplicates
  <1> HIDE DEF fresh, duplicates
  <1>5. ASSUME NEW r \in Record, record'[r] # record[r]
        PROVE  r \in RecordsOf(b) /\ Fits(record'[r], Business(people))
    <2>1. CASE r \in duplicates
      <3>1. record'[r] = Decided(fresh[r], "FAILED", "NOT_RESOLVED", 0)
        BY <1>1, <2>1
      <3>2. fresh[r].source \in Source
        <4>1. CASE r \in Analyzable(b)
          BY <4>1, <1>2
        <4>2. CASE r \notin Analyzable(b)
          BY <4>2, <1>0, <1>3, <1>4, <2>1 DEF TypeOK, RecordsOf
        <4> QED BY <4>1, <4>2
      <3> QED BY <1>4, <2>1, <3>1, <3>2 DEF Fits, Decided, RecordStatus
    <2>2. CASE r \notin duplicates
      <3>1. record'[r] = fresh[r]
        BY <1>1, <2>2
      <3> QED BY <1>2, <1>3, <1>5, <3>1
    <2> QED BY <2>1, <2>2
  <1>6. status[b] \notin {"IMPORTED", "FAILED"}
    BY DEF AnalysisAllowed
  <1>7. /\ status'[b] = IF duplicates # {} THEN "FAILED"
                        ELSE IF review THEN "READY_FOR_REVIEW" ELSE "READY_FOR_IMPORT"
        /\ \A d \in Batch : d # b => status'[d] = status[d]
    BY <1>0, <1>1 DEF Shape
  <1>8. RecordsOf(b)' = RecordsOf(b)
    <2>1. ASSUME NEW r \in Record, r[1] = b PROVE record[r].status = "NONE" <=> record'[r].status = "NONE"
      BY <1>0, <2>1, AnalyzeShape
    <2> QED BY <2>1 DEF RecordsOf
  <1>9. ASSUME NEW r \in RecordsOf(b), r \notin Analyzable(b), r \notin duplicates
        PROVE  record'[r] = record[r] /\ record[r].status \in {"INVALID", "RESOLVED", "FAILED"}
    <2>1. r \in Record /\ record'[r] = record[r]
      BY <1>1, <1>3, <1>9 DEF RecordsOf
    <2>2. record[r].status \in RecordStatus \ {"NONE", "COMMITTED"}
      BY <1>0, <1>6, <2>1 DEF TypeOK, Recorded, RecordsOf
    <2>3. record[r].status \notin {"STAGED", "REVIEW_REQUIRED"}
      BY <1>0, <1>9, <2>1 DEF Analyzable, RowsAreUploaded
    <2> QED BY <2>1, <2>2, <2>3 DEF RecordStatus
  <1>10. ASSUME NEW r \in Analyzable(b), r \notin duplicates
         PROVE  record'[r] = fresh[r]
    BY <1>1, <1>2, <1>10
  <1>11. \A r \in duplicates : record'[r].status = "FAILED"
    BY <1>1, <1>4 DEF RecordsOf, Decided
  <1>12. \A r \in RecordsOf(b) : record'[r].status \in {"INVALID", "REVIEW_REQUIRED", "RESOLVED", "FAILED"}
    BY <1>2, <1>9, <1>10, <1>11
  <1>13. Recorded(b)'
    <2>1. CASE duplicates # {}
      BY <1>7, <1>8, <1>12, <2>1 DEF Recorded
    <2>2. CASE duplicates = {}
      <3>1. ReviewQueue(b)' = {r \in Analyzable(b) : fresh[r].status = "REVIEW_REQUIRED"}
        BY <1>2, <1>8, <1>9, <1>10, <2>2 DEF ReviewQueue
      <3>2. ASSUME NEW r \in RecordsOf(b), record'[r].status = "FAILED" PROVE Revived(b)'
        <4>1. r \notin Analyzable(b) /\ record[r].status = "FAILED"
          BY <1>2, <1>9, <1>10, <2>2, <3>2
        <4>2. Revived(b)
          BY <1>0, <1>6, <4>1 DEF Recorded
        <4>3. PICK q \in RecordsOf(b) : record[q].method \in ByStaff
          BY <4>2 DEF Revived
        <4>4. record'[q] = record[q]
          BY <1>9, <2>2, <4>3 DEF Analyzable
        <4> QED BY <1>8, <3>2, <4>3, <4>4 DEF Revived
      <3> QED BY <1>7, <1>8, <1>12, <2>2, <3>1, <3>2 DEF Recorded
    <2> QED BY <2>1, <2>2
  <1>14. ASSUME NEW d \in Batch, d # b PROVE Recorded(d)'
    <2>1. \A r \in Record : r[1] = d => record'[r] = record[r]
      BY <1>5, <1>14 DEF RecordsOf
    <2> QED BY <1>7, <1>14, <2>1, RecordedKept DEF FitInv, StatusIsRecorded
  <1> QED BY <1>5, <1>13, <1>14 DEF StatusIsRecorded, Business

(* A decision names a candidate who is there, or nobody; the batch waits as *)
(* long as it has another review.                                           *)
LEMMA DecisionFits ==
  ASSUME RowsInv, FitInv, UNCHANGED people, NEW r \in Record, Resolve(r)
  PROVE  /\ \A q \in Record : record'[q] = record[q] \/ Fits(record'[q], Business(people)')
         /\ StatusIsRecorded'
  <1>0. Shape /\ TypeOK
    BY DEF RowsInv, FitInv
  <1>1. PICK b \in Batch : b = r[1]
    BY DEF Record
  <1>2. PICK decision \in Decision : SamePerson(r, decision) \/ DifferentPerson(r, decision)
    BY DEF Resolve
  <1>3. /\ record[r].status = "REVIEW_REQUIRED" /\ record'[r].status = "RESOLVED"
        /\ \A q \in Record : q # r => record'[q] = record[q]
    BY <1>0, ResolveShape
  <1>4. Fits(record'[r], Business(people)) /\ record'[r].method \in ByStaff
    <2>0. record[r].source \in Source /\ record' = [record EXCEPT ![r] = record'[r]]
      BY <1>0, <1>2, <1>3 DEF TypeOK, Shape, SamePerson, DifferentPerson
    <2>1. CASE SamePerson(r, decision)
      <3>1. record'[r] = Decided(record[r], "RESOLVED", "STAFF_MATCH", decision.person)
        BY <1>0, <2>1 DEF SamePerson, Shape
      <3>2. decision.person \in record[r].candidates \cap Business(people)
        BY <2>1 DEF SamePerson, ValidCandidate
      <3> QED BY <2>0, <3>1, <3>2 DEF Fits, Decided, RecordStatus, Create, ByStaff
    <2>2. CASE DifferentPerson(r, decision)
      <3> DEFINE evidence == EvidenceOf(record[r].source)
      <3>1. record'[r] = [Decided(record[r], "RESOLVED", "STAFF_CREATE_NEW", 0) EXCEPT !.evidence = evidence]
        BY <1>0, <2>2 DEF DifferentPerson, Shape
      <3> HIDE DEF evidence
      <3> QED BY <2>0, <3>1 DEF Fits, Decided, RecordStatus, Match, ByStaff
    <2> QED BY <1>2, <2>1, <2>2
  <1>5. /\ status'[b] = IF ReviewQueue(b)' # {} THEN "READY_FOR_REVIEW" ELSE "READY_FOR_IMPORT"
        /\ \A d \in Batch : d # b => status'[d] = status[d]
    BY <1>0, <1>1 DEF Resolve, Shape
  <1>6. Recorded(b)'
    <2>1. r \in ReviewQueue(b)
      BY <1>1, <1>3 DEF ReviewQueue, RecordsOf
    <2>2. \A q \in RecordsOf(b) : record[q].status \in {"INVALID", "REVIEW_REQUIRED", "RESOLVED", "FAILED"}
      BY <2>1 DEF FitInv, StatusIsRecorded, Recorded
    <2>3. RecordsOf(b)' = RecordsOf(b) /\ r \in RecordsOf(b)
      BY <1>1, <1>3 DEF RecordsOf
    <2>4. \A q \in RecordsOf(b) : record'[q].status \in {"INVALID", "REVIEW_REQUIRED", "RESOLVED", "FAILED"}
      BY <1>3, <2>2 DEF RecordsOf
    <2>5. ASSUME NEW q \in RecordsOf(b), record'[q].status = "FAILED" PROVE Revived(b)'
      BY <1>4, <2>3, <2>5 DEF Revived
    <2> QED BY <1>5, <2>3, <2>4, <2>5 DEF Recorded
  <1>7. ASSUME NEW d \in Batch, d # b PROVE Recorded(d)'
    <2>1. \A q \in Record : q[1] = d => record'[q] = record[q]
      BY <1>1, <1>3, <1>7
    <2> QED BY <1>5, <1>7, <2>1, RecordedKept DEF FitInv, StatusIsRecorded
  <1> QED BY <1>3, <1>4, <1>6, <1>7 DEF StatusIsRecorded, Business

(* An import gives every row its Person, who is there, and every order its  *)
(* participation.                                                           *)
LEMMA CommitFits ==
  ASSUME RowsInv, TurnsInv, WrittenInv, FitInv, RowsInv', TurnsInv', NEW b \in Batch, CommitImport(b)
  PROVE  FitInv'
  <1>0. Shape /\ IdsAscend /\ ChecksHold /\ TypeOK
    BY DEF RowsInv, WrittenInv, FitInv
  <1>1. ASSUME NEW r \in RecordsOf(b), Matched(r) \/ Creates(r)
        PROVE  /\ PersonOf(r) \in Business(people)'
               /\ PersonOf(r) \in Ids(people) \/ \E q \in Leaders(b) : PersonOf(q) = PersonOf(r)
    <2>1. CASE Matched(r)
      <3>1. PersonOf(r) = record[r].person /\ record[r].person \in Business(people)
        BY <1>0, <2>1 DEF PersonOf, TypeOK, RecordsOf
      <3> QED BY <1>0, <3>1, CommitBusiness DEF Business, Ids, Shape
    <2>2. CASE Creates(r)
      BY <1>0, <2>2, EveryRowHasAPerson, CommitBusiness
    <2> QED BY <1>1, <2>1, <2>2
  <1>2. ASSUME NEW p \in Person, people'[p].type = "NONE" PROVE people'[p] = Absent
    <2>1. p \notin Ids(people) /\ ~\E r \in Leaders(b) : PersonOf(r) = p
      BY <1>0, <1>2, CommitPeople
    <2>2. RowsFor(b, p) = {}
      BY <1>1, <2>1 DEF RowsFor
    <2>3. people' = [q \in Person |->
            CASE RowsFor(b, q) = {} -> people[q]
              [] \E r \in Leaders(b) : PersonOf(r) = q ->
                   Joined(b, Founded(record[CHOOSE r \in Leaders(b) : PersonOf(r) = q].source))
              [] OTHER -> Joined(b, Filled(b, q))]
      BY DEF CommitImport
    <2>4. people'[p] = people[p]
      BY <2>1, <2>2, <2>3
    <2> QED BY <1>0, <2>1, <2>4 DEF TypeOK, Ids
  <1>3. participation' \subseteq Event \X Business(people)'
    <2>1. participation \subseteq Event \X Business(people)'
      BY <1>0, CommitBusiness DEF TypeOK
    <2>2. ASSUME NEW r \in RecordsOf(b), Matched(r) \/ Creates(r)
          PROVE  <<record[r].source.event, PersonOf(r)>> \in Event \X Business(people)'
      <3>1. record[r].source \in Source
        BY <1>0 DEF TypeOK, RecordsOf
      <3> QED BY <1>1, <2>2, <3>1, ImportAssumption
    <2>3. participation' = participation \cup
            {<<record[r].source.event, PersonOf(r)>> :
               r \in {q \in RecordsOf(b) : b \in EventbriteBatch /\ (Matched(q) \/ Creates(q))}}
      BY DEF CommitImport
    <2> QED BY <2>1, <2>2, <2>3
  <1>4. ASSUME NEW r \in RecordsOf(b)
        PROVE  Fits(record'[r], Business(people)') /\ record'[r].status \in {"INVALID", "COMMITTED"}
    <2>1. r \in Record /\ record'[r] = Committed(b, r)
      BY DEF CommitImport, RecordsOf
    <2>2. record'[r].source = record[r].source /\ record[r].source \in Source
      BY <1>0, <2>1 DEF Committed, TypeOK, RecordsOf
    <2>3. record'[r].status \in {"INVALID", "COMMITTED"}
      BY <1>0, CommitRecords
    <2> QED BY <2>2, <2>3 DEF Fits, RecordStatus
  <1>5. ASSUME NEW r \in Record, r \notin RecordsOf(b) PROVE record'[r] = record[r]
    BY <1>5 DEF CommitImport
  <1>6. /\ status'[b] = "IMPORTED" /\ \A d \in Batch : d # b => status'[d] = status[d]
        /\ RecordsOf(b)' = RecordsOf(b)
    <2>1. \A r \in Record : record'[r].status = "NONE" <=> record[r].status = "NONE"
      BY <1>4, <1>5 DEF RecordsOf
    <2>2. status' = [status EXCEPT ![b] = "IMPORTED"]
      BY DEF CommitImport
    <2> QED BY <1>0, <2>1, <2>2 DEF Shape, RecordsOf
  <1>7. Recorded(b)'
    <2>1. ReviewQueue(b)' = {}
      BY <1>4, <1>6 DEF ReviewQueue
    <2> QED BY <1>4, <1>6, <2>1 DEF Recorded
  <1>8. ASSUME NEW d \in Batch, d # b PROVE Recorded(d)'
    <2>1. \A r \in Record : r[1] = d => record'[r] = record[r]
      BY <1>5, <1>8 DEF RecordsOf
    <2> QED BY <1>6, <1>8, <2>1, RecordedKept DEF FitInv, StatusIsRecorded
  <1>9. TypeOK'
    <2>1. /\ status' \in [Batch -> BatchStatus]
          /\ upload' \in [Batch -> {"none", "reading", "staged", "failing", "done", "dead"}]
          /\ checked' \subseteq {d \in Batch : status'[d] # "NONE"}
      BY DEF RowsInv, Shape, TurnsInv, BatchesInTurn
    <2>2. ASSUME NEW r \in Record
          PROVE  (/\ record[r].status \in RecordStatus
                  /\ record[r].status # "NONE" => record[r].source \in Source
                  /\ Matched(r) => record[r].person \in record[r].candidates \cap Business(people)
                  /\ Creates(r) => record[r].person = 0)'
      <3>1. CASE r \in RecordsOf(b)
        BY <1>4, <3>1 DEF Fits, Matched, Creates
      <3>2. CASE r \notin RecordsOf(b)
        BY <1>0, <1>5, <3>2, CommitBusiness DEF TypeOK, Matched, Creates
      <3> QED BY <3>1, <3>2
    <2> QED BY <1>2, <1>3, <2>1, <2>2 DEF TypeOK
  <1> QED BY <1>7, <1>8, <1>9 DEF FitInv, StatusIsRecorded

(* Before any upload nothing is out of type.                                *)
LEMMA InitFit == Init => FitInv
  <1> SUFFICES ASSUME Init PROVE FitInv
    OBVIOUS
  <1>1. \A r \in Record : record[r].status = "NONE" /\ record[r].method = "NONE"
    BY DEF Init, NoRecord
  <1>2. \A p \in Person : people[p].type = "NONE" => people[p] = Absent
    BY FirstPeopleAssumption DEF Init, Ids
  <1>3. TypeOK
    BY <1>1, <1>2 DEF Init, TypeOK, BatchStatus, RecordStatus, Matched, Creates
  <1>4. \A b \in Batch : status[b] = "NONE" /\ RecordsOf(b) = {}
    BY <1>1 DEF Init, RecordsOf
  <1>5. StatusIsRecorded
    BY <1>4 DEF StatusIsRecorded, Recorded, ReviewQueue
  <1> QED BY <1>3, <1>5 DEF FitInv

(* Every step keeps to the types, and the status to the records.            *)
LEMMA NextFit ==
  ASSUME MayPostEarly = FALSE, RowsInv, TurnsInv, WrittenInv, FitInv, RowsInv', TurnsInv', [Next]_vars
  PROVE  FitInv'
  <1>0. Shape /\ TypeOK /\ StatusIsRecorded
    BY DEF RowsInv, FitInv
  <1>1. ASSUME UNCHANGED <<people, participation>>, StatusIsRecorded',
               \A r \in Record : record'[r] = record[r] \/ Fits(record'[r], Business(people)')
        PROVE  FitInv'
    <2>1. TypeOK'
      BY <1>0, <1>1, FitKeeps DEF Business, TypeOK
    <2> QED BY <1>1, <2>1 DEF FitInv
  <1>2. ASSUME UNCHANGED <<status, record>> PROVE StatusIsRecorded'
    BY <1>0, <1>2, RecordedKept DEF StatusIsRecorded
  <1>3. ASSUME NEW b \in Batch, StartUpload(b) \/ RejectWorkbook(b) \/ FinishStaging(b) \/ FailUpload(b)
        PROVE  FitInv'
    <2>1. UNCHANGED <<record, people, participation>>
      BY <1>3 DEF StartUpload, RejectWorkbook, FinishStaging, FailUpload, crmVars
    <2>2. /\ upload[b] \in {"none", "reading", "staged", "failing"}
          /\ status'[b] \in {"PROCESSING", "FAILED", "STAGED"}
          /\ \A d \in Batch : d # b => status'[d] = status[d]
      BY <1>0, <1>3 DEF StartUpload, RejectWorkbook, FinishStaging, FailUpload, Shape
    <2>3. status[b] \in {"NONE", "PROCESSING"} /\ ReviewQueue(b) = {}
      BY <1>0, <2>2, TurnOf DEF ReviewQueue, RecordsOf
    <2>4. Recorded(b)'
      BY <1>0, <2>1, <2>2, <2>3, RecordedOnUpload DEF StatusIsRecorded
    <2>5. ASSUME NEW d \in Batch, d # b PROVE Recorded(d)'
      BY <1>0, <2>1, <2>2, <2>5, RecordedKept DEF StatusIsRecorded
    <2> QED BY <1>1, <2>1, <2>4, <2>5 DEF StatusIsRecorded
  <1>4. ASSUME NEW b \in Batch, CrashUpload(b) \/ CheckImport(b) \/ AbortImport(b) PROVE FitInv'
    <2>1. UNCHANGED <<status, record, people, participation>>
      BY <1>4 DEF CrashUpload, CheckImport, AbortImport, crmVars
    <2> QED BY <1>1, <1>2, <2>1
  <1>5. ASSUME NEW b \in Batch, StageRows(b) PROVE FitInv'
    <2>1. UNCHANGED <<people, participation>>
      BY <1>5 DEF StageRows, crmVars
    <2> QED BY <1>1, <1>5, <2>1, StagedFit
  <1>6. ASSUME NEW b \in Batch, AnalyzeUpload(b) \/ PostAnalyze(b) PROVE FitInv'
    <2>1. UNCHANGED <<people, participation>>
      BY <1>6 DEF AnalyzeUpload, PostAnalyze, crmVars
    <2>2. CASE AnalysisAllowed(b) /\ Analyze(b)
      BY <1>1, <2>1, <2>2, AnalysisFits
    <2>3. CASE UNCHANGED <<status, record>>
      BY <1>1, <1>2, <2>1, <2>3
    <2> QED BY <1>6, <2>2, <2>3 DEF AnalyzeUpload, PostAnalyze
  <1>7. ASSUME NEW r \in Record, Resolve(r) PROVE FitInv'
    <2>1. UNCHANGED <<people, participation>>
      BY <1>7 DEF Resolve, crmVars
    <2> QED BY <1>1, <1>7, <2>1, DecisionFits
  <1>8. ASSUME CreatePerson \/ \E p \in Person : PatchPerson(p) \/ EndMembership(p) PROVE FitInv'
    <2>1. UNCHANGED <<status, record, participation>>
      BY <1>8 DEF CreatePerson, PatchPerson, EndMembership
    <2>2. \A p \in Person : people'[p].type = "NONE" => people'[p] = Absent
      BY <1>0, <1>8, StaffKeepsPeople DEF TypeOK
    <2>3. TypeOK'
      BY <1>0, <1>8, <2>1, <2>2, StaffKeepsPeople, FitKeeps
    <2> QED BY <1>2, <2>1, <2>3 DEF FitInv
  <1>9. CASE UNCHANGED vars
    BY <1>1, <1>2, <1>9 DEF vars
  <1> QED BY <1>3, <1>4, <1>5, <1>6, <1>7, <1>8, <1>9, CommitFits DEF Next, UploadStep

(* Types, and what the status of a batch says of its records.               *)
THEOREM FitInvariance == ASSUME MayPostEarly = FALSE PROVE Spec => []FitInv
  <1>1. RowsInv /\ TurnsInv /\ WrittenInv /\ FitInv /\ RowsInv' /\ TurnsInv' /\ [Next]_vars => FitInv'
    BY NextFit
  <1> QED BY <1>1, InitFit, RowsInvariance, TurnsInvariance, WrittenInvariance, PTL DEF Spec

(* The counts that are shown with a batch agree with its status.            *)
LEMMA SummaryFits == ASSUME FitInv PROVE StatusTellsSummary
  <1> SUFFICES ASSUME NEW b \in Batch
               PROVE  /\ status[b] = "READY_FOR_REVIEW" => Summary(b).review_required > 0
                      /\ status[b] = "READY_FOR_IMPORT" =>
                           Summary(b).resolved + Summary(b).invalid = Summary(b).total \/ Revived(b)
    BY DEF StatusTellsSummary
  <1> DEFINE With(s) == {r \in RecordsOf(b) : record[r].status = s}
  <1>1. Recorded(b)
    BY DEF FitInv, StatusIsRecorded
  <1>2. /\ Summary(b).review_required = Cardinality(With("REVIEW_REQUIRED"))
        /\ Summary(b).resolved = Cardinality(With("RESOLVED"))
        /\ Summary(b).invalid = Cardinality(With("INVALID"))
        /\ Summary(b).total = Cardinality(RecordsOf(b))
    BY DEF Summary
  <1>3. ASSUME NEW s PROVE IsFiniteSet(With(s)) /\ Cardinality(With(s)) \in Nat
    BY RecordsAreFinite, FS_Subset, FS_CardinalityType
  <1>4. ASSUME status[b] = "READY_FOR_REVIEW" PROVE Summary(b).review_required > 0
    <2>1. With("REVIEW_REQUIRED") # {}
      BY <1>1, <1>4 DEF Recorded, ReviewQueue
    <2> HIDE DEF With
    <2>2. Cardinality(With("REVIEW_REQUIRED")) # 0
      BY <1>3, <2>1, FS_EmptySet
    <2> QED BY <1>2, <1>3, <2>2
  <1>5. ASSUME status[b] = "READY_FOR_IMPORT", ~Revived(b)
        PROVE  Summary(b).resolved + Summary(b).invalid = Summary(b).total
    <2>1. \A r \in RecordsOf(b) : record[r].status \in {"INVALID", "RESOLVED"}
      BY <1>1, <1>5 DEF Recorded, ReviewQueue
    <2>2. With("RESOLVED") \cup With("INVALID") = RecordsOf(b) /\ With("RESOLVED") \cap With("INVALID") = {}
      BY <2>1
    <2> HIDE DEF With
    <2>3. Cardinality(With("RESOLVED") \cap With("INVALID")) = 0
      BY <2>2, FS_EmptySet
    <2>4. IsFiniteSet(With("RESOLVED")) /\ IsFiniteSet(With("INVALID"))
      BY <1>3
    <2>5. Cardinality(RecordsOf(b)) =
            Cardinality(With("RESOLVED")) + Cardinality(With("INVALID")) - Cardinality(With("RESOLVED") \cap With("INVALID"))
      BY <2>2, <2>4, FS_Union
    <2>6. Cardinality(With("RESOLVED")) \in Nat /\ Cardinality(With("INVALID")) \in Nat
      BY <1>3
    <2> QED BY <1>2, <2>3, <2>5, <2>6
  <1> QED BY <1>4, <1>5

-----------------------------------------------------------------------------
(* What the checks of an import have seen of Creates rows stays so while    *)
(* nobody changes People.                                                   *)
LEMMA EvidenceStays ==
  ASSUME EvidenceHolds, UNCHANGED people,
         NEW b \in Batch, b \in checked, \A r \in Record : r[1] = b => record'[r] = record[r],
         NEW r \in RecordsOf(b)', Creates(r)'
  PROVE  IdentityOK(r)'
  <1>1. r \in RecordsOf(b) /\ record'[r] = record[r]
    BY DEF RecordsOf
  <1>2. Creates(r)
    BY <1>1 DEF Creates
  <1>3. IdentityOK(r)
    BY <1>1, <1>2 DEF EvidenceHolds
  <1> QED BY <1>1, <1>3 DEF IdentityOK, EvidenceOf, Evidence, Collision, RequiresReview, Matches,
                            EmailMatches, MobileMatches, Business

(* Rows are normalized, so a number is shared if it is the same.            *)
LEMMA RowSignals ==
  ASSUME TypeOK, NEW r \in Record, record[r].status # "NONE"
  PROVE  /\ CrmMobile(record[r].source.mobile) = record[r].source.mobile
         /\ record[r].source.mobile.written = "plain"
  BY ImportAssumption DEF TypeOK, CrmMobile

(* Of two rows that lead in one batch, neither has a signal of the other.   *)
LEMMA LeadersDiffer ==
  ASSUME TypeOK, NEW b \in Batch, NEW r \in Leaders(b), NEW q \in Leaders(b), q # r
  PROVE  ~SharesSignal(record[q].source, record[r].source)
  <1>1. /\ r = <<b, r[2]>> /\ q = <<b, q[2]>> /\ r[2] \in 1 .. Rows /\ q[2] \in 1 .. Rows
        /\ Leads(b)[r[2]] /\ Leads(b)[q[2]] /\ Rows \in Nat
    BY ImportAssumption DEF Leaders, RecordsOf, Record
  <1>2. r[2] < q[2] \/ q[2] < r[2]
    BY <1>1
  <1>3. ASSUME NEW i \in 1 .. Rows, NEW j \in 1 .. Rows, i < j, Leads(b)[i], Leads(b)[j]
        PROVE  ~SharesSignal(record[<<b, i>>].source, record[<<b, j>>].source)
    <2>1. i \in 1 .. (j - 1)
      BY <1>1, <1>3
    <2>2. \A k \in 1 .. (j - 1) :
            Leads(b)[k] => ~SharesSignal(record[<<b, k>>].source, record[<<b, j>>].source)
      BY <1>3, LeadsAre
    <2> QED BY <1>3, <2>1, <2>2
  <1>4. /\ CrmMobile(record[r].source.mobile) = record[r].source.mobile
        /\ CrmMobile(record[q].source.mobile) = record[q].source.mobile
    BY RowSignals DEF Leaders, RecordsOf
  <1>5. SharesSignal(record[q].source, record[r].source) <=> SharesSignal(record[r].source, record[q].source)
    BY <1>4 DEF SharesSignal, SameEmail, SameMobile
  <1> QED BY <1>1, <1>2, <1>3, <1>5

(* Where the address and the number of a Person come from after an import:  *)
(* from the row that created them, from a matched row, or from before.      *)
LEMMA CommitSignals ==
  ASSUME Shape, IdsAscend, NEW b \in Batch, CommitImport(b), NEW p \in Person
  PROVE  \/ \E r \in Leaders(b) : /\ PersonOf(r) = p
                                  /\ people'[p].email = record[r].source.email
                                  /\ people'[p].mobile = record[r].source.mobile
         \/ /\ people'[p].type = people[p].type
            /\ people'[p].email = people[p].email \/ \E r \in RowsFor(b, p) : FillsEmail(r)
            /\ people'[p].mobile = people[p].mobile \/ \E r \in RowsFor(b, p) : FillsMobile(r)
  <1>1. people' = [x \in Person |->
          CASE RowsFor(b, x) = {} -> people[x]
            [] \E r \in Leaders(b) : PersonOf(r) = x ->
                 Joined(b, Founded(record[CHOOSE r \in Leaders(b) : PersonOf(r) = x].source))
            [] OTHER -> Joined(b, Filled(b, x))]
    BY DEF CommitImport
  <1>2. CASE RowsFor(b, p) = {}
    <2>1. ~\E r \in Leaders(b) : PersonOf(r) = p
      BY <1>2 DEF Leaders, RowsFor
    <2> QED BY <1>1, <1>2, <2>1
  <1>3. CASE RowsFor(b, p) # {} /\ \E r \in Leaders(b) : PersonOf(r) = p
    <2>1. PICK r \in Leaders(b) : r = CHOOSE q \in Leaders(b) : PersonOf(q) = p
      BY <1>3
    <2>2. PersonOf(r) = p
      BY <1>3, <2>1
    <2>3. people'[p] = Joined(b, Founded(record[r].source))
      <3>1. r \in RowsFor(b, p) /\ p \notin Ids(people)
        <4>1. r \in RowsFor(b, p)
          BY <2>2 DEF Leaders, RowsFor
        <4>2. Used \in Nat /\ Used < p /\ p \in Int
          BY <2>2, NewPeople, IdsAreFinite DEF Used
        <4> QED BY <4>1, <4>2 DEF IdsAscend, Ids, Person
      <3> QED BY <1>1, <1>3, <2>1, <3>1
    <2>4. /\ DOMAIN Founded(record[r].source) = DOMAIN Absent
          /\ Founded(record[r].source).email = record[r].source.email
          /\ Founded(record[r].source).mobile = record[r].source.mobile
      BY DEF Founded, Absent
    <2> QED BY <2>2, <2>3, <2>4, JoinedShape
  <1>4. CASE RowsFor(b, p) # {} /\ ~\E r \in Leaders(b) : PersonOf(r) = p
    <2> DEFINE emails == {r \in RowsFor(b, p) : FillsEmail(r)}
               mobiles == {r \in RowsFor(b, p) : FillsMobile(r)}
               email == IF emails = {} THEN people[p].email ELSE record[Latest(emails)].source.email
               mobile == IF mobiles = {} THEN people[p].mobile ELSE record[Latest(mobiles)].source.mobile
    <2>1. people'[p] = Joined(b, Filled(b, p))
      BY <1>1, <1>4
    <2>2. DOMAIN people[p] = {"type", "email", "mobile", "name", "membership"}
      BY DEF Shape, Absent
    <2>3. Filled(b, p) = [people[p] EXCEPT !.email = email, !.mobile = mobile]
      BY <2>2 DEF Filled
    <2>4. /\ email = people[p].email \/ \E r \in RowsFor(b, p) : FillsEmail(r)
          /\ mobile = people[p].mobile \/ \E r \in RowsFor(b, p) : FillsMobile(r)
      OBVIOUS
    <2> HIDE DEF email, mobile
    <2>5. Filled(b, p).email = email /\ Filled(b, p).mobile = mobile /\ Filled(b, p).type = people[p].type
      BY <2>2, <2>3
    <2>6. /\ people'[p].email = email /\ people'[p].mobile = mobile
          /\ people'[p].type = people[p].type
      BY <2>1, <2>5, FilledShape, JoinedShape
    <2> QED BY <2>4, <2>6
  <1> QED BY <1>2, <1>3, <1>4

(* Somebody whom the checks of an import find next to a row that creates a  *)
(* Person is somebody that a reviewer was shown.                            *)
LEMMA MatchesWereShown ==
  ASSUME NEW r, IdentityOK(r), NEW q \in Matches(people, record[r].source.email, record[r].source.mobile)
  PROVE  q \in record[r].evidence.people
  <1>1. CASE record[r].method = "STAFF_CREATE_NEW"
    BY <1>1 DEF IdentityOK, EvidenceOf, Evidence
  <1>2. CASE record[r].method # "STAFF_CREATE_NEW"
    <2> DEFINE email == record[r].source.email
               mobile == record[r].source.mobile
    <2>1. Collision(people, email, mobile) = "NO_BLOCKING"
      BY <1>2 DEF IdentityOK, EvidenceOf, Evidence, RequiresReview
    <2>2. EmailMatches(people, email) = {} /\ MobileMatches(people, mobile) = {}
      BY <2>1 DEF Collision
    <2> QED BY <2>2 DEF Matches
  <1> QED BY <1>1, <1>2

(* An import whose evidence has held until it writes creates nobody next to *)
(* a Person that nobody reviewed.                                           *)
LEMMA CommitReviewed ==
  ASSUME RowsInv, TypeOK, EvidenceHolds, CreatedPeopleAreReviewed, NEW b \in Batch, CommitImport(b)
  PROVE  CreatedPeopleAreReviewed'
  <1>0. /\ Shape /\ IdsAscend /\ b \in checked
        /\ audit' = audit \cup Events(b)
        /\ unreviewed' = unreviewed \cup UNION {{PersonOf(r)} \X Unseen(r, people') : r \in Leaders(b)}
    BY DEF RowsInv, CommitImport
  <1>1. ASSUME NEW r \in Leaders(b), NEW q \in Unseen(r, people')
        PROVE  \E s \in RowsFor(b, q) : FillsEmail(s) \/ FillsMobile(s)
    <2> DEFINE email == record[r].source.email
               mobile == record[r].source.mobile
    <2>1. r \in RecordsOf(b) /\ Creates(r) /\ r \in Record
      BY DEF Leaders, RecordsOf
    <2>2. IdentityOK(r)
      BY <1>0, <2>1 DEF EvidenceHolds
    <2>3. /\ q \in DOMAIN people' /\ people'[q].type = "BUSINESS" /\ q # PersonOf(r)
          /\ q \notin record[r].evidence.people
          /\ SameEmail(email, people'[q].email) \/ SameMobile(mobile, people'[q].mobile)
      BY DEF Unseen, DuplicatePeople, Matches, EmailMatches, MobileMatches, Business
    <2>4. q \in Person /\ q \in DOMAIN people
      BY <1>0, <2>3, CommitPeople DEF Shape
    <2>5. ASSUME NEW s \in Leaders(b), PersonOf(s) = q,
                 people'[q].email = record[s].source.email, people'[q].mobile = record[s].source.mobile
          PROVE  FALSE
      <3>1. s # r /\ SharesSignal(record[r].source, record[s].source)
        BY <2>3, <2>5 DEF SharesSignal
      <3> QED BY <3>1, LeadersDiffer
    <2>6. /\ people'[q].type = people[q].type
          /\ people'[q].email = people[q].email \/ \E s \in RowsFor(b, q) : FillsEmail(s)
          /\ people'[q].mobile = people[q].mobile \/ \E s \in RowsFor(b, q) : FillsMobile(s)
      BY <1>0, <2>4, <2>5, CommitSignals
    <2>7. q \notin Matches(people, email, mobile)
      BY <2>2, <2>3, MatchesWereShown
    <2>8. ~SameEmail(email, people[q].email) /\ ~SameMobile(mobile, people[q].mobile)
      BY <2>3, <2>4, <2>6, <2>7 DEF Matches, EmailMatches, MobileMatches, Business
    <2> QED BY <2>3, <2>6, <2>8
  <1>2. ASSUME NEW r \in Leaders(b), NEW q \in Unseen(r, people')
        PROVE  \E creation, fill \in audit' :
                 /\ creation.action = "PERSON_CREATED" /\ creation.person = PersonOf(r)
                 /\ fill.action # "PERSON_CREATED" /\ fill.person = q
                 /\ fill.record[1] = creation.record[1]
    <2> DEFINE creation == [action |-> "PERSON_CREATED", person |-> PersonOf(r), record |-> r]
    <2>1. creation \in audit' /\ r[1] = b
      BY <1>0 DEF Events, Leaders, RecordsOf
    <2>2. PICK s \in RowsFor(b, q) : FillsEmail(s) \/ FillsMobile(s)
      BY <1>1
    <2>3. s \in RecordsOf(b) /\ s[1] = b /\ PersonOf(s) = q
      BY DEF RowsFor, RecordsOf
    <2>4. \E fill \in audit' : fill.action # "PERSON_CREATED" /\ fill.person = q /\ fill.record = s
      <3>1. CASE FillsEmail(s)
        <4> DEFINE fill == [action |-> "EMAIL_FILLED", person |-> PersonOf(s), record |-> s]
        <4>1. fill \in audit'
          BY <1>0, <2>3, <3>1 DEF Events
        <4> QED BY <2>3, <4>1
      <3>2. CASE FillsMobile(s)
        <4> DEFINE fill == [action |-> "MOBILE_FILLED", person |-> PersonOf(s), record |-> s]
        <4>1. fill \in audit'
          BY <1>0, <2>3, <3>2 DEF Events
        <4> QED BY <2>3, <4>1
      <3> QED BY <2>2, <3>1, <3>2
    <2> QED BY <2>1, <2>3, <2>4
  <1>3. \A pair \in unreviewed' : \/ pair \in unreviewed
                                  \/ \E r \in Leaders(b) : \E q \in Unseen(r, people') : pair = <<PersonOf(r), q>>
    BY <1>0
  <1>4. \A pair \in unreviewed : \E creation, fill \in audit' :
          /\ creation.action = "PERSON_CREATED" /\ creation.person = pair[1]
          /\ fill.action # "PERSON_CREATED" /\ fill.person = pair[2]
          /\ fill.record[1] = creation.record[1]
    BY <1>0 DEF CreatedPeopleAreReviewed
  <1>5. \A pair \in unreviewed' : \E creation, fill \in audit' :
          /\ creation.action = "PERSON_CREATED" /\ creation.person = pair[1]
          /\ fill.action # "PERSON_CREATED" /\ fill.person = pair[2]
          /\ fill.record[1] = creation.record[1]
    BY <1>2, <1>3, <1>4
  <1> QED BY <1>5 DEF CreatedPeopleAreReviewed

(* While an import holds a batch, the rows of the batch stay and nothing is *)
(* written from them.                                                       *)
LEMMA HeldBatchesStay ==
  ASSUME Shape, [Next]_vars, NEW b \in Batch, b \in checked, b \in checked'
  PROVE  imported'[b] = imported[b] /\ \A r \in Record : r[1] = b => record'[r] = record[r]
  <1>1. ASSUME NEW d \in Batch, StageRows(d)
        PROVE  imported'[b] = imported[b] /\ \A r \in Record : r[1] = b => record'[r] = record[r]
    <2>1. d # b /\ imported' = imported
      BY <1>1 DEF StageRows, Unlocked, crmVars
    <2> QED BY <1>1, <2>1, StageRowsShape
  <1>2. ASSUME NEW d \in Batch, AnalyzeUpload(d) \/ PostAnalyze(d)
        PROVE  imported'[b] = imported[b] /\ \A r \in Record : r[1] = b => record'[r] = record[r]
    <2>1. d # b /\ imported' = imported
      BY <1>2 DEF AnalyzeUpload, PostAnalyze, Unlocked, crmVars
    <2>2. CASE Analyze(d)
      BY <2>1, <2>2, AnalyzeShape
    <2>3. CASE UNCHANGED record
      BY <2>1, <2>3
    <2> QED BY <1>2, <2>2, <2>3 DEF AnalyzeUpload, PostAnalyze
  <1>3. ASSUME NEW r \in Record, Resolve(r)
        PROVE  imported'[b] = imported[b] /\ \A q \in Record : q[1] = b => record'[q] = record[q]
    <2>1. r[1] # b /\ imported' = imported
      BY <1>3 DEF Resolve, Unlocked, crmVars
    <2> QED BY <1>3, <2>1, ResolveShape
  <1>4. ASSUME NEW d \in Batch, CommitImport(d)
        PROVE  imported'[b] = imported[b] /\ \A r \in Record : r[1] = b => record'[r] = record[r]
    <2>1. /\ d # b /\ imported' = [imported EXCEPT ![d] = Append(@, Result(d))]
          /\ record' = [r \in Record |-> IF r \in RecordsOf(d) THEN Committed(d, r) ELSE record[r]]
      BY <1>4 DEF CommitImport
    <2>2. imported'[b] = imported[b]
      BY <2>1 DEF Shape
    <2>3. ASSUME NEW r \in Record, r[1] = b PROVE record'[r] = record[r]
      <3>1. r \notin RecordsOf(d)
        BY <2>1, <2>3 DEF RecordsOf
      <3> QED BY <2>1, <3>1
    <2> QED BY <2>2, <2>3
  <1>5. ASSUME NEW d \in Batch, StartUpload(d) \/ RejectWorkbook(d) \/ FinishStaging(d) \/ FailUpload(d)
                                \/ CrashUpload(d) \/ CheckImport(d) \/ AbortImport(d)
        PROVE  UNCHANGED <<record, imported>>
    BY <1>5 DEF StartUpload, RejectWorkbook, FinishStaging, FailUpload, CrashUpload, CheckImport,
                AbortImport, crmVars
  <1>6. ASSUME CreatePerson \/ \E p \in Person : PatchPerson(p) \/ EndMembership(p)
        PROVE  UNCHANGED <<record, imported>>
    BY <1>6 DEF CreatePerson, PatchPerson, EndMembership
  <1>7. CASE UNCHANGED vars
    BY <1>7 DEF vars
  <1> QED BY <1>1, <1>2, <1>3, <1>4, <1>5, <1>6, <1>7 DEF Next, UploadStep

(* Only its checks let an import hold a batch.                              *)
LEMMA ChecksBegin ==
  ASSUME [Next]_vars, NEW b \in Batch, b \notin checked, b \in checked'
  PROVE  CheckImport(b)
  <1>1. ASSUME NEW d \in Batch, StartUpload(d) \/ RejectWorkbook(d) \/ FinishStaging(d) \/ FailUpload(d)
                                \/ CrashUpload(d) \/ StageRows(d) \/ AnalyzeUpload(d) \/ PostAnalyze(d)
        PROVE  checked' = checked
    BY <1>1 DEF StartUpload, RejectWorkbook, FinishStaging, FailUpload, CrashUpload, StageRows,
                AnalyzeUpload, PostAnalyze
  <1>2. ASSUME NEW d \in Batch, CommitImport(d) \/ AbortImport(d) PROVE checked' \subseteq checked
    BY <1>2 DEF CommitImport, AbortImport
  <1>3. ASSUME NEW d \in Batch, CheckImport(d) PROVE CheckImport(b)
    BY <1>3 DEF CheckImport
  <1>4. ASSUME NEW r \in Record, Resolve(r) PROVE checked' = checked
    BY <1>4 DEF Resolve
  <1>5. ASSUME CreatePerson \/ \E p \in Person : PatchPerson(p) \/ EndMembership(p) PROVE checked' = checked
    BY <1>5 DEF CreatePerson, PatchPerson, EndMembership
  <1>6. CASE UNCHANGED vars
    BY <1>6 DEF vars
  <1> QED BY <1>1, <1>2, <1>3, <1>4, <1>5, <1>6 DEF Next, UploadStep

(* In turn, what an import has checked holds until it writes.               *)
LEMMA NextEvidence ==
  ASSUME Shape, Shape', EvidenceHolds, [Next]_vars, InTurn
  PROVE  EvidenceHolds'
  <1> SUFFICES ASSUME NEW b \in checked', NEW r \in RecordsOf(b)', Creates(r)' PROVE IdentityOK(r)'
    BY DEF EvidenceHolds
  <1>1. b \in Batch
    BY DEF Shape
  <1>2. CASE b \in checked
    <2>1. imported'[b] = imported[b] /\ \A q \in Record : q[1] = b => record'[q] = record[q]
      BY <1>1, <1>2, HeldBatchesStay
    <2>2. UNCHANGED people
      BY <1>2, <2>1 DEF InTurn
    <2> QED BY <1>1, <1>2, <2>1, <2>2, EvidenceStays
  <1>3. CASE b \notin checked
    <2>1. CheckImport(b)
      BY <1>1, <1>3, ChecksBegin
    <2>2. UNCHANGED <<record, people>> /\ Preflight(b)
      BY <2>1 DEF CheckImport, crmVars
    <2>3. r \in RecordsOf(b) /\ Creates(r)
      BY <2>2 DEF RecordsOf, Creates
    <2>4. IdentityOK(r)
      BY <2>2, <2>3 DEF Preflight
    <2> QED BY <2>2, <2>4 DEF IdentityOK, EvidenceOf
  <1> QED BY <1>2, <1>3

(* In turn, nobody is created next to a Person that nobody reviewed.        *)
LEMMA NextReviewed ==
  ASSUME RowsInv, TypeOK, EvidenceHolds, CreatedPeopleAreReviewed, [Next]_vars
  PROVE  CreatedPeopleAreReviewed'
  <1>1. ASSUME NEW b \in Batch, StartUpload(b) \/ UploadStep(b) \/ CrashUpload(b) \/ PostAnalyze(b)
                                \/ CheckImport(b) \/ AbortImport(b)
        PROVE  UNCHANGED <<audit, unreviewed>>
    BY <1>1 DEF StartUpload, UploadStep, RejectWorkbook, FinishStaging, FailUpload, CrashUpload,
                StageRows, AnalyzeUpload, PostAnalyze, CheckImport, AbortImport, crmVars
  <1>2. ASSUME NEW r \in Record, Resolve(r) PROVE UNCHANGED <<audit, unreviewed>>
    BY <1>2 DEF Resolve, crmVars
  <1>3. ASSUME CreatePerson \/ \E p \in Person : PatchPerson(p) \/ EndMembership(p)
        PROVE  UNCHANGED <<audit, unreviewed>>
    BY <1>3 DEF CreatePerson, PatchPerson, EndMembership
  <1>4. CASE UNCHANGED vars
    BY <1>4 DEF vars, CreatedPeopleAreReviewed
  <1>5. UNCHANGED <<audit, unreviewed>> => CreatedPeopleAreReviewed'
    BY DEF CreatedPeopleAreReviewed
  <1> QED BY <1>1, <1>2, <1>3, <1>4, <1>5, CommitReviewed DEF Next

(* Reviews, where nobody is changed between the checks of an import and its *)
(* writes, for any batches, workbooks and staff.                            *)
THEOREM ReviewsHold == ASSUME MayPostEarly = FALSE
                       PROVE  TurnSpec => [](CreatedPeopleAreReviewed /\ EvidenceHolds)
  <1> DEFINE Reviewed == CreatedPeopleAreReviewed /\ EvidenceHolds
  <1>1. Init => Reviewed
    BY DEF Init, CreatedPeopleAreReviewed, EvidenceHolds
  <1>2. RowsInv /\ RowsInv' /\ FitInv /\ Reviewed /\ [Next]_vars /\ [InTurn]_vars => Reviewed'
    <2> SUFFICES ASSUME RowsInv, RowsInv', FitInv, Reviewed, [Next]_vars, [InTurn]_vars PROVE Reviewed'
      OBVIOUS
    <2>1. InTurn
      BY DEF InTurn, vars
    <2>2. EvidenceHolds'
      BY <2>1, NextEvidence DEF RowsInv
    <2>3. CreatedPeopleAreReviewed'
      BY NextReviewed DEF FitInv
    <2> QED BY <2>2, <2>3
  <1>3. Spec => []FitInv
    BY FitInvariance
  <1> HIDE DEF Reviewed
  <1>4. Init /\ [][Next]_vars /\ [][InTurn]_vars /\ []RowsInv /\ []FitInv => []Reviewed
    BY <1>1, <1>2, PTL
  <1>5. TurnSpec => []Reviewed
    BY <1>3, <1>4, RowsInvariance, PTL DEF Spec, TurnSpec
  <1> QED BY <1>5 DEF Reviewed

-----------------------------------------------------------------------------
(* The Events that imports share, for any imports, rows and provider        *)
(* identities.                                                              *)
(* Neither no Event nor an Event that was not found is one.                 *)
LEMMA NotEvents == Refs!NoEvent \notin Refs!EventRow /\ Refs!Absent \notin Refs!EventRow
  /\ Refs!NoEvent # Refs!Absent
  BY DEF Refs!NoEvent, Refs!Absent, Refs!EventRow

(* A batch is a sequence of at most MaxRows rows.                           *)
LEMMA BatchShape ==
  ASSUME Refs!ReferencesAssumption, NEW b \in Refs!Batch
  PROVE  /\ Len(b) \in 1 .. MaxRows /\ DOMAIN b = 1 .. Len(b)
         /\ \A n \in DOMAIN b : b[n] \in External \X Participant
  <1>1. PICK n \in 1 .. MaxRows : b \in [1 .. n -> External \X Participant]
    BY DEF Refs!Batch
  <1>2. Len(b) = n
    BY <1>1, n \in Nat DEF Refs!ReferencesAssumption
  <1> QED BY <1>1, <1>2

(* The row an import is at, while it has one.                               *)
LEMMA RowAt ==
  ASSUME Refs!ReferencesAssumption, Refs!TypeOK, NEW i \in Importer, Refs!HasRow(i)
  PROVE  /\ at[i] \in DOMAIN rows[i] /\ at[i] + 1 \in 1 .. (MaxRows + 1)
         /\ Refs!Id(i) \in External /\ Refs!Who(i) \in Participant
  <1>1. rows[i] \in Refs!Batch /\ at[i] \in 1 .. (MaxRows + 1)
    BY DEF Refs!TypeOK
  <1>2. /\ Len(rows[i]) \in 1 .. MaxRows /\ DOMAIN rows[i] = 1 .. Len(rows[i])
        /\ \A n \in DOMAIN rows[i] : rows[i][n] \in External \X Participant
    BY <1>1, BatchShape
  <1>3. at[i] \in DOMAIN rows[i] /\ at[i] + 1 \in 1 .. (MaxRows + 1)
    BY <1>1, <1>2 DEF Refs!HasRow, Refs!ReferencesAssumption
  <1> QED BY <1>2, <1>3 DEF Refs!Id, Refs!Who

(* The imports start with empty hands.                                      *)
LEMMA RefsInit == ASSUME Refs!ReferencesAssumption PROVE Refs!Init => Refs!IInv
  <1> SUFFICES ASSUME Refs!Init PROVE Refs!IInv
    OBVIOUS
  <1>1. Refs!TypeOK
    BY DEF Refs!Init, Refs!TypeOK, Refs!ReferencesAssumption
  <1> QED BY <1>1 DEF Refs!Init, Refs!IInv, Refs!NoOrphanEvent, Refs!EventsAreFound,
                      Refs!ChoiceStands, Refs!Stands,
               Refs!RowsHaveLanded, Refs!OneParticipation

(* What import i can see and no step takes away.                            *)
Sighted(i) ==
  /\ rows' = rows
  /\ \A j \in Importer : phase[j] = "done" => phase'[j] = "done"
  /\ \A x \in External : reference[x] # Refs!NoEvent /\ Refs!Visible(i, reference[x][2]) => reference'[x] = reference[x]
  /\ \A q \in attendance : Refs!Visible(i, q[3]) => q \in attendance'

(* A row that has landed stays where it is.                                 *)
LEMMA LandedStays ==
  ASSUME Refs!ReferencesAssumption, Refs!IInv, NEW i \in Importer, NEW n \in DOMAIN rows[i],
         Refs!HasLanded(i, n), Sighted(i)
  PROVE  Refs!HasLanded(i, n)'
  <1> DEFINE x == rows[i][n][1]
  <1>1. rows[i] \in Refs!Batch
    BY DEF Refs!IInv, Refs!TypeOK
  <1>2. x \in External
    BY <1>1, BatchShape
  <1>3. reference[x] # Refs!NoEvent /\ Refs!Visible(i, reference[x][2])
    BY DEF Refs!HasLanded
  <1>4. PICK q \in attendance : q[1] = reference[x] /\ q[2] = rows[i][n][2] /\ Refs!Visible(i, q[3])
    BY DEF Refs!HasLanded
  <1>5. reference[x] \in Refs!EventRow /\ q \in Refs!EventRow \X Participant \X Importer
    BY <1>2, <1>3, <1>4 DEF Refs!IInv, Refs!TypeOK
  <1>6. reference[x][2] \in Importer /\ q[3] \in Importer
    BY <1>5 DEF Refs!EventRow
  <1>7. reference'[x] = reference[x] /\ q \in attendance' /\ rows' = rows
    BY <1>2, <1>3, <1>4 DEF Sighted
  <1>8. Refs!Visible(i, reference[x][2])' /\ Refs!Visible(i, q[3])'
    BY <1>3, <1>4, <1>6, <1>7 DEF Refs!Visible, Sighted
  <1> QED BY <1>3, <1>4, <1>7, <1>8 DEF Refs!HasLanded

(* Every open or finished import keeps what it can see.                     *)
LEMMA SightKept ==
  ASSUME Refs!ReferencesAssumption, Refs!IInv, [Refs!Next]_(Refs!vars), NEW i \in Importer,
         ~Refs!Abort(i)
  PROVE  Sighted(i)
  <1> USE NotEvents
  <1>1. ASSUME NEW j \in Importer, Refs!Step(j) PROVE Sighted(i)
    <2>1. CASE Refs!Create(j)
      <3>1. reference[Refs!Id(j)] = Refs!NoEvent
              /\ reference' = [reference EXCEPT ![Refs!Id(j)] = <<Refs!Id(j), j>>]
        BY <2>1 DEF Refs!Create
      <3>2. \A x \in External : reference[x] # Refs!NoEvent => reference'[x] = reference[x]
        BY <3>1 DEF Refs!IInv, Refs!TypeOK
      <3> QED BY <2>1, <3>2 DEF Refs!Create, Sighted
    <2>2. CASE Refs!Participate(j)
      BY <2>2 DEF Refs!Participate, Sighted
    <2>3. CASE Refs!Commit(j)
      BY <2>3 DEF Refs!Commit, Sighted, Refs!IInv, Refs!TypeOK
    <2>4. CASE Refs!StartImport(j)
      BY <2>4 DEF Refs!StartImport, Sighted, Refs!IInv, Refs!TypeOK
    <2>5. CASE Refs!Check(j) \/ Refs!Lookup(j) \/ Refs!LostRace(j)
      BY <2>5 DEF Refs!Check, Refs!Lookup, Refs!LostRace, Sighted
    <2> QED BY <1>1, <2>1, <2>2, <2>3, <2>4, <2>5 DEF Refs!Step
  <1>2. ASSUME NEW j \in Importer, j # i, Refs!Abort(j) PROVE Sighted(i)
    <2>1. ~Refs!Visible(i, j)
      BY <1>2 DEF Refs!Visible, Refs!Abort, Refs!Open
    <2>2. \A k \in Importer : phase[k] = "done" => phase'[k] = "done"
      BY <1>2 DEF Refs!Abort, Refs!Open, Refs!IInv, Refs!TypeOK
    <2>3. \A x \in External : reference[x] # Refs!NoEvent /\ Refs!Visible(i, reference[x][2]) => reference'[x] = reference[x]
      BY <1>2, <2>1 DEF Refs!Abort
    <2>4. \A q \in attendance : Refs!Visible(i, q[3]) => q \in attendance'
      BY <1>2, <2>1 DEF Refs!Abort
    <2> QED BY <1>2, <2>2, <2>3, <2>4 DEF Sighted, Refs!Abort
  <1>3. CASE UNCHANGED Refs!vars
    BY <1>3 DEF Refs!vars, Sighted
  <1> QED BY <1>1, <1>2, <1>3 DEF Refs!Next

(* The rows of import i that were done before.                              *)
LEMMA LandedBefore ==
  ASSUME Refs!ReferencesAssumption, Refs!IInv, [Refs!Next]_(Refs!vars), NEW i \in Importer,
         ~Refs!Abort(i),
         NEW n \in DOMAIN rows[i], (phase[i] = "import" /\ n < at[i]) \/ phase[i] = "done"
  PROVE  Refs!HasLanded(i, n)'
  <1>1. Refs!HasLanded(i, n)
    BY DEF Refs!IInv, Refs!RowsHaveLanded
  <1> QED BY <1>1, LandedStays, SightKept

(* A choice of import i that no step of its own has made.                   *)
LEMMA ChoiceKept ==
  ASSUME Refs!ReferencesAssumption, Refs!IInv, [Refs!Next]_(Refs!vars), NEW i \in Importer,
         ~Refs!Abort(i),
         chosen'[i] = chosen[i], phase'[i] = phase[i], at'[i] = at[i]
  PROVE  Refs!Stands(i)'
  <1> SUFFICES ASSUME chosen[i] # Refs!NoEvent PROVE Refs!Stands(i)'
    BY DEF Refs!Stands
  <1>1. Sighted(i)
    BY SightKept
  <1>2. phase[i] = "import" /\ Refs!HasRow(i)
    BY DEF Refs!IInv, Refs!ChoiceStands, Refs!Stands
  <1>3. Refs!Id(i) \in External /\ Refs!Id(i)' = Refs!Id(i) /\ Refs!HasRow(i)'
    BY <1>1, <1>2, RowAt DEF Sighted, Refs!Id, Refs!HasRow, Refs!IInv
  <1>4. CASE chosen[i] # Refs!Absent
    <2>1. chosen[i] = reference[Refs!Id(i)] /\ Refs!Visible(i, chosen[i][2])
            /\ reference[Refs!Id(i)] # Refs!NoEvent
      BY <1>4 DEF Refs!IInv, Refs!ChoiceStands, Refs!Stands
    <2>2. reference'[Refs!Id(i)] = reference[Refs!Id(i)]
      BY <1>1, <1>3, <2>1 DEF Sighted
    <2>3. chosen[i] \in Refs!EventRow
      BY <1>4 DEF Refs!IInv, Refs!TypeOK
    <2>4. chosen[i][2] \in Importer
      BY <2>3 DEF Refs!EventRow
    <2>5. Refs!Visible(i, chosen[i][2])'
      BY <1>1, <2>1, <2>4 DEF Refs!Visible, Sighted
    <2> QED BY <1>2, <1>3, <2>1, <2>2, <2>5 DEF Refs!Stands
  <1> QED BY <1>2, <1>3, <1>4 DEF Refs!Stands

-----------------------------------------------------------------------------
(* The types and the five parts, together but for the types.                *)


(* A step of import i leaves the choices and the rows of the others alone.  *)
LEMMA OthersKept ==
  ASSUME Refs!ReferencesAssumption, Refs!IInv, [Refs!Next]_(Refs!vars), NEW i \in Importer,
         Refs!Step(i) \/ Refs!Abort(i),
         NEW j \in Importer, j # i
  PROVE  /\ Refs!Stands(j)'
         /\ \A n \in DOMAIN rows'[j] :
              (phase'[j] = "import" /\ n < at'[j]) \/ phase'[j] = "done" => Refs!HasLanded(j, n)'
  <1>1. rows' = rows /\ chosen'[j] = chosen[j] /\ phase'[j] = phase[j] /\ at'[j] = at[j]
    BY DEF Refs!IInv, Refs!TypeOK, Refs!Step, Refs!Check, Refs!StartImport, Refs!Lookup,
           Refs!Create, Refs!LostRace, Refs!Participate, Refs!Commit, Refs!Abort
  <1>2. CASE Refs!Abort(j)
    BY <1>1, <1>2, NotEvents DEF Refs!Abort, Refs!Open, Refs!IInv, Refs!TypeOK, Refs!ChoiceStands,
                                 Refs!Stands
  <1>3. CASE ~Refs!Abort(j)
    BY <1>1, <1>3, ChoiceKept, LandedBefore
  <1> QED BY <1>2, <1>3

(* Looking a row up, validating it or finding a race lost only moves on.    *)
LEMMA ReadingKeeps ==
  ASSUME Refs!ReferencesAssumption, Refs!IInv, NEW i \in Importer,
         Refs!Check(i) \/ Refs!StartImport(i) \/ Refs!Lookup(i) \/ Refs!LostRace(i)
  PROVE  Refs!IInv'
  <1> USE NotEvents
  <1>1. [Refs!Next]_(Refs!vars) /\ Refs!Step(i) /\ ~Refs!Abort(i)
    BY DEF Refs!Next, Refs!Step, Refs!Check, Refs!StartImport, Refs!Lookup, Refs!LostRace,
           Refs!Abort, Refs!IInv, Refs!TypeOK, Refs!vars
  <1>2. UNCHANGED <<rows, event, reference, attendance>>
    BY DEF Refs!Check, Refs!StartImport, Refs!Lookup, Refs!LostRace
  <1>3. Refs!TypeOK'
    <2>1. CASE Refs!Check(i)
      <3>1. Refs!HasRow(i) /\ Refs!Id(i) \in External /\ at[i] + 1 \in 1 .. (MaxRows + 1)
        BY <2>1, RowAt DEF Refs!Check, Refs!IInv
      <3> QED BY <2>1, <3>1 DEF Refs!Check, Refs!Lock, Refs!IInv, Refs!TypeOK
    <2>2. CASE Refs!StartImport(i)
      BY <2>2 DEF Refs!StartImport, Refs!IInv, Refs!TypeOK, Refs!ReferencesAssumption
    <2>3. CASE Refs!Lookup(i) \/ Refs!LostRace(i)
      <3>1. Refs!Id(i) \in External
        BY <2>3, RowAt DEF Refs!Lookup, Refs!LostRace, Refs!IInv, Refs!ChoiceStands, Refs!Stands
      <3> QED BY <2>3, <3>1 DEF Refs!Lookup, Refs!LostRace, Refs!Lock, Refs!IInv, Refs!TypeOK
    <2> QED BY <2>1, <2>2, <2>3
  <1>4. Refs!NoOrphanEvent' /\ Refs!EventsAreFound' /\ Refs!OneParticipation'
    BY <1>2 DEF Refs!IInv, Refs!NoOrphanEvent, Refs!EventsAreFound, Refs!OneParticipation
  <1>5. Refs!Stands(i)'
    <2>1. CASE Refs!Check(i) \/ Refs!StartImport(i)
      BY <2>1 DEF Refs!Check, Refs!StartImport, Refs!IInv, Refs!ChoiceStands, Refs!Stands
    <2>2. CASE Refs!Lookup(i) \/ Refs!LostRace(i)
      <3>1. phase[i] = "import" /\ Refs!HasRow(i) /\ Refs!Id(i) \in External
        BY <2>2, RowAt DEF Refs!Lookup, Refs!LostRace, Refs!IInv, Refs!ChoiceStands, Refs!Stands
      <3>2. /\ chosen' = [chosen EXCEPT ![i] = reference[Refs!Id(i)]] /\ Refs!Known(i)
            \/ chosen'[i] = Refs!Absent
        BY <2>2 DEF Refs!Lookup, Refs!LostRace, Refs!IInv, Refs!TypeOK
      <3>3. Refs!Id(i)' = Refs!Id(i) /\ Refs!HasRow(i)' /\ phase' = phase
        BY <2>2, <3>1 DEF Refs!Lookup, Refs!LostRace, Refs!Id, Refs!HasRow
      <3>4. chosen'[i] # Refs!Absent => chosen'[i] = reference[Refs!Id(i)] /\ Refs!Visible(i, chosen'[i][2])
        BY <3>2 DEF Refs!Known, Refs!IInv, Refs!TypeOK
      <3>5. chosen'[i] # Refs!Absent => Refs!Visible(i, chosen[i][2])'
        BY <3>3, <3>4 DEF Refs!Visible
      <3> QED BY <1>2, <3>1, <3>3, <3>4, <3>5 DEF Refs!Stands
    <2> QED BY <2>1, <2>2
  <1>6. ASSUME NEW n \in DOMAIN rows'[i], (phase'[i] = "import" /\ n < at'[i]) \/ phase'[i] = "done"
        PROVE  Refs!HasLanded(i, n)'
    <2>1. rows' = rows /\ n \in 1 .. Len(rows[i])
      BY <1>2, BatchShape DEF Refs!IInv, Refs!TypeOK
    <2>2. (phase[i] = "import" /\ n < at[i]) \/ phase[i] = "done"
      BY <1>6, <2>1 DEF Refs!Check, Refs!StartImport, Refs!Lookup, Refs!LostRace, Refs!IInv,
                        Refs!TypeOK
    <2> QED BY <1>1, <2>1, <2>2, LandedBefore
  <1> QED BY <1>1, <1>3, <1>4, <1>5, <1>6, OthersKept DEF Refs!IInv, Refs!ChoiceStands,
                                                          Refs!RowsHaveLanded

(* The savepoint: nobody has a reference of that identity, so that the new  *)
(* Event is the only one.                                                   *)
LEMMA CreateKeeps ==
  ASSUME Refs!ReferencesAssumption, Refs!IInv, NEW i \in Importer, Refs!Create(i)
  PROVE  Refs!IInv'
  <1> USE NotEvents
  <1>1. [Refs!Next]_(Refs!vars) /\ Refs!Step(i) /\ ~Refs!Abort(i)
    BY DEF Refs!Next, Refs!Step, Refs!Create, Refs!Abort, Refs!IInv, Refs!TypeOK, Refs!vars
  <1>2. phase[i] = "import" /\ Refs!HasRow(i) /\ Refs!Id(i) \in External
    BY RowAt DEF Refs!Create, Refs!IInv, Refs!ChoiceStands, Refs!Stands
  <1> DEFINE e == <<Refs!Id(i), i>>
  <1>3. e \in Refs!EventRow /\ e[1] = Refs!Id(i) /\ e[2] = i
    BY <1>2 DEF Refs!EventRow
  <1>4. /\ event' = event \cup {e} /\ chosen' = [chosen EXCEPT ![i] = e]
        /\ reference' = [reference EXCEPT ![Refs!Id(i)] = e] /\ reference[Refs!Id(i)] = Refs!NoEvent
        /\ UNCHANGED <<rows, phase, at, locked, attendance>>
    BY DEF Refs!Create
  <1> HIDE DEF e
  <1>5. Refs!TypeOK'
    BY <1>3, <1>4 DEF Refs!IInv, Refs!TypeOK
  <1>6. \A f \in event : f \in Refs!EventRow /\ f[1] # Refs!Id(i)
    BY <1>4 DEF Refs!IInv, Refs!TypeOK, Refs!NoOrphanEvent
  <1>7. Refs!NoOrphanEvent'
    BY <1>2, <1>3, <1>4, <1>6 DEF Refs!IInv, Refs!TypeOK, Refs!NoOrphanEvent, Refs!EventRow
  <1>8. Refs!EventsAreFound' /\ Refs!OneParticipation'
    BY <1>2, <1>3, <1>4 DEF Refs!IInv, Refs!TypeOK, Refs!EventsAreFound, Refs!OneParticipation
  <1>9. Refs!Stands(i)'
    BY <1>2, <1>3, <1>4 DEF Refs!IInv, Refs!TypeOK, Refs!Stands, Refs!Id, Refs!HasRow, Refs!Visible
  <1>10. \A n \in DOMAIN rows'[i] :
           (phase'[i] = "import" /\ n < at'[i]) \/ phase'[i] = "done" => Refs!HasLanded(i, n)'
    BY <1>1, <1>4, LandedBefore
  <1> QED BY <1>1, <1>5, <1>7, <1>8, <1>9, <1>10, OthersKept DEF Refs!IInv, Refs!ChoiceStands,
                                                                 Refs!RowsHaveLanded

(* The participation: of the row's Person on the Event that was chosen.     *)
LEMMA ParticipateKeeps ==
  ASSUME Refs!ReferencesAssumption, Refs!IInv, NEW i \in Importer, Refs!Participate(i)
  PROVE  Refs!IInv'
  <1> USE NotEvents
  <1>1. [Refs!Next]_(Refs!vars) /\ Refs!Step(i) /\ ~Refs!Abort(i)
    BY DEF Refs!Next, Refs!Step, Refs!Participate, Refs!Abort, Refs!IInv, Refs!TypeOK, Refs!vars
  <1>2. /\ phase[i] = "import" /\ Refs!HasRow(i) /\ at[i] \in DOMAIN rows[i]
             /\ at[i] + 1 \in 1 .. (MaxRows + 1)
        /\ Refs!Id(i) \in External /\ Refs!Who(i) \in Participant
    BY RowAt DEF Refs!Participate, Refs!IInv, Refs!ChoiceStands, Refs!Stands
  <1>3. chosen[i] \in Refs!EventRow /\ chosen[i] = reference[Refs!Id(i)] /\ Refs!Visible(i, chosen[i][2])
    BY DEF Refs!Participate, Refs!IInv, Refs!ChoiceStands, Refs!Stands
  <1> DEFINE there == {q \in attendance : q[1] = chosen[i] /\ q[2] = Refs!Who(i)}
             mine == <<chosen[i], Refs!Who(i), i>>
  <1>4. /\ \A q \in there : Refs!Visible(i, q[3])
        /\ attendance' = IF there # {} THEN attendance ELSE attendance \cup {mine}
        /\ chosen' = [chosen EXCEPT ![i] = Refs!NoEvent] /\ at' = [at EXCEPT ![i] = @ + 1]
        /\ UNCHANGED <<rows, phase, locked, event, reference>>
    BY DEF Refs!Participate
  <1>5. mine \in Refs!EventRow \X Participant \X Importer /\ mine[1] = chosen[i]
          /\ mine[2] = Refs!Who(i) /\ mine[3] = i
    BY <1>2, <1>3
  <1>6. Refs!TypeOK'
    BY <1>2, <1>4, <1>5 DEF Refs!IInv, Refs!TypeOK
  <1>7. Refs!OneParticipation'
    BY <1>4, <1>5 DEF Refs!IInv, Refs!OneParticipation
  <1>8. Refs!NoOrphanEvent' /\ Refs!EventsAreFound' /\ Refs!Stands(i)'
    BY <1>4 DEF Refs!IInv, Refs!TypeOK, Refs!NoOrphanEvent, Refs!EventsAreFound, Refs!Stands
  <1>9. ASSUME NEW n, n = at[i] PROVE Refs!HasLanded(i, n)'
    <2>1. \E q \in attendance' : q[1] = chosen[i] /\ q[2] = Refs!Who(i) /\ Refs!Visible(i, q[3])
      BY <1>4, <1>5 DEF Refs!Visible
    <2> QED BY <1>3, <1>4, <1>9, <2>1 DEF Refs!HasLanded, Refs!Visible, Refs!Id, Refs!Who
  <1>10. ASSUME NEW n \in DOMAIN rows'[i],
                (phase'[i] = "import" /\ n < at'[i]) \/ phase'[i] = "done"
         PROVE  Refs!HasLanded(i, n)'
    <2>1. rows' = rows /\ n \in 1 .. Len(rows[i])
      BY <1>4, BatchShape DEF Refs!IInv, Refs!TypeOK
    <2>2. n = at[i] \/ n < at[i]
      BY <1>2, <1>4, <1>10, <2>1 DEF Refs!IInv, Refs!TypeOK
    <2>3. CASE n < at[i]
      BY <1>1, <1>2, <2>1, <2>3, LandedBefore
    <2> QED BY <1>9, <2>2, <2>3
  <1> QED BY <1>1, <1>6, <1>7, <1>8, <1>10, OthersKept DEF Refs!IInv, Refs!ChoiceStands,
                                                           Refs!RowsHaveLanded

(* The last row is done: what the import wrote becomes visible to all.      *)
LEMMA CommitKeeps ==
  ASSUME Refs!ReferencesAssumption, Refs!IInv, NEW i \in Importer, Refs!Commit(i)
  PROVE  Refs!IInv'
  <1>1. [Refs!Next]_(Refs!vars) /\ Refs!Step(i) /\ ~Refs!Abort(i)
    BY DEF Refs!Next, Refs!Step, Refs!Commit, Refs!Abort, Refs!IInv, Refs!TypeOK, Refs!vars
  <1>2. /\ phase[i] = "import" /\ ~Refs!HasRow(i) /\ phase' = [phase EXCEPT ![i] = "done"]
        /\ locked' = [locked EXCEPT ![i] = {}]
        /\ UNCHANGED <<rows, at, chosen, event, reference, attendance>>
    BY DEF Refs!Commit
  <1>3. Refs!TypeOK' /\ Refs!NoOrphanEvent' /\ Refs!EventsAreFound' /\ Refs!OneParticipation'
    BY <1>2 DEF Refs!IInv, Refs!TypeOK, Refs!NoOrphanEvent, Refs!EventsAreFound,
                Refs!OneParticipation
  <1>4. Refs!Stands(i)'
    BY <1>2 DEF Refs!IInv, Refs!ChoiceStands, Refs!Stands
  <1>5. ASSUME NEW n \in DOMAIN rows'[i] PROVE Refs!HasLanded(i, n)'
    <2>1. n \in DOMAIN rows[i] /\ n \in 1 .. Len(rows[i]) /\ Len(rows[i]) \in Nat
      BY <1>2, BatchShape DEF Refs!IInv, Refs!TypeOK, Refs!ReferencesAssumption
    <2>2. n < at[i]
      BY <1>2, <2>1 DEF Refs!HasRow, Refs!IInv, Refs!TypeOK
    <2> QED BY <1>1, <1>2, <2>1, <2>2, LandedBefore
  <1> QED BY <1>1, <1>3, <1>4, <1>5, OthersKept DEF Refs!IInv, Refs!ChoiceStands,
                                                    Refs!RowsHaveLanded

(* A failed import takes its Events, references and participations along.   *)
LEMMA AbortKeeps ==
  ASSUME Refs!ReferencesAssumption, Refs!IInv, NEW i \in Importer, Refs!Abort(i)
  PROVE  Refs!IInv'
  <1> USE NotEvents
  <1>1. [Refs!Next]_(Refs!vars)
    BY DEF Refs!Next
  <1>2. /\ phase' = [phase EXCEPT ![i] = "failed"] /\ chosen' = [chosen EXCEPT ![i] = Refs!NoEvent]
        /\ locked' = [locked EXCEPT ![i] = {}]
        /\ event' = {e \in event : e[2] # i}
        /\ reference' = [x \in External |->
             IF reference[x] # Refs!NoEvent /\ reference[x][2] = i THEN Refs!NoEvent ELSE reference[x]]
        /\ attendance' = {q \in attendance : q[3] # i}
        /\ UNCHANGED <<rows, at>>
    BY DEF Refs!Abort
  <1>3. Refs!TypeOK' /\ Refs!OneParticipation'
    BY <1>2 DEF Refs!IInv, Refs!TypeOK, Refs!OneParticipation
  <1>4. Refs!NoOrphanEvent'
    BY <1>2 DEF Refs!IInv, Refs!TypeOK, Refs!NoOrphanEvent, Refs!EventRow
  <1>5. Refs!EventsAreFound'
    BY <1>2 DEF Refs!IInv, Refs!TypeOK, Refs!EventsAreFound
  <1>6. Refs!Stands(i)' /\ phase'[i] = "failed"
    BY <1>2 DEF Refs!IInv, Refs!TypeOK, Refs!Stands
  <1> QED BY <1>1, <1>3, <1>4, <1>5, <1>6, OthersKept DEF Refs!IInv, Refs!ChoiceStands,
                                                          Refs!RowsHaveLanded

(* Every step keeps the invariant.                                          *)
LEMMA RefsNext == ASSUME Refs!ReferencesAssumption, Refs!IInv, [Refs!Next]_(Refs!vars)
                  PROVE  Refs!IInv'
  <1>1. ASSUME NEW i \in Importer, Refs!Step(i) PROVE Refs!IInv'
    BY <1>1, ReadingKeeps, CreateKeeps, ParticipateKeeps, CommitKeeps DEF Refs!Step
  <1>2. ASSUME UNCHANGED Refs!vars PROVE Refs!IInv'
    BY <1>2 DEF Refs!vars, Refs!IInv, Refs!TypeOK, Refs!NoOrphanEvent, Refs!EventsAreFound,
                Refs!ChoiceStands, Refs!Stands, Refs!RowsHaveLanded,
                Refs!HasLanded, Refs!OneParticipation, Refs!HasRow, Refs!Id, Refs!Visible
  <1> QED BY <1>1, <1>2, AbortKeeps DEF Refs!Next

(* What the invariant says of a finished import.                            *)
LEMMA FinishedHasLanded == ASSUME Refs!ReferencesAssumption, Refs!IInv PROVE Refs!RowsLand
  <1> SUFFICES ASSUME NEW i \in Importer, phase[i] = "done", NEW n \in DOMAIN rows[i]
               PROVE  LET e == reference[rows[i][n][1]]
                      IN  /\ e \in event /\ phase[e[2]] = "done"
                          /\ \E q \in attendance :
                               {r \in attendance : r[1] = e /\ r[2] = rows[i][n][2]} = {q}
    BY DEF Refs!RowsLand
  <1> DEFINE e == reference[rows[i][n][1]]
  <1>1. Refs!HasLanded(i, n) /\ rows[i][n][1] \in External
    BY BatchShape DEF Refs!IInv, Refs!RowsHaveLanded, Refs!TypeOK
  <1>2. e \in event /\ phase[e[2]] = "done"
    BY <1>1 DEF Refs!HasLanded, Refs!Visible, Refs!IInv, Refs!EventsAreFound
  <1>3. PICK q \in attendance : q[1] = e /\ q[2] = rows[i][n][2]
    BY <1>1 DEF Refs!HasLanded
  <1>4. {r \in attendance : r[1] = e /\ r[2] = rows[i][n][2]} = {q}
    BY <1>3 DEF Refs!IInv, Refs!OneParticipation
  <1> QED BY <1>2, <1>3, <1>4

(* However many Eventbrite batches are imported at once and whatever rows   *)
(* they share: a provider event has one Event, which it leads to, and every *)
(* row of a finished import has its Person on it once.                      *)
THEOREM OneEventPerIdentity == ASSUME Refs!ReferencesAssumption
                               PROVE  Refs!Spec => []Refs!OneEventForAll
  <1>1. Refs!Spec => []Refs!IInv
    BY RefsInit, RefsNext, PTL DEF Refs!Spec
  <1>2. Refs!IInv => Refs!OneEventForAll
    BY FinishedHasLanded DEF Refs!IInv, Refs!OneEventForAll
  <1> QED BY <1>1, <1>2, PTL

-----------------------------------------------------------------------------
(* A row on its way into the CRM: how far it comes is what the judgements   *)
(* said of it.                                                              *)
LEMMA RowsInit == Cells!Init => Cells!StageIsJudged
  BY DEF Cells!Init, Cells!StageIsJudged

LEMMA RowsNext == Cells!StageIsJudged /\ [Cells!Next]_cellVars => Cells!StageIsJudged'
  <1> SUFFICES ASSUME Cells!StageIsJudged, [Cells!Next]_cellVars PROVE Cells!StageIsJudged'
    OBVIOUS
  <1>1. UNCHANGED <<sourceType, missing, row, matched>>
    BY DEF Cells!Next, Cells!Read, Cells!Normalize, Cells!Import, cellVars
  <1>2. /\ Cells!Skipped' <=> Cells!Skipped
        /\ Cells!Errors' = Cells!Errors
        /\ Cells!Importable' <=> Cells!Importable
    BY <1>1 DEF Cells!Skipped, Cells!Blank, Cells!Errors, Cells!EventbriteErrors, Cells!MembershipFormErrors,
                Cells!StartErrors, Cells!BadIn, Cells!Importable, Cells!NewPersonSource, Cells!Storable,
                Cells!EventSource, Cells!MembershipFormSource
  <1> QED BY <1>1, <1>2 DEF Cells!StageIsJudged, Cells!Next, Cells!Read, Cells!Normalize, Cells!Import, cellVars

(* What is written has passed both judgements.                              *)
LEMMA JudgedIsSound == ASSUME Cells!StageIsJudged
                       PROVE  /\ Cells!NothingBadIsWritten
                              /\ sourceType = "EVENTBRITE" => Cells!JudgementsAgree
  <1>1. CASE sourceType = "EVENTBRITE" /\ stage \in {"COMMITTED", "refused"}
    <2>1. row \in Cells!EventbriteRow /\ ~Cells!Skipped
      BY <1>1 DEF Cells!StageIsJudged
    <2>2. /\ Cells!BadIn({"email"}) = {} /\ Cells!BadIn({"ticket_quantity", "guest"}) = {}
          /\ {c \in {"event_id", "event_name"} : row[c] = "blank"} = {} /\ Cells!StartErrors = {}
      BY <1>1 DEF Cells!StageIsJudged, Cells!Errors, Cells!EventbriteErrors
    <2>3. /\ row.email # "bad" /\ row.ticket_quantity # "bad" /\ row.guest # "bad"
          /\ row.event_id # "blank" /\ row.event_name # "blank"
          /\ row.start_date = "good" /\ row.start_time = "good" /\ row.timezone = "good"
      BY <2>2 DEF Cells!BadIn, Cells!StartErrors
    <2>4. /\ DOMAIN row = {"name", "email", "mobile", "event_id", "event_name", "start_date", "start_time",
                           "timezone", "ticket_quantity", "guest", "totals"}
          /\ row.name \in {"blank", "good", "long"} /\ row.event_name \in {"blank", "good", "long"}
          /\ row.mobile # "bad" /\ row.event_id # "bad" /\ row.totals \in BOOLEAN
      BY <2>1 DEF Cells!EventbriteRow, Cells!Limited, Cells!Text
    <2>5. ~row.totals
      BY <1>1, <2>1, <2>4 DEF Cells!Skipped
    <2>6. Cells!NothingBadIsWritten
      BY <1>1, <2>3, <2>4, <2>5 DEF Cells!NothingBadIsWritten
    <2>7. Cells!JudgementsAgree
      BY <1>1, <2>3, <2>4 DEF Cells!StageIsJudged, Cells!JudgementsAgree, Cells!Importable, Cells!NewPersonSource,
                              Cells!Storable, Cells!EventSource
    <2> QED BY <2>6, <2>7
  <1>2. CASE sourceType # "EVENTBRITE" /\ stage = "COMMITTED"
    <2>1. row \in Cells!MembershipFormRow
      BY <1>2 DEF Cells!StageIsJudged
    <2>2. Cells!BadIn({"gender", "age_range", "email", "linkedin_url"}) = {} /\ row.timestamp = "good"
      BY <1>2 DEF Cells!StageIsJudged, Cells!Errors, Cells!MembershipFormErrors, Cells!Importable,
                  Cells!MembershipFormSource
    <2>3. row.gender # "bad" /\ row.age_range # "bad" /\ row.email # "bad" /\ row.linkedin_url # "bad"
      BY <2>2 DEF Cells!BadIn
    <2>4. /\ DOMAIN row = {"timestamp", "name", "gender", "age_range", "email", "mobile", "linkedin_url"}
          /\ row.name # "bad" /\ row.mobile # "bad"
      BY <2>1 DEF Cells!MembershipFormRow, Cells!Limited, Cells!Text
    <2> QED BY <1>2, <2>2, <2>3, <2>4 DEF Cells!NothingBadIsWritten
  <1>3. CASE stage \notin {"COMMITTED", "refused"}
    BY <1>3 DEF Cells!NothingBadIsWritten, Cells!JudgementsAgree
  <1>4. CASE sourceType # "EVENTBRITE" /\ stage = "refused"
    BY <1>4 DEF Cells!NothingBadIsWritten
  <1> QED BY <1>1, <1>2, <1>3, <1>4

-----------------------------------------------------------------------------
(* The scenarios, whatever they stage and allow: each step is one of the    *)
(* imports, of the row that is looked at, or of the imports that share.     *)
LEMMA ScenarioSteps ==
  ASSUME [MCNext]_allVars
  PROVE  /\ [Next]_vars /\ [Cells!Next]_cellVars /\ [Refs!Next]_(Refs!vars)
         /\ scenario' = scenario
         /\ UNCHANGED vars \/ (scenario \in Scenarios /\ (Scenario[scenario].inTurn => InTurn))
  <1>1. CASE MCNext
    <2>1. CASE scenario \in Scenarios /\ Next /\ Within /\ UNCHANGED <<cellVars, refVars>>
      BY <1>1, <2>1 DEF MCNext, Within, Refs!vars, refVars
    <2>2. CASE scenario = "cells" /\ Cells!Next /\ UNCHANGED <<vars, refVars>>
      BY <1>1, <2>2 DEF MCNext, Refs!vars, refVars
    <2>3. CASE scenario = "references" /\ Refs!Next /\ UNCHANGED <<vars, cellVars>>
      BY <1>1, <2>3 DEF MCNext
    <2> QED BY <1>1, <2>1, <2>2, <2>3 DEF MCNext
  <1>2. CASE UNCHANGED allVars
    BY <1>2 DEF allVars, refVars, Refs!vars
  <1> QED BY <1>1, <1>2

(* Every scenario is one of the imports.                                    *)
LEMMA ScenariosAreImports == MCSpec => Spec
  <1>1. MCInit => Init
    BY DEF MCInit
  <1>2. [MCNext]_allVars => [Next]_vars
    BY ScenarioSteps
  <1> QED BY <1>1, <1>2, PTL DEF MCSpec, Spec

(* The status of every batch and the counts that are shown with it are what *)
(* its records say, and an imported batch has no row left over.             *)
THEOREM StatusStaysTrue == ASSUME MayPostEarly = FALSE PROVE MCSpec => []StatusTellsRecords
  <1>1. FitInv => StatusTellsSummary
    BY SummaryFits
  <1>2. RowsInv /\ TurnsInv /\ WrittenInv /\ FitInv /\ ImportedIsComplete => StatusTellsRecords
    BY <1>1 DEF StatusTellsRecords
  <1> QED BY <1>2, ScenariosAreImports, RowsInvariance, TurnsInvariance, WrittenInvariance, FitInvariance,
             ImportsAreComplete, PTL

(* Where People stay between the checks of an import and its writes, nobody *)
(* is created next to a Person that nobody reviewed.                        *)
THEOREM ReviewsStayInTurn == ASSUME MayPostEarly = FALSE PROVE MCSpec => []ReviewedInTurn
  <1>1. MCInit => ReviewedInTurn
    BY DEF MCInit, Init, ReviewedInTurn, CreatedPeopleAreReviewed, EvidenceHolds
  <1>2. RowsInv /\ RowsInv' /\ FitInv /\ ReviewedInTurn /\ [MCNext]_allVars => ReviewedInTurn'
    <2> SUFFICES ASSUME RowsInv, RowsInv', FitInv, ReviewedInTurn, [MCNext]_allVars,
                        scenario' \in Scenarios, Scenario[scenario'].inTurn
                 PROVE  CreatedPeopleAreReviewed' /\ EvidenceHolds'
      BY DEF ReviewedInTurn
    <2>1. [Next]_vars /\ scenario' = scenario /\ (UNCHANGED vars \/ InTurn)
      BY ScenarioSteps
    <2>2. InTurn
      BY <2>1 DEF InTurn, vars
    <2>3. CreatedPeopleAreReviewed /\ EvidenceHolds
      BY <2>1 DEF ReviewedInTurn
    <2> QED BY <2>1, <2>2, <2>3, NextEvidence, NextReviewed DEF RowsInv, FitInv
  <1> QED BY <1>1, <1>2, ScenariosAreImports, RowsInvariance, FitInvariance, PTL DEF MCSpec

(* Whatever is in the cells of a row: what is written parses, and the two   *)
(* judgements of an order agree.                                            *)
THEOREM RowsStaySound == MCSpec => []RowsAreSound
  <1>1. MCInit => Cells!StageIsJudged
    BY RowsInit DEF MCInit, NoCells, Cells!StageIsJudged
  <1>2. Cells!StageIsJudged /\ [MCNext]_allVars => Cells!StageIsJudged'
    BY RowsNext, ScenarioSteps
  <1>3. Cells!StageIsJudged => RowsAreSound
    BY JudgedIsSound DEF RowsAreSound
  <1> QED BY <1>1, <1>2, <1>3, PTL DEF MCSpec

(* Imports that share provider events leave one Event for each, with all    *)
(* their rows on it.                                                        *)
THEOREM EventsStayShared == MCSpec => []OneEventForAll
  <1>1. Refs!ReferencesAssumption /\ External # {} /\ Participant # {}
    BY SharedAssumption
  <1>2. NoRefs => Refs!IInv
    <2> SUFFICES ASSUME NoRefs PROVE Refs!IInv
      OBVIOUS
    <2> DEFINE x == CHOOSE e \in External : TRUE
               p == CHOOSE q \in Participant : TRUE
    <2>1. x \in External /\ p \in Participant
      BY <1>1
    <2> HIDE DEF x, p
    <2>2. 1 \in 1 .. MaxRows /\ <<<<x, p>>>> \in [1 .. 1 -> External \X Participant]
      BY <1>1, <2>1 DEF Refs!ReferencesAssumption
    <2>3. <<<<x, p>>>> \in Refs!Batch
      BY <2>2 DEF Refs!Batch
    <2>4. rows = [i \in Importer |-> <<<<x, p>>>>]
      BY DEF NoRefs, x, p
    <2>5. Refs!TypeOK
      <3> DEFINE only == <<<<x, p>>>>
      <3>1. rows = [i \in Importer |-> only] /\ only \in Refs!Batch
        BY <2>3, <2>4
      <3> HIDE DEF only
      <3>2. rows \in [Importer -> Refs!Batch]
        BY <3>1
      <3>3. /\ phase \in [Importer -> {"check", "import", "done", "failed"}]
            /\ at \in [Importer -> 1 .. (MaxRows + 1)]
            /\ locked \in [Importer -> SUBSET External] /\ event \subseteq Refs!EventRow
        BY <1>1 DEF NoRefs, Refs!ReferencesAssumption
      <3>4. /\ chosen \in [Importer -> Refs!EventRow \cup {Refs!NoEvent, Refs!Absent}]
            /\ reference \in [External -> Refs!EventRow \cup {Refs!NoEvent}]
            /\ attendance \subseteq Refs!EventRow \X Participant \X Importer
        BY DEF NoRefs
      <3> QED BY <3>2, <3>3, <3>4 DEF Refs!TypeOK
    <2> QED BY <2>5 DEF NoRefs, Refs!IInv, Refs!NoOrphanEvent, Refs!EventsAreFound, Refs!ChoiceStands,
                        Refs!Stands, Refs!RowsHaveLanded, Refs!OneParticipation
  <1>3. MCInit => Refs!IInv
    BY <1>1, <1>2, RefsInit DEF MCInit
  <1>4. Refs!IInv /\ [MCNext]_allVars => Refs!IInv'
    BY <1>1, RefsNext, ScenarioSteps
  <1>5. Refs!IInv => OneEventForAll
    BY <1>1, FinishedHasLanded DEF OneEventForAll, Refs!OneEventForAll, Refs!IInv
  <1> QED BY <1>3, <1>4, <1>5, PTL DEF MCSpec
=============================================================================
