--------------------------- MODULE HistoricalImport ---------------------------
(***************************************************************************)
(* data_imports: a workbook becomes a batch of staged records, analysis    *)
(* and staff decide which Person each record is about, and the import      *)
(* writes People, Memberships and participations.                          *)
(*                                                                         *)
(* Whatever locks the batch row and commits at once is one action.  Three  *)
(* things are longer and interleave with everything else: the upload,      *)
(* which commits the batch, its rows and the analysis one after the other; *)
(* the import, which checks every record before it writes any; and the     *)
(* staff around them.  The analysis reads the table of People at one       *)
(* moment.                                                                 *)
(*                                                                         *)
(* A record is the signals of one row of a workbook and what was decided   *)
(* about it.  Demographics, profile columns and event data other than the  *)
(* event's id are filled into blanks the way an address is.                *)
(***************************************************************************)
EXTENDS IdentityPolicy, FiniteSetsExt, Sequences

CONSTANTS MembershipBatch, EventbriteBatch,   \* batches by source type
          Rows,           \* bound: rows of a workbook
          Source,         \* the rows that occur in workbooks
          Numbered,       \* bound: the ids People may have, 1..n
          FirstPeople,    \* the tables of People the uploads may start from
          NewIdentity,    \* signals that staff give to People meanwhile
          Event,          \* ids of external events
          MaxChanges,     \* bound: changes of People by staff
          MaxCrashes,     \* bound: uploads that are cut off
          MayPostEarly    \* is /analyze posted for a batch still uploading?

Batch == MembershipBatch \cup EventbriteBatch
Record == Batch \X (1..Rows)
Absent == [type |-> "NONE", email |-> None, mobile |-> NoMobile, name |-> None,
           membership |-> "NONE"]

Person == 1..Numbered
Ids(table) == {p \in Person : table[p].type # "NONE"}

ASSUME ImportAssumption ==
  /\ Numbered \in Nat
  /\ Rows \in Nat \ {0} /\ {MaxChanges, MaxCrashes} \subseteq Nat
  /\ MembershipBatch \cap EventbriteBatch = {}
  /\ MayPostEarly \in BOOLEAN
  /\ \A s \in Source : s.event \in Event /\ s.mobile.written = "plain"   (* rows are normalized *)

(* The database numbers People one after the other.                         *)
ASSUME FirstPeopleAssumption ==
  \A table \in FirstPeople :
    /\ DOMAIN table = Person
    /\ \A p \in Person : DOMAIN table[p] = DOMAIN Absent
    /\ \A p \in Ids(table) : p <= Cardinality(Ids(table))
    /\ \A p \in Person \ Ids(table) : table[p] = Absent

VARIABLES status,         \* status[b]: ImportBatch.status
          upload,         \* upload[b]: how far the upload request has come
          checked,        \* batches whose import has checked and holds its locks
          record,         \* record[r]: the ImportRecord
          people, participation, changes, crashes,
          audit,          \* Person events of imports, with the record they name
          imported,       \* imported[b]: the results of the imports of b
          unreviewed      \* history: <<p, q>> if p was created next to a match q
                          \* that nobody reviewed

vars == <<status, upload, checked, record, people, participation, changes,
          crashes, audit, imported, unreviewed>>
crmVars == <<people, participation, changes, audit, imported, unreviewed>>
NoEvidence == [collision |-> "NO_BLOCKING", people |-> {}]

Create == {"NO_MATCH", "STAFF_CREATE_NEW"}
Match == {"AUTO_MATCH", "STAFF_MATCH"}
ByStaff == {"STAFF_MATCH", "STAFF_CREATE_NEW"}
RecordStatus == {"NONE", "STAGED", "INVALID", "REVIEW_REQUIRED", "RESOLVED", "COMMITTED", "FAILED"}
NoRecord == [status |-> "NONE", source |-> CHOOSE s \in Source : TRUE, method |-> "NONE",
             person |-> 0, candidates |-> {}, evidence |-> NoEvidence, outcome |-> "NONE"]

Init ==
  /\ status = [b \in Batch |-> "NONE"]
  /\ upload = [b \in Batch |-> "none"]
  /\ checked = {}
  /\ record = [r \in Record |-> NoRecord]
  /\ people \in FirstPeople
  /\ participation = {}
  /\ changes = 0 /\ crashes = 0
  /\ audit = {}
  /\ imported = [b \in Batch |-> <<>>]
  /\ unreviewed = {}

RecordsOf(b) == {r \in Record : r[1] = b /\ record[r].status # "NONE"}

(* The batch row is locked by whoever analyzes, resolves or imports; only   *)
(* the import keeps it across more than one step.                          *)
Unlocked(b) == b \notin checked

(* Matched People are locked from the checks of an import to its end.       *)
HeldByImport(p) == \E b \in checked : \E r \in RecordsOf(b) :
  record[r].method \in Match /\ record[r].person = p

-----------------------------------------------------------------------------
(* Analysis of one record.  The search takes stored numbers as they are     *)
(* written; agreement is judged on normalized ones.                        *)
Found(s) == {p \in Business(people) :
  SameEmail(s.email, people[p].email) \/ (s.mobile.number # None /\ people[p].mobile = s.mobile)}

Contradicts(s, p) ==
  \/ s.name # None /\ s.name # people[p].name
  \/ /\ s.mobile.number # None /\ people[p].mobile.number # None
     /\ ImportMobile(people[p].mobile) # s.mobile

(* The one candidate, if it has the address and nothing speaks against it.  *)
Unmistakable(s) == {p \in Found(s) :
  Found(s) = {p} /\ SameEmail(s.email, people[p].email) /\ ~Contradicts(s, p)}

Decided(rec, newStatus, method, p) ==
  [status |-> newStatus, source |-> rec.source, method |-> method, person |-> p,
   candidates |-> rec.candidates, evidence |-> rec.evidence, outcome |-> "NONE"]

Analyzed(rec) ==
  LET found == Found(rec.source)
      sure == Unmistakable(rec.source)
      fresh == [rec EXCEPT !.candidates = found, !.evidence = NoEvidence]
  IN CASE found = {} -> Decided(fresh, "RESOLVED", "NO_MATCH", 0)
       [] sure # {}  -> Decided(fresh, "RESOLVED", "AUTO_MATCH", CHOOSE p \in sure : TRUE)
       [] OTHER      -> Decided(fresh, "REVIEW_REQUIRED", "NOT_RESOLVED", 0)

(* Mutation of Analyzable: decisions of staff are analyzed again as well.   *)
AnalyzableWithDecided(b) ==
  {r \in RecordsOf(b) : record[r].status \in {"STAGED", "RESOLVED", "REVIEW_REQUIRED"}}

(* What has not been decided by staff is analyzed, again if need be.        *)
Analyzable(b) == {r \in RecordsOf(b) :
  /\ record[r].status \in {"STAGED", "RESOLVED", "REVIEW_REQUIRED"}
  /\ record[r].method \notin ByStaff}

SharesSignal(s, t) == SameEmail(s.email, t.email) \/ SameMobile(s.mobile, t.mobile)

(* Records of one batch that would create People with a signal in common.   *)
(* Only the flat rows of Membership Form batches are seen by this check.    *)
Duplicates(b, rec) == {r \in RecordsOf(b) :
  /\ b \in MembershipBatch
  /\ rec[r].status = "RESOLVED" /\ rec[r].method \in Create
  /\ \E q \in RecordsOf(b) \ {r} : /\ rec[q].status = "RESOLVED" /\ rec[q].method \in Create
                                   /\ SharesSignal(rec[r].source, rec[q].source)}

(* Mutation of AnalysisAllowed: the status is not looked at.                *)
AnalysisAlwaysAllowed(b) == status[b] # "NONE"

AnalysisAllowed(b) ==
  IF b \in EventbriteBatch THEN status[b] = "STAGED"
  ELSE status[b] \in {"PROCESSING", "READY_FOR_REVIEW", "READY_FOR_IMPORT"}

Analyze(b) ==
  LET fresh == [r \in Record |-> IF r \in Analyzable(b) THEN Analyzed(record[r]) ELSE record[r]]
      duplicates == Duplicates(b, fresh)
      review == \E r \in Analyzable(b) : fresh[r].status = "REVIEW_REQUIRED"
  IN /\ record' = [r \in Record |-> IF r \in duplicates
                                    THEN Decided(fresh[r], "FAILED", "NOT_RESOLVED", 0)
                                    ELSE fresh[r]]
     /\ status' = [status EXCEPT ![b] =
          IF duplicates # {} THEN "FAILED"
          ELSE IF review THEN "READY_FOR_REVIEW" ELSE "READY_FOR_IMPORT"]

-----------------------------------------------------------------------------
(* An upload: the batch, then all its rows, then for a Membership Form the  *)
(* analysis.  No other request knows the batch before the upload answers,   *)
(* unless somebody reads the list of batches meanwhile (MayPostEarly).      *)
StartUpload(b) ==
  /\ upload[b] = "none"
  /\ status' = [status EXCEPT ![b] = "PROCESSING"]
  /\ upload' = [upload EXCEPT ![b] = "reading"]
  /\ UNCHANGED <<checked, record, crashes>> /\ UNCHANGED crmVars

StageRows(b) ==
  /\ upload[b] = "reading" /\ Unlocked(b)
  /\ \E n \in 0..Rows : \E rows \in [1..n -> Source] :
       record' = [r \in Record |->
         IF r[1] = b /\ r[2] <= n
         THEN [NoRecord EXCEPT !.source = rows[r[2]],
                               !.status = IF rows[r[2]].valid THEN "STAGED" ELSE "INVALID"]
         ELSE record[r]]
  /\ upload' = [upload EXCEPT ![b] = "staged"]
  /\ UNCHANGED <<status, checked, crashes>> /\ UNCHANGED crmVars

(* A workbook that cannot be read leaves a FAILED batch without rows.       *)
RejectWorkbook(b) ==
  /\ upload[b] = "reading" /\ Unlocked(b)
  /\ status' = [status EXCEPT ![b] = "FAILED"]
  /\ upload' = [upload EXCEPT ![b] = "done"]
  /\ UNCHANGED <<checked, record, crashes>> /\ UNCHANGED crmVars

FinishStaging(b) ==
  /\ b \in EventbriteBatch /\ upload[b] = "staged"
  /\ status' = [status EXCEPT ![b] = "STAGED"]
  /\ upload' = [upload EXCEPT ![b] = "done"]
  /\ UNCHANGED <<checked, record, crashes>> /\ UNCHANGED crmVars

AnalyzeUpload(b) ==
  /\ b \in MembershipBatch /\ upload[b] = "staged" /\ Unlocked(b)
  /\ \/ AnalysisAllowed(b) /\ Analyze(b) /\ upload' = [upload EXCEPT ![b] = "done"]
     \/ upload' = [upload EXCEPT ![b] = "failing"] /\ UNCHANGED <<status, record>>
  /\ UNCHANGED <<checked, crashes>> /\ UNCHANGED crmVars

FailUpload(b) ==
  /\ upload[b] = "failing" /\ Unlocked(b)
  /\ status' = [status EXCEPT ![b] = "FAILED"]
  /\ upload' = [upload EXCEPT ![b] = "done"]
  /\ UNCHANGED <<checked, record, crashes>> /\ UNCHANGED crmVars

CrashUpload(b) ==
  /\ upload[b] \in {"reading", "staged", "failing"} /\ crashes < MaxCrashes
  /\ upload' = [upload EXCEPT ![b] = "dead"]
  /\ crashes' = crashes + 1
  /\ UNCHANGED <<status, checked, record>> /\ UNCHANGED crmVars

(* POST /analyze.  It is documented for Eventbrite; the code takes both.    *)
PostAnalyze(b) ==
  /\ MayPostEarly \/ upload[b] \in {"done", "dead"}
  /\ Unlocked(b) /\ AnalysisAllowed(b) /\ Analyze(b)
  /\ UNCHANGED <<upload, checked, crashes>> /\ UNCHANGED crmVars

-----------------------------------------------------------------------------
EvidenceOf(s) == Evidence(people, s.email, s.mobile)

(* What staff may post: a candidate, or that it is nobody the CRM knows.    *)
Decision ==
  [resolution : {"SAME_PERSON"}, person : Person, confirmed : {FALSE}] \cup
  [resolution : {"DIFFERENT_PERSON"}, person : {0}, confirmed : BOOLEAN]

ValidCandidate(r, p) == p \in record[r].candidates \cap Business(people)

SamePerson(r, decision) ==
  /\ decision.resolution = "SAME_PERSON" /\ ValidCandidate(r, decision.person)
  /\ record' = [record EXCEPT ![r] = Decided(@, "RESOLVED", "STAFF_MATCH", decision.person)]

DifferentPerson(r, decision) ==
  LET evidence == EvidenceOf(record[r].source) IN
  /\ decision.resolution = "DIFFERENT_PERSON" /\ SafeToCreate(evidence, decision.confirmed)
  /\ record' = [record EXCEPT ![r] =
       [Decided(@, "RESOLVED", "STAFF_CREATE_NEW", 0) EXCEPT !.evidence = evidence]]

ReviewQueue(b) == {r \in RecordsOf(b) : record[r].status = "REVIEW_REQUIRED"}

(* Mutation of Resolve: one decision makes the batch ready.                 *)
ResolveLast(r) ==
  /\ Unlocked(r[1]) /\ r \in ReviewQueue(r[1])
  /\ \E decision \in Decision : SamePerson(r, decision) \/ DifferentPerson(r, decision)
  /\ status' = [status EXCEPT ![r[1]] = "READY_FOR_IMPORT"]
  /\ UNCHANGED <<upload, checked, crashes>> /\ UNCHANGED crmVars

(* A decision of staff.  The status of the batch is written, not read.      *)
Resolve(r) ==
  /\ Unlocked(r[1]) /\ r \in ReviewQueue(r[1])
  /\ \E decision \in Decision : SamePerson(r, decision) \/ DifferentPerson(r, decision)
  /\ status' = [status EXCEPT ![r[1]] =
       IF ReviewQueue(r[1])' # {}
       THEN "READY_FOR_REVIEW" ELSE "READY_FOR_IMPORT"]
  /\ UNCHANGED <<upload, checked, crashes>> /\ UNCHANGED crmVars

-----------------------------------------------------------------------------
(* The preflight of an import.                                              *)
Creates(r) == record[r].status = "RESOLVED" /\ record[r].method \in Create
Matched(r) == record[r].status = "RESOLVED" /\ record[r].method \in Match

(* Leads(b)[i]: row i creates a Person of its own, because no row before it *)
(* that does so has one of its signals.                                     *)
Leads(b) ==
  LET leads[i \in 1..Rows] ==
        /\ Creates(<<b, i>>)
        /\ \A j \in 1..(i - 1) :
             leads[j] => ~SharesSignal(record[<<b, j>>].source, record[<<b, i>>].source)
  IN leads

LeadersOf(r) == {j \in 1..(r[2] - 1) :
  Leads(r[1])[j] /\ SharesSignal(record[<<r[1], j>>].source, record[r].source)}

Conflicts(s, t) ==
  \/ s.email # None /\ t.email # None /\ s.email # t.email
  \/ s.mobile.number # None /\ t.mobile.number # None /\ s.mobile # t.mobile

(* Membership Forms must not repeat a signal; Eventbrite buyers may, if     *)
(* they repeat those of one new Person and contradict none of them.        *)
Coalesces(r) ==
  IF r[1] \in MembershipBatch THEN LeadersOf(r) = {}
  ELSE /\ Cardinality(LeadersOf(r)) <= 1
       /\ \A j \in LeadersOf(r) : ~Conflicts(record[<<r[1], j>>].source, record[r].source)

(* Mutation of IdentityOK: the evidence is not evaluated again.             *)
IdentityTrusted(r) == TRUE

(* What was decided still rests on the same evidence.                       *)
IdentityOK(r) ==
  IF record[r].method = "STAFF_CREATE_NEW" THEN record[r].evidence = EvidenceOf(record[r].source)
  ELSE ~RequiresReview(EvidenceOf(record[r].source))

MembershipOK(r) == r[1] \in MembershipBatch => people[record[r].person].membership # "FORMER"

Settled(r) == record[r].outcome = "NONE" /\ record[r].status \in {"INVALID", "RESOLVED"}

Preflight(b) ==
  /\ \A r \in RecordsOf(b) :
       /\ Settled(r)
       /\ Matched(r) => record[r].person \in Business(people) /\ MembershipOK(r)
       /\ Creates(r) => /\ record[r].person = 0 /\ record[r].source.name # None
                        /\ IdentityOK(r) /\ Coalesces(r)

(* Mutation of Ready: a batch that is imported counts as ready.             *)
ReadyOrImported(b) == status[b] \in {"READY_FOR_IMPORT", "IMPORTED"}

Ready(b) == status[b] = "READY_FOR_IMPORT"

(* The checks of an import; it then holds the batch, its rows and the       *)
(* matched People.  A refused import leaves nothing behind.                *)
CheckImport(b) ==
  /\ Unlocked(b) /\ Ready(b) /\ Preflight(b)
  /\ \A r \in RecordsOf(b) : Matched(r) => ~HeldByImport(record[r].person)
  /\ checked' = checked \cup {b}
  /\ UNCHANGED <<status, upload, record, crashes>> /\ UNCHANGED crmVars

-----------------------------------------------------------------------------
(* The writes of an import.  Rows are taken in order, so ids of new People  *)
(* ascend with the rows that create them.                                   *)
Used == Cardinality(Ids(people))
Leaders(b) == {r \in RecordsOf(b) : Creates(r) /\ Leads(b)[r[2]]}
NewPerson(b, i) == Used + Cardinality({r \in Leaders(b) : r[2] <= i})

PersonOf(r) ==
  IF Matched(r) THEN record[r].person
  ELSE NewPerson(r[1], IF r \in Leaders(r[1]) THEN r[2] ELSE Max(LeadersOf(r)))

RowsFor(b, p) == {r \in RecordsOf(b) : (Matched(r) \/ Creates(r)) /\ PersonOf(r) = p}

(* Mutation of FillsEmail: what a row says replaces what the CRM knows.     *)
FillsEmailAlways(r) == Matched(r) /\ record[r].source.email # None

(* A matched row fills what the Person lacked when it was loaded, which was *)
(* before any row was written: of two rows the later one stays.            *)
FillsEmail(r) == /\ Matched(r) /\ record[r].source.email # None
                 /\ people[record[r].person].email = None
FillsMobile(r) == /\ Matched(r) /\ record[r].source.mobile.number # None
                  /\ people[record[r].person].mobile.number = None

Latest(rows) == CHOOSE r \in rows : \A q \in rows : q[2] <= r[2]

Filled(b, p) ==
  LET emails == {r \in RowsFor(b, p) : FillsEmail(r)}
      mobiles == {r \in RowsFor(b, p) : FillsMobile(r)}
  IN [people[p] EXCEPT
        !.email = IF emails = {} THEN @ ELSE record[Latest(emails)].source.email,
        !.mobile = IF mobiles = {} THEN @ ELSE record[Latest(mobiles)].source.mobile]

Founded(s) == [type |-> "BUSINESS", email |-> s.email, mobile |-> s.mobile, name |-> s.name,
               membership |-> "NONE"]

(* Only Membership Forms make members, and only of those who never were.    *)
Joined(b, row) ==
  IF b \in MembershipBatch /\ row.membership = "NONE"
  THEN [row EXCEPT !.membership = "ACTIVE"] ELSE row

Committed(b, r) ==
  IF ~Matched(r) /\ ~Creates(r) THEN [record[r] EXCEPT !.outcome = "SKIPPED"]
  ELSE [record[r] EXCEPT !.status = "COMMITTED", !.person = PersonOf(r),
          !.outcome = IF r \in Leaders(b) THEN "CREATED" ELSE "EXISTING"]

(* Mutation of Events: a row that shares a Person is said to create it too. *)
EventsPerRow(b) ==
  {[action |-> "PERSON_CREATED", person |-> PersonOf(r), record |-> r] :
     r \in {q \in RecordsOf(b) : Creates(q)}}

Events(b) ==
  {[action |-> "PERSON_CREATED", person |-> PersonOf(r), record |-> r] : r \in Leaders(b)} \cup
  {[action |-> "EMAIL_FILLED", person |-> PersonOf(r), record |-> r] :
     r \in {q \in RecordsOf(b) : FillsEmail(q)}} \cup
  {[action |-> "MOBILE_FILLED", person |-> PersonOf(r), record |-> r] :
     r \in {q \in RecordsOf(b) : FillsMobile(q)}}

(* What the import answers.  An order of a buyer that an earlier row has    *)
(* created counts as processed only.                                       *)
Result(b) ==
  LET rows == RecordsOf(b)
      invalid == {r \in rows : record[r].status = "INVALID"}
  IN [processed |-> Cardinality(rows \ invalid), skipped |-> Cardinality(invalid),
      created |-> Cardinality(Leaders(b)), matched |-> Cardinality({r \in rows : Matched(r)})]

(* Whom a new Person duplicates although no reviewer was shown that one.    *)
Unseen(r, table) ==
  LET s == record[r].source
  IN DuplicatePeople(table, s.email, s.mobile, PersonOf(r)) \ record[r].evidence.people

CommitImport(b) ==
  /\ b \in checked /\ Used + Cardinality(Leaders(b)) <= Numbered
  /\ people' = [p \in Person |->
       CASE RowsFor(b, p) = {} -> people[p]
         [] \E r \in Leaders(b) : PersonOf(r) = p ->
              Joined(b, Founded(record[CHOOSE r \in Leaders(b) : PersonOf(r) = p].source))
         [] OTHER -> Joined(b, Filled(b, p))]
  /\ record' = [r \in Record |-> IF r \in RecordsOf(b) THEN Committed(b, r) ELSE record[r]]
  /\ participation' = participation \cup
       {<<record[r].source.event, PersonOf(r)>> :
          r \in {q \in RecordsOf(b) : b \in EventbriteBatch /\ (Matched(q) \/ Creates(q))}}
  /\ audit' = audit \cup Events(b)
  /\ status' = [status EXCEPT ![b] = "IMPORTED"]
  /\ imported' = [imported EXCEPT ![b] = Append(@, Result(b))]
  /\ checked' = checked \ {b}
  /\ unreviewed' = unreviewed \cup UNION {{PersonOf(r)} \X Unseen(r, people') : r \in Leaders(b)}
  /\ UNCHANGED <<upload, changes, crashes>>

(* Anything that fails while rows are written rolls all of them back.       *)
AbortImport(b) ==
  /\ b \in checked /\ checked' = checked \ {b}
  /\ UNCHANGED <<status, upload, record, crashes>> /\ UNCHANGED crmVars

-----------------------------------------------------------------------------
(* Staff work on People while batches wait.                                 *)
MayChange == changes < MaxChanges
Changed == changes' = changes + 1

(* Who sends the matches found back as reviewed creates the Person anyway;  *)
(* without matches there is nothing to confirm.                             *)
CreatePerson ==
  /\ MayChange /\ Used < Numbered
  /\ \E s \in NewIdentity : people' = [people EXCEPT ![Used + 1] = Founded(s)]
  /\ Changed
  /\ UNCHANGED <<status, upload, checked, record, crashes, participation, audit, imported, unreviewed>>

PatchPerson(p) ==
  /\ MayChange /\ p \in Business(people) /\ ~HeldByImport(p)
  /\ \E s \in NewIdentity :
       /\ DuplicatePeople(people, s.email, s.mobile, p) = {}
       /\ people' = [people EXCEPT ![p].email = s.email, ![p].mobile = s.mobile]
  /\ Changed
  /\ UNCHANGED <<status, upload, checked, record, crashes, participation, audit, imported, unreviewed>>

EndMembership(p) ==
  /\ MayChange /\ people[p].membership = "ACTIVE" /\ ~HeldByImport(p)
  /\ people' = [people EXCEPT ![p].membership = "FORMER"]
  /\ Changed
  /\ UNCHANGED <<status, upload, checked, record, crashes, participation, audit, imported, unreviewed>>

UploadStep(b) == \/ StageRows(b) \/ RejectWorkbook(b) \/ FinishStaging(b)
                 \/ AnalyzeUpload(b) \/ FailUpload(b)

Next ==
  \/ \E b \in Batch : \/ StartUpload(b) \/ UploadStep(b) \/ CrashUpload(b) \/ PostAnalyze(b)
                      \/ CheckImport(b) \/ CommitImport(b) \/ AbortImport(b)
  \/ \E r \in Record : Resolve(r)
  \/ CreatePerson
  \/ \E p \in Person : PatchPerson(p) \/ EndMembership(p)

Spec == Init /\ [][Next]_vars

(* Nobody but itself changes People between the checks of an import and its *)
(* writes; the code does not see to that.                                   *)
InTurn == people' # people => \A b \in checked : imported'[b] # imported[b]

TurnSpec == Spec /\ [][InTurn]_vars

(* A request that is not cut off goes on by itself.                         *)
Fairness == \A b \in Batch : WF_vars(UploadStep(b))

FairSpec == Spec /\ Fairness

-----------------------------------------------------------------------------
BatchStatus == {"NONE", "PROCESSING", "STAGED", "READY_FOR_REVIEW", "READY_FOR_IMPORT",
                "IMPORTED", "FAILED"}

(* Types; a decision names a Person exactly when it matches one, and that   *)
(* Person is a BUSINESS Person.                                            *)
TypeOK ==
  /\ status \in [Batch -> BatchStatus]
  /\ upload \in [Batch -> {"none", "reading", "staged", "failing", "done", "dead"}]
  /\ checked \subseteq {b \in Batch : status[b] # "NONE"}
  /\ \A p \in Person : people[p].type = "NONE" => people[p] = Absent
  /\ participation \subseteq Event \X Business(people)
  /\ \A r \in Record :
       /\ record[r].status \in RecordStatus
       /\ record[r].status # "NONE" => record[r].source \in Source
       /\ Matched(r) => record[r].person \in record[r].candidates \cap Business(people)
       /\ Creates(r) => record[r].person = 0

(* No batch is imported twice, whoever posts what and whenever, also one    *)
(* that has nothing to write.                                              *)
ImportedAtMostOnce == \A b \in Batch : Len(imported[b]) = (IF status[b] = "IMPORTED" THEN 1 ELSE 0)

(* The counts the API shows with a batch.                                   *)
Summary(b) ==
  LET With(s) == Cardinality({r \in RecordsOf(b) : record[r].status = s})
  IN [total |-> Cardinality(RecordsOf(b)), review_required |-> With("REVIEW_REQUIRED"),
      resolved |-> With("RESOLVED"), invalid |-> With("INVALID"), committed |-> With("COMMITTED")]

(* Staff have decided a review of a batch that had failed.                  *)
Revived(b) == \E q, r \in RecordsOf(b) :
  record[q].status = "FAILED" /\ record[r].method \in ByStaff

(* The status of a batch agrees with the counts shown next to it; if it had *)
(* failed, it may count rows that are neither resolved nor invalid.        *)
StatusTellsSummary == \A b \in Batch :
  /\ status[b] = "READY_FOR_REVIEW" => Summary(b).review_required > 0
  /\ status[b] = "READY_FOR_IMPORT" =>
       Summary(b).resolved + Summary(b).invalid = Summary(b).total \/ Revived(b)

(* An imported batch has no row left over: each is about a Person of the    *)
(* CRM or was invalid and skipped.  So it is even where the status of the  *)
(* batch was not what the records of the batch say.                        *)
ImportedIsComplete == \A b \in Batch : status[b] = "IMPORTED" =>
  /\ Summary(b).committed + Summary(b).invalid = Summary(b).total
  /\ \A r \in RecordsOf(b) :
       IF record[r].status = "INVALID" THEN record[r].outcome = "SKIPPED"
       ELSE record[r].person \in Business(people)

(* The audit trail tells which record created which Person: one record per  *)
(* created Person, also where several Eventbrite orders are one buyer's,   *)
(* and as many as the import has answered.                                 *)
ProvenanceIsUnique ==
  LET creations == {event \in audit : event.action = "PERSON_CREATED"}
      Of(b) == {event \in creations : event.record[1] = b} IN
  /\ \A e, f \in creations : e.person = f.person => e = f
  /\ \A r \in Record : record[r].outcome = "CREATED" <=>
       [action |-> "PERSON_CREATED", person |-> record[r].person, record |-> r] \in creations
  /\ \A b \in Batch : status[b] = "IMPORTED" => imported[b][1].created = Cardinality(Of(b))

(* What staff decided stays decided: until the batch fails or is imported   *)
(* no analysis takes the decision back.                                     *)
StaffDecisionsStand ==
  [][\A r \in Record : record[r].method \in ByStaff =>
       record'[r].method = record[r].method \/ status'[r[1]] = "FAILED"]_vars

(* An import completes what the CRM does not know and changes nothing that  *)
(* it knows; it never makes a former member active again.                  *)
ImportOnlyFills ==
  [][imported' # imported => \A p \in Business(people) :
       /\ people[p].email # None => people'[p].email = people[p].email
       /\ people[p].mobile.number # None => people'[p].mobile = people[p].mobile
       /\ people[p].membership # "NONE" => people'[p].membership = people[p].membership]_vars

(* If nobody changes People in the middle of it: an import creates a Person *)
(* next to one with the same address or number only if a reviewer saw that  *)
(* one, or if the same import gave that one the address or number.          *)
CreatedPeopleAreReviewed == \A pair \in unreviewed :
  \E creation, fill \in audit :
     /\ creation.action = "PERSON_CREATED" /\ creation.person = pair[1]
     /\ fill.action # "PERSON_CREATED" /\ fill.person = pair[2]
     /\ fill.record[1] = creation.record[1]

(* What a Person lacks is filled in once: no two rows put different things  *)
(* into one column.                                                        *)
FilledOnce ==
  \A e, f \in audit : e.action = f.action /\ e.person = f.person =>
     /\ e.action = "EMAIL_FILLED" => record[e.record].source.email = record[f.record].source.email
     /\ e.action = "MOBILE_FILLED" => record[e.record].source.mobile = record[f.record].source.mobile

(* The upload request settles the batch unless it is cut off.               *)
UploadSettles == \A b \in Batch :
  status[b] = "PROCESSING" ~> status[b] # "PROCESSING" \/ upload[b] = "dead"

-----------------------------------------------------------------------------
(* What the variables look like, whatever is in a record or a Person.       *)
Shape ==
  /\ status \in [Batch -> BatchStatus]
  /\ upload \in [Batch -> {"none", "reading", "staged", "failing", "done", "dead"}]
  /\ checked \subseteq Batch
  /\ DOMAIN record = Record /\ \A r \in Record : DOMAIN record[r] = DOMAIN NoRecord
  /\ DOMAIN people = Person /\ \A p \in Person : DOMAIN people[p] = DOMAIN Absent
  /\ imported \in [Batch -> Seq([processed : Nat, skipped : Nat, created : Nat, matched : Nat])]

(* Rows are staged by an upload that has read them, and not before; those   *)
(* that wait for a review have no decision.                                 *)
RowsAreUploaded ==
  /\ \A b \in Batch : upload[b] \in {"none", "reading"} => RecordsOf(b) = {}
  /\ \A r \in Record : record[r].status \in {"NONE", "STAGED", "REVIEW_REQUIRED"} =>
       record[r].method \notin ByStaff

(* Ids are given to People in order.                                        *)
IdsAscend == \A p \in Ids(people) : p <= Used

(* What a batch is while it is uploaded or its import holds it, as long as  *)
(* nobody posts early; a review is open only outside of both.               *)
BatchesInTurn ==
  /\ \A b \in Batch : /\ upload[b] = "none" <=> status[b] = "NONE"
                      /\ upload[b] \in {"reading", "staged", "failing"} => status[b] = "PROCESSING"
                      /\ b \in checked => status[b] = "READY_FOR_IMPORT"
  /\ \A r \in Record : record[r].status = "REVIEW_REQUIRED" =>
       /\ upload[r[1]] \in {"done", "dead"}
       /\ r[1] \notin checked /\ status[r[1]] # "IMPORTED"

(* A record that is resolved has a decision; and what an import has checked *)
(* of its rows stays so until it has written.                               *)
ChecksHold ==
  /\ \A r \in Record : record[r].status = "RESOLVED" => record[r].method \in Create \cup Match
  /\ \A b \in checked : \A r \in RecordsOf(b) :
       Settled(r) /\ (Matched(r) => record[r].person \in Business(people))

(* Rows have an outcome when their batch is imported, and not before; those *)
(* that are written keep their Person.                                      *)
WritesStay == \A r \in Record :
  /\ record[r].outcome # "NONE" => status[r[1]] = "IMPORTED"
  /\ status[r[1]] = "IMPORTED" =>
       \/ record[r].status = "NONE" /\ record[r].outcome = "NONE"
       \/ record[r].status = "INVALID" /\ record[r].outcome = "SKIPPED"
       \/ /\ record[r].status = "COMMITTED" /\ record[r].outcome \in {"CREATED", "EXISTING"}
          /\ record[r].person \in Business(people)

(* An event of a creation names a record and the Person the record has.     *)
CreationsAreRecorded == \A e \in audit : e.action = "PERSON_CREATED" =>
  /\ e.record \in Record /\ record[e.record].outcome = "CREATED"
  /\ e = [action |-> "PERSON_CREATED", person |-> record[e.record].person, record |-> e.record]

(* What the status of a batch rests on.  A batch waits for a review as long *)
(* as one of its rows does, and then every row has been analyzed; rows that *)
(* failed are left only where the batch has failed, or has been revived.   *)
Recorded(b) ==
  /\ status[b] = "READY_FOR_REVIEW" => ReviewQueue(b) # {}
  /\ status[b] = "READY_FOR_IMPORT" => ReviewQueue(b) = {}
  /\ status[b] = "READY_FOR_IMPORT" \/ ReviewQueue(b) # {} =>
       \A r \in RecordsOf(b) : record[r].status \in {"INVALID", "REVIEW_REQUIRED", "RESOLVED", "FAILED"}
  /\ \A r \in RecordsOf(b) :
       /\ record[r].status = "COMMITTED" => status[b] = "IMPORTED"
       /\ record[r].status = "FAILED" => status[b] = "FAILED" \/ Revived(b)

StatusIsRecorded == \A b \in Batch : Recorded(b)

(* The evidence that an import has checked is still the same.               *)
EvidenceHolds == \A b \in checked : \A r \in RecordsOf(b) : Creates(r) => IdentityOK(r)

(* The inductive invariants: of records and People; of batches, which needs *)
(* the first one; of what imports have written, which needs both; and of    *)
(* what a reader of the records may rely on, which needs them all.          *)
RowsInv == Shape /\ RowsAreUploaded /\ IdsAscend
TurnsInv == BatchesInTurn /\ ImportedAtMostOnce
WrittenInv == ChecksHold /\ WritesStay /\ CreationsAreRecorded /\ ProvenanceIsUnique
FitInv == TypeOK /\ StatusIsRecorded

(* The life cycle that is documented, and how far the statuses follow it:   *)
(* deciding a review of a failed batch takes the batch out of FAILED.       *)
Lifecycle == INSTANCE ImportLifecycle
Revives == \E b \in Batch : /\ status[b] = "FAILED"
                            /\ \E s \in {"READY_FOR_REVIEW", "READY_FOR_IMPORT"} :
                                 status' = [status EXCEPT ![b] = s]
LifecycleUnlessRevived == Lifecycle!Init /\ [][Lifecycle!Next \/ Revives]_status
=============================================================================
