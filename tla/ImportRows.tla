------------------------------ MODULE ImportRows ------------------------------
(***************************************************************************)
(* data_imports: one row of a workbook on its way into the CRM.  It is     *)
(* judged twice: when the workbook is staged, where an error makes the row *)
(* INVALID and the rest of the batch goes on, and when the batch is        *)
(* imported, where an error refuses the batch.                             *)
(*                                                                         *)
(* A cell is blank, good, bad (its text does not parse) or, where the CRM  *)
(* limits a text that staging does not limit, long.  The name stands for   *)
(* the first and the last name.  Columns that nothing refuses are left out.*)
(***************************************************************************)
VARIABLES sourceType, \* which adapter reads the workbook
          missing,    \* does the sheet lack a required column?
          row,        \* the cells
          matched,    \* was a Person found for it?
          stage       \* how far the row has come

vars == <<sourceType, missing, row, matched, stage>>

Text == {"blank", "good"}
Limited == {"blank", "good", "long"}
Parsed == {"blank", "good", "bad"}

MembershipFormRow ==
  [timestamp : Parsed, name : Limited, gender : Parsed, age_range : Parsed, email : Parsed,
   mobile : Text, linkedin_url : Parsed]

EventbriteRow ==
  [name : Limited, email : Parsed, mobile : Text, event_id : Text, event_name : Limited, start_date : Parsed,
   start_time : Parsed, timezone : Parsed, ticket_quantity : Parsed, guest : Parsed, totals : BOOLEAN]

Init ==
  /\ sourceType \in {"MEMBERSHIP_FORM", "EVENTBRITE"}
  /\ missing \in BOOLEAN
  /\ row \in IF sourceType = "EVENTBRITE" THEN EventbriteRow ELSE MembershipFormRow
  /\ matched \in {FALSE} \cup {m \in {TRUE} : row.email = "good" \/ row.mobile = "good"}
  /\ stage = "sheet"

-----------------------------------------------------------------------------
Blank == \A c \in DOMAIN row \ {"totals"} : row[c] = "blank"
BadIn(columns) == {c \in columns : row[c] = "bad"}

(* normalize_membership_form_row: what may be absent is refused only if it  *)
(* does not parse; the timestamp is taken as it is.                        *)
MembershipFormErrors == BadIn({"gender", "age_range", "email", "linkedin_url"})

(* Mutation of StartErrors: a start without a time zone is taken.           *)
StartErrorsWithoutZone == {c \in {"start_date", "start_time"} : row[c] # "good"}

(* _normalize_event_start: date, time and zone are all needed.              *)
StartErrors == {c \in {"start_date", "start_time", "timezone"} : row[c] # "good"}

EventbriteErrors ==
  BadIn({"email"}) \cup {c \in {"event_id", "event_name"} : row[c] = "blank"}
  \cup StartErrors \cup BadIn({"ticket_quantity", "guest"})

Errors == IF sourceType = "EVENTBRITE" THEN EventbriteErrors ELSE MembershipFormErrors

(* iter_membership_form_rows, iter_eventbrite_rows                          *)
Skipped == Blank \/ (sourceType = "EVENTBRITE" /\ row.totals)

(* A workbook without a required column is refused as a whole.              *)
Read ==
  /\ stage = "sheet"
  /\ stage' = IF missing THEN "no batch" ELSE IF Skipped THEN "skipped" ELSE "read"
  /\ UNCHANGED <<sourceType, missing, row, matched>>

Normalize ==
  /\ stage = "read"
  /\ stage' = IF Errors = {} THEN "STAGED" ELSE "INVALID"
  /\ UNCHANGED <<sourceType, missing, row, matched>>

-----------------------------------------------------------------------------
(* A Person found by address or number exists only if there is one or the   *)
(* other; a record without a match creates a Person.                       *)
NewPersonSource == matched \/ row.name # "blank"

(* _source_timestamp_date: the import needs the date of the submission.     *)
MembershipFormSource == row.timestamp = "good"

EventSource ==
  /\ row.event_id # "blank" /\ row.event_name # "blank"
  /\ \A c \in {"start_date", "start_time", "timezone"} : row[c] = "good"

(* What full_clean refuses when the row is written.                         *)
Storable ==
  /\ row.name = "long" => matched
  /\ sourceType = "EVENTBRITE" => row.event_name # "long"

Importable ==
  /\ NewPersonSource /\ Storable
  /\ IF sourceType = "EVENTBRITE" THEN EventSource ELSE MembershipFormSource

Import ==
  /\ stage = "STAGED"
  /\ stage' = IF Importable THEN "COMMITTED" ELSE "refused"
  /\ UNCHANGED <<sourceType, missing, row, matched>>

Next == Read \/ Normalize \/ Import

Spec == Init /\ [][Next]_vars

-----------------------------------------------------------------------------
(* What is written into the CRM parses, whichever columns it came from, and *)
(* an event has its date, its time and its zone.                            *)
NothingBadIsWritten == stage = "COMMITTED" =>
  /\ \A c \in DOMAIN row \ {"totals"} : row[c] # "bad"
  /\ sourceType = "EVENTBRITE" => /\ row.start_date = "good" /\ row.start_time = "good"
                                  /\ row.timezone = "good" /\ ~row.totals

(* The two judgements agree on Eventbrite rows: a row that staging takes is *)
(* refused by the import only for the names it lacks or for their length.   *)
JudgementsAgree == stage = "refused" =>
  row.name # "good" \/ (sourceType = "EVENTBRITE" /\ row.event_name = "long")

(* What they rest on: how far a row comes is what each judgement said.      *)
StageIsJudged ==
  /\ stage # "no batch" =>
       row \in IF sourceType = "EVENTBRITE" THEN EventbriteRow ELSE MembershipFormRow
  /\ stage \in {"read", "STAGED", "COMMITTED", "refused"} => ~Skipped
  /\ stage \in {"STAGED", "COMMITTED", "refused"} => Errors = {}
  /\ stage = "COMMITTED" => Importable
  /\ stage = "refused" => ~Importable
=============================================================================
