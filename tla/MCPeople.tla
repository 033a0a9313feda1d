------------------------------ MODULE MCPeople ------------------------------
(* The People API for TLC: the records of a Person (two sets of kinds),     *)
(* identities (in two instances), the audit history and the directory (in   *)
(* two instances).  Each of these modules looks at other columns of the     *)
(* same tables, so a behaviour has one of them at work, chosen at the       *)
(* start, and the others at rest.                                           *)
EXTENDS PersonRecords, Integers, Sequences, TLC

CONSTANTS None, Email, MaxPeople,                                           \* PersonIdentity
          RaceNumber, RaceStyle, Signaller, SignalNumber, SignalStyle,
          Listed, ListedRecord, ListedCatalog, ListedQuery, ListSize, Today,  \* PeopleDirectory
          Reported, ReportedRecord, ReportedCatalog, ReportedQuery,
          Id, Time, AuditKind, Reader, PageSize                             \* AuditHistory

VARIABLES part,
          people, edit, created, raced,                                     \* PersonIdentity
          events, role, asked, counted, page, more, seen, start, late, demoted,  \* AuditHistory
          crm, inactive, query, listed, sheet, steady                       \* PeopleDirectory

identityVars == <<people, edit, created, raced>>
trailVars == <<events, role, asked, counted, page, more, seen, start, late, demoted>>
directoryVars == <<crm, inactive, query, listed, sheet, steady>>

(* PersonIdentity and, as Races!Pages and Signals!Pages, PeopleDirectory,   *)
(* with what is proved about them: several staff users, or one who writes   *)
(* numbers in several ways; and lists of many pages, or of varied People.   *)
Races == INSTANCE PersonIdentityProofs WITH
  request <- edit, audit <- created, page <- sheet, seen <- listed,
  Actor <- Client, Number <- RaceNumber, Style <- RaceStyle,
  Person <- Listed, Record <- ListedRecord, Catalog <- ListedCatalog, Query <- ListedQuery,
  PageSize <- ListSize
Signals == INSTANCE PersonIdentityProofs WITH
  request <- edit, audit <- created, page <- sheet, seen <- listed,
  Actor <- Signaller, Number <- SignalNumber, Style <- SignalStyle,
  Person <- Reported, Record <- ReportedRecord, Catalog <- ReportedCatalog, Query <- ReportedQuery,
  PageSize <- ListSize

Trail == INSTANCE AuditHistory WITH Kind <- AuditKind

ASSUME PeopleAssumption ==
  /\ Races!IdentityAssumption /\ Signals!IdentityAssumption
  /\ Races!Pages!DirectoryAssumption /\ Signals!Pages!DirectoryAssumption
  /\ Trail!HistoryAssumption

(* The kinds of records whose requests run next to each other.              *)
KindsOf == [records  |-> {"person", "membership", "note", "skill"},
            assigned |-> {"person", "profile", "tag", "interest"}]

Among(kinds) ==
  /\ \A c \in Client : request'[c] # NoRequest => request'[c].move.kind \in kinds
  /\ \A k \in DOMAIN active \ kinds : active'[k] = active[k]

-----------------------------------------------------------------------------
(* The values TLC gives to the constants.  A note and another event of the  *)
(* reader's Person, an event of somebody.                                  *)
TrailKinds ==
  {[entity |-> "Person", action |-> "PERSON_UPDATED", person |-> "ann"],
   [entity |-> "InternalNote", action |-> "NOTE", person |-> "ann"],
   [entity |-> "Person", action |-> "PERSON_UPDATED", person |-> "bob"]}

Entries == {"speaker", "sql"}

Plain(entries) ==
  [kind |-> "BUSINESS", archived |-> FALSE, word |-> "ann", first |-> 1, last |-> 1,
   location |-> "mk", industry |-> "none", member |-> "NONE", joined |-> 0, email |-> "",
   consent |-> "UNKNOWN", assigned |-> [v \in entries |-> "none"]]

Everyone ==
  [record_state |-> "active", q |-> {}, relationship |-> {}, location |-> {}, industry |-> {},
   catalog |-> {}, order |-> "last_name"]

(* Names and dates that are often equal, in every order.                    *)
Ordered ==
  {[Plain({}) EXCEPT !.first = f, !.last = l] : f, l \in 1 .. 2}
  \cup {[Plain({}) EXCEPT !.joined = j] : j \in {Today - 1, Today}}
  \cup {[Plain({}) EXCEPT !.archived = TRUE]}

PageQueries ==
  {[Everyone EXCEPT !.order = o] :
     o \in {"name", "-name", "-first_name", "last_name", "-last_name",
            "membership_joined_at", "-membership_joined_at"}}
  \cup {[Everyone EXCEPT !.record_state = s] : s \in {"archived", "all"}}

(* Every state of a Person that a filter, a class or a count tells apart.   *)
Varied ==
  {[Plain(Entries) EXCEPT !.archived = a, !.member = m[1], !.joined = m[2]] :
     a \in BOOLEAN,
     m \in {<<"NONE", 0>>, <<"ACTIVE", Today>>, <<"ACTIVE", Today - 1>>, <<"FORMER", Today - 5>>,
            <<"ACTIVE", Today - 6>>, <<"FORMER", Today - 12>>}}
  \cup {[Plain(Entries) EXCEPT !.email = e, !.consent = c] :
          e \in {"", "given"}, c \in {"UNKNOWN", "OPTED_IN", "OPTED_OUT"}}
  \cup {[Plain(Entries) EXCEPT !.kind = k[1], !.archived = k[2], !.email = "given", !.consent = "OPTED_IN"] :
          k \in {<<"TECHNICAL", FALSE>>, <<"BUSINESS", TRUE>>}}
  \cup {[Plain(Entries) EXCEPT
           !.assigned = [v \in Entries |-> IF v = "speaker" THEN t ELSE s], !.location = "luton"] :
          t \in {"none", "active", "removed"}, s \in {"none", "active"}}

VariedQueries ==
  {Everyone,
   [Everyone EXCEPT !.relationship = {"ACTIVE_MEMBER", "CONTACT"}],
   [Everyone EXCEPT !.catalog = {{"speaker", "sql"}}, !.location = {"luton"}],
   [Everyone EXCEPT !.catalog = {{"speaker"}, {"sql"}}]}

-----------------------------------------------------------------------------
NobodyThere == /\ people = [p \in 1 .. MaxPeople |-> Races!Absent] /\ edit = <<>>
               /\ created = {} /\ raced = {}
NobodyListed == /\ crm = <<>> /\ inactive = {} /\ query = Everyone
                /\ listed = <<>> /\ sheet = 0 /\ steady = TRUE

MCInit ==
  /\ part \in {"records", "assigned", "races", "signals", "trail", "pages", "reports"}
  /\ Init
  /\ CASE part = "races"   -> Races!Init
       [] part = "signals" -> Signals!Init
       [] OTHER            -> NobodyThere
  /\ Trail!Init /\ (part # "trail" => role = "CRM_VIEWER")
  /\ CASE part = "pages"   -> Races!Pages!Init
       [] part = "reports" -> Signals!Pages!Init
       [] OTHER            -> NobodyListed

MCNext ==
  /\ UNCHANGED part
  /\ part \notin {"records", "assigned"} => UNCHANGED vars
  /\ part \notin {"races", "signals"} => UNCHANGED identityVars
  /\ part # "trail" => UNCHANGED trailVars
  /\ part \notin {"pages", "reports"} => UNCHANGED directoryVars
  /\ \/ part \in {"records", "assigned"} /\ Next /\ Among(KindsOf[part])
     \/ part = "races"   /\ Races!Next
     \/ part = "signals" /\ Signals!Next
     \/ part = "trail"   /\ Trail!Next
     \/ part = "pages"   /\ Races!Pages!Next
     \/ part = "reports" /\ Signals!Pages!Next

allVars == <<part, vars, identityVars, trailVars, directoryVars>>

MCSpec == MCInit /\ [][MCNext]_allVars

-----------------------------------------------------------------------------
(* Types; and the directory, the overview, the audience and the dashboard   *)
(* agree on every Person (PeopleDirectory).                                 *)
ReadsAgree ==
  /\ IInv /\ Trail!IInv
  /\ part = "races"   => Races!IInv
  /\ part = "signals" => Signals!IInv
  /\ part = "pages"   => Races!Pages!IInv
  /\ part = "reports" =>
       /\ Signals!Pages!IInv
       /\ Signals!Pages!FiltersMatchProjections
       /\ Signals!Pages!AudienceMatchesSync
       /\ Signals!Pages!DashboardMatchesDirectory
       /\ Signals!Pages!GrowthCountsEveryone

(* The pages of the directory show everyone once.                           *)
PagesAreComplete == part = "pages" => Races!Pages!PagesAreComplete

(* Two People who look alike have an explanation (PersonIdentity).          *)
DuplicatesAreExplained ==
  /\ part = "races"   => Races!DuplicatesAreExplained
  /\ part = "signals" => Signals!DuplicatesAreExplained

(* What belongs to an archived Person stands still: records and signals.    *)
ArchivedStandsStill == ArchivedIsFrozen /\ Races!ArchivedStandsStill

(* A reader of a history misses no event, and learns of no note that their  *)
(* role does not let them see.                                              *)
HistoryIsTrue == Trail!HistoryLosesNothing /\ Trail!NotesStayHidden

Symmetry == Permutations(Client)
=============================================================================
