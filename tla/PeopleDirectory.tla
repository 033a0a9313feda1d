--------------------------- MODULE PeopleDirectory ---------------------------
(***************************************************************************)
(* people, marketing_preferences, dashboard: the reads that staff work     *)
(* from.  The directory selects and orders People and is read page by      *)
(* page; the overview shows one Person; the audience preview classifies a  *)
(* selection; the dashboard counts.  Each has queries of its own, written  *)
(* apart, and they are expected to agree.                                  *)
(*                                                                         *)
(* A Person is its number; the record holds what the queries look at.  A   *)
(* search text is one of the words a Person can be found by.               *)
(***************************************************************************)
EXTENDS Integers, FiniteSets, Sequences, SequencesExt

CONSTANTS Person,    \* the ids of the People
          Record,    \* what can be recorded of a Person
          Catalog,   \* interests, skills and tags
          Query,     \* the queries staff make
          PageSize,  \* page_size
          Today      \* the current month: twelve times the year plus the month less one

DirectoryAssumption ==
  /\ IsFiniteSet(Person) /\ Person \subseteq Nat
  /\ PageSize \in Nat \ {0}
  /\ Today \in Nat
  /\ \A r \in Record : /\ r.first \in Int /\ r.last \in Int /\ r.joined \in Nat
                        /\ r.member \in {"NONE", "ACTIVE", "FORMER"}
                        /\ r.consent \in {"UNKNOWN", "OPTED_IN", "OPTED_OUT"}
  /\ \A q \in Query : q.record_state \in {"active", "archived", "all"} /\ "record_state" \in DOMAIN q

VARIABLES crm,       \* Person: its record
          inactive,  \* catalog entries that were switched off
          query,     \* the query of the reader
          seen,      \* the People on the pages read so far
          page,      \* pages read so far
          steady     \* nothing has changed since the first page

vars == <<crm, inactive, query, seen, page, steady>>

Init ==
  /\ crm \in [Person -> Record] /\ inactive = {}
  /\ query \in Query
  /\ seen = <<>> /\ page = 0 /\ steady = TRUE

-----------------------------------------------------------------------------
Business == {p \in Person : crm[p].kind = "BUSINESS"}
ActiveBusiness == {p \in Business : ~crm[p].archived}
ArchivedBusiness == Business \ ActiveBusiness

InState(state) ==
  CASE state = "archived" -> ArchivedBusiness
    [] state = "all"      -> Business
    [] OTHER              -> ActiveBusiness

(* A category of the query without values does not select.                  *)
Chosen(values, value) == values = {} \/ value \in values

ByRelationship(p, values) ==
  \/ values = {}
  \/ "CONTACT" \in values /\ crm[p].member = "NONE"
  \/ "ACTIVE_MEMBER" \in values /\ crm[p].member = "ACTIVE"
  \/ "FORMER_MEMBER" \in values /\ crm[p].member = "FORMER"

(* Interests, skills and tags: the assignment and its entry are active.     *)
ByCatalog(p, values) ==
  values = {} \/ \E v \in values \ inactive : crm[p].assigned[v] = "active"

(* PeopleDirectoryQuery.apply.                                              *)
Selected(q) ==
  {p \in InState(q.record_state) :
     /\ Chosen(q.q, crm[p].word)
     /\ ByRelationship(p, q.relationship)
     /\ Chosen(q.location, crm[p].location)
     /\ Chosen(q.industry, crm[p].industry)
     /\ \A values \in q.catalog : ByCatalog(p, values)}

NullsLast(joined) == IF joined = 0 THEN 1 ELSE 0

(* Mutation of Key: the id does not break ties.                             *)
KeyWithoutId(p, order) ==
  LET r == crm[p]
  IN  CASE order = "name"                 -> <<r.first, r.last>>
        [] order = "-name"                -> <<-r.first, -r.last>>
        [] order = "-first_name"          -> <<-r.first, r.last>>
        [] order = "last_name"            -> <<r.last, r.first>>
        [] order = "-last_name"           -> <<-r.last, r.first>>
        [] order = "membership_joined_at" -> <<NullsLast(r.joined), r.joined>>
        [] OTHER                          -> <<NullsLast(r.joined), -r.joined>>

(* apply_ordering: ORDERING_MAP and the dates of memberships.  created_at   *)
(* and updated_at are ordered like a name.                                  *)
Key(p, order) ==
  LET r == crm[p]
  IN  CASE order = "name"                 -> <<r.first, r.last, p>>
        [] order = "-name"                -> <<-r.first, -r.last, -p>>
        [] order = "-first_name"          -> <<-r.first, r.last, p>>
        [] order = "last_name"            -> <<r.last, r.first, p>>
        [] order = "-last_name"           -> <<-r.last, r.first, p>>
        [] order = "membership_joined_at" -> <<NullsLast(r.joined), r.joined, p>>
        [] OTHER                          -> <<NullsLast(r.joined), -r.joined, -p>>

Before(k, l) ==
  \E i \in DOMAIN k : k[i] < l[i] /\ \A j \in 1 .. i - 1 : k[j] = l[j]

(* The database answers each page with an order of its choice among equals. *)
Listings(q) ==
  {s \in SetToSeqs(Selected(q)) :
     \A i, j \in DOMAIN s : i < j => ~Before(Key(s[j], q.order), Key(s[i], q.order))}

HasNext == page * PageSize < Cardinality(Selected(query))

SmallerOf(a, b) == IF a < b THEN a ELSE b

(* PeopleListView.get, one page.                                            *)
NextPage ==
  /\ HasNext
  /\ \E rows \in Listings(query) :
       LET last == SmallerOf((page + 1) * PageSize, Len(rows))
       IN  seen' = seen \o SubSeq(rows, page * PageSize + 1, last)
  /\ page' = page + 1
  /\ UNCHANGED <<crm, inactive, query, steady>>

Ask(q) ==
  /\ query' = q /\ seen' = <<>> /\ page' = 0 /\ steady' = TRUE
  /\ UNCHANGED <<crm, inactive>>

(* Staff edit a Person, or a catalog entry.                                 *)
Edit(p, r) ==
  /\ crm' = [crm EXCEPT ![p] = r] /\ steady' = FALSE
  /\ UNCHANGED <<inactive, query, seen, page>>

SwitchEntry(v) ==
  /\ inactive' = IF v \in inactive THEN inactive \ {v} ELSE inactive \cup {v}
  /\ steady' = FALSE
  /\ UNCHANGED <<crm, query, seen, page>>

Next ==
  \/ NextPage
  \/ \E q \in Query : Ask(q)
  \/ \E p \in Person, r \in Record : Edit(p, r)
  \/ \E v \in Catalog : SwitchEntry(v)

Spec == Init /\ [][Next]_vars

-----------------------------------------------------------------------------
(* PersonDirectoryListSerializer and PersonOverviewSerializer.              *)
Relationship(p) ==
  CASE crm[p].member = "NONE"   -> "CONTACT"
    [] crm[p].member = "ACTIVE" -> "ACTIVE_MEMBER"
    [] OTHER                    -> "FORMER_MEMBER"

Shown(p) == {v \in Catalog \ inactive : crm[p].assigned[v] = "active"}

(* Mutation of Classification: the preference is looked at before the       *)
(* address.                                                                 *)
ClassificationByConsent(p) ==
  CASE crm[p].consent = "OPTED_OUT" -> "EXCLUDED_OPTED_OUT"
    [] crm[p].consent = "OPTED_IN"  -> "ELIGIBLE"
    [] OTHER -> IF crm[p].email = "" THEN "EXCLUDED_NO_EMAIL" ELSE "EXCLUDED_CONSENT_UNKNOWN"

(* annotate_email_marketing_classification.                                 *)
Classification(p) ==
  IF crm[p].email = "" THEN "EXCLUDED_NO_EMAIL"
  ELSE CASE crm[p].consent = "OPTED_OUT" -> "EXCLUDED_OPTED_OUT"
         [] crm[p].consent = "OPTED_IN"  -> "ELIGIBLE"
         [] OTHER                        -> "EXCLUDED_CONSENT_UNKNOWN"

Class == {"ELIGIBLE", "EXCLUDED_OPTED_OUT", "EXCLUDED_CONSENT_UNKNOWN", "EXCLUDED_NO_EMAIL"}

(* build_active_people_selection, get_audience_counts.                      *)
AudienceCounts(q) ==
  [c \in Class |-> Cardinality({p \in Selected([q EXCEPT !.record_state = "active"]) : Classification(p) = c})]

(* AudiencePreviewView.post: the rows below the counts.                     *)
AudienceRows(q, result) ==
  {p \in Selected([q EXCEPT !.record_state = "active"]) :
     CASE result = "eligible" -> Classification(p) = "ELIGIBLE"
       [] result = "excluded" -> Classification(p) # "ELIGIBLE"
       [] OTHER               -> TRUE}

(* synchronize_person_to_brevo: whom it skips, and whom it would subscribe. *)
SyncSubscribes(p) ==
  /\ p \in Business /\ ~crm[p].archived
  /\ crm[p].email # "" /\ crm[p].consent = "OPTED_IN"

(* dashboard_projection: overview.                                          *)
Overview ==
  [total_people   |-> Cardinality(ActiveBusiness),
   active_members |-> Cardinality({p \in ActiveBusiness : crm[p].member = "ACTIVE"}),
   contacts       |-> Cardinality({p \in ActiveBusiness : crm[p].member = "NONE"}),
   former_members |-> Cardinality({p \in ActiveBusiness : crm[p].member = "FORMER"})]

(* month_start: the year and the month of an index.                         *)
MonthStart(index) == <<index \div 12, (index % 12) + 1>>

Window == Today - 5 .. Today

(* dashboard_projection: growth of the members, also of archived People.    *)
MembersByMonth ==
  [index \in Window |->
     Cardinality({p \in Business : /\ crm[p].joined \in Window
                                   /\ MonthStart(crm[p].joined) = MonthStart(index)})]

-----------------------------------------------------------------------------
(* The types, and no page beyond the last one that can have rows.           *)
TypeOK ==
  /\ crm \in [Person -> Record] /\ inactive \subseteq Catalog
  /\ query \in Query /\ seen \in Seq(Person)
  /\ page \in Nat /\ steady \in BOOLEAN
  /\ page * PageSize < Cardinality(Person) + PageSize

(* While nothing changes, the pages show everyone the query selects, once   *)
(* and in order, whatever the database does with equal names or dates       *)
(* (querying.py:14: every ordering ends in the id).                         *)
PagesAreComplete ==
  steady /\ ~HasNext => seen \in Listings(query)

(* Why they are: the ordering leaves no choice among People, so that there  *)
(* is one listing, of which the pages so far are the beginning.             *)
PagesAdvance ==
  /\ page = 0 => seen = <<>>
  /\ steady =>
       /\ page > 0 => Listings(query) # {}
       /\ \A rows \in Listings(query) :
            seen = SubSeq(rows, 1, SmallerOf(page * PageSize, Len(rows)))

(* The inductive invariant.                                                 *)
IInv == TypeOK /\ PagesAdvance

(* Whom the directory finds by a relationship or an entry of the catalog    *)
(* shows it, in the directory and in the overview, and the other way round  *)
(* (querying.py:65, :93; serializers.py:119, views.py:662).                 *)
FiltersMatchProjections ==
  \A p \in Business :
    /\ \A r \in {"CONTACT", "ACTIVE_MEMBER", "FORMER_MEMBER"} :
         ByRelationship(p, {r}) <=> Relationship(p) = r
    /\ \A v \in Catalog : ByCatalog(p, {v}) <=> v \in Shown(p)

(* The audience counts as eligible exactly the selected People whom the     *)
(* synchronization would subscribe, and the counts add up to the rows       *)
(* listed below them (audience.py:39, views.py:63, sync.py:96).             *)
AudienceMatchesSync ==
  LET counts == AudienceCounts(query)
      excluded == counts["EXCLUDED_OPTED_OUT"] + counts["EXCLUDED_CONSENT_UNKNOWN"]
                    + counts["EXCLUDED_NO_EMAIL"]
  IN  /\ AudienceRows(query, "eligible") = {p \in AudienceRows(query, "all") : SyncSubscribes(p)}
      /\ counts["ELIGIBLE"] = Cardinality(AudienceRows(query, "eligible"))
      /\ excluded = Cardinality(AudienceRows(query, "excluded"))
      /\ counts["ELIGIBLE"] + excluded = Cardinality(AudienceRows(query, "all"))

(* The query without a filter.                                              *)
Everyone ==
  [record_state |-> "active", q |-> {}, relationship |-> {}, location |-> {}, industry |-> {},
   catalog |-> {}, order |-> "last_name"]

(* The overview of the dashboard counts what the directory lists            *)
(* (queries.py:26).                                                         *)
DashboardMatchesDirectory ==
  LET size(r) == Cardinality(Selected([Everyone EXCEPT !.relationship = r]))
  IN  /\ Overview.total_people = size({})
      /\ Overview.active_members = size({"ACTIVE_MEMBER"})
      /\ Overview.contacts = size({"CONTACT"})
      /\ Overview.former_members = size({"FORMER_MEMBER"})

(* Everyone who joined in the six months of the window is counted in one of *)
(* them, across the end of a year (queries.py:34, :38).                     *)
GrowthCountsEveryone ==
  LET joined(back) == MembersByMonth[Today - back]
  IN  joined(5) + joined(4) + joined(3) + joined(2) + joined(1) + joined(0)
        = Cardinality({p \in Business : crm[p].joined \in Window})
=============================================================================
