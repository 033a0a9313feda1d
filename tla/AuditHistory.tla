----------------------------- MODULE AuditHistory -----------------------------
(***************************************************************************)
(* people, audit: a Person's audit history, read page by page, newest      *)
(* first, while other requests keep writing events.                        *)
(*                                                                         *)
(* An event takes its id and its time when it is written and is seen by    *)
(* others when its transaction commits, so events do not appear in the     *)
(* order of their ids or times.  Events are never changed or deleted.      *)
(***************************************************************************)
EXTENDS Integers, FiniteSets, Sequences, SequencesExt

CONSTANTS Id,        \* the ids of the events
          Time,      \* the times they can be written at
          Kind,      \* what an event can be about: entity_type, action, person
          Reader,    \* the Person whose history is read
          PageSize   \* page_size

HistoryAssumption ==
  /\ Id \subseteq Nat /\ IsFiniteSet(Id) /\ Time \subseteq Nat
  /\ Kind \subseteq [entity : STRING, action : STRING, person : STRING]
  /\ PageSize \in Nat \ {0}

Event == [id : Id, time : Time, kind : Kind]
Role == {"CRM_MANAGER", "CRM_VIEWER"}
NoCount == -1

VARIABLES events,    \* the committed events
          role,      \* the role of the staff user who reads
          asked,     \* the role that the request under way was filtered for
          counted,   \* its count, or NoCount between two requests
          page,      \* pages read so far
          more,      \* the last answer named a next page
          seen,      \* the events on the pages read so far, with the role they were shown to
          start,     \* the events that were visible when the first page was counted
          late,      \* visible events committed since the last count, before its rows
          demoted    \* the role was lowered since the first page

reading == <<asked, counted, page, more, seen, start>>
vars == <<events, role, reading, late, demoted>>

Init ==
  /\ events = {} /\ role \in Role /\ asked = role
  /\ counted = NoCount /\ page = 0 /\ more = TRUE
  /\ seen = {} /\ start = {} /\ late = 0 /\ demoted = FALSE

-----------------------------------------------------------------------------
(* build_person_audit_scope_q.                                              *)
Scope == {e \in events : e.kind.person = Reader}

(* build_restricted_person_audit_q.                                         *)
Restricted(e) == e.kind.entity = "InternalNote" \/ e.kind.action = "NOTE"

(* filter_person_audit_visibility_for_user.                                 *)
Sees(r, e) == e.kind.person = Reader /\ (r = "CRM_MANAGER" \/ ~Restricted(e))

Visible(r) == {e \in Scope : Sees(r, e)}

(* Mutation of Newer: events of the same time are in no order.              *)
NewerByTime(e, f) == e.time > f.time

Newer(e, f) ==
  \/ e.time > f.time
  \/ e.time = f.time /\ e.id > f.id

(* The database answers each page with an order of its choice among equals. *)
Listings(es) ==
  {s \in SetToSeqs(es) : \A i, j \in DOMAIN s : i < j => ~Newer(s[j], s[i])}

(* The first statement of a request: the role, the filter and the count.    *)
(* A page that no longer exists is refused.                                 *)
Count ==
  /\ counted = NoCount /\ more
  /\ asked' = role /\ late' = 0
  /\ start' = IF page = 0 THEN Visible(role) ELSE start
  /\ LET count == Cardinality(Visible(role))
     IN  \/ /\ page = 0 \/ page * PageSize < count
            /\ counted' = count /\ more' = more
         \/ /\ page > 0 /\ page * PageSize >= count
            /\ counted' = NoCount /\ more' = FALSE
  /\ UNCHANGED <<events, role, page, seen, demoted>>

SmallerOf(a, b) == IF a < b THEN a ELSE b

(* The second statement: the rows, as many as the count allows.             *)
Rows ==
  /\ counted # NoCount
  /\ \E rows \in Listings(Visible(asked)) :
       LET last == SmallerOf((page + 1) * PageSize, SmallerOf(counted, Len(rows)))
       IN  seen' = seen \cup {<<rows[i], asked>> : i \in page * PageSize + 1 .. last}
  /\ page' = page + 1
  /\ more' = ((page + 1) * PageSize < counted)
  /\ counted' = NoCount
  /\ UNCHANGED <<events, role, asked, start, late, demoted>>

StartOver ==
  /\ counted = NoCount /\ page > 0
  /\ page' = 0 /\ more' = TRUE /\ seen' = {} /\ start' = {} /\ late' = 0 /\ demoted' = FALSE
  /\ UNCHANGED <<events, role, asked, counted>>

(* record_audit_event, at the commit of its transaction.                    *)
Commit(e) ==
  /\ \A f \in events : f.id # e.id
  /\ events' = events \cup {e}
  /\ late' = IF counted # NoCount /\ Sees(asked, e) THEN late + 1 ELSE late
  /\ UNCHANGED <<role, reading, demoted>>

SetRole(r) ==
  /\ role' = r
  /\ demoted' = (demoted \/ (role = "CRM_MANAGER" /\ r = "CRM_VIEWER"))
  /\ UNCHANGED <<events, reading, late>>

Next ==
  \/ Count \/ Rows \/ StartOver
  \/ \E e \in Event : Commit(e)
  \/ \E r \in Role : SetRole(r)

Spec == Init /\ [][Next]_vars

-----------------------------------------------------------------------------
(* The types, and a page under way is one that its count has.               *)
TypeOK ==
  /\ events \subseteq Event /\ role \in Role /\ asked \in Role
  /\ counted \in Nat \cup {NoCount} /\ page \in Nat /\ more \in BOOLEAN
  /\ seen \subseteq Event \X Role /\ start \subseteq Event
  /\ late \in Nat /\ demoted \in BOOLEAN
  /\ counted # NoCount => page = 0 \/ page * PageSize < counted

Shown == {s[1] : s \in seen}

(* A reader who follows the pages to the last one has seen every event that *)
(* was there at the first, though new ones moved the pages; what the last   *)
(* answer can miss are as many as were committed between its count and its  *)
(* rows (views.py:771, :778).                                               *)
HistoryLosesNothing ==
  page > 0 /\ counted = NoCount /\ ~more /\ ~demoted => Cardinality(start \ Shown) <= late

(* Nothing a viewer is told depends on notes: neither the rows nor the      *)
(* count (policies.py:65; views.py:706).                                    *)
NotesStayHidden ==
  /\ \A s \in seen : s[2] = "CRM_VIEWER" => s[1].kind.entity # "InternalNote" /\ s[1].kind.action # "NOTE"
  /\ counted # NoCount /\ asked = "CRM_VIEWER" =>
       counted <= Cardinality({e \in Scope : e.kind.entity # "InternalNote"})

-----------------------------------------------------------------------------
(* Why the pages are complete: the count is right but for what was          *)
(* committed since; without a demotion nothing disappears; and an event     *)
(* that is still to be shown has as many newer ones before it as pages were *)
(* read, whatever is committed at whatever time.                            *)
Before(e) == {f \in Visible(asked) : Newer(f, e)}
InReading == page > 0 \/ counted # NoCount

PagesAdvance ==
  /\ IsFiniteSet(events) /\ \A e, f \in events : e.id = f.id => e = f
  /\ counted # NoCount => more /\ Cardinality(Visible(asked)) = counted + late
  /\ InReading /\ ~demoted =>
       /\ asked = "CRM_MANAGER" => role = "CRM_MANAGER"
       /\ start \subseteq Visible(asked)
       /\ more => \A e \in start \ Shown : Cardinality(Before(e)) >= page * PageSize

(* The inductive invariant.                                                 *)
IInv == TypeOK /\ PagesAdvance /\ HistoryLosesNothing /\ NotesStayHidden
=============================================================================
