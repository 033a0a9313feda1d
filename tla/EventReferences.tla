--------------------------- MODULE EventReferences ---------------------------
(***************************************************************************)
(* events: Eventbrite batches that are imported at the same time and bring *)
(* the same provider events and the same People.  Each import is one       *)
(* transaction; in it every row finds or creates its Event by the          *)
(* provider's identity, then the participation of its Person.  A row       *)
(* created by an open transaction is not visible to the others, but the    *)
(* unique constraints make them wait for it.                               *)
(*                                                                         *)
(* An Event is named by its provider identity and the import that created  *)
(* it.  The People are there already.                                      *)
(***************************************************************************)
EXTENDS Integers, Sequences, Relation

CONSTANTS Importer,   \* imports that run at the same time
          External,   \* external_event_id values
          Person,     \* People of the rows
          MaxRows     \* bound on the rows of a batch

ReferencesAssumption == MaxRows \in Nat \ {0}

EventRow == External \X Importer
NoEvent == <<>>
Absent == <<"absent">>

VARIABLES rows,            \* importer: its rows, in their order
          phase,           \* importer: "check", "import", "done", "failed"
          at,              \* importer: the row it is at
          locked,          \* importer: references it holds FOR UPDATE
          chosen,          \* importer: the Event of the row, once known
          event,           \* Event rows
          reference,       \* ExternalEventReference: external id to Event
          participation    \* EventParticipation: <<Event, Person, creator>>

vars == <<rows, phase, at, locked, chosen, event, reference, participation>>

Batch == UNION {[1..n -> External \X Person] : n \in 1..MaxRows}

Init ==
  /\ rows \in [Importer -> Batch]
  /\ phase = [i \in Importer |-> "check"]
  /\ at = [i \in Importer |-> 1]
  /\ locked = [i \in Importer |-> {}]
  /\ chosen = [i \in Importer |-> NoEvent]
  /\ event = {}
  /\ reference = [x \in External |-> NoEvent]
  /\ participation = {}

-----------------------------------------------------------------------------
Open(i) == phase[i] \in {"check", "import"}
Id(i) == rows[i][at[i]][1]
Who(i) == rows[i][at[i]][2]
HasRow(i) == at[i] <= Len(rows[i])

(* What a query of import i returns: committed rows and its own.            *)
Visible(i, creator) == creator = i \/ phase[creator] = "done"

Known(i) == reference[Id(i)] # NoEvent /\ Visible(i, reference[Id(i)][2])
Taken(i) == reference[Id(i)] # NoEvent /\ ~Visible(i, reference[Id(i)][2])
Holders(i) == {j \in Importer \ {i} : Id(i) \in locked[j]}

(* Whom import i waits for: the holder of a row lock, or the transaction    *)
(* that has inserted the same unique key.                                   *)
WaitsFor(i) ==
  IF ~Open(i) \/ ~HasRow(i) \/ chosen[i] \in EventRow THEN {}
  ELSE IF Known(i) THEN Holders(i)
  ELSE IF Taken(i) /\ chosen[i] = Absent THEN {reference[Id(i)][2]}
  ELSE {}

(* PostgreSQL sees a cycle of waiting transactions.                         *)
Deadlocked(i) ==
  TransitiveClosure([j, k \in Importer |-> k \in WaitsFor(j)], Importer)[i, i]

Lock(i) == locked' = [locked EXCEPT ![i] = @ \cup {Id(i)}]

(* _validate_existing_event_reference, row by row before the first write.   *)
Check(i) ==
  /\ phase[i] = "check" /\ HasRow(i)
  /\ IF Known(i) THEN Holders(i) = {} /\ Lock(i) ELSE UNCHANGED locked
  /\ at' = [at EXCEPT ![i] = @ + 1]
  /\ UNCHANGED <<rows, phase, chosen, event, reference, participation>>

StartImport(i) ==
  /\ phase[i] = "check" /\ ~HasRow(i)
  /\ phase' = [phase EXCEPT ![i] = "import"]
  /\ at' = [at EXCEPT ![i] = 1]
  /\ UNCHANGED <<rows, locked, chosen, event, reference, participation>>

(* The lookup of get_or_create_event_from_reference.                        *)
Lookup(i) ==
  /\ phase[i] = "import" /\ HasRow(i) /\ chosen[i] = NoEvent
  /\ IF Known(i)
     THEN Holders(i) = {} /\ Lock(i) /\ chosen' = [chosen EXCEPT ![i] = reference[Id(i)]]
     ELSE chosen' = [chosen EXCEPT ![i] = Absent] /\ UNCHANGED locked
  /\ UNCHANGED <<rows, phase, at, event, reference, participation>>

(* The savepoint: the Event and the reference to it.                        *)
Create(i) ==
  /\ phase[i] = "import" /\ chosen[i] = Absent /\ reference[Id(i)] = NoEvent
  /\ event' = event \cup {<<Id(i), i>>}
  /\ reference' = [reference EXCEPT ![Id(i)] = <<Id(i), i>>]
  /\ chosen' = [chosen EXCEPT ![i] = <<Id(i), i>>]
  /\ UNCHANGED <<rows, phase, at, locked, participation>>

(* Mutation of LostRace: the Event is created outside of the savepoint.     *)
LostRaceKeepsEvent(i) ==
  /\ phase[i] = "import" /\ chosen[i] = Absent /\ Known(i) /\ Holders(i) = {}
  /\ Lock(i)
  /\ event' = event \cup {<<Id(i), i>>}
  /\ chosen' = [chosen EXCEPT ![i] = reference[Id(i)]]
  /\ UNCHANGED <<rows, phase, at, reference, participation>>

(* Mutation of LostRace: the reference is never read again.                 *)
LostRaceIsFinal(i) == FALSE /\ UNCHANGED vars

(* Another import's reference was committed first: the savepoint is rolled  *)
(* back, and with it the Event, and the reference is read again.            *)
LostRace(i) ==
  /\ phase[i] = "import" /\ chosen[i] = Absent /\ Known(i) /\ Holders(i) = {}
  /\ Lock(i)
  /\ chosen' = [chosen EXCEPT ![i] = reference[Id(i)]]
  /\ UNCHANGED <<rows, phase, at, event, reference, participation>>

(* get_or_create_event_participation, and the row is done.                  *)
Participate(i) ==
  /\ phase[i] = "import" /\ chosen[i] \in EventRow
  /\ LET there == {q \in participation : q[1] = chosen[i] /\ q[2] = Who(i)}
     IN  /\ \A q \in there : Visible(i, q[3])
         /\ participation' = IF there # {} THEN participation
                             ELSE participation \cup {<<chosen[i], Who(i), i>>}
  /\ chosen' = [chosen EXCEPT ![i] = NoEvent]
  /\ at' = [at EXCEPT ![i] = @ + 1]
  /\ UNCHANGED <<rows, phase, locked, event, reference>>

Commit(i) ==
  /\ phase[i] = "import" /\ ~HasRow(i)
  /\ phase' = [phase EXCEPT ![i] = "done"]
  /\ locked' = [locked EXCEPT ![i] = {}]
  /\ UNCHANGED <<rows, at, chosen, event, reference, participation>>

(* A row that fails, a crash or a deadlock rolls the whole import back.     *)
Abort(i) ==
  /\ Open(i)
  /\ phase' = [phase EXCEPT ![i] = "failed"]
  /\ locked' = [locked EXCEPT ![i] = {}]
  /\ chosen' = [chosen EXCEPT ![i] = NoEvent]
  /\ event' = {e \in event : e[2] # i}
  /\ reference' = [x \in External |->
                     IF reference[x] # NoEvent /\ reference[x][2] = i THEN NoEvent ELSE reference[x]]
  /\ participation' = {q \in participation : q[3] # i}
  /\ UNCHANGED <<rows, at>>

Step(i) ==
  \/ Check(i) \/ StartImport(i) \/ Lookup(i) \/ Create(i)
  \/ LostRace(i) \/ Participate(i) \/ Commit(i)

Next == \E i \in Importer : Step(i) \/ Abort(i)

Spec == Init /\ [][Next]_vars

(* A request goes on while it waits for nobody, and PostgreSQL aborts a     *)
(* transaction of every deadlock.                                           *)
Fairness ==
  \A i \in Importer : WF_vars(Step(i)) /\ WF_vars(Deadlocked(i) /\ Abort(i))

FairSpec == Spec /\ Fairness

-----------------------------------------------------------------------------
TypeOK ==
  /\ rows \in [Importer -> Batch]
  /\ phase \in [Importer -> {"check", "import", "done", "failed"}]
  /\ at \in [Importer -> 1..(MaxRows + 1)]
  /\ locked \in [Importer -> SUBSET External]
  /\ chosen \in [Importer -> EventRow \cup {NoEvent, Absent}]
  /\ event \subseteq EventRow
  /\ reference \in [External -> EventRow \cup {NoEvent}]
  /\ participation \subseteq EventRow \X Person \X Importer

(* No Event is left that its provider identity does not lead to: neither a  *)
(* lost race nor a failed import leaves a second Event behind.              *)
NoOrphanEvent == \A e \in event : reference[e[1]] = e

(* Of a finished import, every row has put its Person on the one Event that *)
(* everybody finds under the row's provider identity, and on it once.       *)
RowsLand ==
  \A i \in Importer : phase[i] = "done" =>
    \A n \in DOMAIN rows[i] :
      LET e == reference[rows[i][n][1]]
      IN  /\ e \in event /\ phase[e[2]] = "done"
          /\ \E q \in participation :
               {r \in participation : r[1] = e /\ r[2] = rows[i][n][2]} = {q}

(* Imports that run at the same time leave one Event per provider identity, *)
(* and all their rows on it.                                                *)
OneEventForAll == NoOrphanEvent /\ RowsLand

(* What they rest on.  A reference names an Event of its provider identity; *)
(* an import that has looked its row up still sees what it found there.     *)
EventsAreFound ==
  \A x \in External : reference[x] # NoEvent => reference[x] \in event /\ reference[x][1] = x

Stands(i) ==
  chosen[i] # NoEvent =>
    /\ phase[i] = "import" /\ HasRow(i)
    /\ chosen[i] # Absent => chosen[i] = reference[Id(i)] /\ Visible(i, chosen[i][2])

ChoiceStands == \A i \in Importer : Stands(i)

(* The rows that an import has done have landed on what it will leave       *)
(* behind, and nobody participates twice.                                   *)
HasLanded(i, n) ==
  LET e == reference[rows[i][n][1]]
  IN  /\ e # NoEvent /\ Visible(i, e[2])
      /\ \E q \in participation : q[1] = e /\ q[2] = rows[i][n][2] /\ Visible(i, q[3])

RowsHaveLanded ==
  \A i \in Importer : \A n \in DOMAIN rows[i] :
    (phase[i] = "import" /\ n < at[i]) \/ phase[i] = "done" => HasLanded(i, n)

OneParticipation == \A q, r \in participation : q[1] = r[1] /\ q[2] = r[2] => q = r

(* The inductive invariant.                                                 *)
IInv == /\ TypeOK /\ NoOrphanEvent /\ EventsAreFound
        /\ ChoiceStands /\ RowsHaveLanded /\ OneParticipation

(* No import waits for ever, also when two of them bring the same events in *)
(* opposite orders.                                                         *)
EveryImportEnds == \A i \in Importer : <>(phase[i] \in {"done", "failed"})
=============================================================================
