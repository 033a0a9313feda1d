-------------------------- MODULE MCHistoricalImport --------------------------
(* Imports for TLC, in scenarios that stage and allow different things: one *)
(* Membership Form with staff around it; buyers of several orders, imported *)
(* next to it; a batch that fails; two rows that match one Person.  Next to *)
(* them a single row of a workbook, and imports that share Events.          *)
EXTENDS HistoricalImport

CONSTANTS Scenarios, e1, e2, m1, m2, n1, n2, ev, b1, b2,
          Importer, External, Participant, MaxRows   \* EventReferences

Plain(m) == [number |-> m, written |-> "plain"]
Row(email, mobile, name) == [email |-> email, mobile |-> Plain(mobile), name |-> name,
                             valid |-> TRUE, event |-> ev]
Bad == [Row(None, None, n1) EXCEPT !.valid = FALSE]
Somebody(email, mobile, membership) ==
  [type |-> "BUSINESS", email |-> email, mobile |-> mobile, name |-> n1, membership |-> membership]
Table(first) == [p \in Person |-> IF p <= Len(first) THEN first[p] ELSE Absent]
Spaced == [Plain(m1) EXCEPT !.written = "spaced"]
Known == Table(<<Somebody(e1, NoMobile, "NONE")>>)

(* What a scenario uploads, on which People, and what happens around it;    *)
(* inTurn: do People stay between the checks of an import and its writes?   *)
Scenario ==
  [members |->   (* a match, a contradiction, a number only, a stranger, an invalid row *)
     [batches |-> {b1}, rows |-> 2,
      source |-> {Row(e1, None, n1), Row(e1, m1, n2), Row(None, m1, n1), Row(e2, None, n1), Bad},
      people |-> {Table(<<>>), Known, Table(<<Somebody(e1, NoMobile, "FORMER")>>)},
      changes |-> 2, crashes |-> 1, inTurn |-> TRUE],
   buyers |->    (* orders of one buyer and of somebody who shares the number *)
     [batches |-> {b1, b2}, rows |-> 2,
      source |-> {Row(e1, None, n1), Row(e1, m1, n1), Row(e2, m1, n1), Bad},
      people |-> {Table(<<Somebody(e2, NoMobile, "FORMER")>>), Table(<<Somebody(e1, Spaced, "NONE")>>)},
      changes |-> 1, crashes |-> 0, inTurn |-> FALSE],
   failing |->   (* two strangers with one address among rows that need a review *)
     [batches |-> {b1}, rows |-> 3, source |-> {Row(e2, None, n1), Row(e1, None, n2), Bad},
      people |-> {Known}, changes |-> 1, crashes |-> 0, inTurn |-> TRUE],
   twice |->     (* the same person with two numbers *)
     [batches |-> {b1}, rows |-> 2, source |-> {Row(e1, m1, n1), Row(e1, m2, n1)},
      people |-> {Known}, changes |-> 0, crashes |-> 0, inTurn |-> TRUE]]

MCSource == UNION {Scenario[s].source : s \in Scenarios}
MCFirstPeople == UNION {Scenario[s].people : s \in Scenarios}
MCNewIdentity == {[email |-> e2, mobile |-> NoMobile, name |-> n1]}
MCEvent == {ev}

VARIABLES scenario,
          sourceType, missing, row, matched, stage,                          \* ImportRows
          rows, phase, at, locked, chosen, event, reference, attendance      \* EventReferences

cellVars == <<sourceType, missing, row, matched, stage>>
refVars == <<rows, phase, at, locked, chosen, event, reference, attendance>>
allVars == <<scenario, vars, cellVars, refVars>>

Cells == INSTANCE ImportRows
Refs == INSTANCE EventReferences WITH Person <- Participant, participation <- attendance

ASSUME SharedAssumption == Refs!ReferencesAssumption /\ External # {} /\ Participant # {}

(* No row is looked at: the workbook was refused.                           *)
NoCells == /\ sourceType = "EVENTBRITE" /\ missing = TRUE /\ stage = "no batch"
           /\ row = <<>> /\ matched = FALSE

(* The imports that could have shared Events are over.                      *)
NoRefs == /\ rows = [i \in Importer |-> <<<<CHOOSE x \in External : TRUE, CHOOSE p \in Participant : TRUE>>>>]
          /\ phase = [i \in Importer |-> "failed"] /\ at = [i \in Importer |-> 1]
          /\ locked = [i \in Importer |-> {}] /\ chosen = [i \in Importer |-> Refs!NoEvent]
          /\ event = {} /\ reference = [x \in External |-> Refs!NoEvent] /\ attendance = {}

NoPeople == people = CHOOSE table \in FirstPeople : TRUE

MCInit ==
  /\ Init
  /\ \/ scenario \in Scenarios /\ people \in Scenario[scenario].people /\ NoCells /\ NoRefs
     \/ scenario = "cells" /\ NoPeople /\ Cells!Init /\ NoRefs
     \/ scenario = "references" /\ NoPeople /\ NoCells /\ Refs!Init

(* What the scenario stages and allows.                                     *)
Within ==
  LET bound == Scenario[scenario] IN
  /\ \A b \in Batch \ bound.batches : upload'[b] = "none"
  /\ \A r \in Record : record'[r].status # "NONE" =>
       r[2] <= bound.rows /\ record'[r].source \in bound.source
  /\ changes' <= bound.changes /\ crashes' <= bound.crashes
  /\ bound.inTurn => InTurn

MCNext ==
  /\ UNCHANGED scenario
  /\ \/ scenario \in Scenarios /\ Next /\ Within /\ UNCHANGED <<cellVars, refVars>>
     \/ scenario = "cells" /\ Cells!Next /\ UNCHANGED <<vars, refVars>>
     \/ scenario = "references" /\ Refs!Next /\ UNCHANGED <<vars, cellVars>>

MCSpec == MCInit /\ [][MCNext]_allVars
MCFairSpec == MCSpec /\ Fairness

-----------------------------------------------------------------------------
(* Types; the status of a batch agrees with the counts shown next to it;    *)
(* and an imported batch has no row left over, also one that had failed     *)
(* and was revived; with what these rest on.                                *)
StatusTellsRecords ==
  /\ RowsInv /\ TurnsInv /\ WrittenInv /\ FitInv
  /\ StatusTellsSummary /\ ImportedIsComplete

(* Reviews, where nobody is changed between the checks of an import and its *)
(* writes.                                                                  *)
ReviewedInTurn ==
  scenario \in Scenarios /\ Scenario[scenario].inTurn => CreatedPeopleAreReviewed /\ EvidenceHolds

(* The status of a batch follows the life cycle that is documented, except  *)
(* that deciding a review revives a failed batch, which a batch of two rows *)
(* gives no occasion for; and an upload that is not cut off does not leave  *)
(* it PROCESSING.                                                           *)
LifecycleOfMembers == INSTANCE ImportLifecycle WITH
  status <- [b \in Batch |-> IF scenario = "members" THEN status[b] ELSE "NONE"]
LifecycleInTurn == LifecycleUnlessRevived /\ LifecycleOfMembers!Spec /\ UploadSettles

(* Of ImportRows: what is written parses; both judgements of an order agree.*)
RowsAreSound ==
  /\ Cells!StageIsJudged /\ Cells!NothingBadIsWritten
  /\ scenario = "cells" /\ sourceType = "EVENTBRITE" => Cells!JudgementsAgree

(* Of EventReferences: imports that run at the same time leave one Event    *)
(* per provider identity, and all their rows on it; with what it takes.     *)
OneEventForAll == Refs!OneEventForAll /\ Refs!IInv
=============================================================================
