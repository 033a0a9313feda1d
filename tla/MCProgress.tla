----------------------------- MODULE MCProgress -----------------------------
(* What must end, for TLC: jobs, worker processes, webhook deliveries and   *)
(* imports.  These parts wait for different things and never for each       *)
(* other, so a behaviour has one of them at work, chosen at the start, and  *)
(* fairness is that part's own; the others stay as they are.                *)
EXTENDS MailchimpSync, Sequences, TLC

CONSTANTS NoOwner, Handler, Clerk, Happening, Stamped, Importer, External

VARIABLES part,
          now, queue, holder, deaths,                               \* SyncJobQueue
          status, ready, watching, pc, left, hand, results, reported,
          dropped, stop, late, faults,                              \* SyncWorker
          preference, history, receipt, carriers, request, clerk, due,
          acked, writes, failures,                                  \* UnsubscribeWebhook
          rows, phase, at, locked, chosen, event, link, participation  \* EventReferences

queueVars == <<now, queue, holder, deaths>>
processVars == <<status, ready, watching, pc, left, hand, results, reported, dropped, stop, late, faults>>
webhookVars == <<preference, history, receipt, carriers, request, clerk, due, acked, writes, failures>>
eventVars == <<rows, phase, at, locked, chosen, event, link, participation>>

Queue == INSTANCE SyncJobQueue WITH
  job <- queue, worker <- holder, crashes <- deaths, Worker <- {1, 2},
  MaxJobs <- 1, MaxAttempts <- 3, StaleAfter <- 2, Backoff <- <<1, 3>>, MaxCrashes <- 1

Process == INSTANCE SyncWorker WITH
  Job <- 1 .. 3, NoJob <- 0, Requested <- 3, MAX_WORKER_BATCH_SIZE <- 2, MaxFaults <- 2

Webhook == INSTANCE UnsubscribeWebhook WITH
  Person <- {1}, Event <- Happening, MaxWrites <- 1, MaxFailures <- 1

Events == INSTANCE EventReferences WITH Person <- {1}, reference <- link, MaxRows <- 2

ASSUME MailchimpAssumption /\ Process!WorkerAssumption /\ Events!ReferencesAssumption

(* A part that is not at work has its work behind it: jobs done, process    *)
(* and imports ended, nothing sent by Brevo.                                *)
MailAtRest ==
  /\ email = [p \in Person |-> CHOOSE e \in Email : TRUE]
  /\ eligible = [p \in Person |-> TRUE] /\ consent = [p \in Person |-> "UNKNOWN"]
  /\ reference = [p \in Person |-> None] /\ member = [e \in Email |-> "absent"]
  /\ job = [p \in Person |-> [status |-> "SUCCEEDED", attempts |-> 1, stale |-> FALSE]]
  /\ worker = [w \in Worker |-> Idle] /\ changes = 0 /\ crashes = 0

ProcessAtRest ==
  /\ status = [j \in 1 .. 3 |-> "NONE"] /\ ready = {} /\ watching = FALSE
  /\ pc = "stopped" /\ left = 0 /\ hand = 0
  /\ results = {} /\ reported = {} /\ dropped = {}
  /\ stop = FALSE /\ late = 0 /\ faults = 0

EventsAtRest ==
  /\ rows = [i \in Importer |-> <<<<CHOOSE x \in External : TRUE, 1>>>>]
  /\ phase = [i \in Importer |-> "failed"] /\ at = [i \in Importer |-> 1]
  /\ locked = [i \in Importer |-> {}] /\ chosen = [i \in Importer |-> Events!NoEvent]
  /\ event = {} /\ link = [x \in External |-> Events!NoEvent] /\ participation = {}

MCInit ==
  /\ part \in {"mail", "queue", "process", "webhook", "events"}
  /\ Queue!Init
  /\ Webhook!Init /\ (part # "webhook" => carriers = {})
  /\ IF part = "mail" THEN Init ELSE MailAtRest
  /\ IF part = "process" THEN Process!Init ELSE ProcessAtRest
  /\ IF part = "events" THEN Events!Init ELSE EventsAtRest

MCNext ==
  /\ UNCHANGED part
  /\ part # "mail" => UNCHANGED vars
  /\ part # "queue" => UNCHANGED queueVars
  /\ part # "process" => UNCHANGED processVars
  /\ part # "webhook" => UNCHANGED webhookVars
  /\ part # "events" => UNCHANGED eventVars
  /\ CASE part = "mail" -> Next
       [] part = "queue" -> Queue!Next
       [] part = "process" -> Process!Next
       [] part = "webhook" -> Webhook!Next
       [] part = "events" -> Events!Next

allVars == <<part, vars, queueVars, processVars, webhookVars, eventVars>>

MCFairSpec ==
  /\ MCInit /\ [][MCNext]_allVars
  /\ Fairness /\ Queue!Fairness /\ Process!Fairness /\ Webhook!Fairness /\ Events!Fairness

-----------------------------------------------------------------------------
(* Every job ends, of either provider, although workers die, sleep through  *)
(* the stale window and lose the database, and so does a process that was   *)
(* asked to stop.                                                           *)
JobsEnd == EveryJobEnds /\ Queue!EventuallyDone /\ Process!EveryJobEnds /\ Process!Stops

(* Every delivery of the webhook is acknowledged in the end, though first   *)
(* inserts collide, and every import ends, though imports deadlock.         *)
RequestsEnd == Webhook!EventuallyAcknowledged /\ Events!EveryImportEnds
=============================================================================
