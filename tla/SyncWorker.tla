------------------------------ MODULE SyncWorker ------------------------------
(***************************************************************************)
(* brevo_marketing: the process around the job queue.  SyncJobQueue models *)
(* what a worker does to a job; this module models the loop that takes     *)
(* jobs in batches: a watching service that polls until it is told to      *)
(* stop, or a command that runs one batch.  A batch that fails, because    *)
(* the database does, loses the results it had gathered and leaves the job *)
(* in hand PROCESSING until the queue recovers it.                         *)
(***************************************************************************)
EXTENDS Integers, FiniteSets

CONSTANTS Job,       \* jobs of the queue
          NoJob,     \* no job in hand
          Requested, \* --batch-size or --limit, as given
          MAX_WORKER_BATCH_SIZE, \* the most one batch may take
          MaxFaults  \* bound: failed batches and retried jobs

WorkerAssumption ==
  /\ IsFiniteSet(Job) /\ NoJob \notin Job
  /\ Requested \in Int
  /\ MAX_WORKER_BATCH_SIZE \in Nat \ {0}
  /\ MaxFaults \in Nat

VARIABLES status,    \* job: "NONE", "PENDING", "PROCESSING", "ENDED"
          ready,     \* the jobs whose available_at has come
          watching,  \* --watch
          pc,        \* where the process is
          left,      \* jobs it may still take in this batch
          hand,      \* the job in hand
          results,   \* results of this batch, not yet reported
          reported,  \* jobs whose result was written out
          dropped,   \* jobs whose result went with a failed batch
          stop,      \* stop_event
          late,      \* jobs taken after the stop was requested
          faults     \* failed batches and retried jobs so far

(* _validated_batch_size; the command treats --limit the same way.          *)
Batch ==
  IF Requested < 1 THEN 1
  ELSE IF Requested > MAX_WORKER_BATCH_SIZE THEN MAX_WORKER_BATCH_SIZE ELSE Requested

loop == <<pc, left, hand>>
vars == <<status, ready, watching, loop, results, reported, dropped, stop, late, faults>>

Init ==
  /\ status = [j \in Job |-> "NONE"] /\ ready = {}
  /\ watching \in BOOLEAN
  /\ pc = "loop" /\ left = 0 /\ hand = NoJob
  /\ results = {} /\ reported = {} /\ dropped = {}
  /\ stop = FALSE /\ late = 0 /\ faults = 0

-----------------------------------------------------------------------------
Claimable == {j \in ready : status[j] = "PENDING"}

Enqueue(j) ==
  /\ status[j] = "NONE"
  /\ status' = [status EXCEPT ![j] = "PENDING"] /\ ready' = ready \cup {j}
  /\ UNCHANGED <<watching, loop, results, reported, dropped, stop, late, faults>>

(* A retry delay, or the window of an interrupted attempt, is over.         *)
BecomeReady(j) ==
  /\ j # hand
  /\ \/ status[j] = "PENDING" /\ j \notin ready
     \/ status[j] = "PROCESSING"
  /\ status' = [status EXCEPT ![j] = "PENDING"] /\ ready' = ready \cup {j}
  /\ UNCHANGED <<watching, loop, results, reported, dropped, stop, late, faults>>

(* SIGINT or SIGTERM, in watch mode: noted, and seen between two batches.   *)
RequestShutdown ==
  /\ watching /\ ~stop /\ pc # "stopped"
  /\ stop' = TRUE
  /\ UNCHANGED <<status, ready, watching, loop, results, reported, dropped, late, faults>>

StartBatch ==
  /\ pc = "loop" /\ ~stop
  /\ pc' = "batch" /\ left' = Batch
  /\ UNCHANGED <<status, ready, watching, hand, results, reported, dropped, stop, late, faults>>

Stop ==
  /\ pc = "loop" /\ stop
  /\ pc' = "stopped"
  /\ UNCHANGED <<status, ready, watching, left, hand, results, reported, dropped, stop, late, faults>>

(* process_next_brevo_sync_job: a job is claimed.                           *)
Take(j) ==
  /\ pc = "batch" /\ hand = NoJob /\ left > 0 /\ j \in Claimable
  /\ status' = [status EXCEPT ![j] = "PROCESSING"]
  /\ hand' = j /\ left' = left - 1
  /\ late' = late + IF stop THEN 1 ELSE 0
  /\ UNCHANGED <<ready, watching, pc, results, reported, dropped, stop, faults>>

(* Mutation of Record: a full batch ends before its last result is kept.    *)
RecordAllButLast ==
  /\ hand # NoJob /\ hand' = NoJob
  /\ results' = IF left > 0 THEN results \cup {hand} ELSE results
  /\ status' = [status EXCEPT ![hand] = "ENDED"]
  /\ UNCHANGED <<ready, faults, watching, pc, left, reported, dropped, stop, late>>

(* It has succeeded or failed, or will be tried again later.                *)
Record ==
  /\ hand # NoJob /\ hand' = NoJob
  /\ results' = results \cup {hand}
  /\ \/ /\ status' = [status EXCEPT ![hand] = "ENDED"]
        /\ UNCHANGED <<ready, faults>>
     \/ /\ faults < MaxFaults /\ faults' = faults + 1
        /\ status' = [status EXCEPT ![hand] = "PENDING"] /\ ready' = ready \ {hand}
  /\ UNCHANGED <<watching, pc, left, reported, dropped, stop, late>>

(* The batch is full, or the queue has nothing ready.                       *)
EndBatch ==
  /\ pc = "batch" /\ hand = NoJob /\ (left = 0 \/ Claimable = {})
  /\ pc' = "report" /\ left' = 0
  /\ UNCHANGED <<status, ready, watching, hand, results, reported, dropped, stop, late, faults>>

(* The database fails under a claim or under the write of a result: the     *)
(* watching loop goes on without results, the command ends.                 *)
BatchFails ==
  /\ pc = "batch" /\ faults < MaxFaults
  /\ faults' = faults + 1
  /\ pc' = (IF watching THEN "report" ELSE "stopped") /\ left' = 0 /\ hand' = NoJob
  /\ results' = {} /\ dropped' = dropped \cup results
  /\ UNCHANGED <<status, ready, watching, reported, stop, late>>

(* The results are written out; without any, the loop waits for poll_seconds*)
(* or for the stop event.                                                   *)
Report ==
  /\ pc = "report"
  /\ pc' = IF ~watching THEN "stopped" ELSE IF results = {} THEN "wait" ELSE "loop"
  /\ reported' = reported \cup results /\ results' = {}
  /\ UNCHANGED <<status, ready, watching, left, hand, dropped, stop, late, faults>>

Wait ==
  /\ pc = "wait" /\ pc' = "loop"
  /\ UNCHANGED <<status, ready, watching, left, hand, results, reported, dropped, stop, late, faults>>

Work ==
  \/ StartBatch \/ Stop \/ Record \/ EndBatch \/ BatchFails \/ Report \/ Wait
  \/ \E j \in Job : Take(j)

Next ==
  \/ Work \/ RequestShutdown
  \/ \E j \in Job : Enqueue(j) \/ BecomeReady(j)

Spec == Init /\ [][Next]_vars

(* The process runs, calls end within their timeouts, and time passes.      *)
Fairness == WF_vars(Work) /\ \A j \in Job : WF_vars(BecomeReady(j))

FairSpec == Spec /\ Fairness

-----------------------------------------------------------------------------
TypeOK ==
  /\ status \in [Job -> {"NONE", "PENDING", "PROCESSING", "ENDED"}]
  /\ ready \subseteq Job /\ watching \in BOOLEAN
  /\ pc \in {"loop", "batch", "report", "wait", "stopped"}
  /\ left \in 0 .. Batch /\ hand \in Job \cup {NoJob}
  /\ hand # NoJob => pc = "batch" /\ status[hand] = "PROCESSING"
  /\ results \subseteq Job /\ reported \subseteq Job /\ dropped \subseteq Job
  /\ stop \in BOOLEAN /\ late \in Nat /\ faults \in 0 .. MaxFaults

(* After a stop is requested the process takes at most the rest of its batch*)
(* (jobs.py:66: the event is looked at between batches only).               *)
StopsAfterItsBatch == late <= Batch

(* An ended job has its result reported, is about to, or lost it with a     *)
(* failed batch: no other way of ending a batch loses one (jobs.py:68).     *)
NoResultForgotten == {j \in Job : status[j] = "ENDED"} \subseteq reported \cup results \cup dropped

NoResultIsLost == StopsAfterItsBatch /\ NoResultForgotten

(* What the first rests on: only the batch under way goes on after a stop.  *)
LateInThisBatch == late + left <= Batch /\ (stop \/ late = 0) /\ (pc # "batch" => left = 0)

(* The inductive invariant.                                                 *)
IInv == TypeOK /\ LateInThisBatch /\ NoResultForgotten

(* A job that nobody works on is not left PROCESSING for ever, and every    *)
(* job ends unless the process stops: a failed batch or a retry does not end*)
(* the loop (jobs.py:70).                                                   *)
EveryJobEnds ==
  \A j \in Job : status[j] = "PENDING" /\ watching ~> status[j] = "ENDED" \/ stop

(* A requested stop ends the process, whatever it was doing, and a command  *)
(* ends after its batch (jobs.py:66, process_brevo_sync_jobs.py:24).        *)
Stops == <>(~watching \/ stop) => <>(pc = "stopped")
=============================================================================
