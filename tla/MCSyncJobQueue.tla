--------------------------- MODULE MCSyncJobQueue ---------------------------
(* What works on the table of ExternalPersonSyncJob, for TLC: the workers of*)
(* the Brevo queue, the frozen Mailchimp queue, and the process around a    *)
(* queue with its loop of batches.  The providers share no row, and the loop*)
(* knows a job only as claimed and ended, so a behaviour has one of the     *)
(* three at work, chosen at the start, and the others at rest.              *)
EXTENDS SyncJobQueue, TLC

CONSTANTS
  Person, Email, None, MailAttempts, MaxClaims, MaxChanges, MailCrashes, MayChangeEmail,
  Queued, NoJob, Requested, MAX_WORKER_BATCH_SIZE, MaxFaults

(* RETRY_BACKOFF_MINUTES, scaled: one delay inside the stale window and a   *)
(* last one beyond it, as 1, 5 < 15 < 60 in the code.                       *)
MCBackoff == <<1, 3>>

VARIABLES
  part,
  email, eligible, consent, reference, member, mailJob, mailWorker, changes, mailCrashes,
  status, ready, watching, pc, left, hand, results, reported, dropped, stop, late, faults

mailVars == <<email, eligible, consent, reference, member, mailJob, mailWorker, changes, mailCrashes>>
loopVars == <<status, ready, watching, pc, left, hand, results, reported, dropped, stop, late, faults>>

Mail == INSTANCE MailchimpSync WITH
  job <- mailJob, worker <- mailWorker, crashes <- mailCrashes,
  MaxAttempts <- MailAttempts, MaxCrashes <- MailCrashes

Process == INSTANCE SyncWorker WITH Job <- Queued

ASSUME TableAssumption == Mail!MailchimpAssumption /\ Process!WorkerAssumption

(* Nobody and nothing to synchronize.                                       *)
MailAtRest ==
  /\ \A p \in Person : consent[p] = "UNKNOWN"
  /\ \A p, q \in Person : email[p] = email[q]
  /\ \A e \in Email : member[e] = "absent"

MCInit == /\ part \in {"brevo", "mailchimp", "process"}
          /\ Init /\ Mail!Init /\ Process!Init
          /\ part # "mailchimp" => MailAtRest
          /\ part # "process" => watching = FALSE
MCNext == /\ UNCHANGED part
          /\ \/ part = "brevo" /\ PromptNext /\ UNCHANGED <<mailVars, loopVars>>
             \/ part = "mailchimp" /\ Mail!Next /\ UNCHANGED <<vars, loopVars>>
             \/ part = "process" /\ Process!Next /\ UNCHANGED <<vars, mailVars>>
MCSpec == MCInit /\ [][MCNext]_<<part, vars, mailVars, loopVars>>

(* Of MailchimpSync: only new contacts are subscribed, after an opt-in; an   *)
(* opt-out is applied.  Both of consent as the synchronization has read it.  *)
ConsentIsApplied == Mail!OnlyNewContactsAreSubscribed /\ Mail!OptOutApplied

(* A contact is linked to one Person, and one Person is synchronized once   *)
(* at a time, also when a job was recovered from a worker that was only slow;*)
(* with what MailchimpSync takes to be inductive.                           *)
LinkedToOne == Mail!LinkedToOne /\ []Mail!IInv

(* Of SyncWorker: a stop is obeyed after the batch, and no result is        *)
(* forgotten; with what it takes to be inductive.                           *)
NoResultIsLost == Process!NoResultIsLost /\ Process!IInv

Symmetry == Permutations(Worker) \cup Permutations(Person) \cup Permutations(Email)
=============================================================================
