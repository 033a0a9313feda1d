---------------------------- MODULE SyncJobQueue ----------------------------
(***************************************************************************)
(* The durable queue of external synchronization jobs and the workers that *)
(* run it: external_references (the job row) and brevo_marketing.jobs (the *)
(* worker).  A worker claims a job in one transaction, synchronizes the    *)
(* Person in a second and records the result in a third.  Between the      *)
(* transactions it holds the job only in memory, and its last write is     *)
(* made from that memory: it reads neither the status nor the lock again.  *)
(*                                                                         *)
(* What a synchronization does is left to module ConsentSync; here it only *)
(* has a result.  Time is in minutes.                                      *)
(***************************************************************************)
EXTENDS Naturals, Sequences

CONSTANTS Worker,       \* worker processes: `--watch` services and one-shot commands
          MaxJobs,      \* bound: how many jobs are ever enqueued
          MaxAttempts,  \* ExternalPersonSyncJob.max_attempts
          StaleAfter,   \* STALE_PROCESSING_AFTER
          Backoff,      \* RETRY_BACKOFF_MINUTES, a sequence
          MaxCrashes,   \* bound: how many times a worker dies holding a job
          NoOwner       \* stands for "nobody" where a worker is expected

ASSUME QueueAssumption ==
  /\ MaxJobs \in Nat
  /\ MaxAttempts \in Nat \ {0}
  /\ StaleAfter \in Nat
  /\ Backoff \in Seq(Nat)
  /\ Len(Backoff) > 0
  /\ MaxCrashes \in Nat
  /\ NoOwner \notin Worker

VARIABLES now,      \* the database server's and the workers' common clock
          job,      \* job[j]: the row with id j
          worker,   \* worker[w]: what w holds in memory
          crashes   \* how many times a worker has died holding a job

vars == <<now, job, worker, crashes>>

Job == 1..MaxJobs
Done == {"SUCCEEDED", "FAILED"}
Status == {"NEW", "PENDING", "PROCESSING"} \cup Done   \* "NEW": no such row yet
Result == {"ok", "temporary", "permanent"}

(* A NULL locked_at is 0: the column is only read in a PROCESSING row.      *)
(* completed tells whether completed_at is set.                            *)
Row == [status : Status, availableAt : Nat, attempts : Nat,
        lockedAt : Nat, completed : BOOLEAN]

(* The in-memory copy of the claimed row, as far as it is used again.       *)
Hand == [pc : {"idle", "claimed", "synced"}, job : Job \cup {0},
         attempts : Nat, lockedAt : Nat, result : Result \cup {"none"}]

NoRow == [status |-> "NEW", availableAt |-> 0, attempts |-> 0,
          lockedAt |-> 0, completed |-> FALSE]
Idle == [pc |-> "idle", job |-> 0, attempts |-> 0, lockedAt |-> 0, result |-> "none"]

Init == /\ now = 0
        /\ job = [j \in Job |-> NoRow]
        /\ worker = [w \in Worker |-> Idle]
        /\ crashes = 0

Holds(w, j) == worker[w].pc # "idle" /\ worker[w].job = j

-----------------------------------------------------------------------------
(* Producers: a preference change or a Person edit commits together with   *)
(* its job.  Ids are handed out in order.                                  *)
Enqueue(j) ==
  /\ job[j].status = "NEW"
  /\ \A i \in Job : i < j => job[i].status # "NEW"
  /\ job' = [job EXCEPT ![j] = [NoRow EXCEPT !.status = "PENDING", !.availableAt = now]]
  /\ UNCHANGED <<now, worker, crashes>>

-----------------------------------------------------------------------------
(* Mutations of Stale: the age of the lock, or the status, is not looked at. *)
StaleAtAnyAge(j) == job[j].status = "PROCESSING"
StaleInAnyStatus(j) == job[j].status # "NEW" /\ job[j].lockedAt + StaleAfter < now
NeverStale(j) == FALSE

Stale(j) == job[j].status = "PROCESSING" /\ job[j].lockedAt + StaleAfter < now

(* The queue after the recovery UPDATE at the start of every claim.  The    *)
(* attempts of a recovered row are neither looked at nor reset.             *)
Recovered ==
  [j \in Job |-> IF Stale(j)
                 THEN [job[j] EXCEPT !.status = "PENDING", !.lockedAt = 0, !.availableAt = now]
                 ELSE job[j]]

(* Mutation of Ready: the status filter is missing. *)
ReadyInAnyStatus(q, j) == q[j].status # "NEW" /\ q[j].availableAt <= now

Ready(q, j) == q[j].status = "PENDING" /\ q[j].availableAt <= now

(* order_by("available_at", "id") *)
Precedes(q, i, j) == \/ q[i].availableAt < q[j].availableAt
                     \/ q[i].availableAt = q[j].availableAt /\ i <= j

Locked(row) == [row EXCEPT !.status = "PROCESSING", !.attempts = @ + 1, !.lockedAt = now]

Claim(w) ==
  /\ worker[w].pc = "idle"
  /\ \E j \in Job :
       /\ Ready(Recovered, j)
       /\ \A i \in Job : Ready(Recovered, i) => Precedes(Recovered, j, i)
       /\ job' = [Recovered EXCEPT ![j] = Locked(@)]
       /\ worker' = [worker EXCEPT ![w] =
                       [pc |-> "claimed", job |-> j, attempts |-> job'[j].attempts,
                        lockedAt |-> job'[j].lockedAt, result |-> "none"]]
  /\ UNCHANGED <<now, crashes>>

-----------------------------------------------------------------------------
(* The synchronization transaction, reduced to how it ends: a business      *)
(* outcome, a temporary or unexpected error, or a permanent error or        *)
(* RECONCILIATION_REQUIRED.                                                *)
Synchronize(w, r) ==
  /\ worker[w].pc = "claimed"
  /\ worker' = [worker EXCEPT ![w].pc = "synced", ![w].result = r]
  /\ UNCHANGED <<now, job, crashes>>

Succeeded(row) == [row EXCEPT !.status = "SUCCEEDED", !.completed = TRUE, !.lockedAt = 0]

Failed(row) == [row EXCEPT !.status = "FAILED", !.completed = TRUE, !.lockedAt = 0]

Delay(attempts) == Backoff[IF attempts < Len(Backoff) THEN attempts ELSE Len(Backoff)]

(* Mutation of Retried: one attempt too many. *)
RetriedOnceMore(row, attempts) ==
  IF attempts > MaxAttempts THEN Failed(row)
  ELSE [row EXCEPT !.status = "PENDING", !.lockedAt = 0, !.availableAt = now + Delay(attempts)]

Retried(row, attempts) ==
  IF attempts >= MaxAttempts THEN Failed(row)
  ELSE [row EXCEPT !.status = "PENDING", !.lockedAt = 0, !.availableAt = now + Delay(attempts)]

(* The result is written over whatever the row has become meanwhile: the    *)
(* save names its columns and has no condition.                             *)
Complete(w) ==
  /\ worker[w].pc = "synced"
  /\ LET h == worker[w] IN
       job' = [job EXCEPT ![h.job] = CASE h.result = "ok"        -> Succeeded(@)
                                       [] h.result = "permanent" -> Failed(@)
                                       [] h.result = "temporary" -> Retried(@, h.attempts)]
  /\ worker' = [worker EXCEPT ![w] = Idle]
  /\ UNCHANGED <<now, crashes>>

(* The process dies, or a database error escapes to the batch loop, which   *)
(* logs it and goes on: either way the worker forgets the job.              *)
Crash(w) ==
  /\ worker[w].pc # "idle"
  /\ crashes < MaxCrashes
  /\ worker' = [worker EXCEPT ![w] = Idle]
  /\ crashes' = crashes + 1
  /\ UNCHANGED <<now, job>>

-----------------------------------------------------------------------------
(* Bound on the clock that hides nothing: once every backoff is over and    *)
(* every lock stale, more time changes no guard.                            *)
TimeMatters == \E j \in Job : \/ job[j].status = "PENDING" /\ job[j].availableAt > now
                              \/ /\ job[j].status = "PROCESSING"
                                 /\ job[j].lockedAt + StaleAfter >= now

Tick == /\ TimeMatters
        /\ now' = now + 1
        /\ UNCHANGED <<job, worker, crashes>>

(* The worker steps and the enqueuing, without the passage of time.         *)
Work(w) == \/ Claim(w)
           \/ \E r \in Result : Synchronize(w, r)
           \/ Complete(w)

Step == \/ \E j \in Job : Enqueue(j)
        \/ \E w \in Worker : Work(w) \/ Crash(w)

Next == Step \/ Tick

(* Nothing is assumed about the workers' speed: a worker may sleep through  *)
(* the stale window and wake up later.                                      *)
Spec == Init /\ [][Next]_vars

(* The assumption behind the fifteen minutes: a worker that is still alive  *)
(* has recorded its result before its lock goes stale.                      *)
PromptTick == /\ Tick
              /\ \A w \in Worker : worker[w].pc # "idle" => now < worker[w].lockedAt + StaleAfter

PromptNext == Step \/ PromptTick

PromptSpec == Init /\ [][PromptNext]_vars

(* A running `--watch` process keeps polling and finishes what it claimed,  *)
(* and time goes on.  Producers and crashes are not fair.                   *)
Fairness == (\A w \in Worker : WF_vars(Work(w))) /\ WF_vars(Tick)

FairSpec == Spec /\ Fairness

-----------------------------------------------------------------------------
(* Types; no row and no worker has seen a time that has not come yet.       *)
TypeOK ==
  /\ now \in Nat
  /\ job \in [Job -> Row]
  /\ worker \in [Worker -> Hand]
  /\ crashes \in Nat
  /\ \A j \in Job : job[j].lockedAt <= now
  /\ \A w \in Worker : /\ worker[w].pc # "idle" => worker[w].job \in Job
                       /\ worker[w].pc = "synced" => worker[w].result \in Result

(* A worker that holds a job holds it alone, and the row it is about to     *)
(* overwrite unread is still the row it claimed: same attempt, same lock.   *)
(* This is what makes the blind writes of _mark_succeeded, _record_retry    *)
(* and _record_failure safe.                                                *)
LeaseHeldByOne ==
  \A w \in Worker : worker[w].pc # "idle" =>
    LET j == worker[w].job IN
      /\ job[j].status = "PROCESSING"
      /\ job[j].attempts = worker[w].attempts
      /\ job[j].lockedAt = worker[w].lockedAt
      /\ \A v \in Worker \ {w} : ~Holds(v, j)

(* max_attempts bounds the attempts only up to the workers that died: the   *)
(* recovery of a stale lock does not look at it.  Without crashes it is the *)
(* bounded retry the documentation speaks of.                               *)
AttemptsBounded == \A j \in Job : job[j].attempts <= MaxAttempts + crashes

(* completed_at is set in exactly the rows that are finished: no retry, no  *)
(* recovery and no late write leaves a timestamp behind.                    *)
CompletedIffDone == \A j \in Job : job[j].completed <=> job[j].status \in Done

(* A finished job is never touched again, by its own worker, by another     *)
(* worker or by the stale-lock recovery.                                    *)
DoneStaysDone == [][\A j \in Job : job[j].status \in Done => job'[j] = job[j]]_vars

(* Why the blind writes are safe, as an inductive invariant.  A worker that *)
(* holds a job has counted an attempt, and its lock has not gone stale; a   *)
(* job nobody holds has an attempt left, if workers that died are forgiven. *)
Leased == \A w \in Worker : worker[w].pc # "idle" =>
  /\ worker[w].attempts > 0
  /\ now <= worker[w].lockedAt + StaleAfter

AttemptLeft == \A j \in Job : job[j].status \notin Done /\ (\A w \in Worker : ~Holds(w, j))
  => job[j].attempts < MaxAttempts + crashes

IInv == /\ TypeOK
        /\ LeaseHeldByOne
        /\ Leased
        /\ AttemptLeft
        /\ AttemptsBounded
        /\ CompletedIffDone

(* The queue keeps the promise of JobLease: the owner of a job is the       *)
(* worker that holds it in memory.                                          *)
Owner(j) == IF \E w \in Worker : Holds(w, j) THEN CHOOSE w \in Worker : Holds(w, j)
                                            ELSE NoOwner
Lease == INSTANCE JobLease WITH status <- [j \in Job |-> job[j].status],
                                owner <- [j \in Job |-> Owner(j)]
LeaseContract == Lease!Spec

(* Every job is finished in the end, whatever fails, and stays so: a worker *)
(* that died leaves its job recoverable, and retries run out.               *)
EventuallyDone == \A j \in Job : job[j].status = "PENDING" ~> [](job[j].status \in Done)
=============================================================================
