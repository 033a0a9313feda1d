-------------------------- MODULE SyncJobQueueProofs --------------------------
(***************************************************************************)
(* Proofs about SyncJobQueue, for every number of workers, jobs, attempts  *)
(* and crashes, every stale window and every backoff.  All of them rest on *)
(* PromptSpec: a worker that is alive records its result before its lock   *)
(* goes stale.  After them, of what works on the same table: the process   *)
(* around the queue (SyncWorker) and the Mailchimp jobs (MailchimpSync),   *)
(* whose proofs need no such promise.                                      *)
(***************************************************************************)
EXTENDS MCSyncJobQueue, TLAPS

(* The retry delay of an attempt that was counted is one of the backoffs.   *)
LEMMA DelayType == ASSUME NEW n \in Nat, n > 0 PROVE Delay(n) \in Nat
  <1>1. Len(Backoff) \in Nat /\ Len(Backoff) > 0
    BY QueueAssumption
  <1>2. (IF n < Len(Backoff) THEN n ELSE Len(Backoff)) \in 1..Len(Backoff)
    BY <1>1
  <1>3. \A i \in 1..Len(Backoff) : Backoff[i] \in Nat
    BY QueueAssumption
  <1> QED BY <1>2, <1>3 DEF Delay

(* No job that a worker holds is stale.                                     *)
LEMMA HeldIsFresh ==
  ASSUME TypeOK, LeaseHeldByOne, Leased, NEW w \in Worker, worker[w].pc # "idle"
  PROVE  ~Stale(worker[w].job)
  <1>1. /\ now \in Nat /\ worker[w].lockedAt \in Nat
        /\ job[worker[w].job].lockedAt = worker[w].lockedAt
        /\ now <= worker[w].lockedAt + StaleAfter
    BY DEF TypeOK, LeaseHeldByOne, Leased, Hand
  <1>2. StaleAfter \in Nat
    BY QueueAssumption
  <1> QED BY <1>1, <1>2 DEF Stale

(* What becomes of the columns of a row that is put back, or locked.        *)
LEMMA PutBackRow ==
  ASSUME NEW r \in Row, NEW t \in Nat
  PROVE  LET q == [r EXCEPT !.status = "PENDING", !.lockedAt = 0, !.availableAt = t] IN
         /\ q \in Row /\ q.status = "PENDING" /\ q.lockedAt = 0
         /\ q.attempts = r.attempts
         /\ q.completed = r.completed
  <1> DEFINE q == [r EXCEPT !.status = "PENDING", !.lockedAt = 0, !.availableAt = t]
  <1>1. q \in Row /\ q.status = "PENDING" /\ q.lockedAt = 0 /\ q.attempts = r.attempts
    BY DEF Row, Status
  <1>2. q.completed = r.completed
    BY DEF Row
  <1> QED BY <1>1, <1>2

(* What locking does to a row.                                              *)
LEMMA LockedRow ==
  ASSUME NEW r \in Row, now \in Nat
  PROVE  /\ Locked(r) \in Row /\ Locked(r).status = "PROCESSING"
         /\ Locked(r).lockedAt = now /\ Locked(r).attempts = r.attempts + 1
         /\ Locked(r).completed = r.completed
  <1>1. r.attempts + 1 \in Nat
    BY DEF Row
  <1>2. Locked(r) \in Row
    BY <1>1 DEF Row, Status, Locked
  <1>3. /\ Locked(r).status = "PROCESSING"
        /\ Locked(r).lockedAt = now /\ Locked(r).attempts = r.attempts + 1
    BY DEF Row, Locked
  <1>4. Locked(r).completed = r.completed
    BY DEF Row, Locked
  <1> QED BY <1>2, <1>3, <1>4

(* ... or finished.                                                         *)
LEMMA FinishedRow ==
  ASSUME NEW r \in Row
  PROVE  /\ Succeeded(r) \in Row /\ Succeeded(r).status = "SUCCEEDED"
         /\ Succeeded(r).lockedAt = 0 /\ Succeeded(r).attempts = r.attempts
         /\ Succeeded(r).completed
         /\ Failed(r) \in Row /\ Failed(r).status = "FAILED"
         /\ Failed(r).lockedAt = 0 /\ Failed(r).attempts = r.attempts
         /\ Failed(r).completed
  <1>1. /\ Succeeded(r) \in Row /\ Succeeded(r).status = "SUCCEEDED"
        /\ Succeeded(r).lockedAt = 0 /\ Succeeded(r).attempts = r.attempts
    BY DEF Row, Status, Done, Succeeded
  <1>2. Succeeded(r).completed
    BY DEF Row, Succeeded
  <1>3. /\ Failed(r) \in Row /\ Failed(r).status = "FAILED"
        /\ Failed(r).lockedAt = 0 /\ Failed(r).attempts = r.attempts
    BY DEF Row, Status, Done, Failed
  <1>4. Failed(r).completed
    BY DEF Row, Failed
  <1> QED BY <1>1, <1>2, <1>3, <1>4

(* The recovery UPDATE keeps rows rows, and touches stale ones only.        *)
LEMMA RecoveredRows ==
  ASSUME TypeOK
  PROVE  /\ Recovered \in [Job -> Row]
         /\ \A j \in Job : /\ ~Stale(j) => Recovered[j] = job[j]
                           /\ Stale(j) => /\ job[j].status = "PROCESSING"
                                          /\ Recovered[j].status = "PENDING"
                                          /\ Recovered[j].lockedAt = 0
                           /\ Recovered[j].attempts = job[j].attempts
                           /\ Recovered[j].completed = job[j].completed
  <1>1. ASSUME NEW j \in Job, Stale(j)
        PROVE  /\ job[j].status = "PROCESSING"
               /\ Recovered[j] \in Row
               /\ Recovered[j].status = "PENDING"
               /\ Recovered[j].lockedAt = 0
               /\ Recovered[j].attempts = job[j].attempts
               /\ Recovered[j].completed = job[j].completed
    <2>1. job[j] \in Row /\ now \in Nat
      BY DEF TypeOK
    <2>2. Recovered[j] = [job[j] EXCEPT !.status = "PENDING", !.lockedAt = 0, !.availableAt = now]
      BY <1>1 DEF Recovered
    <2>3. /\ Recovered[j] \in Row /\ Recovered[j].status = "PENDING"
          /\ Recovered[j].lockedAt = 0 /\ Recovered[j].attempts = job[j].attempts
          /\ Recovered[j].completed = job[j].completed
      <3> DEFINE q == [job[j] EXCEPT !.status = "PENDING", !.lockedAt = 0, !.availableAt = now]
      <3>1. /\ q \in Row /\ q.status = "PENDING" /\ q.lockedAt = 0
            /\ q.attempts = job[j].attempts /\ q.completed = job[j].completed
        BY <2>1, PutBackRow
      <3>2. Recovered[j] = q
        BY <2>2
      <3> HIDE DEF q
      <3> QED BY <3>1, <3>2
    <2> QED BY <1>1, <2>3 DEF Stale
  <1>2. ASSUME NEW j \in Job, ~Stale(j) PROVE Recovered[j] = job[j] /\ Recovered[j] \in Row
    BY <1>2 DEF Recovered, TypeOK
  <1>3. Recovered = [j \in Job |-> Recovered[j]]
    BY DEF Recovered
  <1>4. \A j \in Job : Recovered[j] \in Row
    BY <1>1, <1>2
  <1>5. Recovered \in [Job -> Row]
    BY <1>3, <1>4
  <1>6. \A j \in Job : /\ Recovered[j].attempts = job[j].attempts
                       /\ Recovered[j].completed = job[j].completed
    BY <1>1, <1>2
  <1> QED BY <1>1, <1>2, <1>5, <1>6

-----------------------------------------------------------------------------
(* An empty queue.                                                          *)
THEOREM InitInv == Init => IInv
  <1> SUFFICES ASSUME Init PROVE IInv
    OBVIOUS
  <1> USE QueueAssumption DEF Init
  <1>1. TypeOK
    BY DEF TypeOK, NoRow, Idle, Row, Hand, Status, Done
  <1>2. \A w \in Worker : worker[w].pc = "idle"
    BY DEF Idle
  <1>3. \A j \in Job : job[j].attempts = 0 /\ job[j].status = "NEW" /\ ~job[j].completed
    BY DEF NoRow
  <1>4. LeaseHeldByOne /\ Leased
    BY <1>2 DEF LeaseHeldByOne, Leased
  <1>5. AttemptLeft /\ AttemptsBounded
    BY <1>3 DEF AttemptLeft, AttemptsBounded
  <1>6. CompletedIffDone
    BY <1>3 DEF CompletedIffDone, Done
  <1> QED BY <1>1, <1>4, <1>5, <1>6 DEF IInv

(* A job is queued.                                                         *)
LEMMA EnqueueInv == ASSUME IInv, NEW j \in Job, Enqueue(j) PROVE IInv'
  <1> USE QueueAssumption DEF IInv
  <1> DEFINE row == [NoRow EXCEPT !.status = "PENDING", !.availableAt = now]
  <1>1. /\ row \in Row /\ row.status = "PENDING" /\ row.attempts = 0
        /\ row.lockedAt = 0 /\ ~row.completed
    BY DEF NoRow, Row, Status, Done, TypeOK
  <1>2. /\ job[j].status = "NEW" /\ job' = [job EXCEPT ![j] = row]
        /\ UNCHANGED <<now, worker, crashes>>
    BY DEF Enqueue
  <1> HIDE DEF row
  <1>3. /\ job'[j] = row /\ \A i \in Job : i # j => job'[i] = job[i]
        /\ job' \in [Job -> Row]
    BY <1>1, <1>2 DEF TypeOK
  <1>4. TypeOK'
    BY <1>1, <1>2, <1>3 DEF TypeOK
  <1>5. \A w \in Worker : worker[w].pc # "idle" => worker[w].job # j /\ worker[w].job \in Job
    BY <1>2 DEF LeaseHeldByOne, TypeOK
  <1>6. LeaseHeldByOne'
    BY <1>2, <1>3, <1>5 DEF LeaseHeldByOne, Holds
  <1>7. Leased'
    BY <1>2 DEF Leased
  <1>8. AttemptLeft' /\ AttemptsBounded'
    BY <1>1, <1>2, <1>3 DEF AttemptLeft, AttemptsBounded, Holds, TypeOK
  <1>9. CompletedIffDone'
    BY <1>1, <1>3 DEF CompletedIffDone, Done
  <1> QED BY <1>4, <1>6, <1>7, <1>8, <1>9

(* A worker recovers what is stale and locks the first ready row.           *)
LEMMA ClaimInv == ASSUME IInv, NEW w \in Worker, Claim(w) PROVE IInv'
  <1> USE QueueAssumption DEF IInv
  <1>1. PICK j \in Job : /\ Ready(Recovered, j)
                         /\ job' = [Recovered EXCEPT ![j] = Locked(@)]
                         /\ worker' = [worker EXCEPT ![w] =
                              [pc |-> "claimed", job |-> j, attempts |-> job'[j].attempts,
                               lockedAt |-> job'[j].lockedAt, result |-> "none"]]
    BY DEF Claim
  <1>2. worker[w].pc = "idle" /\ UNCHANGED <<now, crashes>>
    BY DEF Claim
  <1>3. \A i \in Job : /\ ~Stale(i) => Recovered[i] = job[i]
                       /\ Stale(i) => /\ job[i].status = "PROCESSING"
                                      /\ Recovered[i].status = "PENDING"
                                      /\ Recovered[i].lockedAt = 0
                       /\ Recovered[i].attempts = job[i].attempts
                       /\ Recovered[i].completed = job[i].completed
    BY RecoveredRows
  <1>4. Recovered \in [Job -> Row]
    BY RecoveredRows
  <1>5. /\ job' \in [Job -> Row]
        /\ job'[j].status = "PROCESSING"
        /\ job'[j].attempts = job[j].attempts + 1
        /\ job'[j].lockedAt = now
        /\ job'[j].completed = job[j].completed
        /\ \A i \in Job : i # j => job'[i] = Recovered[i]
    <2>1. now \in Nat
      BY DEF TypeOK
    <2>2. Recovered[j] \in Row
      BY <1>4
    <2>3. /\ Locked(Recovered[j]) \in Row
          /\ Locked(Recovered[j]).status = "PROCESSING"
          /\ Locked(Recovered[j]).attempts = Recovered[j].attempts + 1
          /\ Locked(Recovered[j]).lockedAt = now
          /\ Locked(Recovered[j]).completed = Recovered[j].completed
      BY <2>1, <2>2, LockedRow
    <2>4. job' \in [Job -> Row] /\ job'[j] = Locked(Recovered[j])
      BY <1>1, <1>4, <2>3
    <2>5. \A i \in Job : i # j => job'[i] = Recovered[i]
      BY <1>1, <1>4
    <2> QED BY <1>3, <2>3, <2>4, <2>5
  <1>6. \A v \in Worker : worker[v].pc # "idle" =>
          worker[v].job \in Job /\ ~Stale(worker[v].job) /\ job[worker[v].job].status = "PROCESSING"
    BY HeldIsFresh DEF TypeOK, LeaseHeldByOne
  <1>7. \A v \in Worker : worker[v].pc # "idle" => worker[v].job # j /\ v # w
    BY <1>1, <1>2, <1>3, <1>6 DEF Ready
  <1>8. /\ worker'[w].pc = "claimed" /\ worker'[w].job = j
        /\ worker'[w].attempts = job'[j].attempts /\ worker'[w].lockedAt = now
        /\ \A v \in Worker \ {w} : worker'[v] = worker[v]
        /\ worker' \in [Worker -> Hand]
    <2>1. worker \in [Worker -> Hand]
      BY DEF TypeOK
    <2>2. [pc |-> "claimed", job |-> j, attempts |-> job'[j].attempts,
           lockedAt |-> job'[j].lockedAt, result |-> "none"] \in Hand
      BY <1>5 DEF Row, Hand
    <2> QED BY <1>1, <1>5, <2>1, <2>2
  <1>9. TypeOK'
    <2>1. \A i \in Job : job'[i].lockedAt <= now
      BY <1>3, <1>5 DEF TypeOK
    <2> QED BY <1>2, <1>5, <1>7, <1>8, <2>1 DEF TypeOK
  <1>10. LeaseHeldByOne'
    <2>1. \A v \in Worker : worker[v].pc # "idle" => job'[worker[v].job] = job[worker[v].job]
      BY <1>3, <1>5, <1>6, <1>7
    <2>2. \A v \in Worker \ {w} : worker'[v].pc # "idle" => worker'[v].job # j
      BY <1>7, <1>8
    <2> QED BY <1>5, <1>8, <2>1, <2>2 DEF LeaseHeldByOne, Holds
  <1>11. Leased'
    <2>1. worker'[w].attempts > 0
      BY <1>5, <1>8 DEF TypeOK, Row
    <2>2. now <= worker'[w].lockedAt + StaleAfter
      BY <1>8 DEF TypeOK
    <2> QED BY <1>2, <1>8, <2>1, <2>2 DEF Leased
  <1>12. job[j].attempts < MaxAttempts + crashes
    <2>1. \A v \in Worker : ~Holds(v, j)
      BY <1>7 DEF Holds
    <2>2. job[j].status \notin Done
      BY <1>1, <1>3 DEF Ready, Done
    <2> QED BY <2>1, <2>2 DEF AttemptLeft
  <1>13. AttemptLeft'
    <2> SUFFICES ASSUME NEW i \in Job, job'[i].status \notin Done,
                        \A v \in Worker : ~Holds(v, i)'
                 PROVE  job'[i].attempts < MaxAttempts + crashes
      BY <1>2 DEF AttemptLeft
    <2>1. i # j
      BY <1>8 DEF Holds
    <2>2. \A v \in Worker : ~Holds(v, i)
      BY <1>2, <1>8 DEF Holds
    <2>3. job[i].status \notin Done
      BY <1>3, <1>5, <2>1 DEF Done
    <2> QED BY <1>3, <1>5, <2>1, <2>2, <2>3 DEF AttemptLeft
  <1>14. AttemptsBounded'
    <2>1. \A i \in Job : job[i].attempts \in Nat /\ crashes \in Nat
      BY DEF TypeOK, Row
    <2>2. job'[j].attempts <= MaxAttempts + crashes
      BY <1>5, <1>12, <2>1
    <2> QED BY <1>2, <1>3, <1>5, <2>2 DEF AttemptsBounded
  <1>15. CompletedIffDone'
    <2>1. job[j].status \notin Done
      BY <1>1, <1>3 DEF Ready, Done
    <2>2. \A i \in Job : i # j => (job'[i].completed <=> job'[i].status \in Done)
      BY <1>3, <1>5 DEF CompletedIffDone, Done
    <2> QED BY <1>5, <2>1, <2>2 DEF CompletedIffDone, Done
  <1> QED BY <1>9, <1>10, <1>11, <1>13, <1>14, <1>15

(* A worker synchronizes and has a result in its hand.                      *)
LEMMA SynchronizeInv ==
  ASSUME IInv, NEW w \in Worker, NEW r \in Result, Synchronize(w, r) PROVE IInv'
  <1> USE DEF IInv
  <1>1. /\ worker[w].pc = "claimed" /\ UNCHANGED <<now, job, crashes>>
        /\ worker' = [worker EXCEPT ![w].pc = "synced", ![w].result = r]
    BY DEF Synchronize
  <1>2. /\ worker' \in [Worker -> Hand]
        /\ \A v \in Worker : /\ worker'[v].pc # "idle" <=> worker[v].pc # "idle"
                             /\ worker'[v].job = worker[v].job
                             /\ worker'[v].attempts = worker[v].attempts
                             /\ worker'[v].lockedAt = worker[v].lockedAt
    BY <1>1 DEF TypeOK, Hand
  <1>3. \A v \in Worker, j \in Job : Holds(v, j)' <=> Holds(v, j)
    BY <1>2 DEF Holds
  <1>4. TypeOK'
    BY <1>1, <1>2 DEF TypeOK
  <1>5. LeaseHeldByOne'
    BY <1>1, <1>2, <1>3 DEF LeaseHeldByOne, TypeOK
  <1>6. Leased'
    BY <1>1, <1>2 DEF Leased
  <1>7. AttemptLeft'
    BY <1>1, <1>3 DEF AttemptLeft
  <1>8. AttemptsBounded' /\ CompletedIffDone'
    BY <1>1 DEF AttemptsBounded, CompletedIffDone
  <1> QED BY <1>4, <1>5, <1>6, <1>7, <1>8

(* What the blind write of a worker does to the row it claimed.             *)
LEMMA CompleteRow ==
  ASSUME IInv, NEW w \in Worker, Complete(w)
  PROVE  LET j == worker[w].job IN
         /\ j \in Job /\ worker[w].pc # "idle" /\ job[j].status = "PROCESSING"
         /\ job' \in [Job -> Row]
         /\ \A i \in Job : i # j => job'[i] = job[i]
         /\ job'[j].attempts = job[j].attempts /\ job'[j].lockedAt = 0
         /\ \/ job'[j].status \in Done /\ job'[j].completed
            \/ /\ job'[j].status = "PENDING" /\ job'[j].completed = job[j].completed
               /\ job[j].attempts < MaxAttempts
  <1> USE QueueAssumption DEF IInv
  <1> DEFINE h == worker[w]
             j == h.job
             new == CASE h.result = "ok"        -> Succeeded(job[j])
                      [] h.result = "permanent" -> Failed(job[j])
                      [] h.result = "temporary" -> Retried(job[j], h.attempts)
  <1>1. /\ h.pc = "synced" /\ job' = [job EXCEPT ![j] = new]
    BY DEF Complete
  <1>2. /\ j \in Job /\ job[j] \in Row /\ job[j].status = "PROCESSING"
        /\ h.attempts = job[j].attempts /\ h.attempts \in Nat /\ h.attempts > 0 /\ now \in Nat
    BY <1>1 DEF TypeOK, LeaseHeldByOne, Leased, Hand
  <1>3. h.result \in {"ok", "temporary", "permanent"}
    BY <1>1 DEF TypeOK, Result
  <1>4. /\ new \in Row /\ new.attempts = job[j].attempts /\ new.lockedAt = 0
        /\ \/ new.status \in Done /\ new.completed
           \/ /\ new.status = "PENDING" /\ new.completed = job[j].completed
              /\ job[j].attempts < MaxAttempts
    <2>1. CASE h.result = "ok"
      <3>1. new = Succeeded(job[j])
        BY <2>1
      <3> HIDE DEF new
      <3> QED BY <1>2, <3>1, FinishedRow DEF Done
    <2>2. CASE \/ h.result = "permanent"
               \/ h.result = "temporary" /\ h.attempts >= MaxAttempts
      <3>1. new = Failed(job[j])
        BY <2>2 DEF Retried
      <3> HIDE DEF new
      <3> QED BY <1>2, <3>1, FinishedRow DEF Done
    <2>3. CASE h.result = "temporary" /\ h.attempts < MaxAttempts
      <3>1. now + Delay(h.attempts) \in Nat
        BY <1>2, DelayType
      <3> DEFINE q == [job[j] EXCEPT !.status = "PENDING", !.lockedAt = 0,
                                     !.availableAt = now + Delay(h.attempts)]
      <3>2. /\ q \in Row /\ q.status = "PENDING" /\ q.lockedAt = 0
            /\ q.attempts = job[j].attempts /\ q.completed = job[j].completed
        BY <1>2, <3>1, PutBackRow
      <3>3. ~(h.attempts >= MaxAttempts)
        BY <1>2, <2>3
      <3>4. new = q
        BY <2>3, <3>3 DEF Retried
      <3> HIDE DEF new, q
      <3> QED BY <1>2, <2>3, <3>2, <3>4
    <2>4. \/ h.result = "ok"
          \/ h.result = "permanent"
          \/ h.result = "temporary" /\ h.attempts >= MaxAttempts
          \/ h.result = "temporary" /\ h.attempts < MaxAttempts
      BY <1>2, <1>3
    <2> HIDE DEF new
    <2> QED BY <2>1, <2>2, <2>3, <2>4
  <1> HIDE DEF new
  <1>5. job' \in [Job -> Row] /\ job'[j] = new /\ \A i \in Job : i # j => job'[i] = job[i]
    BY <1>1, <1>2, <1>4 DEF TypeOK
  <1> QED BY <1>1, <1>2, <1>4, <1>5

(* The unconditional write of the result, by primary key.                   *)
LEMMA CompleteInv == ASSUME IInv, NEW w \in Worker, Complete(w) PROVE IInv'
  <1> USE QueueAssumption DEF IInv
  <1> DEFINE j == worker[w].job
  <1>1. /\ j \in Job /\ worker[w].pc # "idle" /\ job[j].status = "PROCESSING"
        /\ job' \in [Job -> Row]
        /\ \A i \in Job : i # j => job'[i] = job[i]
        /\ job'[j].attempts = job[j].attempts /\ job'[j].lockedAt = 0
        /\ \/ job'[j].status \in Done /\ job'[j].completed
           \/ /\ job'[j].status = "PENDING" /\ job'[j].completed = job[j].completed
              /\ job[j].attempts < MaxAttempts
    BY CompleteRow
  <1>2. worker' = [worker EXCEPT ![w] = Idle] /\ UNCHANGED <<now, crashes>>
    BY DEF Complete
  <1>3. /\ worker' \in [Worker -> Hand] /\ worker'[w].pc = "idle"
        /\ \A v \in Worker \ {w} : worker'[v] = worker[v]
    BY <1>2 DEF TypeOK, Idle, Hand
  <1>4. \A v \in Worker \ {w} : worker[v].pc # "idle" => worker[v].job # j
    BY <1>1 DEF LeaseHeldByOne, Holds
  <1>5. TypeOK'
    <2>1. \A i \in Job : job'[i].lockedAt <= now
      BY <1>1 DEF TypeOK
    <2> QED BY <1>1, <1>2, <1>3, <2>1 DEF TypeOK
  <1>6. LeaseHeldByOne'
    <2>1. \A v \in Worker : worker'[v].pc # "idle" => /\ v # w /\ worker[v].pc # "idle"
                                                      /\ job'[worker[v].job] = job[worker[v].job]
      BY <1>1, <1>3, <1>4 DEF TypeOK
    <2> QED BY <1>3, <2>1 DEF LeaseHeldByOne, Holds
  <1>7. Leased'
    BY <1>2, <1>3 DEF Leased
  <1>8. AttemptLeft'
    <2> SUFFICES ASSUME NEW i \in Job, job'[i].status \notin Done,
                        \A v \in Worker : ~Holds(v, i)'
                 PROVE  job'[i].attempts < MaxAttempts + crashes
      BY <1>2 DEF AttemptLeft
    <2>1. CASE i = j
      BY <1>1, <2>1 DEF TypeOK, Row
    <2>2. CASE i # j
      <3>1. \A v \in Worker : ~Holds(v, i)
        BY <1>3, <2>2 DEF Holds
      <3> QED BY <1>1, <2>2, <3>1 DEF AttemptLeft
    <2> QED BY <2>1, <2>2
  <1>9. AttemptsBounded'
    BY <1>1, <1>2 DEF AttemptsBounded
  <1>10. CompletedIffDone'
    <2>1. ~job[j].completed
      BY <1>1 DEF CompletedIffDone, Done
    <2>2. job'[j].completed <=> job'[j].status \in Done
      BY <1>1, <2>1 DEF Done
    <2> QED BY <1>1, <2>2 DEF CompletedIffDone
  <1> QED BY <1>5, <1>6, <1>7, <1>8, <1>9, <1>10

(* A worker dies; its row stays locked.                                     *)
LEMMA CrashInv == ASSUME IInv, NEW w \in Worker, Crash(w) PROVE IInv'
  <1> USE QueueAssumption DEF IInv
  <1>1. /\ worker[w].pc # "idle" /\ worker' = [worker EXCEPT ![w] = Idle]
        /\ crashes' = crashes + 1 /\ UNCHANGED <<now, job>>
    BY DEF Crash
  <1>2. /\ worker' \in [Worker -> Hand] /\ worker'[w].pc = "idle"
        /\ \A v \in Worker \ {w} : worker'[v] = worker[v]
    BY <1>1 DEF TypeOK, Idle, Hand
  <1>3. TypeOK'
    BY <1>1, <1>2 DEF TypeOK
  <1>4. LeaseHeldByOne'
    BY <1>1, <1>2 DEF LeaseHeldByOne, Holds
  <1>5. Leased'
    BY <1>1, <1>2 DEF Leased
  <1>6. \A i \in Job : job[i].attempts < MaxAttempts + crashes'
    BY <1>1 DEF AttemptsBounded, TypeOK, Row
  <1>7. AttemptLeft' /\ AttemptsBounded'
    BY <1>1, <1>6 DEF AttemptLeft, AttemptsBounded, TypeOK, Row
  <1>8. CompletedIffDone'
    BY <1>1 DEF CompletedIffDone
  <1> QED BY <1>3, <1>4, <1>5, <1>7, <1>8

(* The clock advances no further than prompt workers let it.                *)
LEMMA PromptTickInv == ASSUME IInv, PromptTick PROVE IInv'
  <1> USE QueueAssumption DEF IInv
  <1>1. /\ now' = now + 1 /\ UNCHANGED <<job, worker, crashes>>
        /\ \A w \in Worker : worker[w].pc # "idle" => now < worker[w].lockedAt + StaleAfter
    BY DEF PromptTick, Tick
  <1>2. TypeOK'
    BY <1>1 DEF TypeOK, Row
  <1>3. LeaseHeldByOne'
    BY <1>1 DEF LeaseHeldByOne, Holds
  <1>4. Leased'
    BY <1>1 DEF Leased, TypeOK, Hand
  <1>5. AttemptLeft' /\ AttemptsBounded' /\ CompletedIffDone'
    BY <1>1 DEF AttemptLeft, AttemptsBounded, CompletedIffDone, Holds
  <1> QED BY <1>2, <1>3, <1>4, <1>5

-----------------------------------------------------------------------------
(* Every state of a prompt system satisfies the inductive invariant.        *)
THEOREM Invariance == PromptSpec => []IInv
  <1>1. ASSUME IInv, [PromptNext]_vars PROVE IInv'
    <2>1. CASE UNCHANGED vars
      BY <1>1, <2>1 DEF vars, IInv, TypeOK, LeaseHeldByOne, Leased, AttemptLeft,
                        AttemptsBounded, CompletedIffDone, Holds
    <2>2. ASSUME NEW j \in Job, Enqueue(j) PROVE IInv'
      BY <1>1, <2>2, EnqueueInv
    <2>3. ASSUME NEW w \in Worker, Claim(w) PROVE IInv'
      BY <1>1, <2>3, ClaimInv
    <2>4. ASSUME NEW w \in Worker, NEW r \in Result, Synchronize(w, r) PROVE IInv'
      BY <1>1, <2>4, SynchronizeInv
    <2>5. ASSUME NEW w \in Worker, Complete(w) PROVE IInv'
      BY <1>1, <2>5, CompleteInv
    <2>6. ASSUME NEW w \in Worker, Crash(w) PROVE IInv'
      BY <1>1, <2>6, CrashInv
    <2>7. CASE PromptTick
      BY <1>1, <2>7, PromptTickInv
    <2> QED BY <1>1, <2>1, <2>2, <2>3, <2>4, <2>5, <2>6, <2>7 DEF PromptNext, Step, Work
  <1> QED BY <1>1, InitInv, PTL DEF PromptSpec

(* The rows and the workers' memory are well formed.                        *)
THEOREM TypeCorrect == PromptSpec => []TypeOK
  BY Invariance, PTL DEF IInv

(* A worker overwrites nothing but the row it claimed.                      *)
THEOREM LeaseIsExclusive == PromptSpec => []LeaseHeldByOne
  BY Invariance, PTL DEF IInv

(* The attempts of a job are bounded by max_attempts and the crashes.       *)
THEOREM AttemptsAreBounded == PromptSpec => []AttemptsBounded
  BY Invariance, PTL DEF IInv

(* completed_at marks exactly the finished jobs.                            *)
THEOREM CompletionIsMarked == PromptSpec => []CompletedIffDone
  BY Invariance, PTL DEF IInv

(* A finished job stays as it is.                                           *)
THEOREM FinishedIsFinal == PromptSpec => DoneStaysDone
  <1> DEFINE Kept == \A j \in Job : job[j].status \in Done => job'[j] = job[j]
  <1>1. ASSUME IInv, [PromptNext]_vars PROVE [Kept]_vars
    <2> USE <1>1 DEF IInv
    <2>1. CASE UNCHANGED vars
      BY <2>1
    <2>2. ASSUME NEW i \in Job, Enqueue(i) PROVE Kept
      BY <2>2 DEF Enqueue, TypeOK, Done
    <2>3. ASSUME NEW w \in Worker, Claim(w) PROVE Kept
      <3>1. PICK i \in Job : Ready(Recovered, i) /\ job' = [Recovered EXCEPT ![i] = Locked(@)]
        BY <2>3 DEF Claim
      <3>2. \A j \in Job : job[j].status \in Done => ~Stale(j) /\ Recovered[j] = job[j]
        BY RecoveredRows DEF Stale, Done
      <3>3. job[i].status \notin Done
        BY <3>1, <3>2 DEF Ready, Done
      <3>4. \A j \in Job : j # i => job'[j] = Recovered[j]
        BY <3>1, RecoveredRows
      <3> QED BY <3>2, <3>3, <3>4
    <2>4. ASSUME NEW w \in Worker, NEW r \in Result, Synchronize(w, r) PROVE Kept
      BY <2>4 DEF Synchronize
    <2>5. ASSUME NEW w \in Worker, Complete(w) PROVE Kept
      BY <2>5, CompleteRow DEF Done
    <2>6. ASSUME NEW w \in Worker, Crash(w) PROVE Kept
      BY <2>6 DEF Crash
    <2>7. CASE PromptTick
      BY <2>7 DEF PromptTick, Tick
    <2> HIDE DEF Kept
    <2> QED BY <2>1, <2>2, <2>3, <2>4, <2>5, <2>6, <2>7 DEF PromptNext, Step, Work
  <1> QED BY <1>1, Invariance, PTL DEF PromptSpec, DoneStaysDone

-----------------------------------------------------------------------------
(* Refinement: the owner of a job is whoever holds it, now and in the next  *)
(* state.                                                                  *)
LEMMA OwnerIsHolder ==
  ASSUME NEW w \in Worker, NEW j, Holds(w, j), \A v \in Worker \ {w} : ~Holds(v, j)
  PROVE  Owner(j) = w
  BY DEF Owner

(* Who alone holds a job after a step is its owner then.                    *)
LEMMA OwnerIsHolderNext ==
  ASSUME NEW w \in Worker, NEW j, Holds(w, j)', \A v \in Worker \ {w} : ~Holds(v, j)'
  PROVE  Owner(j)' = w
  BY DEF Owner

(* What nobody holds has no owner.                                          *)
LEMMA OwnerOfUnheld ==
  ASSUME NEW j
  PROVE  /\ (\A v \in Worker : ~Holds(v, j)) => Owner(j) = NoOwner
         /\ (\A v \in Worker : ~Holds(v, j)') => Owner(j)' = NoOwner
         /\ \A w \in Worker : ~Holds(w, j) => Owner(j) # w
  BY QueueAssumption DEF Owner

(* A job nobody else takes or leaves keeps its owner.                       *)
LEMMA OwnerKept ==
  ASSUME NEW j, \A v \in Worker : Holds(v, j)' <=> Holds(v, j)
  PROVE  Owner(j)' = Owner(j)
  BY DEF Owner

(* A claim is a step Acquire of the lease.                                  *)
LEMMA ClaimAcquires ==
  ASSUME IInv, IInv', NEW w \in Worker, Claim(w) PROVE \E j \in Job : Lease!Acquire(w, j)
  <1> USE DEF IInv
  <1>1. PICK j \in Job : /\ Ready(Recovered, j)
                         /\ job' = [Recovered EXCEPT ![j] = Locked(@)]
                         /\ worker' = [worker EXCEPT ![w] =
                              [pc |-> "claimed", job |-> j, attempts |-> job'[j].attempts,
                               lockedAt |-> job'[j].lockedAt, result |-> "none"]]
    BY DEF Claim
  <1>2. worker[w].pc = "idle"
    BY DEF Claim
  <1>3. /\ worker'[w].pc = "claimed" /\ worker'[w].job = j
        /\ \A v \in Worker \ {w} : worker'[v] = worker[v]
    BY <1>1 DEF TypeOK
  <1> DEFINE R == {i \in Job : Stale(i)}
  <1>4. \A i \in R : job[i].status = "PROCESSING" /\ \A v \in Worker : ~Holds(v, i)
    BY HeldIsFresh DEF Stale, Holds
  <1>5. R \in SUBSET Lease!Orphans
    <2>1. \A i \in R : job[i].status = "PROCESSING" /\ Owner(i) = NoOwner
      BY <1>4, OwnerOfUnheld
    <2> QED BY <2>1 DEF Lease!Orphans
  <1>6. \A i \in Job : Owner(i) # w
    BY <1>2, OwnerOfUnheld DEF Holds
  <1>7. job[j].status = "PENDING" \/ j \in R
    BY <1>1, RecoveredRows DEF Ready
  <1>8. /\ job'[j].status = "PROCESSING"
        /\ \A i \in Job : i # j => job'[i].status = IF i \in R THEN "PENDING" ELSE job[i].status
    <2>1. now \in Nat /\ Recovered \in [Job -> Row]
      BY RecoveredRows DEF TypeOK
    <2>2. job'[j] = Locked(Recovered[j]) /\ \A i \in Job : i # j => job'[i] = Recovered[i]
      BY <1>1, <2>1
    <2>3. job'[j].status = "PROCESSING"
      BY <2>1, <2>2, LockedRow
    <2> QED BY <2>2, <2>3, RecoveredRows
  <1>9. Owner(j)' = w
    <2>1. Holds(w, j)' /\ \A v \in Worker \ {w} : ~Holds(v, j)'
      BY <1>3 DEF LeaseHeldByOne, Holds
    <2> QED BY <2>1, OwnerIsHolderNext
  <1>10. \A i \in Job : i # j => Owner(i)' = Owner(i)
    <2> SUFFICES ASSUME NEW i \in Job, i # j PROVE Owner(i)' = Owner(i)
      OBVIOUS
    <2>1. \A v \in Worker : Holds(v, i)' <=> Holds(v, i)
      BY <1>2, <1>3 DEF Holds
    <2> QED BY <2>1, OwnerKept
  <1> HIDE DEF R
  <1> QED BY <1>5, <1>6, <1>7, <1>8, <1>9, <1>10 DEF Lease!Acquire

(* A worker that records its result, or dies, gives its job up.             *)
LEMMA OwnersAfterRelease ==
  ASSUME IInv, NEW w \in Worker, worker[w].pc # "idle", worker' = [worker EXCEPT ![w] = Idle],
         NEW j \in Job, worker[w].job = j
  PROVE  /\ Owner(j) # NoOwner /\ Owner(j)' = NoOwner
         /\ \A i \in Job : i # j => Owner(i)' = Owner(i)
  <1> USE DEF IInv
  <1>1. /\ Holds(w, j) /\ \A v \in Worker \ {w} : ~Holds(v, j)
    BY DEF LeaseHeldByOne, Holds
  <1>2. /\ worker'[w].pc = "idle" /\ \A v \in Worker \ {w} : worker'[v] = worker[v]
    BY DEF TypeOK, Idle
  <1>3. Owner(j) # NoOwner
    BY <1>1, OwnerIsHolder, QueueAssumption
  <1>4. Owner(j)' = NoOwner
    <2>1. \A v \in Worker : ~Holds(v, j)'
      BY <1>1, <1>2 DEF Holds
    <2> QED BY <2>1, OwnerOfUnheld
  <1>5. ASSUME NEW i \in Job, i # j PROVE Owner(i)' = Owner(i)
    <2>1. \A v \in Worker : Holds(v, i)' <=> Holds(v, i)
      BY <1>2, <1>5 DEF Holds
    <2> QED BY <2>1, OwnerKept
  <1> QED BY <1>3, <1>4, <1>5

(* The queue implements JobLease.                                           *)
THEOREM Refinement == PromptSpec => LeaseContract
  <1>1. Init => Lease!Init
    <2> SUFFICES ASSUME Init PROVE Lease!Init
      OBVIOUS
    <2>1. \A j \in Job : job[j].status = "NEW" /\ \A w \in Worker : ~Holds(w, j)
      BY DEF Init, NoRow, Idle, Holds
    <2>2. \A j \in Job : Owner(j) = NoOwner
      BY <2>1, OwnerOfUnheld
    <2> QED BY <2>1, <2>2 DEF Lease!Init
  <1>2. ASSUME IInv, IInv', [PromptNext]_vars PROVE [Lease!Next]_(Lease!vars)
    <2> USE <1>2
    <2>1. CASE UNCHANGED vars
      BY <2>1, OwnerKept DEF vars, Lease!vars, Holds
    <2>2. ASSUME NEW j \in Job, Enqueue(j) PROVE Lease!Next
      <3>1. /\ job[j].status = "NEW" /\ job'[j].status = "PENDING"
            /\ \A i \in Job : i # j => job'[i] = job[i]
        BY <2>2 DEF Enqueue, IInv, TypeOK, NoRow
      <3>2. \A i \in Job : Owner(i)' = Owner(i)
        BY <2>2, OwnerKept DEF Enqueue, Holds
      <3>3. Lease!Submit(j)
        BY <3>1, <3>2 DEF Lease!Submit
      <3> QED BY <3>3 DEF Lease!Next
    <2>3. ASSUME NEW w \in Worker, Claim(w) PROVE Lease!Next
      BY <2>3, ClaimAcquires DEF Lease!Next
    <2>4. ASSUME NEW w \in Worker, NEW r \in Result, Synchronize(w, r) PROVE UNCHANGED Lease!vars
      <3>1. \A v \in Worker, i \in Job : Holds(v, i)' <=> Holds(v, i)
        BY <2>4 DEF Synchronize, Holds, IInv, TypeOK
      <3>2. \A i \in Job : Owner(i)' = Owner(i)
        BY <3>1, OwnerKept
      <3> QED BY <2>4, <3>2 DEF Synchronize, Lease!vars
    <2>5. ASSUME NEW w \in Worker, Complete(w) PROVE Lease!Next
      <3>1. PICK j \in Job : worker[w].job = j
        BY <2>5, CompleteRow
      <3>2. /\ Owner(j) # NoOwner /\ Owner(j)' = NoOwner
            /\ \A i \in Job : i # j => Owner(i)' = Owner(i)
        BY <2>5, <3>1, OwnersAfterRelease DEF Complete
      <3>3. /\ job'[j].status \in Done \cup {"PENDING"}
            /\ \A i \in Job : i # j => job'[i] = job[i]
        BY <2>5, <3>1, CompleteRow
      <3>4. Lease!Settle(j)
        BY <3>2, <3>3 DEF Lease!Settle, Lease!Done, Done
      <3> QED BY <3>4 DEF Lease!Next
    <2>6. ASSUME NEW w \in Worker, Crash(w) PROVE Lease!Next
      <3>1. PICK j \in Job : worker[w].job = j
        BY <2>6 DEF Crash, IInv, TypeOK
      <3>2. /\ Owner(j) # NoOwner /\ Owner(j)' = NoOwner
            /\ \A i \in Job : i # j => Owner(i)' = Owner(i)
        BY <2>6, <3>1, OwnersAfterRelease DEF Crash
      <3>3. Lease!Abandon(j)
        BY <2>6, <3>2 DEF Crash, Lease!Abandon
      <3> QED BY <3>3 DEF Lease!Next
    <2>7. CASE PromptTick
      BY <2>7, OwnerKept DEF PromptTick, Tick, Lease!vars, Holds
    <2> QED BY <2>1, <2>2, <2>3, <2>4, <2>5, <2>6, <2>7 DEF PromptNext, Step, Work
  <1> QED BY <1>1, <1>2, Invariance, PTL DEF PromptSpec, LeaseContract, Lease!Spec

-----------------------------------------------------------------------------
(* The process around the queue: whatever it is asked for, it takes its jobs*)
(* in batches.                                                              *)
(* Whatever size is asked for, a batch has a size.                          *)
LEMMA BatchIsCount == ASSUME Process!WorkerAssumption PROVE Process!Batch \in Nat
  BY DEF Process!WorkerAssumption, Process!Batch

(* The invariant of a process, when it starts.                              *)
LEMMA ProcessInit == ASSUME Process!WorkerAssumption, Process!Init PROVE Process!IInv
  <1>1. Process!TypeOK
    <2>1. 0 \in 0 .. Process!Batch /\ 0 \in 0 .. MaxFaults
      BY BatchIsCount DEF Process!WorkerAssumption
    <2>2. watching \in BOOLEAN /\ stop \in BOOLEAN
      BY DEF Process!Init
    <2> QED BY <2>1, <2>2 DEF Process!Init, Process!TypeOK
  <1>2. Process!NoResultForgotten
    BY DEF Process!Init, Process!NoResultForgotten
  <1> QED BY <1>1, <1>2, BatchIsCount DEF Process!Init, Process!IInv, Process!LateInThisBatch

(* Jobs come and become ready while nobody has them in hand.                *)
LEMMA QueueKeeps ==
  ASSUME Process!WorkerAssumption, Process!IInv, NEW j \in Queued,
         Process!Enqueue(j) \/ Process!BecomeReady(j)
  PROVE  Process!IInv'
  <1>1. j # hand
    BY DEF Process!Enqueue, Process!BecomeReady, Process!IInv, Process!TypeOK,
           Process!WorkerAssumption
  <1>2. /\ status' = [status EXCEPT ![j] = "PENDING"] /\ ready' = ready \cup {j}
        /\ UNCHANGED <<watching, pc, left, hand, results, reported, dropped, stop, late, faults>>
    BY DEF Process!Enqueue, Process!BecomeReady, Process!loop
  <1>3. Process!TypeOK'
    BY <1>1, <1>2 DEF Process!IInv, Process!TypeOK
  <1>4. Process!NoResultForgotten'
    BY <1>2 DEF Process!IInv, Process!TypeOK, Process!NoResultForgotten
  <1>5. Process!LateInThisBatch'
    BY <1>2 DEF Process!IInv, Process!LateInThisBatch
  <1> QED BY <1>3, <1>4, <1>5 DEF Process!IInv

(* A batch is at most Batch jobs, also the one a stop falls into.           *)
LEMMA TakeKeeps ==
  ASSUME Process!WorkerAssumption, Process!IInv, NEW j \in Queued, Process!Take(j)
  PROVE  Process!IInv'
  <1>1. status[j] = "PENDING" /\ left \in 1 .. Process!Batch /\ pc = "batch"
    BY BatchIsCount DEF Process!Take, Process!Claimable, Process!IInv, Process!TypeOK
  <1>2. Process!TypeOK'
    BY <1>1, BatchIsCount DEF Process!Take, Process!IInv, Process!TypeOK
  <1>3. Process!NoResultForgotten'
    BY <1>1 DEF Process!Take, Process!IInv, Process!TypeOK, Process!NoResultForgotten
  <1>4. Process!LateInThisBatch'
    BY <1>1, BatchIsCount DEF Process!Take, Process!IInv, Process!TypeOK, Process!LateInThisBatch
  <1> QED BY <1>2, <1>3, <1>4 DEF Process!IInv

(* The end of the job in hand: its result joins those of the batch.         *)
LEMMA RecordKeeps ==
  ASSUME Process!WorkerAssumption, Process!IInv, Process!Record
  PROVE  Process!IInv'
  <1>1. hand \in Queued /\ pc = "batch" /\ status[hand] = "PROCESSING"
    BY DEF Process!Record, Process!IInv, Process!TypeOK
  <1>2. Process!TypeOK'
    BY <1>1 DEF Process!Record, Process!IInv, Process!TypeOK, Process!WorkerAssumption
  <1>3. Process!NoResultForgotten'
    BY <1>1 DEF Process!Record, Process!IInv, Process!TypeOK, Process!NoResultForgotten
  <1>4. Process!LateInThisBatch'
    BY DEF Process!Record, Process!IInv, Process!LateInThisBatch
  <1> QED BY <1>2, <1>3, <1>4 DEF Process!IInv

(* The rest of the loop takes no job and ends none.                         *)
LEMMA LoopKeeps ==
  ASSUME Process!WorkerAssumption, Process!IInv,
         Process!RequestShutdown \/ Process!StartBatch \/ Process!Stop \/ Process!EndBatch
           \/ Process!BatchFails \/ Process!Report \/ Process!Wait
  PROVE  Process!IInv'
  <1> USE BatchIsCount DEF Process!RequestShutdown, Process!StartBatch, Process!Stop,
                           Process!EndBatch, Process!BatchFails, Process!Report, Process!Wait
  <1>1. Process!TypeOK'
    <2>1. CASE Process!RequestShutdown
      BY <2>1 DEF Process!IInv, Process!TypeOK, Process!loop
    <2>2. CASE Process!BatchFails
      <3>1. pc' \in {"report", "stopped"} /\ faults' \in 0 .. MaxFaults
        BY <2>2 DEF Process!IInv, Process!TypeOK, Process!WorkerAssumption
      <3> QED BY <2>2, <3>1 DEF Process!IInv, Process!TypeOK
    <2>3. CASE Process!StartBatch \/ Process!Stop \/ Process!EndBatch \/ Process!Wait
      BY <2>3 DEF Process!IInv, Process!TypeOK
    <2>4. CASE Process!Report
      <3>1. pc' \in {"stopped", "wait", "loop"}
        BY <2>4
      <3> QED BY <2>4, <3>1 DEF Process!IInv, Process!TypeOK
    <2> QED BY <2>1, <2>2, <2>3, <2>4
  <1>2. Process!NoResultForgotten'
    BY DEF Process!IInv, Process!TypeOK, Process!NoResultForgotten, Process!loop
  <1>3. Process!LateInThisBatch'
    BY DEF Process!IInv, Process!TypeOK, Process!LateInThisBatch, Process!loop
  <1> QED BY <1>1, <1>2, <1>3 DEF Process!IInv

(* Every step of a process, and of the queue it works on, keeps it.         *)
LEMMA ProcessNext == ASSUME Process!WorkerAssumption, Process!IInv, [Process!Next]_(Process!vars)
                     PROVE  Process!IInv'
  <1>1. CASE UNCHANGED Process!vars
    BY <1>1 DEF Process!vars, Process!loop, Process!IInv, Process!TypeOK, Process!LateInThisBatch,
                Process!NoResultForgotten
  <1> QED BY <1>1, QueueKeeps, TakeKeeps, RecordKeeps, LoopKeeps DEF Process!Next, Process!Work

(* Whatever size is asked for and whatever fails: a process that is asked   *)
(* to stop takes at most the rest of one batch, and the result of an ended  *)
(* job is written out, is about to be, or went with a batch that failed.    *)
THEOREM BatchesAreBounded == ASSUME Process!WorkerAssumption
                             PROVE  Process!Spec => []Process!NoResultIsLost
  <1>1. Process!Spec => []Process!IInv
    BY ProcessInit, ProcessNext, PTL DEF Process!Spec
  <1>2. Process!IInv => Process!NoResultIsLost
    BY BatchIsCount DEF Process!IInv, Process!TypeOK, Process!LateInThisBatch,
                        Process!StopsAfterItsBatch, Process!NoResultIsLost
  <1> QED BY <1>1, <1>2, PTL

-----------------------------------------------------------------------------
(* The frozen Mailchimp queue: the other provider's rows in the table of    *)
(* the jobs, for any People, addresses, workers and crashes.                *)
(* A worker inside its transaction holds the lock of the Person.            *)
Inside(d) == d.step \in {"sync", "write", "attach"}

(* What a worker has in hand, step by step.                                 *)
LEMMA Hands ==
  ASSUME NEW d \in Mail!Doing
  PROVE  /\ d.step \in {"idle", "claimed", "sync", "write", "attach", "report"}
         /\ d.step = "idle" <=> d = Mail!Idle
         /\ d # Mail!Idle => d.person \in Person /\ d.attempt \in 0 .. MaxClaims
         /\ Inside(d) => d.seen \in {"OPTED_IN", "OPTED_OUT"}
         /\ d.step \in {"write", "attach"} => d.found \in Mail!MemberStatus
  BY DEF Mail!Doing, Mail!Idle, Inside

(* The result of a synchronization.                                         *)
Ended(w, r) == [step |-> "report", person |-> mailWorker[w].person, attempt |-> mailWorker[w].attempt,
                result |-> r]

(* A synchronization ends with what it had in hand, and a result.           *)
LEMMA Results ==
  ASSUME Mail!TypeOK, NEW w \in Worker, Inside(mailWorker[w]), NEW r \in {"done", "retry", "failed"}
  PROVE  /\ Ended(w, r) \in Mail!Doing /\ Ended(w, r).step = "report"
         /\ Ended(w, r).person = mailWorker[w].person
         /\ Mail!End(w, r) <=> mailWorker' = [mailWorker EXCEPT ![w] = Ended(w, r)]
  <1>1. mailWorker[w] \in Mail!Doing
    BY DEF Mail!TypeOK
  <1>2. mailWorker[w].person \in Person /\ mailWorker[w].attempt \in 0 .. MaxClaims
    BY <1>1, Hands DEF Inside, Mail!Idle
  <1>3. Ended(w, r) \in Mail!Doing
    BY <1>2 DEF Ended, Mail!Doing
  <1>4. Mail!End(w, r) <=> mailWorker' = [mailWorker EXCEPT ![w] = Ended(w, r)]
    BY DEF Mail!End, Ended
  <1> QED BY <1>3, <1>4 DEF Ended

(* Who ends otherwise does not end well.                                    *)
LEMMA OneResult ==
  ASSUME Mail!TypeOK, NEW w \in Worker, Inside(mailWorker[w]), NEW r \in {"retry", "failed"},
         Mail!Ends(w)
  PROVE  ~Mail!End(w, r)
  <1>1. SUFFICES ASSUME Mail!End(w, r) PROVE FALSE
    OBVIOUS
  <1>2. mailWorker' = [mailWorker EXCEPT ![w] = Ended(w, r)]
    BY <1>1, Results
  <1>3. mailWorker'[w] = Ended(w, r)
    BY <1>2 DEF Mail!TypeOK
  <1>4. mailWorker'[w].result = r
    BY <1>3 DEF Ended
  <1> QED BY <1>4 DEF Mail!Ends

(* The next step of a synchronization: the same Person, the same preference.*)
LEMMA Goes ==
  ASSUME Mail!TypeOK, NEW w \in Worker, mailWorker[w].step = "write"
  PROVE  \E d \in Mail!Doing : /\ d.step = "attach" /\ d.person = mailWorker[w].person /\ d.seen = mailWorker[w].seen
                               /\ Mail!Do(w, "attach") <=> mailWorker' = [mailWorker EXCEPT ![w] = d]
  <1> DEFINE d == [mailWorker[w] EXCEPT !.step = "attach"]
  <1>1. mailWorker[w] \in [step : {"write", "attach"}, person : Person, attempt : 0 .. MaxClaims,
                       seen : {"OPTED_IN", "OPTED_OUT"}, found : Mail!MemberStatus]
    BY DEF Mail!TypeOK, Mail!Doing, Mail!Idle
  <1>2. d \in [step : {"write", "attach"}, person : Person, attempt : 0 .. MaxClaims,
               seen : {"OPTED_IN", "OPTED_OUT"}, found : Mail!MemberStatus]
    BY <1>1
  <1>3. d.step = "attach" /\ d.person = mailWorker[w].person /\ d.seen = mailWorker[w].seen
    BY <1>1
  <1>4. Mail!Do(w, "attach") <=> mailWorker' = [mailWorker EXCEPT ![w] = d]
    BY DEF Mail!Do
  <1> QED BY <1>2, <1>3, <1>4 DEF Mail!Doing

-----------------------------------------------------------------------------
(* The invariant, when the jobs that were left are first looked at.         *)
LEMMA MailInit == ASSUME Mail!MailchimpAssumption, Mail!Init PROVE Mail!IInv
  <1>1. \A w \in Worker : mailWorker[w] = Mail!Idle /\ mailWorker[w].step = "idle"
    BY DEF Mail!Init, Mail!Idle
  <1>2. Mail!TypeOK
    <2>1. Mail!Idle \in Mail!Doing /\ 0 \in 0 .. MaxClaims /\ 0 \in 0 .. MaxChanges
            /\ 0 \in 0 .. MailCrashes
      BY DEF Mail!Doing, Mail!MailchimpAssumption
    <2>2. [status |-> "PENDING", attempts |-> 0, stale |-> FALSE]
            \in [status : Mail!JobStatus, attempts : 0 .. MaxClaims, stale : BOOLEAN]
      BY <2>1 DEF Mail!JobStatus
    <2> QED BY <2>1, <2>2 DEF Mail!Init, Mail!TypeOK
  <1>3. Mail!OwnContactsOnly
    BY DEF Mail!Init, Mail!OwnContactsOnly
  <1> QED BY <1>1, <1>2, <1>3 DEF Mail!IInv, Mail!OneSyncPerPerson, Mail!SyncedAreEligible,
                                  Mail!OptOutsAreMade

(* A worker's step: it goes on with its Person, or gets one nobody holds.   *)
LEMMA TurnKept ==
  ASSUME Mail!IInv, NEW w \in Worker, NEW d \in Mail!Doing, mailWorker' = [mailWorker EXCEPT ![w] = d],
         UNCHANGED Mail!crm,
         Inside(d) => \/ Inside(mailWorker[w]) /\ d.person = mailWorker[w].person
                      \/ ~Mail!Locked(d.person) /\ eligible[d.person]
  PROVE  Mail!OneSyncPerPerson' /\ Mail!SyncedAreEligible'
  <1>1. mailWorker'[w] = d /\ \A v \in Worker \ {w} : mailWorker'[v] = mailWorker[v]
    BY DEF Mail!IInv, Mail!TypeOK
  <1>2. ASSUME NEW u \in Worker, NEW v \in Worker, u # v, Inside(mailWorker'[u]), Inside(mailWorker'[v])
        PROVE  mailWorker'[u].person # mailWorker'[v].person
    <2>1. ASSUME NEW o \in Worker \ {w}, Inside(mailWorker[o]), Inside(d)
          PROVE  mailWorker[o].person # d.person
      BY <2>1 DEF Mail!IInv, Mail!OneSyncPerPerson, Mail!Locked, Inside
    <2> QED BY <1>1, <1>2, <2>1 DEF Mail!IInv, Mail!OneSyncPerPerson, Inside
  <1>3. Mail!OneSyncPerPerson'
    BY <1>2 DEF Mail!OneSyncPerPerson, Inside
  <1>4. Mail!SyncedAreEligible'
    BY <1>1 DEF Mail!IInv, Mail!SyncedAreEligible, Inside, Mail!crm
  <1> QED BY <1>3, <1>4

(* A step of a worker that changes neither contacts nor references.         *)
LEMMA QuietTurn ==
  ASSUME Mail!MailchimpAssumption, Mail!IInv, NEW w \in Worker, NEW d \in Mail!Doing,
         mailWorker' = [mailWorker EXCEPT ![w] = d],
         UNCHANGED <<Mail!crm, reference, member>>,
         Inside(d) => \/ Inside(mailWorker[w]) /\ d.person = mailWorker[w].person
                      \/ ~Mail!Locked(d.person) /\ eligible[d.person],
         d.step = "attach" /\ d.seen = "OPTED_OUT" => member[email[d.person]] # "subscribed",
         mailJob' \in [Person -> [status : Mail!JobStatus, attempts : 0 .. MaxClaims, stale : BOOLEAN]],
         changes' \in 0 .. MaxChanges, mailCrashes' \in 0 .. MailCrashes
  PROVE  Mail!IInv'
  <1>1. Mail!TypeOK'
    BY DEF Mail!IInv, Mail!TypeOK, Mail!crm
  <1>2. Mail!OneSyncPerPerson' /\ Mail!SyncedAreEligible'
    BY TurnKept
  <1>3. Mail!OwnContactsOnly'
    BY DEF Mail!IInv, Mail!OwnContactsOnly, Mail!crm
  <1>4. Mail!OptOutsAreMade'
    <2>1. mailWorker'[w] = d /\ \A v \in Worker \ {w} : mailWorker'[v] = mailWorker[v]
      BY DEF Mail!IInv, Mail!TypeOK
    <2> QED BY <2>1 DEF Mail!IInv, Mail!OptOutsAreMade, Mail!Alone, Mail!crm
  <1> QED BY <1>1, <1>2, <1>3, <1>4 DEF Mail!IInv

(* Claims and the end of a run: no transaction is open.                     *)
LEMMA ClaimKeeps ==
  ASSUME Mail!MailchimpAssumption, Mail!IInv, NEW w \in Worker, NEW p \in Person,
         Mail!Claim(w, p) \/ Mail!RunCommand(w, p)
  PROVE  Mail!IInv'
  <1> DEFINE d == mailWorker'[w]
  <1>1. PICK q \in 0 .. MaxClaims : mailWorker' = [mailWorker EXCEPT ![w] = [step |-> "claimed", person |-> p, attempt |-> q]]
    <2>1. CASE Mail!Claim(w, p)
      <3>1. mailJob[p].attempts + 1 \in 0 .. MaxClaims
        BY <2>1 DEF Mail!Claim, Mail!IInv, Mail!TypeOK, Mail!MailchimpAssumption
      <3> QED BY <2>1, <3>1 DEF Mail!Claim
    <2>2. CASE Mail!RunCommand(w, p)
      <3>1. 0 \in 0 .. MaxClaims
        BY DEF Mail!MailchimpAssumption
      <3> QED BY <2>2, <3>1 DEF Mail!RunCommand
    <2> QED BY <2>1, <2>2
  <1> DEFINE h == [step |-> "claimed", person |-> p, attempt |-> q]
  <1>2. h \in Mail!Doing /\ h.step = "claimed"
    BY DEF Mail!Doing
  <1>3. Mail!Recovered \in [Person -> [status : Mail!JobStatus, attempts : 0 .. MaxClaims, stale : BOOLEAN]]
        /\ Mail!Recovered[p].attempts = mailJob[p].attempts
    <2>1. ASSUME NEW o \in Person
          PROVE  /\ [mailJob[o] EXCEPT !.status = "PENDING", !.stale = FALSE]
                      \in [status : Mail!JobStatus, attempts : 0 .. MaxClaims, stale : BOOLEAN]
                 /\ [mailJob[o] EXCEPT !.status = "PENDING", !.stale = FALSE].attempts = mailJob[o].attempts
      BY DEF Mail!IInv, Mail!TypeOK, Mail!JobStatus
    <2> QED BY <2>1 DEF Mail!Recovered, Mail!IInv, Mail!TypeOK
  <1>4. mailJob' \in [Person -> [status : Mail!JobStatus, attempts : 0 .. MaxClaims, stale : BOOLEAN]]
    <2>1. CASE Mail!Claim(w, p)
      <3>1. mailJob[p].attempts + 1 \in 0 .. MaxClaims
        BY <2>1 DEF Mail!Claim, Mail!IInv, Mail!TypeOK, Mail!MailchimpAssumption
      <3>2. [status |-> "PROCESSING", attempts |-> Mail!Recovered[p].attempts + 1, stale |-> FALSE]
              \in [status : Mail!JobStatus, attempts : 0 .. MaxClaims, stale : BOOLEAN]
        BY <1>3, <3>1 DEF Mail!JobStatus
      <3> QED BY <1>3, <2>1, <3>2 DEF Mail!Claim
    <2>2. CASE Mail!RunCommand(w, p)
      BY <2>2 DEF Mail!RunCommand, Mail!IInv, Mail!TypeOK
    <2> QED BY <2>1, <2>2
  <1>5. changes' \in 0 .. MaxChanges /\ mailCrashes' \in 0 .. MailCrashes
          /\ UNCHANGED <<Mail!crm, reference, member>>
    BY DEF Mail!Claim, Mail!RunCommand, Mail!IInv, Mail!TypeOK, Mail!MailchimpAssumption
  <1> HIDE DEF h
  <1> QED BY <1>1, <1>2, <1>4, <1>5, QuietTurn DEF h, Inside

(* A worker is done with its job, or dies.                                  *)
LEMMA LeaveKeeps ==
  ASSUME Mail!MailchimpAssumption, Mail!IInv, NEW w \in Worker, Mail!Report(w) \/ Mail!Crash(w)
  PROVE  Mail!IInv'
  <1>1. Mail!Idle \in Mail!Doing /\ Mail!Idle.step = "idle" /\ mailWorker' = [mailWorker EXCEPT ![w] = Mail!Idle]
    BY DEF Mail!Doing, Mail!Idle, Mail!Report, Mail!Crash
  <1>2. mailJob' \in [Person -> [status : Mail!JobStatus, attempts : 0 .. MaxClaims, stale : BOOLEAN]]
    <2>1. Mail!Status(w) \in Mail!JobStatus
      BY DEF Mail!Status, Mail!JobStatus
    <2>2. CASE Mail!Report(w)
      <3>1. mailWorker[w].person \in Person
        BY <2>2, Hands DEF Mail!Report, Mail!IInv, Mail!TypeOK, Mail!Idle
      <3>2. [mailJob[mailWorker[w].person] EXCEPT !.status = Mail!Status(w), !.stale = FALSE]
              \in [status : Mail!JobStatus, attempts : 0 .. MaxClaims, stale : BOOLEAN]
        BY <2>1, <3>1 DEF Mail!IInv, Mail!TypeOK
      <3> QED BY <2>2, <3>1, <3>2 DEF Mail!Report, Mail!IInv, Mail!TypeOK
    <2> QED BY <2>2 DEF Mail!Crash, Mail!IInv, Mail!TypeOK
  <1>3. changes' \in 0 .. MaxChanges /\ mailCrashes' \in 0 .. MailCrashes
          /\ UNCHANGED <<Mail!crm, reference, member>>
    BY DEF Mail!Report, Mail!Crash, Mail!IInv, Mail!TypeOK, Mail!MailchimpAssumption
  <1> QED BY <1>1, <1>2, <1>3, QuietTurn DEF Inside

(* The transaction begins: the Person is locked by nobody else.             *)
LEMMA BeginKeeps ==
  ASSUME Mail!MailchimpAssumption, Mail!IInv, NEW w \in Worker, Mail!Begin(w)
  PROVE  Mail!IInv'
  <1> DEFINE p == mailWorker[w].person
             due == eligible[p] /\ consent[p] # "UNKNOWN"
             d == IF due THEN [step |-> "sync", person |-> p, attempt |-> mailWorker[w].attempt, seen |-> consent[p]]
                  ELSE [step |-> "report", person |-> p, attempt |-> mailWorker[w].attempt,
                        result |-> "done"]
  <1>1. p \in Person /\ mailWorker[w].attempt \in 0 .. MaxClaims /\ consent[p] \in Mail!Consent
    <2>1. mailWorker[w] # Mail!Idle /\ mailWorker[w] \in Mail!Doing
      BY DEF Mail!Begin, Mail!Idle, Mail!IInv, Mail!TypeOK
    <2> QED BY <2>1, Hands DEF Mail!IInv, Mail!TypeOK
  <1>2. d \in Mail!Doing /\ d.person = p /\ d.step \in {"sync", "report"} /\ (d.step = "sync" => eligible[p])
    BY <1>1 DEF Mail!Doing, Mail!Consent
  <1>3. /\ ~Mail!Locked(p) /\ mailWorker' = [mailWorker EXCEPT ![w] = d]
        /\ UNCHANGED <<Mail!crm, reference, member, mailJob, changes, mailCrashes>>
    BY DEF Mail!Begin, Mail!Enter
  <1> HIDE DEF d, p
  <1> QED BY <1>2, <1>3, QuietTurn DEF Inside, Mail!IInv, Mail!TypeOK

(* The provider is asked for the contact.                                   *)
LEMMA ReadKeeps ==
  ASSUME Mail!MailchimpAssumption, Mail!IInv, NEW w \in Worker, Mail!Read(w)
  PROVE  Mail!IInv'
  <1> DEFINE p == mailWorker[w].person
             found == member[email[p]]
             h(step) == [step |-> step, person |-> p, attempt |-> mailWorker[w].attempt, seen |-> mailWorker[w].seen,
                         found |-> found]
  <1>1. mailWorker[w].step = "sync" /\ Inside(mailWorker[w])
          /\ UNCHANGED <<Mail!crm, reference, member, mailJob, changes, mailCrashes>>
    BY DEF Mail!Read, Inside
  <1>2. p \in Person /\ mailWorker[w].attempt \in 0 .. MaxClaims /\ mailWorker[w].seen \in {"OPTED_IN", "OPTED_OUT"}
    BY <1>1, Hands DEF Mail!IInv, Mail!TypeOK, Mail!Idle
  <1>3. found \in Mail!MemberStatus
    BY <1>2 DEF Mail!IInv, Mail!TypeOK
  <1>4. CASE \E r \in {"done", "retry", "failed"} : Mail!End(w, r)
    <2>1. PICK r \in {"done", "retry", "failed"} : Mail!End(w, r)
      BY <1>4
    <2>2. /\ Ended(w, r) \in Mail!Doing /\ Ended(w, r).step = "report"
          /\ mailWorker' = [mailWorker EXCEPT ![w] = Ended(w, r)]
      BY <1>1, <2>1, Results DEF Mail!IInv
    <2> QED BY <1>1, <2>2, QuietTurn DEF Inside, Mail!IInv, Mail!TypeOK
  <1>5. CASE \E step \in Mail!NextStep(mailWorker[w].seen, found) : mailWorker' = [mailWorker EXCEPT ![w] = h(step)]
    <2>1. PICK step \in Mail!NextStep(mailWorker[w].seen, found) : mailWorker' = [mailWorker EXCEPT ![w] = h(step)]
      BY <1>5
    <2>2. step \in {"write", "attach"}
          /\ (mailWorker[w].seen = "OPTED_OUT" /\ step = "attach" => found # "subscribed")
      BY <1>2 DEF Mail!NextStep
    <2>3. h(step) \in Mail!Doing /\ h(step).step = step /\ h(step).person = p
            /\ h(step).seen = mailWorker[w].seen
      BY <1>2, <1>3, <2>2 DEF Mail!Doing
    <2> HIDE DEF h
    <2> QED BY <1>1, <2>1, <2>2, <2>3, QuietTurn DEF Inside, Mail!IInv, Mail!TypeOK
  <1> QED BY <1>4, <1>5 DEF Mail!Read

(* The call that changes the contact: of an opted-out Person it can only    *)
(* unsubscribe, and of others without a shared address nobody is inside.    *)
LEMMA WriteKeeps ==
  ASSUME Mail!MailchimpAssumption, Mail!IInv, NEW w \in Worker, Mail!Write(w)
  PROVE  Mail!IInv'
  <1> DEFINE p == mailWorker[w].person
  <1>1. mailWorker[w].step = "write" /\ Inside(mailWorker[w])
          /\ UNCHANGED <<Mail!crm, reference, mailJob, changes, mailCrashes>>
    BY DEF Mail!Write, Inside
  <1>2. p \in Person /\ mailWorker[w].seen \in {"OPTED_IN", "OPTED_OUT"} /\ email[p] \in Email
    BY <1>1, Hands DEF Mail!IInv, Mail!TypeOK, Mail!Idle
  <1>3. PICK d \in Mail!Doing : /\ mailWorker' = [mailWorker EXCEPT ![w] = d] /\ d.person = p
                                /\ \/ d.step = "report"
                                   \/ /\ d.step = "attach" /\ d.seen = mailWorker[w].seen
                                      /\ member' = [member EXCEPT ![email[p]] = Mail!Answer(w)]
    <2>1. CASE \E r \in {"retry", "failed"} : Mail!End(w, r)
      BY <1>1, <2>1, Results DEF Mail!IInv
    <2>2. CASE Mail!Do(w, "attach") /\ member' = [member EXCEPT ![email[p]] = Mail!Answer(w)]
      BY <1>1, <2>2, Goes DEF Mail!IInv
    <2> QED BY <2>1, <2>2 DEF Mail!Write
  <1>4. Mail!Answer(w) \in Mail!MemberStatus
    BY <1>2 DEF Mail!Answer, Mail!IInv, Mail!TypeOK, Mail!MemberStatus
  <1>5. member' = member \/ member' = [member EXCEPT ![email[p]] = Mail!Answer(w)]
    BY DEF Mail!Write
  <1>6. Mail!TypeOK'
    BY <1>1, <1>3, <1>4, <1>5 DEF Mail!IInv, Mail!TypeOK, Mail!crm
  <1>7. Mail!OneSyncPerPerson' /\ Mail!SyncedAreEligible'
    BY <1>1, <1>3, TurnKept
  <1>8. Mail!OwnContactsOnly'
    BY <1>1 DEF Mail!IInv, Mail!OwnContactsOnly, Mail!crm
  <1>9. ASSUME ~MayChangeEmail, NEW v \in Worker, mailWorker'[v].step = "attach",
               mailWorker'[v].seen = "OPTED_OUT",
               Mail!Alone(mailWorker'[v].person)
        PROVE  member'[email[mailWorker'[v].person]] # "subscribed"
    <2>1. CASE v = w
      <3>1. mailWorker'[w] = d /\ member' = [member EXCEPT ![email[p]] = Mail!Answer(w)]
        BY <1>3, <1>9, <2>1 DEF Mail!IInv, Mail!TypeOK
      <3>2. Mail!Answer(w) = "unsubscribed"
        BY <1>3, <1>9, <2>1, <3>1 DEF Mail!Answer
      <3> QED BY <1>2, <1>3, <2>1, <3>1, <3>2 DEF Mail!IInv, Mail!TypeOK
    <2>2. CASE v # w
      <3>1. mailWorker'[v] = mailWorker[v] /\ mailWorker[v].person \in Person
        BY <1>3, <1>9, <2>2, Hands DEF Mail!IInv, Mail!TypeOK, Mail!Idle
      <3>2. mailWorker[v].person # p
        BY <1>1, <1>9, <2>2, <3>1 DEF Mail!IInv, Mail!OneSyncPerPerson
      <3>3. email[mailWorker[v].person] # email[p]
        BY <1>2, <1>9, <3>1, <3>2 DEF Mail!Alone
      <3>4. member[email[mailWorker[v].person]] # "subscribed"
        BY <1>9, <3>1 DEF Mail!IInv, Mail!OptOutsAreMade
      <3> QED BY <1>2, <1>5, <3>1, <3>3, <3>4 DEF Mail!IInv, Mail!TypeOK
    <2> QED BY <2>1, <2>2
  <1>10. Mail!OptOutsAreMade'
    BY <1>1, <1>9 DEF Mail!OptOutsAreMade, Mail!Alone, Mail!crm
  <1> QED BY <1>6, <1>7, <1>8, <1>10 DEF Mail!IInv

(* attach_person_reference: the contact at the address, unless it is taken. *)
LEMMA AttachKeeps ==
  ASSUME Mail!MailchimpAssumption, Mail!IInv, NEW w \in Worker, Mail!Attach(w)
  PROVE  Mail!IInv'
  <1> DEFINE p == mailWorker[w].person
  <1>1. mailWorker[w].step = "attach" /\ Inside(mailWorker[w])
          /\ UNCHANGED <<Mail!crm, member, mailJob, changes, mailCrashes>>
    BY DEF Mail!Attach, Inside
  <1>2. p \in Person /\ email[p] \in Email
    BY <1>1, Hands DEF Mail!IInv, Mail!TypeOK, Mail!Idle
  <1>3. PICK r \in {"done", "retry"} : Mail!End(w, r)
    BY DEF Mail!Attach
  <1>4. Ended(w, r) \in Mail!Doing /\ Ended(w, r).step = "report"
          /\ mailWorker' = [mailWorker EXCEPT ![w] = Ended(w, r)]
    BY <1>1, <1>3, Results DEF Mail!IInv
  <1>5. reference' = reference \/ reference' = [reference EXCEPT ![p] = email[p]]
    BY DEF Mail!Attach
  <1>6. Mail!TypeOK'
    BY <1>1, <1>2, <1>4, <1>5 DEF Mail!IInv, Mail!TypeOK, Mail!crm
  <1>7. Mail!OneSyncPerPerson' /\ Mail!SyncedAreEligible'
    BY <1>1, <1>4, TurnKept DEF Inside
  <1>8. Mail!OwnContactsOnly'
    BY <1>1, <1>2, <1>5 DEF Mail!IInv, Mail!TypeOK, Mail!OwnContactsOnly, Mail!crm
  <1>9. Mail!OptOutsAreMade'
    <2>1. mailWorker'[w].step = "report" /\ \A v \in Worker \ {w} : mailWorker'[v] = mailWorker[v]
      BY <1>4 DEF Mail!IInv, Mail!TypeOK
    <2> QED BY <1>1, <2>1 DEF Mail!IInv, Mail!OptOutsAreMade, Mail!Alone, Mail!crm
  <1> QED BY <1>6, <1>7, <1>8, <1>9 DEF Mail!IInv

(* The stale window passes for a job.                                       *)
LEMMA GoStaleKeeps ==
  ASSUME Mail!IInv, NEW p \in Person, Mail!GoStale(p)
  PROVE  Mail!IInv'
  <1>1. [mailJob[p] EXCEPT !.stale = TRUE] \in [status : Mail!JobStatus, attempts : 0 .. MaxClaims, stale : BOOLEAN]
    BY DEF Mail!IInv, Mail!TypeOK
  <1>2. Mail!TypeOK'
    BY <1>1 DEF Mail!GoStale, Mail!IInv, Mail!TypeOK, Mail!crm
  <1> QED BY <1>2 DEF Mail!GoStale, Mail!IInv, Mail!OneSyncPerPerson, Mail!SyncedAreEligible,
                      Mail!OwnContactsOnly, Mail!OptOutsAreMade, Mail!Alone, Mail!crm

(* Staff and recipients: archiving and a new address wait for the lock, and *)
(* no recipient subscribes.                                                 *)
LEMMA OutsideKeeps ==
  ASSUME Mail!MailchimpAssumption, Mail!IInv, Mail!Outside
  PROVE  Mail!IInv'
  <1>1. UNCHANGED <<reference, mailJob, mailWorker, mailCrashes>> /\ changes' \in 0 .. MaxChanges
    BY DEF Mail!Outside, Mail!IInv, Mail!TypeOK, Mail!MailchimpAssumption
  <1>2. Mail!OneSyncPerPerson'
    BY <1>1 DEF Mail!IInv, Mail!OneSyncPerPerson
  <1>3. ASSUME NEW w \in Worker, mailWorker[w].step \in {"sync", "write", "attach"}
        PROVE  Mail!Locked(mailWorker[w].person) /\ mailWorker[w].person \in Person
    BY <1>3, Hands DEF Mail!Locked, Mail!IInv, Mail!TypeOK, Mail!Idle
  <1>4. ASSUME NEW p \in Person, NEW state \in Mail!Consent, Mail!RecordConsent(p, state),
               UNCHANGED member
        PROVE  Mail!IInv'
    <2>1. Mail!TypeOK'
      BY <1>1, <1>4 DEF Mail!RecordConsent, Mail!IInv, Mail!TypeOK
    <2> QED BY <1>1, <1>2, <1>4, <2>1 DEF Mail!RecordConsent, Mail!IInv, Mail!SyncedAreEligible,
                                          Mail!OwnContactsOnly, Mail!OptOutsAreMade, Mail!Alone
  <1>5. ASSUME NEW p \in Person, Mail!Archive(p), UNCHANGED member PROVE Mail!IInv'
    <2>1. Mail!TypeOK'
      BY <1>1, <1>5 DEF Mail!Archive, Mail!IInv, Mail!TypeOK
    <2>2. Mail!SyncedAreEligible'
      BY <1>1, <1>3, <1>5 DEF Mail!Archive, Mail!IInv, Mail!TypeOK, Mail!SyncedAreEligible
    <2> QED BY <1>1, <1>2, <1>5, <2>1, <2>2 DEF Mail!Archive, Mail!IInv, Mail!OwnContactsOnly,
                                                Mail!OptOutsAreMade, Mail!Alone
  <1>6. ASSUME NEW p \in Person, NEW e \in Email, Mail!ChangeEmail(p, e), UNCHANGED member
        PROVE  Mail!IInv'
    <2>1. Mail!TypeOK'
      BY <1>1, <1>6 DEF Mail!ChangeEmail, Mail!IInv, Mail!TypeOK
    <2> QED BY <1>1, <1>2, <1>6, <2>1 DEF Mail!ChangeEmail, Mail!IInv, Mail!SyncedAreEligible,
                                          Mail!OwnContactsOnly, Mail!OptOutsAreMade
  <1>7. ASSUME NEW e \in Email, NEW answer \in Mail!MemberStatus, Mail!RecipientLeaves(e, answer),
               UNCHANGED Mail!crm
        PROVE  Mail!IInv'
    <2>1. Mail!TypeOK'
      BY <1>1, <1>7 DEF Mail!RecipientLeaves, Mail!IInv, Mail!TypeOK, Mail!crm
    <2>2. \A f \in Email : member'[f] = "subscribed" => member[f] = "subscribed"
      BY <1>7 DEF Mail!RecipientLeaves, Mail!IInv, Mail!TypeOK
    <2>3. Mail!OptOutsAreMade'
      BY <1>1, <1>3, <1>7, <2>2 DEF Mail!IInv, Mail!TypeOK, Mail!OptOutsAreMade, Mail!Alone,
                                    Mail!crm
    <2> QED BY <1>1, <1>2, <1>7, <2>1, <2>3 DEF Mail!IInv, Mail!SyncedAreEligible,
                                                Mail!OwnContactsOnly, Mail!crm
  <1> QED BY <1>4, <1>5, <1>6, <1>7 DEF Mail!Outside

(* Every step keeps the invariant.                                          *)
LEMMA MailNext == ASSUME Mail!MailchimpAssumption, Mail!IInv, [Mail!Next]_(Mail!vars)
                  PROVE  Mail!IInv'
  <1>1. CASE UNCHANGED Mail!vars
    BY <1>1 DEF Mail!vars, Mail!crm, Mail!IInv, Mail!TypeOK, Mail!OneSyncPerPerson,
                Mail!SyncedAreEligible, Mail!OwnContactsOnly, Mail!OptOutsAreMade, Mail!Alone
  <1> QED BY <1>1, ClaimKeeps, LeaveKeeps, BeginKeeps, ReadKeeps, WriteKeeps, AttachKeeps,
             GoStaleKeeps,
             OutsideKeeps DEF Mail!Next, Mail!Step

(* The inductive invariant of the Mailchimp queue.                          *)
THEOREM MailInvariance == ASSUME Mail!MailchimpAssumption PROVE Mail!Spec => []Mail!IInv
  BY MailInit, MailNext, PTL DEF Mail!Spec

(* Also with jobs recovered from workers that are only slow: the locks of   *)
(* the Person rows keep two synchronizations of one Person apart.           *)
THEOREM OneAtATime == ASSUME Mail!MailchimpAssumption PROVE Mail!Spec => []Mail!OneSyncPerPerson
  BY MailInvariance, PTL DEF Mail!IInv

-----------------------------------------------------------------------------
(* Only a call for an address without a contact subscribes, by a            *)
(* synchronization that has read an opt-in of its eligible Person.          *)
THEOREM NobodyIsResubscribed == ASSUME Mail!MailchimpAssumption
                                PROVE  Mail!Spec => Mail!OnlyNewContactsAreSubscribed
  <1>1. ASSUME Mail!IInv, [Mail!Next]_(Mail!vars), NEW e \in Email, member[e] # "subscribed",
               member'[e] = "subscribed"
        PROVE  /\ member[e] = "absent"
               /\ \E w \in Worker : /\ mailWorker[w].step = "write" /\ mailWorker[w].seen = "OPTED_IN"
                                    /\ email[mailWorker[w].person] = e /\ eligible[mailWorker[w].person]
    <2>1. CASE \E w \in Worker : Mail!Write(w)
      <3>1. PICK w \in Worker : Mail!Write(w)
        BY <2>1
      <3> DEFINE p == mailWorker[w].person
      <3>2. p \in Person /\ mailWorker[w].step = "write" /\ eligible[p] /\ mailWorker[w].seen \in {"OPTED_IN", "OPTED_OUT"}
            /\ mailWorker[w].found \in Mail!MemberStatus
        BY <1>1, <3>1, Hands DEF Mail!Write, Inside, Mail!IInv, Mail!TypeOK,
                                 Mail!SyncedAreEligible, Mail!Idle
      <3>3. member' = [member EXCEPT ![email[p]] = Mail!Answer(w)] /\ ~Mail!Refused(w) /\ e = email[p]
            /\ Mail!Answer(w) = "subscribed"
        BY <1>1, <3>1, <3>2 DEF Mail!Write, Mail!IInv, Mail!TypeOK
      <3>4. member[e] = "absent" /\ mailWorker[w].seen = "OPTED_IN"
        BY <1>1, <3>2, <3>3 DEF Mail!Answer, Mail!Refused
      <3> QED BY <3>2, <3>3, <3>4
    <2>2. CASE Mail!Outside
      BY <1>1, <2>2 DEF Mail!Outside, Mail!RecipientLeaves, Mail!IInv, Mail!TypeOK
    <2>3. ASSUME UNCHANGED member PROVE FALSE
      BY <1>1, <2>3
    <2> QED BY <1>1, <2>1, <2>2, <2>3 DEF Mail!Next, Mail!Step, Mail!Claim, Mail!RunCommand,
                                          Mail!Begin, Mail!Read, Mail!Attach, Mail!Report,
                                          Mail!Crash,
                                          Mail!GoStale, Mail!vars
  <1>2. Mail!IInv /\ [Mail!Next]_(Mail!vars) =>
          [\A e \in Email : member[e] # "subscribed" /\ member'[e] = "subscribed" =>
             /\ member[e] = "absent"
             /\ \E w \in Worker : /\ mailWorker[w].step = "write" /\ mailWorker[w].seen = "OPTED_IN"
                                  /\ email[mailWorker[w].person] = e /\ eligible[mailWorker[w].person]]_(Mail!vars)
    BY <1>1
  <1> QED BY <1>2, MailInvariance, PTL DEF Mail!Spec, Mail!OnlyNewContactsAreSubscribed

(* The end of a synchronization: the provider has no contact of an opted-out*)
(* Person, or the contact is attached.                                      *)
LEMMA EndOfSync ==
  ASSUME Mail!MailchimpAssumption, Mail!IInv, [Mail!Next]_(Mail!vars), NEW w \in Worker,
         Mail!Ends(w)
  PROVE  \/ Mail!Read(w) /\ (mailWorker[w].seen = "OPTED_OUT" => member[email[mailWorker[w].person]] = "absent")
         \/ /\ Mail!Attach(w) /\ mailWorker[w].step = "attach"
            /\ reference' = [reference EXCEPT ![mailWorker[w].person] = email[mailWorker[w].person]]
            /\ \A q \in Person \ {mailWorker[w].person} : reference[q] # email[mailWorker[w].person]
  <1>1. mailWorker'[w] # mailWorker[w] /\ mailWorker'[w] # Mail!Idle /\ mailWorker'[w].step = "report"
    BY DEF Mail!Ends, Mail!Idle
  <1>2. ASSUME NEW v \in Worker, NEW p \in Person, Mail!Claim(v, p) \/ Mail!RunCommand(v, p)
        PROVE  FALSE
    BY <1>1, <1>2 DEF Mail!Claim, Mail!RunCommand, Mail!IInv, Mail!TypeOK
  <1>3. ASSUME NEW v \in Worker, Mail!Step(v) \/ Mail!Crash(v) PROVE v = w
    BY <1>1, <1>3 DEF Mail!Step, Mail!Crash, Mail!Begin, Mail!Enter, Mail!Read, Mail!Write,
                      Mail!Attach, Mail!Report, Mail!End, Mail!Do, Mail!IInv, Mail!TypeOK
  <1>4. ~(\E p \in Person : Mail!GoStale(p)) /\ ~Mail!Outside /\ ~UNCHANGED Mail!vars
    BY <1>1 DEF Mail!GoStale, Mail!Outside, Mail!vars
  <1>5. Mail!Step(w) \/ Mail!Crash(w)
    BY <1>2, <1>3, <1>4 DEF Mail!Next
  <1>6. Mail!Read(w) \/ Mail!Attach(w)
    BY <1>1, <1>5 DEF Mail!Ends, Mail!Step, Mail!Crash, Mail!Begin, Mail!Write, Mail!Report,
                      Mail!Idle, Mail!IInv, Mail!TypeOK
  <1>7. mailWorker[w].step = "sync" => Inside(mailWorker[w])
    BY DEF Inside
  <1>8. ASSUME Mail!Read(w), mailWorker[w].seen = "OPTED_OUT"
        PROVE  member[email[mailWorker[w].person]] = "absent"
    <2>1. mailWorker'[w].result = "done" /\ mailWorker[w].step = "sync"
      BY <1>8 DEF Mail!Ends, Mail!Read
    <2>2. ASSUME NEW r \in {"retry", "failed"}, Mail!End(w, r) PROVE FALSE
      BY <1>7, <2>1, <2>2, OneResult DEF Mail!IInv
    <2>3. ASSUME NEW step, NEW x,
                 step \in Mail!NextStep(mailWorker[w].seen, member[email[mailWorker[w].person]]),
                 mailWorker' = [mailWorker EXCEPT ![w] = [step |-> step, person |-> mailWorker[w].person,
                   attempt |-> mailWorker[w].attempt, seen |-> mailWorker[w].seen, found |-> x]]
          PROVE  FALSE
      BY <1>1, <2>3 DEF Mail!NextStep, Mail!IInv, Mail!TypeOK
    <2> QED BY <1>8, <2>2, <2>3 DEF Mail!Read
  <1>9. ASSUME Mail!Attach(w)
        PROVE  /\ reference' = [reference EXCEPT ![mailWorker[w].person] = email[mailWorker[w].person]]
               /\ \A q \in Person \ {mailWorker[w].person} : reference[q] # email[mailWorker[w].person]
               /\ mailWorker[w].step = "attach"
    <2>1. mailWorker[w].step = "attach" /\ Inside(mailWorker[w])
      BY <1>9 DEF Mail!Attach, Inside
    <2>2. ~Mail!End(w, "retry")
      BY <2>1, OneResult DEF Mail!IInv
    <2> QED BY <1>9, <2>1, <2>2 DEF Mail!Attach
  <1> QED BY <1>6, <1>8, <1>9

(* Whoever shares an address: a synchronization that has succeeded at the   *)
(* provider has linked the contact to its Person and to no other.           *)
THEOREM ContactsAreLinkedOnce == ASSUME Mail!MailchimpAssumption PROVE Mail!Spec => Mail!LinkedToOne
  <1>1. ASSUME Mail!IInv, [Mail!Next]_(Mail!vars), NEW w \in Worker, mailWorker[w].step = "attach",
               Mail!Ends(w)
        PROVE  {q \in Person : reference'[q] = email[mailWorker[w].person]} = {mailWorker[w].person}
    <2>1. ~Mail!Read(w)
      BY <1>1 DEF Mail!Read
    <2>2. mailWorker[w].person \in Person
      BY <1>1, Hands DEF Mail!IInv, Mail!TypeOK, Mail!Idle
    <2> QED BY <1>1, <2>1, <2>2, EndOfSync DEF Mail!IInv, Mail!TypeOK
  <1>2. Mail!IInv /\ [Mail!Next]_(Mail!vars) =>
          [\A w \in Worker : LET p == mailWorker[w].person IN
             mailWorker[w].step = "attach" /\ Mail!Ends(w) => {q \in Person : reference'[q] = email[p]} = {p}]_(Mail!vars)
    BY <1>1
  <1> QED BY <1>2, MailInvariance, PTL DEF Mail!Spec, Mail!LinkedToOne

(* Without changes of addresses, a synchronization of an opted-out Person   *)
(* that succeeds leaves none of their contacts subscribed.                  *)
THEOREM OptOutsAreApplied ==
  ASSUME Mail!MailchimpAssumption, MayChangeEmail = FALSE PROVE Mail!Spec => Mail!OptOutApplied
  <1>1. ASSUME Mail!IInv, [Mail!Next]_(Mail!vars), NEW w \in Worker, Mail!Ends(w),
               mailWorker[w].seen = "OPTED_OUT", Mail!Alone(mailWorker[w].person),
               NEW e \in Email \cap {email[mailWorker[w].person], reference'[mailWorker[w].person]}
        PROVE  member'[e] # "subscribed"
    <2> DEFINE p == mailWorker[w].person
    <2>1. p \in Person
      BY <1>1, Hands DEF Mail!Ends, Mail!IInv, Mail!TypeOK, Mail!Idle
    <2>2. CASE Mail!Read(w)
      BY <1>1, <2>1, <2>2, EndOfSync DEF Mail!Read, Mail!Attach, Mail!Ends, Mail!IInv,
                                         Mail!OwnContactsOnly, Mail!MailchimpAssumption
    <2>3. CASE Mail!Attach(w)
      BY <1>1, <2>1, <2>3, EndOfSync DEF Mail!Attach, Mail!Read, Mail!IInv, Mail!TypeOK,
                                         Mail!OptOutsAreMade
    <2> QED BY <1>1, <2>2, <2>3, EndOfSync
  <1>2. Mail!IInv /\ [Mail!Next]_(Mail!vars) =>
          [\A w \in Worker : LET p == mailWorker[w].person IN
             Mail!Ends(w) /\ mailWorker[w].seen = "OPTED_OUT" /\ Mail!Alone(p) =>
               \A e \in Email \cap {email[p], reference'[p]} : member'[e] # "subscribed"]_(Mail!vars)
    BY <1>1
  <1> QED BY <1>2, MailInvariance, PTL DEF Mail!Spec, Mail!OptOutApplied

-----------------------------------------------------------------------------
(* Each of the three runs as it would run alone.                            *)
LEMMA TableRuns == MCSpec => PromptSpec /\ Mail!Spec /\ Process!Spec
  <1>1. MCInit => Init /\ Mail!Init /\ Process!Init
    BY DEF MCInit
  <1>2. ASSUME [MCNext]_<<part, vars, mailVars, loopVars>>
        PROVE  [PromptNext]_vars /\ [Mail!Next]_(Mail!vars) /\ [Process!Next]_(Process!vars)
    <2>1. UNCHANGED mailVars => UNCHANGED Mail!vars
      BY DEF mailVars, Mail!vars, Mail!crm
    <2>2. UNCHANGED loopVars => UNCHANGED Process!vars
      BY DEF loopVars, Process!vars, Process!loop
    <2> QED BY <1>2, <2>1, <2>2 DEF MCNext
  <1> QED BY <1>1, <1>2, PTL DEF MCSpec, PromptSpec, Mail!Spec, Process!Spec

(* For any table and any process on it: a stop takes at most the rest of one*)
(* batch, and no result of an ended job is forgotten.                       *)
THEOREM ResultsAreKept == MCSpec => []NoResultIsLost
  <1>1. Process!Spec => []Process!NoResultIsLost
    BY BatchesAreBounded, TableAssumption
  <1>2. Process!Spec => []Process!IInv
    BY ProcessInit, ProcessNext, TableAssumption, PTL DEF Process!Spec
  <1> QED BY <1>1, <1>2, TableRuns, PTL DEF NoResultIsLost

(* One link per contact and one synchronization per Person at a time.       *)
THEOREM LinksStayUnique == MCSpec => LinkedToOne
  <1>1. Mail!Spec => Mail!LinkedToOne
    BY ContactsAreLinkedOnce, TableAssumption
  <1>2. Mail!Spec => []Mail!IInv
    BY MailInvariance, TableAssumption
  <1> QED BY <1>1, <1>2, TableRuns, PTL DEF LinkedToOne

(* With fixed addresses, a synchronization makes the provider follow the    *)
(* consent it has read.  What is recorded after that it does not see.       *)
THEOREM ConsentStaysApplied == ASSUME MayChangeEmail = FALSE PROVE MCSpec => ConsentIsApplied
  <1>1. Mail!Spec => Mail!OnlyNewContactsAreSubscribed
    BY NobodyIsResubscribed, TableAssumption
  <1>2. Mail!Spec => Mail!OptOutApplied
    BY OptOutsAreApplied, TableAssumption
  <1> QED BY <1>1, <1>2, TableRuns DEF ConsentIsApplied
=============================================================================
