------------------------------ MODULE JobLease ------------------------------
(***************************************************************************)
(* What the sync queue promises, said without clocks, attempt counters or  *)
(* database rows: a job is worked on by at most one worker at a time, only *)
(* that worker settles it, a job whose worker disappeared can be taken     *)
(* again, and a settled job never changes.                                 *)
(***************************************************************************)
CONSTANTS Job,      \* the jobs that may ever be submitted
          Worker,   \* the processes that run the queue
          NoOwner   \* marks a job nobody is working on; no worker

VARIABLES status,   \* status[j]: where job j is in its life
          owner     \* owner[j]: the worker that is working on j

vars == <<status, owner>>

Done == {"SUCCEEDED", "FAILED"}
Status == {"NEW", "PENDING", "PROCESSING"} \cup Done

Init == /\ status = [j \in Job |-> "NEW"]
        /\ owner = [j \in Job |-> NoOwner]

(* Jobs whose worker disappeared: still marked as worked on, by nobody.    *)
Orphans == {j \in Job : status[j] = "PROCESSING" /\ owner[j] = NoOwner}

Submit(j) == /\ status[j] = "NEW"
             /\ status' = [status EXCEPT ![j] = "PENDING"]
             /\ UNCHANGED owner

(* A worker takes a pending job; orphans may be put back at the same time, *)
(* and the job taken may be one of them.                                   *)
Acquire(w, j) ==
  \E R \in SUBSET Orphans :
     /\ status[j] = "PENDING" \/ j \in R
     /\ \A i \in Job : owner[i] # w
     /\ status' = [i \in Job |-> IF i = j THEN "PROCESSING"
                                 ELSE IF i \in R THEN "PENDING" ELSE status[i]]
     /\ owner' = [owner EXCEPT ![j] = w]

(* The owner, and nobody else, settles the job or hands it back.           *)
Settle(j) == /\ owner[j] # NoOwner
             /\ \E s \in Done \cup {"PENDING"} : status' = [status EXCEPT ![j] = s]
             /\ owner' = [owner EXCEPT ![j] = NoOwner]

(* The owner disappears without a trace.                                   *)
Abandon(j) == /\ owner[j] # NoOwner
              /\ owner' = [owner EXCEPT ![j] = NoOwner]
              /\ UNCHANGED status

Next == \E j \in Job : \/ Submit(j)
                       \/ \E w \in Worker : Acquire(w, j)
                       \/ Settle(j)
                       \/ Abandon(j)

Spec == Init /\ [][Next]_vars
=============================================================================
