---------------------------- MODULE MailchimpSync ----------------------------
(***************************************************************************)
(* mailchimp: the frozen provider.  Nothing enqueues MAILCHIMP jobs any    *)
(* more; the jobs that exist are still processed, and a command            *)
(* synchronizes one Person.  Unlike the Brevo worker, this one calls the   *)
(* provider inside its transaction, under a lock of the Person row but not *)
(* of the marketing preference.                                            *)
(*                                                                         *)
(* A worker holds the lock in the steps "sync", "write" and "attach".      *)
(* It carries its attempt, the number of its claim of the job, or 0 when   *)
(* the command runs without a job.  Retry delays are left out (a pending   *)
(* job may be claimed at any time), the merge fields of a member too: an   *)
(* update either is due or is not.                                         *)
(***************************************************************************)
EXTENDS Naturals, FiniteSets

CONSTANTS Person,         \* the CRM's People
          Email,          \* addresses; a member and its id are its address
          None,           \* no address, no reference
          Worker,         \* runs of the worker or of the command
          MaxAttempts,    \* ExternalPersonSyncJob.max_attempts
          MaxClaims,      \* bound: claims of one job
          MaxChanges,     \* bound: changes made by staff and by recipients
          MaxCrashes,     \* bound: crashes of workers
          MayChangeEmail  \* may staff change the address of a Person?

MailchimpAssumption ==
  /\ None \notin Email
  /\ {MaxAttempts, MaxClaims, MaxChanges, MaxCrashes} \subseteq Nat
  /\ MayChangeEmail \in BOOLEAN

VARIABLES email,      \* Person.primary_email
          eligible,   \* BUSINESS, not archived, with a valid address
          consent,    \* effective EMAIL preference
          reference,  \* Person: external id of its MAILCHIMP reference
          member,     \* address: status of the Mailchimp member
          job,        \* Person: its historical MAILCHIMP job
          worker,     \* what each worker is doing
          changes,    \* changes made by staff and recipients so far
          crashes     \* crashes so far

crm == <<email, eligible, consent>>
vars == <<crm, reference, member, job, worker, changes, crashes>>

Consent == {"UNKNOWN", "OPTED_IN", "OPTED_OUT"}
MemberStatus == {"absent", "subscribed", "unsubscribed", "cleaned"}
JobStatus == {"PENDING", "PROCESSING", "SUCCEEDED", "FAILED"}
Idle == [step |-> "idle"]

Init ==
  /\ email \in [Person -> Email]
  /\ eligible = [p \in Person |-> TRUE]
  /\ consent \in [Person -> Consent]
  /\ reference = [p \in Person |-> None]
  /\ member \in [Email -> MemberStatus]
  /\ job = [p \in Person |-> [status |-> "PENDING", attempts |-> 0, stale |-> FALSE]]
  /\ worker = [w \in Worker |-> Idle]
  /\ changes = 0
  /\ crashes = 0

-----------------------------------------------------------------------------
Locked(p) ==
  \E w \in Worker : worker[w].step \in {"sync", "write", "attach"} /\ worker[w].person = p

Do(w, step) == worker' = [worker EXCEPT ![w] = [@ EXCEPT !.step = step]]

(* The transaction of the synchronization ends, with its result.            *)
End(w, result) ==
  worker' = [worker EXCEPT ![w] =
    [step |-> "report", person |-> @.person, attempt |-> @.attempt, result |-> result]]

(* The window of 15 minutes passes for a job in process.                    *)
GoStale(p) ==
  /\ job[p].status = "PROCESSING"
  /\ job' = [job EXCEPT ![p].stale = TRUE]
  /\ UNCHANGED <<crm, reference, member, worker, changes, crashes>>

Recovered ==
  [p \in Person |-> IF job[p].stale THEN [job[p] EXCEPT !.status = "PENDING", !.stale = FALSE]
                    ELSE job[p]]

(* _claim_next_job: stale jobs are recovered, then one pending job is taken.*)
Claim(w, p) ==
  /\ worker[w] = Idle
  /\ Recovered[p].status = "PENDING" /\ job[p].attempts < MaxClaims
  /\ job' = [Recovered EXCEPT ![p] =
               [status |-> "PROCESSING", attempts |-> @.attempts + 1, stale |-> FALSE]]
  /\ worker' = [worker EXCEPT ![w] = [step |-> "claimed", person |-> p, attempt |-> job[p].attempts + 1]]
  /\ UNCHANGED <<crm, reference, member, changes, crashes>>

(* sync_mailchimp_person: the same synchronization without a job.           *)
RunCommand(w, p) ==
  /\ worker[w] = Idle
  /\ changes < MaxChanges
  /\ changes' = changes + 1
  /\ worker' = [worker EXCEPT ![w] = [step |-> "claimed", person |-> p, attempt |-> 0]]
  /\ UNCHANGED <<crm, reference, member, job, crashes>>

Enter(w, due) ==
  worker' = [worker EXCEPT ![w] =
    IF due THEN [step |-> "sync", person |-> @.person, attempt |-> @.attempt, seen |-> consent[@.person]]
    ELSE [step |-> "report", person |-> @.person, attempt |-> @.attempt, result |-> "done"]]

(* synchronize_person_to_mailchimp up to its first call: the Person is      *)
(* locked, who is not eligible or has no known preference is skipped.       *)
Begin(w) ==
  /\ worker[w].step = "claimed" /\ ~Locked(worker[w].person)
  /\ LET p == worker[w].person IN Enter(w, eligible[p] /\ consent[p] # "UNKNOWN")
  /\ UNCHANGED <<crm, reference, member, job, changes, crashes>>

Conflict(p, found) ==
  \/ reference[p] # None /\ (found = "absent" \/ reference[p] # email[p])
  \/ found # "absent" /\ \E q \in Person \ {p} : reference[q] = email[p]

(* Which contacts the provider is asked to change.                          *)
NextStep(seen, found) ==
  CASE seen = "OPTED_OUT" /\ found = "subscribed" -> {"write"}
    [] seen = "OPTED_IN" /\ found = "absent"      -> {"write"}
    [] seen = "OPTED_IN" /\ found = "subscribed"  -> {"write", "attach"}
    [] OTHER                                      -> {"attach"}

(* client.get_member and what follows from its answer.                      *)
Read(w) ==
  /\ worker[w].step = "sync"
  /\ LET p == worker[w].person
         seen == worker[w].seen
         found == member[email[p]]
     IN  \/ End(w, "retry")
         \/ End(w, "failed")
         \/ /\ seen = "OPTED_OUT" /\ found = "absent"
            /\ End(w, "done")
         \/ /\ ~(seen = "OPTED_OUT" /\ found = "absent")
            /\ IF Conflict(p, found) THEN End(w, "failed")
               ELSE \E step \in NextStep(seen, found) :
                      worker' = [worker EXCEPT ![w] =
                        [step |-> step, person |-> p, attempt |-> @.attempt, seen |-> seen, found |-> found]]
  /\ UNCHANGED <<crm, reference, member, job, changes, crashes>>

(* What Mailchimp makes of the call: POST creates, PATCH keeps the status,  *)
(* PUT unsubscribes; each is refused where it does not apply.               *)
Refused(w) ==
  (worker[w].found = "absent") # (member[email[worker[w].person]] = "absent")

Answer(w) ==
  LET old == member[email[worker[w].person]]
  IN  IF worker[w].seen = "OPTED_OUT" THEN "unsubscribed"
      ELSE IF worker[w].found = "absent" THEN "subscribed" ELSE old

(* Mutation of Write: a call that did not reach Mailchimp counts as made.   *)
WriteOptimistic(w) ==
  /\ worker[w].step = "write"
  /\ Do(w, "attach")
  /\ UNCHANGED <<crm, reference, member, job, changes, crashes>>

(* create_member, update_subscribed_member or unsubscribe_member: answered, *)
(* with its answer lost, not delivered, or refused.                         *)
Write(w) ==
  /\ worker[w].step = "write"
  /\ \/ /\ ~Refused(w)
        /\ member' = [member EXCEPT ![email[worker[w].person]] = Answer(w)]
        /\ Do(w, "attach") \/ End(w, "retry")
     \/ UNCHANGED member /\ End(w, "retry")
     \/ Refused(w) /\ UNCHANGED member /\ End(w, "failed")
  /\ UNCHANGED <<crm, reference, job, changes, crashes>>

(* Mutation of Attach: the reference of another Person counts as ours.      *)
AttachAnyones(w) ==
  /\ worker[w].step = "attach"
  /\ LET p == worker[w].person
         taken == \E q \in Person \ {p} : reference[q] = email[p]
     IN  /\ End(w, "done")
         /\ reference' = IF taken THEN reference ELSE [reference EXCEPT ![p] = email[p]]
  /\ UNCHANGED <<crm, member, job, changes, crashes>>

(* attach_person_reference and commit.  A reference another Person got in   *)
(* the meantime is an error that rolls back what this database knows.       *)
Attach(w) ==
  /\ worker[w].step = "attach"
  /\ LET p == worker[w].person
         taken == \E q \in Person \ {p} : reference[q] = email[p]
     IN  IF taken THEN End(w, "retry") /\ UNCHANGED reference
         ELSE End(w, "done") /\ reference' = [reference EXCEPT ![p] = email[p]]
  /\ UNCHANGED <<crm, member, job, changes, crashes>>

(* By the attempts of the copy that was claimed.                            *)
Status(w) ==
  CASE worker[w].result = "done" -> "SUCCEEDED"
    [] worker[w].result = "retry" /\ worker[w].attempt < MaxAttempts -> "PENDING"
    [] OTHER -> "FAILED"

(* _mark_succeeded, _record_retry, _record_failure: whatever the row says   *)
(* by now, it is overwritten.                                               *)
Report(w) ==
  /\ worker[w].step = "report"
  /\ job' = IF worker[w].attempt > 0
            THEN [job EXCEPT ![worker[w].person] = [@ EXCEPT !.status = Status(w), !.stale = FALSE]]
            ELSE job
  /\ worker' = [worker EXCEPT ![w] = Idle]
  /\ UNCHANGED <<crm, reference, member, changes, crashes>>

(* The worker dies; PostgreSQL rolls its transaction back.                  *)
Crash(w) ==
  /\ worker[w] # Idle /\ crashes < MaxCrashes
  /\ crashes' = crashes + 1
  /\ worker' = [worker EXCEPT ![w] = Idle]
  /\ UNCHANGED <<crm, reference, member, job, changes>>

-----------------------------------------------------------------------------
(* record_opt_in and record_opt_out lock the preference, not the Person.    *)
RecordConsent(p, state) ==
  /\ state \in {"OPTED_IN", "OPTED_OUT"} \ {consent[p]}
  /\ consent' = [consent EXCEPT ![p] = state]
  /\ UNCHANGED <<email, eligible>>

(* Archiving, restoring and editing a Person write its row.                 *)
Archive(p) ==
  /\ ~Locked(p)
  /\ eligible' = [eligible EXCEPT ![p] = ~@]
  /\ UNCHANGED <<email, consent>>

ChangeEmail(p, e) ==
  /\ MayChangeEmail /\ eligible[p] /\ ~Locked(p) /\ email[p] # e
  /\ email' = [email EXCEPT ![p] = e]
  /\ UNCHANGED <<eligible, consent>>

(* The recipient unsubscribes, bounces or is deleted at the provider.       *)
RecipientLeaves(e, status) ==
  /\ member[e] # "absent" /\ status \notin {"subscribed", member[e]}
  /\ member' = [member EXCEPT ![e] = status]

Outside ==
  /\ changes < MaxChanges /\ changes' = changes + 1
  /\ \/ /\ \E p \in Person : \/ \E state \in Consent : RecordConsent(p, state)
                             \/ Archive(p)
                             \/ \E e \in Email : ChangeEmail(p, e)
        /\ UNCHANGED member
     \/ /\ \E e \in Email, status \in MemberStatus : RecipientLeaves(e, status)
        /\ UNCHANGED crm
  /\ UNCHANGED <<reference, job, worker, crashes>>

Step(w) == Begin(w) \/ Read(w) \/ Write(w) \/ Attach(w) \/ Report(w)

Next ==
  \/ \E w \in Worker, p \in Person : Claim(w, p) \/ RunCommand(w, p)
  \/ \E w \in Worker : Step(w) \/ Crash(w)
  \/ \E p \in Person : GoStale(p)
  \/ Outside

Spec == Init /\ [][Next]_vars

(* The worker is run again and again and its calls end within 15 seconds;   *)
(* time passes.                                                             *)
Fairness ==
  /\ \A w \in Worker : WF_vars(Step(w)) /\ WF_vars(\E p \in Person : Claim(w, p))
  /\ \A p \in Person : WF_vars(GoStale(p) /\ ~job[p].stale)

FairSpec == Spec /\ Fairness

-----------------------------------------------------------------------------
Doing ==
  {Idle}
  \cup [step : {"claimed"}, person : Person, attempt : 0 .. MaxClaims]
  \cup [step : {"sync"}, person : Person, attempt : 0 .. MaxClaims,
        seen : {"OPTED_IN", "OPTED_OUT"}]
  \cup [step : {"write", "attach"}, person : Person, attempt : 0 .. MaxClaims,
        seen : {"OPTED_IN", "OPTED_OUT"}, found : MemberStatus]
  \cup [step : {"report"}, person : Person, attempt : 0 .. MaxClaims,
        result : {"done", "retry", "failed"}]

TypeOK ==
  /\ email \in [Person -> Email] /\ eligible \in [Person -> BOOLEAN]
  /\ consent \in [Person -> Consent]
  /\ reference \in [Person -> Email \cup {None}]
  /\ member \in [Email -> MemberStatus]
  /\ job \in [Person -> [status : JobStatus, attempts : 0 .. MaxClaims, stale : BOOLEAN]]
  /\ worker \in [Worker -> Doing]
  /\ changes \in 0 .. MaxChanges /\ crashes \in 0 .. MaxCrashes

(* A synchronization subscribes an address only if it had no contact, and   *)
(* only for an eligible Person with that address whose opt-in it has read:  *)
(* an unsubscribed or bounced contact never comes back, whatever the worker *)
(* read before, and a Person cannot be archived or given another address    *)
(* under the call (sync.py:134, :144, :63).  Consent is as it was read: an  *)
(* opt-out that is recorded after that does not stop the call (sync.py:76). *)
OnlyNewContactsAreSubscribed ==
  [][\A e \in Email : member[e] # "subscribed" /\ member'[e] = "subscribed" =>
       /\ member[e] = "absent"
       /\ \E w \in Worker : /\ worker[w].step = "write" /\ worker[w].seen = "OPTED_IN"
                            /\ email[worker[w].person] = e /\ eligible[worker[w].person]]_vars

(* Two synchronizations of one Person never overlap in their transactions,  *)
(* also when the job was recovered from a worker that was only slow         *)
(* (sync.py:63).                                                            *)
OneSyncPerPerson ==
  \A v, w \in Worker :
    v # w /\ {worker[v].step, worker[w].step} \subseteq {"sync", "write", "attach"} =>
      worker[v].person # worker[w].person

Ends(w) ==
  worker[w].step \in {"sync", "attach"} /\ worker'[w].step = "report" /\ worker'[w].result = "done"

Alone(p) == \A q \in Person \ {p} : email[q] # email[p]

(* When a synchronization that read an opt-out succeeds, no contact of its  *)
(* Person is subscribed: neither the one at the address nor the one the     *)
(* reference names (sync.py:87, :112-125).                                  *)
OptOutApplied ==
  [][\A w \in Worker : LET p == worker[w].person IN
       Ends(w) /\ worker[w].seen = "OPTED_OUT" /\ Alone(p) =>
         \A e \in Email \cap {email[p], reference'[p]} : member'[e] # "subscribed"]_vars

(* A synchronization that reached the provider and succeeds has linked the  *)
(* contact to the Person, and to no other, when two People with one address *)
(* are synchronized at once (attach_person_reference).                      *)
LinkedToOne ==
  [][\A w \in Worker : LET p == worker[w].person IN
       worker[w].step = "attach" /\ Ends(w) =>
         {q \in Person : reference'[q] = email[p]} = {p}]_vars

(* What they rest on: a Person is not archived under a synchronization;     *)
(* without changes of addresses a reference names the contact at the        *)
(* address; and where an opt-out is about to be reported it is made.        *)
SyncedAreEligible ==
  \A w \in Worker : worker[w].step \in {"sync", "write", "attach"} => eligible[worker[w].person]

OwnContactsOnly == ~MayChangeEmail => \A p \in Person : reference[p] \in {None, email[p]}

OptOutsAreMade ==
  ~MayChangeEmail => \A w \in Worker : LET p == worker[w].person IN
    worker[w].step = "attach" /\ worker[w].seen = "OPTED_OUT" /\ Alone(p) =>
      member[email[p]] # "subscribed"

(* The inductive invariant.                                                 *)
IInv == /\ TypeOK /\ OneSyncPerPerson /\ SyncedAreEligible
        /\ OwnContactsOnly /\ OptOutsAreMade

(* Every job ends, also one whose worker died (jobs.py:76).                 *)
EveryJobEnds ==
  \A p \in Person : <>[](job[p].status \in {"SUCCEEDED", "FAILED"})
=============================================================================
