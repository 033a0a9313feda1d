----------------------------- MODULE ConsentSync -----------------------------
(***************************************************************************)
(* Email marketing consent and the Person's profile on their way from the  *)
(* CRM to the Brevo contact: marketing_preferences.services and the Person *)
(* edit (producers), brevo_marketing.jobs and .sync (the workers), Brevo   *)
(* itself and its unsubscribe webhook.                                     *)
(*                                                                         *)
(* The queue is the one of SyncJobQueue without its clock: a retry may be  *)
(* claimed at any later time, jobs in any order, and a lock may go stale   *)
(* as soon as nobody holds the job or, if a worker stalls, at any time: in a *)
(* behaviour either workers may stall, or all of them are in time.  A Person *)
(* has one e-mail address of their own, so a contact belongs to the        *)
(* Person; contacts shared by or moved between People are not modelled.    *)
(***************************************************************************)
EXTENDS Naturals

CONSTANTS Person, Worker,
          NoOwner,      \* stands for "nobody" where a worker is expected
          MaxJobs,      \* bound: how many jobs are ever enqueued
          MaxEdits,     \* bound: how many times a profile is edited
          MaxAttempts,  \* ExternalPersonSyncJob.max_attempts
          MaxCrashes    \* bound: how many times a worker dies holding a job

ASSUME ConsentAssumption ==
  /\ {MaxJobs, MaxEdits, MaxCrashes} \subseteq Nat
  /\ MaxAttempts \in Nat \ {0}
  /\ Person # {}
  /\ NoOwner \notin Worker

VARIABLES consent,    \* consent[p]: the effective MarketingPreference
          person,     \* person[p]: the columns of the Person the sync reads
          reference,  \* reference[p]: does p have an ExternalPersonReference
          contact,    \* contact[p]: the Brevo contact with p's address
          event,      \* event[p]: an unsubscribe event not yet delivered
          job, worker, crashes,
          stalls,     \* may a live worker outlive the stale window?
          inflight,   \* inflight[j]: requests of job j the client gave up on
          adrift      \* history: the kinds of data the queue has let go of, see below

vars == <<consent, person, reference, contact, event, job, worker, crashes,
          inflight, adrift, stalls>>
crmVars == <<consent, person>>
queueVars == <<job, worker, crashes>>
brevoVars == <<contact, event, inflight>>

Job == 1..MaxJobs
Kind == {"preference", "profile"}
Done == {"SUCCEEDED", "FAILED"}
Request == [create : BOOLEAN, block : BOOLEAN, list : BOOLEAN, attributes : BOOLEAN,
            profile : 0..MaxEdits]

Consent == [state : {"UNKNOWN", "OPTED_IN", "OPTED_OUT"}, source : {"NONE", "STAFF", "BREVO"}]
PersonRow == [archived : BOOLEAN, email : BOOLEAN, profile : 0..MaxEdits]
Contact == [exists : BOOLEAN, inList : BOOLEAN, blocked : BOOLEAN,
            unsubscribed : BOOLEAN, profile : 0..MaxEdits]
Row == [status : {"NEW", "PENDING", "PROCESSING"} \cup Done, kind : Kind,
        person : Person, attempts : 0..MaxAttempts]
Hand == [pc : {"idle", "claimed", "calling", "attaching", "synced"}, job : Job \cup {0},
         attempts : 0..MaxAttempts, seen : {"UNKNOWN", "OPTED_IN", "OPTED_OUT"},
         result : {"none", "ok", "temporary", "permanent"}]
Idle == [pc |-> "idle", job |-> 0, attempts |-> 0, seen |-> "UNKNOWN", result |-> "none"]
Absent == [exists |-> FALSE, inList |-> FALSE, blocked |-> FALSE,
           unsubscribed |-> FALSE, profile |-> 0]

(* Brevo may already know the address, as a plain contact or a restricted   *)
(* one.                                                                    *)
Init ==
  /\ consent = [p \in Person |-> [state |-> "UNKNOWN", source |-> "NONE"]]
  /\ person = [p \in Person |-> [archived |-> FALSE, email |-> TRUE, profile |-> 0]]
  /\ reference = [p \in Person |-> "none"]
  /\ contact \in [Person -> {Absent, [Absent EXCEPT !.exists = TRUE],
                             [Absent EXCEPT !.exists = TRUE, !.inList = TRUE],
                             [Absent EXCEPT !.exists = TRUE, !.blocked = TRUE]}]
  /\ event = [p \in Person |-> FALSE]
  /\ job = [j \in Job |-> [status |-> "NEW", kind |-> "preference",
                           person |-> CHOOSE p \in Person : TRUE, attempts |-> 0]]
  /\ worker = [w \in Worker |-> Idle]
  /\ crashes = 0
  /\ stalls \in BOOLEAN
  /\ inflight = [j \in Job |-> {}]
  /\ adrift = [p \in Person |-> {}]

-----------------------------------------------------------------------------
(* The Person the worker's job is about, and the Person row locks: they are *)
(* held by the synchronization transactions that are open.                  *)
PersonOf(w) == job[worker[w].job].person
Syncing(w) == worker[w].pc \in {"calling", "attaching"}
Unlocked(p) == \A w \in Worker : Syncing(w) => PersonOf(w) # p

Free(j) == job[j].status = "NEW" /\ \A i \in Job : i < j => job[i].status # "NEW"
NewRow(p, kind) == [status |-> "PENDING", kind |-> kind, person |-> p, attempts |-> 0]
Enqueue(p, kind) == \E j \in Job : Free(j) /\ job' = [job EXCEPT ![j] = NewRow(p, kind)]

(* Mutation of EnqueueCoalesced: a job that is being worked on counts too.  *)
EnqueueCoalescedWithRunning(p, kind) ==
  IF \E j \in Job : /\ job[j].status \in {"PENDING", "PROCESSING"}
                    /\ job[j].kind = kind /\ job[j].person = p
  THEN UNCHANGED job ELSE Enqueue(p, kind)

EnqueueCoalesced(p, kind) ==
  IF \E j \in Job : /\ job[j].status = "PENDING"
                    /\ job[j].kind = kind /\ job[j].person = p
  THEN UNCHANGED job ELSE Enqueue(p, kind)

-----------------------------------------------------------------------------
(* Mutation of RecordPreference: no job of its own while one is open.       *)
RecordPreferenceCoalesced(p, state) ==
  /\ consent[p] # [state |-> state, source |-> "STAFF"]
  /\ consent' = [consent EXCEPT ![p] = [state |-> state, source |-> "STAFF"]]
  /\ EnqueueCoalescedWithRunning(p, "preference")
  /\ UNCHANGED <<person, reference, brevoVars, worker, crashes, adrift>>

(* Staff records an explicit preference.  The writer locks the preference,  *)
(* not the Person, and is therefore not held up by a synchronization here;  *)
(* that PostgreSQL would have the new job's foreign key wait for the        *)
(* Person's lock is nothing the properties below rely on.  Repeating the    *)
(* same state from the same source changes nothing.                        *)
RecordPreference(p, state) ==
  /\ consent[p] # [state |-> state, source |-> "STAFF"]
  /\ consent' = [consent EXCEPT ![p] = [state |-> state, source |-> "STAFF"]]
  /\ Enqueue(p, "preference")
  /\ UNCHANGED <<person, reference, brevoVars, worker, crashes, adrift>>

(* The unsubscribe event arrives, possibly late, and finds the Person by    *)
(* the address, if it is still there.  A change that comes from the         *)
(* provider is not sent back to it.                                         *)
ReceiveUnsubscribe(p) ==
  /\ event[p]
  /\ event' = [event EXCEPT ![p] = FALSE]
  /\ consent' = IF person[p].email
                THEN [consent EXCEPT ![p] = [state |-> "OPTED_OUT", source |-> "BREVO"]]
                ELSE consent
  /\ UNCHANGED <<person, reference, contact, inflight, queueVars, adrift>>

(* PATCH of a Person: a name or a mobile number changes, or the e-mail      *)
(* address is removed or entered again.                                     *)
EditPerson(p) ==
  /\ Unlocked(p)
  /\ ~person[p].archived
  /\ \/ /\ person[p].profile < MaxEdits
        /\ person' = [person EXCEPT ![p].profile = @ + 1]
     \/ person' = [person EXCEPT ![p].email = ~@]
  /\ EnqueueCoalesced(p, "profile")
  /\ UNCHANGED <<consent, reference, brevoVars, worker, crashes, adrift>>

ArchiveOrRestore(p) ==
  /\ Unlocked(p)
  /\ person' = [person EXCEPT ![p].archived = ~@]
  /\ UNCHANGED <<consent, reference, brevoVars, queueVars, adrift>>

-----------------------------------------------------------------------------
(* adrift[p] records where the code gives up: the last preference or        *)
(* profile job of p was finished by a skip or failed, or a request that     *)
(* arrived late left something behind that no waiting job will look at.     *)
(*                                                                         *)
(* Brevo, as far as the code relies on it.  Both restrictions protect a     *)
(* contact; a campaign reaches the contacts of the list that have neither.  *)
Protected(c) == c.blocked \/ c.unsubscribed
Marketable(c) == c.exists /\ c.inList /\ ~Protected(c)

New(req) == [Absent EXCEPT !.exists = TRUE, !.inList = TRUE, !.profile = req.profile]

(* Mutation of Applied: creating a contact that exists overwrites it.       *)
AppliedAsUpsert(req, c) ==
  IF req.create THEN New(req)
  ELSE IF ~c.exists THEN c
  ELSE [c EXCEPT !.blocked = @ \/ req.block, !.inList = @ \/ req.list,
                 !.profile = IF req.attributes THEN req.profile ELSE @]

(* create_contact: the address, the attributes and the list; refused when   *)
(* the contact exists.  update_contact: only the fields that are sent.      *)
Applied(req, c) ==
  IF req.create THEN IF c.exists THEN c ELSE New(req)
  ELSE IF ~c.exists THEN c
  ELSE [c EXCEPT !.blocked = @ \/ req.block, !.inList = @ \/ req.list,
                 !.profile = IF req.attributes THEN req.profile ELSE @]

(* The recipient unsubscribes, from the list or from all campaigns.         *)
Unsubscribe(p) ==
  /\ contact[p].exists /\ ~Protected(contact[p])
  /\ \/ contact' = [contact EXCEPT ![p].blocked = TRUE]
     \/ contact' = [contact EXCEPT ![p].inList = FALSE, ![p].unsubscribed = TRUE]
  /\ event' = [event EXCEPT ![p] = TRUE]
  /\ UNCHANGED <<crmVars, reference, queueVars, inflight, adrift>>

(* Somebody deletes the contact in Brevo: the id in the reference will not  *)
(* be found again, not even if the contact is created anew.  Assumed: not   *)
(* while an event of its is on the way or a synchronization is under way.   *)
DeleteContact(p) ==
  /\ contact[p].exists /\ ~event[p] /\ Unlocked(p)
  /\ contact' = [contact EXCEPT ![p] = Absent]
  /\ reference' = [reference EXCEPT ![p] = IF @ = "linked" THEN "dangling" ELSE @]
  /\ UNCHANGED <<crmVars, queueVars, event, inflight, adrift>>

Open(j) == job[j].status \in {"PENDING", "PROCESSING"}

(* Some preference job of p has yet to look at the contact.                 *)
WillLook(p) == \E j \in Job :
  /\ Open(j) /\ job[j].kind = "preference" /\ job[j].person = p
  /\ \A w \in Worker : worker[w].job = j => worker[w].pc = "claimed"

(* A request the client gave up on reaches Brevo after all, or never does.  *)
Arrive(j) ==
  LET p == job[j].person IN
  \E req \in inflight[j] :
     /\ inflight' = [inflight EXCEPT ![j] = @ \ {req}]
     /\ \/ UNCHANGED <<contact, adrift>>
        \/ /\ contact' = [contact EXCEPT ![p] = Applied(req, @)]
           /\ adrift' = [adrift EXCEPT ![p] = @
                \cup (IF WillLook(p) THEN {} ELSE {"preference"})
                \cup (IF req.profile = person[p].profile THEN {} ELSE {"profile"})]
     /\ UNCHANGED <<crmVars, reference, queueVars, event>>

-----------------------------------------------------------------------------
(* Worker: claim.                                                           *)
Held(j) == \E w \in Worker : worker[w].pc # "idle" /\ worker[w].job = j

(* Mutation of Recoverable: the age of the lock is not looked at.           *)
RecoverableAtAnyAge == {j \in Job : job[j].status = "PROCESSING"}

Recoverable == {j \in Job : job[j].status = "PROCESSING" /\ (stalls \/ ~Held(j))}

(* Attempts beyond max_attempts act alike and are not told apart.           *)
OneMore(n) == IF n < MaxAttempts THEN n + 1 ELSE n

(* Stale locks are recovered and a pending job is claimed.  Assumed: what   *)
(* an earlier attempt left in flight has arrived or is lost when the retry  *)
(* delay or the stale window is over.                                      *)
Claim(w) ==
  /\ worker[w].pc = "idle"
  /\ \E R \in SUBSET Recoverable, j \in Job :
       /\ job[j].status = "PENDING" \/ j \in R
       /\ inflight[j] = {}
       /\ job' = [i \in Job |->
                    IF i = j THEN [job[i] EXCEPT !.status = "PROCESSING", !.attempts = OneMore(@)]
                    ELSE IF i \in R THEN [job[i] EXCEPT !.status = "PENDING"] ELSE job[i]]
       /\ worker' = [worker EXCEPT ![w] = [Idle EXCEPT !.pc = "claimed", !.job = j,
                                                       !.attempts = job'[j].attempts]]
  /\ UNCHANGED <<crmVars, reference, brevoVars, crashes, adrift>>

(* Worker: open the synchronization transaction, lock the Person, read the  *)
(* CRM.  Reading and skipping commit at once, everything else holds the     *)
(* lock across the requests to Brevo.                                      *)
Answer(w, r) == worker' = [worker EXCEPT ![w].pc = "synced", ![w].result = r]

Ineligible(p) == person[p].archived \/ ~person[p].email

BeginPreference(w) ==
  LET p == PersonOf(w) IN
  /\ worker[w].pc = "claimed" /\ job[worker[w].job].kind = "preference"
  /\ Unlocked(p)
  /\ IF Ineligible(p) \/ consent[p].state = "UNKNOWN"
     THEN Answer(w, "ok") /\ adrift' = [adrift EXCEPT ![p] = @ \cup {"preference"}]
     ELSE /\ worker' = [worker EXCEPT ![w].pc = "calling", ![w].seen = consent[p].state]
          /\ UNCHANGED adrift
  /\ UNCHANGED <<crmVars, reference, brevoVars, job, crashes>>

BeginProfile(w) ==
  LET p == PersonOf(w) IN
  /\ worker[w].pc = "claimed" /\ job[worker[w].job].kind = "profile"
  /\ Unlocked(p)
  /\ IF person[p].archived \/ reference[p] = "none"
     THEN Answer(w, "ok") /\ adrift' = [adrift EXCEPT ![p] = @ \cup {"profile"}]
     ELSE /\ worker' = [worker EXCEPT ![w].pc = "calling"]
          /\ UNCHANGED adrift
  /\ UNCHANGED <<crmVars, reference, brevoVars, job, crashes>>

-----------------------------------------------------------------------------
KindOf(w) == job[worker[w].job].kind

(* What one synchronization sends to Brevo, given the consent it read and   *)
(* the contact it fetched.                                                 *)
Wanted(kind, seen, c, profile) ==
  LET optedIn == kind = "preference" /\ seen = "OPTED_IN" /\ ~Protected(c) IN
  [create |-> optedIn /\ ~c.exists,
   block |-> kind = "preference" /\ seen = "OPTED_OUT" /\ c.exists /\ ~Protected(c),
   list |-> optedIn /\ c.exists /\ ~c.inList,
   attributes |-> (optedIn \/ kind = "profile") /\ c.exists /\ c.profile # profile,
   profile |-> profile]

RequestOf(w) == LET p == PersonOf(w) IN
  Wanted(KindOf(w), worker[w].seen, contact[p], person[p].profile)

Sends(w) == LET req == RequestOf(w) IN req.create \/ req.block \/ req.list \/ req.attributes

(* RECONCILIATION_REQUIRED or an identity conflict: the linked contact is   *)
(* gone, or a profile has no usable address to compare with the contact's.  *)
Irreconcilable(w) == LET p == PersonOf(w) IN
  \/ reference[p] = "dangling"
  \/ KindOf(w) = "profile" /\ ~person[p].email

Reconcile(w) ==
  /\ worker[w].pc = "calling" /\ Irreconcilable(w)
  /\ Answer(w, "permanent")
  /\ UNCHANGED <<crmVars, reference, brevoVars, job, crashes, adrift>>

(* The contact is fetched and, if needed, created or updated.  The two      *)
(* requests are one step: what a recipient does in between only restricts   *)
(* the contact, and no request lifts a restriction.                         *)
CallBrevo(w) ==
  LET p == PersonOf(w)
      c == Applied(RequestOf(w), contact[p]) IN
  /\ worker[w].pc = "calling" /\ ~Irreconcilable(w)
  /\ contact' = [contact EXCEPT ![p] = c]
  /\ adrift' = [adrift EXCEPT ![p] = @ \ {KindOf(w)}]
  /\ IF KindOf(w) = "preference" /\ c.exists
     THEN worker' = [worker EXCEPT ![w].pc = "attaching"]
     ELSE Answer(w, "ok")
  /\ UNCHANGED <<crmVars, reference, event, inflight, job, crashes>>

(* Brevo or the network refuses a request, for the moment or for good.      *)
CallRefused(w) ==
  /\ worker[w].pc = "calling"
  /\ \E r \in {"temporary", "permanent"} : Answer(w, r)
  /\ UNCHANGED <<crmVars, reference, brevoVars, job, crashes, adrift>>

(* The client does not learn what became of its request: it times out, or  *)
(* the look at the contact after its creation fails.                       *)
GiveUp(w) == inflight' = [inflight EXCEPT ![worker[w].job] = @ \cup {RequestOf(w)}]

CallUnanswered(w) ==
  /\ worker[w].pc = "calling" /\ ~Irreconcilable(w) /\ Sends(w)
  /\ GiveUp(w)
  /\ \E r \in {"temporary", "permanent"} : Answer(w, r)
  /\ UNCHANGED <<crmVars, reference, contact, event, job, crashes, adrift>>

(* attach_person_reference and commit, or a database error and rollback:    *)
(* what Brevo was told stays.                                              *)
AttachReference(w) ==
  /\ worker[w].pc = "attaching"
  /\ \/ /\ reference' = [reference EXCEPT ![PersonOf(w)] = "linked"]
        /\ Answer(w, "ok")
     \/ /\ Answer(w, "temporary")
        /\ UNCHANGED reference
  /\ UNCHANGED <<crmVars, brevoVars, job, crashes, adrift>>

-----------------------------------------------------------------------------
(* Mutation of Outcome: errors of every kind count as handled.              *)
OutcomeOfAnyError(result, attempts) == "SUCCEEDED"

Outcome(result, attempts) ==
  CASE result = "ok" -> "SUCCEEDED"
    [] result = "permanent" -> "FAILED"
    [] result = "temporary" -> IF attempts >= MaxAttempts THEN "FAILED" ELSE "PENDING"

(* The result is written over whatever the row has become meanwhile.        *)
Complete(w) ==
  LET h == worker[w] IN
  /\ h.pc = "synced"
  /\ job' = [job EXCEPT ![h.job].status = Outcome(h.result, h.attempts)]
  /\ worker' = [worker EXCEPT ![w] = Idle]
  /\ adrift' = [adrift EXCEPT ![PersonOf(w)] = @
       \cup (IF job'[h.job].status = "FAILED" THEN {KindOf(w)} ELSE {})]
  /\ UNCHANGED <<crmVars, reference, brevoVars, crashes>>

(* The worker dies; its transaction is rolled back, a request it had sent   *)
(* may still arrive.                                                       *)
Crash(w) ==
  /\ worker[w].pc # "idle" /\ crashes < MaxCrashes
  /\ crashes' = crashes + 1
  /\ worker' = [worker EXCEPT ![w] = Idle]
  /\ \/ UNCHANGED inflight
     \/ worker[w].pc = "calling" /\ ~Irreconcilable(w) /\ Sends(w) /\ GiveUp(w)
  /\ UNCHANGED <<crmVars, reference, contact, event, job, adrift>>

-----------------------------------------------------------------------------
Work(w) == \/ Claim(w) \/ BeginPreference(w) \/ BeginProfile(w)
           \/ Reconcile(w) \/ CallBrevo(w) \/ CallRefused(w) \/ CallUnanswered(w)
           \/ AttachReference(w) \/ Complete(w)

Staff(p) == \/ \E s \in {"OPTED_IN", "OPTED_OUT"} : RecordPreference(p, s)
            \/ EditPerson(p) \/ ArchiveOrRestore(p)

Brevo(p) == Unsubscribe(p) \/ DeleteContact(p)

Next == /\ UNCHANGED stalls
        /\ \/ \E w \in Worker : Work(w) \/ Crash(w)
           \/ \E p \in Person : Staff(p) \/ Brevo(p) \/ ReceiveUnsubscribe(p)
           \/ \E j \in Job : Arrive(j)

Spec == Init /\ [][Next]_vars

-----------------------------------------------------------------------------
(* Types; a worker that is busy has a job that exists, and nothing is known *)
(* of a contact that does not.                                             *)
TypeOK ==
  /\ consent \in [Person -> Consent]
  /\ person \in [Person -> PersonRow]
  /\ reference \in [Person -> {"none", "linked", "dangling"}]
  /\ contact \in [Person -> Contact]
  /\ event \in [Person -> BOOLEAN]
  /\ job \in [Job -> Row]
  /\ worker \in [Worker -> Hand]
  /\ crashes \in Nat
  /\ stalls \in BOOLEAN
  /\ inflight \in [Job -> SUBSET Request]
  /\ adrift \in [Person -> SUBSET Kind]
  /\ \A w \in Worker : worker[w].pc # "idle" => worker[w].job # 0 /\ job[worker[w].job].status # "NEW"
  /\ \A p \in Person : ~contact[p].exists => contact[p] = Absent
  /\ \A p \in Person : reference[p] = "linked" => contact[p].exists

Waiting(p, kind) == \E j \in Job : Open(j) /\ job[j].person = p /\ job[j].kind = kind

(* Whenever the CRM says OPTED_OUT and Brevo would still send campaigns to  *)
(* the contact, a preference job of the Person is waiting or running,       *)
(* however slow the workers are, in whatever order they run the jobs of the *)
(* same Person, and although the preference may change in the middle of a   *)
(* synchronization.  The exceptions are adrift.                             *)
OptOutReachesBrevo ==
  \A p \in Person : consent[p].state = "OPTED_OUT" /\ Marketable(contact[p])
    => Waiting(p, "preference") \/ "preference" \in adrift[p]

(* The profile a linked contact has is the Person's, or a profile job is    *)
(* still to run: an edit that is coalesced into a waiting job is not lost.  *)
ProfileReachesBrevo ==
  \A p \in Person : reference[p] = "linked" /\ contact[p].profile # person[p].profile
    => Waiting(p, "profile") \/ "profile" \in adrift[p]

(* It is not, as long as workers record their results in time.              *)
ProfileReachesBrevoInTime == ~stalls => ProfileReachesBrevo

(* No step of the system, not even a request that arrives long after the    *)
(* decision to send it, lifts a restriction of an existing contact.         *)
NeverResubscribes ==
  [][\A p \in Person : contact[p].exists /\ contact'[p].exists /\ Protected(contact[p])
       => Protected(contact'[p])]_vars

(* "OPTED_OUT: [...] marketing must not be sent": an active Person with a   *)
(* usable address who has opted out is not in the campaigns' reach, unless  *)
(* a preference job is waiting, running or reported as failed.              *)
OptedOutNotMarketed ==
  \A p \in Person : consent[p].state = "OPTED_OUT" /\ ~Ineligible(p) /\ Marketable(contact[p])
    => \E j \in Job : job[j].person = p /\ job[j].kind = "preference"
                      /\ job[j].status \in {"PENDING", "PROCESSING", "FAILED"}

(* What OptOutReachesBrevo rests on.  A worker that is done with a job no   *)
(* longer has it, one that is to report has a result.  An unsubscribe event *)
(* on the way is of a contact that is protected.  A worker that calls Brevo *)
(* about a preference knows one.                                            *)
HandsAreSound == \A w \in Worker :
  /\ worker[w].pc = "idle" => worker[w].job = 0
  /\ worker[w].pc = "synced" => worker[w].result # "none"
EventsAreOfProtected == \A p \in Person : event[p] => contact[p].exists /\ Protected(contact[p])
CallersHaveSeen == \A w \in Worker :
  worker[w].pc = "calling" /\ KindOf(w) = "preference" => worker[w].seen # "UNKNOWN"

(* A contact is attached for a preference, and exists until it is.          *)
AttachingFound == \A w \in Worker :
  worker[w].pc = "attaching" => KindOf(w) = "preference" /\ contact[PersonOf(w)].exists

(* A worker that still believes in an opt-in that has been withdrawn finds  *)
(* the contact protected, or a job that is yet to look comes after it.      *)
StaleOptInIsFollowed == \A w \in Worker :
  worker[w].pc = "calling" /\ KindOf(w) = "preference" /\ worker[w].seen = "OPTED_IN"
  /\ consent[PersonOf(w)].state = "OPTED_OUT"
    => \/ WillLook(PersonOf(w))
       \/ contact[PersonOf(w)].exists /\ Protected(contact[PersonOf(w)])

(* An open preference job of p whose end, whoever brings it about, leaves   *)
(* the contact restricted, the job pending or the Person adrift.            *)
WillSettle(p) == \E j \in Job :
  /\ Open(j) /\ job[j].kind = "preference" /\ job[j].person = p
  /\ \A w \in Worker : worker[w].job = j =>
       \/ worker[w].pc = "claimed"
       \/ worker[w].pc = "calling" /\ worker[w].seen = "OPTED_OUT"
       \/ worker[w].pc = "synced" /\ worker[w].result # "ok"

OptOutWillReachBrevo ==
  \A p \in Person : consent[p].state = "OPTED_OUT" /\ Marketable(contact[p])
    => WillSettle(p) \/ "preference" \in adrift[p]

(* The inductive invariant: every step keeps it, from any state it holds in. *)
IInv == /\ TypeOK /\ HandsAreSound /\ EventsAreOfProtected /\ CallersHaveSeen
        /\ AttachingFound /\ StaleOptInIsFollowed /\ OptOutWillReachBrevo

(* The same for profiles, when workers record their results in time.  A job *)
(* that is held is PROCESSING and has one holder; and a contact that lags   *)
(* behind has a job that is not settled until the contact is brought up.    *)
HeldByOne == \A w \in Worker : worker[w].pc # "idle" =>
  /\ job[worker[w].job].status = "PROCESSING"
  /\ \A v \in Worker : worker[v].pc # "idle" /\ worker[v].job = worker[w].job => v = w

WillUpdate(p) == \E j \in Job :
  /\ Open(j) /\ job[j].kind = "profile" /\ job[j].person = p
  /\ \A w \in Worker : worker[w].job = j /\ worker[w].pc = "synced" => worker[w].result # "ok"

ProfileWillReachBrevo ==
  \A p \in Person : contact[p].exists /\ contact[p].profile # person[p].profile
    => WillUpdate(p) \/ "profile" \in adrift[p]

IInvInTime == IInv /\ (~stalls => HeldByOne /\ ProfileWillReachBrevo)

(* Who holds a job, as JobLease sees it, and its promise, which the queue   *)
(* keeps as long as workers are in time.                                    *)
Owner(j) == IF Held(j) THEN CHOOSE w \in Worker : worker[w].pc # "idle" /\ worker[w].job = j
                       ELSE NoOwner
Lease == INSTANCE JobLease
  WITH status <- [j \in Job |-> IF stalls THEN "NEW" ELSE job[j].status],
       owner <- [j \in Job |-> IF stalls THEN NoOwner ELSE Owner(j)]
LeaseInTime == Lease!Spec
=============================================================================
