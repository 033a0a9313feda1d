# Formal models of the Elevate MK CRM API

TLA+ models, TLC configurations and TLAPS proofs about the repository in `../src`
(Django REST + PostgreSQL, one web service, one long-running queue worker).

## 1. Inventory of the system

The web service runs request handlers concurrently, each in its own
transactions (READ COMMITTED, no `ATOMIC_REQUESTS`, row locks by
`select_for_update`). `manage.py process_brevo_sync_jobs --watch` is a separate
process; nothing prevents a second one, and staff may run the command by hand.

| component | state | operations | hard behaviour | what makes it correct | modules |
|---|---|---|---|---|---|
| `brevo_marketing.jobs`, `external_references` (queue) | `ExternalPersonSyncJob` rows; the claimed row in the worker's memory; the batch | enqueue, enqueue coalesced, claim (with stale-lock recovery), succeed, retry, fail; the watch loop | lease by age of a lock; last write is unconditional; crash between three transactions | one worker per job, blind writes hit the claimed row, attempts bounded, finished is final, every job finishes, a stop is obeyed | `SyncJobQueue`, `JobLease`, `SyncWorker` |
| `brevo_marketing.sync`, `.client` | the Brevo contact, `ExternalPersonReference` | synchronize preference, synchronize profile | HTTP requests inside a transaction, lost answers, jobs of one Person out of order | an opt-out reaches Brevo, restrictions are never lifted, no edit is lost | `ConsentSync` |
| `mailchimp` | the same job table, the Mailchimp members | the queue and the sync of a provider that is no longer routed to | the provider is called between two reads, two People share an address | a contact is linked to one Person, only new contacts are subscribed, and on an opt-in that was read | `MailchimpSync` |
| `marketing_preferences.services` | `MarketingPreference`, its history | record opt-in / opt-out, from staff or from Brevo | first insert races, echo suppression | current row = newest history row, each history row is news | `ConsentSync`, `UnsubscribeWebhook` |
| `brevo_marketing.webhooks` | `MarketingWebhookReceipt` | handle unsubscribe event | redelivery, overlapping deliveries, answer lost after commit | an acknowledged event is kept, an event changes consent at most once, every event is acknowledged | `UnsubscribeWebhook` |
| `people` (writes) | `Person` | create, create member, patch, archive, restore | the duplicate check is check-then-insert | every duplicate BUSINESS identity was reviewed or raced | `IdentityPolicy`, `PersonIdentity` |
| `people`, `dashboard`, `marketing_preferences.audience` (reads) | none | directory, overview, audience, dashboard counts | the same question is asked by queries written apart; pages move | the reads agree, the pages lose nobody | `PeopleDirectory` |
| `audit` | `AuditEvent` | append, read a Person's history | page by page while events are written | no event is missed, viewers learn nothing of notes | `PersonRecords`, `AuditHistory` |
| `memberships`, `tags`, `notes`, `skills`, `interests`, `professional_profiles` | rows that belong to a Person | attach, remove, edit, end, archive, restore | archive racing an edit, two edits at once | nothing of an archived Person changes, the audit events form a chain | `PersonRecords` |
| `data_imports` | `ImportBatch`, `ImportRecord` | upload, stage, analyze, resolve, import (Membership Form, Eventbrite) | stale review evidence, concurrent import, crash between transactions, rows that meet each other | imported at most once, only after review, only blanks filled | `HistoricalImport`, `ImportLifecycle`, `ImportRows`, `IdentityPolicy` |
| `events` | `Event`, `EventParticipation`, `ExternalEventReference` | get-or-create | concurrent get-or-create, deadlock | one Event per provider id, one participation per Person and Event | `EventReferences` |
| `staff_access` | `StaffRole`, `StaffRoleAssignment` | assign, revoke, reactivate, switch a role, save the change form | two revocations of the last two admins | an effective CRM admin remains, the audit trail says who is active | `StaffAccess` |
| `accounts` | users, sessions, recovery links | login at the API and at `/admin/`, logout, recovery, the change form of an account, `createsuperuser` | a recovery in the middle of a login or of a change form | no session survives a recovery unless a form undoes it, one account per address | `AccountSessions`, `AccountCreation` |
| `notifications`, `config` | none | one mail, settings | - | - | - |

Interactions: a staff preference change commits together with its history row,
its audit event and a sync job; a Person edit commits together with a
*coalesced* profile job; the worker claims the job in one transaction,
synchronizes in a second one that holds the Person row lock across the HTTP
requests, and records the result in a third; Brevo reports an unsubscribe to the
webhook, which writes the preference through the same service but suppresses
the job, so that no echo goes back. An import locks its batch, the matched People
and the event references, and uses the identity policy of the People API. Every change
of a Person or a role writes its audit event in the same transaction.

## 2. Modules

Each component module is a specification of its own. The `MC*` modules are small instances for
TLC. Where several components are checked by one run, the `MC` module instantiates each of them on variables of
its own; a behaviour picks the part that is at work at the start, and the others
stay in a state in which they have nothing to do. These parts share no state at
the grain they are modelled at, so their interleavings would say nothing the parts do
not say by themselves. A component is instantiated as it is, or together with what is proved about it
(`PersonIdentityProofs`, `AccountSessionsProofs`), and each proof module of a run extends its `MC` module, so that
the last theorems there are about the very properties that the run checks, of all parts at once.
Components that do interact are in one module:
queue, preference, profile, reference and contact in `ConsentSync`; webhook, staff API and
receipts in `UnsubscribeWebhook`; upload, analysis, review, import and the People in
`HistoricalImport`; records, archive and audit in `PersonRecords`.

At the end of a component's module stands the inductive invariant that its proofs use
(`IInv`; `RowsInv`, `TurnsInv`, `WrittenInv`, `FitInv` and `EvidenceHolds` of `HistoricalImport`; `StageIsJudged` of
`ImportRows`; `IInvInTime` of `ConsentSync`; `LeavesOnce` of `UnsubscribeWebhook`). The runs check it too, so that TLC sees every part of it before and
independently of the proofs.

### SyncJobQueue, JobLease

`JobLease` is the abstract promise of the queue: an exclusive lease per job, no clocks, no
attempts. In `SyncJobQueue`, `job[j]` is the row with id `j`; `worker[w]` is the Python object
`job` between `_claim_next_job` and `_mark_succeeded` / `_record_retry` /
`_record_failure`, of which only the id, `attempts` and the result are used again (`lockedAt`
is kept to state the lease). Each transaction of `jobs.py` is one action:

- `Enqueue` - `enqueue_person_sync_job`. Coalescing is in `ConsentSync`.
- `Claim` - the recovery `UPDATE` and the claim of the first ready row by
  `(available_at, id)`. With a concurrent claimer PostgreSQL's
  `SELECT ... FOR UPDATE ... LIMIT 1` waits, rereads and takes the next row, which is
  what a claim after the other one would do. A claim that finds nothing changes at
  most stale rows to pending, which the next claim would do as well; it is a
  stutter.
- `Synchronize` - the second transaction, reduced to its result.
- `Complete` - the third transaction, `save(update_fields=...)` without any condition.
- `Crash` - the process dies with a job in hand, or an exception escapes to
  `run_brevo_sync_worker`, which logs it and goes on.
- `Tick` - a minute passes. Workers and database share one clock.

`Spec` lets a worker sleep for any time. `PromptSpec` adds the assumption that
the fifteen minutes stand for: a *live* worker records its result before its lock is
stale. Nothing in the code enforces this: the HTTP timeouts are those of the
client library, and the row lock on the Person may be waited for without limit.

### SyncWorker

The loop around the queue: `_validated_batch_size`, a batch of at most that many
claims, the results reported after the batch, the wait on the stop event. `Take` and
`Record` are the queue's transactions as the loop sees them. `BatchFails` is the exception
that `run_brevo_sync_worker` catches: it drops the results gathered so far and leaves the job
in hand `PROCESSING`. `watching` is `--watch`; without it the command ends after one batch.

### ConsentSync

One state per Person for the consent, the columns the sync reads, the reference,
the Brevo contact and an undelivered unsubscribe event; the queue is the
one of `SyncJobQueue` without its clock (retry delays may be over at any time, a lock
may go stale as soon as its worker is gone or, in behaviours that start with `stalls`, at any time),
checked against the same abstract `JobLease` (`Lease`, with `Owner` for who holds a job). The synchronization transaction
is cut where others can see the difference: lock and read
(`BeginPreference`, `BeginProfile`), the requests (`CallBrevo`, `CallRefused`,
`CallUnanswered`, `Reconcile`), the reference and the commit (`AttachReference`).
A request the client gave up on stays in `inflight` and may reach Brevo later
(`Arrive`). `adrift` is a history variable: the kinds of data of a Person the
code has let go of by a documented decision (skipped or failed job) or that a
late request left behind; the properties speak about everything else.

Abstractions and assumptions:

- a Person has an address of their own; a contact belongs to one Person (contacts
  shared by People and moving with an address are in `MailchimpSync`, whose reference check
  and `attach_person_reference` are the same);
- names and mobile number are one `profile` value. That an unsafe mobile number
  is omitted, and that only the profile sync clears a removed one, is not
  visible at this grain;
- the `GET` and the `POST`/`PUT` of a synchronization are one step: in between the
  recipient can only restrict the contact, and no request lifts a restriction;
- what a previous attempt left in flight has arrived or is lost when the same
  job is claimed again (at least a minute later, by the backoff or the stale window);
- Brevo deletes no contact while a synchronization of it or an unsubscribe event is
  under way;
- a staff preference change may commit during a synchronization of the Person.
  In PostgreSQL the deferred foreign-key check of the new job would wait for
  the Person's row lock; the model allows more than the database, and the
  properties hold all the same.

### MailchimpSync

The frozen provider: nothing enqueues its jobs any more, the ones that exist are processed
and a command synchronizes one Person (`RunCommand`). The synchronization is
cut at every call of the provider: `Begin` (lock the Person, read the preference), `Read`
(`get_member`, then the conflict check), `Write` (create, update, unsubscribe), `Attach`
(`attach_person_reference` and its conflicts). The answer of a call that Mailchimp carried out may be lost.
A member's id is its address. `MayChangeEmail` lets staff give a Person another
address between two synchronizations. A worker keeps the `attempt` of the row it claimed and decides by it whether to retry (0 is the
command, which has no row); it keeps the consent it has read (`seen`) until it writes. Retry delays are left out.

### UnsubscribeWebhook

`handle_unsubscribe_event` and `_record_explicit_preference` at the grain of their
READ COMMITTED statements. Where a `select_for_update` finds the preference row,
everything up to the commit is one step (the row lock is held); where it finds
none there is nothing to lock and the insert is a step of its own, which the unique
constraint lets fail when another insert was first (500; Brevo delivers
again). The receipt is read before and written after the change of consent, in the
same transaction; because the lookup of a receipt that does not exist locks
nothing, two deliveries of one event can both pass it. `Stamped` events
have a fingerprint, the others have not. All events are about one address;
`carriers` says which People have it, and since the duplicate check of
`people` is check-then-insert, there may be two.

### IdentityPolicy, PersonIdentity

`IdentityPolicy` holds the operators of `people.services`: matches by address and by number, the
duplicates among BUSINESS People, the evidence a reviewer confirms. A number is what it is and
how it is written, because the CRM's and the import's normalizations differ
(`CrmMobile`, `ImportMobile`). `PersonIdentity` has the requests of `people.views` that write an
identity: `CheckCreate` / `Create` and `CheckPatch` / `SavePatch` are the two halves of
a transaction, between which others commit; a patch holds the Person's row lock
from its check, a creation has nothing to lock. `raced` is a history variable: the pairs written by
transactions of which neither could see the other.

### HistoricalImport, ImportLifecycle, ImportRows

`ImportLifecycle` is what the documented batch states promise; `Lifecycle` is its instance on the statuses of
`HistoricalImport`, `Revives` the one step they take beyond it (section 4, 6). In `HistoricalImport` whatever
locks the batch row and commits at once is one action (`Analyze`, `Resolve`, `CheckImport`, `CommitImport`);
what is longer interleaves: the upload (`StartUpload`, `StageRows`, `FinishStaging`,
`AnalyzeUpload`, each a commit of its own; `FailUpload`, `CrashUpload`), and the import, which checks every record (`Preflight`)
before it writes any row. `CommitImport` takes the rows in the order the code does: Eventbrite orders of
one new buyer are coalesced (`Coalesces`, `LeadersOf`), a matched Person is filled
(`Filled`), a new one founded (`Founded`), a membership joined (`Joined`). Every matched row works on a copy of the
Person that was loaded before any row was written, so the last row wins where two
fill one column. Next to the imports staff work on People: `CreatePerson` takes any identity, since
`resolve_create_identity_collision` lets through whoever sends the matches it has found back as reviewed; `PatchPerson`
has no such override. `MayPostEarly` lets `/analyze` be posted for a batch that is still uploading. The upload request
answers with the id when it is done, so this takes somebody who reads the list of batches
meanwhile; it is FALSE in the passing run, section 4 says what happens otherwise. `TurnSpec` adds
`InTurn`: nobody else changes People between the checks of an import and its writes. The code does not see to that,
as the checks lock the People that are matched and cannot lock those that do not exist yet.
`Revived` is what is left of a batch that had failed when a review of it has been decided.

`ImportRows` follows the cells of one row through the two judgements it gets, when it is staged and when it is
imported; `StageIsJudged` says what follows from how far a row has come. A cell is blank, good, bad (does not parse) or long; how workbooks and texts are parsed is
abstracted to what is accepted.

### EventReferences

Imports that run at the same time and bring the same provider events. A row
created by an open transaction is invisible to the others, but the unique constraint
makes them wait for it: `Lookup`, `Create`, `LostRace` (the `IntegrityError` fallback),
`Participate`. `WaitsFor` is PostgreSQL's wait-for graph; two imports with the same events in
opposite orders deadlock and one of them is aborted. An event is named by its provider identity
and by the import that created it, so that a second one could be told from the first.

### PersonRecords

The requests on what belongs to a Person, of which all have one shape: validate, lock the Person, refuse an
archived one, read the record, write it and its audit event. `Moves` is the table of the
operations: the kind of record, the state it must be in, the state it goes to, and the event.
A record is `none`, `on` or `off`, with at most two text fields. `Receive` validates before the lock
(a catalog entry may be switched off in between), `Lock` takes it, `Write` does the rest. `Silent` are the
repeated requests that write nothing.

### PeopleDirectory, AuditHistory

The reads. `PeopleDirectory` has the directory's filters, orderings and pages, the overview of a Person,
the audience preview, and the counts of the dashboard, each as its own query, as in the
code. A page is one step (its count and its rows are not told apart), and how equal names
are sorted is left to the database. `AuditHistory` reads a history
whose events become visible in another order than their times; there the count and the rows of a page are two
statements.

### StaffAccess, AccountSessions, AccountCreation

`StaffAccess` has the admin site's operations. A revocation locks, counts and writes in one
transaction: `BeginRevoke`, `FinishRevoke`; the others decide and write under their locks and are one step, which
waits. `LoadForm` and `SaveForm` are the change form, which saves the row as it was read, without a lock; with
`MayOverlap` other assignments may change while it is open. The add form validates
uniqueness before it saves, so the branch of `save_model` for an existing
assignment takes a race and is `Reactivate` at this grain.

In `AccountSessions` a session carries the hash of the password it was opened with, a recovery link the
password and the last login it was issued under. Both are compared with the row of the account: they stop to
match when it changes, and match again if it is changed back. A password and a last login are versions that no later
recovery or login uses again. A login comes through one of two doors: the API (`Authenticate`,
`StampLogin`, `AuditLogin`, `AnswerLogin`) or the login page of `/admin/` (`config/urls.py:22`), which opens the same
kind of session and writes no event; `GoesOn` is where Django's `login()` keeps the session there was. A recovery is
`CheckLink`, `ResetPassword`, and writes the password column only. `LoadAccountForm` and `SaveAccountForm` are the POST of
the change form of `UserAdmin`: it reads the row and then saves every column, `password` and `last_login` as they were
read, without a lock (section 4, 12). `setBack` is a history variable, the accounts whose password a form has changed
since their last recovery; `resets`, `logins` and `used` are history too. A browser has one request at a time; requests of several browsers
interleave between their steps, and any of them may be abandoned. `Refuse` is `get_user` where it ends a session whose hash does not match.

`AccountCreation` is the `createsuperuser` command: address check, Person, account, each
separately, with the constraints of the database.

## 3. Runs

| run | instance | shows |
|---|---|---|
| `queue_prompt` | one of: `SyncJobQueue.PromptSpec`: 2 workers, 2 jobs, 3 attempts, 2 crashes, backoff 1, 3 around a stale window of 2; `MailchimpSync`: 2 workers, 2 People, 2 addresses, 2 attempts, 1 change; `SyncWorker`: the process around a queue | the inductive invariant `IInv`, `LeaseHeldByOne`, `DoneStaysDone`, that the queue implements `JobLease` (`LeaseContract`); `ConsentIsApplied`, `LinkedToOne` of Mailchimp, `NoResultIsLost` of the process, the last two with their inductive invariants |
| `progress` | one of: Mailchimp (1 worker, 2 addresses), the Brevo queue with workers that sleep through the window, a worker process (3 jobs, batch of 2, 2 failures), the webhook (2 handlers, 1 staff user, 2 events), two Eventbrite imports with two rows and events | `JobsEnd`, `RequestsEnd`: what has to end does |
| `consent_opt_out` | 1 Person, 2 workers, 2 jobs, stalls; or workers in time, an edit and a crash | `IInvInTime`, the inductive invariants of all workers and of those in time; `OptOutReachesBrevo`, `NeverResubscribes` in the presence of late requests and stalled workers; `ProfileReachesBrevoInTime`, `LeaseInTime` without stalls |
| `webhook_races` | 2 People, 2 handlers, 2 staff users, 2 events (one without fingerprint), 2 staff writes, 1 failure; or the same without two deliveries of one event at a time (`Apart`) | `IInv`, `HistoryIsMeaningful`, `AckedIsKept` under all races; `OncePerEventInTurn` with its inductive `LeavesOnce`: redelivery alone is harmless |
| `imports` | one of: a Membership Form of 2 rows, 2 staff changes, a cut-off upload; overlapping Membership Form and Eventbrite orders of 2 rows each; a failing batch of 3 rows; every row of cells; 2 imports with 2 rows and 2 provider events | `ImportedAtMostOnce`, `ReviewedInTurn` (with `EvidenceHolds`), `ProvenanceIsUnique`, `StaffDecisionsStand`, `ImportOnlyFills`, `StatusTellsRecords` (with the other inductive invariants), `RowsAreSound` and `OneEventForAll` (with theirs), and that the life cycle of a batch is the documented one (`LifecycleInTurn`, with the upload settling its batch) |
| `people` | one of: 2 requests on the records of a Person (two sets of kinds), 2 staff users and 3 People of one address, 1 staff user with an address and a number in two spellings, 3 audit events, pages of 2 of 3 People, all kinds of People and filters | `ArchivedStandsStill`, `LastEventTellsState`, `HistoryIsChain`, `DuplicatesAreExplained`; `ReadsAgree` (with the inductive invariants of all parts), `PagesAreComplete`, `HistoryIsTrue` of the reads |
| `access` | one of: 3 users, 2 roles, 2 requests; 1 account, 2 browsers, 2 recoveries, 2 logins and 1 link at once; 3 runs of `createsuperuser` with 2 addresses in 3 spellings | `AdminRemains`, `RevocationsAreSafe` (with the inductive invariants of all parts), `AccessIsAudited`; `RecoveryIsFinal`, `StaysSwitchedOff`; `AccountsMatchPeople` |
| `consent_archived`, `consent_lost_edit`, `webhook_replay`, `staff_resave`, `import_twice` | as above, smaller | counterexamples, section 4 |

Some properties of an `MC` module conjoin named properties of several parts;
each part is stated and commented where its component is. Several are guarded, because the code
keeps them only where the guard holds:

- `ReviewedInTurn` is not asked of imports between whose checks and writes somebody else changes People: two
  imports that both find an address free both create it, as two requests of the People API do;
- `LifecycleInTurn` has an exception for a batch that failed, whose records can still be resolved (section 4, 6),
  and the counts of `StatusTellsRecords` may then count rows that failed (`Revived`); `ImportedIsComplete` has no
  exception;
- `RecoveryIsFinal` and what `AccessIsAudited` says of passwords except an account whose password a form of the admin
  site has set back (`setBack`), until its next recovery (section 4, 12); `AccessIsAudited` speaks of the sessions opened
  at the API, as `/admin/` writes no event;
- `ConsentIsApplied` speaks of consent as the worker has read it and of addresses that stay (section 4, 11);
- `ArchivedStandsStill` speaks of the requests of the API. Imports do fill the blank fields of an archived Person whom a
  row matches, and give them a membership (`membership_form_import.py:149` asks for `BUSINESS` only);
- `ProfileReachesBrevoInTime`, `LeaseInTime` and `OncePerEventInTurn` are asked of workers in time and of
  deliveries of one event one at a time; what happens otherwise are counterexamples 2 and 3.

Bounds. Two workers, handlers, imports, requests or staff users are what it takes to race; three administrators
are what it takes to revoke two at once and have one left. Two jobs
let one be recovered while another is claimed, let jobs of one Person run in
either order and let an edit find a waiting and a running job. The backoff has one
delay inside and one beyond the stale window, as 1, 5 < 15 < 60 minutes have. The clock of
`SyncJobQueue` has no bound of its own: it stands still when no guard depends on it
any more. Two crashes let a recovered job be lost again. Mailchimp's workers do
not die in `queue_prompt`, where a worker may as well never write its result, and do in `progress`. Two staff writes
give an opt-in and its withdrawal around an event. Two rows are a pair that can agree,
share a signal or contradict each other, and the rows that occur (`MCSource`) are a match, a contradiction, a number only,
a stranger and an invalid one. Three People are a page and one more. Two browsers are what it takes for a recovery or a
form to come between the steps of a login; two recoveries let a form restore a password that is two versions old or
be overtaken by the next recovery, two logins let a link be outdated and a form take a login back, and one link
that is out at once is enough, since a confirmation goes on with the link it has checked when another is out.

`CHECK_DEADLOCK FALSE` everywhere: when all jobs are done, or all events handled and the
bounded numbers of edits, writes and failures used up, the system is at rest.

Fairness, and why the code justifies it:

- the watch loop polls and goes on after every exception, and each claimed job
  runs to a result (calls have timeouts), so the steps of a worker are weakly fair; time passes, so delays end and
  locks go stale;
- Brevo delivers an event until it is answered with 2xx, and a handler that accepted a
  request finishes it; failures are bounded, as no program answers anybody through a
  permanent outage;
- a request that is not cut off goes on by itself: the upload, and an import that waits for
  nobody;
- PostgreSQL aborts one transaction of every deadlock.

Producers, crashes, staff and recipients are not fair.

## 4. Counterexamples

Each is a run that TLC ends with the trace described.

1. `OptedOutNotMarketed` (`consent_archived`). A preference job that is
   processed while the Person is archived ends as `SUCCEEDED` with
   `SKIPPED_ARCHIVED` (`brevo_marketing/sync.py:98`), and `PersonRestoreView` enqueues
   nothing: after the restore an active Person is `OPTED_OUT` in the CRM, their
   contact is in the campaign list without restriction, and no job is waiting or failed.
   `docs/marketing-consent.md:13` says marketing must not be sent. A missing or invalid
   address (`sync.py:101`) has the same effect.
2. `ProfileReachesBrevo` (`consent_lost_edit`). Worker A outlives the stale
   window; its job is recovered to `PENDING`; an edit is coalesced into
   that pending job; A then writes `SUCCEEDED` over it (`brevo_marketing/jobs.py:183`
   has no condition on status or lock). The edit reaches no worker.
3. `OncePerEvent` (`webhook_replay`). Two overlapping deliveries of one stamped event both
   find no receipt (`webhooks.py:125`). The first records the opt-out and commits, a
   staff user records a new opt-in, the second delivery records the opt-out again,
   then finds the receipt and answers `REPLAY_IGNORED` - which
   `docs/brevo-crm-integration.md:345` promises for a delivery that changes nothing.
4. `AdminRemains` (`staff_resave`). A change form is read while the assignment is revoked; the assignment
   is reactivated, another administrator revoked, and the form saved unchanged: every column is
   written as it was read (`staff_access/admin.py:128`), the last administrator is revoked, and no audit event says so.
   `docs/AUTHORIZATION.md:51` says that one must remain at all times.
5. `FilledOnce` (`import_twice`). Two rows of a batch match one Person without a number
   and bring different numbers. Both fill the blank, the second over the first
   (`data_imports/services/membership_form_import.py:320`); `docs/historical-imports-backend.md:98` says that only missing
   fields are filled.

Further disagreements the models show when a bound or a guard is lifted:

6. `ImportLifecycle` asked of a batch that failed: `resolve_import_record`
   (`reconciliation.py:79`) sets it back to `READY_FOR_REVIEW` or `READY_FOR_IMPORT`, where
   `docs/historical-imports-backend.md:73` asks for a new upload.
7. The same with `MayPostEarly`: a batch that was analyzed and imported while it was still uploading is set from
   `IMPORTED` to `FAILED` when the upload fails afterwards (`membership_form_upload.py:21`).
8. A `NO_MATCH` record of an untouched `READY_FOR_IMPORT` batch can be refused by the import: the analysis
   looks for the number as the CRM writes it (`identity_analysis.py:89`), the import normalizes both.
9. All rows are checked before any is written (`membership_form_import.py:98`), so a number that one row fills
   in is not seen by the check of another, which creates a second Person with it. `CreatedPeopleAreReviewed`
   names this as its exception.
10. A row without a timestamp or name, or with a long one, is staged as valid and refuses its
    whole batch at the import (`membership_form_import.py:242`).
11. Mailchimp: after a change of the address, the contact the reference names is not looked up
    (`mailchimp/sync.py:87`) and stays subscribed after an opt-out (`OptOutApplied` with `MayChangeEmail`);
    two People with one address both pass the conflict check, and one changes the contact
    that the other has linked (`sync.py:103`); an opt-out that commits while
    `get_member` is under way is followed by a subscription (`sync.py:76`).
12. The change form of an account (`accounts/admin.py:8`) saves every column as its POST has read it. If a recovery
    commits between the read and the save, the old password is back, and with it the sessions that the recovery had
    ended and the link it had used (`RecoveryEndsSessions` and `UsedLinkIsRefused` without `setBack`);
    `docs/API.md:2123` says that a reset invalidates existing sessions, `:2122` that a consumed link
    is refused. No event tells of it (`RecoveriesAreAudited` without `setBack`). Sessions opened at the login page of
    `/admin/` have no `LOGIN_SUCCEEDED` and are accepted by the API where both are served from one host, which
    `docs/API.md:201` mentions for development.

## 5. Proofs

The proofs hold for every value of the constants: any number of workers, handlers, imports, staff users, People,
addresses and pages. The constants are constrained by the assumptions named in the modules that declare them,
which say of what kind a constant is (a natural number, a value that is not a member of the others) and which TLC evaluates
in the runs. Some theorems have a further hypothesis, which is a promise that the code does not keep by
itself; sections 3 and 4 say for each, mostly with a counterexample, what happens without it.

| module | proves, of | further hypothesis |
|---|---|---|
| `SyncJobQueueProofs` | `SyncJobQueue`: `Invariance` (with `TypeCorrect`, `LeaseIsExclusive`, `AttemptsAreBounded`, `CompletionIsMarked`), `FinishedIsFinal`, `Refinement` of `JobLease` | `PromptSpec`: a live worker records its result in time |
| | `SyncWorker` (`Process`): `BatchesAreBounded` | |
| | `MailchimpSync` (`Mail`): `MailInvariance`, `OneAtATime`, `NobodyIsResubscribed`, `ContactsAreLinkedOnce`, `OptOutsAreApplied` | the last: `MayChangeEmail = FALSE` (section 4, 11) |
| | `MCSyncJobQueue`: `ResultsAreKept`, `LinksStayUnique`, `ConsentStaysApplied` | the last: the same |
| `ConsentSyncProofs` | `ConsentSync`: `Invariance`, `OptOutsReachBrevo`, `RestrictionsStay` | |
| | `InvarianceInTime`, `ProfilesReachBrevo`, `Refinement` of `JobLease` | in the statements: `~stalls` (section 4, 2) |
| `UnsubscribeWebhookProofs` | `UnsubscribeWebhook`: `Invariance`, `EvidenceIsInOrder`, `NoOptOutIsLost` | |
| | `EventsCountOnce` | `ApartSpec`: deliveries of one event do not overlap (section 4, 3) |
| | `MCUnsubscribeWebhook`: `InTurnEventsCountOnce` | in the statement: `serial` |
| `HistoricalImportProofs` | `HistoricalImport`: `RowsInvariance`, `DecisionsStand`, `ImportsOnlyFill` | |
| | `NoSecondImport`, `LifecycleIsFollowed`, `WrittenInvariance`, `ProvenanceHolds`, `ImportsAreComplete`, `FitInvariance` | `MayPostEarly = FALSE` (section 4, 7) |
| | `ReviewsHold` | the same, and `TurnSpec` (section 3) |
| | `EventReferences` (`Refs`): `OneEventPerIdentity` | |
| | `MCHistoricalImport`: `StatusStaysTrue`, `ReviewsStayInTurn` | `MayPostEarly = FALSE` |
| | `RowsStaySound` (of `ImportRows`, `Cells`), `EventsStayShared` | |
| `PersonIdentityProofs` | `PersonIdentity`: `Invariance`, `LookalikesHaveReasons`, `ArchivedSignalsStay` | |
| | `PeopleDirectory` (`Pages`): `DirectoryInvariance`, `DirectoriesAreComplete`, `DirectoryReadsAgree` | |
| `PersonRecordsProofs` | `PersonRecords`: `Invariance`, `EventsTellState`, `EventsAreAChain`, `NothingArchivedChanges` | |
| | `AuditHistory` (`Trail`): `HistoriesAreComplete`, `NotesAreHidden` | |
| | `MCPeople`: `ReadsStayInAgreement`, `PagesStayComplete`, `DuplicatesStayExplained`, `ArchivedStays`, `HistoryStaysTrue` | |
| `StaffAccessProofs` | `StaffAccess`: `IInvariance`, `AnAdminRemains`, `CountsStillHold`, `RolesAreAudited` | `MayOverlap = FALSE` (section 4, 4) |
| | `MCStaffAccess`: `RevocationsStaySafe`, `AccessStaysAudited` | the same |
| | `RecoveryStaysFinal`, `SwitchedOffStays`, `AccountsStayMatched` | |
| `AccountSessionsProofs` | `AccountSessions`: `Invariance`, `RecoveriesAreFinal`, `AccessIsInTheTrail`, `NobodySwitchesOn` | |
| | `AccountCreation` (`Creation`): `AccountsAreApart` | |

A second component of a proof module is proved about through an instance of it on variables of its
own, whose name is in parentheses. `Sizes` says there that the instance's `Cardinality` and `IsFiniteSet` are
the ordinary ones.

### Why the invariants are what they are

No safety property above is inductive as it stands. What has to be added is, each time, what a
transaction knows between two of its steps and why nobody takes it away meanwhile.

- *Queue.* `LeaseHeldByOne` says nothing about time, and a claim may recover a job. `IInv`
  adds `Leased` (a held job's lock has not gone stale: `now <= lockedAt + StaleAfter`) and `AttemptLeft` (a
  job nobody holds has an attempt left, workers that died being forgiven). Then no held job is `Stale`
  (`HeldIsFresh`), so that the recovery inside `Claim` only touches orphans; `PromptTick` preserves `Leased` by its
  guard, which is exactly where the timing assumption enters. `AttemptsBounded` needs `AttemptLeft`
  because stale recovery does not look at `max_attempts`: each dead worker may cost one more attempt. For the
  refinements, `Owner(j)` is the worker that holds `j`; the map is well defined by `LeaseHeldByOne`, of `ConsentSync` by
  `HeldByOne`.
- *Process.* `LateInThisBatch`: after a request to stop only claims of the batch under way follow.
- *Mailchimp.* `SyncedAreEligible`, `OwnContactsOnly` and `OptOutsAreMade` say what a synchronization has
  established by the step it is at: that its Person was eligible, that the contact it writes is its
  own or nobody's, that an opt-out it read has been written when it attaches; all of them speak of the consent that was read. `OneSyncPerPerson` needs the row
  lock of the Person, not the lease.
- *Consent.* `OptOutWillReachBrevo` replaces "the opt-out is at Brevo" by "somebody settles it": a
  waiting job, a synchronization that has not read yet or has read the opt-out, a request in flight, a restriction that
  exists (`WillSettle`). Six facts about what the synchronizations hold support it: what a worker has in its hands is
  of its Person (`HandsAreSound`), an event under way is of a contact that is restricted
  (`EventsAreOfProtected`), a caller has seen the preference (`CallersHaveSeen`), who attaches has found
  the contact (`AttachingFound`), and an opt-in that was read and is outdated has a job behind it
  (`StaleOptInIsFollowed`). None speaks of leases: an opt-out reaches Brevo also if workers stall. A profile
  needs `HeldByOne` too, since a coalesced edit has no job of its own.
- *Webhook.* `DeliveriesAreSound` and `InsertsAreSound`: which preference a delivery that resolved an address or found
  no row still has to write, and that what others inserted meanwhile makes its insert fail. `LeavesOnce`: without
  its receipt a stamped event has no history row, and a delivery that may still write one has not seen
  the receipt.
- *Imports.* `Shape`, `RowsAreUploaded` and `IdsAscend` type the rows. `BatchesInTurn` ties the status to
  the upload and to who holds the batch lock, from which `ImportedAtMostOnce` follows. For the writes, `ChecksHold`: what the
  checks of an import found of its rows and People is so until it writes, because it holds their locks;
  `WritesStay`: what imports have written stays; `CreationsAreRecorded`: a Person that an import created has a row that
  says so. That several rows may share one new Person is `LeadersExist` and `LeadersAre`: of rows of one signal there is a first
  one, found as the least number of a finite set by well-founded induction on its strict subsets
  (`LeastNumber`). For the status, `Recorded`: a batch waits for a review exactly as long as one of its rows does, and a
  row that failed is left only where the batch failed or was revived; the counts follow, since what is resolved and
  what is invalid are disjoint and are all there is. For the reviews, `EvidenceHolds`: what the checks of an import have seen
  next to a row that will create a Person is still what there is, which `InTurn` keeps for as long as the import
  holds its batch. Of the People next to a new one after the writes, those that were there before are then in the
  evidence; no other new one shares a signal, since the leading rows differ (`LeadersDiffer`, which needs that rows are
  normalized); what remains was filled by a row of the same batch.
- *Rows.* `StageIsJudged`: a row that was staged has no errors, and one that was committed was importable.
- *Identity.* `CheckedEverybody`: whom an open request would duplicate was reviewed in its check or has been written
  since, which `since` records. `EditsAreCurrent`: an edit holds the lock of its Person. `LookalikesHaveReasons` follows, and
  with it the exact role of the race: it is the only other reason.
- *Records.* `RequestsAreMoves`, `OneLock`, `LockedIsCurrent` (who holds the lock has read what is there) and
  `NotesAreSilent` give the chain of the audit events.
- *Directory.* The ordering ends in the id, so two People never have the same key (`KeysOrder`), the
  position of a Person in a listing is the number of the People before them (`ListingShape`), and there
  is one listing (`OneListing`), of which the pages so far are the beginning (`PagesAdvance`).
- *Trail.* The pages move while others write, so they are no beginning of anything. `PagesAdvance`: an event
  that was there at the first and is still to be shown has as many newer ones before it as pages were
  read, since events are only added; and the count is wrong by what came since.
- *Roles.* `CountStillHolds`: while a revocation is between its count and its write, the administrators it counted
  are still effective, since whoever could change one waits for a lock it holds (`OneRevocation`,
  `SelectedExist`, `RoleStays`); `FormsAreFresh` is where the hypothesis enters.
- *Accounts.* The password is that of the last recovery unless a form has set it back (`RecoveriesAreAudited`);
  `SessionsAreGenuine` (a session has the hash it was opened with), `LoginsComeFirst` (what a login under way has
  given up, kept and audited) and `LinksAreOld` (links and forms carry passwords the account has had, a used link one
  from before the last recovery) then tell which of them can match. `AddressesAreNormal` and
  `PeopleAreReserved` for `createsuperuser`.
- *Event references.* `EventsAreFound`, `ChoiceStands`, `RowsHaveLanded`: which Event an import has chosen for
  its row, that it stays the one of its identity, and what the rows before it left.

### Which property has which theorem

Every invariant and every action property that a passing run checks is the conclusion of a theorem, under the name the run
gives it; `PROJECT.json` lists the pairs. A property of an `MC` module that conjoins or guards properties of several parts
follows from the theorems about the parts: the step relation of the run is, for each part, a step of it or a stutter
(`ScenarioSteps`, `PartsRun` and their like), so that the run implements each part's own specification. These theorems hold
for any values of the constants, not only for those of the run: `MCSpec` of the imports, for example, quantifies over
whatever batches, rows and tables of People there are, and its scenarios only bound what happens.

A proof that failed for a reason: the classes of the audience were a `CASE` whose conditions overlap (no address, and opted
in), which TLC takes in their order and the logic does not; they are told apart now as the code's `When` clauses
are.

### Only model-checked

- Liveness, which needs fairness and `ENABLED` and is out of the prover's reach: `JobsEnd`, `RequestsEnd`, and of
  `LifecycleInTurn` that an upload settles its batch (`UploadSettles`). The other parts of `LifecycleInTurn` are
  `LifecycleIsFollowed`, and that a batch of two rows is never revived.
- The violations of section 4 are counterexamples of small instances by nature.
- The operators of `IdentityPolicy` by themselves; the theorems about `PersonIdentity` and `HistoricalImport` use them
  expanded.

Worth proving next: that `UnsubscribeWebhook` and the staff API of `ConsentSync` implement one abstract consent of a
Person, and that a batch of which no two rows lack a match is never revived.

## 6. Not modelled

- `notifications` sends one mail and keeps nothing; a link that does not arrive is a link nobody uses.
  `config` has no behaviour.
- The Django admin site where it writes People, memberships, tags and other rows whole, without the locks and the
  audit events of the API. It is modelled where the code gives it behaviour of its own, staff roles, and for the change
  form of an account. Of `UserAdmin` the page that sets a password is left out (it saves the whole row with a new
  password and writes no `PASSWORD_RESET`), and the add form, edits of addresses and deletions.
- Parsing: HTTP bodies, workbooks, dates and names, beyond what is accepted or refused.
  Authentication of the webhook and of the API, throttling, error texts.
- `recorded_at`, which the code stores and never compares; so a delayed unsubscribe overrides a newer
  opt-in, which is what the code does and which no document rules out.
- `revoke_person_reference` and `attach_participation_reference`, which only tests call.
- Which columns of an audit event are shown (`project_audit_changes`); the model says who sees
  which events.
- An unstamped event that is delivered again after a new opt-in withdraws it again: it has no
  fingerprint, and the code promises nothing for it.
- That the checks of an import read its records one after the other (`membership_form_import.py:131`): they are one moment
  in `CheckImport`. A matched Person is locked as it is read and stays as it was. Of those that are not locked, what is changed
  between the check of one row and of the next is seen by the later check only; the model has the change before both or
  after both, so a batch that passes although it would at no single moment is outside it.
- The order in which two imports lock the People they share; the abort that a deadlock
  ends in is `AbortImport`. (The deadlock of event references is modelled.)
- Of the dashboard, the growth of People, the community profile and the attention counts, which are aggregates
  of the same kind as the ones that are modelled.
