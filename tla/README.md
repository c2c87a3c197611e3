# SkillSync in TLA+

TLA+ models of SkillSync, model-checked with TLC and, in good part, proved with
TLAPS. SkillSync collects job postings from several providers into one
catalogue, extracts their skills, and matches them against the CVs and profiles
of its users. Paths below are relative to the repository; `JI` stands for
`services/job-ingestion-service/job_ingestion`.

Contents: [inventory](#1-inventory), [plan](#2-plan),
[Catalogue](#3-catalogue), [BoardRegistry](#4-boardregistry),
[CvLifecycle](#5-cvlifecycle), [IngestionRun](#6-ingestionrun-and-dailyallowance),
[FieldOwnership](#7-fieldownership), [Accounts](#8-accounts-and-loginthrottle),
[CompanyWebsites](#9-companywebsites-and-boardverification),
[JobFeed](#10-jobfeed), [JobSkills](#11-jobskills), [the runs](#12-the-runs),
[observations](#13-observations), [what is proved](#14-what-is-proved),
[what is not modelled](#15-what-is-not-modelled).

## 1. Inventory

### 1.1 The parts, and what runs beside what

| Component | State it keeps | Operations | Where | Module |
|---|---|---|---|---|
| Catalogue tables | `jobs`, `job_provenance`, `companies`, `job_sources` in PostgreSQL | rows written by the parts below | `platform/db/platform_db/models/catalog.py` | `Catalogue`, `FieldOwnership` |
| Ingestion run | counters and failures of one run; nothing outlives it but rows | fetch, validate, normalize, store each record, reconcile | `JI/pipeline.py`, `contracts.py`, `persistence.py`, `deduplication.py` | `IngestionRun` (the walk and the accounting), `Catalogue` (the records) |
| Provider clients | cursors, `reached_the_end`, what was dropped | walk a provider's pages | `JI/{adzuna,arbeitnow,himalayas,jobicy,remotive}/client.py`, `boards/client.py` | `IngestionRun` |
| Transport | the attempt counter of a request | retry with backoff, honour `Retry-After` | `JI/transport.py`, `rate_limit.py` | `IngestionRun` |
| Quota | `source_quota_usage` | reserve a request of a daily allowance | `JI/quota.py`, `adzuna/client.py` | `IngestionRun`, `DailyAllowance` |
| Run records | `ingestion_runs` | open, complete, fail, record an unconfigured source | `JI/runs.py` | `IngestionRun` |
| Field ownership | which source a job's text and fields come from | merge a record into a stored job | `JI/persistence.py`, `matching.py` | `FieldOwnership` |
| Reconciliation | none | retire unseen rows, withdraw jobs nobody lists, expire by date | `JI/reconciliation.py` | `Catalogue`, `IngestionRun` |
| Retention | the cursor of one pass | select a page, lock it, anonymise or purge | `JI/retention.py` | `Catalogue` |
| Board registry | `job_boards` | poll, revive, discover, add, block, unblock | `JI/boards/lifecycle.py`, `discovery_run.py`, `operator.py`, `registered.py` | `BoardRegistry` |
| Board verification | the requests of one verification | read a website, its links, the tenants it names, a title, a feed | `JI/pinpoint/verification.py` | `BoardVerification` |
| Company websites | `companies.website_url`, its source and check date | resolve the websites of the companies due | `JI/boards/websites.py` | `CompanyWebsites` |
| Skill extraction and vocabulary | `job_skills`, alias versions | load a vocabulary, replace a job's skills, publish a version | `JI/skills.py`, `platform/skills`, `backend/app/modules/skills` | `JobSkills` |
| Accounts | `users` with `token_version` | register, sign in, end sessions, change the password, delete | `backend/app/modules/accounts`, `api/dependencies.py` | `Accounts`, `CvLifecycle` |
| Login throttle | the windows of attempts, in memory | ask, record, forget, evict | `backend/app/api/throttle.py` | `LoginThrottle` |
| CVs | `cvs` rows, files on disk, the inferred rows of `candidate_profile_skills` | upload and replace, read in the background, delete | `backend/app/modules/cvs`, `api/routes/cvs.py` | `CvLifecycle` |
| Profiles | `candidate_profiles`, `candidate_profile_skills` | save the profile, pick and drop skills | `backend/app/modules/profiles` | `CvLifecycle` |
| Job listing | the reader's list, cursor and loads in the browser | page the catalogue, accumulate | `backend/app/modules/jobs/queries.py`, `frontend/src/.../job-list.tsx` | `JobFeed` |
| Matching | none (reads) | shortlist and score jobs for a candidate | `backend/app/modules/matching` | `JobSkills` |
| Analytics | none (reads) | count | `backend/app/modules/analytics` | |
| Scheduling | Airflow's | one DAG of each source and pass | `airflow/dags` | in each |
| Scripts, the rest of the frontend | | | `backend/scripts`, `frontend` | |

Airflow starts the ingestion DAG of every source on its own schedule, at most
one run of a source at a time (`max_active_runs=1`), but runs of different
sources, the nightly retention pass, discovery and an operator's command all
overlap. They share PostgreSQL and nothing else: there are no messages, and the
only mutual exclusion is what a row lock, a unique constraint or a foreign key
gives. A task is killed at its `execution_timeout` and retried. Sessions run at
READ COMMITTED with `autoflush=False` and `expire_on_commit=False`
(`platform_db/session.py`), so what a session read can be stale by the time it
writes, and an UPDATE carries the columns whose value changed since the read.
The API is one process whose requests interleave at their awaits.

### 1.2 What is hard here, and what correct means

* **Catalogue.** Hard: a record is decided on by a read, stored by an upsert and
  a flush, and committed; another run, a reconciliation or the retention page
  can act at each point. Correct: provenance rows name stored jobs; a job is
  served exactly while some source lists it; one posting has one job; a row is
  retired only when its posting is gone; retention takes nothing that is listed;
  and after any interleaving the catalogue comes back to what the sources say.
* **Board registry.** Hard: discovery waits for the network between reading and
  writing a row, a poll's result arrives long after its walk began, and the
  operator overrules both. Correct: the operator's and the registry's settled
  decisions stand; a slug does not change hands while it is verified; a board
  leaves the walk after a streak and comes back on an answer.
* **Ingestion run.** Hard: the listing moves while it is paged through; requests
  fail, are retried, or run out of pages, records or allowance; a process dies
  with a reservation in hand. Correct: every record is accounted for once; only
  a walk that saw everything concludes from absence; a row says how its run
  ended; a day's allowance holds; every run ends.
* **Field ownership.** Hard: a job's text is decided among sources of different
  precedence, completeness and age, one record at a time, against rows that tell
  what the sources said last. Correct: the stored text does not depend on the
  order of the runs, and nothing a source stated is lost.
* **Accounts and throttle.** Hard: a password is hashed for as long as several
  requests take; a sign-out reads, increments in memory and writes. Correct: a
  session ended stays ended; one account for an address; the attempts of a
  window are bounded and a refusal lasts as long as was said.
* **CVs.** Hard: a file and a row that are not one transaction; a parse outside
  any transaction; a replacement, a deletion of the CV or of the account
  meanwhile. Correct: no request leaves a file that no row names; of two uploads
  the later survives; the skills on a profile are the candidate's own or those of
  a CV that is there; a CV is read to an end.
* **Websites and verification.** Hard: a budget a day and a queue; pages of
  others that redirect anywhere and name anyone. Correct: no company waits for
  ever; a verification makes a bounded number of requests; what it answers is
  what the registry takes.
* **Paging.** Hard: rows inserted, closed and re-dated between two pages, loads
  that overtake each other. Correct: no row that stays is skipped or repeated,
  and the scroll ends.
* **Skills.** Hard: a delete and an insert inside a savepoint, two runs at one
  posting, vocabularies that change. Correct: a posting has the skills of one
  reading, and in the end of the latest.

The list of hazards, each at its line, is in `PROJECT.json`.

## 2. Plan

Most important first: the catalogue is what every other part reads or feeds.

| | Module | What it is held to | Properties | Theorems | State |
|---|---|---|---|---|---|
| 1 | `Catalogue` | a served job is a listed posting | 10 | 9 | done |
| 2 | `BoardRegistry` | decisions stand; a streak retires, an answer revives | 5 | 6 | done |
| 3 | `CvLifecycle` | files go with rows; the later upload survives | 5 | 5 | done |
| 4 | `IngestionRun`, a refinement of `DailyAllowance` | every record is counted once; absence is evidence | 5 | 5 | done |
| 5 | `FieldOwnership` | the account to believe lands, in any order | 2 | | done |
| 6 | `LoginThrottle`, extended by `Accounts` | a session ended stays ended; a window bounds attempts | 4 | 5 | done |
| 7 | `CompanyWebsites`, extended by `BoardVerification` | the queue is worked off; answers fit the registry | 3 | 2 | done |
| 8 | `JobFeed` | a scroll skips and repeats nothing | 3 | 3 | done |
| 9 | `JobSkills` | one whole reading, and at last the latest | 3 | 2 | done |
| 10 | a specification of the served catalogue (a posting is listed, served, gone), implemented by `Catalogue` without overlap | | | step simulation | left |
| 11 | `NothingErased` of `FieldOwnership` | | | its proof | left |
| 12 | `BoardRegistry` composed with `Catalogue`: what a retired board does to its postings | | | | left |

Every module takes its sets and bounds as CONSTANTS with a named ASSUME, has one
action for each handler step, states invariants in named parts and uses no
RECURSIVE operator, so that it can be proved about. Slips, the definitions with
a likely mistake in the code, stand beside the definition they are a slip of;
each is what breaks one property.

What one module takes for granted another shows, where both are here: that a
run concludes from absence only after a complete walk (`WalkOutcome` of
`Catalogue`) is `AbsenceIsEvidence` of `IngestionRun`, with the four exceptions
it names; that a verifier never names the guess itself (`Verified` and `Names`
of `BoardRegistry`) is `AnswersFitTheRegistry` of `BoardVerification`; that a
merge may leave a job's text alone (`touched` of `Catalogue`) is what
`FieldOwnership` decides.

## 3. Catalogue

`Catalogue.tla` models the tables `jobs` and `job_provenance`, the ingestion run
of every source, the retention pass, the expiry statement and the world outside.

**State.** `jobs` and `prov` are what is committed. A job keeps its status, the
opening its text describes (none once retention stripped it), `updated_at` and
whether it is stripped; a provenance row keeps whether `retired_at` is null, its
`job_id` and `last_seen_at`. `run[s]` and `txn[s]` are the run of a source and its
open transaction, which nobody else sees; `sweep` is the retention pass; `listed`
is what each source lists. Row locks are not a variable: who holds one follows
from the phases (`RunHoldsRow`, `RunHoldsJob`, `SweepHoldsJob`, `SweepHoldsRow`).

**Actions and the code.**

| Action | Code |
|---|---|
| `StartRun`, `Walk` | `runs.py:recorded_run`, the fetch loop of `pipeline.py`; `WalkOutcome` is what the walk and its remarks can say, and what `settled` makes of it |
| `DecideKnown`, `DecideMatch`, `DecideNew`, `RefuseAmbiguous` | the reads of `deduplication.py:decide` and the loads of `persistence.py:write` |
| `Upsert`, `UpsertFails` | the INSERT .. ON CONFLICT of `observe_job_provenance`, waiting for the locks of the retention page; its foreign key |
| `CommitRecord` | the flush of the merged job (changed columns only) and the commit of the record |
| `FinishRun`, `RetireUnseen`, `Withdraw`, `CommitReconciliation` | the branches and statements of `reconciliation.py:reconcile` |
| `Crash` | a kill at the scheduler's timeout, or an error no savepoint absorbs |
| `Expire` | `expire_jobs_past_their_stated_date` |
| `SweepStart`, `SelectPage`, `LockProvenance`, `CommitPage`, `SweepDone`, `SweepCrash` | one pass of `retention.py:apply_retention`: FOR UPDATE SKIP LOCKED, the rows' locks, anonymise or purge after asking again |

**What is abstracted.** Text is an opening (`Posting`): two records describe the
same posting exactly if their openings are equal and neither is an excerpt
(`Partial`). Which field of a job comes from which source is left out, but that a
merge may change nothing (`touched`) is not, as it decides whether `updated_at`
moves. Withdrawal reads all retired rows' jobs at once where the code loops over
them. Skills, companies and salaries are not there.

`Exhausted` leaves out that every record fetched was accounted for
(`accounted_for`, `processing_complete`): that is `ProcessingComplete` of
`IngestionRun`, and a record lost on the way is a `failed` here.

**Fairness** (`Fairness`, used by `Settles` only).
Airflow starts each source's DAG for ever, so `StartRun(s)` is not put off for
ever; a started run that waits for a lock gets it from PostgreSQL's queue before
every later pass does, which is why its steps are strongly fair: each later page
of the retention pass disables the step for a while. `Crash`, `SweepCrash` and
`MoveListing` have no fairness, and stop when the world settles, as no code can
promise a catalogue that agrees with sources that never stand still.

## 4. BoardRegistry

`BoardRegistry.tla` models one provider's rows of `job_boards` and the three
parties that write them.

**State.** `boards[b]` is the row of slug `b`: status, company, the kind of
evidence behind it, pin, `consecutive_failures`. `disc` is the discovery run: the
companies due, the slugs `_skip_slugs` read at its start, and the probe under way
with the row as `register` read it. `poll` is the ingestion run as far as the
registry sees it: the boards it set out to walk.

**Actions and the code.**

| Action | Code |
|---|---|
| `StartDiscovery` | `due_companies` and `_skip_slugs`, once for the run |
| `Guess` | `discovery.py:discover`: several requests, one outcome, one slug |
| `Look` | `register`'s read of the row and its early return |
| `Register` | the rest of `register`, with `verify`, `locate` and `_register_named`, and the commit of the company. `Registered` and `RegisteredNamed` are what becomes of a row as it was read; `MergedRows` is SQLAlchemy's UPDATE of the columns that changed, over whatever the row has become since; evidence without a check time may equal the old (`Repeats`) and is not written then |
| `RegisterCollides` | the unique constraint of `(source_id, slug)`, an error `probe_company` does not absorb |
| `ProbeFails` | `probe_company` rolling its savepoint back and registering the company unreachable, on the row as it is or, if the session still holds the one it read, on that (`ReadAgain`) |
| `EndDiscovery` | the budget, the last company, the timeout |
| `StartPoll`, `RecordPoll`, `PollCrash` | `resolve_config`, `record_poll` after the walk, a kill between |
| `AddBoard`, `BlockBoard`, `UnblockBoard`, `Reactivate` | `operator.py` and `lifecycle.py:reactivate` |

**What is abstracted.** The cadence is left open: any company without a settled
row may be due (`MayBeDue`). The order of the guesses is left open. Evidence is
its kind. What a provider's hooks can say is a superset of what the providers at
hand say: a hook that names a board may answer all three documented outcomes
(`NamedAs`), where Pinpoint's, the one provider with hooks, answers only
`confirmed` (section 9). The operator's commands
and `record_poll` read and write without waiting in between and are one step.

**Three things the properties leave room for**, because the code does, and that
its maintainers may want to close. A row that discovery read before an operator
blocked or pinned it is written over (`InHand` in the three action properties):
"Set by an operator; automatic runs report on a pinned row and never change it"
(`models/boards.py`) holds but for that window. A failing poll of a walk that
began before turns a blocked or wrong-company row `inactive`, and discovery may
then guess it again, which `operator.py` says `block` prevents. And
`_revived_status` takes any evidence but an operator's for evidence naming a
company, so that a row whose evidence is a failed probe's is revived `confirmed`.

## 5. CvLifecycle

`CvLifecycle.tla` models one account's CVs: the requests that upload and delete
them, the background task that reads each, the deletion of the account, and the
candidate's own picks on the profile.

**State.** `cvs` is the committed rows, each its processing state or `absent`;
`files` the objects in storage. `upload[c]`, `reading[c]` and `deleting[c]` say how
far the request or task about CV `c` has come, with what it remembers: the
uploads that began before it (`before`, the order of `created_at`, which is when
the request's transaction began), the rows it is about to remove (`doomed`), and
the skill rows its DELETE found (`sees`). `account` is the owner's row, its
deletion and whether there is a profile; `skills[k]` who wrote the profile's row of
concept `k`: nobody, the candidate (`ByHand`), or a CV. `picked` is a history
variable. The locks are not variables: who holds a CV's row (`Held`) or a skill's
(`HeldSkill`) follows from the phases.

**Actions and the code.**

| Action | Code |
|---|---|
| `Begin` | `current_user`, whose read opens the transaction |
| `Refuse`, `WriteFile`, `Insert`, `CommitRow`, `PersistFails` | `service.py:intake_cv`: the policy, `storage.write`, the flush (its foreign key waits for a deletion of the account), the commit, the clean-up |
| `SelectSuperseded`, `LockSuperseded`, `UnlinkSuperseded`, `CommitRemoval` | `_remove_superseded`: the SELECT .. FOR UPDATE finds rows and waits for them, the files, the rows and the commit; `Answer` queues the task |
| `Start`, `Parse`, `GiveUp` | `processing.py:process_cv` up to the parse, and its failure |
| `LockRow`, `FinishWithoutProfile`, `LookAtSkills`, `Clear`, `StoreSkills` | the second half of `process_cv` under the row's lock: `store_cv_skills` deletes what CVs inferred, waiting for rows others are changing, then inserts what the text says, declining conflicts |
| `LockDeleted`, `UnlinkDeleted`, `CheckNewest`, `LookAtDeleted`, `CommitDeleted` | `delete_cv`, statement by statement |
| `HoldAccount`, `EmptyAccount`, `EmptyFails`, `DropAccount` | `accounts/service.py:delete_account`, with the cascade |
| `SaveProfile`, `PickSkill`, `DropSkill` | `save_profile`, `_store_profile_skill`, `remove_profile_skill` |
| `UploadDies`, `ReadingDies`, `DeletingDies`, `AccountDies` | the end of the process or a database error: the transaction is rolled back, files stay as they are |

`Faults` switches every failure of storage, database and process. That a PDF
cannot be read is not a failure of these and always possible.

**What is abstracted.** What a CV says is a set of concepts (`Says`). The lock of a
skill's row is only held long enough to matter by `store_cv_skills`, whose insert
and commit come after its delete; the other writers of a row delete or insert and
commit at once. A cascade that waits for a lock while holding others, and so
could deadlock with a reading, ends as one of the deaths under `Faults`.

**Fairness.** A started reading, deletion or removal goes on: the event loop
schedules it, storage calls return, a parse is ended at its timeout
(`timeout_seconds`), and PostgreSQL grants a lock in the order it was asked for,
so that a stream of later requests cannot keep a task waiting for ever. Deletions
of one CV can be begun and fail again and again, each taking the row's lock for a
while and letting it go, which is why `ReadingStep` is strongly fair. Nothing makes
the owner begin a request, and no failure has fairness. `ReadToAnEnd`
needs it. Deadlock is not checked: when everything begun is over and the account
gone, nothing more happens.

**What the properties leave room for**, because the code does. Two uploads can
both survive: the earlier one, if it commits last, removes nothing that began
after it, and neither does the later one find it ("One CV is kept per owner" in
`docs/cv-upload-policy.md`). An upload that is answered with an error can leave its
file, if the removal fails too or the process ends: `NothingStray` excepts uploads
that failed or died ("the operation removes any partial object and row"). A task
that died leaves its CV `pending` or `processing`, and nothing queues it again.

## 6. IngestionRun and DailyAllowance

`IngestionRun.tla` models the pipeline of one source: the executions a scheduler
or an operator starts, the walk of the provider by its client, the accounting of
the records, what a run concludes from what it saw, and the row it leaves in
`ingestion_runs`. `source` is chosen once; each of the six has a behaviour of its
own: one page (`remotive`), one page of a given length (`jobicy`), pages by
number (`arbeitnow`), by cursor (`himalayas`), countries by number against a
quota (`adzuna`), boards one after another (`board`).

**State.** `site` is what the provider lists now and moves while it is walked. A
posting is a number, a newer one is larger, and a listing is newest first.
`live` and `seenOn` are the provenance rows. `task[w]` is an execution: phase,
row, cursor, page, what is read and not prepared (`batch`), prepared and not
stored (`queue`), and the counters of `IngestionSummary`. `ledger` is
`source_quota_usage` as committed, and `held` the day of a reservation that is
not. `stood`, `moved` and `cut` are not in the code: they remember what the
provider did during the walk, for the property.

| Action | Code |
|---|---|
| `Begin...`, `OpenRow` | the DAGs and `cli.py`; `runs.py:recorded_run`, `record_unconfigured` |
| `LoadVocabulary` | `pipeline.py:run_pipeline`, and the start of a walk |
| `Reserve`, `ReservationRefused`, `CommitsReservation` | `quota.py:reserve`; the `finally` of `adzuna/client.py` |
| `Retry`, `FetchFails` | `transport.py`; the fetch failures of the pipeline and of a board walk |
| `RemotiveAnswer` .. `BoardAnswer` | one page of each client, and what it says of the next |
| `Prepare`, `Resume` | the record budget, `validate`, `normalize`; the generator going on, and `reached_the_end` |
| `Store`, `PoisonedRaises` | the store of a record in its savepoint, and a transaction PostgreSQL gave up |
| `Summarize`, `Reconcile`, `Complete` | the summary, `reconcile` behind `why_not`, `complete_run` |
| `Raise`, `Cancel`, `Kill` | `except`, the execution timeout (`finally` runs), SIGKILL (nothing runs) |

The closing write and the return of a run are one step (`Complete`). A kill
between them leaves a row `completed` for a process that was lost with nothing
left to do, which `RowTellsTheEnd` does not see.

**Refinement.** `DailyAllowance.tla` is what a quota promises: a call goes out
only while those counted leave room, each counts at once, and a count is taken
back only by losing it with its process. `IngestionRun` implements it with
`counted` the committed row plus the reservation under way: the row lock of the
upsert is why there is at most one (`LedgerLocked`).

**Abstracted.** How long a retry waits; what a record says. That a record can be
invalid, fail to normalize or be refused are outcomes. Which job a record becomes
is `Catalogue`'s.

## 7. FieldOwnership

`FieldOwnership.tla` is one posting that several sources list, and one stored
job. `account[s]` is what a source says of it now: a revision of the text, whole
or an excerpt, and which optional fields it states. `row[s]` is its provenance
row (`partial_description`, `stated_fields`, the order of first sight, live or
retired) and `job` tells of each stored value whose account and which revision it
is. `task[s]` is the transaction of the source's run: the columns it will write
and what its row will say, made of the job and of the record as they were read.

| Action | Code |
|---|---|
| `DecideNew`, `DecideMerge` | `persistence.py:write` after `deduplication.py:decide`: `Outranks`, `MoreComplete` and `Resolve` are `incoming_outranks`, `_more_complete` and `resolve`, with the composite owner of `rivals_of` as in the SQL (`OwnerIsFull`, `OwnerStates`: the highest-ranked of the live rivals taken together); `Changed` is what the flush will write |
| `Commit` | `Flushed`, the changed columns over whatever other runs have committed since, and `Observed`, the upsert of the row; of two runs that add the posting at once the later has a job of its own |
| `StoreElsewhere` | a record that does not match |
| `Retire` | `reconcile` |
| `Edit`, `Move` | the providers, at any time: also between a run's read of a record and its commit |

A run that dies between the two leaves nothing, so its death is a run not begun.
A source has one run at a time (`max_active_runs=1`), and what the statements of
one transaction read they read at once. What two sources mean by the same text
is an input; that each has one row on the job is what `rivals_of` says.

## 8. Accounts and LoginThrottle

`LoginThrottle.tla` is `api/throttle.py`: operators on the dictionary of windows,
as a function of all keys in which each window knows the keys used after it
(`since`), which is the order of the dictionary. Time is in half seconds, so that
the whole seconds of `Retry-After` are rounded.

`Accounts.tla` extends it with the requests. A request is at a stage between two
awaits and keeps the row it read. `Register` and `Insert` are the two halves of a
registration around the hash; `LookUp`, `Authenticated` and `NotAuthenticated` of
`authenticate`; `SignedIn` is `current_user`, which hands the row on to `Gate`
(`refuse_exhausted_attempts`), `ChangePassword`, `DeleteAccount` and
`EndAllSessions`. A write of `token_version` is what the request has in memory
plus one. `overran` remembers the accounts of which a sign-out wrote over one it
had not read, and `ended` what no longer counts. Whether a password matches is a
choice; `Forget` is a browser that signs out, and `Disable` an administrator.

## 9. CompanyWebsites and BoardVerification

`CompanyWebsites.tla` is the daily pass of `boards/websites.py`. `BeginPass` is
the query of the due companies, `Resolve` the strategies on one of them
(`FromPostings`: the most mentioned host with `MinimumVotes` and no tie;
`FromWikidata`: exactly one business among the hits that were answered),
`EndPass` the one commit (`Recorded`), `PassDies` a death before it. Ages count
days up to the recheck.

`BoardVerification.tla` extends it with `pinpoint/verification.py`, which
discovery runs for a guessed board when the day's pass is over: `ReadRobots`,
`Follow` (a page, its redirects, its links), `Probe` (the boards a page names
besides the guess), `ReadTitle`, `ReadChannel`. A host is a tenant's, the site's
own or a private one; `Contains` says which hosts end with which, because the
code compares by ending. Its answers are the inputs of `BoardRegistry`. What is
counted are requests of the client; each may be up to the transport's attempts.

## 10. JobFeed

`JobFeed.tla` is `queries.py:list_jobs` under the list of the browser
(`job-list.tsx`). A row keeps whether the listing shows it and its
`published_at`, 0 for null; `After` and `NextCursor` are the keyset condition and
the extra row. `LoadMore`, `ReadBatch`, `Deliver` and `LoadFails` are a load from
the click, or the observer, to the state update; both may fire before a render,
which sends a load twice. `Change` is everything that writes the catalogue.
`steady` and `moved` are for the properties: what kept its place, and what was
re-dated (or everything, once a load was sent twice). `ServedOnce` therefore says
nothing of a scroll that sent a load twice; that such a scroll loses nothing is
`NoneSkipped`.

## 11. JobSkills

`JobSkills.tla` is one posting's rows of `job_skills` under the runs of several
sources. `Load` takes the newest alias version for the whole run, `Store` writes
the text or leaves it, `ReadText`, `BeginDelete`, `Delete` and `Insert` are
`replace_job_skills` inside its savepoint statement by statement, with the waits
and the failing key of READ COMMITTED; `ExtractionFails` rolls the savepoint back,
`Commit` publishes, `Die` loses all. `Publish` is
`load_published_alias_table`; `Shortlist` and `Score` are the two reads of
`matching/service.py`. A text is the set of its forms; a form with two concepts
stands for none (`Terms`). `mixed` remembers that a commit replaced rows while
another run was replacing them; `request.disjoint` that between the shortlist and
the scores a run committed a reading that shares nothing with the candidate. A
row that another run replaced by an equal one is a new tuple, which the DELETE of
an older snapshot does not see: `Commit` takes it out of what they saw.

## 12. The runs

Each run asks one question; the properties are in the config of the same name
(`IngestionRun.cfg`, ...), each with one slip that breaks it.

| Run | Instance | Shows | Distinct states |
|---|---|---|---|
| `catalogue_serial` | two sources, the aggregator windowed; three records of one opening; two jobs; clock to 2; expiry scheduled | without overlap: `TypeOK`, `RemovedIsUnlisted`, `ActiveIsListed`, `OneJobPerPosting`, `RetiresOnlyWhatIsGone` | 1.8 million |
| `catalogue_overlap` | from every catalogue two runs can leave (`StillInit`), or with two jobs of one opening (`DuplicatedInit`); listings stand still | with overlap: `RowsNameStoredJobs`, `OpenUpsertKeepsItsJob`, `RetentionSparesListed`, `ConcludesFromAll` | 1.3 million |
| `catalogue_settles` | from what overlapping runs leave (`LeftInit`): jobs removed under a live row, active without one, two of one opening; any listing, the board's second record in it or not; clock from 1 to 2; with overlap and fairness | `Settles` | 153 thousand |
| `catalogue_removed_listed` | one record of each source, with overlap | a counterexample to `RemovedIsUnlisted` | |
| `board_registry` | two boards, two companies that guess the same one, a streak of 2, overlap | `InactiveHasFailed`, `PolledIsVouchedFor`, `SettledStands`, `PinStands`, `OwnerStands` | 1.7 million |
| `cv_lifecycle` | two CVs that say the same concept, everything may fail | `NothingStray`, `LaterSurvives`, `NewestTakesItsSkills`, `ByHandStands`, `ReadToAnEnd` | 223 thousand |
| `ingestion_run` | six sources, one of each behaviour; up to three postings, two sections, pages of 1, two pages, budget of 2 records, 2 attempts, a call a day; two executions of `adzuna`, which may overlap | `EveryRecordOnce`, `RowTellsTheEnd`, `AbsenceIsEvidence`, `QuotaIsAnAllowance`, `EveryRunEnds` | 444 thousand |
| `field_ownership` | a board above two aggregators whose runs overlap, one optional field, one edit of any account; the first aggregator opens with any account; the board drops the posting and relists it | `NothingErased`, `OwnerLands` | 291 thousand |
| `accounts` | one address, two requests at once, one attempt in a window of 1.5 seconds, room for one window, two accounts one after the other | `OneAccountPerAddress`, `EndedStaysEnded`, `AttemptsBounded`, `RefusalIsKept` | 2.2 million |
| `websites` | two companies, a budget of one, a recheck after a day, one death; three tenants, two of them told apart by more than their ending, two pages, one redirect | `RequestsAreBounded`, `AnswersFitTheRegistry`, `EveryCompanyIsLookedAt` | 258 thousand |
| `job_feed` | three jobs, dated or not, batches of one, two loads at once | `NoneSkipped`, `ServedOnce`, `ScrollEnds` | 388 thousand |
| `job_skills` | two runs, two alias versions of which the second moves one form and settles another, two texts, one edit, one failure | `ReplacedWhole`, `RankedShares`, `SkillsSettle` | 195 thousand |

**Why the bounds are enough.**

* *Catalogue.* Its conflicts are between two runs, or a run and the retention
  pass, over one job: one record of each source and two jobs reach both races,
  and a second record of the board lets a row be retired beside a live one of the
  same source. A third job is never needed by two records, and `Unused` may run
  out of identifiers only when a third record would start a third job. The clock
  tells apart before, at and after a deadline or lifetime of one tick. `AgedJobs`
  starts the overlapping runs from every catalogue that serial runs can leave,
  instead of reaching each one through a history, which keeps the depth for the
  interleavings. Of two jobs of one opening the third record is refused by every
  run, which is what `ConcludesFromAll` needs to be about. `LeftInit` starts
  where the sources have come to rest, from an empty catalogue (whose first runs
  race for the posting) or two rows older than every run, on one job or two, of
  every status the races of section 13 leave. The clock then lets every source
  run twice and retention purge what was removed before, so that a record can be
  matched, refused, and taken in once the other job is gone.
* *Registry.* A board is contested by at most two companies, and one further
  board is enough for a hook to name; a streak of 2 tells the first failing poll
  from the retiring one, and `MaxFailures` lets a board fail once on top of what
  it had. The operator touches one of the two boards.
* *CVs.* The races are between two uploads, or one CV's reading, its deletion and
  the account's, over one row of a skill.
* *Ingestion.* Three postings on pages of one: a walk of two pages can end by
  pages, by budget (2 records: the boards' walk has three), or by the listing, and have a posting inserted or closed
  before, at or behind its cursor. Two boards tell the polled one from the other.
  Two executions and one call a day contend for the last one; the second day is
  where a reservation made on the first commits.
* *Ownership.* Two aggregators of equal rank decide by completeness and by age,
  the board by rank; one edit, before or after any of them was read or stored,
  truncates or completes one. Three runs, each between its read and its commit,
  are every overlap of one posting. With three sources of equal rank see section 13.
* *Accounts.* A lost update takes two requests, an eviction two keys.
* *Websites.* A company waits behind another only when both do not fit in a
  budget. A budget and recheck of one is the tightest queue that
  `EveryCompanyIsLookedAt` promises to work off. Three tenants: the guess, one
  whose host ends with its, one other.
* *Feed, skills.* A third job is what comes after the next; a third run adds no
  statement that two do not interleave.

The proofs of section 14 need none of these bounds.

Symmetry (of jobs, companies, the two records of the board, and the requests of
an account) is used in runs without liveness only.

**Fairness.**

* `Settles`: section 3; `ReadToAnEnd`: section 5.
* `EveryRunEnds`: a process that runs takes its next step (`WF` of `Step(w)`).
  The provider, the scheduler, errors and kills owe nothing; that a walk ends is
  due to the attempts and pages being bounded.
* `OwnerLands`: every source's DAG runs again and again and what it read it
  commits (`WF` of each `Run(s)`). That the providers come to rest is a premise
  of the property, not a fairness.
* `EveryCompanyIsLookedAt`: Airflow runs the pass every day and a request ends at
  its timeout; deaths are bounded by `MaxFailures`, as a pass that dies every day
  gets nowhere. `Companies <= Budget * (Recheck + 1)` in the instance; with more,
  those with more jobs are due again before the last were looked at.
* `ScrollEnds`: the reader goes on scrolling (`WF` of `LoadMore`), and of the
  loads asked for again and again some is read and delivered (`SF`: each may be
  lost before it is). The ids are finitely many, so that a feed that grows faster
  than it is read is not covered.
* `SkillsSettle`: every source's run comes by again and its statements end (`WF`
  of `RunStep(r)`); edits, publications and failures are bounded.

**Deadlock** is checked but where the system may stop: in `cv_lifecycle` and
`accounts` when the account is gone and, in the latter, the clock and the
identifiers are used up; in `ingestion_run` when the executions ended and the
provider moves no more; in `field_ownership` when nothing is listed and every row
is retired.

## 13. Observations

What the models refute of what the code's comments and documents say, and what
the properties have to make room for. The first is a run; the other named
formulas are defined in the modules, and TLC refutes each in the instance of
section 12 when it is added to its config.

**Catalogue.**
1. With overlapping runs a job is committed `removed` while a source lists it
   (`catalogue_removed_listed`), because withdrawal reads without a lock.
   `Settles` shows that the next run of that source revives it, also where there
   are two jobs of the posting.
2. With overlapping runs a job stays `active` with no source listing it
   (`ActiveIsListed` with `Overlap`), because two reconciliations each see the
   other's row live; `reconcile` says it withdraws "what nobody lists"
   (`JI/reconciliation.py`). No later run looks at it again. `OneJobPerPosting`
   fails too: two runs that read before either commits make two jobs of one
   posting. A further record of it is then refused by every run, and its source
   concludes nothing while it lists it: the exception of `Settles` (`Ambiguous`),
   which lasts until retention purges one of the jobs or one's text changes.
   `Settles` speaks of records, so that neither the job left `active` nor the
   second job contradicts it.
3. With a policy that has reference probes one posting can come to two jobs
   without any overlap (`OneJobPerPosting` with `Probes`): a removed job is
   stripped and kept for what refers to it, another record of the posting
   finds no text to match and starts a new job, and the first record comes back
   to its row and gives the old job its text again. `DEFAULT_POLICY` has no
   probes, so that today nothing is stripped and kept.
4. Nothing outside the tests calls `expire_jobs_past_their_stated_date`, so that
   no job becomes `expired` in production, which
   `docs/canonical-job-contract.md` says a job past its stated date does. The
   instances with `ExpiryScheduled` show what it would do.

**Board registry.**
5. A board that was inactive is confirmed with the streak that retired it, if a
   probe without an answer came between (`WalkStartsClean`), against
   "Re-entering the walk with a stale failure count would retire it again"
   (`JI/boards/discovery_run.py`).
6. A website that names the slug just guessed ends the discovery run, on that day
   and every later one (`DiscoverySurvives`): the row added for the guess is not
   flushed, the lookup does not find it, and the unique constraint raises outside
   what `probe_company` absorbs. Of the two questions asked of a website only
   `locate` can name the guess (`AnswersFitTheRegistry`).

**CVs.**
7. Deleting a CV leaves its skills on the profile when a newer CV is stored and
   not read (`SkillsGoWithTheirCv`): `_is_most_recent` asks which row is newest,
   not which CV wrote the skills.
8. A concept a CV put on the profile and the candidate then picks is not theirs
   (`PickedSurvives`): the insert keeps the row's source, and the row goes with
   the CV. `docs/cv-upload-policy.md`: "deleting a CV also takes the skills it
   inferred; a skill picked by hand is the candidate's own and survives".

**Ingestion run.**
9. `source_exhausted` claims "this run saw everything the source has"
   (`JI/contracts.py`); a posting closed on an earlier page of a listing read by
   number moves another past the walk (`SourceExhaustedSawAll`, and the
   `arbeitnow` case of `Excused`). A Jobicy feed longer than what was asked for
   is another.
10. "A vocabulary that cannot be read is no vocabulary" (`JI/pipeline.py`) does not
   hold for a statement the database refuses: the transaction the run goes on to
   store through is aborted, and the run raises at its first record.
11. That a crash "never un-counts a call" (`JI/adzuna/client.py`) does not hold for
   a kill between the request and its commit: `Lose` of `DailyAllowance`. Nor are
   retries reserved; each of a request's attempts is a call to the provider
   under one reservation, while the DAG says nothing can exceed a ceiling.
12. A run killed, or one whose closing write fails, leaves a row that says
   `running` for ever; `RowTellsTheEnd` says no more than that a row is never
   wrong about an end it states.

**Field ownership.**
13. "A snippet never replaces a full description another source supplied"
   (`JI/persistence.py`) is refuted by one truncation and an overlap
   (`SnippetReplacesNoFullText`): a run that read no rival takes a text since cut
   to an excerpt, another source commits its whole text first, and the excerpt is
   written over it. Without overlap two truncations do it: the row of the source
   whose full text is stored says `partial` after its second visit, though the
   text it gave stays.
14. With three sources of equal rank the owner is put together of the best of
   each (`OwnerIsFull`, `OwnerStates`), and none of them may outrank it, so that
   `OwnerLands` fails.
15. `rivals_of` counts on one row of a source per job; a source that lists a
   posting twice has two.

**Accounts.**
16. `token_version` is read, incremented in memory and written: of two that end
   the sessions at once the later writes the same version, and a token issued
   under it is accepted again. `EndedStaysEnded` excepts the accounts in
   `overran`.

**Websites and verification.**
17. Two businesses qualify on Wikidata, the request for one is not answered, and
   the other's website is stored for ever (`FromWikidata`).
18. The pass takes companies "oldest-checked first" by its docstring, and by the
   number of their jobs by its query.
19. `_links_to` takes a host that merely ends with the guess's for the guess's
   (`LinksTo`): the website of a company that links `notacme` confirms `acme`.
   A probe that fails in passing makes another tenant the one that serves
   (`Probe`).
20. "Every website fetch obeys robots.txt" (`docs/job-source-policy.md`); where a
   redirect leads is read without asking the robots.txt there (`Follow`).

**Skills and ranking.**
21. "Replacement rather than accumulation" (`JI/skills.py`) does not hold for two
   runs that meet with disjoint concepts: neither's DELETE sees the other's rows
   (`ReplacedNotAccumulated`). `SkillsSettle` shows that the next run mends it.
22. A ranking reads the shortlist and the concepts in two statements, so that a
   ranked job may share nothing with the candidate, if a reading that does not
   was committed in between; `RankedShares` says in no other case.

## 14. What is proved

Eight proof modules hold, for all sets, bounds and switches that satisfy the
assumption of the module, and for every interleaving:

| Theorem | States | Argument |
|---|---|---|
| `CatalogueProofs!TypeCorrect` | `TypeOK` | `Typing`: with it, an open upsert names a record and a job, a stored row names a job, a retired-to-be row is live |
| `NoDanglingRow` | `RowsNameStoredJobs` | `RowsInv`: an open upsert's row is locked against the page that would delete its job, and what it will write agrees with the row that is there |
| `NoUpsertUndermined` | `OpenUpsertKeepsItsJob` | the same |
| `RetentionSafe` | `RetentionSparesListed` | the same; the page asks `eligible` again under the locks |
| `RetirementJustified` | `RetiresOnlyWhatIsGone` | `RetireInv`: until reconciliation every offered record that is not stored yet is on the run's list or accounted for by a failure |
| `RetirementComplete` | `ConcludesFromAll` | `RetireInv` and `OfferIsLive`: a run that is concluding has stored what it was offered |
| `SerialRemovedIsUnlisted`, `SerialActiveIsListed` | `RemovedIsUnlisted`, `ActiveIsListed`, if `~Overlap` | `SerialInv`: at most one run is open, so what it decided on or is about to withdraw is as it was read |
| `SerialOneJobPerPosting` | `OneJobPerPosting`, if `~Overlap /\ ~Probes` | `PostingsInv`: only one run is open, every stored job keeps its text (`TextStays`), and the posting a run is about to make a job of is still that of no stored job (`StillNew`) |
| `BoardRegistryProofs!TypeCorrect` | `TypeOK` | `Inv`: types, and `HandInv`, that the row in hand is one `register` does not refuse and that nobody changes its company meanwhile |
| `RetiredByStreak` | `InactiveHasFailed` | `Becomes`: no write of discovery retires, and one wipes a streak only of a row it read as inactive and leaves in another status |
| `VouchedFor` | `PolledIsVouchedFor` | the row functions, and `Revived` |
| `SettledIsKept`, `PinIsKept`, `OwnerIsKept` | `SettledStands`, `PinStands`, `OwnerStands` | `RowSteps`: every change of a row is of a poll, an operator, the row in hand, or a row neither refused nor pinned |
| `CvLifecycleProofs!TypeCorrect` | `TypeOK` | one lemma for each group of actions |
| `FilesGoWithRows` | `NothingStray` | `FilesInv`: while the account is held no upload commits and the keys cover every row; a CV whose file a deletion took has none until its row is gone; what is stored or being deleted is past its writing, so no write brings a file back |
| `LaterUploadSurvives` | `LaterSurvives` | `OrderInv`: to have begun before is one-way and fixed, and an upload removes only what began before it |
| `NewestDeletionTakesSkills` | `NewestTakesItsSkills` | `RowLock`, that a reading and a deletion never both hold the row, and `Taken`, that the deletion has found every skill the CV wrote; with `FilesInv` no deleted CV is stored again |
| `ByHandKept` | `ByHandStands` | `Cleared`: what a reading cleared is as it found it and cleared by no other, so it was a CV's |
| `IngestionRunProofs!PipelineTypes` | `TypeOK` | `RunInv`: types; `Sane` of every execution, that it has accounted for what it fetched, its row tells no more than happened and a reservation is held across a request only; and `Ledger`, that a day is reserved by one execution at a time and only while it has room. Every action moves one execution, and has one of four effects on reservations: `Steady`, `Reserves`, `Releases`, `Loses` |
| `RecordsAreAccountedFor`, `RowsNeverOverstate` | `EveryRecordOnce`, `RowTellsTheEnd` | `RunInv` |
| `LedgerIsAnAllowance` | `QuotaIsAnAllowance`: `Spec => Allowance!Spec` | step simulation under `RunInv`: `Reserves` is `Call`, `Loses` is `Lose`, `Releases` and `Steady` stutter |
| `OnlyTheAbsentAreTaken` | `AbsenceIsEvidence` | `WalkInv`: until something was lost and counted, or the walk stopped, a posting that stood throughout is excused, or it was seen (stored, waiting, in the page in hand), or it is still `ToCome`: beyond the page number, before the cursor, of a board not walked yet. A posting inserted ahead pushes the others back (`NewerPushesBack`), and what a page serves comes before what it does not (`ServedFirst`, `PageByNumber`, `PageByCursor`) |
| `AccountsProofs!AccountsTypes` | `TypeOK` | `ThrottleInv`: the windows kept are linearly ordered by last use and no more than `Capacity` |
| `OneRegistrationWins`, `SessionsStayEnded` | `OneAccountPerAddress`, `EndedStaysEnded` | `AccountsInv`: identifiers are not used again; unless a sign-out wrote over another, nobody holds a later generation than the table, and what is ended is of an earlier one (`Past`) |
| `GuessesAreBounded` | `AttemptsBounded` | `LimitInv`: the attempts counted and the requests that passed the gate and are not counted yet are together within the bound |
| `RefusalLasts` | `RefusalIsKept` | `ThrottleInv`, and that the whole seconds of `Retry-After` are enough (`WaitIsEnough`) |
| `BoardVerificationProofs!VerificationIsFrugal` | `RequestsAreBounded` | `Sound`: at each stage, what was spent is within what the pages so far, the redirects of this one and its candidates may cost |
| `AnswersFit` | `AnswersFitTheRegistry` | `Sound`: the guess is never among the candidates that are probed |
| `JobFeedProofs!FeedTypes` | `TypeOK` | |
| `CompleteListHasAll` | `NoneSkipped` | `FeedInv`: of the jobs that kept their place, those a cursor has passed are on the list, and those a load's answer passes are on it or in the answer |
| `NothingServedTwice` | `ServedOnce` | `ServedInv`: what is listed and did not move is behind every cursor, and until a load is sent twice there is one at a time |
| `JobSkillsProofs!SkillsAreOneReading` | `ReplacedWhole` | `SkillsInv`: until another run commits, what a DELETE saw is what is stored, so the INSERT replaces all of it |
| `RankingsShareASkill` | `RankedShares` | `RankInv`: a shortlisted posting shares a concept for as long as no reading that shares none was committed, because a commit leaves the committer's whole reading in place (`StillShares`) |

The invariants of the properties are not inductive by themselves: each
strengthening above says what an open transaction, a row in hand, a request in
flight or a cursor still knows of the committed state. The assumptions are those
named in the modules (sets finite where they are counted, bounds natural). That
`SerialRemovedIsUnlisted` and `SerialActiveIsListed` need `~Overlap` is
observations 1 and 2, and that `SerialOneJobPerPosting` needs `~Probes` too is
observation 3.

**Only model-checked.** The liveness properties `Settles`, `ReadToAnEnd`,
`EveryRunEnds`, `OwnerLands`, `EveryCompanyIsLookedAt`, `ScrollEnds` and
`SkillsSettle`, which are out of the prover's reach; and `NothingErased` of
`FieldOwnership`, on one instance only.

## 15. What is not modelled

* Normalizers, schemas, boilerplate: text of one record, without state or
  concurrency. That a record is invalid or fails to normalize is an outcome.
* How long a retry waits, and rate limits between requests: they delay a request
  and change nothing that outlives it.
* Which text matches which (`matching.py`, the titles and names of
  `verification.py`, the extraction of mentions): an input of the models, which
  take the outcomes it can have.
* Job queries besides the listing, analytics: reads of one snapshot. The order
  of several ranked jobs is a sort of one snapshot.
* The observations of unknown forms that `skills.py` writes beside a job's
  skills: nothing reads them at run time.
* Profiles: the columns of the one row of each user, written by one upsert. That
  the row exists and the skills on it are in `CvLifecycle`.
* The text of a PDF, the upload policy's reasons and the temporary file of
  `storage.write`, which is published by one hard link; a commit whose outcome
  the client cannot tell.
* Airflow, PostgreSQL and SQLAlchemy are external: the models take from them the
  locks, READ COMMITTED, the column-wise UPDATE, and the schedule.
* The frontend but for the job list, the scripts, the migrations.
