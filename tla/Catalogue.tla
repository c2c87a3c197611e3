------------------------------ MODULE Catalogue ------------------------------
(***************************************************************************)
(* The job catalogue: the tables `jobs` and `job_provenance`, the          *)
(* ingestion runs that write them (pipeline.py, deduplication.py,          *)
(* persistence.py, reconciliation.py) and the nightly retention pass that  *)
(* empties them (retention.py).                                            *)
(*                                                                         *)
(* PostgreSQL runs every transaction at READ COMMITTED: what a transaction *)
(* read can be stale when it writes, uncommitted writes are seen by nobody *)
(* else, and only row locks make one transaction wait for another.  So a   *)
(* run is split at every point where another process can act: the read     *)
(* that decides about a record, the upsert that locks its row, the commit, *)
(* and the same three for reconciliation.  Uncommitted writes are kept in  *)
(* `txn`; committed state is `jobs` and `prov`.                            *)
(***************************************************************************)
EXTENDS Naturals, FiniteSets

CONSTANTS
  Source,           \* the registered sources; one scheduled run each
  Record,           \* the provider records: (source, source_job_id) pairs
  Posting,          \* the real openings, as far as text can tell them apart
  Job,              \* the identifiers a job row can be given
  NoJob, NoRecord, NoPosting,
  SourceOf,         \* which source a record belongs to
  PostingOf,        \* which opening a record describes
  Partial,          \* records whose description is a provider's excerpt
  Windowed,         \* sources that state a lifetime (retire_unseen_after)
  Dated,            \* openings that state an expiry date
  Deadline,         \* that date
  Lifetime,         \* how long a windowed source's posting is kept unseen
  Grace,            \* how long retention keeps a job that left the listing
  BatchSize,        \* how many jobs one retention page takes on
  Overlap,          \* whether runs of different sources may be in progress together
  ExpiryScheduled,  \* whether anything calls expire_jobs_past_their_stated_date
  Probes,           \* whether the retention policy has reference probes
  MaxClock,         \* the bound of the clock
  SettleBy          \* the last moment the outside world may settle

ASSUME CatalogueAssumption ==
  /\ SourceOf \in [Record -> Source]
  /\ PostingOf \in [Record -> Posting]
  /\ NoJob \notin Job /\ NoRecord \notin Record /\ NoPosting \notin Posting
  /\ Partial \subseteq Record /\ Windowed \subseteq Source /\ Dated \subseteq Posting
  /\ Deadline \in Nat /\ Lifetime \in Nat /\ Grace \in Nat /\ MaxClock \in Nat
  /\ SettleBy \in Nat
  /\ BatchSize \in Nat \ {0}
  /\ Overlap \in BOOLEAN /\ ExpiryScheduled \in BOOLEAN /\ Probes \in BOOLEAN

VARIABLES
  jobs,     \* the table jobs
  prov,     \* the table job_provenance, keyed by record
  listed,   \* what each source really lists now (the outside world)
  run,      \* the run of each source: its phase, and what its summary will say
  txn,      \* the open transaction of each run
  sweep,    \* the retention pass
  now,      \* the clock
  settled   \* the outside world has stopped changing and failing

vars == <<jobs, prov, listed, run, txn, sweep, now, settled>>

-----------------------------------------------------------------------------
(* The tables and the processes.                                           *)

JobStatusUnexpired == {"active", "removed"}   \* slip: the enumeration forgets a status
JobStatus == {"active", "expired", "removed"}

AbsentJob == [status |-> "absent", posting |-> NoPosting, changed |-> 0, stripped |-> FALSE]
AbsentRow == [state |-> "absent", job |-> NoJob, seen |-> 0]

\* status; the opening its text describes, none once the text is stripped; updated_at;
\* anonymised_at is set.
JobRow == [status : JobStatus \cup {"absent"}, posting : Posting \cup {NoPosting},
           changed : Nat, stripped : BOOLEAN]

\* "live" is a null retired_at; job_id; last_seen_at.
ProvRow == [state : {"absent", "live", "retired"}, job : Job \cup {NoJob}, seen : Nat]

Phase == {"idle", "fetching", "storing", "decided", "upserted", "retired", "withdrawn"}

\* What a summary can say of a run: it fetched something, it stopped at its budget, it reached
\* the end of the listing, something failed.
Remark == {"fetched", "atBudget", "atEnd", "failed"}

\* `offered` is what the source listed when the run walked it; the code has no such field.
RunState == [phase : Phase, started : Nat, offered : SUBSET Record, todo : SUBSET Record,
             says : SUBSET Remark]

\* record, its job, what its flush will do to the job beyond merging fields, seen_at; and, for
\* reconciliation, the rows retired and the jobs withdrawn.
Change == {"create", "revive", "restore"}
TxnState == [record : Record \cup {NoRecord}, job : Job \cup {NoJob}, does : SUBSET Change,
             at : Nat, gone : SUBSET Record, withdraw : SUBSET Job]

SweepState == [phase : {"idle", "selecting", "page", "locked"}, asOf : Nat,
               page : SUBSET Job, done : SUBSET Job]

IdleRun == [phase |-> "idle", started |-> 0, offered |-> {}, todo |-> {}, says |-> {}]
NoTxn == [record |-> NoRecord, job |-> NoJob, does |-> {}, at |-> 0, gone |-> {},
          withdraw |-> {}]
IdleSweep == [phase |-> "idle", asOf |-> 0, page |-> {}, done |-> {}]

RecordsOf(s) == {r \in Record : SourceOf[r] = s}
Stored(j) == jobs[j].status # "absent"
RowsOf(j) == {r \in Record : prov[r].state # "absent" /\ prov[r].job = j}
LiveRowsOf(j) == {r \in RowsOf(j) : prov[r].state = "live"}

\* Whether a run holds the lock of a provenance row: it upserted it, or retired it.
RunHoldsRow(r) ==
  \E s \in Source : \/ run[s].phase = "upserted" /\ txn[s].record = r
                    \/ run[s].phase \in {"retired", "withdrawn"} /\ r \in txn[s].gone

\* Whether a run's open insert into job_provenance holds the KEY SHARE lock of its job.
RunHoldsJob(j) ==
  \E s \in Source : /\ run[s].phase = "upserted" /\ txn[s].job = j
                    /\ prov[txn[s].record].state = "absent"

SweepHoldsJob(j) == sweep.phase \in {"page", "locked"} /\ j \in sweep.page
SweepHoldsRow(r) ==
  sweep.phase = "locked" /\ prov[r].state # "absent" /\ prov[r].job \in sweep.page

-----------------------------------------------------------------------------
(* Slips: what the definitions of the same name would be with a likely      *)
(* mistake in the code.  Each breaks a property below.                      *)

\* The match by key looks at served jobs only.
CandidatesServed(r) ==
  {j \in Job : /\ jobs[j].status = "active" /\ jobs[j].posting = PostingOf[r]
               /\ r \notin Partial /\ RowsOf(j) \cap Partial = {}}

\* A run with failures may still reconcile.
ExhaustedDespiteFailure(s) ==
  /\ {"fetched", "atEnd"} \subseteq run[s].says
  /\ "atBudget" \notin run[s].says

\* Withdrawal does not ask who else lists the job.
NobodyListsUnasked(s) ==
  {j \in Job : (\E r \in txn[s].gone : prov[r].job = j) /\ jobs[j].status \in {"active", "expired"}}

\* Withdrawal asks before the retirement is flushed.
NobodyListsUnflushed(s) ==
  {j \in Job : /\ \E r \in txn[s].gone : prov[r].job = j
               /\ LiveRowsOf(j) = {}
               /\ jobs[j].status \in {"active", "expired"}}

\* The upsert of a row that was retired leaves retired_at as it is.
UpsertedStillRetired(s) ==
  LET row == prov[txn[s].record]
  IN  [state |-> IF row.state = "absent" THEN "live" ELSE row.state,
       job   |-> IF row.state = "absent" THEN txn[s].job ELSE row.job,
       seen  |-> IF row.seen < txn[s].at THEN txn[s].at ELSE row.seen]

\* A record that could be any of several jobs is skipped without a failure.
RefuseAmbiguousSilently(s, r) ==
  /\ run[s].phase = "storing" /\ r \in run[s].todo
  /\ prov[r].state = "absent"
  /\ Cardinality({j \in Job : Stored(j) /\ jobs[j].posting = PostingOf[r]}) > 1
  /\ run' = [run EXCEPT ![s].todo = run[s].todo \ {r}]
  /\ UNCHANGED <<jobs, prov, listed, txn, sweep, now, settled>>

\* Retention does not ask whether a source still lists the job.
EligibleUnasked(j) ==
  /\ jobs[j].status \in {"expired", "removed"}
  /\ jobs[j].changed + Grace < sweep.asOf
  /\ ~jobs[j].stripped

\* The page is selected without FOR UPDATE SKIP LOCKED.
SelectableUnlocked ==
  {j \in Job \ sweep.done :
     /\ jobs[j].status \in {"expired", "removed"} /\ jobs[j].changed + Grace < sweep.asOf
     /\ ~jobs[j].stripped /\ LiveRowsOf(j) = {}}

\* The page goes on without locking its provenance rows.
LockProvenanceNot ==
  /\ sweep.phase = "page"
  /\ sweep' = [sweep EXCEPT !.phase = "locked"]
  /\ UNCHANGED <<jobs, prov, listed, run, txn, now, settled>>

-----------------------------------------------------------------------------
Init ==
  /\ jobs = [j \in Job |-> AbsentJob]
  /\ prov = [r \in Record |-> AbsentRow]
  /\ listed = [s \in Source |-> RecordsOf(s)]
  /\ run = [s \in Source |-> IdleRun]
  /\ txn = [s \in Source |-> NoTxn]
  /\ sweep = IdleSweep
  /\ now = 0
  /\ settled = FALSE

-----------------------------------------------------------------------------
(* The outside world: time, and what the sources list.                      *)

Tick ==
  /\ now < MaxClock
  /\ now' = now + 1
  /\ UNCHANGED <<jobs, prov, listed, run, txn, sweep, settled>>

MoveListing(r) ==
  /\ ~settled
  /\ listed' = [listed EXCEPT ![SourceOf[r]] = IF r \in @ THEN @ \ {r} ELSE @ \cup {r}]
  /\ UNCHANGED <<jobs, prov, run, txn, sweep, now, settled>>

\* From here on the sources list what they list and nothing fails.  Only progress depends on
\* it, so it may be taken to happen between runs.
Settle ==
  /\ ~settled /\ now <= SettleBy
  /\ \A s \in Source : run[s].phase = "idle"
  /\ settled' = TRUE
  /\ UNCHANGED <<jobs, prov, listed, run, txn, sweep, now>>

-----------------------------------------------------------------------------
(* A run, up to its reconciliation.                                         *)

StartRun(s) ==
  /\ run[s].phase = "idle"
  /\ Overlap \/ \A t \in Source : run[t].phase = "idle"
  /\ run' = [run EXCEPT ![s] = [@ EXCEPT !.phase = "fetching", !.started = now]]
  /\ UNCHANGED <<jobs, prov, listed, txn, sweep, now, settled>>

\* What one walk of a source can come back with: the records that passed validation and
\* normalization, and what the summary will say of it.  A clean walk that reached the end
\* read everything the source lists, unless the source answered as if it listed nothing.
\* Record need not be all a source carries, so a walk can fetch something and get no member
\* of it.  One reason against reconciling is recorded; two refuse it no more.
WalkOutcome(s, got, says) ==
  /\ got # {} => "fetched" \in says
  /\ s \in Windowed => "atEnd" \notin says
  /\ "atBudget" \in says => says \cap {"atEnd", "failed"} = {}
  /\ "failed" \in says => "atEnd" \in says \/ s \in Windowed
  /\ {"fetched", "atEnd"} \subseteq says /\ "failed" \notin says => got = listed[s]
  /\ settled => got = listed[s] /\ says = {"fetched"} \cup IF s \in Windowed THEN {} ELSE {"atEnd"}

Walk(s) ==
  /\ run[s].phase = "fetching"
  /\ \E got \in SUBSET listed[s], says \in SUBSET Remark :
       /\ WalkOutcome(s, got, says)
       /\ run' = [run EXCEPT ![s] = [@ EXCEPT !.phase = "storing", !.offered = listed[s],
                                              !.todo = got, !.says = says]]
  /\ UNCHANGED <<jobs, prov, listed, txn, sweep, now, settled>>

\* The stored jobs a record new to the catalogue reads the same as.
Candidates(r) ==
  {j \in Job : /\ Stored(j) /\ jobs[j].posting = PostingOf[r]
               /\ r \notin Partial /\ RowsOf(j) \cap Partial = {}}

\* decide() finds no row of the record and several jobs that read the same.
Ambiguous(r) == prov[r].state = "absent" /\ \E i, j \in Candidates(r) : i # j

\* uuid4: an identifier no row has and no transaction remembers.
Unused(j) == ~Stored(j) /\ \A s \in Source : txn[s].job # j

Decide(s, r, j, creates) ==
  /\ run' = [run EXCEPT ![s] = [@ EXCEPT !.phase = "decided", !.todo = run[s].todo \ {r}]]
  /\ txn' = [txn EXCEPT ![s] = [@ EXCEPT
                !.record = r, !.job = j, !.at = now,
                !.does = creates \cup {c \in {"revive"} : jobs[j].status = "removed"}
                                \cup {c \in {"restore"} : jobs[j].posting = NoPosting}]]
  /\ UNCHANGED <<jobs, prov, listed, sweep, now, settled>>

\* decide() recognises the record by its provenance row.
DecideKnown(s, r) ==
  /\ run[s].phase = "storing" /\ r \in run[s].todo
  /\ prov[r].state # "absent"
  /\ Decide(s, r, prov[r].job, {})

\* decide() recognises the posting under another record's job.
DecideMatch(s, r) ==
  /\ run[s].phase = "storing" /\ r \in run[s].todo
  /\ prov[r].state = "absent"
  /\ \E j \in Job : Candidates(r) = {j} /\ Decide(s, r, j, {})

DecideNew(s, r) ==
  /\ run[s].phase = "storing" /\ r \in run[s].todo
  /\ prov[r].state = "absent" /\ Candidates(r) = {}
  /\ \E j \in Job : Unused(j) /\ Decide(s, r, j, {"create"})

\* Several stored jobs read the same: the record is skipped with a failure.
RefuseAmbiguous(s, r) ==
  /\ run[s].phase = "storing" /\ r \in run[s].todo
  /\ Ambiguous(r)
  /\ run' = [run EXCEPT ![s] = [@ EXCEPT !.todo = run[s].todo \ {r},
                                              !.says = run[s].says \cup {"failed"}]]
  /\ UNCHANGED <<jobs, prov, listed, txn, sweep, now, settled>>

\* The upsert's foreign key names a job nobody stores any more.
Dangles(s) ==
  "create" \notin txn[s].does /\ prov[txn[s].record].state = "absent" /\ ~Stored(txn[s].job)

\* observe_job_provenance: from here the row is locked, and so is the job a new row names.
Upsert(s) ==
  /\ run[s].phase = "decided" /\ ~Dangles(s)
  /\ ~SweepHoldsRow(txn[s].record)
  /\ prov[txn[s].record].state = "absent" => ~SweepHoldsJob(txn[s].job)
  /\ run' = [run EXCEPT ![s].phase = "upserted"]
  /\ UNCHANGED <<jobs, prov, listed, txn, sweep, now, settled>>

\* IntegrityError inside the savepoint: skipped with a failure, and the run goes on.
UpsertFails(s) ==
  /\ run[s].phase = "decided" /\ Dangles(s)
  /\ run' = [run EXCEPT ![s] = [@ EXCEPT !.phase = "storing", !.says = run[s].says \cup {"failed"}]]
  /\ txn' = [txn EXCEPT ![s] = NoTxn]
  /\ UNCHANGED <<jobs, prov, listed, sweep, now, settled>>

LaterOf(a, b) == IF a < b THEN b ELSE a

\* The provenance row after the upsert: live again, and the job it already named.
Upserted(s) ==
  LET row == prov[txn[s].record]
  IN  [state |-> "live",
       job   |-> IF row.state = "absent" THEN txn[s].job ELSE row.job,
       seen  |-> LaterOf(row.seen, txn[s].at)]

\* The job after the flush: created, or with what the decision saw to change: revived if it
\* was loaded as removed, its text back if it was loaded without, other fields merged
\* (`touched`).  Only changed columns are written.
Flushed(s, touched) ==
  LET job == jobs[txn[s].job]
      own == PostingOf[txn[s].record]
      does == txn[s].does
  IN  IF "create" \in does
      THEN [status |-> "active", posting |-> own, changed |-> now, stripped |-> FALSE]
      ELSE [job EXCEPT !.status = IF "revive" \in does THEN "active" ELSE @,
                       !.posting = IF "restore" \in does THEN own ELSE @,
                       !.changed = IF "revive" \in does \/ touched THEN now ELSE @]

\* The flush waits for a job the retention pass holds; then the record commits.
CommitRecord(s) ==
  /\ run[s].phase = "upserted"
  /\ \E touched \in BOOLEAN :
       /\ "restore" \in txn[s].does => touched
       /\ "revive" \in txn[s].does \/ touched => ~SweepHoldsJob(txn[s].job)
       /\ jobs' = [jobs EXCEPT ![txn[s].job] = Flushed(s, touched)]
  /\ prov' = [prov EXCEPT ![txn[s].record] = Upserted(s)]
  /\ run' = [run EXCEPT ![s].phase = "storing"]
  /\ txn' = [txn EXCEPT ![s] = NoTxn]
  /\ UNCHANGED <<listed, sweep, now, settled>>

-----------------------------------------------------------------------------
(* Reconciliation.                                                          *)

\* why_not: the run saw the whole source.  That every record fetched was accounted for, which
\* it asks too, is the pipeline's promise (IngestionRun.ProcessingComplete).
Exhausted(s) ==
  /\ {"fetched", "atEnd"} \subseteq run[s].says
  /\ run[s].says \cap {"atBudget", "failed"} = {}

\* may_age_out: the run states a lifetime, saw something and was not cut short.
MayAgeOut(s) ==
  s \in Windowed /\ "fetched" \in run[s].says /\ "atBudget" \notin run[s].says

\* unseen_before, as the set of live rows it leaves unseen.
Unseen(s) ==
  {r \in RecordsOf(s) :
     /\ prov[r].state = "live"
     /\ \/ Exhausted(s) /\ prov[r].seen < run[s].started
        \/ ~Exhausted(s) /\ MayAgeOut(s) /\ prov[r].seen + Lifetime < run[s].started}

\* Refused, or nothing is unseen: the run completes.
FinishRun(s) ==
  /\ run[s].phase = "storing" /\ run[s].todo = {}
  /\ Unseen(s) = {}
  /\ run' = [run EXCEPT ![s] = IdleRun]
  /\ UNCHANGED <<jobs, prov, listed, txn, sweep, now, settled>>

RetireUnseen(s) ==
  /\ run[s].phase = "storing" /\ run[s].todo = {}
  /\ Unseen(s) # {}
  /\ \A r \in Unseen(s) : ~SweepHoldsRow(r)
  /\ run' = [run EXCEPT ![s].phase = "retired"]
  /\ txn' = [txn EXCEPT ![s].gone = Unseen(s)]
  /\ UNCHANGED <<jobs, prov, listed, sweep, now, settled>>

\* withdraw_jobs_nobody_lists reads: of the jobs whose rows it retired, those with no other
\* live row that are not removed already.
NobodyLists(s) ==
  {j \in Job : /\ \E r \in txn[s].gone : prov[r].job = j
               /\ LiveRowsOf(j) \subseteq txn[s].gone
               /\ jobs[j].status \in {"active", "expired"}}

Withdraw(s) ==
  /\ run[s].phase = "retired"
  /\ run' = [run EXCEPT ![s].phase = "withdrawn"]
  /\ txn' = [txn EXCEPT ![s].withdraw = NobodyLists(s)]
  /\ UNCHANGED <<jobs, prov, listed, sweep, now, settled>>

CommitReconciliation(s) ==
  /\ run[s].phase = "withdrawn"
  /\ \A j \in txn[s].withdraw : ~SweepHoldsJob(j)
  /\ prov' = [r \in Record |->
                IF r \in txn[s].gone THEN [prov[r] EXCEPT !.state = "retired"] ELSE prov[r]]
  /\ jobs' = [j \in Job |->
                IF j \in txn[s].withdraw
                THEN [jobs[j] EXCEPT !.status = "removed", !.changed = now] ELSE jobs[j]]
  /\ run' = [run EXCEPT ![s] = IdleRun]
  /\ txn' = [txn EXCEPT ![s] = NoTxn]
  /\ UNCHANGED <<listed, sweep, now, settled>>

\* A task killed at its timeout, or an error outside a savepoint: the open transaction is
\* rolled back, what was committed stays.  The scheduler's retry is another StartRun.
Crash(s) ==
  /\ ~settled /\ run[s].phase # "idle"
  /\ run' = [run EXCEPT ![s] = IdleRun]
  /\ txn' = [txn EXCEPT ![s] = NoTxn]
  /\ UNCHANGED <<jobs, prov, listed, sweep, now, settled>>

-----------------------------------------------------------------------------
(* Expiry by a stated date.                                                 *)

Lapsed(j) == jobs[j].status = "active" /\ jobs[j].posting \in Dated /\ Deadline < now

Expire ==
  /\ ExpiryScheduled
  /\ \E j \in Job : Lapsed(j)
  /\ jobs' = [j \in Job |-> IF Lapsed(j) /\ ~SweepHoldsJob(j)
                            THEN [jobs[j] EXCEPT !.status = "expired", !.changed = now]
                            ELSE jobs[j]]
  /\ UNCHANGED <<prov, listed, run, txn, sweep, now, settled>>

-----------------------------------------------------------------------------
(* The retention pass.                                                      *)

SweepStart ==
  /\ sweep.phase = "idle"
  /\ sweep' = [sweep EXCEPT !.phase = "selecting", !.asOf = now]
  /\ UNCHANGED <<jobs, prov, listed, run, txn, now, settled>>

Eligible(j) ==
  /\ jobs[j].status \in {"expired", "removed"}
  /\ jobs[j].changed + Grace < sweep.asOf
  /\ ~jobs[j].stripped
  /\ LiveRowsOf(j) = {}

\* Candidates past the key of the last page whose row nobody holds.
Selectable == {j \in Job \ sweep.done : Eligible(j) /\ ~RunHoldsJob(j)}

SelectPage ==
  /\ sweep.phase = "selecting" /\ Selectable # {}
  /\ \E page \in SUBSET Selectable :
       /\ page # {} /\ Cardinality(page) <= BatchSize
       /\ sweep' = [sweep EXCEPT !.phase = "page", !.page = page, !.done = sweep.done \cup page]
  /\ UNCHANGED <<jobs, prov, listed, run, txn, now, settled>>

SweepDone ==
  /\ sweep.phase = "selecting" /\ Selectable = {}
  /\ sweep' = IdleSweep
  /\ UNCHANGED <<jobs, prov, listed, run, txn, now, settled>>

\* lock_provenance: a job with a row a run holds is left out of the page.
LockProvenance ==
  /\ sweep.phase = "page"
  /\ sweep' = [sweep EXCEPT !.phase = "locked",
                            !.page = {j \in sweep.page : \A r \in RowsOf(j) : ~RunHoldsRow(r)}]
  /\ UNCHANGED <<jobs, prov, listed, run, txn, now, settled>>

\* Anonymise what is referenced, purge the rest, each after asking `eligible` again; commit.
CommitPage ==
  /\ sweep.phase = "locked"
  /\ \E referenced \in SUBSET sweep.page :
       LET kept == {j \in referenced : Eligible(j)}
           gone == {j \in sweep.page \ referenced : Eligible(j)}
       IN  /\ ~Probes => referenced = {}
           /\ jobs' = [j \in Job |->
                         CASE j \in kept -> [jobs[j] EXCEPT !.posting = NoPosting,
                                                !.stripped = TRUE, !.changed = now]
                           [] j \in gone -> AbsentJob
                           [] OTHER -> jobs[j]]
           /\ prov' = [r \in Record |->
                         IF prov[r].job \in gone THEN AbsentRow ELSE prov[r]]
  /\ sweep' = [sweep EXCEPT !.phase = "selecting", !.page = {}]
  /\ UNCHANGED <<listed, run, txn, now, settled>>

SweepCrash ==
  /\ ~settled /\ sweep.phase # "idle"
  /\ sweep' = IdleSweep
  /\ UNCHANGED <<jobs, prov, listed, run, txn, now, settled>>

-----------------------------------------------------------------------------
StoreStep(s) ==
  \/ \E r \in RecordsOf(s) :
       DecideKnown(s, r) \/ DecideMatch(s, r) \/ DecideNew(s, r) \/ RefuseAmbiguous(s, r)
  \/ Upsert(s) \/ UpsertFails(s) \/ CommitRecord(s)

RunStep(s) ==
  \/ Walk(s) \/ StoreStep(s)
  \/ FinishRun(s) \/ RetireUnseen(s) \/ Withdraw(s) \/ CommitReconciliation(s)

SweepStep == SelectPage \/ SweepDone \/ LockProvenance \/ CommitPage

World == Tick \/ Settle \/ \E r \in Record : MoveListing(r)

Next ==
  \/ World
  \/ \E s \in Source : StartRun(s) \/ RunStep(s) \/ Crash(s)
  \/ SweepStart \/ SweepStep \/ SweepCrash
  \/ Expire

Spec == Init /\ [][Next]_vars

\* Airflow starts every source's DAG again and again, whatever the others do; a started run
\* goes on, and PostgreSQL hands a lock it waits for to it rather than to every later pass
\* before it; a started page goes on; the clock does not stop.
Fairness ==
  /\ \A s \in Source : SF_vars(StartRun(s)) /\ SF_vars(RunStep(s))
  /\ WF_vars(SweepStep)
  /\ WF_vars(Tick) /\ WF_vars(Settle) /\ WF_vars(Expire)

FairSpec == Spec /\ Fairness

-----------------------------------------------------------------------------
(* Properties.                                                              *)

TypeOK ==
  /\ jobs \in [Job -> JobRow]
  /\ prov \in [Record -> ProvRow]
  /\ listed \in [Source -> SUBSET Record]
  /\ run \in [Source -> RunState]
  /\ txn \in [Source -> TxnState]
  /\ sweep \in SweepState
  /\ now \in Nat
  /\ settled \in BOOLEAN

\* Every provenance row names a stored job: no interleaving of runs, crashes and retention
\* pages commits a row whose job is gone, or deletes a job and leaves a row.
RowsNameStoredJobs ==
  \A r \in Record : prov[r].state # "absent" => prov[r].job \in Job /\ Stored(prov[r].job)

\* A row a run has upserted and not yet committed keeps its job: the page that would delete
\* it either waits or leaves it out.
OpenUpsertKeepsItsJob ==
  \A s \in Source : run[s].phase = "upserted" /\ "create" \notin txn[s].does => Stored(txn[s].job)

\* reconciliation.py: a job is withdrawn only once no source still lists it.
RemovedIsUnlisted ==
  \A j \in Job : jobs[j].status = "removed" => LiveRowsOf(j) = {}

\* reconciliation.py: what nobody lists is withdrawn, so a served job is one a source lists.
ActiveIsListed ==
  \A j \in Job : jobs[j].status = "active" => LiveRowsOf(j) # {}

FullText(j) == Stored(j) /\ RowsOf(j) \cap Partial = {} /\ jobs[j].posting # NoPosting

\* deduplication.py: two records that read the same, neither an excerpt, are one job.
OneJobPerPosting ==
  \A i, j \in Job : FullText(i) /\ FullText(j) /\ jobs[i].posting = jobs[j].posting => i = j

\* The retention pass takes nothing a source lists: a job that is deleted or stripped has no
\* live row, and no run holds a row of it that is about to go live.
RetentionSparesListed ==
  [][\A j \in Job :
       Stored(j) /\ (~Stored(j)' \/ (jobs[j]'.stripped /\ ~jobs[j].stripped)) =>
         /\ LiveRowsOf(j) = {}
         /\ \A r \in RowsOf(j) : ~RunHoldsRow(r)]_vars

\* A row is retired only for a posting its source no longer listed when the run walked it,
\* or one a windowed source has not shown for its lifetime: never because the run was cut
\* short, failed on a record, or got an empty answer.
RetiresOnlyWhatIsGone ==
  [][\A r \in Record :
       prov[r].state = "live" /\ prov[r]'.state = "retired" =>
         LET s == SourceOf[r] IN
         \/ r \notin run[s].offered
         \/ s \in Windowed /\ prov[r].seen + Lifetime < run[s].started]_vars

\* A run that retires a row of a source without a stated lifetime has stored everything the
\* source listed: a record that was refused or failed leaves the run no conclusion.
ConcludesFromAll ==
  [][\A s \in Source \ Windowed :
       (\E r \in RecordsOf(s) : prov[r].state = "live" /\ prov[r]'.state = "retired") =>
         \A r \in RecordsOf(s) \cap run[s].offered : prov[r].state = "live"]_vars

\* Once the sources stop changing and failing, the catalogue comes to say what they list and
\* keeps saying it, from whatever overlapping runs left: a job withdrawn under a live row, two
\* jobs of one opening.  A listed posting has a live row and its job is not withdrawn, and an
\* unlisted one has no live row but one the clock has not passed (only a run that starts later
\* than it was last seen can retire it).  Excepted for as long as several stored jobs read the
\* same as a listed record without a row: that record is refused, and no run of its source
\* reaches a conclusion.
Settles ==
  <>[](settled =>
         \A r \in Record :
           IF r \in listed[SourceOf[r]]
           THEN \/ prov[r].state = "live" /\ jobs[prov[r].job].status # "removed"
                \/ Ambiguous(r)
           ELSE \/ prov[r].state = "live" => prov[r].seen = now
                \/ \E q \in listed[SourceOf[r]] : Ambiguous(q))

=============================================================================
