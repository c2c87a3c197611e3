----------------------------- MODULE IngestionRun -----------------------------
(***************************************************************************)
(* One source's ingestion pipeline: the executions a scheduler or an       *)
(* operator starts, how each walks the provider (the clients, with the     *)
(* shared retry and the daily call quota), prepares and stores what it     *)
(* read, concludes from it (pipeline.py, contracts.py, reconciliation.py), *)
(* and what it leaves in `ingestion_runs` (runs.py).                       *)
(*                                                                         *)
(* The provider's listing moves while it is walked.  A posting is a        *)
(* number; a newer one is larger, and every provider lists newest first.   *)
(* The matching of records to jobs is the business of Catalogue; here a    *)
(* posting of the source has a live provenance row or has not.             *)
(***************************************************************************)
EXTENDS Integers, FiniteSets, Sequences

CONSTANTS
  Source,       \* the pipelines considered, among AllSource; one in each behaviour
  MaxRuns,      \* the bound of the executions of a pipeline, each with a row of its own
  RunsOf,       \* and that of each pipeline
  Overlapping,  \* the pipelines an operator may start beside the scheduled run
  MaxPosting,   \* the bound of the postings ever published
  PostingsOf,   \* and that of each source
  Sections,     \* how many boards, or countries, a source of several has
  SectionOf,    \* the board, or the country, of a posting
  PageSize,     \* what one page holds (results_per_page, limit)
  MaxPages,     \* max_pages, pages_per_country, max_pages_per_board
  FeedLimit,    \* the count the Jobicy feed is asked for
  MaxRecords,   \* the record budget of a run
  MaxAttempts,  \* how often a request is put
  PerDay,       \* the daily quota of the metered source
  LastDay,      \* the bound of the calendar
  Lifetime      \* retire_unseen_after of the windowed source, in days

AllSource == {"remotive", "jobicy", "arbeitnow", "himalayas", "adzuna", "board"}
Run == 1 .. MaxRuns
Posting == 1 .. MaxPosting
Day == 1 .. LastDay
Section == 1 .. Sections

ASSUME IngestionRunAssumption ==
  /\ Source \subseteq AllSource /\ Overlapping \subseteq Source
  /\ MaxRuns \in Nat /\ RunsOf \in [Source -> 0 .. MaxRuns]
  /\ MaxPosting \in Nat /\ PostingsOf \in [Source -> 0 .. MaxPosting]
  /\ Sections \in Nat \ {0} /\ LastDay \in Nat \ {0}
  /\ SectionOf \in [Posting -> Section]
  /\ PageSize \in Nat \ {0} /\ MaxPages \in Nat \ {0} /\ FeedLimit \in Nat \ {0}
  /\ MaxRecords \in Nat \ {0} /\ MaxAttempts \in Nat \ {0}
  /\ PerDay \in Nat \ {0} /\ Lifetime \in Nat

VARIABLES
  source,   \* whose pipeline this is; never changes
  site,     \* what the provider lists now
  newest,   \* the last posting it published
  today,    \* the UTC date
  live,     \* the postings with a live provenance row of this source
  seenOn,   \* the date of their last_seen_at
  task,     \* the executions
  ledger,   \* source_quota_usage.calls of each day, as committed
  asked,    \* how many calls were put to the metered provider each day
  uncounted \* of those, how many a lost process left out of the ledger

vars == <<source, site, newest, today, live, seenOn, task, ledger, asked, uncounted>>
world == <<site, newest, today>>
quota == <<ledger, asked, uncounted>>
rows == <<live, seenOn>>

-----------------------------------------------------------------------------
(* An execution.                                                           *)

\* The row an execution has in ingestion_runs, "none" when it could not be written.
RowState == {"none", "running", "completed", "failed"}

\* An execution ends by returning, by raising, or with its process: cancelled at the
\* execution timeout or killed outright.
Ended == {"returned", "raised", "lost"}
Phase == {"idle", "opening", "loading", "asking", "preparing", "storing", "reconciling",
          "closing"} \cup Ended
Underway == Phase \ ({"idle"} \cup Ended)

\* `left` are the sections still to walk, `cursor` bounds the postings still ahead, `batch`
\* is the page handed to the run, `queue` what is prepared and not stored.  The counters:
\* `stored` is created + updated + skipped, `rejected`, `unread` and `refused` the failures
\* at validate or normalize, at fetch, and at persist.  `held` is the day of a reservation
\* not yet committed, 0 without one.  `fresh` is what was stored since the run began.  The
\* code has no `stood`, `moved`, `cut`: what the provider listed throughout the walk, whether
\* something left meanwhile a listing read by page number, whether the one page of a feed
\* was not all of it.  Absence means nothing to the windowed source, which keeps none of them.
TaskState ==
  [phase : Phase, row : RowState, poisoned : BOOLEAN,
   configured : BOOLEAN, started : 0 .. LastDay, polled : SUBSET Section,
   left : SUBSET Section, page : 1 .. MaxPages, cursor : 1 .. MaxPosting + 1,
   attempt : 1 .. MaxAttempts, held : 0 .. LastDay, more : BOOLEAN,
   batch : SUBSET Posting, queue : Seq(Posting),
   fetched : Nat, stored : Nat, rejected : Nat, unread : Nat, refused : Nat,
   stopped : BOOLEAN, reached : BOOLEAN, exhausted : BOOLEAN,
   stood : SUBSET Posting, fresh : SUBSET Posting, moved : BOOLEAN, cut : BOOLEAN]

Idle ==
  [phase |-> "idle", row |-> "none", poisoned |-> FALSE, configured |-> TRUE,
   started |-> 0, polled |-> {}, left |-> {}, page |-> 1, cursor |-> MaxPosting + 1,
   attempt |-> 1, held |-> 0, more |-> FALSE, batch |-> {}, queue |-> << >>,
   fetched |-> 0, stored |-> 0, rejected |-> 0, unread |-> 0, refused |-> 0,
   stopped |-> FALSE, reached |-> FALSE, exhausted |-> FALSE,
   stood |-> {}, fresh |-> {}, moved |-> FALSE, cut |-> FALSE]

\* What is left of an execution that ended: its row.
Over(how, row) == [Idle EXCEPT !.phase = how, !.row = row]

\* A bookkeeping statement that fails is swallowed, so each may come to nothing.
Written(row, state) == {row, IF row = "running" THEN state ELSE row}

AreUnderway == {w \in Run : task[w].phase \in Underway}
ByNumber == source = "arbeitnow"
Windowed == source = "adzuna"
Sectioned == source \in {"adzuna", "board"}
Current(t) == CHOOSE k \in t.left : \A j \in t.left : k <= j
Listing(t) == IF Sectioned THEN {p \in site : SectionOf[p] = Current(t)} ELSE site

-----------------------------------------------------------------------------
(* The world: the provider's listing and the date.                         *)

Publish ==
  /\ newest < PostingsOf[source]
  /\ newest' = newest + 1
  /\ site' = site \cup {newest + 1}
  /\ UNCHANGED <<source, today, rows, task, quota>>

CloseThere(p) ==
  /\ p \in site
  /\ site' = site \ {p}
  /\ task' = [w \in Run |-> IF task[w].phase \in Underway
                             THEN [task[w] EXCEPT !.stood = @ \ {p}, !.moved = ByNumber]
                             ELSE task[w]]
  /\ UNCHANGED <<source, newest, today, rows, quota>>

\* The date is of interest to the source that counts days only.
NextDay ==
  /\ source = "adzuna" /\ today < LastDay
  /\ today' = today + 1
  /\ UNCHANGED <<source, site, newest, rows, task, quota>>

-----------------------------------------------------------------------------
(* Opening an execution.                                                   *)

\* A DAG runs one execution at a time; an operator's command does not ask.
Begin(w, sections, configured) ==
  /\ w <= RunsOf[source] /\ task[w].phase = "idle"
  /\ \A v \in Run : v < w => task[v].phase # "idle"
  /\ AreUnderway = {} \/ source \in Overlapping
  /\ task' = [task EXCEPT ![w] = [Idle EXCEPT !.phase = "opening", !.started = today,
                                    !.polled = sections, !.configured = configured]]
  /\ UNCHANGED <<source, world, rows, quota>>

BeginFeed(w) == ~Sectioned /\ Begin(w, {1}, TRUE)

\* A board provider's run polls the boards the registry holds as it starts.
BeginBoards(w) == source = "board" /\ \E polled \in SUBSET Section : Begin(w, polled, TRUE)

\* Only the keyed source can be without its credentials.
BeginKeyed(w) == source = "adzuna" /\ \E configured \in BOOLEAN : Begin(w, Section, configured)

OpenRow(w) ==
  /\ task[w].phase = "opening"
  /\ \E row \in {"none", "running"} :
       task' = [task EXCEPT ![w].row = row,
                  ![w].phase = IF task[w].configured THEN "loading" ELSE "closing",
                  ![w].unread = IF task[w].configured THEN 0 ELSE 1]
  /\ UNCHANGED <<source, world, rows, quota>>

\* A vocabulary is read, or there is none, or reading it raises, and the run goes on.  If what
\* raised was a statement the database refused, PostgreSQL refuses every later one of that
\* transaction too, and it is the one the run stores through.  The walk begins, its own
\* state reset.
LoadVocabulary(w) ==
  /\ task[w].phase = "loading"
  /\ \E poisoned \in BOOLEAN :
       task' = [task EXCEPT ![w].poisoned = poisoned,
                  ![w].phase = IF task[w].polled = {} THEN "storing" ELSE "asking",
                  ![w].left = task[w].polled,
                  ![w].reached = (task[w].polled = {}),
                  ![w].stood = IF Windowed THEN {} ELSE site]
  /\ UNCHANGED <<source, world, rows, quota>>

-----------------------------------------------------------------------------
(* A request: the quota, the retry, and the answer.                        *)

\* The upsert that reserves locks the row of the day until its transaction ends.
NoLock(d) == FALSE                         \* slip: a read, then a write of one more
LedgerLocked(d) == \E w \in Run : task[w].held = d

Room(d) == ledger[d] + 1 <= PerDay

Reserve(w) ==
  /\ source = "adzuna" /\ task[w].phase = "asking" /\ task[w].held = 0
  /\ ~LedgerLocked(today) /\ Room(today)
  /\ task' = [task EXCEPT ![w].held = today]
  /\ asked' = [asked EXCEPT ![today] = @ + 1]
  /\ UNCHANGED <<source, world, rows, ledger, uncounted>>

\* QuotaExceeded ends the walk like the record budget does.
ReservationRefused(w) ==
  /\ source = "adzuna" /\ task[w].phase = "asking" /\ task[w].held = 0
  /\ ~LedgerLocked(today) /\ ~Room(today)
  /\ task' = [task EXCEPT ![w].phase = "storing", ![w].stopped = TRUE, ![w].left = {}]
  /\ UNCHANGED <<source, world, rows, quota>>

\* The client commits its reservation however the call ended.
CommitsReservation(w) ==
  /\ ledger' = IF task[w].held = 0 THEN ledger
               ELSE [ledger EXCEPT ![task[w].held] = @ + 1]
  /\ UNCHANGED <<asked, uncounted>>

CanAsk(w) == task[w].phase = "asking" /\ (source = "adzuna" => task[w].held # 0)

\* slip: the loop does not count its attempts
RetryForever(w) ==
  /\ CanAsk(w)
  /\ task' = [task EXCEPT ![w].attempt = IF @ < MaxAttempts THEN @ + 1 ELSE 1]
  /\ UNCHANGED <<source, world, rows, quota>>

Retry(w) ==
  /\ CanAsk(w) /\ task[w].attempt < MaxAttempts
  /\ task' = [task EXCEPT ![w].attempt = @ + 1]
  /\ UNCHANGED <<source, world, rows, quota>>

\* The next section after one that is done, or the end of the walk.  A board walk reached the
\* end when it skipped no board and dropped no posting; a windowed one never does.
NextSection(t) ==
  LET left == t.left \ {Current(t)}
  IN [t EXCEPT !.left = left, !.page = 1, !.cursor = MaxPosting + 1, !.attempt = 1,
        !.held = 0, !.batch = {}, !.more = FALSE,
        !.phase = IF left = {} THEN "storing" ELSE "asking",
        !.reached = left = {} /\ source = "board" /\ t.unread = 0]

\* No attempt was answered, or the answer is not one the client can read.  A board is
\* skipped; elsewhere the walk ends and what was read so far is stored.
FetchFails(w) ==
  /\ CanAsk(w)
  /\ task' = [task EXCEPT ![w] =
                IF source = "board"
                THEN NextSection([task[w] EXCEPT !.unread = @ + 1])
                ELSE [task[w] EXCEPT !.unread = @ + 1, !.phase = "storing", !.left = {},
                        !.held = 0, !.batch = {}]]
  /\ CommitsReservation(w)
  /\ UNCHANGED <<source, world, rows>>

-----------------------------------------------------------------------------
(* What each provider answers, and how its client goes on.                 *)

Newest(postings, n) ==
  {p \in postings : Cardinality({q \in postings : q > p}) < n}

\* The one page of a source without paging.
RemotivePage == site
JobicyPage == Newest(site, FeedLimit)

\* A page by number over the list as it is now.
NumberedPage(postings, page) ==
  Newest(postings, page * PageSize) \ Newest(postings, (page - 1) * PageSize)

\* The page after a cursor, which names the last posting served.
CursorPage(postings, cursor) == Newest({p \in postings : p < cursor}, PageSize)
Ahead(postings, cursor, page) == {p \in postings : p < cursor} \ page
CursorAfter(cursor, page) ==
  IF page = {} THEN cursor ELSE CHOOSE p \in page : \A q \in page : p <= q

\* A provider may announce a next page that turns out empty, and never hides one there is.
Announces(rest) == IF rest = {} THEN BOOLEAN ELSE {TRUE}

Receives(w, page, more, cursor) ==
  /\ task' = [task EXCEPT ![w].batch = page, ![w].more = more, ![w].cursor = cursor,
                ![w].attempt = 1, ![w].held = 0, ![w].phase = "preparing"]
  /\ CommitsReservation(w)
  /\ UNCHANGED <<source, world, rows>>

RemotiveAnswer(w) ==
  /\ source = "remotive" /\ CanAsk(w)
  /\ Receives(w, RemotivePage, FALSE, task[w].cursor)

JobicyAnswer(w) ==
  /\ source = "jobicy" /\ CanAsk(w)
  /\ task' = [task EXCEPT ![w].batch = JobicyPage, ![w].attempt = 1,
                ![w].phase = "preparing", ![w].cut = (JobicyPage # site)]
  /\ UNCHANGED <<source, world, rows, quota>>

ArbeitnowAnswer(w) ==
  /\ source = "arbeitnow" /\ CanAsk(w)
  /\ LET page == NumberedPage(site, task[w].page)
     IN \E more \in Announces(site \ Newest(site, task[w].page * PageSize)) :
          Receives(w, page, more, task[w].cursor)

HimalayasAnswer(w) ==
  /\ source = "himalayas" /\ CanAsk(w)
  /\ LET page == CursorPage(site, task[w].cursor)
     IN \E more \in Announces(Ahead(site, task[w].cursor, page)) :
          Receives(w, page, more, CursorAfter(task[w].cursor, page))

\* A short page is the end of a country's window.
AdzunaAnswer(w) ==
  /\ source = "adzuna" /\ CanAsk(w)
  /\ LET page == NumberedPage(Listing(task[w]), task[w].page)
     IN Receives(w, page, Cardinality(page) = PageSize, task[w].cursor)

\* A board is read page by page to its end before the run is handed any of it; one that does
\* not end within its pages is skipped.  Then each posting is completed with its detail, and
\* those whose detail cannot be read are dropped, each a failure at fetch.
BoardAnswer(w) ==
  /\ source = "board" /\ CanAsk(w)
  /\ LET page == CursorPage(Listing(task[w]), task[w].cursor)
         read == task[w].batch \cup page
     IN \E more \in Announces(Ahead(Listing(task[w]), task[w].cursor, page)) :
          \/ /\ more /\ task[w].page < MaxPages
             /\ task' = [task EXCEPT ![w].batch = read, ![w].attempt = 1,
                           ![w].page = @ + 1,
                           ![w].cursor = CursorAfter(task[w].cursor, page)]
          \/ /\ more /\ task[w].page = MaxPages
             /\ task' = [task EXCEPT ![w] =
                           NextSection([task[w] EXCEPT !.unread = @ + 1])]
          \/ /\ ~more
             /\ \E dropped \in SUBSET read :
                  task' = [task EXCEPT ![w].batch = read \ dropped, ![w].attempt = 1,
                             ![w].unread = @ + Cardinality(dropped),
                             ![w].more = FALSE, ![w].phase = "preparing"]
  /\ UNCHANGED <<source, world, rows, quota>>

-----------------------------------------------------------------------------
(* Preparing a page, and resuming the walk.                                *)

\* slip: a record is counted before the budget is looked at
PrepareCountsFirst(w) ==
  /\ task[w].phase = "preparing"
  /\ \E p \in task[w].batch :
       \/ /\ task[w].fetched >= MaxRecords
          /\ task' = [task EXCEPT ![w].fetched = @ + 1, ![w].stopped = TRUE, ![w].batch = {},
                        ![w].left = {}, ![w].phase = "storing"]
       \/ /\ task[w].fetched < MaxRecords
          /\ task' = [task EXCEPT ![w].fetched = @ + 1, ![w].batch = @ \ {p},
                        ![w].queue = Append(@, p)]
  /\ UNCHANGED <<source, world, rows, quota>>

\* One record of the page: the budget, then validate and normalize.
Prepare(w) ==
  /\ task[w].phase = "preparing"
  /\ \E p \in task[w].batch :
       \/ /\ task[w].fetched >= MaxRecords
          /\ task' = [task EXCEPT ![w].stopped = TRUE, ![w].batch = {}, ![w].left = {},
                        ![w].phase = "storing"]
       \/ /\ task[w].fetched < MaxRecords
          /\ task' = [task EXCEPT ![w].fetched = @ + 1, ![w].batch = @ \ {p},
                        ![w].queue = Append(@, p)]
       \/ /\ task[w].fetched < MaxRecords
          /\ task' = [task EXCEPT ![w].fetched = @ + 1, ![w].batch = @ \ {p},
                        ![w].rejected = @ + 1]
  /\ UNCHANGED <<source, world, rows, quota>>

WalkEnds(w, reached) ==
  task' = [task EXCEPT ![w].phase = "storing", ![w].left = {}, ![w].reached = reached]

NextPage(w) == task' = [task EXCEPT ![w].phase = "asking", ![w].page = @ + 1]

\* A source of one page is at its end once the run comes back for more.
ResumeSinglePage(w) == source \in {"remotive", "jobicy"} /\ WalkEnds(w, TRUE)

\* Running out of pages is the end; running out of allowance is not.
ResumePages(w) ==
  /\ source \in {"arbeitnow", "himalayas"}
  /\ \/ ~task[w].more /\ WalkEnds(w, TRUE)
     \/ task[w].more /\ task[w].page = MaxPages /\ WalkEnds(w, FALSE)
     \/ task[w].more /\ task[w].page < MaxPages /\ NextPage(w)

ResumeCountries(w) ==
  /\ source = "adzuna"
  /\ \/ task[w].more /\ task[w].page < MaxPages /\ NextPage(w)
     \/ /\ ~task[w].more \/ task[w].page = MaxPages
        /\ task' = [task EXCEPT ![w] = NextSection(task[w])]

ResumeBoards(w) ==
  /\ source = "board"
  /\ task' = [task EXCEPT ![w] = NextSection(task[w])]

Resume(w) ==
  /\ task[w].phase = "preparing" /\ task[w].batch = {}
  /\ ResumeSinglePage(w) \/ ResumePages(w) \/ ResumeCountries(w) \/ ResumeBoards(w)
  /\ UNCHANGED <<source, world, rows, quota>>

-----------------------------------------------------------------------------
(* Storing, concluding, closing.                                           *)

\* One record: stored or found unchanged, either of which refreshes its provenance, or
\* refused with a failure.  Skills are attached inside a savepoint and cannot undo it.
Store(w) ==
  /\ task[w].phase = "storing" /\ task[w].queue # << >>
  /\ ~task[w].poisoned
  /\ LET p == Head(task[w].queue)
         next == [task EXCEPT ![w].queue = Tail(@), ![w].stored = @ + 1]
     IN \/ /\ task' = [v \in Run |-> IF task[v].phase \in Underway
                                      THEN [next[v] EXCEPT
                                              !.fresh = IF Windowed THEN {} ELSE @ \cup {p}]
                                      ELSE next[v]]
           /\ live' = live \cup {p}
           /\ seenOn' = [seenOn EXCEPT ![p] = today]
        \/ /\ task' = [next EXCEPT ![w].refused = @ + 1]
           /\ UNCHANGED rows
  /\ UNCHANGED <<source, world, quota>>

\* The first statement a poisoned transaction is sent raises, and the run with it.
PoisonedRaises(w) ==
  /\ task[w].phase = "storing" /\ task[w].queue # << >>
  /\ task[w].poisoned
  /\ \E row \in Written(task[w].row, "failed") :
       task' = [task EXCEPT ![w] = Over("raised", row)]
  /\ UNCHANGED <<source, world, rows, quota>>

\* IngestionSummary: the claims a summary makes of the run.
Failures(t) == t.rejected + t.unread + t.refused
ProcessingComplete(t) == t.fetched = t.stored /\ Failures(t) = 0
AccountedFor(t) == t.fetched = t.stored + t.rejected
SourceExhausted(t) == t.reached /\ ~t.stopped /\ ProcessingComplete(t)

\* slip: failures before the store do not count
MayConcludeUnread(t) == t.fetched > 0 /\ t.reached /\ ~t.stopped /\ t.refused = 0

MayConclude(t) == t.fetched > 0 /\ SourceExhausted(t)
MayAgeOut(t) == source = "adzuna" /\ t.fetched > 0 /\ ~t.stopped /\ AccountedFor(t)

Unseen(t) ==
  IF MayConclude(t) THEN live \ t.fresh
  ELSE IF MayAgeOut(t) THEN {p \in live : seenOn[p] < t.started - Lifetime}
  ELSE {}

\* slip: the row is completed before reconciliation, which can still raise
SummarizeClosing(w) ==
  /\ task[w].phase = "storing" /\ task[w].queue = << >>
  /\ task' = [task EXCEPT ![w].phase = "reconciling",
                ![w].row = IF @ = "running" THEN "completed" ELSE @]
  /\ UNCHANGED <<source, world, rows, quota>>

\* A board's run first hands its outcomes to the registry, which BoardRegistry models.
Summarize(w) ==
  /\ task[w].phase = "storing" /\ task[w].queue = << >>
  /\ task' = [task EXCEPT ![w].phase = "reconciling"]
  /\ UNCHANGED <<source, world, rows, quota>>

Reconcile(w) ==
  /\ task[w].phase = "reconciling"
  /\ live' = live \ Unseen(task[w])
  /\ task' = [task EXCEPT ![w].phase = "closing", ![w].exhausted = MayConclude(task[w])]
  /\ UNCHANGED <<source, world, seenOn, quota>>

\* complete_run, of a summary that is whole, and the return.  Between the two nothing is left to
\* do, and nothing here tells a process lost there from one that returned.
Complete(w) ==
  /\ task[w].phase = "closing"
  /\ \E row \in Written(task[w].row, "completed") :
       task' = [task EXCEPT ![w] = Over("returned", row)]
  /\ UNCHANGED <<source, world, rows, quota>>

-----------------------------------------------------------------------------
(* Ending otherwise.                                                       *)

\* An exception nothing else catches.
Raise(w) ==
  /\ task[w].phase \in Underway \ {"opening", "closing"}
  /\ \E row \in Written(task[w].row, "failed") :
       task' = [task EXCEPT ![w] = Over("raised", row)]
  /\ CommitsReservation(w)
  /\ UNCHANGED <<source, world, rows>>

\* The task is cancelled at its execution timeout: `finally` runs, `except Exception` not.
Cancel(w) ==
  /\ task[w].phase \in Underway
  /\ task' = [task EXCEPT ![w] = Over("lost", task[w].row)]
  /\ CommitsReservation(w)
  /\ UNCHANGED <<source, world, rows>>

\* The process is killed: its open transactions are rolled back.
Kill(w) ==
  /\ task[w].phase \in Underway
  /\ task' = [task EXCEPT ![w] = Over("lost", task[w].row)]
  /\ uncounted' = IF task[w].held = 0 THEN uncounted
                  ELSE [uncounted EXCEPT ![task[w].held] = @ + 1]
  /\ UNCHANGED <<source, world, rows, ledger, asked>>

-----------------------------------------------------------------------------
Init ==
  /\ source \in Source
  /\ newest \in 0 .. PostingsOf[source] /\ site = 1 .. newest
  /\ today = 1
  /\ live \in SUBSET (1 .. newest)
  /\ seenOn = [p \in Posting |-> 0]
  /\ task = [w \in Run |-> Idle]
  /\ ledger = [d \in Day |-> 0] /\ asked = [d \in Day |-> 0]
  /\ uncounted = [d \in Day |-> 0]

Ask(w) == Reserve(w) \/ ReservationRefused(w) \/ Retry(w) \/ FetchFails(w)
Answer(w) ==
  \/ RemotiveAnswer(w) \/ JobicyAnswer(w) \/ ArbeitnowAnswer(w) \/ HimalayasAnswer(w)
  \/ AdzunaAnswer(w) \/ BoardAnswer(w)

\* What the process of an execution does of itself.
Step(w) ==
  \/ OpenRow(w) \/ LoadVocabulary(w) \/ Ask(w) \/ Answer(w) \/ Prepare(w) \/ Resume(w)
  \/ Store(w) \/ PoisonedRaises(w) \/ Summarize(w) \/ Reconcile(w) \/ Complete(w)

Next ==
  \/ Publish \/ (\E p \in Posting : CloseThere(p)) \/ NextDay
  \/ \E w \in Run : BeginFeed(w) \/ BeginBoards(w) \/ BeginKeyed(w)
  \/ \E w \in Run : Step(w) \/ Raise(w) \/ Cancel(w) \/ Kill(w)

\* A process that runs takes its next step.  The scheduler, the provider's listing, errors
\* and kills owe nothing.
Fairness == \A w \in Run : WF_vars(Step(w))

Spec == Init /\ [][Next]_vars /\ Fairness

-----------------------------------------------------------------------------
(* Properties.                                                             *)

\* Every variable keeps the type the columns, counters and clients give it.
TypeOK ==
  /\ source \in Source
  /\ newest \in 0 .. MaxPosting /\ site \subseteq 1 .. newest
  /\ today \in Day
  /\ live \subseteq Posting /\ seenOn \in [Posting -> 0 .. LastDay]
  /\ task \in [Run -> TaskState]
  /\ ledger \in [Day -> 0 .. PerDay]
  /\ asked \in [Day -> Nat] /\ uncounted \in [Day -> Nat]

\* Every record an execution fetched is in exactly one place - waiting to be stored, counted
\* by its outcome, or rejected with a failure - and no more are fetched than the budget
\* (contracts.py: accounted_for; pipeline.py: the counters and the break at max_records).
EveryRecordOnce ==
  \A w \in Run :
    /\ task[w].fetched = Len(task[w].queue) + task[w].stored + task[w].rejected
    /\ task[w].fetched <= MaxRecords

\* Why a reconciliation may retire a posting the source listed throughout the walk: the
\* source states a lifetime; the posting's board is not polled; the feed is longer than the
\* one page asked for; or something left the listing while it was read by page number.
Excused(t, p) ==
  \/ source = "adzuna"
  \/ source = "board" /\ SectionOf[p] \notin t.polled
  \/ source = "jobicy" /\ t.cut
  \/ source = "arbeitnow" /\ t.moved

\* Absence is evidence: however the listing moves and the walk fails, no reconciliation takes
\* the live row of a posting that stood on the source all through the walk, save for a reason
\* named above (contracts.py: source_exhausted; reconciliation.py: why_not).
AbsenceIsEvidence ==
  [][\A w \in Run : Reconcile(w) =>
       \A p \in (live \ live') \cap task[w].stood : Excused(task[w], p)]_vars

\* A run whose summary is source-exhausted saw everything the source has.  Refuted: README,
\* section 13.
SourceExhaustedSawAll ==
  \A w \in Run : task[w].exhausted => task[w].stood \subseteq task[w].fresh

\* A row says completed only of an execution that did all it had to and wrote so last, whether or
\* not its process then lived to return; failed only of one that raised (runs.py: recorded_run,
\* complete_run).
RowTellsTheEnd ==
  \A w \in Run :
    /\ task[w].row = "completed" => task[w].phase = "returned"
    /\ task[w].row = "failed" => task[w].phase = "raised"

\* However the provider fails, limits or keeps announcing pages, an execution that began comes
\* to an end (transport.py: max_attempts; the clients' page bounds).
EveryRunEnds ==
  \A w \in Run : task[w].phase = "opening" ~> task[w].phase \in Ended

\* The ledger, its row lock and the commit after the answer keep the promise of a daily
\* allowance: a reservation under way counts already.
Counted == [d \in Day |-> ledger[d] + IF LedgerLocked(d) THEN 1 ELSE 0]
Allowance == INSTANCE DailyAllowance WITH put <- asked, counted <- Counted, lost <- uncounted
QuotaIsAnAllowance == Allowance!Spec
===============================================================================
