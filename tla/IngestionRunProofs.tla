-------------------------- MODULE IngestionRunProofs --------------------------
(***************************************************************************)
(* What IngestionRun keeps for every provider, listing, page size, budget, *)
(* quota and number of overlapping executions.  Each action is followed    *)
(* through the one execution it moves: what that execution holds stays     *)
(* sane, and what happens to its reservation is one of four effects.  From *)
(* those come the accounting of the records, the meaning of a run's row,   *)
(* and that the ledger implements DailyAllowance.  Last, each walk is      *)
(* followed page by page: what stood throughout is gathered or to come, so *)
(* that absence is evidence.                                               *)
(***************************************************************************)
EXTENDS IngestionRun, FiniteSetTheorems, WellFoundedInduction, TLAPS

\* What an execution of the pipeline `s` holds: it has accounted for all it fetched, its row
\* tells no more than happened, and a reservation is held only across a request.
Sane(t, s) ==
  /\ t \in TaskState
  /\ t.fetched = Len(t.queue) + t.stored + t.rejected /\ t.fetched <= MaxRecords
  /\ t.row = "completed" => t.phase = "returned"
  /\ t.row = "failed" => t.phase = "raised"
  /\ t.held # 0 => t.phase = "asking" /\ s = "adzuna"

Executions == task \in [Run -> TaskState] /\ \A w \in Run : Sane(task[w], source)

World ==
  /\ source \in Source /\ newest \in 0 .. MaxPosting /\ site \subseteq 1 .. newest
  /\ today \in Day /\ live \subseteq Posting /\ seenOn \in [Posting -> 0 .. LastDay]

\* A day is reserved by one execution at a time, and only while it has room.
Ledger ==
  /\ ledger \in [Day -> 0 .. PerDay] /\ asked \in [Day -> Nat] /\ uncounted \in [Day -> Nat]
  /\ \A v, w \in Run : task[v].held # 0 /\ task[v].held = task[w].held => v = w
  /\ \A w \in Run : task[w].held # 0 => ledger[task[w].held] < PerDay

RunInv == World /\ Executions /\ Ledger

-----------------------------------------------------------------------------
(* Constants and executions.                                               *)

LEMMA ConstantsType ==
  /\ MaxRuns \in Nat /\ MaxPosting \in Nat /\ Sections \in Nat /\ Sections > 0
  /\ LastDay \in Nat /\ LastDay > 0 /\ MaxPages \in Nat /\ MaxPages > 0
  /\ MaxRecords \in Nat /\ MaxRecords > 0 /\ MaxAttempts \in Nat /\ MaxAttempts > 0
  /\ PerDay \in Nat /\ PerDay > 0
  /\ \A s \in Source : PostingsOf[s] \in 0 .. MaxPosting
BY IngestionRunAssumption DEF IngestionRunAssumption

LEMMA SiteType == World => site \in SUBSET Posting
BY ConstantsType DEF World, Posting

LEMMA LeastOf ==
  ASSUME NEW S \in SUBSET Nat, S # {}
  PROVE  \E n \in S : \A m \in S : n <= m
<1>1. PICK n \in S : \A m \in S : <<m, n>> \notin OpToRel(<, Nat)
  BY NatLessThanWellFounded, WFMin, Zenon
<1>2. \A m \in S : ~(m < n)
  BY <1>1 DEF OpToRel
<1> QED  BY <1>2

LEMMA IdleType ==
  /\ Idle \in TaskState /\ Idle.phase = "idle" /\ Idle.row = "none" /\ Idle.queue = << >>
  /\ Idle.fetched = 0 /\ Idle.stored = 0 /\ Idle.rejected = 0 /\ Idle.held = 0
<1>1. /\ 0 \in 0 .. LastDay /\ 1 \in 1 .. MaxPages /\ 1 \in 1 .. MaxAttempts
      /\ MaxPosting + 1 \in 1 .. MaxPosting + 1 /\ << >> \in Seq(Posting)
      /\ {} \in SUBSET Section /\ {} \in SUBSET Posting /\ 0 \in Nat
  BY ConstantsType
<1>2. "none" \in RowState /\ "idle" \in Phase
  BY DEF RowState, Phase
<1> QED  BY <1>1, <1>2 DEF Idle, TaskState

\* An execution that is over has nothing to account for.
LEMMA OverSane ==
  ASSUME NEW s, NEW how \in Ended, NEW row \in RowState,
         row = "completed" => how = "returned", row = "failed" => how = "raised"
  PROVE  Sane(Over(how, row), s) /\ Over(how, row).held = 0
<1> DEFINE t == Over(how, row)
<1>1. how \in Phase
  BY DEF Phase
<1>2. /\ t \in TaskState /\ t.phase = how /\ t.row = row /\ t.queue = << >> /\ t.fetched = 0
      /\ t.stored = 0 /\ t.rejected = 0 /\ t.held = 0
  BY <1>1, IdleType DEF Over, TaskState
<1> HIDE DEF t
<1>3. Len(<< >>) = 0 /\ 0 <= MaxRecords
  BY ConstantsType
<1> QED  BY <1>2, <1>3 DEF Sane, t

\* The row of an execution that is under way is open, if there is one.
LEMMA RowOpen ==
  ASSUME NEW s, NEW t, Sane(t, s), t.phase \in Underway
  PROVE  t.row \in {"none", "running"} /\ \A state \in RowState : \A row \in Written(t.row, state) :
           row \in {"none", "running", state}
<1>1. t.row \in RowState /\ t.phase \notin Ended
  BY DEF Sane, TaskState, Underway
<1>2. t.row \in {"none", "running"}
  BY <1>1 DEF Sane, RowState, Ended
<1> QED  BY <1>2 DEF Written

\* The next section keeps the accounts and releases the reservation.
LEMMA NextSectionSane ==
  ASSUME NEW s, NEW t \in TaskState, t.phase \in Underway, t.row \in {"none", "running"},
         t.fetched = Len(t.queue) + t.stored + t.rejected, t.fetched <= MaxRecords
  PROVE  Sane(NextSection(t), s) /\ NextSection(t).held = 0
<1> DEFINE left == t.left \ {Current(t)}
           phase == IF left = {} THEN "storing" ELSE "asking"
           reached == left = {} /\ source = "board" /\ t.unread = 0
           u == NextSection(t)
<1>1. /\ left \in SUBSET Section /\ 1 \in 1 .. MaxPages /\ 1 \in 1 .. MaxAttempts
      /\ MaxPosting + 1 \in 1 .. MaxPosting + 1 /\ 0 \in 0 .. LastDay /\ {} \in SUBSET Posting
      /\ phase \in Phase /\ reached \in BOOLEAN
  BY ConstantsType DEF TaskState, Phase
<1>2. u = [t EXCEPT !.left = left, !.page = 1, !.cursor = MaxPosting + 1, !.attempt = 1,
             !.held = 0, !.batch = {}, !.more = FALSE,
             !.phase = phase, !.reached = reached]
  BY DEF NextSection
<1> HIDE DEF left, phase, reached, u
<1>3. /\ u \in TaskState /\ u.held = 0 /\ u.row = t.row /\ u.fetched = t.fetched
      /\ u.queue = t.queue /\ u.stored = t.stored /\ u.rejected = t.rejected
  BY <1>1, <1>2, ZenonT(40) DEF TaskState
<1>4. Sane(u, s)
  BY <1>3 DEF Sane
<1> QED  BY <1>3, <1>4 DEF u

-----------------------------------------------------------------------------
(* What a step makes of the executions and of their reservations.          *)

\* No reservation changes hands; or one is released, and counted.
Steady == UNCHANGED quota /\ \A v \in Run : task'[v].held = task[v].held
Releases(w) ==
  /\ CommitsReservation(w) /\ task'[w].held = 0
  /\ \A v \in Run : v # w => task'[v].held = task[v].held

LEMMA OneMoves ==
  ASSUME Executions, UNCHANGED source, NEW w \in Run, NEW t, Sane(t, source),
         task' = [task EXCEPT ![w] = t]
  PROVE  /\ Executions' /\ task'[w] = t
         /\ \A v \in Run : v # w => task'[v] = task[v]
         /\ UNCHANGED quota /\ t.held = task[w].held => Steady
         /\ CommitsReservation(w) /\ t.held = 0 => Releases(w)
<1>1. task'[w] = t /\ \A v \in Run : v # w => task'[v] = task[v]
  BY DEF Executions
<1>2. t \in TaskState
  BY DEF Sane
<1>3. task' \in [Run -> TaskState]
  BY <1>2 DEF Executions
<1>4. \A v \in Run : Sane(task'[v], source)
  BY <1>1 DEF Executions
<1> QED  BY <1>1, <1>3, <1>4 DEF Executions, Steady, Releases

\* What the steps below need of an execution that is under way.
LEMMA UnderwayFacts ==
  ASSUME Executions, NEW w \in Run
  PROVE  /\ task[w] \in TaskState /\ Sane(task[w], source)
         /\ task[w].phase \in Underway => task[w].row \in {"none", "running"}
         /\ task[w].phase # "asking" \/ source # "adzuna" => task[w].held = 0
         /\ task[w].fetched = Len(task[w].queue) + task[w].stored + task[w].rejected
         /\ task[w].fetched <= MaxRecords
BY RowOpen DEF Executions, Sane

\* Any other phase, and whatever else is of no account, leaves an execution sane.
LEMMA StillSane ==
  ASSUME NEW s, NEW t \in TaskState, t.row \in {"none", "running"}, t.held = 0,
         t.fetched = Len(t.queue) + t.stored + t.rejected, t.fetched <= MaxRecords
  PROVE  Sane(t, s)
BY DEF Sane

LEMMA BeginEffect ==
  ASSUME RunInv, NEW w \in Run, NEW sections \in SUBSET Section, NEW configured \in BOOLEAN,
         Begin(w, sections, configured)
  PROVE  Executions' /\ Steady
<1> DEFINE t == [Idle EXCEPT !.phase = "opening", !.started = today, !.polled = sections,
                             !.configured = configured]
<1>1. /\ t \in TaskState /\ t.row = "none" /\ t.held = 0 /\ t.fetched = 0 /\ t.queue = << >>
      /\ t.stored = 0 /\ t.rejected = 0
  <2>1. today \in 0 .. LastDay /\ "opening" \in Phase
    BY DEF RunInv, World, Day, Phase
  <2> QED  BY <2>1, IdleType DEF TaskState
<1>2. task' = [task EXCEPT ![w] = t] /\ task[w].phase = "idle" /\ UNCHANGED <<source, quota>>
  BY DEF Begin
<1> HIDE DEF t
<1>3. Sane(t, source)
  BY <1>1, StillSane, ConstantsType
<1>4. task[w].held = 0
  BY <1>2, UnderwayFacts DEF RunInv
<1> QED  BY <1>1, <1>2, <1>3, <1>4, OneMoves, ZenonT(40) DEF RunInv

LEMMA OpenRowEffect ==
  ASSUME RunInv, NEW w \in Run, OpenRow(w)
  PROVE  Executions' /\ Steady
<1>1. PICK row \in {"none", "running"} :
        task' = [task EXCEPT ![w].row = row,
                   ![w].phase = IF task[w].configured THEN "loading" ELSE "closing",
                   ![w].unread = IF task[w].configured THEN 0 ELSE 1]
  BY DEF OpenRow
<1> DEFINE phase == IF task[w].configured THEN "loading" ELSE "closing"
           unread == IF task[w].configured THEN 0 ELSE 1
           t == [task[w] EXCEPT !.row = row, !.phase = phase, !.unread = unread]
<1>2. phase \in Phase /\ row \in RowState /\ unread \in Nat
  BY DEF Phase, RowState
<1>3. task' = [task EXCEPT ![w] = t]
  BY <1>1
<1> HIDE DEF phase, unread
<1>4. /\ t \in TaskState /\ t.row = row /\ t.held = task[w].held /\ t.fetched = task[w].fetched
      /\ t.queue = task[w].queue /\ t.stored = task[w].stored /\ t.rejected = task[w].rejected
  <2>1. task[w] \in TaskState
    BY UnderwayFacts DEF RunInv
  <2> QED  BY <1>2, <2>1 DEF TaskState
<1> HIDE DEF t
<1>5. task[w].held = 0 /\ UNCHANGED <<source, quota>>
  BY UnderwayFacts DEF RunInv, OpenRow
<1>6. Sane(t, source)
  BY <1>4, <1>5, StillSane, UnderwayFacts DEF RunInv
<1> QED  BY <1>3, <1>4, <1>5, <1>6, OneMoves DEF RunInv

LEMMA LoadVocabularyEffect ==
  ASSUME RunInv, NEW w \in Run, LoadVocabulary(w)
  PROVE  Executions' /\ Steady
<1> DEFINE phase == IF task[w].polled = {} THEN "storing" ELSE "asking"
           stood == IF Windowed THEN {} ELSE site
           reached == (task[w].polled = {})
<1>1. PICK poisoned \in BOOLEAN :
        task' = [task EXCEPT ![w].poisoned = poisoned, ![w].phase = phase,
                   ![w].left = task[w].polled, ![w].reached = reached, ![w].stood = stood]
  BY DEF LoadVocabulary
<1> DEFINE t == [task[w] EXCEPT !.poisoned = poisoned, !.phase = phase, !.left = task[w].polled,
                                !.reached = reached, !.stood = stood]
<1>2. phase \in Phase /\ reached \in BOOLEAN /\ stood \in SUBSET Posting
      /\ task[w].phase = "loading" /\ UNCHANGED <<source, quota>>
  <2>1. phase \in Phase /\ reached \in BOOLEAN
    BY DEF Phase
  <2>2. site \in SUBSET Posting
    BY SiteType DEF RunInv
  <2> QED  BY <2>1, <2>2 DEF LoadVocabulary
<1>3. task' = [task EXCEPT ![w] = t]
  BY <1>1
<1> HIDE DEF phase, reached, stood
<1>4. /\ t \in TaskState /\ t.row = task[w].row /\ t.held = task[w].held
      /\ t.fetched = task[w].fetched
      /\ t.queue = task[w].queue /\ t.stored = task[w].stored /\ t.rejected = task[w].rejected
  <2>1. task[w] \in TaskState
    BY UnderwayFacts DEF RunInv
  <2>2. task[w].polled \in SUBSET Section
    BY <2>1 DEF TaskState
  <2> QED  BY <1>2, <2>1, <2>2, ZenonT(40) DEF TaskState
<1> HIDE DEF t
<1>5. task[w].held = 0 /\ task[w].row \in {"none", "running"}
  BY <1>2, UnderwayFacts DEF RunInv, Underway, Phase, Ended
<1>6. Sane(t, source)
  BY <1>4, <1>5, StillSane, UnderwayFacts DEF RunInv
<1> QED  BY <1>2, <1>3, <1>4, <1>5, <1>6, OneMoves DEF RunInv

-----------------------------------------------------------------------------
(* Requests and answers.                                                   *)

\* A call is reserved on a day nobody holds and that has room.
Reserves(w) ==
  /\ task'[w].held = today /\ \A v \in Run : v # w => task'[v].held = task[v].held
  /\ asked' = [asked EXCEPT ![today] = @ + 1] /\ UNCHANGED <<ledger, uncounted>>
  /\ task[w].held = 0 /\ \A v \in Run : task[v].held # today
  /\ ledger[today] < PerDay

LEMMA ReserveEffect ==
  ASSUME RunInv, NEW w \in Run, Reserve(w)
  PROVE  Executions' /\ Reserves(w)
<1> DEFINE t == [task[w] EXCEPT !.held = today]
<1>1. /\ source = "adzuna" /\ task[w].phase = "asking" /\ task[w].held = 0
      /\ task' = [task EXCEPT ![w] = t] /\ UNCHANGED <<source, ledger, uncounted>>
      /\ asked' = [asked EXCEPT ![today] = @ + 1] /\ \A v \in Run : task[v].held # today
  BY DEF Reserve, LedgerLocked
<1>2. ledger[today] < PerDay
  <2>1. ledger[today] \in 0 .. PerDay /\ ledger[today] + 1 <= PerDay
    BY DEF RunInv, World, Ledger, Reserve, Room
  <2> QED  BY <2>1, ConstantsType
<1>3. /\ t \in TaskState /\ t.row = task[w].row /\ t.held = today /\ t.phase = "asking"
      /\ t.fetched = task[w].fetched
      /\ t.queue = task[w].queue /\ t.stored = task[w].stored /\ t.rejected = task[w].rejected
  <2>1. task[w] \in TaskState /\ today \in 0 .. LastDay
    BY UnderwayFacts DEF RunInv, World, Day
  <2> QED  BY <1>1, <2>1, ZenonT(40) DEF TaskState
<1> HIDE DEF t
<1>4. Sane(t, source)
  <2>1. Sane(task[w], source) /\ task[w].phase = "asking"
    BY <1>1, UnderwayFacts DEF RunInv
  <2> QED  BY <1>1, <1>3, <2>1 DEF Sane
<1> QED  BY <1>1, <1>2, <1>3, <1>4, OneMoves DEF RunInv, Reserves

LEMMA ReservationRefusedEffect ==
  ASSUME RunInv, NEW w \in Run, ReservationRefused(w)
  PROVE  Executions' /\ Steady
<1> DEFINE t == [task[w] EXCEPT !.phase = "storing", !.stopped = TRUE, !.left = {}]
<1>1. /\ task[w].phase = "asking" /\ task[w].held = 0 /\ task' = [task EXCEPT ![w] = t]
      /\ UNCHANGED <<source, quota>>
  BY DEF ReservationRefused
<1>2. /\ t \in TaskState /\ t.row = task[w].row /\ t.held = task[w].held
      /\ t.fetched = task[w].fetched
      /\ t.queue = task[w].queue /\ t.stored = task[w].stored /\ t.rejected = task[w].rejected
  <2>1. task[w] \in TaskState /\ "storing" \in Phase
    BY UnderwayFacts DEF RunInv, Phase
  <2> QED  BY <2>1 DEF TaskState
<1> HIDE DEF t
<1>3. task[w].row \in {"none", "running"}
  BY <1>1, UnderwayFacts DEF RunInv, Underway, Phase, Ended
<1>4. Sane(t, source)
  BY <1>1, <1>2, <1>3, StillSane, UnderwayFacts DEF RunInv
<1> QED  BY <1>1, <1>2, <1>4, OneMoves DEF RunInv

LEMMA RetryEffect ==
  ASSUME RunInv, NEW w \in Run, Retry(w)
  PROVE  Executions' /\ Steady
<1> DEFINE n == task[w].attempt + 1
           t == [task[w] EXCEPT !.attempt = n]
<1>1. task' = [task EXCEPT ![w] = t] /\ UNCHANGED <<source, quota>>
  BY DEF Retry
<1>2. task[w] \in TaskState /\ Sane(task[w], source)
  BY UnderwayFacts DEF RunInv
<1>3. n \in 1 .. MaxAttempts
  <2>1. task[w].attempt \in 1 .. MaxAttempts /\ task[w].attempt < MaxAttempts
    BY <1>2 DEF TaskState, Retry
  <2> QED  BY <2>1, ConstantsType
<1> HIDE DEF n
<1>4. /\ t \in TaskState /\ t.row = task[w].row /\ t.held = task[w].held
      /\ t.fetched = task[w].fetched /\ t.phase = task[w].phase
      /\ t.queue = task[w].queue /\ t.stored = task[w].stored /\ t.rejected = task[w].rejected
  BY <1>2, <1>3 DEF TaskState
<1> HIDE DEF t
<1>5. Sane(t, source)
  BY <1>2, <1>4 DEF Sane
<1> QED  BY <1>1, <1>4, <1>5, OneMoves DEF RunInv

\* One more thing that could not be read.
LEMMA UnreadMore ==
  ASSUME NEW t \in TaskState
  PROVE  LET u == [t EXCEPT !.unread = @ + 1]
         IN /\ u \in TaskState /\ u.row = t.row /\ u.held = t.held /\ u.fetched = t.fetched
            /\ u.phase = t.phase /\ u.queue = t.queue /\ u.stored = t.stored
            /\ u.rejected = t.rejected
<1> DEFINE n == t.unread + 1
           u == [t EXCEPT !.unread = n]
<1>1. n \in Nat
  <2>1. t.unread \in Nat
    BY DEF TaskState
  <2> QED  BY <2>1
<1> HIDE DEF n
<1>2. /\ u \in TaskState /\ u.row = t.row /\ u.held = t.held /\ u.fetched = t.fetched
      /\ u.phase = t.phase /\ u.queue = t.queue /\ u.stored = t.stored /\ u.rejected = t.rejected
  BY <1>1 DEF TaskState
<1> QED  BY <1>2 DEF n

LEMMA FetchFailsEffect ==
  ASSUME RunInv, NEW w \in Run, FetchFails(w)
  PROVE  Executions' /\ Releases(w)
<1> DEFINE u == [task[w] EXCEPT !.unread = @ + 1]
           ended == [u EXCEPT !.phase = "storing", !.left = {}, !.held = 0, !.batch = {}]
           t == IF source = "board" THEN NextSection(u) ELSE ended
<1>1. /\ task[w].phase \in Underway /\ CommitsReservation(w) /\ UNCHANGED source
  BY DEF FetchFails, CanAsk, Underway, Phase, Ended
<1>2. task' = [task EXCEPT ![w] = t]
  <2>1. [task[w] EXCEPT !.unread = @ + 1, !.phase = "storing", !.left = {}, !.held = 0,
                        !.batch = {}] = ended
    BY Zenon
  <2> QED  BY <2>1 DEF FetchFails
<1>3. /\ u \in TaskState /\ u.row \in {"none", "running"} /\ u.phase \in Underway
      /\ u.fetched = Len(u.queue) + u.stored + u.rejected /\ u.fetched <= MaxRecords
  BY <1>1, UnreadMore, UnderwayFacts DEF RunInv
<1> HIDE DEF u
<1>4. /\ ended \in TaskState /\ ended.row = u.row /\ ended.held = 0 /\ ended.fetched = u.fetched
      /\ ended.queue = u.queue /\ ended.stored = u.stored /\ ended.rejected = u.rejected
  <2>1. "storing" \in Phase /\ 0 \in 0 .. LastDay
    BY ConstantsType DEF Phase
  <2> QED  BY <1>3, <2>1 DEF TaskState
<1> HIDE DEF ended
<1>5. Sane(ended, source)
  BY <1>3, <1>4, StillSane
<1>6. Sane(t, source) /\ t.held = 0
  BY <1>3, <1>4, <1>5, NextSectionSane
<1> HIDE DEF t
<1> QED  BY <1>1, <1>2, <1>6, OneMoves DEF RunInv

LEMMA ReceivesEffect ==
  ASSUME RunInv, NEW w \in Run, NEW page \in SUBSET Posting, NEW more \in BOOLEAN,
         NEW cursor \in 1 .. MaxPosting + 1, CanAsk(w), Receives(w, page, more, cursor)
  PROVE  Executions' /\ Releases(w)
<1> DEFINE t == [task[w] EXCEPT !.batch = page, !.more = more, !.cursor = cursor,
                   !.attempt = 1, !.held = 0, !.phase = "preparing"]
<1>1. task' = [task EXCEPT ![w] = t] /\ CommitsReservation(w) /\ UNCHANGED source
  BY DEF Receives
<1>2. /\ t \in TaskState /\ t.row = task[w].row /\ t.held = 0 /\ t.fetched = task[w].fetched
      /\ t.queue = task[w].queue /\ t.stored = task[w].stored /\ t.rejected = task[w].rejected
  <2>1. task[w] \in TaskState /\ "preparing" \in Phase /\ 0 \in 0 .. LastDay
        /\ 1 \in 1 .. MaxAttempts
    BY ConstantsType, UnderwayFacts DEF RunInv, Phase
  <2> QED  BY <2>1, ZenonT(40) DEF TaskState
<1> HIDE DEF t
<1>3. task[w].row \in {"none", "running"}
  BY UnderwayFacts DEF RunInv, CanAsk, Underway, Phase, Ended
<1>4. Sane(t, source)
  BY <1>2, <1>3, StillSane, UnderwayFacts DEF RunInv
<1> QED  BY <1>1, <1>2, <1>4, OneMoves DEF RunInv

LEMMA CursorAfterType ==
  ASSUME NEW cursor \in 1 .. MaxPosting + 1, NEW page \in SUBSET Posting
  PROVE  CursorAfter(cursor, page) \in 1 .. MaxPosting + 1
<1>1. CASE page = {}
  BY <1>1 DEF CursorAfter
<1>2. CASE page # {}
  <2>1. page \in SUBSET Nat
    BY ConstantsType DEF Posting
  <2>2. \E p \in page : \A q \in page : p <= q
    BY <1>2, <2>1, LeastOf
  <2>3. CursorAfter(cursor, page) \in page
    BY <1>2, <2>2, Zenon DEF CursorAfter
  <2>4. CursorAfter(cursor, page) \in 1 .. MaxPosting
    BY <2>3 DEF Posting
  <2> QED  BY <2>4, ConstantsType
<1> QED  BY <1>1, <1>2

LEMMA PagesType ==
  ASSUME World, NEW t, NEW cursor, NEW n
  PROVE  /\ JobicyPage \in SUBSET Posting /\ Listing(t) \in SUBSET Posting
         /\ NumberedPage(site, n) \in SUBSET Posting
         /\ NumberedPage(Listing(t), n) \in SUBSET Posting
         /\ CursorPage(site, cursor) \in SUBSET Posting
         /\ CursorPage(Listing(t), cursor) \in SUBSET Posting
<1>1. site \in SUBSET Posting
  BY SiteType
<1>2. Listing(t) \in SUBSET Posting
  BY <1>1 DEF Listing
<1>3. \A S \in SUBSET Posting : \A k : Newest(S, k) \in SUBSET Posting
  BY DEF Newest
<1>4. \A S \in SUBSET Posting : NumberedPage(S, n) \in SUBSET Posting
  <2> TAKE S \in SUBSET Posting
  <2>1. Newest(S, n * PageSize) \in SUBSET Posting
    BY <1>3
  <2> QED  BY <2>1 DEF NumberedPage
<1>5. \A S \in SUBSET Posting : CursorPage(S, cursor) \in SUBSET Posting
  <2> TAKE S \in SUBSET Posting
  <2>1. {p \in S : p < cursor} \in SUBSET Posting
    OBVIOUS
  <2> QED  BY <1>3, <2>1 DEF CursorPage
<1>6. JobicyPage \in SUBSET Posting
  BY <1>1, <1>3 DEF JobicyPage
<1> QED  BY <1>1, <1>2, <1>4, <1>5, <1>6

LEMMA AnnouncesType == \A rest : Announces(rest) \in SUBSET BOOLEAN
BY DEF Announces

LEMMA AnswerEffect ==
  ASSUME RunInv, NEW w \in Run,
         RemotiveAnswer(w) \/ ArbeitnowAnswer(w) \/ HimalayasAnswer(w) \/ AdzunaAnswer(w)
  PROVE  Executions' /\ Releases(w)
<1>1. CanAsk(w)
  BY DEF RemotiveAnswer, ArbeitnowAnswer, HimalayasAnswer, AdzunaAnswer
<1>2. /\ task[w].cursor \in 1 .. MaxPosting + 1 /\ World
  <2>1. task[w] \in TaskState
    BY UnderwayFacts DEF RunInv
  <2> QED  BY <2>1 DEF TaskState, RunInv
<1>3. \E page \in SUBSET Posting, more \in BOOLEAN, cursor \in 1 .. MaxPosting + 1 :
        Receives(w, page, more, cursor)
  <2>1. CASE RemotiveAnswer(w)
    <3>1. RemotivePage \in SUBSET Posting
      BY <1>2, SiteType DEF RemotivePage
    <3> QED  BY <1>2, <2>1, <3>1 DEF RemotiveAnswer
  <2>2. CASE ArbeitnowAnswer(w)
    <3> DEFINE page == NumberedPage(site, task[w].page)
               rest == site \ Newest(site, task[w].page * PageSize)
    <3>1. \E more \in Announces(rest) : Receives(w, page, more, task[w].cursor)
      BY <2>2 DEF ArbeitnowAnswer
    <3>2. page \in SUBSET Posting
      BY <1>2, PagesType
    <3> HIDE DEF page, rest
    <3> QED  BY <1>2, <3>1, <3>2, AnnouncesType
  <2>3. CASE HimalayasAnswer(w)
    <3> DEFINE page == CursorPage(site, task[w].cursor)
               rest == Ahead(site, task[w].cursor, page)
               cursor == CursorAfter(task[w].cursor, page)
    <3>1. \E more \in Announces(rest) : Receives(w, page, more, cursor)
      BY <2>3 DEF HimalayasAnswer
    <3>2. page \in SUBSET Posting
      BY <1>2, PagesType
    <3>3. cursor \in 1 .. MaxPosting + 1
      BY <1>2, <3>2, CursorAfterType
    <3> HIDE DEF page, rest, cursor
    <3> QED  BY <3>1, <3>2, <3>3, AnnouncesType
  <2>4. CASE AdzunaAnswer(w)
    <3> DEFINE page == NumberedPage(Listing(task[w]), task[w].page)
               more == Cardinality(page) = PageSize
    <3>1. Receives(w, page, more, task[w].cursor)
      BY <2>4 DEF AdzunaAnswer
    <3>2. page \in SUBSET Posting /\ more \in BOOLEAN
      BY <1>2, PagesType
    <3> HIDE DEF page, more
    <3> QED  BY <1>2, <3>1, <3>2
  <2> QED  BY <2>1, <2>2, <2>3, <2>4
<1>4. PICK page \in SUBSET Posting, more \in BOOLEAN, cursor \in 1 .. MaxPosting + 1 :
        Receives(w, page, more, cursor)
  BY <1>3
<1> QED  BY <1>1, <1>4, ReceivesEffect

\* Of another record of the execution only what no account depends on may change.
LEMMA MovesWithin ==
  ASSUME Executions, UNCHANGED <<source, quota>>, NEW w \in Run,
         task[w].row \in {"none", "running"}, task[w].held = 0,
         NEW t \in TaskState, t.row = task[w].row, t.held = 0, t.fetched = task[w].fetched,
         t.queue = task[w].queue, t.stored = task[w].stored, t.rejected = task[w].rejected,
         task' = [task EXCEPT ![w] = t]
  PROVE  Executions' /\ Steady
<1>1. Sane(t, source)
  BY StillSane, UnderwayFacts
<1>2. t.held = task[w].held /\ UNCHANGED quota
  OBVIOUS
<1> QED  BY <1>1, <1>2, OneMoves

LEMMA JobicyAnswerEffect ==
  ASSUME RunInv, NEW w \in Run, JobicyAnswer(w)
  PROVE  Executions' /\ Steady
<1> DEFINE cut == (JobicyPage # site)
           page == JobicyPage
           t == [task[w] EXCEPT !.batch = page, !.attempt = 1, !.phase = "preparing",
                                !.cut = cut]
<1>1. task' = [task EXCEPT ![w] = t] /\ UNCHANGED <<source, quota>> /\ source = "jobicy"
      /\ task[w].phase = "asking"
  BY DEF JobicyAnswer, CanAsk
<1>2. page \in SUBSET Posting /\ cut \in BOOLEAN
  BY PagesType DEF RunInv
<1> HIDE DEF cut, page
<1>3. /\ t \in TaskState /\ t.row = task[w].row /\ t.held = task[w].held
      /\ t.fetched = task[w].fetched
      /\ t.queue = task[w].queue /\ t.stored = task[w].stored /\ t.rejected = task[w].rejected
  <2>1. task[w] \in TaskState /\ "preparing" \in Phase /\ 1 \in 1 .. MaxAttempts
    BY ConstantsType, UnderwayFacts DEF RunInv, Phase
  <2> QED  BY <1>2, <2>1 DEF TaskState
<1> HIDE DEF t
<1>4. task[w].row \in {"none", "running"} /\ task[w].held = 0
  BY <1>1, UnderwayFacts DEF RunInv, Underway, Phase, Ended
<1> QED  BY <1>1, <1>3, <1>4, MovesWithin DEF RunInv

LEMMA BoardAnswerEffect ==
  ASSUME RunInv, NEW w \in Run, BoardAnswer(w)
  PROVE  Executions' /\ Steady
<1> DEFINE page == CursorPage(Listing(task[w]), task[w].cursor)
           read == task[w].batch \cup page
           cursor == CursorAfter(task[w].cursor, page)
           next == task[w].page + 1
           skipped == [task[w] EXCEPT !.unread = @ + 1]
<1>1. /\ UNCHANGED <<source, quota>> /\ source = "board" /\ task[w].phase = "asking"
      /\ \/ task[w].page < MaxPages
            /\ task' = [task EXCEPT ![w].batch = read, ![w].attempt = 1, ![w].page = next,
                                    ![w].cursor = cursor]
         \/ task' = [task EXCEPT ![w] = NextSection(skipped)]
         \/ \E dropped \in SUBSET read :
              task' = [task EXCEPT ![w].batch = read \ dropped, ![w].attempt = 1,
                         ![w].unread = @ + Cardinality(dropped),
                         ![w].more = FALSE, ![w].phase = "preparing"]
  BY Zenon DEF BoardAnswer, CanAsk
<1>2. /\ task[w] \in TaskState /\ task[w].phase \in Underway
      /\ task[w].row \in {"none", "running"} /\ task[w].held = 0
  BY <1>1, UnderwayFacts DEF RunInv, Underway, Phase, Ended
<1>3. page \in SUBSET Posting
  BY PagesType DEF RunInv
<1>4. /\ read \in SUBSET Posting /\ cursor \in 1 .. MaxPosting + 1
      /\ task[w].page \in 1 .. MaxPages /\ task[w].unread \in Nat
  <2>1. /\ task[w].batch \in SUBSET Posting /\ task[w].cursor \in 1 .. MaxPosting + 1
        /\ task[w].page \in 1 .. MaxPages /\ task[w].unread \in Nat
    BY <1>2 DEF TaskState
  <2> QED  BY <1>3, <2>1, CursorAfterType
<1>5. ASSUME task[w].page < MaxPages,
             task' = [task EXCEPT ![w].batch = read, ![w].attempt = 1, ![w].page = next,
                                  ![w].cursor = cursor]
      PROVE  Executions' /\ Steady
  <2> DEFINE t == [task[w] EXCEPT !.batch = read, !.attempt = 1, !.page = next,
                                  !.cursor = cursor]
  <2>1. next \in 1 .. MaxPages /\ 1 \in 1 .. MaxAttempts
    BY <1>4, <1>5, ConstantsType
  <2>2. task' = [task EXCEPT ![w] = t]
    BY <1>5
  <2>0. read \in SUBSET Posting /\ cursor \in 1 .. MaxPosting + 1 /\ task[w] \in TaskState
    BY <1>2, <1>4
  <2> HIDE DEF read, next, cursor
  <2>3. /\ t \in TaskState /\ t.row = task[w].row /\ t.held = task[w].held
        /\ t.fetched = task[w].fetched
        /\ t.queue = task[w].queue /\ t.stored = task[w].stored /\ t.rejected = task[w].rejected
    BY <2>0, <2>1 DEF TaskState
  <2> HIDE DEF t
  <2> QED  BY <1>1, <1>2, <2>2, <2>3, MovesWithin DEF RunInv
<1>6. ASSUME task' = [task EXCEPT ![w] = NextSection(skipped)]
      PROVE  Executions' /\ Steady
  <2>1. /\ skipped \in TaskState /\ skipped.row \in {"none", "running"}
        /\ skipped.phase \in Underway
        /\ skipped.fetched = Len(skipped.queue) + skipped.stored + skipped.rejected
        /\ skipped.fetched <= MaxRecords
    BY <1>2, UnreadMore, UnderwayFacts DEF RunInv
  <2> HIDE DEF skipped
  <2>2. Sane(NextSection(skipped), source) /\ NextSection(skipped).held = 0
    BY <2>1, NextSectionSane
  <2> QED  BY <1>1, <1>2, <1>6, <2>2, OneMoves, ZenonT(40) DEF RunInv
<1>7. ASSUME NEW dropped \in SUBSET read,
             task' = [task EXCEPT ![w].batch = read \ dropped, ![w].attempt = 1,
                        ![w].unread = @ + Cardinality(dropped),
                        ![w].more = FALSE, ![w].phase = "preparing"]
      PROVE  Executions' /\ Steady
  <2> DEFINE batch == read \ dropped
             unread == task[w].unread + Cardinality(dropped)
             t == [task[w] EXCEPT !.batch = batch, !.attempt = 1, !.unread = unread,
                                  !.more = FALSE, !.phase = "preparing"]
  <2>1. task' = [task EXCEPT ![w] = t]
    BY <1>7
  <2>2. unread \in Nat
    <3>1. IsFiniteSet(1 .. MaxPosting)
      <4>1. 1 \in Int /\ MaxPosting \in Int
        BY ConstantsType
      <4> QED  BY <4>1, FS_Interval, Zenon
    <3>2. IsFiniteSet(dropped)
      <4>1. dropped \in SUBSET (1 .. MaxPosting)
        BY <1>4 DEF Posting
      <4> QED  BY <3>1, <4>1, FS_Subset
    <3>3. Cardinality(dropped) \in Nat
      BY <3>2, FS_CardinalityType
    <3> QED  BY <1>4, <3>3
  <2>3. /\ task[w] \in TaskState /\ batch \in SUBSET Posting /\ 1 \in 1 .. MaxAttempts
        /\ "preparing" \in Phase
    BY <1>2, <1>4, ConstantsType DEF Phase
  <2> HIDE DEF batch, unread
  <2>4. /\ t \in TaskState /\ t.row = task[w].row /\ t.held = task[w].held
        /\ t.fetched = task[w].fetched
        /\ t.queue = task[w].queue /\ t.stored = task[w].stored /\ t.rejected = task[w].rejected
    BY <2>2, <2>3 DEF TaskState
  <2> HIDE DEF t
  <2> QED  BY <1>1, <1>2, <2>1, <2>4, MovesWithin DEF RunInv
<1> QED  BY <1>1, <1>5, <1>6, <1>7

-----------------------------------------------------------------------------
(* Preparing, resuming, storing, concluding.                               *)

\* A record counted elsewhere keeps the sum.
LEMMA OneCounted ==
  ASSUME NEW l \in Nat, NEW s \in Nat, NEW r \in Nat
  PROVE  /\ (l + s + r) + 1 = l + s + (r + 1) /\ (l + 1) + s + r = l + (s + 1) + r
         /\ (l + 1) + s + r = (l + s + r) + 1
OBVIOUS

LEMMA OneLonger ==
  ASSUME NEW q \in Seq(Posting), NEW p \in Posting
  PROVE  Append(q, p) \in Seq(Posting) /\ Len(Append(q, p)) = Len(q) + 1 /\ Len(q) \in Nat
OBVIOUS

LEMMA OneShorter ==
  ASSUME NEW q \in Seq(Posting), q # << >>
  PROVE  /\ Tail(q) \in Seq(Posting) /\ Len(q) = Len(Tail(q)) + 1 /\ Len(Tail(q)) \in Nat
         /\ Head(q) \in Posting
OBVIOUS

LEMMA PrepareEffect ==
  ASSUME RunInv, NEW w \in Run, Prepare(w)
  PROVE  Executions' /\ Steady
<1>1. PICK p \in task[w].batch :
       \/ task' = [task EXCEPT ![w].stopped = TRUE, ![w].batch = {}, ![w].left = {},
                        ![w].phase = "storing"]
       \/ /\ task[w].fetched < MaxRecords
          /\ task' = [task EXCEPT ![w].fetched = @ + 1, ![w].batch = @ \ {p},
                        ![w].queue = Append(@, p)]
       \/ /\ task[w].fetched < MaxRecords
          /\ task' = [task EXCEPT ![w].fetched = @ + 1, ![w].batch = @ \ {p},
                        ![w].rejected = @ + 1]
  BY Zenon DEF Prepare
<1>2. /\ task[w] \in TaskState /\ task[w].row \in {"none", "running"} /\ task[w].held = 0
      /\ UNCHANGED <<source, quota>>
  BY UnderwayFacts DEF RunInv, Prepare, Underway, Phase, Ended
<1>3. /\ task[w].batch \in SUBSET Posting /\ task[w].queue \in Seq(Posting)
      /\ task[w].fetched \in Nat /\ task[w].stored \in Nat /\ task[w].rejected \in Nat
      /\ task[w].fetched = Len(task[w].queue) + task[w].stored + task[w].rejected
  <2>1. task[w] \in TaskState
    BY <1>2
  <2>2. task[w].fetched = Len(task[w].queue) + task[w].stored + task[w].rejected
    BY UnderwayFacts DEF RunInv
  <2> QED  BY <2>1, <2>2 DEF TaskState
<1> DEFINE n == task[w].fetched + 1
           batch == task[w].batch \ {p}
           queue == Append(task[w].queue, p)
           rejected == task[w].rejected + 1
<1>4. /\ n \in Nat /\ batch \in SUBSET Posting /\ rejected \in Nat /\ queue \in Seq(Posting)
      /\ Len(queue) = Len(task[w].queue) + 1 /\ Len(task[w].queue) \in Nat
  BY <1>1, <1>3, OneLonger
<1>5. task[w].fetched < MaxRecords => n <= MaxRecords
  BY <1>3, ConstantsType
<1>6. ASSUME task' = [task EXCEPT ![w].stopped = TRUE, ![w].batch = {}, ![w].left = {},
                        ![w].phase = "storing"]
      PROVE  Executions' /\ Steady
  <2> DEFINE t == [task[w] EXCEPT !.stopped = TRUE, !.batch = {}, !.left = {},
                                  !.phase = "storing"]
  <2>1. task' = [task EXCEPT ![w] = t]
    BY <1>6
  <2>2. task[w] \in TaskState /\ "storing" \in Phase
    BY <1>2 DEF Phase
  <2>3. /\ t \in TaskState /\ t.row = task[w].row /\ t.held = task[w].held
        /\ t.fetched = task[w].fetched
        /\ t.queue = task[w].queue /\ t.stored = task[w].stored /\ t.rejected = task[w].rejected
    BY <2>2 DEF TaskState
  <2> HIDE DEF t
  <2> QED  BY <1>2, <2>1, <2>3, MovesWithin DEF RunInv
<1>7. ASSUME task[w].fetched < MaxRecords,
             task' = [task EXCEPT ![w].fetched = n, ![w].batch = batch, ![w].queue = queue]
      PROVE  Executions' /\ Steady
  <2> DEFINE t == [task[w] EXCEPT !.fetched = n, !.batch = batch, !.queue = queue]
  <2>1. task' = [task EXCEPT ![w] = t]
    BY <1>7
  <2>2. task[w] \in TaskState /\ n \in Nat /\ batch \in SUBSET Posting /\ queue \in Seq(Posting)
    BY <1>2, <1>4
  <2> HIDE DEF batch, queue
  <2>3. /\ t \in TaskState /\ t.row = task[w].row /\ t.held = task[w].held
        /\ t.fetched = task[w].fetched + 1
        /\ t.queue = queue /\ t.stored = task[w].stored /\ t.rejected = task[w].rejected
    <3> HIDE DEF n
    <3>1. /\ t \in TaskState /\ t.row = task[w].row /\ t.held = task[w].held /\ t.fetched = n
          /\ t.queue = queue /\ t.stored = task[w].stored /\ t.rejected = task[w].rejected
      BY <2>2 DEF TaskState
    <3> QED  BY <3>1 DEF n
  <2> HIDE DEF t
  <2>4. t.fetched = Len(t.queue) + t.stored + t.rejected /\ t.fetched <= MaxRecords
    <3>1. t.fetched <= MaxRecords
      BY <1>5, <1>7, <2>3
    <3>2. Len(t.queue) = Len(task[w].queue) + 1
      BY <1>4, <2>3
    <3>3. /\ task[w].fetched = Len(task[w].queue) + task[w].stored + task[w].rejected
          /\ Len(task[w].queue) \in Nat /\ task[w].stored \in Nat /\ task[w].rejected \in Nat
      BY <1>3, <1>4
    <3>4. /\ t.fetched = task[w].fetched + 1 /\ t.stored = task[w].stored
          /\ t.rejected = task[w].rejected
      BY <2>3
    <3> HIDE DEF queue, n
    <3>5. (Len(task[w].queue) + 1) + task[w].stored + task[w].rejected
            = (Len(task[w].queue) + task[w].stored + task[w].rejected) + 1
      BY <3>3, OneCounted
    <3> QED  BY <3>1, <3>2, <3>3, <3>4, <3>5, Zenon
  <2>5. Sane(t, source)
    BY <1>2, <2>3, <2>4, StillSane
  <2> QED  BY <1>2, <2>1, <2>3, <2>5, OneMoves DEF RunInv
<1>8. ASSUME task[w].fetched < MaxRecords,
             task' = [task EXCEPT ![w].fetched = n, ![w].batch = batch, ![w].rejected = rejected]
      PROVE  Executions' /\ Steady
  <2> DEFINE t == [task[w] EXCEPT !.fetched = n, !.batch = batch, !.rejected = rejected]
  <2>1. task' = [task EXCEPT ![w] = t]
    BY <1>8
  <2>2. task[w] \in TaskState /\ n \in Nat /\ batch \in SUBSET Posting /\ rejected \in Nat
    BY <1>2, <1>4
  <2> HIDE DEF batch
  <2>3. /\ t \in TaskState /\ t.row = task[w].row /\ t.held = task[w].held
        /\ t.fetched = task[w].fetched + 1 /\ t.queue = task[w].queue
        /\ t.stored = task[w].stored /\ t.rejected = task[w].rejected + 1
    <3> HIDE DEF n, rejected
    <3>1. /\ t \in TaskState /\ t.row = task[w].row /\ t.held = task[w].held /\ t.fetched = n
          /\ t.queue = task[w].queue /\ t.stored = task[w].stored /\ t.rejected = rejected
      BY <2>2 DEF TaskState
    <3> QED  BY <3>1 DEF n, rejected
  <2> HIDE DEF t
  <2>4. t.fetched = Len(t.queue) + t.stored + t.rejected /\ t.fetched <= MaxRecords
    <3>1. t.fetched <= MaxRecords
      BY <1>5, <1>8, <2>3
    <3>2. /\ task[w].fetched = Len(task[w].queue) + task[w].stored + task[w].rejected
          /\ Len(task[w].queue) \in Nat /\ task[w].stored \in Nat /\ task[w].rejected \in Nat
      BY <1>3, <1>4
    <3>3. /\ t.fetched = task[w].fetched + 1 /\ t.stored = task[w].stored
          /\ Len(t.queue) = Len(task[w].queue) /\ t.rejected = task[w].rejected + 1
      BY <2>3
    <3>4. /\ (Len(task[w].queue) + task[w].stored + task[w].rejected) + 1
               = Len(task[w].queue) + task[w].stored + (task[w].rejected + 1)
      BY <3>2, OneCounted
    <3> QED  BY <3>1, <3>2, <3>3, <3>4, Zenon
  <2>5. Sane(t, source)
    BY <1>2, <2>3, <2>4, StillSane
  <2> QED  BY <1>2, <2>1, <2>3, <2>5, OneMoves DEF RunInv
<1> QED  BY <1>1, <1>6, <1>7, <1>8

LEMMA EndedWalkType ==
  ASSUME NEW t \in TaskState, NEW reached \in BOOLEAN
  PROVE  LET u == [t EXCEPT !.phase = "storing", !.left = {}, !.reached = reached]
         IN /\ u \in TaskState /\ u.row = t.row /\ u.held = t.held /\ u.fetched = t.fetched
            /\ u.queue = t.queue /\ u.stored = t.stored /\ u.rejected = t.rejected
<1>1. "storing" \in Phase /\ {} \in SUBSET Section
  BY DEF Phase
<1> QED  BY <1>1 DEF TaskState

LEMMA NextPageType ==
  ASSUME NEW t \in TaskState, NEW page \in 1 .. MaxPages
  PROVE  LET u == [t EXCEPT !.phase = "asking", !.page = page]
         IN /\ u \in TaskState /\ u.row = t.row /\ u.held = t.held /\ u.fetched = t.fetched
            /\ u.queue = t.queue /\ u.stored = t.stored /\ u.rejected = t.rejected
<1>1. "asking" \in Phase
  BY DEF Phase
<1> QED  BY <1>1 DEF TaskState

LEMMA WalkEndsEffect ==
  ASSUME Executions, UNCHANGED <<source, quota>>, NEW w \in Run, NEW reached \in BOOLEAN,
         task[w].row \in {"none", "running"}, task[w].held = 0, WalkEnds(w, reached)
  PROVE  Executions' /\ Steady
<1> DEFINE t == [task[w] EXCEPT !.phase = "storing", !.left = {}, !.reached = reached]
<1>1. task' = [task EXCEPT ![w] = t]
  BY DEF WalkEnds
<1>2. task[w] \in TaskState
  BY UnderwayFacts
<1>3. /\ t \in TaskState /\ t.row = task[w].row /\ t.held = task[w].held
      /\ t.fetched = task[w].fetched
      /\ t.queue = task[w].queue /\ t.stored = task[w].stored /\ t.rejected = task[w].rejected
  BY <1>2, EndedWalkType, ZenonT(40)
<1> HIDE DEF t
<1> QED  BY <1>1, <1>3, MovesWithin

LEMMA NextPageEffect ==
  ASSUME Executions, UNCHANGED <<source, quota>>, NEW w \in Run, task[w].page < MaxPages,
         task[w].row \in {"none", "running"}, task[w].held = 0, NextPage(w)
  PROVE  Executions' /\ Steady
<1> DEFINE n == task[w].page + 1
           t == [task[w] EXCEPT !.phase = "asking", !.page = n]
<1>1. task' = [task EXCEPT ![w] = t]
  BY DEF NextPage
<1>2. task[w] \in TaskState
  BY UnderwayFacts
<1>3. n \in 1 .. MaxPages
  <2>1. task[w].page \in 1 .. MaxPages
    BY <1>2 DEF TaskState
  <2> QED  BY <2>1, ConstantsType
<1> HIDE DEF n
<1>4. /\ t \in TaskState /\ t.row = task[w].row /\ t.held = task[w].held
      /\ t.fetched = task[w].fetched
      /\ t.queue = task[w].queue /\ t.stored = task[w].stored /\ t.rejected = task[w].rejected
  BY <1>2, <1>3, NextPageType
<1> HIDE DEF t
<1> QED  BY <1>1, <1>4, MovesWithin

LEMMA ResumeEffect ==
  ASSUME RunInv, NEW w \in Run, Resume(w)
  PROVE  Executions' /\ Steady
<1>1. /\ UNCHANGED <<source, quota>> /\ task[w].phase \in Underway
      /\ task[w].row \in {"none", "running"} /\ task[w].held = 0 /\ task[w] \in TaskState
  BY UnderwayFacts DEF RunInv, Resume, Underway, Phase, Ended
<1>2. \/ \E reached \in BOOLEAN : WalkEnds(w, reached)
      \/ task[w].page < MaxPages /\ NextPage(w)
      \/ task' = [task EXCEPT ![w] = NextSection(task[w])]
  BY Zenon DEF Resume, ResumeSinglePage, ResumePages, ResumeCountries, ResumeBoards
<1>3. ASSUME task' = [task EXCEPT ![w] = NextSection(task[w])]
      PROVE  Executions' /\ Steady
  <2>1. Sane(NextSection(task[w]), source) /\ NextSection(task[w]).held = 0
    BY <1>1, NextSectionSane, UnderwayFacts DEF RunInv
  <2> QED  BY <1>1, <1>3, <2>1, OneMoves DEF RunInv
<1> QED  BY <1>1, <1>2, <1>3, WalkEndsEffect, NextPageEffect DEF RunInv

\* A record of every execution changes in what no account depends on.
LEMMA AllMove ==
  ASSUME Executions, UNCHANGED source, NEW T, task' = [v \in Run |-> T[v]],
         \A v \in Run : Sane(T[v], source) /\ T[v].held = task[v].held
  PROVE  /\ Executions' /\ \A v \in Run : task'[v].held = task[v].held
         /\ UNCHANGED quota => Steady
<1>1. task' \in [Run -> TaskState] /\ \A v \in Run : task'[v] = T[v]
  BY DEF Sane
<1> QED  BY <1>1 DEF Executions, Steady

LEMMA FreshType ==
  ASSUME NEW t \in TaskState, NEW fresh \in SUBSET Posting
  PROVE  LET u == [t EXCEPT !.fresh = fresh]
         IN /\ u \in TaskState /\ u.row = t.row /\ u.held = t.held /\ u.fetched = t.fetched
            /\ u.phase = t.phase /\ u.queue = t.queue /\ u.stored = t.stored
            /\ u.rejected = t.rejected
BY DEF TaskState

LEMMA StoredType ==
  ASSUME NEW t \in TaskState, t.queue # << >>
  PROVE  LET u == [t EXCEPT !.queue = Tail(@), !.stored = @ + 1]
         IN /\ u \in TaskState /\ u.row = t.row /\ u.held = t.held /\ u.fetched = t.fetched
            /\ u.phase = t.phase /\ u.queue = Tail(t.queue) /\ u.stored = t.stored + 1
            /\ u.rejected = t.rejected
            /\ t.fetched = Len(t.queue) + t.stored + t.rejected
                 => u.fetched = Len(u.queue) + u.stored + u.rejected
            /\ Head(t.queue) \in Posting
<1> DEFINE queue == Tail(t.queue)
           n == t.stored + 1
           u == [t EXCEPT !.queue = queue, !.stored = n]
<1>1. t.queue \in Seq(Posting) /\ t.stored \in Nat /\ t.rejected \in Nat
  BY DEF TaskState
<1>2. /\ queue \in Seq(Posting) /\ n \in Nat /\ Len(t.queue) = Len(queue) + 1
      /\ Len(queue) \in Nat /\ Head(t.queue) \in Posting
  BY <1>1, OneShorter
<1> HIDE DEF queue, n
<1>3. /\ u \in TaskState /\ u.row = t.row /\ u.held = t.held /\ u.fetched = t.fetched
      /\ u.phase = t.phase /\ u.queue = queue /\ u.stored = n /\ u.rejected = t.rejected
  BY <1>2 DEF TaskState
<1> HIDE DEF u
<1>4. Len(t.queue) + t.stored + t.rejected = Len(queue) + n + t.rejected
  <2>1. (Len(queue) + 1) + t.stored + t.rejected = Len(queue) + (t.stored + 1) + t.rejected
    BY <1>1, <1>2, OneCounted
  <2> QED  BY <1>2, <2>1, Zenon DEF n
<1>5. t.fetched = Len(t.queue) + t.stored + t.rejected
        => u.fetched = Len(u.queue) + u.stored + u.rejected
  BY <1>3, <1>4, Zenon
<1> QED  BY <1>2, <1>3, <1>5 DEF queue, n, u

LEMMA StoreEffect ==
  ASSUME RunInv, NEW w \in Run, Store(w)
  PROVE  Executions' /\ Steady
<1> DEFINE p == Head(task[w].queue)
           t == [task[w] EXCEPT !.queue = Tail(@), !.stored = @ + 1]
           next == [task EXCEPT ![w] = t]
           fresh(v) == IF Windowed THEN {} ELSE next[v].fresh \cup {p}
           T == [v \in Run |-> IF task[v].phase \in Underway
                                THEN [next[v] EXCEPT !.fresh = IF Windowed THEN {} ELSE @ \cup {p}]
                                ELSE next[v]]
           refused == next[w].refused + 1
<1>1. /\ task[w].phase = "storing" /\ task[w].queue # << >> /\ UNCHANGED <<source, quota>>
      /\ \/ task' = T
         \/ task' = [next EXCEPT ![w] = [next[w] EXCEPT !.refused = refused]]
  <2>1. [task EXCEPT ![w].queue = Tail(@), ![w].stored = @ + 1] = next
    OBVIOUS
  <2>2. [next EXCEPT ![w].refused = @ + 1]
          = [next EXCEPT ![w] = [next[w] EXCEPT !.refused = refused]]
    OBVIOUS
  <2> DEFINE stored == [task EXCEPT ![w].queue = Tail(@), ![w].stored = @ + 1]
  <2>3. \/ task' = [v \in Run |-> IF task[v].phase \in Underway
                      THEN [stored[v] EXCEPT !.fresh = IF Windowed THEN {} ELSE @ \cup {p}]
                      ELSE stored[v]]
        \/ task' = [stored EXCEPT ![w].refused = @ + 1]
    BY Zenon DEF Store
  <2>4. stored = next
    BY <2>1
  <2>5. task[w].phase = "storing" /\ task[w].queue # << >> /\ UNCHANGED <<source, quota>>
    BY DEF Store
  <2> HIDE DEF next, stored, p
  <2> QED  BY <2>2, <2>3, <2>4, <2>5, Zenon
<1>2. /\ task[w] \in TaskState /\ task[w].row \in {"none", "running"} /\ task[w].held = 0
      /\ task[w].fetched = Len(task[w].queue) + task[w].stored + task[w].rejected
      /\ task[w].fetched <= MaxRecords
  BY <1>1, UnderwayFacts DEF RunInv, Underway, Phase, Ended
<1>3. /\ t \in TaskState /\ t.row = task[w].row /\ t.held = task[w].held
      /\ t.fetched = task[w].fetched /\ t.fetched = Len(t.queue) + t.stored + t.rejected
      /\ p \in Posting
  BY <1>1, <1>2, StoredType
<1> HIDE DEF p, t
<1>4. Sane(t, source)
  BY <1>2, <1>3, StillSane
<1>5. next \in [Run -> TaskState] /\ next[w] = t /\ \A v \in Run : v # w => next[v] = task[v]
  BY <1>3 DEF RunInv, Executions
<1>6. \A v \in Run : Sane(next[v], source) /\ next[v].held = task[v].held
  <2> TAKE v \in Run
  <2>1. CASE v = w
    BY <1>3, <1>4, <1>5, <2>1
  <2>2. CASE v # w
    BY <1>5, <2>2, UnderwayFacts DEF RunInv
  <2> QED  BY <2>1, <2>2
<1> HIDE DEF next
<1>7. CASE task' = T
  <2>1. ASSUME NEW v \in Run
        PROVE  Sane(T[v], source) /\ T[v].held = task[v].held
    <3> DEFINE u == [next[v] EXCEPT !.fresh = fresh(v)]
    <3>1. next[v] \in TaskState
      BY <1>5
    <3>2. fresh(v) \in SUBSET Posting
      <4>1. next[v].fresh \in SUBSET Posting
        BY <3>1 DEF TaskState
      <4> QED  BY <1>3, <4>1
    <3>3. /\ u \in TaskState /\ u.row = next[v].row /\ u.held = next[v].held
          /\ u.fetched = next[v].fetched /\ u.phase = next[v].phase
          /\ u.queue = next[v].queue /\ u.stored = next[v].stored
          /\ u.rejected = next[v].rejected
      <4> HIDE DEF fresh
      <4> QED  BY <3>1, <3>2, FreshType
    <3>4. T[v] = IF task[v].phase \in Underway THEN u ELSE next[v]
      OBVIOUS
    <3> HIDE DEF u, T
    <3>5. Sane(u, source) /\ u.held = task[v].held
      BY <1>6, <3>3 DEF Sane
    <3> QED  BY <1>6, <3>4, <3>5
  <2>2. task' = [v \in Run |-> T[v]]
    BY <1>7
  <2> HIDE DEF T
  <2> QED  BY <1>1, <2>1, <2>2, AllMove DEF RunInv
<1>8. ASSUME task' = [next EXCEPT ![w] = [next[w] EXCEPT !.refused = refused]]
      PROVE  Executions' /\ Steady
  <2> DEFINE u == [t EXCEPT !.refused = refused]
  <2>1. task' = [task EXCEPT ![w] = u]
    BY <1>5, <1>8 DEF next
  <2>2. refused \in Nat
    <3>1. t.refused \in Nat
      BY <1>3 DEF TaskState
    <3> QED  BY <1>5, <3>1
  <2> HIDE DEF refused
  <2>3. /\ u \in TaskState /\ u.row = t.row /\ u.held = t.held /\ u.fetched = t.fetched
        /\ u.queue = t.queue /\ u.stored = t.stored /\ u.rejected = t.rejected
    <3>1. t \in TaskState
      BY <1>3
    <3> QED  BY <2>2, <3>1 DEF TaskState
  <2> HIDE DEF u
  <2>4. Sane(u, source) /\ u.held = task[w].held
    BY <1>2, <1>3, <2>3, StillSane
  <2> QED  BY <1>1, <2>1, <2>4, OneMoves DEF RunInv
<1> QED  BY <1>1, <1>7, <1>8

LEMMA ReconcilingType ==
  ASSUME NEW t \in TaskState
  PROVE  LET u == [t EXCEPT !.phase = "reconciling"]
         IN /\ u \in TaskState /\ u.row = t.row /\ u.held = t.held /\ u.fetched = t.fetched
            /\ u.queue = t.queue /\ u.stored = t.stored /\ u.rejected = t.rejected
<1>1. "reconciling" \in Phase
  BY DEF Phase
<1> QED  BY <1>1 DEF TaskState

LEMMA ClosingType ==
  ASSUME NEW t \in TaskState, NEW exhausted \in BOOLEAN
  PROVE  LET u == [t EXCEPT !.phase = "closing", !.exhausted = exhausted]
         IN /\ u \in TaskState /\ u.row = t.row /\ u.held = t.held /\ u.fetched = t.fetched
            /\ u.queue = t.queue /\ u.stored = t.stored /\ u.rejected = t.rejected
<1>1. "closing" \in Phase
  BY DEF Phase
<1> QED  BY <1>1 DEF TaskState

LEMMA ConcludeEffect ==
  ASSUME RunInv, NEW w \in Run, Summarize(w) \/ Reconcile(w)
  PROVE  Executions' /\ Steady
<1> DEFINE exhausted == MayConclude(task[w])
           t == [task[w] EXCEPT !.phase = "reconciling"]
           u == [task[w] EXCEPT !.phase = "closing", !.exhausted = exhausted]
<1>1. /\ task[w] \in TaskState /\ task[w].row \in {"none", "running"} /\ task[w].held = 0
      /\ UNCHANGED <<source, quota>>
      /\ task' = [task EXCEPT ![w] = t] \/ task' = [task EXCEPT ![w] = u]
  BY UnderwayFacts DEF RunInv, Summarize, Reconcile, Underway, Phase, Ended
<1>2. task[w] \in TaskState /\ exhausted \in BOOLEAN
  BY <1>1 DEF MayConclude
<1> HIDE DEF exhausted
<1>3. /\ t \in TaskState /\ t.row = task[w].row /\ t.held = task[w].held
      /\ t.fetched = task[w].fetched
      /\ t.queue = task[w].queue /\ t.stored = task[w].stored /\ t.rejected = task[w].rejected
  BY <1>2, ReconcilingType
<1>4. /\ u \in TaskState /\ u.row = task[w].row /\ u.held = task[w].held
      /\ u.fetched = task[w].fetched
      /\ u.queue = task[w].queue /\ u.stored = task[w].stored /\ u.rejected = task[w].rejected
  BY <1>2, ClosingType
<1> HIDE DEF t, u
<1> QED  BY <1>1, <1>3, <1>4, MovesWithin DEF RunInv

\* However an execution ends, it holds nothing any more.
LEMMA EndEffect ==
  ASSUME RunInv, NEW w \in Run, UNCHANGED source, NEW how \in Ended, NEW row \in RowState,
         row = "completed" => how = "returned", row = "failed" => how = "raised",
         task' = [task EXCEPT ![w] = Over(how, row)]
  PROVE  /\ Executions' /\ task'[w].held = 0
         /\ \A v \in Run : v # w => task'[v].held = task[v].held
         /\ CommitsReservation(w) => Releases(w)
         /\ UNCHANGED quota /\ task[w].held = 0 => Steady
<1>1. Sane(Over(how, row), source) /\ Over(how, row).held = 0
  BY OverSane
<1> DEFINE t == Over(how, row)
<1> HIDE DEF t
<1>2. Sane(t, source) /\ t.held = 0 /\ task' = [task EXCEPT ![w] = t]
  BY <1>1 DEF t
<1> QED  BY <1>2, OneMoves DEF RunInv

\* The rows a process may leave as it ends.
LEMMA LeftRow ==
  ASSUME Executions, NEW w \in Run, task[w].phase \in Underway, NEW state \in RowState
  PROVE  /\ task[w].row \in RowState /\ task[w].row # "completed" /\ task[w].row # "failed"
         /\ \A row \in Written(task[w].row, state) :
              row \in RowState /\ (row = "completed" => state = "completed")
                               /\ (row = "failed" => state = "failed")
<1>1. task[w].row \in {"none", "running"}
  BY UnderwayFacts
<1> QED  BY <1>1 DEF Written, RowState

LEMMA EndsEffect ==
  ASSUME RunInv, NEW w \in Run
  PROVE  /\ PoisonedRaises(w) \/ Complete(w) => Executions' /\ Steady
         /\ Raise(w) \/ Cancel(w) => Executions' /\ Releases(w)
         /\ Kill(w) => /\ Executions' /\ task'[w].held = 0
                       /\ \A v \in Run : v # w => task'[v].held = task[v].held
<1>1. ASSUME PoisonedRaises(w)
      PROVE  Executions' /\ Steady
  <2>1. /\ task[w].phase \in Underway /\ task[w].held = 0 /\ UNCHANGED <<source, quota>>
    BY <1>1, UnderwayFacts DEF RunInv, PoisonedRaises, Underway, Phase, Ended
  <2>2. PICK row \in Written(task[w].row, "failed") :
          task' = [task EXCEPT ![w] = Over("raised", row)]
    BY <1>1 DEF PoisonedRaises
  <2>3. row \in RowState /\ row # "completed"
    BY <2>1, LeftRow DEF RunInv, RowState
  <2> QED  BY <2>1, <2>2, <2>3, EndEffect DEF Ended
<1>2. ASSUME Complete(w)
      PROVE  Executions' /\ Steady
  <2>1. /\ task[w].phase \in Underway /\ task[w].held = 0 /\ UNCHANGED <<source, quota>>
    BY <1>2, UnderwayFacts DEF RunInv, Complete, Underway, Phase, Ended
  <2>2. PICK row \in Written(task[w].row, "completed") :
          task' = [task EXCEPT ![w] = Over("returned", row)]
    BY <1>2 DEF Complete
  <2>3. row \in RowState /\ row # "failed"
    BY <2>1, LeftRow DEF RunInv, RowState
  <2> QED  BY <2>1, <2>2, <2>3, EndEffect DEF Ended
<1>3. ASSUME Raise(w)
      PROVE  Executions' /\ Releases(w)
  <2>1. task[w].phase \in Underway /\ CommitsReservation(w) /\ UNCHANGED source
    BY <1>3 DEF Raise
  <2>2. PICK row \in Written(task[w].row, "failed") :
          task' = [task EXCEPT ![w] = Over("raised", row)]
    BY <1>3 DEF Raise
  <2>3. row \in RowState /\ row # "completed"
    BY <2>1, LeftRow DEF RunInv, RowState
  <2> QED  BY <2>1, <2>2, <2>3, EndEffect DEF Ended
<1>4. ASSUME Cancel(w)
      PROVE  Executions' /\ Releases(w)
  <2>1. /\ task[w].phase \in Underway /\ CommitsReservation(w) /\ UNCHANGED source
        /\ task' = [task EXCEPT ![w] = Over("lost", task[w].row)]
    BY <1>4 DEF Cancel
  <2>2. task[w].row \in RowState /\ task[w].row # "completed" /\ task[w].row # "failed"
    BY <2>1, LeftRow DEF RunInv, RowState
  <2> QED  BY <2>1, <2>2, EndEffect DEF Ended
<1>5. ASSUME Kill(w)
      PROVE  /\ Executions' /\ task'[w].held = 0
             /\ \A v \in Run : v # w => task'[v].held = task[v].held
  <2>1. /\ task[w].phase \in Underway /\ UNCHANGED source
        /\ task' = [task EXCEPT ![w] = Over("lost", task[w].row)]
    BY <1>5 DEF Kill
  <2>2. task[w].row \in RowState /\ task[w].row # "completed" /\ task[w].row # "failed"
    BY <2>1, LeftRow DEF RunInv, RowState
  <2> QED  BY <2>1, <2>2, EndEffect DEF Ended
<1> QED  BY <1>1, <1>2, <1>3, <1>4, <1>5

-----------------------------------------------------------------------------
(* The world, and every step at once.                                      *)

LEMMA WorldKept == World /\ UNCHANGED <<source, world, rows>> => World'
BY DEF World, world, rows

LEMMA PublishEffect ==
  ASSUME RunInv, Publish
  PROVE  World' /\ Executions' /\ Steady
<1>1. /\ newest < PostingsOf[source] /\ newest' = newest + 1 /\ site' = site \cup {newest + 1}
      /\ UNCHANGED <<source, today, live, seenOn, task, quota>>
  BY DEF Publish, rows
<1>2. newest \in Nat /\ site \in SUBSET (1 .. newest) /\ PostingsOf[source] \in 0 .. MaxPosting
  BY ConstantsType DEF RunInv, World
<1>3. newest' \in 0 .. MaxPosting
  BY <1>1, <1>2, ConstantsType
<1>4. site' \subseteq 1 .. newest'
  BY <1>1, <1>2
<1>5. World'
  BY <1>1, <1>3, <1>4 DEF RunInv, World
<1> QED  BY <1>1, <1>5 DEF RunInv, Executions, Steady

LEMMA CloseThereEffect ==
  ASSUME RunInv, NEW p \in Posting, CloseThere(p)
  PROVE  World' /\ Executions' /\ Steady
<1> DEFINE T == [v \in Run |-> IF task[v].phase \in Underway
                                THEN [task[v] EXCEPT !.stood = @ \ {p}, !.moved = ByNumber]
                                ELSE task[v]]
<1>1. /\ task' = T /\ site' = site \ {p}
      /\ UNCHANGED <<source, newest, today, live, seenOn, quota>>
  BY DEF CloseThere, rows
<1>2. ASSUME NEW v \in Run
      PROVE  Sane(T[v], source) /\ T[v].held = task[v].held
  <2> DEFINE stood == task[v].stood \ {p}
             moved == ByNumber
             u == [task[v] EXCEPT !.stood = stood, !.moved = moved]
  <2>1. task[v] \in TaskState /\ Sane(task[v], source)
    BY UnderwayFacts DEF RunInv
  <2>2. stood \in SUBSET Posting
    BY <2>1 DEF TaskState
  <2>3. moved \in BOOLEAN
    BY DEF ByNumber
  <2>4. T[v] = IF task[v].phase \in Underway THEN u ELSE task[v]
    OBVIOUS
  <2> HIDE DEF stood, moved, T
  <2>5. /\ u \in TaskState /\ u.row = task[v].row /\ u.held = task[v].held
        /\ u.fetched = task[v].fetched /\ u.phase = task[v].phase
        /\ u.queue = task[v].queue /\ u.stored = task[v].stored
        /\ u.rejected = task[v].rejected
    <3>1. task[v] \in TaskState
      BY <2>1
    <3> QED  BY <2>2, <2>3, <3>1 DEF TaskState
  <2> HIDE DEF u
  <2>6. Sane(u, source)
    BY <2>1, <2>5 DEF Sane
  <2> QED  BY <2>1, <2>4, <2>5, <2>6
<1>3. task' = [v \in Run |-> T[v]]
  BY <1>1
<1> HIDE DEF T
<1>4. Executions' /\ Steady
  BY <1>1, <1>2, <1>3, AllMove DEF RunInv
<1>5. World'
  BY <1>1 DEF RunInv, World
<1> QED  BY <1>4, <1>5

LEMMA NextDayEffect ==
  ASSUME RunInv, NextDay
  PROVE  World' /\ Executions' /\ Steady
<1>1. /\ today < LastDay /\ today' = today + 1
      /\ UNCHANGED <<source, site, newest, live, seenOn, task, quota>>
  BY DEF NextDay, rows
<1>2. today' \in Day
  BY <1>1, ConstantsType DEF RunInv, World, Day
<1>3. World'
  BY <1>1, <1>2 DEF RunInv, World
<1> QED  BY <1>1, <1>3 DEF RunInv, Executions, Steady

LEMMA StoreWorld ==
  ASSUME RunInv, NEW w \in Run, Store(w)
  PROVE  World'
<1>1. task[w] \in TaskState /\ task[w].queue # << >>
  BY UnderwayFacts DEF RunInv, Store
<1> DEFINE p == Head(task[w].queue)
<1>2. p \in Posting
  BY <1>1, StoredType
<1>3. /\ UNCHANGED <<source, site, newest, today>>
      /\ \/ live' = live \cup {p} /\ seenOn' = [seenOn EXCEPT ![p] = today]
         \/ UNCHANGED <<live, seenOn>>
  BY Zenon DEF Store, world, rows
<1> HIDE DEF p
<1>4. today \in 0 .. LastDay
  BY DEF RunInv, World, Day
<1> QED  BY <1>2, <1>3, <1>4 DEF RunInv, World

LEMMA ReconcileWorld ==
  ASSUME RunInv, NEW w \in Run, Reconcile(w)
  PROVE  World'
<1>1. live' \subseteq live /\ UNCHANGED <<source, site, newest, today, seenOn>>
  BY DEF Reconcile, world
<1> QED  BY <1>1 DEF RunInv, World

\* A process that is killed takes its reservation with it.
Loses(w) ==
  /\ task'[w].held = 0 /\ \A v \in Run : v # w => task'[v].held = task[v].held
  /\ uncounted' = IF task[w].held = 0 THEN uncounted
                  ELSE [uncounted EXCEPT ![task[w].held] = @ + 1]
  /\ UNCHANGED <<ledger, asked>>

LEMMA BeginsEffect ==
  ASSUME RunInv, NEW w \in Run, BeginFeed(w) \/ BeginBoards(w) \/ BeginKeyed(w)
  PROVE  World' /\ Executions' /\ Steady
<1>1. {1} \in SUBSET Section /\ Section \in SUBSET Section
  BY ConstantsType DEF Section
<1>2. \E sections \in SUBSET Section, configured \in BOOLEAN : Begin(w, sections, configured)
  BY <1>1, Zenon DEF BeginFeed, BeginBoards, BeginKeyed
<1>3. UNCHANGED <<source, world, rows>>
  BY <1>2 DEF Begin
<1> QED  BY <1>2, <1>3, BeginEffect, WorldKept DEF RunInv

LEMMA StepEffect ==
  ASSUME RunInv, NEW w \in Run, Step(w)
  PROVE  World' /\ Executions' /\ (Steady \/ Releases(w) \/ Reserves(w))
<1>1. CASE OpenRow(w)
  BY <1>1, OpenRowEffect, WorldKept DEF OpenRow, RunInv
<1>2. CASE LoadVocabulary(w)
  BY <1>2, LoadVocabularyEffect, WorldKept DEF LoadVocabulary, RunInv
<1>3. CASE Reserve(w)
  BY <1>3, ReserveEffect, WorldKept DEF Reserve, RunInv
<1>4. CASE ReservationRefused(w)
  BY <1>4, ReservationRefusedEffect, WorldKept DEF ReservationRefused, RunInv
<1>5. CASE Retry(w)
  BY <1>5, RetryEffect, WorldKept DEF Retry, RunInv
<1>6. CASE FetchFails(w)
  BY <1>6, FetchFailsEffect, WorldKept DEF FetchFails, RunInv
<1>7. CASE RemotiveAnswer(w) \/ ArbeitnowAnswer(w) \/ HimalayasAnswer(w) \/ AdzunaAnswer(w)
  <2>1. UNCHANGED <<source, world, rows>>
    BY <1>7 DEF RemotiveAnswer, ArbeitnowAnswer, HimalayasAnswer, AdzunaAnswer, Receives
  <2> QED  BY <1>7, <2>1, AnswerEffect, WorldKept DEF RunInv
<1>8. CASE JobicyAnswer(w)
  BY <1>8, JobicyAnswerEffect, WorldKept DEF JobicyAnswer, RunInv
<1>9. CASE BoardAnswer(w)
  <2>1. UNCHANGED <<source, world, rows>>
    BY <1>9, Zenon DEF BoardAnswer
  <2> QED  BY <1>9, <2>1, BoardAnswerEffect, WorldKept DEF RunInv
<1>10. CASE Prepare(w)
  <2>1. UNCHANGED <<source, world, rows>>
    BY <1>10, Zenon DEF Prepare
  <2> QED  BY <1>10, <2>1, PrepareEffect, WorldKept DEF RunInv
<1>11. CASE Resume(w)
  <2>1. UNCHANGED <<source, world, rows>>
    BY <1>11, Zenon DEF Resume
  <2> QED  BY <1>11, <2>1, ResumeEffect, WorldKept DEF RunInv
<1>12. CASE Store(w)
  BY <1>12, StoreEffect, StoreWorld
<1>13. CASE PoisonedRaises(w)
  BY <1>13, EndsEffect, WorldKept DEF PoisonedRaises, RunInv
<1>14. CASE Summarize(w)
  BY <1>14, ConcludeEffect, WorldKept DEF Summarize, RunInv
<1>15. CASE Reconcile(w)
  BY <1>15, ConcludeEffect, ReconcileWorld
<1>16. CASE Complete(w)
  BY <1>16, EndsEffect, WorldKept DEF Complete, RunInv
<1> QED
  BY <1>1, <1>2, <1>3, <1>4, <1>5, <1>6, <1>7, <1>8, <1>9, <1>10, <1>11, <1>12, <1>13, <1>14,
     <1>15, <1>16 DEF Step, Ask, Answer

LEMMA NextEffect ==
  ASSUME RunInv, [Next]_vars
  PROVE  /\ World' /\ Executions'
         /\ Steady \/ \E w \in Run : Releases(w) \/ Reserves(w) \/ Loses(w)
<1>1. CASE Publish
  BY <1>1, PublishEffect
<1>2. ASSUME NEW p \in Posting, CloseThere(p)
      PROVE  World' /\ Executions' /\ Steady
  BY <1>2, CloseThereEffect
<1>3. CASE NextDay
  BY <1>3, NextDayEffect
<1>4. ASSUME NEW w \in Run, BeginFeed(w) \/ BeginBoards(w) \/ BeginKeyed(w)
      PROVE  World' /\ Executions' /\ Steady
  BY <1>4, BeginsEffect
<1>5. ASSUME NEW w \in Run, Step(w)
      PROVE  World' /\ Executions' /\ (Steady \/ Releases(w) \/ Reserves(w))
  BY <1>5, StepEffect
<1>6. ASSUME NEW w \in Run, Raise(w) \/ Cancel(w)
      PROVE  World' /\ Executions' /\ Releases(w)
  <2>1. UNCHANGED <<source, world, rows>>
    BY <1>6 DEF Raise, Cancel
  <2> QED  BY <1>6, <2>1, EndsEffect, WorldKept DEF RunInv
<1>7. ASSUME NEW w \in Run, Kill(w)
      PROVE  World' /\ Executions' /\ Loses(w)
  <2>1. /\ UNCHANGED <<source, world, rows, ledger, asked>>
        /\ uncounted' = IF task[w].held = 0 THEN uncounted
                        ELSE [uncounted EXCEPT ![task[w].held] = @ + 1]
    BY <1>7 DEF Kill
  <2> QED  BY <1>7, <2>1, EndsEffect, WorldKept DEF RunInv, Loses
<1>8. CASE UNCHANGED vars
  <2>1. UNCHANGED <<source, world, rows, task, quota>>
    BY <1>8 DEF vars, world, rows, quota
  <2> QED  BY <2>1, WorldKept DEF RunInv, Executions, Steady
<1> QED  BY <1>1, <1>2, <1>3, <1>4, <1>5, <1>6, <1>7, <1>8 DEF Next

-----------------------------------------------------------------------------
(* The ledger.                                                             *)

LEMMA HeldType ==
  ASSUME Executions, NEW w \in Run
  PROVE  task[w].held \in 0 .. LastDay /\ (task[w].held # 0 => task[w].held \in Day)
<1>1. task[w].held \in 0 .. LastDay
  <2>1. task[w] \in TaskState
    BY DEF Executions
  <2> QED  BY <2>1 DEF TaskState
<1> QED  BY <1>1, ConstantsType DEF Day

LEMMA OneMoreOf ==
  ASSUME NEW f \in [Day -> Nat], NEW d
  PROVE  [f EXCEPT ![d] = @ + 1] \in [Day -> Nat]
<1>1. d \in Day => f[d] + 1 \in Nat
  OBVIOUS
<1> QED  BY <1>1

LEMMA LedgerKept ==
  ASSUME RunInv, NEW w \in Run, Steady \/ Releases(w) \/ Reserves(w) \/ Loses(w)
  PROVE  Ledger'
<1>1. /\ ledger \in [Day -> 0 .. PerDay] /\ asked \in [Day -> Nat] /\ uncounted \in [Day -> Nat]
      /\ \A u, v \in Run : task[u].held # 0 /\ task[u].held = task[v].held => u = v
      /\ \A v \in Run : task[v].held # 0 => ledger[task[v].held] < PerDay
  BY DEF RunInv, Ledger
<1>2. \A v \in Run : task[v].held \in 0 .. LastDay /\ (task[v].held # 0 => task[v].held \in Day)
  BY HeldType DEF RunInv
<1>3. CASE Steady
  BY <1>1, <1>3 DEF Steady, quota, Ledger
<1> DEFINE d == task[w].held
<1>4. CASE Releases(w)
  <2>1. /\ task'[w].held = 0 /\ \A v \in Run : v # w => task'[v].held = task[v].held
        /\ ledger' = IF d = 0 THEN ledger ELSE [ledger EXCEPT ![d] = @ + 1]
        /\ UNCHANGED <<asked, uncounted>>
    BY <1>4 DEF Releases, CommitsReservation
  <2>2. CASE d = 0
    BY <1>1, <2>1, <2>2 DEF Ledger
  <2>3. CASE d # 0
    <3>1. d \in Day /\ ledger[d] \in 0 .. PerDay /\ ledger[d] < PerDay
      BY <1>1, <1>2, <2>3
    <3>2. ledger[d] + 1 \in 0 .. PerDay
      BY <3>1, ConstantsType
    <3> HIDE DEF d
    <3>3. ledger' \in [Day -> 0 .. PerDay] /\ \A e \in Day : e # d => ledger'[e] = ledger[e]
      BY <1>1, <2>1, <2>3, <3>2
    <3>4. \A v \in Run : v # w /\ task[v].held # 0 => task[v].held # d
      BY <1>1, <2>3 DEF d
    <3>5. \A v \in Run : task'[v].held # 0 => ledger'[task'[v].held] < PerDay
      BY <1>1, <1>2, <2>1, <3>3, <3>4
    <3>6. \A u, v \in Run : task'[u].held # 0 /\ task'[u].held = task'[v].held => u = v
      BY <1>1, <2>1
    <3> QED  BY <1>1, <2>1, <3>3, <3>5, <3>6 DEF Ledger
  <2> QED  BY <2>2, <2>3
<1>5. CASE Reserves(w)
  <2>1. /\ task'[w].held = today /\ \A v \in Run : v # w => task'[v].held = task[v].held
        /\ asked' = [asked EXCEPT ![today] = @ + 1] /\ UNCHANGED <<ledger, uncounted>>
        /\ \A v \in Run : task[v].held # today
        /\ ledger[today] < PerDay
    BY <1>5 DEF Reserves
  <2>2. asked' \in [Day -> Nat]
    BY <1>1, <2>1, OneMoreOf, Zenon
  <2>3. \A u, v \in Run : task'[u].held # 0 /\ task'[u].held = task'[v].held => u = v
    BY <1>1, <2>1
  <2>4. \A v \in Run : task'[v].held # 0 => ledger'[task'[v].held] < PerDay
    BY <1>1, <2>1
  <2> QED  BY <1>1, <2>1, <2>2, <2>3, <2>4 DEF Ledger
<1>6. CASE Loses(w)
  <2>1. /\ task'[w].held = 0 /\ \A v \in Run : v # w => task'[v].held = task[v].held
        /\ uncounted' = IF d = 0 THEN uncounted ELSE [uncounted EXCEPT ![d] = @ + 1]
        /\ UNCHANGED <<ledger, asked>>
    BY <1>6 DEF Loses
  <2>2. uncounted' \in [Day -> Nat]
    BY <1>1, <2>1, OneMoreOf, Zenon
  <2> QED  BY <1>1, <2>1, <2>2 DEF Ledger
<1> QED  BY <1>3, <1>4, <1>5, <1>6

LEMMA InitHolds == Init => RunInv
<1> SUFFICES ASSUME Init
             PROVE  RunInv
  OBVIOUS
<1>1. World
  <2>1. newest \in 0 .. MaxPosting
    BY ConstantsType DEF Init
  <2>2. live \subseteq Posting
    BY <2>1, ConstantsType DEF Init, Posting
  <2>3. today \in Day /\ seenOn \in [Posting -> 0 .. LastDay]
    BY ConstantsType DEF Init, Day
  <2> QED  BY <2>1, <2>2, <2>3 DEF Init, World
<1>2. \A w \in Run : task[w] = Idle
  BY DEF Init
<1>3. Sane(Idle, source)
  BY IdleType, StillSane, ConstantsType
<1>4. Executions
  BY <1>2, <1>3, IdleType DEF Init, Executions
<1>5. Ledger
  <2>1. 0 \in 0 .. PerDay /\ 0 \in Nat
    BY ConstantsType
  <2> QED  BY <1>2, <2>1, IdleType DEF Init, Ledger
<1> QED  BY <1>1, <1>4, <1>5 DEF RunInv

LEMMA RunInvKept == RunInv /\ [Next]_vars => RunInv'
<1> SUFFICES ASSUME RunInv, [Next]_vars
             PROVE  RunInv'
  OBVIOUS
<1>1. /\ World' /\ Executions'
      /\ Steady \/ \E w \in Run : Releases(w) \/ Reserves(w) \/ Loses(w)
  BY NextEffect
<1>2. Ledger'
  <2>1. CASE Steady
    BY <2>1 DEF Steady, quota, RunInv, Ledger
  <2>2. CASE \E w \in Run : Releases(w) \/ Reserves(w) \/ Loses(w)
    BY <2>2, LedgerKept
  <2> QED  BY <1>1, <2>1, <2>2
<1> QED  BY <1>1, <1>2 DEF RunInv

LEMMA RunInvHolds == Spec => []RunInv
BY InitHolds, RunInvKept, PTL DEF Spec

-----------------------------------------------------------------------------
(* The theorems.                                                           *)

\* The columns, the counters of a summary and the state of the clients keep their types, and
\* the ledger of no day passes the quota (quota.py: reserve).
THEOREM PipelineTypes == Spec => []TypeOK
<1>1. RunInv => TypeOK
  BY DEF RunInv, World, Executions, Ledger, TypeOK
<1> QED  BY <1>1, RunInvHolds, PTL

\* However a walk is retried, limited, overlapped, cut short or refused its statements, each
\* record it fetched is waiting, counted by its outcome or rejected, once, and the budget holds
\* (contracts.py: IngestionSummary; pipeline.py: run_pipeline).
THEOREM RecordsAreAccountedFor == Spec => []EveryRecordOnce
<1>1. RunInv => EveryRecordOnce
  BY DEF RunInv, Executions, Sane, EveryRecordOnce
<1> QED  BY <1>1, RunInvHolds, PTL

\* Whatever a lost bookkeeping statement or a kill does to it, a row never says more than
\* happened: completed only after a return, failed only after a raise (runs.py: recorded_run).
THEOREM RowsNeverOverstate == Spec => []RowTellsTheEnd
<1>1. RunInv => RowTellsTheEnd
  BY DEF RunInv, Executions, Sane, RowTellsTheEnd
<1> QED  BY <1>1, RunInvHolds, PTL

-----------------------------------------------------------------------------
(* The ledger implements the daily allowance.                              *)

\* Whether some execution of T holds a reservation of the day.
Holds(T, d) == \E v \in Run : T[v].held = d

LEMMA CountedOf ==
  ASSUME NEW d \in Day
  PROVE  /\ Counted[d] = ledger[d] + IF Holds(task, d) THEN 1 ELSE 0
         /\ Counted'[d] = ledger'[d] + IF Holds(task', d) THEN 1 ELSE 0
BY DEF Counted, LedgerLocked, Holds

LEMMA SteadyStutters ==
  ASSUME RunInv, NEW w \in Run,
         Steady \/ (Releases(w) /\ task[w].held = 0) \/ (Loses(w) /\ task[w].held = 0)
  PROVE  UNCHANGED Allowance!vars
<1>1. /\ UNCHANGED <<ledger, asked, uncounted>>
      /\ \A v \in Run : task'[v].held = task[v].held
  BY DEF Steady, Releases, Loses, CommitsReservation, quota
<1>2. \A d \in Day : LedgerLocked(d)' <=> LedgerLocked(d)
  BY <1>1 DEF LedgerLocked
<1>3. Counted' = Counted
  BY <1>1, <1>2 DEF Counted
<1> QED  BY <1>1, <1>3 DEF Allowance!vars

LEMMA ReleaseStutters ==
  ASSUME RunInv, NEW w \in Run, Releases(w), task[w].held # 0
  PROVE  UNCHANGED Allowance!vars
<1> DEFINE d == task[w].held
<1>1. /\ task'[w].held = 0 /\ \A v \in Run : v # w => task'[v].held = task[v].held
      /\ ledger' = [ledger EXCEPT ![d] = @ + 1] /\ UNCHANGED <<asked, uncounted>>
  BY DEF Releases, CommitsReservation
<1>2. d \in Day
  BY HeldType DEF RunInv
<1>3. \A v \in Run : v # w => task[v].held # d
  BY DEF RunInv, Ledger
<1>4. Holds(task, d) /\ ~Holds(task', d)
  BY <1>1, <1>2, <1>3 DEF Holds, Day
<1>5. \A e \in Day : e # d => (Holds(task', e) <=> Holds(task, e))
  BY <1>1 DEF Holds, Day
<1>6. ledger \in [Day -> 0 .. PerDay]
  BY DEF RunInv, Ledger
<1> HIDE DEF d
<1>7. ledger'[d] = ledger[d] + 1 /\ \A e \in Day : e # d => ledger'[e] = ledger[e]
  BY <1>1, <1>2, <1>6
<1>8. \A e \in Day : Counted'[e] = Counted[e]
  <2> TAKE e \in Day
  <2>1. /\ Counted[e] = ledger[e] + IF Holds(task, e) THEN 1 ELSE 0
        /\ Counted'[e] = ledger'[e] + IF Holds(task', e) THEN 1 ELSE 0
        /\ ledger[e] \in 0 .. PerDay
    BY <1>6, CountedOf
  <2>2. CASE e = d
    BY <1>4, <1>7, <2>1, <2>2
  <2>3. CASE e # d
    BY <1>5, <1>7, <2>1, <2>3
  <2> QED  BY <2>2, <2>3
<1>9. Counted' = Counted
  BY <1>8 DEF Counted
<1> QED  BY <1>1, <1>9 DEF Allowance!vars

LEMMA ReserveCalls ==
  ASSUME RunInv, NEW w \in Run, Reserves(w)
  PROVE  Allowance!Call(today)
<1>1. /\ task'[w].held = today /\ \A v \in Run : v # w => task'[v].held = task[v].held
      /\ asked' = [asked EXCEPT ![today] = @ + 1] /\ UNCHANGED <<ledger, uncounted>>
      /\ task[w].held = 0 /\ \A v \in Run : task[v].held # today
      /\ ledger[today] < PerDay
  BY DEF Reserves
<1>2. today \in Day /\ ledger \in [Day -> 0 .. PerDay]
  BY DEF RunInv, World, Ledger
<1>3. ~Holds(task, today) /\ Holds(task', today)
  BY <1>1 DEF Holds
<1>4. \A e \in Day : e # today => (Holds(task', e) <=> Holds(task, e))
  BY <1>1 DEF Holds, Day
<1>5. Counted[today] < PerDay
  <2>1. Counted[today] = ledger[today] + 0
    BY <1>2, <1>3, CountedOf
  <2> QED  BY <1>1, <1>2, <2>1
<1>6. \A e \in Day : Counted'[e] = IF e = today THEN Counted[e] + 1 ELSE Counted[e]
  <2> TAKE e \in Day
  <2>1. /\ Counted[e] = ledger[e] + IF Holds(task, e) THEN 1 ELSE 0
        /\ Counted'[e] = ledger[e] + IF Holds(task', e) THEN 1 ELSE 0
        /\ ledger[e] \in 0 .. PerDay
    BY <1>1, <1>2, CountedOf
  <2>2. CASE e = today
    BY <1>3, <2>1, <2>2
  <2>3. CASE e # today
    BY <1>4, <2>1, <2>3
  <2> QED  BY <2>2, <2>3
<1>7. Counted' = [Counted EXCEPT ![today] = @ + 1]
  BY <1>6 DEF Counted
<1> QED  BY <1>1, <1>5, <1>7 DEF Allowance!Call

LEMMA KillLoses ==
  ASSUME RunInv, NEW w \in Run, Loses(w), task[w].held # 0
  PROVE  Allowance!Lose(task[w].held)
<1> DEFINE d == task[w].held
<1>1. /\ task'[w].held = 0 /\ \A v \in Run : v # w => task'[v].held = task[v].held
      /\ uncounted' = [uncounted EXCEPT ![d] = @ + 1] /\ UNCHANGED <<ledger, asked>>
  BY DEF Loses
<1>2. d \in Day /\ ledger \in [Day -> 0 .. PerDay]
  BY HeldType DEF RunInv, Ledger
<1>3. \A v \in Run : v # w => task[v].held # d
  BY DEF RunInv, Ledger
<1>4. Holds(task, d) /\ ~Holds(task', d)
  BY <1>1, <1>2, <1>3 DEF Holds, Day
<1>5. \A e \in Day : e # d => (Holds(task', e) <=> Holds(task, e))
  BY <1>1 DEF Holds, Day
<1> HIDE DEF d
<1>6. Counted[d] > 0
  <2>1. Counted[d] = ledger[d] + 1 /\ ledger[d] \in 0 .. PerDay
    BY <1>2, <1>4, CountedOf
  <2> QED  BY <2>1
<1>7. \A e \in Day : Counted'[e] = IF e = d THEN Counted[e] - 1 ELSE Counted[e]
  <2> TAKE e \in Day
  <2>1. /\ Counted[e] = ledger[e] + IF Holds(task, e) THEN 1 ELSE 0
        /\ Counted'[e] = ledger[e] + IF Holds(task', e) THEN 1 ELSE 0
        /\ ledger[e] \in 0 .. PerDay
    BY <1>1, <1>2, CountedOf
  <2>2. CASE e = d
    BY <1>4, <2>1, <2>2
  <2>3. CASE e # d
    BY <1>5, <2>1, <2>3
  <2> QED  BY <2>2, <2>3
<1>8. Counted' = [Counted EXCEPT ![d] = @ - 1]
  BY <1>7 DEF Counted
<1> QED  BY <1>1, <1>6, <1>8 DEF Allowance!Lose, d

\* The quota's ledger - an upsert that reserves under a row lock, committed once the call has
\* been answered however it ended - implements a daily allowance: a call goes out only while
\* those counted leave room, and a count is lost only with its process (quota.py: reserve;
\* adzuna/client.py: the reservation and its commit in `finally`).
THEOREM LedgerIsAnAllowance == Spec => QuotaIsAnAllowance
<1>1. Init => Allowance!Init
  <2> SUFFICES ASSUME Init
               PROVE  Allowance!Init
    OBVIOUS
  <2>1. \A d \in Day : ~Holds(task, d)
    BY IdleType DEF Init, Holds, Day
  <2>2. \A d \in Day : Counted[d] = 0
    BY <2>1, CountedOf DEF Init
  <2>3. Counted = [d \in Day |-> 0]
    BY <2>2 DEF Counted
  <2> QED  BY <2>3 DEF Init, Allowance!Init
<1>2. RunInv /\ [Next]_vars => [Allowance!Next]_(Allowance!vars)
  <2> SUFFICES ASSUME RunInv, [Next]_vars
               PROVE  Allowance!Next \/ UNCHANGED Allowance!vars
    OBVIOUS
  <2>1. Steady \/ \E w \in Run : Releases(w) \/ Reserves(w) \/ Loses(w)
    BY NextEffect
  <2>2. ASSUME NEW w \in Run, Releases(w)
        PROVE  UNCHANGED Allowance!vars
    BY <2>2, SteadyStutters, ReleaseStutters
  <2>3. ASSUME NEW w \in Run, Reserves(w)
        PROVE  Allowance!Next
    <3>1. today \in Day
      BY DEF RunInv, World
    <3> QED  BY <2>3, <3>1, ReserveCalls DEF Allowance!Next
  <2>4. ASSUME NEW w \in Run, Loses(w)
        PROVE  Allowance!Next \/ UNCHANGED Allowance!vars
    <3>1. task[w].held # 0 => task[w].held \in Day
      BY HeldType DEF RunInv
    <3> QED  BY <2>4, <3>1, SteadyStutters, KillLoses DEF Allowance!Next
  <2>5. CASE Steady
    <3>1. /\ UNCHANGED <<ledger, asked, uncounted>>
          /\ \A v \in Run : task'[v].held = task[v].held
      BY <2>5 DEF Steady, quota
    <3>2. \A d \in Day : LedgerLocked(d)' <=> LedgerLocked(d)
      BY <3>1 DEF LedgerLocked
    <3> QED  BY <3>1, <3>2 DEF Allowance!vars, Counted
  <2> QED  BY <2>1, <2>2, <2>3, <2>4, <2>5
<1> QED  BY <1>1, <1>2, RunInvHolds, PTL DEF Spec, QuotaIsAnAllowance, Allowance!Spec

-----------------------------------------------------------------------------
(* Absence.  What an execution has gathered of the postings that stood     *)
(* throughout its walk, and what is still to come: until something is lost *)
(* and counted, or the walk is stopped, every such posting is one or the   *)
(* other, or its absence is excused.                                       *)

\* Excused, of the source `s`.
Excuse(t, p, s) ==
  \/ s = "adzuna"
  \/ s = "board" /\ SectionOf[p] \notin t.polled
  \/ s = "jobicy" /\ t.cut
  \/ s = "arbeitnow" /\ t.moved

\* No record is rejected, none unread, none refused, and the walk was not stopped.
Lossless(t) == ~t.stopped /\ t.rejected = 0 /\ t.unread = 0 /\ t.refused = 0

InQueue(queue, p) == \E i \in 1 .. Len(queue) : queue[i] = p

Gathered(t, p) ==
  \/ p \in t.fresh
  \/ t.phase \in {"asking", "preparing", "storing"} /\ InQueue(t.queue, p)
  \/ t.phase = "preparing" /\ p \in t.batch

\* The next answer, or one after it, has the posting, or the board's pages read so far have:
\* `listed` is what the provider lists.
Unserved(t, p, s, listed) ==
  \/ s \in {"remotive", "jobicy"}
  \/ s = "arbeitnow" /\ p \notin Newest(listed, (t.page - 1) * PageSize)
  \/ s = "himalayas" /\ p < t.cursor
  \/ /\ s = "board" /\ SectionOf[p] \in t.left
     /\ SectionOf[p] = Current(t) => p < t.cursor \/ p \in t.batch

\* An answer after the one in hand has it, and the walk goes on to that one.
StillUnserved(t, p, s, listed) ==
  \/ s = "arbeitnow" /\ t.more /\ p \notin Newest(listed, t.page * PageSize)
  \/ s = "himalayas" /\ t.more /\ p < t.cursor
  \/ s = "board" /\ SectionOf[p] \in t.left \ {Current(t)}

ToCome(t, p, s, listed) ==
  \/ t.phase = "asking" /\ Unserved(t, p, s, listed)
  \/ t.phase = "preparing" /\ StillUnserved(t, p, s, listed)
  \/ t.phase \in {"storing", "reconciling", "closing"} /\ ~t.reached

Walked == {"asking", "preparing", "storing", "reconciling", "closing"}

Unlost(t, s, listed) ==
  t.phase \in Walked /\ Lossless(t) =>
    \A p \in t.stood : Excuse(t, p, s) \/ Gathered(t, p) \/ ToCome(t, p, s, listed)

\* What is true of an execution of the source `s` whose provider lists `listed`.
Followed(t, s, listed) ==
  /\ t.phase \in Underway => t.stood \subseteq listed
  /\ t.phase \in {"opening", "loading"} =>
       /\ t.cursor = MaxPosting + 1 /\ t.page = 1
       /\ s \notin {"adzuna", "board"} => t.polled # {}
  /\ Unlost(t, s, listed)

WalkInv == \A w \in Run : Followed(task[w], source, site)

LEMMA PhaseFacts ==
  /\ Walked \subseteq Underway /\ Walked \subseteq Phase
  /\ {"opening", "loading"} \subseteq Underway
  /\ \A how \in Ended : how \notin Underway /\ how \notin Walked
  /\ "idle" \notin Underway
  /\ Underway = Walked \cup {"opening", "loading"}
BY DEF Walked, Underway, Phase, Ended

-----------------------------------------------------------------------------
(* Pages.                                                                  *)

LEMMA PostingsFinite ==
  ASSUME NEW S \in SUBSET Posting
  PROVE  IsFiniteSet(S) /\ Cardinality(S) \in Nat
<1>1. IsFiniteSet(1 .. MaxPosting)
  <2>1. 1 \in Int /\ MaxPosting \in Int
    BY ConstantsType
  <2> QED  BY <2>1, FS_Interval, Zenon
<1>2. IsFiniteSet(S)
  <2>1. S \in SUBSET (1 .. MaxPosting)
    BY DEF Posting
  <2> QED  BY <1>1, <2>1, FS_Subset
<1> QED  BY <1>2, FS_CardinalityType

\* What is served of a list is newer than what is not.
LEMMA ServedFirst ==
  ASSUME NEW S \in SUBSET Posting, NEW n \in Int, NEW p \in S, p \notin Newest(S, n),
         NEW q \in Newest(S, n)
  PROVE  p < q
<1> DEFINE Above(x) == {y \in S : y > x}
<1>1. /\ q \in S /\ Cardinality(Above(q)) < n /\ ~(Cardinality(Above(p)) < n)
      /\ p \in Nat /\ q \in Nat
  BY ConstantsType DEF Newest, Posting
<1>2. SUFFICES ASSUME q <= p
               PROVE  FALSE
  BY <1>1
<1>3. Above(p) \subseteq Above(q) /\ Above(q) \in SUBSET Posting
  <2>1. \A y \in S : y \in Int
    BY ConstantsType DEF Posting
  <2>2. \A y \in S : y > p => y > q
    BY <1>1, <1>2, <2>1
  <2> QED  BY <2>2
<1> HIDE DEF Above
<1>4. /\ Cardinality(Above(p)) <= Cardinality(Above(q))
      /\ Cardinality(Above(p)) \in Nat /\ Cardinality(Above(q)) \in Nat
  <2>1. Above(p) \in SUBSET Posting
    BY <1>3
  <2>2. Cardinality(Above(p)) <= Cardinality(Above(q))
    BY <1>3, PostingsFinite, FS_Subset
  <2> QED  BY <1>3, <2>1, <2>2, PostingsFinite
<1> QED  BY <1>1, <1>4

\* A newer posting pushes the older ones back.
LEMMA NewerPushesBack ==
  ASSUME NEW S \in SUBSET Posting, NEW m \in Posting, NEW n \in Int, NEW p \in S,
         p \notin Newest(S, n)
  PROVE  p \notin Newest(S \cup {m}, n)
<1> DEFINE Above(T) == {y \in T : y > p}
<1>1. ~(Cardinality(Above(S)) < n)
  BY DEF Newest
<1>2. /\ Above(S) \subseteq Above(S \cup {m}) /\ Above(S) \in SUBSET Posting
      /\ Above(S \cup {m}) \in SUBSET Posting
  OBVIOUS
<1>3. SUFFICES ~(Cardinality(Above(S \cup {m})) < n)
  BY DEF Newest
<1> HIDE DEF Above
<1>4. /\ Cardinality(Above(S)) <= Cardinality(Above(S \cup {m}))
      /\ Cardinality(Above(S)) \in Nat /\ Cardinality(Above(S \cup {m})) \in Nat
  BY <1>2, PostingsFinite, FS_Subset
<1> QED  BY <1>1, <1>4

\* Nothing is served by no page.
LEMMA NoPageServes ==
  ASSUME NEW S \in SUBSET Posting, NEW p \in S
  PROVE  p \notin Newest(S, (1 - 1) * PageSize)
<1>1. (1 - 1) * PageSize = 0
  BY IngestionRunAssumption DEF IngestionRunAssumption
<1>2. Cardinality({y \in S : y > p}) \in Nat
  <2>1. {y \in S : y > p} \in SUBSET Posting
    OBVIOUS
  <2> QED  BY <2>1, PostingsFinite
<1> QED  BY <1>1, <1>2 DEF Newest

\* The last posting of a page is the least of it.
LEMMA CursorIsLeast ==
  ASSUME NEW cursor, NEW page \in SUBSET Posting, page # {}
  PROVE  CursorAfter(cursor, page) \in page
<1>1. page \in SUBSET Nat
  BY ConstantsType DEF Posting
<1>2. \E p \in page : \A q \in page : p <= q
  BY <1>1, LeastOf
<1> QED  BY <1>2, Zenon DEF CursorAfter

\* A posting before the cursor is on the page, or on a later one, which is announced.
LEMMA PageByCursor ==
  ASSUME NEW S \in SUBSET Posting, NEW cursor \in 1 .. MaxPosting + 1, NEW p \in S, p < cursor,
         NEW more \in Announces(Ahead(S, cursor, CursorPage(S, cursor)))
  PROVE  LET page == CursorPage(S, cursor)
         IN p \in page \/ (more /\ p < CursorAfter(cursor, page))
<1> DEFINE older == {x \in S : x < cursor}
           page == CursorPage(S, cursor)
<1>1. older \in SUBSET Posting /\ p \in older /\ page = Newest(older, PageSize)
  BY DEF CursorPage
<1>2. page \subseteq older
  BY <1>1 DEF Newest
<1>3. SUFFICES ASSUME p \notin page
               PROVE  more /\ p < CursorAfter(cursor, page)
  OBVIOUS
<1>4. more
  BY <1>1, <1>3 DEF Ahead, Announces
<1>5. p < CursorAfter(cursor, page)
  <2>1. CASE page = {}
    BY <2>1 DEF CursorAfter
  <2>2. CASE page # {}
    <3>1. CursorAfter(cursor, page) \in page
      BY <1>1, <1>2, <2>2, CursorIsLeast
    <3>2. PageSize \in Int
      BY IngestionRunAssumption DEF IngestionRunAssumption
    <3> HIDE DEF page, older
    <3> QED  BY <1>1, <1>3, <3>1, <3>2, ServedFirst
  <2> QED  BY <2>1, <2>2
<1> QED  BY <1>4, <1>5

\* A posting no page before has is on this page by number, or on a later one, which is
\* announced.
LEMMA PageByNumber ==
  ASSUME NEW S \in SUBSET Posting, NEW n \in Nat, NEW p \in S,
         p \notin Newest(S, (n - 1) * PageSize),
         NEW more \in Announces(S \ Newest(S, n * PageSize))
  PROVE  p \in NumberedPage(S, n) \/ (more /\ p \notin Newest(S, n * PageSize))
<1>1. CASE p \in Newest(S, n * PageSize)
  BY <1>1, Zenon DEF NumberedPage
<1>2. CASE p \notin Newest(S, n * PageSize)
  BY <1>2 DEF Announces
<1> QED  BY <1>1, <1>2

-----------------------------------------------------------------------------
(* What a step makes of one execution's walk.                              *)

LEMMA OneFollows ==
  ASSUME Executions, WalkInv, UNCHANGED <<source, site>>, NEW w \in Run, NEW t,
         task' = [task EXCEPT ![w] = t], Followed(t, source, site)
  PROVE  WalkInv'
<1>1. ASSUME NEW v \in Run
      PROVE  Followed(task'[v], source, site)
  <2>1. task'[v] = IF v = w THEN t ELSE task[v]
    BY DEF Executions
  <2> QED  BY <2>1 DEF WalkInv
<1> QED  BY <1>1 DEF WalkInv

LEMMA NothingStood ==
  ASSUME NEW t, NEW s, NEW listed, t.stood = {}, t.phase \notin {"opening", "loading"}
  PROVE  Followed(t, s, listed)
BY DEF Followed, Unlost

LEMMA LostFollowed ==
  ASSUME NEW t, NEW u, NEW s, NEW listed, Followed(t, s, listed), t.phase \in Underway,
         u.stood = t.stood, u.phase \notin {"opening", "loading"}, ~Lossless(u)
  PROVE  Followed(u, s, listed)
BY DEF Followed, Unlost

LEMMA SameFollowed ==
  ASSUME NEW t, NEW u, NEW s, NEW listed, Followed(t, s, listed),
         u.phase = t.phase, u.stood = t.stood, u.stopped = t.stopped,
         u.rejected = t.rejected, u.unread = t.unread, u.refused = t.refused,
         u.fresh = t.fresh, u.queue = t.queue, u.batch = t.batch,
         u.cursor = t.cursor, u.page = t.page, u.left = t.left, u.polled = t.polled,
         u.more = t.more, u.reached = t.reached, u.cut = t.cut, u.moved = t.moved
  PROVE  Followed(u, s, listed)
<1>1. Current(u) = Current(t) /\ Lossless(u) = Lossless(t)
  BY DEF Current, Lossless
<1>2. \A p : /\ Excuse(u, p, s) = Excuse(t, p, s) /\ Gathered(u, p) = Gathered(t, p)
             /\ ToCome(u, p, s, listed) = ToCome(t, p, s, listed)
  BY <1>1, Zenon DEF Excuse, Gathered, ToCome, Unserved, StillUnserved
<1>3. Unlost(u, s, listed) = Unlost(t, s, listed)
  BY <1>1, <1>2, Zenon DEF Unlost
<1> QED  BY <1>3, Zenon DEF Followed

\* A step within the walk is followed when it keeps what is gathered or to come.
LEMMA WalkFollowed ==
  ASSUME NEW t, NEW u, NEW s, NEW listed, Followed(t, s, listed),
         t.phase \in Walked, u.phase \in Walked, u.stood = t.stood,
         Lossless(u) => Lossless(t),
         \A p \in t.stood :
            /\ p \in listed /\ Lossless(u)
            /\ Excuse(t, p, s) \/ Gathered(t, p) \/ ToCome(t, p, s, listed)
            => Excuse(u, p, s) \/ Gathered(u, p) \/ ToCome(u, p, s, listed)
  PROVE  Followed(u, s, listed)
<1>1. t.phase \in Underway /\ u.phase \notin {"opening", "loading"}
  BY PhaseFacts DEF Walked
<1>2. t.stood \subseteq listed
  BY <1>1 DEF Followed
<1>3. ASSUME Lossless(u), NEW p \in t.stood
      PROVE  Excuse(u, p, s) \/ Gathered(u, p) \/ ToCome(u, p, s, listed)
  <2>1. Excuse(t, p, s) \/ Gathered(t, p) \/ ToCome(t, p, s, listed)
    BY <1>3 DEF Followed, Unlost
  <2> QED  BY <1>2, <1>3, <2>1
<1> QED  BY <1>1, <1>2, <1>3, Zenon DEF Followed, Unlost

\* An excuse does not depend on how far the walk is.
LEMMA ExcuseKept ==
  ASSUME NEW t, NEW u, NEW s, NEW p, Excuse(t, p, s),
         u.polled = t.polled, u.cut = t.cut, u.moved = t.moved
  PROVE  Excuse(u, p, s)
BY DEF Excuse

LEMMA BeginFollows ==
  ASSUME RunInv, WalkInv, NEW w \in Run, BeginFeed(w) \/ BeginBoards(w) \/ BeginKeyed(w)
  PROVE  WalkInv'
<1>1. PICK sections, configured :
        /\ Begin(w, sections, configured)
        /\ source \notin {"adzuna", "board"} => sections # {}
  <2>1. CASE BeginFeed(w)
    <3>1. Begin(w, {1}, TRUE) /\ {1} # {}
      BY <2>1 DEF BeginFeed
    <3> QED  BY <3>1, Zenon
  <2>2. CASE BeginBoards(w)
    BY <2>2, Zenon DEF BeginBoards
  <2>3. CASE BeginKeyed(w)
    BY <2>3, Zenon DEF BeginKeyed
  <2> QED  BY <2>1, <2>2, <2>3
<1> DEFINE t == [Idle EXCEPT !.phase = "opening", !.started = today, !.polled = sections,
                             !.configured = configured]
<1>2. task' = [task EXCEPT ![w] = t] /\ UNCHANGED <<source, site>>
  BY <1>1 DEF Begin, world
<1>3. /\ t.phase = "opening" /\ t.polled = sections /\ t.stood = {}
      /\ t.cursor = MaxPosting + 1 /\ t.page = 1
  BY DEF Idle
<1> HIDE DEF t
<1>4. Followed(t, source, site)
  BY <1>1, <1>3, Zenon DEF Followed, Unlost, Walked
<1> QED  BY <1>2, <1>4, OneFollows DEF RunInv

LEMMA OpenRowFollows ==
  ASSUME RunInv, WalkInv, NEW w \in Run, OpenRow(w)
  PROVE  WalkInv'
<1>1. PICK row \in {"none", "running"} :
        task' = [task EXCEPT ![w].row = row,
                   ![w].phase = IF task[w].configured THEN "loading" ELSE "closing",
                   ![w].unread = IF task[w].configured THEN 0 ELSE 1]
  BY DEF OpenRow
<1> DEFINE phase == IF task[w].configured THEN "loading" ELSE "closing"
           unread == IF task[w].configured THEN 0 ELSE 1
           t == [task[w] EXCEPT !.row = row, !.phase = phase, !.unread = unread]
<1>2. /\ task' = [task EXCEPT ![w] = t] /\ UNCHANGED <<source, site>>
      /\ task[w].phase = "opening"
      /\ phase = "loading" \/ (phase = "closing" /\ unread = 1)
  BY <1>1 DEF OpenRow, world
<1> HIDE DEF phase, unread
<1>3. /\ t.phase = phase /\ t.unread = unread /\ t.stood = task[w].stood
      /\ t.cursor = task[w].cursor /\ t.page = task[w].page /\ t.polled = task[w].polled
  <2>1. task[w] \in TaskState
    BY UnderwayFacts DEF RunInv
  <2> QED  BY <2>1 DEF TaskState
<1> HIDE DEF t
<1>4. Followed(task[w], source, site) /\ task[w].phase \in Underway
  BY <1>2, PhaseFacts DEF WalkInv
<1>5. CASE phase = "loading"
  <2>1. Followed(t, source, site)
    BY <1>2, <1>3, <1>4, <1>5, Zenon DEF Followed, Unlost, Walked
  <2> QED  BY <1>2, <2>1, OneFollows DEF RunInv
<1>6. CASE phase = "closing" /\ unread = 1
  <2>1. ~Lossless(t)
    BY <1>3, <1>6 DEF Lossless
  <2>2. Followed(t, source, site)
    BY <1>3, <1>4, <1>6, <2>1, LostFollowed
  <2> QED  BY <1>2, <2>2, OneFollows DEF RunInv
<1> QED  BY <1>2, <1>5, <1>6

LEMMA LoadVocabularyFollows ==
  ASSUME RunInv, WalkInv, NEW w \in Run, LoadVocabulary(w)
  PROVE  WalkInv'
<1> DEFINE phase == IF task[w].polled = {} THEN "storing" ELSE "asking"
           stood == IF Windowed THEN {} ELSE site
           reached == (task[w].polled = {})
<1>1. PICK poisoned \in BOOLEAN :
        task' = [task EXCEPT ![w].poisoned = poisoned, ![w].phase = phase,
                   ![w].left = task[w].polled, ![w].reached = reached, ![w].stood = stood]
  BY DEF LoadVocabulary
<1> DEFINE t == [task[w] EXCEPT !.poisoned = poisoned, !.phase = phase, !.left = task[w].polled,
                                !.reached = reached, !.stood = stood]
<1>2. /\ task' = [task EXCEPT ![w] = t] /\ UNCHANGED <<source, site>>
      /\ task[w].phase = "loading" /\ stood \subseteq site
      /\ phase = IF task[w].polled = {} THEN "storing" ELSE "asking"
  <2>1. phase = IF task[w].polled = {} THEN "storing" ELSE "asking"
    OBVIOUS
  <2>2. stood \subseteq site
    OBVIOUS
  <2>3. task' = [task EXCEPT ![w] = t]
    BY <1>1
  <2> HIDE DEF phase, stood, t
  <2> QED  BY <2>1, <2>2, <2>3 DEF LoadVocabulary, world
<1> HIDE DEF phase, reached, stood
<1>3. /\ t.phase = phase /\ t.stood = stood /\ t.left = task[w].polled
      /\ t.cursor = task[w].cursor /\ t.page = task[w].page /\ t.polled = task[w].polled
  <2>1. task[w] \in TaskState
    BY UnderwayFacts DEF RunInv
  <2> QED  BY <2>1 DEF TaskState
<1> HIDE DEF t
<1>4. /\ task[w].cursor = MaxPosting + 1 /\ task[w].page = 1
      /\ source \notin {"adzuna", "board"} => task[w].polled # {}
  BY <1>2 DEF WalkInv, Followed
<1>5. site \in SUBSET Posting /\ source \in AllSource
  BY SiteType, IngestionRunAssumption DEF RunInv, World, IngestionRunAssumption
<1>6. ASSUME NEW p \in stood
      PROVE  Excuse(t, p, source) \/ ToCome(t, p, source, site)
  <2>1. p \in site /\ p \in Posting /\ p < MaxPosting + 1
    <3>1. p \in site /\ p \in Posting
      BY <1>2, <1>5
    <3> QED  BY <3>1, ConstantsType DEF Posting
  <2>2. CASE source = "adzuna"
    BY <2>2 DEF Excuse
  <2>3. CASE source = "board"
    <3>1. CASE SectionOf[p] \notin t.polled
      BY <2>3, <3>1 DEF Excuse
    <3>2. CASE SectionOf[p] \in t.polled
      <4>1. t.phase = "asking" /\ SectionOf[p] \in t.left /\ p < t.cursor
        BY <1>2, <1>3, <1>4, <2>1, <3>2
      <4> QED  BY <2>3, <4>1 DEF ToCome, Unserved
    <3> QED  BY <3>1, <3>2
  <2>4. CASE source \notin {"adzuna", "board"}
    <3>1. t.phase = "asking" /\ p < t.cursor
      BY <1>2, <1>3, <1>4, <2>1, <2>4
    <3>2. p \notin Newest(site, (t.page - 1) * PageSize)
      BY <1>3, <1>4, <1>5, <2>1, NoPageServes
    <3> QED  BY <1>5, <2>4, <3>1, <3>2 DEF ToCome, Unserved, AllSource
  <2> QED  BY <2>2, <2>3, <2>4
<1>7. Followed(t, source, site)
  BY <1>2, <1>3, <1>6 DEF Followed, Unlost
<1> QED  BY <1>2, <1>7, OneFollows DEF RunInv

-----------------------------------------------------------------------------
(* Requests and answers.                                                   *)

LEMMA ReserveFollows ==
  ASSUME RunInv, WalkInv, NEW w \in Run, Reserve(w)
  PROVE  WalkInv'
<1> DEFINE t == [task[w] EXCEPT !.held = today]
<1>1. task' = [task EXCEPT ![w] = t] /\ UNCHANGED <<source, site>>
  BY DEF Reserve, world
<1>2. task[w] \in TaskState /\ Followed(task[w], source, site)
  BY UnderwayFacts DEF RunInv, WalkInv
<1>3. /\ t.phase = task[w].phase /\ t.stood = task[w].stood /\ t.stopped = task[w].stopped
      /\ t.rejected = task[w].rejected /\ t.unread = task[w].unread
      /\ t.refused = task[w].refused /\ t.fresh = task[w].fresh /\ t.queue = task[w].queue
      /\ t.batch = task[w].batch /\ t.cursor = task[w].cursor /\ t.page = task[w].page
      /\ t.left = task[w].left /\ t.polled = task[w].polled /\ t.more = task[w].more
      /\ t.reached = task[w].reached /\ t.cut = task[w].cut /\ t.moved = task[w].moved
  BY <1>2 DEF TaskState
<1> HIDE DEF t
<1>4. Followed(t, source, site)
  BY <1>2, <1>3, SameFollowed
<1> QED  BY <1>1, <1>4, OneFollows DEF RunInv

LEMMA RetryFollows ==
  ASSUME RunInv, WalkInv, NEW w \in Run, Retry(w)
  PROVE  WalkInv'
<1> DEFINE n == task[w].attempt + 1
           t == [task[w] EXCEPT !.attempt = n]
<1>1. task' = [task EXCEPT ![w] = t] /\ UNCHANGED <<source, site>>
  BY DEF Retry, world
<1>2. task[w] \in TaskState /\ Followed(task[w], source, site)
  BY UnderwayFacts DEF RunInv, WalkInv
<1> HIDE DEF n
<1>3. /\ t.phase = task[w].phase /\ t.stood = task[w].stood /\ t.stopped = task[w].stopped
      /\ t.rejected = task[w].rejected /\ t.unread = task[w].unread
      /\ t.refused = task[w].refused /\ t.fresh = task[w].fresh /\ t.queue = task[w].queue
      /\ t.batch = task[w].batch /\ t.cursor = task[w].cursor /\ t.page = task[w].page
      /\ t.left = task[w].left /\ t.polled = task[w].polled /\ t.more = task[w].more
      /\ t.reached = task[w].reached /\ t.cut = task[w].cut /\ t.moved = task[w].moved
  BY <1>2 DEF TaskState
<1> HIDE DEF t
<1>4. Followed(t, source, site)
  BY <1>2, <1>3, SameFollowed
<1> QED  BY <1>1, <1>4, OneFollows DEF RunInv

LEMMA ReservationRefusedFollows ==
  ASSUME RunInv, WalkInv, NEW w \in Run, ReservationRefused(w)
  PROVE  WalkInv'
<1> DEFINE t == [task[w] EXCEPT !.phase = "storing", !.stopped = TRUE, !.left = {}]
<1>1. /\ task' = [task EXCEPT ![w] = t] /\ UNCHANGED <<source, site>>
      /\ task[w].phase = "asking"
  BY DEF ReservationRefused, world
<1>2. /\ task[w] \in TaskState /\ Followed(task[w], source, site)
      /\ task[w].phase \in Underway
  BY <1>1, UnderwayFacts, PhaseFacts DEF RunInv, WalkInv, Walked
<1>3. t.phase = "storing" /\ t.stopped = TRUE /\ t.stood = task[w].stood
  BY <1>2 DEF TaskState
<1> HIDE DEF t
<1>4. ~Lossless(t)
  BY <1>3 DEF Lossless
<1>5. Followed(t, source, site)
  BY <1>2, <1>3, <1>4, LostFollowed
<1> QED  BY <1>1, <1>5, OneFollows DEF RunInv

LEMMA NextSectionFields ==
  ASSUME NEW t \in TaskState
  PROVE  LET u == NextSection(t)
         IN /\ u.left = t.left \ {Current(t)} /\ u.page = 1 /\ u.cursor = MaxPosting + 1
            /\ u.phase = (IF u.left = {} THEN "storing" ELSE "asking")
            /\ u.batch = {} /\ u.stood = t.stood /\ u.stopped = t.stopped
            /\ u.unread = t.unread /\ u.rejected = t.rejected /\ u.refused = t.refused
            /\ u.fresh = t.fresh /\ u.queue = t.queue /\ u.polled = t.polled
            /\ u.cut = t.cut /\ u.moved = t.moved
<1> DEFINE left == t.left \ {Current(t)}
           phase == IF left = {} THEN "storing" ELSE "asking"
           reached == left = {} /\ source = "board" /\ t.unread = 0
           u == NextSection(t)
<1>1. u = [t EXCEPT !.left = left, !.page = 1, !.cursor = MaxPosting + 1, !.attempt = 1,
             !.held = 0, !.batch = {}, !.more = FALSE,
             !.phase = phase, !.reached = reached]
  BY DEF NextSection
<1>2. phase = IF left = {} THEN "storing" ELSE "asking"
  OBVIOUS
<1> HIDE DEF left, phase, reached, u
<1>3. /\ u.left = left /\ u.page = 1 /\ u.cursor = MaxPosting + 1 /\ u.phase = phase
      /\ u.batch = {} /\ u.stood = t.stood /\ u.stopped = t.stopped
      /\ u.unread = t.unread /\ u.rejected = t.rejected /\ u.refused = t.refused
      /\ u.fresh = t.fresh /\ u.queue = t.queue /\ u.polled = t.polled
      /\ u.cut = t.cut /\ u.moved = t.moved
  BY <1>1, ZenonT(40) DEF TaskState
<1> QED  BY <1>2, <1>3 DEF u, left

\* A board that is skipped is counted.
LEMMA SkippedFollows ==
  ASSUME NEW t \in TaskState, NEW s, NEW listed, Followed(t, s, listed), t.phase \in Underway
  PROVE  Followed(NextSection([t EXCEPT !.unread = @ + 1]), s, listed)
<1> DEFINE n == t.unread + 1
           u == [t EXCEPT !.unread = n]
           v == NextSection(u)
<1>1. n # 0 /\ t.unread \in Nat
  <2>1. t.unread \in Nat
    BY DEF TaskState
  <2> QED  BY <2>1
<1>2. u \in TaskState /\ u.unread = n /\ u.stood = t.stood
  <2>1. n \in Nat
    BY <1>1
  <2> HIDE DEF n
  <2> QED  BY <2>1 DEF TaskState
<1>3. [t EXCEPT !.unread = @ + 1] = u
  OBVIOUS
<1> HIDE DEF u, n
<1>4. v.phase \in {"storing", "asking"} /\ v.stood = t.stood /\ v.unread # 0
  BY <1>1, <1>2, NextSectionFields
<1> HIDE DEF v
<1>5. ~Lossless(v)
  BY <1>4 DEF Lossless
<1>6. Followed(v, s, listed)
  BY <1>4, <1>5, LostFollowed
<1> QED  BY <1>3, <1>6 DEF v

LEMMA FetchFailsFollows ==
  ASSUME RunInv, WalkInv, NEW w \in Run, FetchFails(w)
  PROVE  WalkInv'
<1> DEFINE n == task[w].unread + 1
           ended == [task[w] EXCEPT !.unread = n, !.phase = "storing", !.left = {}, !.held = 0,
                                    !.batch = {}]
<1>1. /\ task[w] \in TaskState /\ Followed(task[w], source, site)
      /\ task[w].phase \in Underway /\ UNCHANGED <<source, site>>
  BY UnderwayFacts, PhaseFacts DEF RunInv, WalkInv, Walked, FetchFails, CanAsk, world
<1>2. CASE source = "board"
  <2> DEFINE t == NextSection([task[w] EXCEPT !.unread = @ + 1])
  <2>1. task' = [task EXCEPT ![w] = t]
    BY <1>2 DEF FetchFails
  <2>2. Followed(t, source, site)
    BY <1>1, SkippedFollows
  <2> HIDE DEF t
  <2> QED  BY <1>1, <2>1, <2>2, OneFollows DEF RunInv
<1>3. CASE source # "board"
  <2>1. task' = [task EXCEPT ![w] = ended]
    BY <1>3 DEF FetchFails
  <2>2. n # 0
    <3>1. task[w].unread \in Nat
      BY <1>1 DEF TaskState
    <3> QED  BY <3>1
  <2> HIDE DEF n
  <2>3. ended.phase = "storing" /\ ended.unread = n /\ ended.stood = task[w].stood
    BY <1>1 DEF TaskState
  <2> HIDE DEF ended
  <2>4. ~Lossless(ended)
    BY <2>2, <2>3 DEF Lossless
  <2>5. Followed(ended, source, site)
    BY <1>1, <2>3, <2>4, LostFollowed
  <2> QED  BY <1>1, <2>1, <2>5, OneFollows DEF RunInv
<1> QED  BY <1>2, <1>3

\* What a page changes of an execution.
PageInHand(t, u, page, more, cursor) ==
  /\ u.batch = page /\ u.more = more /\ u.cursor = cursor /\ u.phase = "preparing"
  /\ u.stood = t.stood /\ u.stopped = t.stopped /\ u.rejected = t.rejected
  /\ u.unread = t.unread /\ u.refused = t.refused /\ u.fresh = t.fresh
  /\ u.queue = t.queue /\ u.page = t.page /\ u.polled = t.polled /\ u.cut = t.cut
  /\ u.moved = t.moved

LEMMA PageReceived ==
  ASSUME RunInv, NEW w \in Run, CanAsk(w), NEW page, NEW more, NEW cursor,
         Receives(w, page, more, cursor)
  PROVE  /\ UNCHANGED <<source, site>> /\ task[w].phase = "asking"
         /\ \E t : /\ task' = [task EXCEPT ![w] = t]
                  /\ PageInHand(task[w], t, page, more, cursor)
<1> DEFINE t == [task[w] EXCEPT !.batch = page, !.more = more, !.cursor = cursor,
                   !.attempt = 1, !.held = 0, !.phase = "preparing"]
<1>1. /\ task' = [task EXCEPT ![w] = t] /\ UNCHANGED <<source, site>>
      /\ task[w].phase = "asking" /\ task[w] \in TaskState
  BY UnderwayFacts DEF RunInv, Receives, CanAsk, world
<1>2. /\ t.batch = page /\ t.more = more /\ t.cursor = cursor /\ t.phase = "preparing"
      /\ t.stood = task[w].stood /\ t.stopped = task[w].stopped
      /\ t.rejected = task[w].rejected /\ t.unread = task[w].unread
      /\ t.refused = task[w].refused /\ t.fresh = task[w].fresh
      /\ t.queue = task[w].queue /\ t.page = task[w].page
      /\ t.polled = task[w].polled /\ t.cut = task[w].cut /\ t.moved = task[w].moved
  BY <1>1, ZenonT(40) DEF TaskState
<1> HIDE DEF t
<1>3. PageInHand(task[w], t, page, more, cursor)
  BY <1>2 DEF PageInHand
<1> QED  BY <1>1, <1>3

\* What was gathered before a page stays so.
LEMMA GatheredKept ==
  ASSUME NEW t, NEW u, NEW p, Gathered(t, p), t.phase = "asking",
         u.phase \in {"asking", "preparing"}, u.fresh = t.fresh, u.queue = t.queue
  PROVE  Gathered(u, p)
BY DEF Gathered

LEMMA RemotiveFollows ==
  ASSUME RunInv, WalkInv, NEW w \in Run, RemotiveAnswer(w)
  PROVE  WalkInv'
<1>1. source = "remotive" /\ CanAsk(w) /\ Receives(w, site, FALSE, task[w].cursor)
  BY DEF RemotiveAnswer, RemotivePage
<1>2. PICK t : /\ task' = [task EXCEPT ![w] = t]
               /\ PageInHand(task[w], t, site, FALSE, task[w].cursor)
  BY <1>1, PageReceived, Zenon
<1>2a. UNCHANGED <<source, site>> /\ task[w].phase = "asking" /\ t.phase = "preparing"
  BY <1>1, <1>2, PageReceived DEF PageInHand
<1>3. \A p \in site : Gathered(t, p)
  BY <1>2, <1>2a DEF Gathered, PageInHand
<1>4. Lossless(t) => Lossless(task[w])
  BY <1>2, <1>2a DEF Lossless, PageInHand
<1>5. Followed(t, source, site)
  BY <1>2, <1>2a, <1>3, <1>4, WalkFollowed DEF WalkInv, Walked, PageInHand
<1> QED  BY <1>2, <1>2a, <1>5, OneFollows DEF RunInv, PageInHand

LEMMA JobicyFollows ==
  ASSUME RunInv, WalkInv, NEW w \in Run, JobicyAnswer(w)
  PROVE  WalkInv'
<1> DEFINE page == JobicyPage
           cut == (page # site)
           t == [task[w] EXCEPT !.batch = page, !.attempt = 1, !.phase = "preparing",
                                !.cut = cut]
<1>1. /\ task' = [task EXCEPT ![w] = t] /\ UNCHANGED <<source, site>> /\ source = "jobicy"
      /\ task[w].phase = "asking" /\ task[w] \in TaskState
  BY UnderwayFacts DEF RunInv, JobicyAnswer, CanAsk, world
<1>2. cut \/ page = site
  OBVIOUS
<1> HIDE DEF cut, page
<1>3. /\ t.batch = page /\ t.cut = cut /\ t.phase = "preparing"
      /\ t.stood = task[w].stood /\ t.stopped = task[w].stopped
      /\ t.rejected = task[w].rejected /\ t.unread = task[w].unread
      /\ t.refused = task[w].refused
  BY <1>1, ZenonT(40) DEF TaskState
<1> HIDE DEF t
<1>4. \A p \in site : Excuse(t, p, source) \/ Gathered(t, p)
  BY <1>1, <1>2, <1>3 DEF Gathered, Excuse
<1>5. Lossless(t) => Lossless(task[w])
  BY <1>3 DEF Lossless
<1>6. Followed(t, source, site)
  BY <1>1, <1>3, <1>4, <1>5, WalkFollowed DEF WalkInv, Walked
<1> QED  BY <1>1, <1>6, OneFollows DEF RunInv

LEMMA ArbeitnowFollows ==
  ASSUME RunInv, WalkInv, NEW w \in Run, ArbeitnowAnswer(w)
  PROVE  WalkInv'
<1> DEFINE n == task[w].page
           page == NumberedPage(site, n)
<1>1. PICK more \in Announces(site \ Newest(site, n * PageSize)) :
        Receives(w, page, more, task[w].cursor)
  BY DEF ArbeitnowAnswer
<1>2. source = "arbeitnow" /\ CanAsk(w) /\ n \in Nat /\ site \in SUBSET Posting
  <2>1. n \in Nat
    BY UnderwayFacts, ConstantsType DEF RunInv, TaskState
  <2> QED  BY <2>1, SiteType DEF ArbeitnowAnswer, RunInv
<1> HIDE DEF n, page
<1>3. PICK t : /\ task' = [task EXCEPT ![w] = t]
               /\ PageInHand(task[w], t, page, more, task[w].cursor)
  BY <1>1, <1>2, PageReceived, Zenon
<1>3a. UNCHANGED <<source, site>> /\ task[w].phase = "asking" /\ t.phase = "preparing"
  BY <1>1, <1>2, <1>3, PageReceived DEF PageInHand
<1>4. ASSUME NEW p \in site,
             Excuse(task[w], p, source) \/ Gathered(task[w], p)
               \/ ToCome(task[w], p, source, site)
      PROVE  Excuse(t, p, source) \/ Gathered(t, p) \/ ToCome(t, p, source, site)
  <2>1. CASE Excuse(task[w], p, source)
    BY <1>3, <1>3a, <2>1, ExcuseKept DEF PageInHand
  <2>2. CASE Gathered(task[w], p)
    BY <1>3, <1>3a, <2>2, GatheredKept DEF PageInHand
  <2>3. CASE ToCome(task[w], p, source, site)
    <3>1. p \notin Newest(site, (n - 1) * PageSize)
      BY <1>2, <1>3, <1>3a, <2>3, Zenon DEF ToCome, Unserved, n, PageInHand
    <3>2. p \in page \/ (more /\ p \notin Newest(site, n * PageSize))
      BY <1>2, <3>1, PageByNumber DEF page
    <3>3. CASE p \in page
      BY <1>3, <1>3a, <3>3 DEF Gathered, PageInHand
    <3>4. CASE more /\ p \notin Newest(site, n * PageSize)
      <4>1. t.page = n
        BY <1>3, <1>3a DEF n, PageInHand
      <4> QED  BY <1>2, <1>3, <1>3a, <3>4, <4>1, Zenon DEF ToCome, StillUnserved, PageInHand
    <3> QED  BY <3>2, <3>3, <3>4
  <2> QED  BY <1>4, <2>1, <2>2, <2>3
<1>5. Lossless(t) => Lossless(task[w])
  BY <1>3, <1>3a DEF Lossless, PageInHand
<1>6. Followed(t, source, site)
  BY <1>3, <1>3a, <1>4, <1>5, WalkFollowed DEF WalkInv, Walked, PageInHand
<1> QED  BY <1>3, <1>3a, <1>6, OneFollows DEF RunInv, PageInHand

LEMMA HimalayasFollows ==
  ASSUME RunInv, WalkInv, NEW w \in Run, HimalayasAnswer(w)
  PROVE  WalkInv'
<1> DEFINE cursor == task[w].cursor
           page == CursorPage(site, cursor)
           after == CursorAfter(cursor, page)
<1>1. PICK more \in Announces(Ahead(site, cursor, page)) : Receives(w, page, more, after)
  BY DEF HimalayasAnswer
<1>2. /\ source = "himalayas" /\ CanAsk(w) /\ cursor \in 1 .. MaxPosting + 1
      /\ site \in SUBSET Posting
  <2>1. cursor \in 1 .. MaxPosting + 1
    BY UnderwayFacts DEF RunInv, TaskState
  <2> QED  BY <2>1, SiteType DEF HimalayasAnswer, RunInv
<1> HIDE DEF cursor, page, after
<1>3. PICK t : /\ task' = [task EXCEPT ![w] = t]
               /\ PageInHand(task[w], t, page, more, after)
  BY <1>1, <1>2, PageReceived, Zenon
<1>3a. UNCHANGED <<source, site>> /\ task[w].phase = "asking" /\ t.phase = "preparing"
  BY <1>1, <1>2, <1>3, PageReceived DEF PageInHand
<1>4. ASSUME NEW p \in site,
             Excuse(task[w], p, source) \/ Gathered(task[w], p)
               \/ ToCome(task[w], p, source, site)
      PROVE  Excuse(t, p, source) \/ Gathered(t, p) \/ ToCome(t, p, source, site)
  <2>1. CASE Excuse(task[w], p, source)
    BY <1>3, <1>3a, <2>1, ExcuseKept DEF PageInHand
  <2>2. CASE Gathered(task[w], p)
    BY <1>3, <1>3a, <2>2, GatheredKept DEF PageInHand
  <2>3. CASE ToCome(task[w], p, source, site)
    <3>1. p < cursor
      BY <1>2, <1>3, <1>3a, <2>3 DEF ToCome, Unserved, cursor, PageInHand
    <3>2. p \in page \/ (more /\ p < after)
      <4>1. more \in Announces(Ahead(site, cursor, CursorPage(site, cursor)))
        BY <1>1 DEF page
      <4> QED  BY <1>2, <3>1, <4>1, PageByCursor DEF page, after
    <3>3. CASE p \in page
      BY <1>3, <1>3a, <3>3 DEF Gathered, PageInHand
    <3>4. CASE more /\ p < after
      BY <1>2, <1>3, <1>3a, <3>4 DEF ToCome, StillUnserved, PageInHand
    <3> QED  BY <3>2, <3>3, <3>4
  <2> QED  BY <1>4, <2>1, <2>2, <2>3
<1>5. Lossless(t) => Lossless(task[w])
  BY <1>3, <1>3a DEF Lossless, PageInHand
<1>6. Followed(t, source, site)
  BY <1>3, <1>3a, <1>4, <1>5, WalkFollowed DEF WalkInv, Walked, PageInHand
<1> QED  BY <1>3, <1>3a, <1>6, OneFollows DEF RunInv, PageInHand

LEMMA AdzunaFollows ==
  ASSUME RunInv, WalkInv, NEW w \in Run, AdzunaAnswer(w)
  PROVE  WalkInv'
<1> DEFINE page == NumberedPage(Listing(task[w]), task[w].page)
           more == Cardinality(page) = PageSize
<1>1. source = "adzuna" /\ CanAsk(w) /\ Receives(w, page, more, task[w].cursor)
  BY DEF AdzunaAnswer
<1> HIDE DEF page, more
<1>2. PICK t : /\ task' = [task EXCEPT ![w] = t]
               /\ PageInHand(task[w], t, page, more, task[w].cursor)
  BY <1>1, PageReceived, Zenon
<1>2a. UNCHANGED <<source, site>> /\ task[w].phase = "asking" /\ t.phase = "preparing"
  BY <1>1, <1>2, PageReceived DEF PageInHand
<1>3. \A p \in site : Excuse(t, p, source)
  BY <1>1 DEF Excuse
<1>4. Lossless(t) => Lossless(task[w])
  BY <1>2, <1>2a DEF Lossless, PageInHand
<1>5. Followed(t, source, site)
  BY <1>2, <1>2a, <1>3, <1>4, WalkFollowed DEF WalkInv, Walked, PageInHand
<1> QED  BY <1>2, <1>2a, <1>5, OneFollows DEF RunInv, PageInHand

LEMMA BoardFollows ==
  ASSUME RunInv, WalkInv, NEW w \in Run, BoardAnswer(w)
  PROVE  WalkInv'
<1> DEFINE cursor == task[w].cursor
           listing == Listing(task[w])
           page == CursorPage(listing, cursor)
           read == task[w].batch \cup page
           after == CursorAfter(cursor, page)
           next == task[w].page + 1
<1>1. /\ source = "board" /\ CanAsk(w) /\ UNCHANGED <<source, site>>
      /\ task[w].phase = "asking" /\ task[w] \in TaskState
      /\ Followed(task[w], source, site)
  BY UnderwayFacts, Zenon DEF RunInv, WalkInv, BoardAnswer, CanAsk, world
<1>2. PICK more \in Announces(Ahead(listing, cursor, page)) :
        \/ /\ more
           /\ task' = [task EXCEPT ![w].batch = read, ![w].attempt = 1, ![w].page = next,
                                   ![w].cursor = after]
        \/ task' = [task EXCEPT ![w] = NextSection([task[w] EXCEPT !.unread = @ + 1])]
        \/ /\ ~more
           /\ \E dropped \in SUBSET read :
                task' = [task EXCEPT ![w].batch = read \ dropped, ![w].attempt = 1,
                           ![w].unread = @ + Cardinality(dropped),
                           ![w].more = FALSE, ![w].phase = "preparing"]
  BY Zenon DEF BoardAnswer
<1>3. /\ cursor \in 1 .. MaxPosting + 1 /\ site \in SUBSET Posting
      /\ listing = {p \in site : SectionOf[p] = Current(task[w])}
      /\ listing \in SUBSET Posting /\ read \in SUBSET Posting /\ task[w].unread \in Nat
  <2>1. /\ cursor \in 1 .. MaxPosting + 1 /\ task[w].batch \in SUBSET Posting
        /\ task[w].unread \in Nat
    BY <1>1 DEF TaskState
  <2>2. site \in SUBSET Posting
    BY SiteType DEF RunInv
  <2>3. listing = {p \in site : SectionOf[p] = Current(task[w])}
    BY <1>1 DEF Listing, Sectioned
  <2>4. page \in SUBSET listing
    BY DEF CursorPage, Newest
  <2> HIDE DEF page, cursor, listing
  <2> QED  BY <2>1, <2>2, <2>3, <2>4
\* Of the board in hand, what stood is read, or on a page after this one.
<1>4. ASSUME NEW p \in site, SectionOf[p] = Current(task[w]),
             p < cursor \/ p \in task[w].batch
      PROVE  p \in read \/ (more /\ p < after)
  <2>1. CASE p \in task[w].batch
    BY <2>1
  <2>2. CASE p < cursor
    <3>1. p \in listing
      BY <1>3, <1>4
    <3>2. more \in Announces(Ahead(listing, cursor, CursorPage(listing, cursor)))
      BY <1>2
    <3> HIDE DEF listing, cursor
    <3>3. p \in page \/ (more /\ p < after)
      BY <1>3, <2>2, <3>1, <3>2, PageByCursor
    <3> QED  BY <3>3
  <2> QED  BY <1>4, <2>1, <2>2
<1> HIDE DEF listing, page, after, cursor
\* What stood is excused, stored or waiting, of a board not in hand, or of this one.
<1>5. ASSUME NEW p \in site,
             Excuse(task[w], p, source) \/ Gathered(task[w], p)
               \/ ToCome(task[w], p, source, site)
      PROVE  \/ Excuse(task[w], p, source) \/ Gathered(task[w], p)
             \/ SectionOf[p] \in task[w].left \ {Current(task[w])}
             \/ SectionOf[p] = Current(task[w]) /\ SectionOf[p] \in task[w].left
                /\ (p \in read \/ (more /\ p < after))
  <2>1. CASE ToCome(task[w], p, source, site)
    <3>1. /\ SectionOf[p] \in task[w].left
          /\ SectionOf[p] = Current(task[w]) => p < cursor \/ p \in task[w].batch
      BY <1>1, <2>1 DEF ToCome, Unserved, cursor
    <3> HIDE DEF read
    <3> QED  BY <1>4, <3>1
  <2> QED  BY <1>5, <2>1
<1>6. ASSUME more,
             task' = [task EXCEPT ![w].batch = read, ![w].attempt = 1, ![w].page = next,
                                  ![w].cursor = after]
      PROVE  WalkInv'
  <2> DEFINE t == [task[w] EXCEPT !.batch = read, !.attempt = 1, !.page = next,
                                  !.cursor = after]
  <2>1. task' = [task EXCEPT ![w] = t]
    BY <1>6
  <2> HIDE DEF read, next
  <2>2. /\ t.batch = read /\ t.cursor = after /\ t.phase = task[w].phase
        /\ t.left = task[w].left
        /\ t.stood = task[w].stood /\ t.stopped = task[w].stopped
        /\ t.rejected = task[w].rejected /\ t.unread = task[w].unread
        /\ t.refused = task[w].refused /\ t.fresh = task[w].fresh
        /\ t.queue = task[w].queue /\ t.polled = task[w].polled /\ t.cut = task[w].cut
        /\ t.moved = task[w].moved
    BY <1>1 DEF TaskState
  <2> HIDE DEF t
  <2>3. ASSUME NEW p \in site,
               Excuse(task[w], p, source) \/ Gathered(task[w], p)
                 \/ ToCome(task[w], p, source, site)
        PROVE  Excuse(t, p, source) \/ Gathered(t, p) \/ ToCome(t, p, source, site)
    <3>1. CASE Excuse(task[w], p, source)
      BY <2>2, <3>1, ExcuseKept
    <3>2. CASE Gathered(task[w], p)
      BY <1>1, <2>2, <3>2, GatheredKept
    <3>3. CASE \/ SectionOf[p] \in task[w].left \ {Current(task[w])}
               \/ SectionOf[p] = Current(task[w]) /\ SectionOf[p] \in task[w].left
                  /\ (p \in read \/ (more /\ p < after))
      <4>1. Current(t) = Current(task[w])
        BY <2>2 DEF Current
      <4>2. SectionOf[p] \in t.left /\ (SectionOf[p] = Current(t) => p < t.cursor \/ p \in t.batch)
        BY <2>2, <3>3, <4>1
      <4>3. t.phase = "asking"
        BY <1>1, <2>2
      <4> QED  BY <1>1, <4>2, <4>3 DEF ToCome, Unserved
    <3> QED  BY <1>5, <2>3, <3>1, <3>2, <3>3
  <2>4. Lossless(t) => Lossless(task[w])
    BY <2>2 DEF Lossless
  <2>5. Followed(t, source, site)
    BY <1>1, <2>2, <2>3, <2>4, WalkFollowed DEF Walked
  <2> QED  BY <1>1, <2>1, <2>5, OneFollows DEF RunInv
<1>7. ASSUME task' = [task EXCEPT ![w] = NextSection([task[w] EXCEPT !.unread = @ + 1])]
      PROVE  WalkInv'
  <2> DEFINE t == NextSection([task[w] EXCEPT !.unread = @ + 1])
  <2>1. task[w].phase \in Underway
    BY <1>1, PhaseFacts DEF Walked
  <2>2. Followed(t, source, site) /\ task' = [task EXCEPT ![w] = t]
    BY <1>1, <1>7, <2>1, SkippedFollows
  <2> HIDE DEF t
  <2> QED  BY <1>1, <2>2, OneFollows DEF RunInv
<1>8. ASSUME ~more, NEW dropped \in SUBSET read,
             task' = [task EXCEPT ![w].batch = read \ dropped, ![w].attempt = 1,
                        ![w].unread = @ + Cardinality(dropped),
                        ![w].more = FALSE, ![w].phase = "preparing"]
      PROVE  WalkInv'
  <2> DEFINE batch == read \ dropped
             unread == task[w].unread + Cardinality(dropped)
             t == [task[w] EXCEPT !.batch = batch, !.attempt = 1, !.unread = unread,
                                  !.more = FALSE, !.phase = "preparing"]
  <2>1. task' = [task EXCEPT ![w] = t]
    BY <1>8
  <2>2. unread = 0 => task[w].unread = 0 /\ batch = read
    <3>1. IsFiniteSet(dropped) /\ Cardinality(dropped) \in Nat
      <4>1. dropped \in SUBSET Posting
        BY <1>3
      <4> QED  BY <4>1, PostingsFinite
    <3>2. Cardinality(dropped) = 0 => dropped = {}
      BY <3>1, FS_EmptySet
    <3> QED  BY <1>3, <3>1, <3>2
  <2> HIDE DEF batch, unread
  <2>3. /\ t.batch = batch /\ t.unread = unread /\ t.phase = "preparing"
        /\ t.left = task[w].left
        /\ t.stood = task[w].stood /\ t.stopped = task[w].stopped
        /\ t.rejected = task[w].rejected
        /\ t.refused = task[w].refused /\ t.fresh = task[w].fresh
        /\ t.queue = task[w].queue /\ t.polled = task[w].polled /\ t.cut = task[w].cut
        /\ t.moved = task[w].moved
    BY <1>1, ZenonT(40) DEF TaskState
  <2> HIDE DEF t
  <2>4. Lossless(t) => Lossless(task[w]) /\ t.batch = read
    BY <2>2, <2>3 DEF Lossless
  <2>5. ASSUME NEW p \in site, Lossless(t),
               Excuse(task[w], p, source) \/ Gathered(task[w], p)
                 \/ ToCome(task[w], p, source, site)
        PROVE  Excuse(t, p, source) \/ Gathered(t, p) \/ ToCome(t, p, source, site)
    <3>1. CASE Excuse(task[w], p, source)
      BY <2>3, <3>1, ExcuseKept
    <3>2. CASE Gathered(task[w], p)
      BY <1>1, <2>3, <3>2, GatheredKept
    <3>3. CASE SectionOf[p] \in task[w].left \ {Current(task[w])}
      <4>1. Current(t) = Current(task[w])
        BY <2>3 DEF Current
      <4> QED  BY <1>1, <2>3, <3>3, <4>1 DEF ToCome, StillUnserved
    <3>4. CASE p \in read
      BY <2>3, <2>4, <2>5, <3>4 DEF Gathered
    <3> QED  BY <1>5, <1>8, <2>5, <3>1, <3>2, <3>3, <3>4
  <2>6. Followed(t, source, site)
    BY <1>1, <2>3, <2>4, <2>5, WalkFollowed DEF Walked
  <2> QED  BY <1>1, <2>1, <2>6, OneFollows DEF RunInv
<1> QED  BY <1>2, <1>6, <1>7, <1>8

-----------------------------------------------------------------------------
(* Preparing and resuming.                                                 *)

LEMMA AppendedQueue ==
  ASSUME NEW q \in Seq(Posting), NEW p \in Posting
  PROVE  InQueue(Append(q, p), p) /\ \A x : InQueue(q, x) => InQueue(Append(q, p), x)
<1>1. Len(Append(q, p)) = Len(q) + 1 /\ Len(q) \in Nat
  BY OneLonger
<1>2. Append(q, p)[Len(q) + 1] = p /\ \A i \in 1 .. Len(q) : Append(q, p)[i] = q[i]
  OBVIOUS
<1> QED  BY <1>1, <1>2 DEF InQueue

LEMMA PrepareFollows ==
  ASSUME RunInv, WalkInv, NEW w \in Run, Prepare(w)
  PROVE  WalkInv'
<1>1. /\ UNCHANGED <<source, site>> /\ task[w].phase = "preparing" /\ task[w] \in TaskState
      /\ Followed(task[w], source, site) /\ task[w].phase \in Underway
  BY UnderwayFacts, PhaseFacts, Zenon DEF RunInv, WalkInv, Prepare, world, Walked
<1>2. /\ task[w].queue \in Seq(Posting) /\ task[w].rejected \in Nat
      /\ task[w].batch \in SUBSET Posting
  BY <1>1 DEF TaskState
<1> DEFINE fetched == task[w].fetched + 1
           rejected == task[w].rejected + 1
           batch(p) == task[w].batch \ {p}
           queue(p) == Append(task[w].queue, p)
<1>3. PICK p \in task[w].batch :
        \/ task' = [task EXCEPT ![w].stopped = TRUE, ![w].batch = {}, ![w].left = {},
                                ![w].phase = "storing"]
        \/ task' = [task EXCEPT ![w].fetched = fetched, ![w].batch = batch(p),
                                ![w].queue = queue(p)]
        \/ task' = [task EXCEPT ![w].fetched = fetched, ![w].batch = batch(p),
                                ![w].rejected = rejected]
  BY Zenon DEF Prepare
<1>4. ASSUME task' = [task EXCEPT ![w].stopped = TRUE, ![w].batch = {}, ![w].left = {},
                                  ![w].phase = "storing"]
      PROVE  WalkInv'
  <2> DEFINE t == [task[w] EXCEPT !.stopped = TRUE, !.batch = {}, !.left = {},
                                  !.phase = "storing"]
  <2>1. task' = [task EXCEPT ![w] = t]
    BY <1>4
  <2>2. t.stopped = TRUE /\ t.phase = "storing" /\ t.stood = task[w].stood
    BY <1>1 DEF TaskState
  <2> HIDE DEF t
  <2>3. ~Lossless(t)
    BY <2>2 DEF Lossless
  <2>4. Followed(t, source, site)
    BY <1>1, <2>2, <2>3, LostFollowed
  <2> QED  BY <1>1, <2>1, <2>4, OneFollows DEF RunInv
<1>5. ASSUME task' = [task EXCEPT ![w].fetched = fetched, ![w].batch = batch(p),
                                  ![w].rejected = rejected]
      PROVE  WalkInv'
  <2> DEFINE t == [task[w] EXCEPT !.fetched = fetched, !.batch = batch(p),
                                  !.rejected = rejected]
  <2>1. task' = [task EXCEPT ![w] = t]
    BY <1>5
  <2>2. rejected # 0
    BY <1>2
  <2> HIDE DEF fetched, batch, rejected
  <2>3. t.rejected = rejected /\ t.phase = "preparing" /\ t.stood = task[w].stood
    BY <1>1 DEF TaskState
  <2> HIDE DEF t
  <2>4. ~Lossless(t)
    BY <2>2, <2>3 DEF Lossless
  <2>5. Followed(t, source, site)
    BY <1>1, <2>3, <2>4, LostFollowed
  <2> QED  BY <1>1, <2>1, <2>5, OneFollows DEF RunInv
<1>6. ASSUME task' = [task EXCEPT ![w].fetched = fetched, ![w].batch = batch(p),
                                  ![w].queue = queue(p)]
      PROVE  WalkInv'
  <2> DEFINE t == [task[w] EXCEPT !.fetched = fetched, !.batch = batch(p), !.queue = queue(p)]
  <2>1. task' = [task EXCEPT ![w] = t]
    BY <1>6
  <2>2. /\ InQueue(queue(p), p) /\ \A x : InQueue(task[w].queue, x) => InQueue(queue(p), x)
        /\ \A x \in task[w].batch : x = p \/ x \in batch(p)
    <3>1. p \in Posting
      BY <1>2, <1>3
    <3> QED  BY <1>2, <3>1, AppendedQueue
  <2> HIDE DEF fetched, batch, queue
  <2>3. /\ t.batch = batch(p) /\ t.queue = queue(p) /\ t.phase = "preparing"
        /\ t.cursor = task[w].cursor /\ t.page = task[w].page /\ t.more = task[w].more
        /\ t.left = task[w].left /\ t.stood = task[w].stood /\ t.stopped = task[w].stopped
        /\ t.rejected = task[w].rejected /\ t.unread = task[w].unread
        /\ t.refused = task[w].refused /\ t.fresh = task[w].fresh
        /\ t.polled = task[w].polled /\ t.cut = task[w].cut /\ t.moved = task[w].moved
    BY <1>1, ZenonT(40) DEF TaskState
  <2> HIDE DEF t
  <2>4. \A x : Excuse(task[w], x, source) => Excuse(t, x, source)
    BY <2>3, ExcuseKept
  <2>5. \A x : Gathered(task[w], x) => Gathered(t, x)
    BY <1>1, <2>2, <2>3 DEF Gathered
  <2>6. \A x : ToCome(task[w], x, source, site) => ToCome(t, x, source, site)
    <3>1. Current(t) = Current(task[w])
      BY <2>3 DEF Current
    <3> QED  BY <1>1, <2>3, <3>1, Zenon DEF ToCome, StillUnserved
  <2>7. Lossless(t) => Lossless(task[w])
    BY <2>3 DEF Lossless
  <2>8. Followed(t, source, site)
    BY <1>1, <2>3, <2>4, <2>5, <2>6, <2>7, WalkFollowed DEF Walked
  <2> QED  BY <1>1, <2>1, <2>8, OneFollows DEF RunInv
<1> QED  BY <1>3, <1>4, <1>5, <1>6

\* Absence means nothing to the windowed source.
LEMMA WindowedFollowed ==
  ASSUME NEW t, NEW u, NEW listed, Followed(t, "adzuna", listed), t.phase \in Underway,
         u.stood = t.stood, u.phase \notin {"opening", "loading"}
  PROVE  Followed(u, "adzuna", listed)
BY DEF Followed, Unlost, Excuse

\* A walk that ends with nothing in hand: what was still to come, it did not reach.
LEMMA WalkEndsFollows ==
  ASSUME RunInv, WalkInv, NEW w \in Run, NEW reached, WalkEnds(w, reached),
         UNCHANGED <<source, site>>, task[w].phase = "preparing", task[w].batch = {},
         reached => \A p : ~StillUnserved(task[w], p, source, site)
  PROVE  WalkInv'
<1> DEFINE t == [task[w] EXCEPT !.phase = "storing", !.left = {}, !.reached = reached]
<1>1. task' = [task EXCEPT ![w] = t] /\ task[w] \in TaskState
  BY UnderwayFacts DEF WalkEnds, RunInv
<1>2. /\ t.phase = "storing" /\ t.reached = reached
      /\ t.stood = task[w].stood /\ t.stopped = task[w].stopped
      /\ t.rejected = task[w].rejected /\ t.unread = task[w].unread
      /\ t.refused = task[w].refused /\ t.fresh = task[w].fresh /\ t.queue = task[w].queue
      /\ t.polled = task[w].polled /\ t.cut = task[w].cut /\ t.moved = task[w].moved
  BY <1>1 DEF TaskState
<1> HIDE DEF t
<1>3. \A p : Excuse(task[w], p, source) => Excuse(t, p, source)
  BY <1>2, ExcuseKept
<1>4. \A p : Gathered(task[w], p) => Gathered(t, p)
  BY <1>2 DEF Gathered
<1>5. \A p : ToCome(task[w], p, source, site) => ToCome(t, p, source, site)
  BY <1>2, Zenon DEF ToCome
<1>6. Lossless(t) => Lossless(task[w])
  BY <1>2 DEF Lossless
<1>7. Followed(t, source, site)
  BY <1>2, <1>3, <1>4, <1>5, <1>6, WalkFollowed DEF WalkInv, Walked
<1> QED  BY <1>1, <1>7, OneFollows DEF RunInv

LEMMA NextPageFollows ==
  ASSUME RunInv, WalkInv, NEW w \in Run, NextPage(w), source \in {"arbeitnow", "himalayas"},
         UNCHANGED <<source, site>>, task[w].phase = "preparing", task[w].batch = {}
  PROVE  WalkInv'
<1> DEFINE n == task[w].page + 1
           t == [task[w] EXCEPT !.phase = "asking", !.page = n]
<1>1. task' = [task EXCEPT ![w] = t] /\ task[w] \in TaskState
  BY UnderwayFacts DEF NextPage, RunInv
<1>2. n - 1 = task[w].page
  <2>1. task[w].page \in Int
    BY <1>1, ConstantsType DEF TaskState
  <2> QED  BY <2>1
<1> HIDE DEF n
<1>3. /\ t.phase = "asking" /\ t.page = n /\ t.cursor = task[w].cursor
      /\ t.stood = task[w].stood /\ t.stopped = task[w].stopped
      /\ t.rejected = task[w].rejected /\ t.unread = task[w].unread
      /\ t.refused = task[w].refused /\ t.fresh = task[w].fresh /\ t.queue = task[w].queue
      /\ t.polled = task[w].polled /\ t.cut = task[w].cut /\ t.moved = task[w].moved
  BY <1>1 DEF TaskState
<1> HIDE DEF t
<1>4. \A p : Excuse(task[w], p, source) => Excuse(t, p, source)
  BY <1>3, ExcuseKept
<1>5. \A p : Gathered(task[w], p) => Gathered(t, p)
  BY <1>3 DEF Gathered
<1>6. ASSUME NEW p, ToCome(task[w], p, source, site)
      PROVE  ToCome(t, p, source, site)
  <2>1. StillUnserved(task[w], p, source, site)
    BY <1>6, Zenon DEF ToCome
  <2>2. Unserved(t, p, source, site)
    BY <1>2, <1>3, <2>1 DEF StillUnserved, Unserved
  <2> QED  BY <1>3, <2>2 DEF ToCome
<1>7. Lossless(t) => Lossless(task[w])
  BY <1>3 DEF Lossless
<1>8. Followed(t, source, site)
  BY <1>3, <1>4, <1>5, <1>6, <1>7, WalkFollowed DEF WalkInv, Walked
<1> QED  BY <1>1, <1>8, OneFollows DEF RunInv

\* After a board that was read the others are still to come.
LEMMA NextBoardFollows ==
  ASSUME RunInv, WalkInv, NEW w \in Run, ResumeBoards(w),
         UNCHANGED <<source, site>>, task[w].phase = "preparing", task[w].batch = {}
  PROVE  WalkInv'
<1> DEFINE t == NextSection(task[w])
<1>1. /\ task' = [task EXCEPT ![w] = t] /\ task[w] \in TaskState /\ source = "board"
      /\ site \in SUBSET Posting
  BY UnderwayFacts, SiteType DEF ResumeBoards, RunInv
<1>2. /\ t.left = task[w].left \ {Current(task[w])} /\ t.cursor = MaxPosting + 1
      /\ t.phase = IF t.left = {} THEN "storing" ELSE "asking"
      /\ t.stood = task[w].stood /\ t.stopped = task[w].stopped
      /\ t.rejected = task[w].rejected /\ t.unread = task[w].unread
      /\ t.refused = task[w].refused /\ t.fresh = task[w].fresh /\ t.queue = task[w].queue
      /\ t.polled = task[w].polled /\ t.cut = task[w].cut /\ t.moved = task[w].moved
  BY <1>1, NextSectionFields
<1> HIDE DEF t
<1>3. \A p : Excuse(task[w], p, source) => Excuse(t, p, source)
  BY <1>2, ExcuseKept
<1>4. \A p : Gathered(task[w], p) => Gathered(t, p)
  BY <1>2 DEF Gathered
<1>5. ASSUME NEW p \in site, ToCome(task[w], p, source, site)
      PROVE  ToCome(t, p, source, site)
  <2>1. SectionOf[p] \in t.left
    BY <1>1, <1>2, <1>5 DEF ToCome, StillUnserved
  <2>2. t.phase = "asking"
    BY <1>2, <2>1
  <2>3. p < t.cursor
    <3>1. p \in Posting
      BY <1>1
    <3> QED  BY <1>2, <3>1, ConstantsType DEF Posting
  <2> QED  BY <1>1, <2>1, <2>2, <2>3 DEF ToCome, Unserved
<1>6. Lossless(t) => Lossless(task[w])
  BY <1>2 DEF Lossless
<1>7. t.phase \in Walked
  BY <1>2 DEF Walked
<1>8. Followed(t, source, site)
  BY <1>2, <1>3, <1>4, <1>5, <1>6, <1>7, WalkFollowed DEF WalkInv, Walked
<1> QED  BY <1>1, <1>8, OneFollows DEF RunInv

LEMMA ResumeFollows ==
  ASSUME RunInv, WalkInv, NEW w \in Run, Resume(w)
  PROVE  WalkInv'
<1>1. /\ UNCHANGED <<source, site>> /\ task[w].phase = "preparing" /\ task[w].batch = {}
      /\ task[w] \in TaskState /\ Followed(task[w], source, site)
      /\ task[w].phase \in Underway
      /\ ResumeSinglePage(w) \/ ResumePages(w) \/ ResumeCountries(w) \/ ResumeBoards(w)
  BY UnderwayFacts, PhaseFacts, Zenon DEF Resume, RunInv, WalkInv, world, Walked
<1>2. CASE ResumeSinglePage(w)
  <2>1. source \in {"remotive", "jobicy"} /\ WalkEnds(w, TRUE)
    BY <1>2 DEF ResumeSinglePage
  <2>2. \A p : ~StillUnserved(task[w], p, source, site)
    BY <2>1 DEF StillUnserved
  <2> QED  BY <1>1, <2>1, <2>2, WalkEndsFollows
<1>3. CASE ResumePages(w)
  <2>1. /\ source \in {"arbeitnow", "himalayas"}
        /\ \/ ~task[w].more /\ WalkEnds(w, TRUE)
           \/ WalkEnds(w, FALSE)
           \/ NextPage(w)
    BY <1>3 DEF ResumePages
  <2>2. CASE ~task[w].more /\ WalkEnds(w, TRUE)
    <3>1. \A p : ~StillUnserved(task[w], p, source, site)
      BY <2>1, <2>2 DEF StillUnserved
    <3> QED  BY <1>1, <2>2, <3>1, WalkEndsFollows
  <2>3. CASE WalkEnds(w, FALSE)
    BY <1>1, <2>3, WalkEndsFollows
  <2>4. CASE NextPage(w)
    BY <1>1, <2>1, <2>4, NextPageFollows
  <2> QED  BY <2>1, <2>2, <2>3, <2>4
<1>4. CASE ResumeCountries(w)
  <2> DEFINE n == task[w].page + 1
             t == [task[w] EXCEPT !.phase = "asking", !.page = n]
             u == NextSection(task[w])
  <2>1. /\ source = "adzuna"
        /\ task' = [task EXCEPT ![w] = t] \/ task' = [task EXCEPT ![w] = u]
    BY <1>4 DEF ResumeCountries, NextPage
  <2> HIDE DEF n
  <2>2. t.phase = "asking" /\ t.stood = task[w].stood
    BY <1>1 DEF TaskState
  <2>3. u.phase \in {"asking", "storing"} /\ u.stood = task[w].stood
    BY <1>1, NextSectionFields
  <2> HIDE DEF t, u
  <2>4. Followed(t, source, site) /\ Followed(u, source, site)
    BY <1>1, <2>1, <2>2, <2>3, WindowedFollowed
  <2> QED  BY <1>1, <2>1, <2>4, OneFollows DEF RunInv
<1>5. CASE ResumeBoards(w)
  BY <1>1, <1>5, NextBoardFollows
<1> QED  BY <1>1, <1>2, <1>3, <1>4, <1>5

-----------------------------------------------------------------------------
(* Storing, concluding, ending.                                            *)

LEMMA ShorterQueue ==
  ASSUME NEW q \in Seq(Posting), q # << >>
  PROVE  /\ Head(q) \in Posting /\ Tail(q) \in Seq(Posting)
         /\ \A x : InQueue(q, x) => x = Head(q) \/ InQueue(Tail(q), x)
<1>1. /\ Len(q) \in Nat /\ Len(q) > 0 /\ Len(Tail(q)) = Len(q) - 1 /\ Head(q) = q[1]
      /\ \A i \in 1 .. Len(q) - 1 : Tail(q)[i] = q[i + 1]
      /\ Head(q) \in Posting /\ Tail(q) \in Seq(Posting)
  OBVIOUS
<1>2. ASSUME NEW x, NEW i \in 1 .. Len(q), q[i] = x, x # Head(q)
      PROVE  InQueue(Tail(q), x)
  <2>1. i # 1
    BY <1>1, <1>2
  <2>2. i - 1 \in 1 .. Len(Tail(q)) /\ i - 1 \in 1 .. Len(q) - 1 /\ (i - 1) + 1 = i
    BY <1>1, <2>1
  <2>3. Tail(q)[i - 1] = x
    BY <1>1, <1>2, <2>2
  <2> QED  BY <2>2, <2>3 DEF InQueue
<1> QED  BY <1>1, <1>2 DEF InQueue

\* A posting stored while an execution is under way is fresh to it.
LEMMA FresherFollowed ==
  ASSUME NEW t \in TaskState, NEW s, NEW listed, Followed(t, s, listed), NEW fresh,
         t.phase \in Underway, s # "adzuna" => t.fresh \subseteq fresh
  PROVE  Followed([t EXCEPT !.fresh = fresh], s, listed)
<1> DEFINE u == [t EXCEPT !.fresh = fresh]
<1>1. /\ u.fresh = fresh /\ u.phase = t.phase /\ u.stood = t.stood /\ u.stopped = t.stopped
      /\ u.rejected = t.rejected /\ u.unread = t.unread /\ u.refused = t.refused
      /\ u.queue = t.queue /\ u.batch = t.batch /\ u.cursor = t.cursor /\ u.page = t.page
      /\ u.left = t.left /\ u.polled = t.polled /\ u.more = t.more
      /\ u.reached = t.reached /\ u.cut = t.cut /\ u.moved = t.moved
  BY ZenonT(40) DEF TaskState
<1> HIDE DEF u
<1>2. Current(u) = Current(t) /\ Lossless(u) = Lossless(t)
  BY <1>1 DEF Current, Lossless
<1>3. CASE t.phase \in {"opening", "loading"}
  BY <1>1, <1>3, Zenon DEF Followed, Unlost, Walked, u
<1>4. CASE t.phase \notin {"opening", "loading"}
  <2>1. CASE s = "adzuna"
    BY <1>1, <1>4, <2>1, WindowedFollowed DEF u
  <2>2. CASE s # "adzuna"
    <3>1. \A p : /\ Excuse(t, p, s) => Excuse(u, p, s)
                 /\ ToCome(t, p, s, listed) => ToCome(u, p, s, listed)
      BY <1>1, <1>2, Zenon DEF Excuse, ToCome, Unserved, StillUnserved
    <3>2. \A p : Gathered(t, p) => Gathered(u, p)
      BY <1>1, <2>2 DEF Gathered
    <3>3. t.phase \in Walked
      BY <1>4, PhaseFacts
    <3> QED  BY <1>1, <1>2, <3>1, <3>2, <3>3, WalkFollowed DEF u
  <2> QED  BY <2>1, <2>2
<1> QED  BY <1>3, <1>4

LEMMA StoreFollows ==
  ASSUME RunInv, WalkInv, NEW w \in Run, Store(w)
  PROVE  WalkInv'
<1> DEFINE p == Head(task[w].queue)
           queue == Tail(task[w].queue)
           stored == task[w].stored + 1
           t == [task[w] EXCEPT !.queue = queue, !.stored = stored]
           next == [task EXCEPT ![w] = t]
           fresh(v) == IF Windowed THEN {} ELSE next[v].fresh \cup {p}
           T(v) == IF task[v].phase \in Underway THEN [next[v] EXCEPT !.fresh = fresh(v)]
                   ELSE next[v]
           refused == next[w].refused + 1
<1>1. /\ task[w].phase = "storing" /\ task[w].queue # << >> /\ UNCHANGED <<source, site>>
      /\ \/ task' = [v \in Run |-> T(v)]
         \/ task' = [next EXCEPT ![w] = [next[w] EXCEPT !.refused = refused]]
  <2>1. [task EXCEPT ![w].queue = Tail(@), ![w].stored = @ + 1] = next
    OBVIOUS
  <2>2. [next EXCEPT ![w].refused = @ + 1]
          = [next EXCEPT ![w] = [next[w] EXCEPT !.refused = refused]]
    OBVIOUS
  <2> DEFINE storing == [task EXCEPT ![w].queue = Tail(@), ![w].stored = @ + 1]
  <2>3. \/ task' = [v \in Run |-> IF task[v].phase \in Underway
                      THEN [storing[v] EXCEPT !.fresh = IF Windowed THEN {} ELSE @ \cup {p}]
                      ELSE storing[v]]
        \/ task' = [storing EXCEPT ![w].refused = @ + 1]
    BY Zenon DEF Store
  <2>4. storing = next
    BY <2>1
  <2>5. task[w].phase = "storing" /\ task[w].queue # << >> /\ UNCHANGED <<source, site>>
    BY DEF Store, world
  <2> HIDE DEF next, storing, p
  <2>6. [v \in Run |-> IF task[v].phase \in Underway
           THEN [next[v] EXCEPT !.fresh = IF Windowed THEN {} ELSE @ \cup {p}]
           ELSE next[v]] = [v \in Run |-> T(v)]
    OBVIOUS
  <2> HIDE DEF T, refused
  <2> QED  BY <2>2, <2>3, <2>4, <2>5, <2>6, Zenon DEF refused
<1>2. /\ \A v \in Run : task[v] \in TaskState /\ Followed(task[v], source, site)
      /\ task \in [Run -> TaskState] /\ task[w].phase \in Underway
      /\ task[w].queue \in Seq(Posting)
  <2>1. \A v \in Run : task[v] \in TaskState /\ Followed(task[v], source, site)
    BY DEF RunInv, Executions, WalkInv
  <2>2. task[w].queue \in Seq(Posting)
    BY <2>1 DEF TaskState
  <2> QED  BY <1>1, <2>1, <2>2, PhaseFacts DEF RunInv, Executions, Walked
<1>3. \A x : InQueue(task[w].queue, x) => x = p \/ InQueue(queue, x)
  BY <1>1, <1>2, ShorterQueue
<1>4. next[w] = t /\ \A v \in Run : v # w => next[v] = task[v]
  BY <1>2
<1>5. /\ t.phase = "storing" /\ t.queue = queue
      /\ t.stood = task[w].stood /\ t.stopped = task[w].stopped
      /\ t.rejected = task[w].rejected /\ t.unread = task[w].unread
      /\ t.refused = task[w].refused /\ t.fresh = task[w].fresh
      /\ t.polled = task[w].polled /\ t.cut = task[w].cut /\ t.moved = task[w].moved
      /\ t.reached = task[w].reached /\ DOMAIN t = DOMAIN task[w]
  <2> HIDE DEF queue, stored
  <2> QED  BY <1>1, <1>2, ZenonT(40) DEF TaskState
<1>5a. "fresh" \in DOMAIN t /\ "refused" \in DOMAIN t /\ task[w].refused \in Nat
  BY <1>2, <1>5 DEF TaskState
<1> HIDE DEF p, queue, stored, t
<1>6. CASE task' = [v \in Run |-> T(v)]
  <2>1. ASSUME NEW v \in Run
        PROVE  Followed(T(v), source, site)
    <3>1. CASE task[v].phase \notin Underway
      <4>1. T(v) = task[v]
        BY <1>2, <1>4, <3>1
      <4> QED  BY <1>2, <4>1
    <3>2. CASE v # w /\ task[v].phase \in Underway
      <4> DEFINE fresher == fresh(v)
      <4>1. T(v) = [task[v] EXCEPT !.fresh = fresher]
        BY <1>4, <3>2
      <4>2. source # "adzuna" => task[v].fresh \subseteq fresher
        BY <1>4, <3>2 DEF Windowed
      <4> HIDE DEF T, fresher
      <4>3. Followed([task[v] EXCEPT !.fresh = fresher], source, site)
        BY <1>2, <3>2, <4>2, FresherFollowed
      <4> QED  BY <4>1, <4>3
    <3>3. CASE v = w
      <4> DEFINE u == [t EXCEPT !.fresh = fresh(w)]
      <4>1. T(v) = u
        BY <1>2, <1>4, <3>3
      <4>2. fresh(w) = IF source = "adzuna" THEN {} ELSE task[w].fresh \cup {p}
        BY <1>4, <1>5 DEF Windowed
      <4> HIDE DEF T, fresh, next
      <4>3. /\ u.fresh = fresh(w) /\ u.phase = "storing" /\ u.queue = queue
            /\ u.stood = task[w].stood /\ u.stopped = task[w].stopped
            /\ u.rejected = task[w].rejected /\ u.unread = task[w].unread
            /\ u.refused = task[w].refused
            /\ u.polled = task[w].polled /\ u.cut = task[w].cut /\ u.moved = task[w].moved
            /\ u.reached = task[w].reached
        BY <1>5, <1>5a
      <4> HIDE DEF u
      <4>4. CASE source = "adzuna"
        BY <1>2, <4>1, <4>3, <4>4, WindowedFollowed
      <4>5. CASE source # "adzuna"
        <5>1. \A x : Excuse(task[w], x, source) => Excuse(u, x, source)
          BY <4>3, ExcuseKept
        <5>2. \A x : Gathered(task[w], x) => Gathered(u, x)
          BY <1>1, <1>3, <4>2, <4>3, <4>5 DEF Gathered
        <5>3. \A x : ToCome(task[w], x, source, site) => ToCome(u, x, source, site)
          BY <1>1, <4>3, Zenon DEF ToCome
        <5>4. Lossless(u) => Lossless(task[w])
          BY <4>3 DEF Lossless
        <5>5. Followed(u, source, site)
          BY <1>1, <1>2, <4>3, <5>1, <5>2, <5>3, <5>4, WalkFollowed DEF Walked
        <5> QED  BY <4>1, <5>5
      <4> QED  BY <4>4, <4>5
    <3> QED  BY <3>1, <3>2, <3>3
  <2> HIDE DEF T
  <2>2. \A v \in Run : Followed(task'[v], source, site)
    BY <1>6, <2>1
  <2> QED  BY <1>1, <2>2 DEF WalkInv
<1>7. CASE task' = [next EXCEPT ![w] = [next[w] EXCEPT !.refused = refused]]
  <2> DEFINE u == [t EXCEPT !.refused = refused]
  <2>1. task' = [task EXCEPT ![w] = u]
    BY <1>4, <1>7
  <2>2. refused # 0
    BY <1>4, <1>5, <1>5a
  <2> HIDE DEF refused, next
  <2>3. u.refused = refused /\ u.phase = "storing" /\ u.stood = task[w].stood
    BY <1>5, <1>5a
  <2> HIDE DEF u
  <2>4. ~Lossless(u)
    BY <2>2, <2>3 DEF Lossless
  <2>5. Followed(u, source, site)
    BY <1>2, <2>3, <2>4, LostFollowed
  <2> QED  BY <1>1, <2>1, <2>5, OneFollows DEF RunInv
<1> QED  BY <1>1, <1>6, <1>7

LEMMA ConcludeFollows ==
  ASSUME RunInv, WalkInv, NEW w \in Run, Summarize(w) \/ Reconcile(w)
  PROVE  WalkInv'
<1> DEFINE exhausted == MayConclude(task[w])
           t == [task[w] EXCEPT !.phase = "reconciling"]
           u == [task[w] EXCEPT !.phase = "closing", !.exhausted = exhausted]
<1>1. /\ task[w] \in TaskState /\ UNCHANGED <<source, site>>
      /\ \/ /\ task' = [task EXCEPT ![w] = t] /\ task[w].phase = "storing"
            /\ task[w].queue = << >>
         \/ task' = [task EXCEPT ![w] = u] /\ task[w].phase = "reconciling"
  BY UnderwayFacts DEF RunInv, Summarize, Reconcile, world
<1>2. Followed(task[w], source, site)
  BY DEF WalkInv
<1> HIDE DEF exhausted
<1>3. /\ t.phase = "reconciling" /\ t.reached = task[w].reached
      /\ t.stood = task[w].stood /\ t.stopped = task[w].stopped
      /\ t.rejected = task[w].rejected /\ t.unread = task[w].unread
      /\ t.refused = task[w].refused /\ t.fresh = task[w].fresh
      /\ t.polled = task[w].polled /\ t.cut = task[w].cut /\ t.moved = task[w].moved
  BY <1>1 DEF TaskState
<1>4. /\ u.phase = "closing" /\ u.reached = task[w].reached
      /\ u.stood = task[w].stood /\ u.stopped = task[w].stopped
      /\ u.rejected = task[w].rejected /\ u.unread = task[w].unread
      /\ u.refused = task[w].refused /\ u.fresh = task[w].fresh
      /\ u.polled = task[w].polled /\ u.cut = task[w].cut /\ u.moved = task[w].moved
  BY <1>1 DEF TaskState
<1> HIDE DEF t, u
<1>5. ASSUME NEW v, v.phase \in {"reconciling", "closing"}, v.reached = task[w].reached,
             v.stood = task[w].stood, v.stopped = task[w].stopped,
             v.rejected = task[w].rejected, v.unread = task[w].unread,
             v.refused = task[w].refused, v.fresh = task[w].fresh,
             v.polled = task[w].polled, v.cut = task[w].cut, v.moved = task[w].moved
      PROVE  Followed(v, source, site)
  <2>1. \A p : Excuse(task[w], p, source) => Excuse(v, p, source)
    BY <1>5, ExcuseKept
  <2>2. \A p : Gathered(task[w], p) => Gathered(v, p)
    <3>1. task[w].queue = << >> => \A p : ~InQueue(task[w].queue, p)
      BY DEF InQueue
    <3> QED  BY <1>1, <1>5, <3>1 DEF Gathered
  <2>3. \A p : ToCome(task[w], p, source, site) => ToCome(v, p, source, site)
    BY <1>1, <1>5, Zenon DEF ToCome
  <2>4. Lossless(v) => Lossless(task[w])
    BY <1>5 DEF Lossless
  <2>5. task[w].phase \in Walked /\ v.phase \in Walked
    BY <1>1, <1>5 DEF Walked
  <2> QED  BY <1>2, <1>5, <2>1, <2>2, <2>3, <2>4, <2>5, WalkFollowed
<1>6. Followed(t, source, site) /\ Followed(u, source, site)
  BY <1>3, <1>4, <1>5
<1> QED  BY <1>1, <1>6, OneFollows DEF RunInv

\* However an execution ends, nothing is asked of its walk any more.
LEMMA EndFollows ==
  ASSUME RunInv, WalkInv, NEW w \in Run,
         PoisonedRaises(w) \/ Complete(w) \/ Raise(w) \/ Cancel(w) \/ Kill(w)
  PROVE  WalkInv'
<1>1. PICK how \in Ended : \E row : task' = [task EXCEPT ![w] = Over(how, row)]
  BY Zenon DEF PoisonedRaises, Complete, Raise, Cancel, Kill, Ended
<1>1a. PICK row : task' = [task EXCEPT ![w] = Over(how, row)]
  BY <1>1
<1>2. UNCHANGED <<source, site>>
  BY DEF PoisonedRaises, Complete, Raise, Cancel, Kill, world
<1> DEFINE t == Over(how, row)
<1>3. t.stood = {} /\ t.phase \notin {"opening", "loading"}
  BY DEF Over, Idle, Ended
<1>4. task' = [task EXCEPT ![w] = t]
  BY <1>1a
<1> HIDE DEF t
<1>5. Followed(t, source, site)
  BY <1>3, NothingStood
<1> QED  BY <1>2, <1>4, <1>5, OneFollows DEF RunInv

-----------------------------------------------------------------------------
(* The listing moves; and every step at once.                              *)

LEMMA PublishFollows ==
  ASSUME RunInv, WalkInv, Publish
  PROVE  WalkInv'
<1>1. /\ newest < PostingsOf[source] /\ site' = site \cup {newest + 1}
      /\ UNCHANGED <<source, task>>
  BY DEF Publish
<1>2. site \in SUBSET Posting /\ newest + 1 \in Posting
  <2>1. newest \in Nat /\ PostingsOf[source] \in 0 .. MaxPosting
    BY ConstantsType DEF RunInv, World
  <2> QED  BY <1>1, <2>1, ConstantsType, SiteType DEF RunInv, Posting
<1>3. ASSUME NEW t \in TaskState, Followed(t, source, site)
      PROVE  Followed(t, source, site')
  <2>1. ASSUME NEW p \in t.stood, t.stood \subseteq site, ToCome(t, p, source, site)
        PROVE  ToCome(t, p, source, site')
    <3>1. t.page * PageSize \in Int /\ (t.page - 1) * PageSize \in Int
      <4>1. t.page \in Int /\ PageSize \in Int
        BY ConstantsType, IngestionRunAssumption DEF TaskState, IngestionRunAssumption
      <4> QED  BY <4>1
    <3>2. \A n \in Int : p \notin Newest(site, n) => p \notin Newest(site', n)
      BY <1>1, <1>2, <2>1, NewerPushesBack
    <3>3. Unserved(t, p, source, site) => Unserved(t, p, source, site')
      BY <3>1, <3>2, Zenon DEF Unserved
    <3>4. StillUnserved(t, p, source, site) => StillUnserved(t, p, source, site')
      BY <3>1, <3>2, Zenon DEF StillUnserved
    <3> QED  BY <2>1, <3>3, <3>4, Zenon DEF ToCome
  <2>2. t.phase \in Underway => t.stood \subseteq site
    BY <1>3, Zenon DEF Followed
  <2>3. Unlost(t, source, site')
    <3>1. SUFFICES ASSUME t.phase \in Walked, Lossless(t), NEW p \in t.stood
                   PROVE  Excuse(t, p, source) \/ Gathered(t, p) \/ ToCome(t, p, source, site')
      BY DEF Unlost
    <3>2. Excuse(t, p, source) \/ Gathered(t, p) \/ ToCome(t, p, source, site)
      BY <1>3, <3>1, Zenon DEF Followed, Unlost
    <3>3. t.stood \subseteq site
      BY <2>2, <3>1, PhaseFacts
    <3> QED  BY <2>1, <3>2, <3>3
  <2>4. t.phase \in Underway => t.stood \subseteq site'
    BY <1>1, <2>2
  <2> QED  BY <1>3, <2>3, <2>4, Zenon DEF Followed
<1>4. \A v \in Run : Followed(task[v], source, site')
  BY <1>3, UnderwayFacts DEF RunInv, WalkInv
<1> QED  BY <1>1, <1>4 DEF WalkInv

LEMMA CloseThereFollows ==
  ASSUME RunInv, WalkInv, NEW p \in Posting, CloseThere(p)
  PROVE  WalkInv'
<1> DEFINE T(v) == IF task[v].phase \in Underway
                   THEN [task[v] EXCEPT !.stood = @ \ {p}, !.moved = ByNumber]
                   ELSE task[v]
<1>1. /\ task' = [v \in Run |-> T(v)] /\ site' = site \ {p} /\ UNCHANGED source
  BY DEF CloseThere
<1>2. ASSUME NEW t \in TaskState, Followed(t, source, site), t.phase \in Underway
      PROVE  Followed([t EXCEPT !.stood = @ \ {p}, !.moved = ByNumber], source, site')
  <2> DEFINE stood == t.stood \ {p}
             moved == ByNumber
             u == [t EXCEPT !.stood = stood, !.moved = moved]
  <2>1. moved <=> source = "arbeitnow"
    BY DEF ByNumber
  <2>2. t.stood \subseteq site /\ stood \subseteq site' /\ stood \subseteq t.stood
    <3>1. t.stood \subseteq site
      BY <1>2, Zenon DEF Followed
    <3> QED  BY <1>1, <3>1
  <2> HIDE DEF stood, moved
  <2>3. /\ u.stood = stood /\ u.moved = moved /\ u.fresh = t.fresh /\ u.phase = t.phase
        /\ u.stopped = t.stopped
        /\ u.rejected = t.rejected /\ u.unread = t.unread /\ u.refused = t.refused
        /\ u.queue = t.queue /\ u.batch = t.batch /\ u.cursor = t.cursor /\ u.page = t.page
        /\ u.left = t.left /\ u.polled = t.polled /\ u.more = t.more
        /\ u.reached = t.reached /\ u.cut = t.cut
    BY <1>2, ZenonT(40) DEF TaskState
  <2>4. [t EXCEPT !.stood = @ \ {p}, !.moved = ByNumber] = u
    BY DEF stood, moved
  <2> HIDE DEF u
  <2>5. Current(u) = Current(t) /\ Lossless(u) = Lossless(t)
    BY <2>3 DEF Current, Lossless
  <2>6. \A x : Gathered(t, x) => Gathered(u, x)
    BY <2>3, Zenon DEF Gathered
  <2>7. CASE source = "arbeitnow"
    <3>1. \A x : Excuse(u, x, source)
      BY <2>1, <2>3, <2>7 DEF Excuse
    <3>2. Unlost(u, source, site')
      BY <3>1, Zenon DEF Unlost
    <3> QED  BY <1>2, <2>2, <2>3, <2>4, <3>2, Zenon DEF Followed
  <2>8. CASE source # "arbeitnow"
    <3>1. \A x : Excuse(t, x, source) => Excuse(u, x, source)
      BY <2>3, <2>8, Zenon DEF Excuse
    <3>2. \A x : ToCome(t, x, source, site) => ToCome(u, x, source, site')
      BY <2>3, <2>5, <2>8, Zenon DEF ToCome, Unserved, StillUnserved
    <3>3. Unlost(u, source, site')
      <4>1. SUFFICES ASSUME u.phase \in Walked, Lossless(u), NEW x \in u.stood
                     PROVE  Excuse(u, x, source) \/ Gathered(u, x) \/ ToCome(u, x, source, site')
        BY DEF Unlost
      <4>2. Excuse(t, x, source) \/ Gathered(t, x) \/ ToCome(t, x, source, site)
        <5>1. x \in t.stood /\ t.phase \in Walked /\ Lossless(t)
          BY <2>2, <2>3, <2>5, <4>1
        <5> QED  BY <1>2, <5>1, Zenon DEF Followed, Unlost
      <4> QED  BY <2>6, <3>1, <3>2, <4>2
    <3> QED  BY <1>2, <2>2, <2>3, <2>4, <3>3, Zenon DEF Followed
  <2> QED  BY <2>7, <2>8
<1>3. ASSUME NEW v \in Run, task[v].phase \notin Underway
      PROVE  Followed(task[v], source, site')
  BY <1>3, PhaseFacts DEF Followed, Unlost
<1>4. ASSUME NEW v \in Run
      PROVE  Followed(T(v), source, site')
  <2>1. task[v] \in TaskState /\ Followed(task[v], source, site)
    BY UnderwayFacts DEF RunInv, WalkInv
  <2>2. CASE task[v].phase \in Underway
    BY <1>2, <2>1, <2>2
  <2>3. CASE task[v].phase \notin Underway
    BY <1>3, <2>3
  <2> QED  BY <2>2, <2>3
<1> HIDE DEF T
<1>5. \A v \in Run : Followed(task'[v], source, site')
  BY <1>1, <1>4
<1> QED  BY <1>1, <1>5 DEF WalkInv

\* Nothing of the walk changes.
LEMMA StillFollows ==
  ASSUME WalkInv, UNCHANGED <<source, site, task>>
  PROVE  WalkInv'
BY DEF WalkInv

LEMMA StepFollows ==
  ASSUME RunInv, WalkInv, NEW w \in Run, Step(w)
  PROVE  WalkInv'
<1>1. CASE Ask(w)
  BY <1>1, ReserveFollows, ReservationRefusedFollows, RetryFollows, FetchFailsFollows DEF Ask
<1>2. CASE Answer(w)
  BY <1>2, RemotiveFollows, JobicyFollows, ArbeitnowFollows, HimalayasFollows, AdzunaFollows,
     BoardFollows DEF Answer
<1>3. CASE OpenRow(w) \/ LoadVocabulary(w) \/ Prepare(w) \/ Resume(w) \/ Store(w)
  BY <1>3, OpenRowFollows, LoadVocabularyFollows, PrepareFollows, ResumeFollows, StoreFollows
<1>4. CASE PoisonedRaises(w) \/ Summarize(w) \/ Reconcile(w) \/ Complete(w)
  BY <1>4, ConcludeFollows, EndFollows
<1> QED  BY <1>1, <1>2, <1>3, <1>4 DEF Step

LEMMA WalkInvKept == RunInv /\ WalkInv /\ [Next]_vars => WalkInv'
<1> SUFFICES ASSUME RunInv, WalkInv, [Next]_vars
             PROVE  WalkInv'
  OBVIOUS
<1>1. CASE Publish
  BY <1>1, PublishFollows
<1>2. ASSUME NEW p \in Posting, CloseThere(p)
      PROVE  WalkInv'
  BY <1>2, CloseThereFollows
<1>3. CASE NextDay
  BY <1>3, StillFollows DEF NextDay
<1>4. ASSUME NEW w \in Run, BeginFeed(w) \/ BeginBoards(w) \/ BeginKeyed(w)
      PROVE  WalkInv'
  BY <1>4, BeginFollows
<1>5. ASSUME NEW w \in Run, Step(w)
      PROVE  WalkInv'
  BY <1>5, StepFollows
<1>6. ASSUME NEW w \in Run, Raise(w) \/ Cancel(w) \/ Kill(w)
      PROVE  WalkInv'
  BY <1>6, EndFollows
<1>7. CASE UNCHANGED vars
  BY <1>7, StillFollows DEF vars
<1> QED  BY <1>1, <1>2, <1>3, <1>4, <1>5, <1>6, <1>7 DEF Next

LEMMA WalkInvHolds == Spec => [](RunInv /\ WalkInv)
<1>1. Init => WalkInv
  <2> SUFFICES ASSUME Init
               PROVE  WalkInv
    OBVIOUS
  <2>1. Idle.stood = {} /\ Idle.phase \notin {"opening", "loading"}
    BY DEF Idle
  <2>2. \A w \in Run : task[w] = Idle
    BY DEF Init
  <2> QED  BY <2>1, <2>2, NothingStood DEF WalkInv
<1> QED  BY <1>1, InitHolds, RunInvKept, WalkInvKept, PTL DEF Spec

\* What a reconciliation takes the row of was not seen since, by a run that lost nothing and
\* whose walk reached the end; or the source states a lifetime.
LEMMA TakenIsUnseen ==
  ASSUME Executions, NEW w \in Run, Reconcile(w), NEW p \in live \ live', source # "adzuna"
  PROVE  p \notin task[w].fresh /\ task[w].reached /\ Lossless(task[w])
<1>1. p \in Unseen(task[w])
  BY DEF Reconcile
<1>2. MayConclude(task[w]) /\ p \notin task[w].fresh
  BY <1>1, Zenon DEF Unseen, MayAgeOut
<1>3. task[w].reached /\ ~task[w].stopped /\ Failures(task[w]) = 0
  BY <1>2 DEF MayConclude, SourceExhausted, ProcessingComplete
<1>4. task[w].rejected \in Nat /\ task[w].unread \in Nat /\ task[w].refused \in Nat
  BY UnderwayFacts DEF TaskState
<1>5. task[w].rejected = 0 /\ task[w].unread = 0 /\ task[w].refused = 0
  BY <1>3, <1>4 DEF Failures
<1> QED  BY <1>2, <1>3, <1>5 DEF Lossless

\* Absence is evidence for every provider, page size, budget and number of overlapping runs:
\* however the listing moves and the walk fails, a reconciliation takes no live row of a
\* posting that stood throughout, save for the reasons Excused names (contracts.py:
\* source_exhausted; reconciliation.py: why_not).
THEOREM OnlyTheAbsentAreTaken == Spec => AbsenceIsEvidence
<1>1. RunInv /\ WalkInv /\ [Next]_vars =>
        [\A w \in Run : Reconcile(w) =>
           \A p \in (live \ live') \cap task[w].stood : Excused(task[w], p)]_vars
  <2> SUFFICES ASSUME RunInv, WalkInv, NEW w \in Run, Reconcile(w),
                      NEW p \in (live \ live') \cap task[w].stood
               PROVE  Excused(task[w], p)
    OBVIOUS
  <2>1. CASE source = "adzuna"
    BY <2>1 DEF Excused
  <2>2. CASE source # "adzuna"
    <3>1. /\ p \notin task[w].fresh /\ task[w].reached /\ Lossless(task[w])
          /\ task[w].phase = "reconciling"
      BY <2>2, TakenIsUnseen DEF RunInv, Reconcile
    <3>2. \/ Excuse(task[w], p, source) \/ Gathered(task[w], p)
          \/ ToCome(task[w], p, source, site)
      BY <3>1 DEF WalkInv, Followed, Unlost, Walked
    <3>3. ~Gathered(task[w], p) /\ ~ToCome(task[w], p, source, site)
      BY <3>1, Zenon DEF Gathered, ToCome
    <3>4. Excuse(task[w], p, source)
      BY <3>2, <3>3
    <3> QED  BY <3>4 DEF Excuse, Excused
  <2> QED  BY <2>1, <2>2
<1> QED  BY <1>1, WalkInvHolds, PTL DEF Spec, AbsenceIsEvidence
===============================================================================
