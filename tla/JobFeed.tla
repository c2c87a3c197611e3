-------------------------------- MODULE JobFeed --------------------------------
(***************************************************************************)
(* The public listing and the reader who scrolls it: list_jobs pages the   *)
(* catalogue by the sort key of the last row seen (queries.py), and the    *)
(* browser's JobList accumulates the batches (job-list.tsx) while          *)
(* ingestion, reconciliation and retention go on changing the catalogue.   *)
(*                                                                         *)
(* A job is its identifier; of its row the status, what the reader's       *)
(* filters look at, and published_at are kept.  A load is sent, read by    *)
(* one statement, and delivered, or fails.  Two events before a render     *)
(* send the same load twice.                                               *)
(***************************************************************************)
EXTENDS Integers, FiniteSets

CONSTANTS
  Job,         \* the identifiers, ordered
  MaxDate,     \* published_at is 1 .. MaxDate, or 0 where nobody stated one
  PageSize,    \* how many jobs a batch has
  MaxLoads     \* bound: the loads under way at once

ASSUME FeedAssumption ==
  /\ Job \subseteq Nat /\ IsFiniteSet(Job) /\ MaxDate \in Nat /\ PageSize \in Nat \ {0}
  /\ MaxLoads \in Nat

VARIABLES
  catalogue,  \* the rows
  mounted,    \* whether the first batch was rendered
  jobs,       \* the jobs on the reader's list
  cursor,     \* where the next batch begins
  loading,    \* what the button and the observer see
  loads,      \* the requests under way
  steady,     \* ghost: the jobs whose row kept its place in the listing since the first batch
  moved       \* ghost: those whose date changed since, and all once a load was sent twice

reader == <<mounted, jobs, cursor, loading, loads>>
vars == <<catalogue, reader, steady, moved>>

Date == 0 .. MaxDate

\* A row: whether it is active and passes the filters, and its date.
Row == [listed : BOOLEAN, date : Date]

\* A position is the sort key of a row; before the first one nothing was read.
Position == [date : Date, id : Job]
Start == [at |-> "start"]
End == [at |-> "end"]
Cursor == Position \cup {Start, End}
At(j) == [date |-> catalogue[j].date, id |-> j]

-----------------------------------------------------------------------------
(* queries.py                                                              *)

\* published_at DESC NULLS LAST, id DESC: the order of the listing.
Precedes(p, q) ==
  \/ p.date # 0 /\ (q.date = 0 \/ p.date > q.date)
  \/ p.date = q.date /\ p.id > q.id

\* slip: the undated tail is left out of what follows a date
AfterDated(p, q) ==
  IF q.date = 0 THEN p.date = 0 /\ p.id < q.id
  ELSE p.date # 0 /\ (p.date < q.date \/ (p.date = q.date /\ p.id < q.id))

\* slip: the row the cursor names is read again
AfterOrAt(p, q) ==
  IF q.date = 0 THEN p.date = 0 /\ p.id <= q.id
  ELSE p.date = 0 \/ p.date < q.date \/ (p.date = q.date /\ p.id <= q.id)

\* The rows strictly after a position.
After(p, q) ==
  IF q.date = 0 THEN p.date = 0 /\ p.id < q.id
  ELSE p.date = 0 \/ p.date < q.date \/ (p.date = q.date /\ p.id < q.id)

\* The listable rows after a cursor.
Rest(c) == {j \in Job : catalogue[j].listed /\ (c = Start \/ After(At(j), c))}

\* The first of them, one batch.
Batch(c) == {j \in Rest(c) : Cardinality({k \in Rest(c) : Precedes(At(k), At(j))}) < PageSize}

\* One row beyond the batch tells whether there is another; the cursor is the last row's key.
NextCursor(c) ==
  IF Cardinality(Rest(c)) <= PageSize THEN End
  ELSE At(CHOOSE j \in Batch(c) : \A k \in Batch(c) : k = j \/ Precedes(At(k), At(j)))

-----------------------------------------------------------------------------
(* The catalogue.                                                          *)

\* A run, a reconciliation or retention changes the row of one job; one that appears is new.
Change(j) ==
  /\ \E row \in Row :
       /\ row # catalogue[j]
       /\ catalogue' = [catalogue EXCEPT ![j] = row]
       /\ steady' = IF mounted THEN steady \ {j} ELSE steady
       /\ moved' = IF mounted /\ row.date # catalogue[j].date THEN moved \cup {j} ELSE moved
  /\ UNCHANGED reader

-----------------------------------------------------------------------------
(* job-list.tsx                                                            *)

\* A load, sent, and then read.
Sent(c, n) == [at |-> "sent", cursor |-> c, items |-> {}, next |-> End, copy |-> n]
Load == [at : {"sent", "read"}, cursor : Cursor, items : SUBSET Job, next : Cursor,
         copy : 1 .. MaxLoads]

\* The server renders the first batch.
Mount ==
  /\ ~mounted /\ mounted' = TRUE
  /\ jobs' = Batch(Start) /\ cursor' = NextCursor(Start)
  /\ steady' = {j \in Job : catalogue[j].listed} /\ moved' = {}
  /\ UNCHANGED <<catalogue, loading, loads>>

\* loadMore, by the button or the observer, once or, before a render, twice.
LoadMore ==
  /\ mounted /\ cursor # End /\ ~loading /\ loading' = TRUE
  /\ LET free == (1 .. MaxLoads) \ {load.copy : load \in loads} IN
     \E copies \in SUBSET free :
       /\ copies # {} /\ \A n \in copies, m \in free \ copies : n < m
       /\ loads' = loads \cup {Sent(cursor, n) : n \in copies}
       /\ moved' = IF \E n, m \in copies : n # m THEN Job ELSE moved
  /\ UNCHANGED <<catalogue, mounted, jobs, cursor, steady>>

ReadBatch(load) ==
  /\ load.at = "sent"
  /\ loads' = (loads \ {load}) \cup
       {[load EXCEPT !.at = "read", !.items = Batch(load.cursor), !.next = NextCursor(load.cursor)]}
  /\ UNCHANGED <<catalogue, mounted, jobs, cursor, loading, steady, moved>>

\* What is on the list already is not added again.
Listed(load) == jobs \cup load.items

Deliver(load) ==
  /\ load.at = "read"
  /\ jobs' = Listed(load) /\ cursor' = load.next
  /\ loading' = FALSE /\ loads' = loads \ {load}
  /\ UNCHANGED <<catalogue, mounted, steady, moved>>

\* The cursor is kept, to try again.
LoadFails(load) ==
  /\ loading' = FALSE /\ loads' = loads \ {load}
  /\ UNCHANGED <<catalogue, mounted, jobs, cursor, steady, moved>>

-----------------------------------------------------------------------------
Init ==
  /\ catalogue \in [Job -> Row]
  /\ mounted = FALSE /\ jobs = {} /\ cursor = Start /\ loading = FALSE
  /\ loads = {} /\ steady = {} /\ moved = {}

Next ==
  \/ \E j \in Job : Change(j)
  \/ Mount
  \/ LoadMore
  \/ \E load \in loads : ReadBatch(load) \/ Deliver(load) \/ LoadFails(load)

\* The reader goes on scrolling, and of those asked for again and again some batch is read and
\* some arrives.
Spec ==
  /\ Init /\ [][Next]_vars /\ WF_vars(Mount) /\ WF_vars(LoadMore)
  /\ SF_vars(\E load \in loads : ReadBatch(load)) /\ SF_vars(\E load \in loads : Deliver(load))

-----------------------------------------------------------------------------
(* Properties.                                                             *)

\* Rows, cursors, the list and the loads keep the type the query and the component give them.
TypeOK ==
  /\ catalogue \in [Job -> Row] /\ mounted \in BOOLEAN /\ jobs \subseteq Job
  /\ cursor \in Cursor /\ loading \in BOOLEAN /\ loads \subseteq Load
  /\ steady \subseteq Job /\ moved \subseteq Job

\* A list that says it is complete has every job that kept its place since the first batch,
\* whatever was inserted, closed or re-dated around it and whichever load arrived last.
NoneSkipped == mounted /\ cursor = End => steady \subseteq jobs

\* A job is served to the scroll again only if its date changed, or a load was sent twice.
ServedOnce ==
  \A load \in loads : load.at = "read" => load.items \cap jobs \subseteq moved

\* However the rows of finitely many jobs are listed, closed and re-dated around the cursor, a
\* reader who goes on scrolling reaches an end (after, list_jobs).
ScrollEnds == <>(mounted /\ cursor = End)

===============================================================================
