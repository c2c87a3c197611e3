----------------------------- MODULE MCCatalogue -----------------------------
(* Small instances of Catalogue: a board and an aggregator that both list one opening. *)
EXTENDS Catalogue, TLC

CONSTANTS board, aggregator, b1, b2, a1, p1, p2

MCSourceOf == [r \in Record |-> IF r = a1 THEN aggregator ELSE board]
MCPostingOf == [r \in Record |-> IF r \in {b1, b2, a1} THEN p1 ELSE p2]

JobSymmetry == Permutations(Job)
RecordSymmetry == Permutations(Job) \cup Permutations({b1, b2})

(* Every catalogue that can be found between two runs, all of it older than the clock:     *)
(* each row names a job of its opening, each job some row, and a job's status is any that  *)
(* its rows allow (expired jobs are left alone by runs; overlapping runs can leave a job   *)
(* expired that nobody lists).                                                             *)
AgedRow == {AbsentRow} \cup [state : {"live", "retired"}, job : Job, seen : {0}]

AgedJobs ==
  {f \in [Job -> [status : JobStatus \cup {"absent"}, posting : Posting \cup {NoPosting},
                  changed : {0}, stripped : {FALSE}]] :
     \A j \in Job :
       /\ f[j].status = "absent" <=> f[j].posting = NoPosting
       /\ f[j].status = "absent" <=> RowsOf(j) = {}
       /\ \A r \in RowsOf(j) : f[j].posting = PostingOf[r]
       /\ f[j].status = "active" => LiveRowsOf(j) # {}
       /\ f[j].status = "removed" => LiveRowsOf(j) = {}
       /\ f[j].status = "expired" /\ ~Overlap => LiveRowsOf(j) # {}}

AgedInit ==
  /\ prov \in [Record -> AgedRow]
  /\ jobs \in AgedJobs
  /\ listed = [s \in Source |-> RecordsOf(s)]
  /\ run = [s \in Source |-> IdleRun]
  /\ txn = [s \in Source |-> NoTxn]
  /\ sweep = IdleSweep
  /\ now = 1
  /\ settled = FALSE

AgedSpec == AgedInit /\ [][Next]_vars

(* The same with sources whose listing, whatever it is, does not move during the instance. *)
(* A walk can still come back with any part of it.  The board has one record of the opening.*)
StillInit ==
  /\ listed \in [Source -> SUBSET Record] /\ \A s \in Source : listed[s] \subseteq RecordsOf(s)
  /\ b2 \notin listed[board]
  /\ prov \in [Record -> AgedRow] /\ prov[b2] = AbsentRow
  /\ jobs \in AgedJobs
  /\ run = [s \in Source |-> IdleRun]
  /\ txn = [s \in Source |-> NoTxn]
  /\ sweep = IdleSweep
  /\ now = 1
  /\ settled = FALSE

(* Two runs that raced left two jobs of one opening; the board lists it under a second     *)
(* record, beside the first one or in its place.                                           *)
DuplicatedInit ==
  /\ listed \in [Source -> SUBSET Record] /\ \A s \in Source : listed[s] \subseteq RecordsOf(s)
  /\ b2 \in listed[board]
  /\ \E i, j \in Job : i # j /\ prov = (b1 :> [state |-> "live", job |-> i, seen |-> 0]
                                        @@ a1 :> [state |-> "live", job |-> j, seen |-> 0]
                                        @@ b2 :> AbsentRow)
  /\ jobs \in AgedJobs /\ \A j \in Job : jobs[j].status = "active"
  /\ run = [s \in Source |-> IdleRun]
  /\ txn = [s \in Source |-> NoTxn]
  /\ sweep = IdleSweep
  /\ now = 1
  /\ settled = FALSE

(* Everything but the sources' moving.                                                     *)
StillNext ==
  \/ Tick \/ Settle
  \/ \E s \in Source : StartRun(s) \/ RunStep(s) \/ Crash(s)
  \/ SweepStart \/ SweepStep \/ SweepCrash
  \/ Expire

StillSpec == (StillInit \/ DuplicatedInit) /\ [][StillNext]_vars

(* What runs that overlapped can have left behind, and the sources' listing, whatever it    *)
(* is, that every later run meets: a job removed with a live row, one active with none, two *)
(* jobs of one opening.  The board may list the opening under a second record the catalogue *)
(* has not seen, beside the first or in its place, while two jobs of it are stored.         *)
LeftJobs ==
  {f \in [Job -> [status : {"active", "removed", "absent"}, posting : Posting \cup {NoPosting},
                  changed : {0}, stripped : {FALSE}]] :
     \A j \in Job :
       /\ f[j].status = "absent" <=> f[j].posting = NoPosting
       /\ f[j].status = "absent" <=> RowsOf(j) = {}
       /\ \A r \in RowsOf(j) : f[j].posting = PostingOf[r]}

LeftInit ==
  /\ listed \in [Source -> SUBSET Record] /\ \A s \in Source : listed[s] \subseteq RecordsOf(s)
  /\ prov \in [Record -> AgedRow] /\ prov[b2] = AbsentRow
  /\ prov[b1].job \in {NoJob, CHOOSE j \in Job : TRUE}
  /\ \/ prov[b1].state # "absent" /\ prov[a1].state = "live"
     \/ \A r \in Record : prov[r].state = "absent"
  /\ jobs \in LeftJobs
  /\ b2 \in listed[board] => prov[b1].state = "live" /\ \A j \in Job : Stored(j)
  /\ run = [s \in Source |-> IdleRun]
  /\ txn = [s \in Source |-> NoTxn]
  /\ sweep = IdleSweep
  /\ now = 1
  /\ settled = TRUE

LeftFairSpec == LeftInit /\ [][Next]_vars /\ Fairness

=============================================================================
