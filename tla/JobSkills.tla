------------------------------- MODULE JobSkills -------------------------------
(***************************************************************************)
(* The skills of one job: every run of every source that meets the posting *)
(* replaces them by what the stored text says under the vocabulary the run *)
(* loaded when it began (skills.py, pipeline.py::enrich), the backend      *)
(* publishes new vocabularies meanwhile (skills/loading.py), and a         *)
(* candidate's request ranks the job by them (matching/service.py).        *)
(*                                                                         *)
(* Transactions are read committed: a statement sees what was committed    *)
(* when it began, waits for rows another transaction is changing, and      *)
(* fails on a key another one holds.  A text is the set of its forms.  The *)
(* observations of forms that resolve to nothing are left out: they are    *)
(* written by the same savepoint and nothing is matched against them.      *)
(***************************************************************************)
EXTENDS Integers, FiniteSets

CONSTANTS
  Run,         \* the sources whose runs list the posting
  Concept,     \* the canonical skills
  Form,        \* the spellings
  Newest,      \* how many alias versions are published in the end
  Names,       \* Names[v][f]: the concepts alias version v gives for a form
  Text,        \* the descriptions the posting has in one account or another
  Candidate,   \* the concepts of the candidate's profile
  MinimumRankable,  \* how many of them a ranking needs
  MaxEdits,    \* bound: changes of the description
  MaxFailures  \* bound: extractions that fail and processes that die

Version == 1 .. Newest

ASSUME SkillsAssumption ==
  /\ Newest \in Nat \ {0} /\ Names \in [Version -> [Form -> SUBSET Concept]]
  /\ Text \subseteq SUBSET Form /\ Candidate \subseteq Concept
  /\ MinimumRankable \in Nat /\ MaxEdits \in Nat /\ MaxFailures \in Nat

VARIABLES
  text,       \* the job's description
  skills,     \* its rows of job_skills
  published,  \* the newest alias version
  task,       \* where each source's run is with the posting
  request,    \* the candidate's request
  edits, failures,
  mixed       \* ghost: the rows were replaced while another run was replacing them

vars == <<text, skills, published, task, request, edits, failures, mixed>>

JobSkill == [concept : Concept, version : Version]

\* load_skill_vocabulary: a form that names several concepts is recognised and stands for none.
Terms(v) == [f \in Form |-> IF Cardinality(Names[v][f]) = 1 THEN Names[v][f] ELSE {}]

\* extract_mentions: the forms of the text that the vocabulary resolves.
Mentions(t, v) == {f \in t : Terms(v)[f] # {}}

\* plan_skills: what they stand for, each concept once.
Plan(t, v) == UNION {Terms(v)[f] : f \in Mentions(t, v)}
Rows(t, v) == {[concept |-> c, version |-> v] : c \in Plan(t, v)}

Concepts(rows) == {row.concept : row \in rows}

\* A run that is not at the posting holds nothing; one that is, has in its transaction the
\* description it wrote, the text it read, the rows its DELETE saw and deleted, and those it
\* inserted.  `disturbed`, a ghost: another run committed since the DELETE began.
Resting == [at |-> "resting"]
Loaded(v) ==
  [at |-> "loaded", version |-> v, wrote |-> {}, read |-> {}, seen |-> {}, deleted |-> {},
   inserted |-> {}, disturbed |-> FALSE]
Task == {Resting} \cup
  [at : {"loaded", "stored", "read", "deleting", "deleted", "extracted", "kept"},
   version : Version, wrote : SUBSET Text, read : SUBSET Form, seen : SUBSET JobSkill,
   deleted : SUBSET JobSkill, inserted : SUBSET JobSkill, disturbed : BOOLEAN]

Active == {r \in Run : task[r] # Resting}
Others(r) == Active \ {r}

\* A candidate with too few skills, or a job that shares none, is not ranked.  `disjoint`, a
\* ghost: a reading that shares nothing with the candidate was committed since the shortlist.
NotAsked == [at |-> "idle"]
Shortlisted == [at |-> "shortlisted", disjoint |-> FALSE]

-----------------------------------------------------------------------------
(* One run and the posting.                                                *)

Moves(r, t) == task' = [task EXCEPT ![r] = t]

\* load_skill_vocabulary: the newest version, for the whole run.
Load(r) ==
  /\ task[r] = Resting
  /\ Moves(r, Loaded(published))
  /\ UNCHANGED <<text, skills, published, request, edits, failures, mixed>>

\* slip: only a posting that was created or updated is extracted
StoredNext(wrote) == IF wrote = {} THEN "kept" ELSE "stored"

\* Whatever the outcome, a posting that was stored is extracted.
AfterStore(wrote) == "stored"

\* persist_job: the description is left alone or written, which waits for another writer.
Store(r) ==
  /\ task[r].at = "loaded"
  /\ \E wrote \in {{}} \cup {{t} : t \in Text \ {text}} :
       /\ wrote # {} => edits < MaxEdits /\ \A o \in Others(r) : task[o].wrote = {}
       /\ Moves(r, [task[r] EXCEPT !.at = AfterStore(wrote), !.wrote = wrote])
       /\ edits' = edits + Cardinality(wrote)
  /\ UNCHANGED <<text, skills, published, request, failures, mixed>>

\* The stored text: the run's own, or what is committed.  A description has a character at
\* least, so that the return for an empty text is never taken.
ReadText(r) ==
  /\ task[r].at = "stored"
  /\ Moves(r, [task[r] EXCEPT !.at = "read",
                 !.read = IF task[r].wrote = {} THEN text ELSE CHOOSE t \in task[r].wrote : TRUE])
  /\ UNCHANGED <<text, skills, published, request, edits, failures, mixed>>

\* The DELETE sees the rows committed when it begins.
BeginDelete(r) ==
  /\ task[r].at = "read"
  /\ Moves(r, [task[r] EXCEPT !.at = "deleting", !.seen = skills])
  /\ UNCHANGED <<text, skills, published, request, edits, failures, mixed>>

\* It waits for whoever is deleting one of them, and deletes those that are still there.
Delete(r) ==
  /\ task[r].at = "deleting"
  /\ \A o \in Others(r) : task[o].deleted \cap task[r].seen = {}
  /\ Moves(r, [task[r] EXCEPT !.at = "deleted", !.deleted = @ \cup (task[r].seen \cap skills)])
  /\ UNCHANGED <<text, skills, published, request, edits, failures, mixed>>

\* The savepoint is rolled back and the posting kept.
Kept(t) == [t EXCEPT !.at = "kept", !.deleted = {}, !.inserted = {}]

\* The INSERT waits for whoever is inserting or deleting a row with one of its keys; a key that
\* is committed fails it.
Insert(r) ==
  /\ task[r].at = "deleted"
  /\ LET rows == Rows(task[r].read, task[r].version)
         taken == Concepts(skills \ task[r].deleted)
     IN  /\ \A o \in Others(r) :
              Concepts(task[o].inserted \cup task[o].deleted) \cap Concepts(rows) = {}
         /\ Moves(r, IF Concepts(rows) \cap taken = {}
                       THEN [task[r] EXCEPT !.at = "extracted", !.inserted = rows]
                       ELSE Kept(task[r]))
  /\ UNCHANGED <<text, skills, published, request, edits, failures, mixed>>

\* slip: what the savepoint held is kept when the extraction fails
KeptHalf(t) == [t EXCEPT !.at = "kept"]

Undone(t) == Kept(t)

\* Any exception in the savepoint; two transactions that wait for each other are one.
ExtractionFails(r) ==
  /\ task[r].at \in {"read", "deleting", "deleted", "extracted"}
  /\ failures < MaxFailures /\ failures' = failures + 1
  /\ Moves(r, Undone(task[r]))
  /\ UNCHANGED <<text, skills, published, request, edits, mixed>>

SharesSome(rows) == Concepts(rows) \cap Candidate # {}

\* The commit of the posting with its skills; the run is done with it.  What it deleted is gone
\* for a DELETE that saw it, also if the same is inserted again: that row is a new one.
Commit(r) ==
  /\ task[r].at \in {"extracted", "kept"}
  /\ text' = IF task[r].wrote = {} THEN text ELSE CHOOSE t \in task[r].wrote : TRUE
  /\ skills' = (skills \ task[r].deleted) \cup task[r].inserted
  /\ mixed' = IF task[r].at = "extracted" THEN task[r].disturbed ELSE mixed
  /\ task' = [o \in Run |->
       IF o = r THEN Resting
       ELSE IF task[o].at \in {"deleting", "deleted", "extracted"}
            THEN [task[o] EXCEPT !.disturbed = TRUE, !.seen = @ \ task[r].deleted]
            ELSE task[o]]
  /\ request' =
       IF /\ request.at = "shortlisted" /\ task[r].at = "extracted"
          /\ ~SharesSome(task[r].inserted)
       THEN [request EXCEPT !.disjoint = TRUE] ELSE request
  /\ UNCHANGED <<published, edits, failures>>

\* The process dies, and the transaction with it.
Die(r) ==
  /\ task[r] # Resting
  /\ failures < MaxFailures /\ failures' = failures + 1
  /\ Moves(r, Resting)
  /\ UNCHANGED <<text, skills, published, request, edits, mixed>>

-----------------------------------------------------------------------------
\* load_published_alias_table: a new version, whole; those published stay as they are.
Publish ==
  /\ published < Newest /\ published' = published + 1
  /\ UNCHANGED <<text, skills, task, request, edits, failures, mixed>>

\* slip: every posting with skills is loaded, the ones that share none too
SharesAny == skills # {}

\* scorable_jobs.
Shares == SharesSome(skills)

\* A candidate with enough skills, and a job that shares one.
Shortlist ==
  /\ request = NotAsked
  /\ Cardinality(Candidate) >= MinimumRankable /\ Shares
  /\ request' = Shortlisted
  /\ UNCHANGED <<text, skills, published, task, edits, failures, mixed>>

Match(required) ==
  [at |-> "scored", matched |-> Candidate \cap required, missing |-> required \ Candidate,
   disjoint |-> request.disjoint]

\* The concepts of the shortlist are read by a statement of their own.
Score ==
  /\ request.at = "shortlisted" /\ request' = Match(Concepts(skills))
  /\ UNCHANGED <<text, skills, published, task, edits, failures, mixed>>

Respond ==
  /\ request.at = "scored" /\ request' = NotAsked
  /\ UNCHANGED <<text, skills, published, task, edits, failures, mixed>>

-----------------------------------------------------------------------------
Init ==
  /\ published = 1 /\ text \in Text /\ skills = Rows(text, 1)
  /\ task = [r \in Run |-> Resting] /\ request = NotAsked
  /\ edits = 0 /\ failures = 0 /\ mixed = FALSE

Extract(r) == ReadText(r) \/ BeginDelete(r) \/ Delete(r) \/ Insert(r)
RunStep(r) == Load(r) \/ Store(r) \/ Extract(r) \/ Commit(r)

Next ==
  \/ \E r \in Run : RunStep(r) \/ ExtractionFails(r) \/ Die(r)
  \/ Publish
  \/ Shortlist \/ Score \/ Respond

\* Every source is run again every hour, and a statement ends when what it waits for does.
Spec == Init /\ [][Next]_vars /\ \A r \in Run : WF_vars(RunStep(r))

-----------------------------------------------------------------------------
(* Properties.                                                             *)

\* Rows, versions, the runs' progress and the request keep the type the tables and code give them.
TypeOK ==
  /\ text \in Text /\ skills \subseteq JobSkill /\ published \in Version
  /\ task \in [Run -> Task]
  /\ request \in {NotAsked} \cup [at : {"shortlisted"}, disjoint : BOOLEAN] \cup
       [at : {"scored"}, matched : SUBSET Concept, missing : SUBSET Concept, disjoint : BOOLEAN]
  /\ edits \in 0 .. MaxEdits /\ failures \in 0 .. MaxFailures /\ mixed \in BOOLEAN

\* The rows are what one reading of one text under one version gave.
OneReading == \E t \in Text, v \in Version : skills = Rows(t, v)

\* A posting never commits with half its skills, whatever fails and whichever run is older,
\* unless two runs were replacing them at once.
ReplacedWhole == mixed \/ OneReading

\* A posting ranked for a candidate names a skill the candidate has, so that none is shown with
\* a score of zero (queries.py: only jobs sharing a concept are read), though the shortlist and
\* the concepts are two statements and runs commit between them: unless one of those read the
\* posting as asking for nothing the candidate has.  An extraction that fails half-way, or two
\* that meet, is no exception.
RankedShares == request.at = "scored" /\ ~request.disjoint => request.matched # {}

\* Once the description and the vocabulary rest, the skills come to be those the newest
\* version gives the text, and stay: a run of an older version or one that read the text
\* before it changed is made good by the next.
SkillsSettle == <>[](skills = Rows(text, published))

\* The same without the exception: a posting never keeps what another reading left.  Two runs
\* that meet refute it: README, section 13.
ReplacedNotAccumulated == OneReading

===============================================================================
