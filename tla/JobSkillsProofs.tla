---------------------------- MODULE JobSkillsProofs ----------------------------
(***************************************************************************)
(* What JobSkills keeps for every vocabulary, text, number of sources and  *)
(* number of failures.  The argument follows one extraction from its       *)
(* DELETE to its commit: until another run commits, what the DELETE saw is *)
(* what is stored, so that the INSERT replaces all of it.                  *)
(***************************************************************************)
EXTENDS JobSkills, TLAPS

Stage == {"loaded", "stored", "read", "deleting", "deleted", "extracted", "kept"}

Working ==
  [at : Stage, version : Version, wrote : SUBSET Text, read : SUBSET Form, seen : SUBSET JobSkill,
   deleted : SUBSET JobSkill, inserted : SUBSET JobSkill, disturbed : BOOLEAN]

\* What a run that is at the posting holds, beside the rows `stored`.
Sane(t, stored) ==
  /\ t.at \in {"read", "deleting", "deleted", "extracted"} => t.read \in Text
  /\ t.at \in {"deleting", "deleted", "extracted"} /\ ~t.disturbed => t.seen = stored
  /\ t.at \in {"deleted", "extracted"} /\ ~t.disturbed => stored \subseteq t.deleted
  /\ t.at = "extracted" => t.inserted = Rows(t.read, t.version)
  /\ t.at = "kept" => t.deleted = {} /\ t.inserted = {}

SkillsInv ==
  /\ text \in Text /\ published \in Version /\ skills \subseteq JobSkill /\ mixed \in BOOLEAN
  /\ task \in [Run -> Task]
  /\ \A r \in Run : task[r] # Resting => Sane(task[r], skills)
  /\ ReplacedWhole

LEMMA RestingIsNoWork == Resting \notin Working
<1>1. ASSUME NEW t \in Working PROVE t # Resting
  <2>1. t.at \in Stage /\ Resting.at = "resting"
    BY DEF Working, Resting
  <2> QED  BY <2>1 DEF Stage
<1> QED  BY <1>1

LEMMA TaskIs == Task = {Resting} \cup Working
BY DEF Task, Working, Stage

LEMMA RowsType ==
  ASSUME NEW t \in SUBSET Form, NEW v \in Version
  PROVE  Rows(t, v) \in SUBSET JobSkill /\ Concepts(Rows(t, v)) = Plan(t, v)
<1>1. Plan(t, v) \subseteq Concept
  <2>1. \A f \in Form : Names[v][f] \in SUBSET Concept
    BY SkillsAssumption DEF SkillsAssumption
  <2>2. \A f \in Form : Terms(v)[f] \in SUBSET Concept
    BY <2>1 DEF Terms
  <2>3. Mentions(t, v) \subseteq Form
    BY DEF Mentions
  <2> QED  BY <2>2, <2>3 DEF Plan
<1>2. \A row \in Rows(t, v) : row \in JobSkill
  BY <1>1 DEF Rows, JobSkill
<1>3. ASSUME NEW c \in Plan(t, v) PROVE c \in Concepts(Rows(t, v))
  <2>1. [concept |-> c, version |-> v] \in Rows(t, v) /\ [concept |-> c, version |-> v].concept = c
    BY DEF Rows
  <2> QED  BY <2>1 DEF Concepts
<1>4. ASSUME NEW c \in Concepts(Rows(t, v)) PROVE c \in Plan(t, v)
  <2>1. PICK row \in Rows(t, v) : c = row.concept
    BY DEF Concepts
  <2> QED  BY <2>1 DEF Rows
<1> QED  BY <1>2, <1>3, <1>4

LEMMA TextIsForms == Text \subseteq SUBSET Form
BY SkillsAssumption DEF SkillsAssumption

-----------------------------------------------------------------------------
(* One run.                                                                *)

\* A run that goes on without committing leaves the rows as they are; what has to hold is what
\* it holds after the step.
LEMMA MovesSound ==
  ASSUME SkillsInv, NEW r \in Run, NEW t \in Working, Moves(r, t), Sane(t, skills),
         UNCHANGED <<text, skills, published, mixed>>
  PROVE  SkillsInv'
<1>1. task' \in [Run -> Task]
  BY TaskIs DEF SkillsInv, Moves
<1>2. \A o \in Run : task'[o] # Resting => Sane(task'[o], skills)
  BY DEF SkillsInv, Moves
<1>3. ReplacedWhole'
  BY DEF SkillsInv, ReplacedWhole, OneReading
<1> QED  BY <1>1, <1>2, <1>3 DEF SkillsInv

LEMMA LoadSound == ASSUME SkillsInv, NEW r \in Run, Load(r) PROVE SkillsInv'
<1> DEFINE t == Loaded(published)
<1>1. t \in Working /\ t.at = "loaded"
  BY DEF SkillsInv, Loaded, Working, Stage
<1> HIDE DEF t
<1>2. Sane(t, skills)
  BY <1>1 DEF Sane
<1>3. Moves(r, t) /\ UNCHANGED <<text, skills, published, mixed>>
  BY DEF Load, t
<1> QED  BY <1>1, <1>2, <1>3, MovesSound

LEMMA StoreSound == ASSUME SkillsInv, NEW r \in Run, Store(r) PROVE SkillsInv'
<1>1. task[r] \in Working
  BY TaskIs DEF SkillsInv, Store, Resting
<1>2. PICK wrote \in {{}} \cup {{s} : s \in Text \ {text}} :
        Moves(r, [task[r] EXCEPT !.at = AfterStore(wrote), !.wrote = wrote])
  BY DEF Store
<1> DEFINE t == [task[r] EXCEPT !.at = AfterStore(wrote), !.wrote = wrote]
<1>3. t \in Working /\ t.at = "stored"
  <2>1. wrote \in SUBSET Text /\ AfterStore(wrote) = "stored" /\ "stored" \in Stage
    BY DEF AfterStore, Stage
  <2> QED  BY <1>1, <2>1 DEF Working
<1>4. Moves(r, t) /\ UNCHANGED <<text, skills, published, mixed>>
  BY <1>2 DEF Store
<1> HIDE DEF t
<1>5. Sane(t, skills)
  BY <1>3 DEF Sane
<1> QED  BY <1>3, <1>4, <1>5, MovesSound

LEMMA ReadTextSound == ASSUME SkillsInv, NEW r \in Run, ReadText(r) PROVE SkillsInv'
<1>1. task[r] \in Working
  BY TaskIs DEF SkillsInv, ReadText, Resting
<1> DEFINE own == IF task[r].wrote = {} THEN text ELSE CHOOSE s \in task[r].wrote : TRUE
           t == [task[r] EXCEPT !.at = "read", !.read = own]
<1>2. own \in Text
  BY <1>1 DEF SkillsInv, Working
<1>3. Moves(r, t) /\ UNCHANGED <<text, skills, published, mixed>>
  BY DEF ReadText
<1> HIDE DEF own
<1>4. t \in Working /\ t.at = "read" /\ t.read = own
  BY <1>1, <1>2, TextIsForms DEF Working, Stage
<1> HIDE DEF t
<1>5. Sane(t, skills)
  BY <1>2, <1>4 DEF Sane
<1> QED  BY <1>3, <1>4, <1>5, MovesSound

LEMMA BeginDeleteSound == ASSUME SkillsInv, NEW r \in Run, BeginDelete(r) PROVE SkillsInv'
<1>1. task[r] \in Working /\ task[r] # Resting /\ task[r].at = "read" /\ Sane(task[r], skills)
  BY TaskIs, RestingIsNoWork DEF SkillsInv, BeginDelete, Resting
<1> DEFINE t == [task[r] EXCEPT !.at = "deleting", !.seen = skills]
<1>2. Moves(r, t) /\ UNCHANGED <<text, skills, published, mixed>>
  BY DEF BeginDelete
<1>3. /\ t \in Working /\ t.at = "deleting" /\ t.seen = skills /\ t.read = task[r].read
  BY <1>1 DEF SkillsInv, Working, Stage
<1> HIDE DEF t
<1>4. Sane(t, skills)
  BY <1>1, <1>3 DEF Sane
<1> QED  BY <1>2, <1>3, <1>4, MovesSound

LEMMA DeleteSound == ASSUME SkillsInv, NEW r \in Run, Delete(r) PROVE SkillsInv'
<1>1. task[r] \in Working /\ task[r] # Resting /\ task[r].at = "deleting" /\ Sane(task[r], skills)
  BY TaskIs, RestingIsNoWork DEF SkillsInv, Delete, Resting
<1> DEFINE gone == task[r].deleted \cup (task[r].seen \cap skills)
           t == [task[r] EXCEPT !.at = "deleted", !.deleted = gone]
<1>2. Moves(r, t) /\ UNCHANGED <<text, skills, published, mixed>>
  BY DEF Delete
<1>3. gone \in SUBSET JobSkill /\ (task[r].seen = skills => skills \subseteq gone)
  BY <1>1 DEF Working
<1> HIDE DEF gone
<1>4. /\ t \in Working /\ t.at = "deleted" /\ t.deleted = gone /\ t.seen = task[r].seen
      /\ t.read = task[r].read /\ t.disturbed = task[r].disturbed
  BY <1>1, <1>3 DEF Working, Stage
<1> HIDE DEF t
<1>5. Sane(t, skills)
  BY <1>1, <1>3, <1>4 DEF Sane
<1> QED  BY <1>2, <1>4, <1>5, MovesSound

LEMMA KeptFacts ==
  ASSUME NEW t \in Working
  PROVE  Kept(t) \in Working /\ Sane(Kept(t), skills)
<1>1. Kept(t) \in Working /\ Kept(t).at = "kept" /\ Kept(t).deleted = {} /\ Kept(t).inserted = {}
  BY DEF Kept, Working, Stage
<1> QED  BY <1>1 DEF Sane

LEMMA InsertSound == ASSUME SkillsInv, NEW r \in Run, Insert(r) PROVE SkillsInv'
<1>1. task[r] \in Working /\ task[r] # Resting /\ task[r].at = "deleted" /\ Sane(task[r], skills)
  BY TaskIs, RestingIsNoWork DEF SkillsInv, Insert, Resting
<1> DEFINE rows == Rows(task[r].read, task[r].version)
           t == [task[r] EXCEPT !.at = "extracted", !.inserted = rows]
<1>2. UNCHANGED <<text, skills, published, mixed>> /\ (Moves(r, t) \/ Moves(r, Kept(task[r])))
  BY DEF Insert
<1>3. rows \in SUBSET JobSkill
  BY <1>1, RowsType DEF Working
<1> HIDE DEF rows
<1>4. /\ t \in Working /\ t.at = "extracted" /\ t.inserted = rows /\ t.deleted = task[r].deleted
      /\ t.seen = task[r].seen /\ t.read = task[r].read /\ t.version = task[r].version
      /\ t.disturbed = task[r].disturbed
  BY <1>1, <1>3 DEF Working, Stage
<1> HIDE DEF t
<1>5. Sane(t, skills)
  BY <1>1, <1>4 DEF Sane, rows
<1> QED  BY <1>1, <1>2, <1>4, <1>5, KeptFacts, MovesSound

LEMMA ExtractionFailsSound == ASSUME SkillsInv, NEW r \in Run, ExtractionFails(r) PROVE SkillsInv'
<1>1. task[r] \in Working
  BY TaskIs DEF SkillsInv, ExtractionFails, Resting
<1>2. Moves(r, Kept(task[r])) /\ UNCHANGED <<text, skills, published, mixed>>
  BY DEF ExtractionFails, Undone
<1> QED  BY <1>1, <1>2, KeptFacts, MovesSound

LEMMA DieSound == ASSUME SkillsInv, NEW r \in Run, Die(r) PROVE SkillsInv'
<1>1. task' \in [Run -> Task] /\ \A o \in Run : task'[o] # Resting => Sane(task'[o], skills)
  BY TaskIs DEF SkillsInv, Die, Moves
<1>2. UNCHANGED <<text, skills, published, mixed>>
  BY DEF Die
<1>3. ReplacedWhole'
  BY <1>2 DEF SkillsInv, ReplacedWhole, OneReading
<1> QED  BY <1>1, <1>2, <1>3 DEF SkillsInv

LEMMA CommitterIs ==
  ASSUME SkillsInv, NEW r \in Run, Commit(r)
  PROVE  task[r] \in Working /\ task[r] # Resting /\ Sane(task[r], skills)
<1>1. task[r].at \in {"extracted", "kept"}
  BY DEF Commit
<1>2. task[r] # Resting
  BY <1>1 DEF Resting
<1> QED  BY <1>2, TaskIs DEF SkillsInv

\* What a commit makes of the rows: nothing if the extraction was given up, and one reading if
\* nobody committed since its DELETE.
LEMMA CommitReplaces ==
  ASSUME SkillsInv, NEW r \in Run, Commit(r)
  PROVE  /\ ReplacedWhole'
         /\ skills' \subseteq JobSkill /\ mixed' \in BOOLEAN
<1>1. task[r] \in Working /\ task[r] # Resting /\ Sane(task[r], skills)
  BY CommitterIs
<1>2. skills' = (skills \ task[r].deleted) \cup task[r].inserted
      /\ mixed' = IF task[r].at = "extracted" THEN task[r].disturbed ELSE mixed
  BY DEF Commit
<1>3. CASE task[r].at = "kept"
  <2>1. skills' = skills /\ mixed' = mixed
    BY <1>1, <1>2, <1>3 DEF Sane
  <2> QED  BY <2>1 DEF SkillsInv, ReplacedWhole, OneReading
<1>4. CASE task[r].at = "extracted"
  <2>1. task[r].version \in Version /\ task[r].read \in Text
        /\ task[r].inserted = Rows(task[r].read, task[r].version) /\ task[r].disturbed \in BOOLEAN
    BY <1>1, <1>4 DEF Sane, Working
  <2>2. ~task[r].disturbed => skills' = Rows(task[r].read, task[r].version)
    BY <1>1, <1>2, <1>4, <2>1 DEF Sane
  <2>3. skills' \subseteq JobSkill
    BY <1>1, <1>2 DEF SkillsInv, Working
  <2>4. mixed' = task[r].disturbed
    BY <1>2, <1>4
  <2> QED  BY <2>1, <2>2, <2>3, <2>4 DEF ReplacedWhole, OneReading
<1> QED  BY <1>3, <1>4 DEF Commit

LEMMA CommitSound == ASSUME SkillsInv, NEW r \in Run, Commit(r) PROVE SkillsInv'
<1>1. text' \in Text /\ published' = published
  <2>1. task[r] \in Working
    BY CommitterIs
  <2> QED  BY <2>1 DEF SkillsInv, Commit, Working
<1>2. ASSUME NEW o \in Run
      PROVE  task'[o] \in Task /\ (task'[o] # Resting => Sane(task'[o], skills'))
  <2>1. CASE o = r
    BY <2>1, TaskIs DEF Commit
  <2>2. CASE o # r /\ task[o].at \in {"deleting", "deleted", "extracted"}
    <3> DEFINE t == [task[o] EXCEPT !.disturbed = TRUE, !.seen = @ \ task[r].deleted]
    <3>1. task[o] \in Working /\ task[o] # Resting /\ Sane(task[o], skills)
      BY <2>2, TaskIs, RestingIsNoWork DEF SkillsInv, Resting
    <3>2. task'[o] = t
      BY <2>2 DEF Commit
    <3>3. /\ t \in Working /\ t.disturbed /\ t.at = task[o].at /\ t.read = task[o].read
          /\ t.version = task[o].version /\ t.inserted = task[o].inserted
      BY <3>1 DEF Working
    <3> HIDE DEF t
    <3>4. Sane(t, skills')
      BY <2>2, <3>1, <3>3 DEF Sane
    <3> QED  BY <3>2, <3>3, <3>4, TaskIs
  <2>3. CASE o # r /\ task[o].at \notin {"deleting", "deleted", "extracted"}
    <3>1. task'[o] = task[o] /\ task[o] \in Task
      BY <2>3 DEF SkillsInv, Commit
    <3>2. task[o] # Resting => Sane(task[o], skills')
      BY <2>3 DEF SkillsInv, Sane
    <3> QED  BY <3>1, <3>2
  <2> QED  BY <2>1, <2>2, <2>3
<1>3. task' \in [Run -> Task]
  <2>1. task' = [o \in Run |-> task'[o]]
    BY DEF Commit
  <2> QED  BY <1>2, <2>1
<1> QED  BY <1>1, <1>2, <1>3, CommitReplaces DEF SkillsInv

LEMMA OthersSound ==
  ASSUME SkillsInv, Publish \/ Shortlist \/ Score \/ Respond \/ UNCHANGED vars
  PROVE  SkillsInv'
<1>1. /\ UNCHANGED <<text, skills, mixed, task>> /\ published' \in Version
  BY SkillsAssumption
     DEF SkillsAssumption, SkillsInv, Publish, Shortlist, Score, Respond, vars, Version
<1>2. ReplacedWhole'
  BY <1>1 DEF SkillsInv, ReplacedWhole, OneReading
<1> QED  BY <1>1, <1>2 DEF SkillsInv

LEMMA SkillsInit == ASSUME Init PROVE SkillsInv
<1>1. 1 \in Version
  BY SkillsAssumption DEF SkillsAssumption, Version
<1>2. text \in Text /\ skills = Rows(text, 1) /\ skills \subseteq JobSkill
  BY <1>1, RowsType, TextIsForms DEF Init
<1>3. ReplacedWhole
  BY <1>1, <1>2 DEF ReplacedWhole, OneReading
<1> QED  BY <1>1, <1>2, <1>3, TaskIs DEF Init, SkillsInv

LEMMA SkillsKept == ASSUME SkillsInv, [Next]_vars PROVE SkillsInv'
<1>1. ASSUME NEW r \in Run, RunStep(r) PROVE SkillsInv'
  BY <1>1, LoadSound, StoreSound, ReadTextSound, BeginDeleteSound, DeleteSound, InsertSound,
     CommitSound DEF RunStep, Extract
<1>2. ASSUME NEW r \in Run, ExtractionFails(r) \/ Die(r) PROVE SkillsInv'
  BY <1>2, ExtractionFailsSound, DieSound
<1> QED  BY <1>1, <1>2, OthersSound DEF Next

-----------------------------------------------------------------------------
(* The rows.                                                               *)

\* Whichever runs meet the posting, with whatever vocabularies, and wherever extractions fail or
\* processes die: its skills are one whole reading, unless two runs replaced them at once.
THEOREM SkillsAreOneReading == Spec => []ReplacedWhole
<1>1. Init => SkillsInv
  BY SkillsInit
<1>2. SkillsInv /\ [Next]_vars => SkillsInv'
  BY SkillsKept
<1>3. SkillsInv => ReplacedWhole
  BY DEF SkillsInv
<1> QED  BY <1>1, <1>2, <1>3, PTL DEF Spec

-----------------------------------------------------------------------------
(* A ranking.                                                              *)

\* Between the two statements of a ranking a posting that shares a skill goes on sharing one, or
\* a reading that shares none was committed.
StillShares == request.at = "shortlisted" /\ ~request.disjoint => Shares

Waiting == [at : {"shortlisted"}, disjoint : BOOLEAN]
Answered ==
  [at : {"scored"}, matched : SUBSET Concept, missing : SUBSET Concept, disjoint : BOOLEAN]

RankInv ==
  SkillsInv /\ request \in {NotAsked} \cup Waiting \cup Answered /\ StillShares /\ RankedShares

LEMMA RequestIs ==
  ASSUME request \in {NotAsked} \cup Waiting \cup Answered
  PROVE  /\ request.at = "shortlisted" => request \in Waiting
         /\ request.at = "scored" => request \in Answered
BY DEF NotAsked, Waiting, Answered

LEMMA InsertedShares ==
  ASSUME NEW r \in Run, skills' = (skills \ task[r].deleted) \cup task[r].inserted,
         SharesSome(task[r].inserted)
  PROVE  Shares'
<1>1. PICK row \in task[r].inserted : row.concept \in Candidate
  BY DEF SharesSome, Concepts
<1>2. row \in skills'
  BY <1>1
<1> QED  BY <1>1, <1>2 DEF Shares, SharesSome, Concepts

LEMMA CommitShares == ASSUME RankInv, NEW r \in Run, Commit(r) PROVE RankInv'
<1>0. SkillsInv /\ SkillsInv'
  BY CommitSound DEF RankInv
<1>1. task[r] \in Working /\ task[r] # Resting /\ Sane(task[r], skills)
  BY <1>0, CommitterIs
<1> DEFINE read == request.at = "shortlisted" /\ task[r].at = "extracted"
                   /\ ~SharesSome(task[r].inserted)
           marked == [request EXCEPT !.disjoint = TRUE]
<1>3. skills' = (skills \ task[r].deleted) \cup task[r].inserted
      /\ request' = IF read THEN marked ELSE request
  BY DEF Commit
<1>4. CASE read
  <2>1. request \in Waiting
    BY <1>4, RequestIs DEF RankInv
  <2>2. request' \in Waiting /\ request'.disjoint /\ request'.at = "shortlisted"
    BY <1>3, <1>4, <2>1 DEF Waiting
  <2> QED  BY <1>0, <2>2 DEF RankInv, StillShares, RankedShares
<1>5. CASE ~read
  <2>1. request' = request
    BY <1>3, <1>5
  <2>2. ASSUME request.at = "shortlisted", ~request.disjoint PROVE Shares'
    <3>1. CASE task[r].at = "kept"
      <4>1. skills' = skills
        BY <1>1, <1>3, <3>1 DEF Sane
      <4> QED  BY <2>2, <4>1 DEF RankInv, StillShares, Shares, SharesSome
    <3>2. CASE task[r].at = "extracted"
      BY <1>3, <1>5, <2>2, <3>2, InsertedShares
    <3> QED  BY <3>1, <3>2 DEF Commit
  <2>3. StillShares'
    BY <2>1, <2>2 DEF StillShares
  <2> QED  BY <1>0, <2>1, <2>3 DEF RankInv, RankedShares
<1> QED  BY <1>4, <1>5

LEMMA ScoreShares == ASSUME RankInv, Score PROVE RankInv'
<1>1. SkillsInv' /\ SkillsInv
  BY OthersSound DEF RankInv
<1>2. request \in Waiting /\ request' = Match(Concepts(skills))
  BY RequestIs DEF RankInv, Score
<1>3. Concepts(skills) \in SUBSET Concept /\ Candidate \in SUBSET Concept
  BY <1>1, SkillsAssumption DEF SkillsAssumption, SkillsInv, Concepts, JobSkill
<1>4. request' \in Answered /\ request'.disjoint = request.disjoint
      /\ request'.matched = Candidate \cap Concepts(skills)
  BY <1>2, <1>3 DEF Match, Waiting, Answered
<1>5. ~request.disjoint => Candidate \cap Concepts(skills) # {}
  BY <1>2 DEF RankInv, StillShares, Waiting, Shares, SharesSome
<1>6. RankedShares'
  BY <1>4, <1>5 DEF RankedShares
<1>7. StillShares'
  BY <1>4 DEF StillShares, Answered
<1> QED  BY <1>1, <1>4, <1>6, <1>7 DEF RankInv

LEMMA ShortlistShares == ASSUME RankInv, Shortlist PROVE RankInv'
<1>1. SkillsInv' /\ request' = Shortlisted /\ Shares'
  BY OthersSound DEF RankInv, Shortlist, Shares, SharesSome
<1>2. request' \in Waiting /\ request'.at = "shortlisted"
  BY <1>1 DEF Shortlisted, Waiting
<1> QED  BY <1>1, <1>2 DEF RankInv, StillShares, RankedShares

\* What neither replaces the skills nor asks.
LEMMA QuietShares ==
  ASSUME RankInv, [Next]_vars, UNCHANGED skills, UNCHANGED request \/ request' = NotAsked
  PROVE  RankInv'
<1>1. SkillsInv'
  BY SkillsKept DEF RankInv
<1> QED  BY <1>1 DEF RankInv, StillShares, RankedShares, Shares, SharesSome, NotAsked

\* A posting ranked for a candidate names a skill the candidate has, though it is shortlisted and
\* read by two statements, unless a run read it meanwhile as asking for nothing they have:
\* whatever else is committed between the two.
THEOREM RankingsShareASkill == Spec => []RankedShares
<1>1. Init => RankInv
  <2>1. Init => SkillsInv /\ request = NotAsked
    BY SkillsInit DEF Init
  <2> QED  BY <2>1 DEF RankInv, StillShares, RankedShares, NotAsked
<1>2. RankInv /\ [Next]_vars => RankInv'
  <2> SUFFICES ASSUME RankInv, [Next]_vars PROVE RankInv'
    OBVIOUS
  <2>1. CASE \E r \in Run : Commit(r)
    BY <2>1, CommitShares
  <2>2. CASE Shortlist \/ Score
    BY <2>2, ShortlistShares, ScoreShares
  <2>3. CASE ~(\E r \in Run : Commit(r)) /\ ~Shortlist /\ ~Score
    <3>1. UNCHANGED skills /\ (UNCHANGED request \/ request' = NotAsked)
      BY <2>3 DEF Next, RunStep, Load, Store, Extract, ReadText, BeginDelete, Delete, Insert,
                  ExtractionFails, Die, Publish, Respond, vars
    <3> QED  BY <3>1, QuietShares
  <2> QED  BY <2>1, <2>2, <2>3
<1>3. RankInv => RankedShares
  BY DEF RankInv
<1> QED  BY <1>1, <1>2, <1>3, PTL DEF Spec

===============================================================================
