----------------------------- MODULE CvLifecycle -----------------------------
(***************************************************************************)
(* One account's CVs: the rows of `cvs`, the files the rows name, and the  *)
(* skills that reading a CV writes on the profile.  An upload writes the   *)
(* file, commits the row, removes the CVs it replaces and is answered; a   *)
(* background task then reads the file outside any transaction and writes  *)
(* its skills under the row's lock.  Meanwhile the owner uploads again,    *)
(* deletes a CV, picks skills by hand, or deletes the account              *)
(* (modules/cvs/service.py, processing.py, skills.py, accounts/service.py).*)
(*                                                                         *)
(* Files are not under the database's transactions, so each request orders *)
(* its file and row operations; what excludes another request is the lock  *)
(* of a CV's row, of the account's row or of a skill's row, and nothing    *)
(* else.  Other accounts share none of this.                               *)
(***************************************************************************)
EXTENDS Naturals

CONSTANTS
  Cv,       \* the uploads there can be, each the CV it makes
  Concept,
  Says,     \* the concepts the text of a CV names
  Nobody, ByHand,
  Faults    \* whether storage, the database and the process may fail

ASSUME CvAssumption ==
  /\ Says \in [Cv -> SUBSET Concept]
  /\ Nobody \notin Cv /\ ByHand \notin Cv /\ Nobody # ByHand
  /\ Faults \in BOOLEAN

VARIABLES
  cvs,       \* the committed rows: the processing state of each
  files,     \* the objects in storage
  upload,    \* the request that uploads each CV
  reading,   \* its background task
  deleting,  \* the request that deletes it
  account,   \* the row of the account, its deletion and its profile
  skills,    \* the profile's rows: who wrote each concept's
  picked     \* history: the concepts the candidate picked and has not dropped

vars == <<cvs, files, upload, reading, deleting, account, skills, picked>>

-----------------------------------------------------------------------------
CVProcessingState == {"pending", "processing", "processed", "failed"}

\* before: the uploads begun earlier, created_at being when the transaction began; doomed: the
\* CVs it is about to remove.
UploadState ==
  [phase : {"none", "authed", "written", "inserted", "stored", "selected", "removing",
            "unlinked", "answered", "failed", "dead"},
   before : SUBSET Cv, doomed : SUBSET Cv]
NoUpload == [phase |-> "none", before |-> {}, doomed |-> {}]

\* sees: the rows a DELETE of inferred skills found, with who had written them.
ReadingState ==
  [phase : {"none", "queued", "parsing", "unreadable", "read", "locked", "clearing",
            "cleared", "done", "dead"},
   sees : SUBSET (Concept \X Cv)]
NoReading == [phase |-> "none", sees |-> {}]

DeletingState ==
  [phase : {"no", "locked", "unlinked", "newest", "older", "clearing", "deleted", "deletedOlder"},
   sees : SUBSET (Concept \X Cv)]
NotDeleting == [phase |-> "no", sees |-> {}]

\* keys: the CVs whose files its deletion removes.
AccountState == [phase : {"open", "held", "emptied", "gone"}, keys : SUBSET Cv,
                 profile : {"none", "saved"}]

Stored(c) == cvs[c] # "absent"

\* Who holds the lock of a CV's row; whether a reading has deleted a skill's row and not
\* committed.
Held(c) ==
  \/ reading[c].phase \in {"locked", "clearing", "cleared"}
  \/ deleting[c].phase \in {"locked", "unlinked", "newest", "older", "clearing"}
  \/ \E u \in Cv : upload[u].phase \in {"removing", "unlinked"} /\ c \in upload[u].doomed

HeldSkill(k) ==
  \E c \in Cv : reading[c].phase = "cleared" /\ \E v \in Cv : <<k, v>> \in reading[c].sees

\* The rows a DELETE of inferred skills finds, and those of them still as it found them when
\* the lock it waited for is free.
Inferred == {p \in Concept \X Cv : skills[p[1]] = p[2]}
Still(sees) == sees \cap Inferred

Init ==
  /\ cvs = [c \in Cv |-> "absent"] /\ files = {}
  /\ upload = [c \in Cv |-> NoUpload]
  /\ reading = [c \in Cv |-> NoReading]
  /\ deleting = [c \in Cv |-> NotDeleting]
  /\ account = [phase |-> "open", keys |-> {}, profile |-> "none"]
  /\ skills = [k \in Concept |-> Nobody] /\ picked = {}

-----------------------------------------------------------------------------
(* The upload: intake_cv.                                                    *)

\* current_user opens the transaction whose start the row will carry as created_at.
Begin(c) ==
  /\ upload[c].phase = "none" /\ account.phase # "gone"
  /\ upload' = [upload EXCEPT ![c] = [@ EXCEPT
                  !.phase = "authed", !.before = {d \in Cv : upload[d].phase # "none"}]]
  /\ UNCHANGED <<cvs, files, reading, deleting, account, skills, picked>>

\* The policy refuses it, or the file cannot be written.
Refuse(c) ==
  /\ upload[c].phase = "authed"
  /\ upload' = [upload EXCEPT ![c].phase = "failed"]
  /\ UNCHANGED <<cvs, files, reading, deleting, account, skills, picked>>

WriteFile(c) ==
  /\ upload[c].phase = "authed"
  /\ upload' = [upload EXCEPT ![c].phase = "written"]
  /\ files' = files \cup {c}
  /\ UNCHANGED <<cvs, reading, deleting, account, skills, picked>>

\* The flush: the foreign key locks the account's row, and waits for its deletion.
Insert(c) ==
  /\ upload[c].phase = "written" /\ account.phase = "open"
  /\ upload' = [upload EXCEPT ![c].phase = "inserted"]
  /\ UNCHANGED <<cvs, files, reading, deleting, account, skills, picked>>

\* SQLAlchemyError: the account is gone, or the database failed.  The file is removed, and an
\* error in that is suppressed.
PersistFails(c) ==
  /\ \/ upload[c].phase = "written" /\ account.phase = "gone"
     \/ Faults /\ upload[c].phase \in {"written", "inserted"}
  /\ upload' = [upload EXCEPT ![c].phase = "failed"]
  /\ \/ files' = files \ {c}
     \/ Faults /\ UNCHANGED files
  /\ UNCHANGED <<cvs, reading, deleting, account, skills, picked>>

CommitRow(c) ==
  /\ upload[c].phase = "inserted"
  /\ upload' = [upload EXCEPT ![c].phase = "stored"]
  /\ cvs' = [cvs EXCEPT ![c] = "pending"]
  /\ UNCHANGED <<files, reading, deleting, account, skills, picked>>

\* slip: the upload replaces every other CV, whichever came first.
SupersededEither(c) == IF Stored(c) THEN {d \in Cv \ {c} : Stored(d)} ELSE {}
Superseded(c) == IF Stored(c) THEN {d \in upload[c].before \ {c} : Stored(d)} ELSE {}

\* The answer; the task that reads the CV is queued with it.
Answer(c) ==
  /\ upload' = [upload EXCEPT ![c] = [@ EXCEPT !.phase = "answered", !.doomed = {}]]
  /\ reading' = [reading EXCEPT ![c] = [phase |-> "queued", sees |-> {}]]

\* _remove_superseded: its SELECT finds the rows, then waits for the lock of each; those that
\* went meanwhile are passed over.
SelectSuperseded(c) ==
  /\ upload[c].phase = "stored"
  /\ IF Superseded(c) = {} THEN Answer(c)
     ELSE /\ upload' = [upload EXCEPT ![c] = [@ EXCEPT !.phase = "selected",
                                                       !.doomed = Superseded(c)]]
          /\ UNCHANGED reading
  /\ UNCHANGED <<cvs, files, deleting, account, skills, picked>>

LockSuperseded(c) ==
  /\ upload[c].phase = "selected"
  /\ \A d \in upload[c].doomed : ~Held(d)
  /\ upload' = [upload EXCEPT ![c] = [@ EXCEPT !.phase = "removing",
                                       !.doomed = {d \in upload[c].doomed : Stored(d)}]]
  /\ UNCHANGED <<cvs, files, reading, deleting, account, skills, picked>>

\* A file that cannot be removed stays, and keeps its row.
UnlinkSuperseded(c) ==
  /\ upload[c].phase = "removing"
  /\ \E kept \in SUBSET (upload[c].doomed \cap files) :
       /\ kept # {} => Faults
       /\ files' = files \ (upload[c].doomed \ kept)
  /\ upload' = [upload EXCEPT ![c].phase = "unlinked"]
  /\ UNCHANGED <<cvs, reading, deleting, account, skills, picked>>

CommitRemoval(c) ==
  /\ upload[c].phase = "unlinked"
  /\ cvs' = [d \in Cv |-> IF d \in upload[c].doomed \ files THEN "absent" ELSE cvs[d]]
  /\ Answer(c)
  /\ UNCHANGED <<files, deleting, account, skills, picked>>

\* The process ends, or a database error after the row's commit, which nothing catches.
UploadDies(c) ==
  /\ Faults /\ upload[c].phase \notin {"none", "answered", "failed", "dead"}
  /\ upload' = [upload EXCEPT ![c] = [@ EXCEPT !.phase = "dead", !.doomed = {}]]
  /\ UNCHANGED <<cvs, files, reading, deleting, account, skills, picked>>

-----------------------------------------------------------------------------
(* The background task: process_cv.                                          *)

Reads(c, from, to) ==
  /\ reading[c].phase = from
  /\ reading' = [reading EXCEPT ![c].phase = to]

\* _transition: comes to nothing if the row went.
Transition(c, state) == cvs' = [cvs EXCEPT ![c] = IF Stored(c) THEN state ELSE @]

Start(c) ==
  /\ \/ ~Stored(c) /\ Reads(c, "queued", "done") /\ UNCHANGED cvs
     \/ Stored(c) /\ ~Held(c) /\ Reads(c, "queued", "parsing") /\ Transition(c, "processing")
  /\ UNCHANGED <<files, upload, deleting, account, skills, picked>>

\* extract_stored_pdf_text: storage is read and a process parses; either can fail.
Parse(c) ==
  /\ \/ Reads(c, "parsing", "unreadable")
     \/ c \in files /\ Reads(c, "parsing", "read")
  /\ UNCHANGED <<cvs, files, upload, deleting, account, skills, picked>>

\* slip: a CV that cannot be read is left as it is.
GiveUpSilently(c) ==
  /\ ~Held(c) /\ Reads(c, "unreadable", "done")
  /\ UNCHANGED <<cvs, files, upload, deleting, account, skills, picked>>
GiveUp(c) ==
  /\ ~Held(c) /\ Reads(c, "unreadable", "done") /\ Transition(c, "failed")
  /\ UNCHANGED <<files, upload, deleting, account, skills, picked>>

LockRow(c) ==
  /\ ~Held(c)
  /\ IF Stored(c) THEN Reads(c, "read", "locked") ELSE Reads(c, "read", "done")
  /\ UNCHANGED <<cvs, files, upload, deleting, account, skills, picked>>

FinishWithoutProfile(c) ==
  /\ account.profile = "none" /\ Reads(c, "locked", "done") /\ Transition(c, "processed")
  /\ UNCHANGED <<files, upload, deleting, account, skills, picked>>

\* store_cv_skills: the DELETE finds the inferred rows and waits for those another task has
\* deleted; what that task wrote in their place it does not see.
LookAtSkills(c) ==
  /\ account.profile = "saved" /\ reading[c].phase = "locked"
  /\ reading' = [reading EXCEPT ![c] = [phase |-> "clearing", sees |-> Inferred]]
  /\ UNCHANGED <<cvs, files, upload, deleting, account, skills, picked>>

Clear(c) ==
  /\ reading[c].phase = "clearing" /\ \A p \in reading[c].sees : ~HeldSkill(p[1])
  /\ reading' = [reading EXCEPT ![c] = [phase |-> "cleared", sees |-> Still(reading[c].sees)]]
  /\ UNCHANGED <<cvs, files, upload, deleting, account, skills, picked>>

\* What the profile says of a concept once the deleted rows are gone and the insert, which
\* declines a conflict, is done.
\* slip: the insert overwrites the row it conflicts with.
WrittenOver(c, k) ==
  IF k \in Says[c] THEN c
  ELSE IF \E v \in Cv : <<k, v>> \in reading[c].sees THEN Nobody ELSE skills[k]
Written(c, k) ==
  LET left == IF \E v \in Cv : <<k, v>> \in reading[c].sees THEN Nobody ELSE skills[k]
  IN  IF k \in Says[c] /\ left = Nobody THEN c ELSE left

StoreSkills(c) ==
  /\ reading[c].phase = "cleared"
  /\ \A d \in Cv \ {c} : reading[d].phase = "cleared" =>
       \A p \in reading[d].sees : p[1] \notin Says[c]
  /\ Transition(c, "processed")
  /\ skills' = [k \in Concept |-> IF Stored(c) THEN Written(c, k) ELSE skills[k]]
  /\ reading' = [reading EXCEPT ![c] = [phase |-> "done", sees |-> {}]]
  /\ UNCHANGED <<files, upload, deleting, account, picked>>

\* The process ends, or a database error: nothing runs the task again.
ReadingDies(c) ==
  /\ Faults /\ reading[c].phase \notin {"none", "done", "dead"}
  /\ reading' = [reading EXCEPT ![c] = [phase |-> "dead", sees |-> {}]]
  /\ UNCHANGED <<cvs, files, upload, deleting, account, skills, picked>>

-----------------------------------------------------------------------------
(* The owner deletes a CV: delete_cv.                                        *)

Deleted == {"deleted", "deletedOlder"}

Deletes(c, from, to) ==
  /\ deleting[c].phase = from
  /\ deleting' = [deleting EXCEPT ![c].phase = to]

\* slip: the row is read, not locked.
LockDeletedNot(c) ==
  /\ Stored(c) /\ Deletes(c, "no", "locked")
  /\ UNCHANGED <<cvs, files, upload, reading, account, skills, picked>>
LockDeleted(c) ==
  /\ Stored(c) /\ ~Held(c) /\ Deletes(c, "no", "locked")
  /\ UNCHANGED <<cvs, files, upload, reading, account, skills, picked>>

UnlinkDeleted(c) ==
  /\ \/ Deletes(c, "locked", "unlinked") /\ files' = files \ {c}
     \/ Faults /\ Deletes(c, "locked", "no") /\ UNCHANGED files
  /\ UNCHANGED <<cvs, upload, reading, account, skills, picked>>

\* _is_most_recent.
CheckNewest(c) ==
  /\ IF \E d \in Cv : Stored(d) /\ c \in upload[d].before
     THEN Deletes(c, "unlinked", "older") ELSE Deletes(c, "unlinked", "newest")
  /\ UNCHANGED <<cvs, files, upload, reading, account, skills, picked>>

LookAtDeleted(c) ==
  /\ deleting[c].phase = "newest"
  /\ deleting' = [deleting EXCEPT ![c] = [phase |-> "clearing", sees |-> Inferred]]
  /\ UNCHANGED <<cvs, files, upload, reading, account, skills, picked>>

CommitDeleted(c) ==
  /\ deleting[c].phase \in {"older", "clearing"}
  /\ \A p \in deleting[c].sees : ~HeldSkill(p[1])
  /\ skills' = [k \in Concept |-> IF \E v \in Cv : <<k, v>> \in Still(deleting[c].sees)
                                  THEN Nobody ELSE skills[k]]
  /\ cvs' = [cvs EXCEPT ![c] = "absent"]
  /\ deleting' = [deleting EXCEPT ![c] =
                    [phase |-> IF deleting[c].phase = "older" THEN "deletedOlder" ELSE "deleted",
                     sees |-> {}]]
  /\ UNCHANGED <<files, upload, reading, account, picked>>

DeletingDies(c) ==
  /\ Faults /\ deleting[c].phase \notin {"no", "deleted", "deletedOlder"}
  /\ deleting' = [deleting EXCEPT ![c] = NotDeleting]
  /\ UNCHANGED <<cvs, files, upload, reading, account, skills, picked>>

-----------------------------------------------------------------------------
(* The owner deletes the account: delete_account.                            *)

\* slip: the keys are read before the account's row is locked.
HoldAccountLate ==
  /\ account.phase = "open"
  /\ account' = [account EXCEPT !.phase = "held", !.keys = {c \in Cv : Stored(c)}]
  /\ UNCHANGED <<cvs, files, upload, reading, deleting, skills, picked>>
HoldAccount ==
  /\ account.phase = "open" /\ \A c \in Cv : upload[c].phase # "inserted"
  /\ account' = [account EXCEPT !.phase = "held", !.keys = {c \in Cv : Stored(c)}]
  /\ UNCHANGED <<cvs, files, upload, reading, deleting, skills, picked>>

EmptyAccount ==
  /\ account.phase = "held"
  /\ files' = files \ account.keys
  /\ account' = [account EXCEPT !.phase = "emptied"]
  /\ UNCHANGED <<cvs, upload, reading, deleting, skills, picked>>

\* A file refuses to go: the ones before it in the loop are gone, the account stays.
EmptyFails ==
  /\ Faults /\ account.phase = "held"
  /\ \E left \in SUBSET account.keys \ {{}} : files' = files \ (account.keys \ left)
  /\ account' = [account EXCEPT !.phase = "open", !.keys = {}]
  /\ UNCHANGED <<cvs, upload, reading, deleting, skills, picked>>

\* The cascade takes the profile, its skills and the CV rows, waiting for their locks.
DropAccount ==
  /\ account.phase = "emptied" /\ \A c \in Cv : ~Held(c)
  /\ account' = [phase |-> "gone", keys |-> {}, profile |-> "none"]
  /\ cvs' = [c \in Cv |-> "absent"]
  /\ skills' = [k \in Concept |-> Nobody] /\ picked' = {}
  /\ UNCHANGED <<files, upload, reading, deleting>>

AccountDies ==
  /\ Faults /\ account.phase \in {"held", "emptied"}
  /\ account' = [account EXCEPT !.phase = "open", !.keys = {}]
  /\ UNCHANGED <<cvs, files, upload, reading, deleting, skills, picked>>

-----------------------------------------------------------------------------
(* The profile: save_profile, _store_profile_skill, remove_profile_skill.    *)

SaveProfile ==
  /\ account.phase = "open" /\ account.profile = "none"
  /\ account' = [account EXCEPT !.profile = "saved"]
  /\ UNCHANGED <<cvs, files, upload, reading, deleting, skills, picked>>

\* The insert declines a conflict, so a concept a CV put there stays the CV's.
PickSkill(k) ==
  /\ account.profile = "saved" /\ ~HeldSkill(k)
  /\ skills' = [skills EXCEPT ![k] = IF @ = Nobody THEN ByHand ELSE @]
  /\ picked' = picked \cup {k}
  /\ UNCHANGED <<cvs, files, upload, reading, deleting, account>>

DropSkill(k) ==
  /\ account.profile = "saved" /\ skills[k] # Nobody /\ ~HeldSkill(k)
  /\ skills' = [skills EXCEPT ![k] = Nobody]
  /\ picked' = picked \ {k}
  /\ UNCHANGED <<cvs, files, upload, reading, deleting, account>>

-----------------------------------------------------------------------------
RemovalStep(c) ==
  SelectSuperseded(c) \/ LockSuperseded(c) \/ UnlinkSuperseded(c) \/ CommitRemoval(c)

UploadStep(c) ==
  \/ Begin(c) \/ Refuse(c) \/ WriteFile(c) \/ Insert(c) \/ PersistFails(c) \/ CommitRow(c)
  \/ RemovalStep(c) \/ UploadDies(c)

ReadingStep(c) ==
  \/ Start(c) \/ Parse(c) \/ GiveUp(c) \/ LockRow(c) \/ FinishWithoutProfile(c)
  \/ LookAtSkills(c) \/ Clear(c) \/ StoreSkills(c)

DeletingStep(c) ==
  UnlinkDeleted(c) \/ CheckNewest(c) \/ LookAtDeleted(c) \/ CommitDeleted(c)

AccountStep ==
  HoldAccount \/ EmptyAccount \/ EmptyFails \/ DropAccount \/ AccountDies \/ SaveProfile

CvStep(c) ==
  \/ UploadStep(c) \/ ReadingStep(c) \/ ReadingDies(c)
  \/ LockDeleted(c) \/ DeletingStep(c) \/ DeletingDies(c)

Next ==
  \/ \E c \in Cv : CvStep(c)
  \/ AccountStep
  \/ \E k \in Concept : PickSkill(k) \/ DropSkill(k)

\* What a request or a task has begun goes on: the event loop schedules it, a storage call
\* returns, a parse is ended at its timeout, and PostgreSQL grants a lock in the order it was
\* asked for, so no stream of later requests keeps a task waiting for ever (hence SF).  Nobody
\* need upload, delete or pick.
Fairness ==
  \A c \in Cv : /\ SF_vars(ReadingStep(c))
                /\ WF_vars(DeletingStep(c))
                /\ WF_vars(RemovalStep(c))

Spec == Init /\ [][Next]_vars /\ Fairness

-----------------------------------------------------------------------------
\* The variables hold what they may hold; only an upload removing others names any, and only
\* a request about to delete skills remembers what it saw.
TypeOK ==
  /\ cvs \in [Cv -> CVProcessingState \cup {"absent"}] /\ files \in SUBSET Cv
  /\ upload \in [Cv -> UploadState] /\ reading \in [Cv -> ReadingState]
  /\ deleting \in [Cv -> DeletingState] /\ account \in AccountState
  /\ skills \in [Concept -> Cv \cup {Nobody, ByHand}] /\ picked \in SUBSET Concept
  /\ \A c \in Cv : /\ upload[c].doomed # {} =>
                        upload[c].phase \in {"selected", "removing", "unlinked"}
                   /\ reading[c].sees # {} => reading[c].phase \in {"clearing", "cleared"}

\* docs/cv-upload-policy.md: the bytes of a CV go with its row.  A file no row names is that
\* of an upload still writing, or was left by one that failed or died before its row was
\* committed; no replacement, deletion of a CV or deletion of the account, however they
\* overlap each other and uploads, leaves one behind.
NothingStray ==
  \A c \in files : Stored(c) \/ upload[c].phase \in {"written", "inserted", "failed", "dead"}

\* service.py:_remove_superseded: of uploads racing each other the later one survives.  A CV
\* that was stored is gone only if its owner deleted it, or the account, or a CV uploaded after
\* it was stored.
LaterSurvives ==
  \A c \in Cv :
    (/\ upload[c].phase \in {"stored", "selected", "removing", "unlinked", "answered"}
     /\ ~Stored(c) /\ deleting[c].phase \notin Deleted /\ account.phase # "gone")
    => \E d \in Cv : /\ c \in upload[d].before /\ d \notin upload[c].before
                     /\ upload[d].phase = "answered"

\* delete_cv and process_cv exclude each other by the row's lock: deleting the newest CV leaves
\* no skill it wrote, wherever its reading was, and none comes later.
NewestTakesItsSkills ==
  \A c \in Cv : deleting[c].phase = "deleted" => \A k \in Concept : skills[k] # c

\* store_cv_skills, delete_cv: what the candidate picked before any CV said it stays picked
\* until they drop it.
ByHandStands ==
  [][\A k \in Concept : skills[k] = ByHand => skills'[k] = ByHand \/ k \notin picked']_vars

\* A CV that was answered is read to an end, gone, or its task died.
ReadToAnEnd ==
  \A c \in Cv :
    upload[c].phase = "answered" ~>
      ~Stored(c) \/ cvs[c] \in {"processed", "failed"} \/ reading[c].phase = "dead"

\* docs/cv-upload-policy.md: "deleting a CV also takes the skills it inferred".
\* Refuted: README, section 13.
SkillsGoWithTheirCv ==
  \A c \in Cv : deleting[c].phase \in Deleted => \A k \in Concept : skills[k] # c

\* models.py: "A concept that arrives both ways stays MANUAL".
\* Refuted: README, section 13.
PickedSurvives == \A k \in picked : skills[k] # Nobody

=============================================================================
