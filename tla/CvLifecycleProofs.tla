-------------------------- MODULE CvLifecycleProofs --------------------------
(***************************************************************************)
(* What holds of an account's CVs for any number of uploads and concepts,  *)
(* whatever fails: files and rows go together, the later upload survives,  *)
(* and the row's lock keeps reading and deletion apart.                    *)
(***************************************************************************)
EXTENDS CvLifecycle, TLAPS

LEMMA TypeInit == Init => TypeOK
<1> SUFFICES ASSUME Init PROVE TypeOK
  OBVIOUS
<1>1. NoUpload \in UploadState /\ NoReading \in ReadingState /\ NotDeleting \in DeletingState
  BY DEF NoUpload, UploadState, NoReading, ReadingState, NotDeleting, DeletingState
<1>2. account \in AccountState
  BY DEF Init, AccountState
<1> QED BY <1>1, <1>2 DEF Init, TypeOK, NoUpload, NoReading

\* Records of the right shape, put in the place of a CV's, keep the tables typed.
LEMMA Puts ==
  ASSUME TypeOK, NEW c \in Cv
  PROVE  /\ \A rec \in UploadState : [upload EXCEPT ![c] = rec] \in [Cv -> UploadState]
         /\ \A rec \in ReadingState : [reading EXCEPT ![c] = rec] \in [Cv -> ReadingState]
         /\ \A rec \in DeletingState : [deleting EXCEPT ![c] = rec] \in [Cv -> DeletingState]
<1>1. ASSUME NEW rec \in UploadState PROVE [upload EXCEPT ![c] = rec] \in [Cv -> UploadState]
  BY DEF TypeOK
<1>2. ASSUME NEW rec \in ReadingState PROVE [reading EXCEPT ![c] = rec] \in [Cv -> ReadingState]
  BY DEF TypeOK
<1>3. ASSUME NEW rec \in DeletingState PROVE [deleting EXCEPT ![c] = rec] \in [Cv -> DeletingState]
  BY DEF TypeOK
<1> QED BY <1>1, <1>2, <1>3

-----------------------------------------------------------------------------
(* What a step makes of an upload, a reading and a deletion, field by field. *)

UploadBecomes(c, phase, before, doomed) ==
  /\ upload' \in [Cv -> UploadState]
  /\ upload'[c].phase = phase /\ upload'[c].before = before /\ upload'[c].doomed = doomed
  /\ \A d \in Cv \ {c} : upload'[d] = upload[d]

ReadingBecomes(c, phase, sees) ==
  /\ reading' \in [Cv -> ReadingState]
  /\ reading'[c].phase = phase /\ reading'[c].sees = sees
  /\ \A d \in Cv \ {c} : reading'[d] = reading[d]

DeletingBecomes(c, phase, sees) ==
  /\ deleting' \in [Cv -> DeletingState]
  /\ deleting'[c].phase = phase /\ deleting'[c].sees = sees
  /\ \A d \in Cv \ {c} : deleting'[d] = deleting[d]

UploadPhase == {"none", "authed", "written", "inserted", "stored", "selected", "removing",
                "unlinked", "answered", "failed", "dead"}
ReadingPhase == {"none", "queued", "parsing", "unreadable", "read", "locked", "clearing",
                 "cleared", "done", "dead"}
DeletingPhase == {"no", "locked", "unlinked", "newest", "older", "clearing", "deleted",
                  "deletedOlder"}

LEMMA UploadPut ==
  ASSUME TypeOK, NEW c \in Cv, NEW ph \in UploadPhase, NEW be \in SUBSET Cv, NEW do \in SUBSET Cv,
         upload' = [upload EXCEPT ![c] =
                      [upload[c] EXCEPT !.phase = ph, !.before = be, !.doomed = do]]
  PROVE  UploadBecomes(c, ph, be, do)
<1> DEFINE rec == [upload[c] EXCEPT !.phase = ph, !.before = be, !.doomed = do]
<1>1. upload[c] \in UploadState /\ c \in DOMAIN upload
  BY DEF TypeOK
<1>2. rec \in UploadState /\ rec.phase = ph /\ rec.before = be /\ rec.doomed = do
  BY <1>1 DEF UploadState, UploadPhase
<1>3. upload' = [upload EXCEPT ![c] = rec]
  OBVIOUS
<1> HIDE DEF rec
<1>4. upload'[c] = rec /\ \A d \in Cv \ {c} : upload'[d] = upload[d]
  BY <1>1, <1>3 DEF TypeOK
<1> QED BY <1>2, <1>3, <1>4, Puts DEF UploadBecomes

LEMMA ReadingPut ==
  ASSUME TypeOK, NEW c \in Cv, NEW ph \in ReadingPhase, NEW se \in SUBSET (Concept \X Cv),
         reading' = [reading EXCEPT ![c] = [phase |-> ph, sees |-> se]]
  PROVE  ReadingBecomes(c, ph, se)
<1> DEFINE rec == [phase |-> ph, sees |-> se]
<1>1. rec \in ReadingState /\ rec.phase = ph /\ rec.sees = se
  BY DEF ReadingState, ReadingPhase
<1>2. reading' = [reading EXCEPT ![c] = rec]
  OBVIOUS
<1> HIDE DEF rec
<1>3. reading'[c] = rec /\ \A d \in Cv \ {c} : reading'[d] = reading[d]
  BY <1>2 DEF TypeOK
<1> QED BY <1>1, <1>2, <1>3, Puts DEF ReadingBecomes

LEMMA DeletingPut ==
  ASSUME TypeOK, NEW c \in Cv, NEW ph \in DeletingPhase, NEW se \in SUBSET (Concept \X Cv),
         deleting' = [deleting EXCEPT ![c] = [phase |-> ph, sees |-> se]]
  PROVE  DeletingBecomes(c, ph, se)
<1> DEFINE rec == [phase |-> ph, sees |-> se]
<1>1. rec \in DeletingState /\ rec.phase = ph /\ rec.sees = se
  BY DEF DeletingState, DeletingPhase
<1>2. deleting' = [deleting EXCEPT ![c] = rec]
  OBVIOUS
<1> HIDE DEF rec
<1>3. deleting'[c] = rec /\ \A d \in Cv \ {c} : deleting'[d] = deleting[d]
  BY <1>2 DEF TypeOK
<1> QED BY <1>1, <1>2, <1>3, Puts DEF DeletingBecomes

LEMMA UploadMoves ==
  ASSUME TypeOK, NEW c \in Cv, NEW ph \in UploadPhase,
         upload' = [upload EXCEPT ![c].phase = ph]
  PROVE  UploadBecomes(c, ph, upload[c].before, upload[c].doomed)
<1>1. upload[c] \in UploadState
  BY DEF TypeOK
<1>2. [upload[c] EXCEPT !.phase = ph] =
        [upload[c] EXCEPT !.phase = ph, !.before = upload[c].before, !.doomed = upload[c].doomed]
  BY <1>1 DEF UploadState
<1>3. upload[c].before \in SUBSET Cv /\ upload[c].doomed \in SUBSET Cv
  BY <1>1 DEF UploadState
<1> QED BY <1>2, <1>3, UploadPut

LEMMA ReadingMoves ==
  ASSUME TypeOK, NEW c \in Cv, NEW from, NEW to \in ReadingPhase, Reads(c, from, to)
  PROVE  reading[c].phase = from /\ ReadingBecomes(c, to, reading[c].sees)
<1>1. reading[c] \in ReadingState
  BY DEF TypeOK
<1>2. [reading[c] EXCEPT !.phase = to] = [phase |-> to, sees |-> reading[c].sees]
  BY <1>1 DEF ReadingState
<1>3. reading[c].sees \in SUBSET (Concept \X Cv)
  BY <1>1 DEF ReadingState
<1> QED BY <1>2, <1>3, ReadingPut DEF Reads

LEMMA DeletingMoves ==
  ASSUME TypeOK, NEW c \in Cv, NEW from, NEW to \in DeletingPhase, Deletes(c, from, to)
  PROVE  deleting[c].phase = from /\ DeletingBecomes(c, to, deleting[c].sees)
<1>1. deleting[c] \in DeletingState
  BY DEF TypeOK
<1>2. [deleting[c] EXCEPT !.phase = to] = [phase |-> to, sees |-> deleting[c].sees]
  BY <1>1 DEF DeletingState
<1>3. deleting[c].sees \in SUBSET (Concept \X Cv)
  BY <1>1 DEF DeletingState
<1> QED BY <1>2, <1>3, DeletingPut DEF Deletes

LEMMA UploadSets ==
  ASSUME TypeOK, NEW c \in Cv, NEW ph \in UploadPhase, NEW do \in SUBSET Cv,
         upload' = [upload EXCEPT ![c] = [upload[c] EXCEPT !.phase = ph, !.doomed = do]]
  PROVE  UploadBecomes(c, ph, upload[c].before, do)
<1>1. upload[c] \in UploadState
  BY DEF TypeOK
<1>2. [upload[c] EXCEPT !.phase = ph, !.doomed = do] =
        [upload[c] EXCEPT !.phase = ph, !.before = upload[c].before, !.doomed = do]
  BY <1>1 DEF UploadState
<1>3. upload[c].before \in SUBSET Cv
  BY <1>1 DEF UploadState
<1> QED BY <1>2, <1>3, UploadPut

LEMMA UploadEffects ==
  ASSUME TypeOK, NEW c \in Cv
  PROVE  /\ Begin(c) => /\ upload[c].phase = "none"
                        /\ UploadBecomes(c, "authed", {d \in Cv : upload[d].phase # "none"},
                                         upload[c].doomed)
         /\ Refuse(c) => /\ upload[c].phase = "authed"
                         /\ UploadBecomes(c, "failed", upload[c].before, upload[c].doomed)
         /\ WriteFile(c) => /\ upload[c].phase = "authed"
                            /\ UploadBecomes(c, "written", upload[c].before, upload[c].doomed)
         /\ Insert(c) => /\ upload[c].phase = "written"
                         /\ UploadBecomes(c, "inserted", upload[c].before, upload[c].doomed)
         /\ PersistFails(c) => /\ upload[c].phase \in {"written", "inserted"}
                               /\ UploadBecomes(c, "failed", upload[c].before, upload[c].doomed)
         /\ CommitRow(c) => /\ upload[c].phase = "inserted"
                            /\ UploadBecomes(c, "stored", upload[c].before, upload[c].doomed)
<1>1. upload[c] \in UploadState
  BY DEF TypeOK
<1>2. ASSUME Begin(c)
      PROVE  UploadBecomes(c, "authed", {d \in Cv : upload[d].phase # "none"}, upload[c].doomed)
  <2> DEFINE begun == {d \in Cv : upload[d].phase # "none"}
  <2> HIDE DEF begun
  <2>1. upload' = [upload EXCEPT ![c] = [upload[c] EXCEPT !.phase = "authed", !.before = begun]]
    BY <1>2 DEF Begin, begun
  <2>2. begun \in SUBSET Cv /\ upload[c].doomed \in SUBSET Cv
    BY <1>1 DEF begun, UploadState
  <2>3. [upload[c] EXCEPT !.phase = "authed", !.before = begun] =
          [upload[c] EXCEPT !.phase = "authed", !.before = begun, !.doomed = upload[c].doomed]
    BY <1>1 DEF UploadState
  <2>4. UploadBecomes(c, "authed", begun, upload[c].doomed)
    BY <2>1, <2>2, <2>3, UploadPut DEF UploadPhase
  <2> QED BY <2>4 DEF begun
<1>3. Refuse(c) => UploadBecomes(c, "failed", upload[c].before, upload[c].doomed)
  BY UploadMoves DEF Refuse, UploadPhase
<1>4. WriteFile(c) => UploadBecomes(c, "written", upload[c].before, upload[c].doomed)
  BY UploadMoves DEF WriteFile, UploadPhase
<1>5. Insert(c) => UploadBecomes(c, "inserted", upload[c].before, upload[c].doomed)
  BY UploadMoves DEF Insert, UploadPhase
<1>6. PersistFails(c) => UploadBecomes(c, "failed", upload[c].before, upload[c].doomed)
  BY UploadMoves DEF PersistFails, UploadPhase
<1>7. CommitRow(c) => UploadBecomes(c, "stored", upload[c].before, upload[c].doomed)
  BY UploadMoves DEF CommitRow, UploadPhase
<1>8. /\ Begin(c) => upload[c].phase = "none"
      /\ Refuse(c) \/ WriteFile(c) => upload[c].phase = "authed"
      /\ Insert(c) => upload[c].phase = "written"
      /\ PersistFails(c) => upload[c].phase \in {"written", "inserted"}
      /\ CommitRow(c) => upload[c].phase = "inserted"
  BY DEF Begin, Refuse, WriteFile, Insert, PersistFails, CommitRow
<1> QED BY <1>2, <1>3, <1>4, <1>5, <1>6, <1>7, <1>8

LEMMA AnswerEffect ==
  ASSUME TypeOK, NEW c \in Cv, Answer(c)
  PROVE  /\ UploadBecomes(c, "answered", upload[c].before, {})
         /\ ReadingBecomes(c, "queued", {})
<1>1. ReadingBecomes(c, "queued", {})
  BY ReadingPut DEF Answer, ReadingPhase
<1>2. UploadBecomes(c, "answered", upload[c].before, {})
  BY UploadSets DEF Answer, UploadPhase
<1> QED BY <1>1, <1>2

LEMMA RemovalEffects ==
  ASSUME TypeOK, NEW c \in Cv
  PROVE  /\ SelectSuperseded(c) /\ Superseded(c) # {} =>
              UploadBecomes(c, "selected", upload[c].before, Superseded(c)) /\ UNCHANGED reading
         /\ LockSuperseded(c) =>
              UploadBecomes(c, "removing", upload[c].before, {d \in upload[c].doomed : Stored(d)})
         /\ UnlinkSuperseded(c) =>
              UploadBecomes(c, "unlinked", upload[c].before, upload[c].doomed)
         /\ UploadDies(c) => UploadBecomes(c, "dead", upload[c].before, {})
<1>1. ASSUME SelectSuperseded(c), Superseded(c) # {}
      PROVE  UploadBecomes(c, "selected", upload[c].before, Superseded(c)) /\ UNCHANGED reading
  <2>1. Superseded(c) \in SUBSET Cv
    BY DEF Superseded, TypeOK, UploadState
  <2>2. /\ upload' = [upload EXCEPT ![c] = [upload[c] EXCEPT !.phase = "selected",
                                                            !.doomed = Superseded(c)]]
        /\ UNCHANGED reading
    BY <1>1 DEF SelectSuperseded
  <2> QED BY <2>1, <2>2, UploadSets DEF UploadPhase
<1>2. ASSUME LockSuperseded(c)
      PROVE  UploadBecomes(c, "removing", upload[c].before, {d \in upload[c].doomed : Stored(d)})
  <2> DEFINE locked == {d \in upload[c].doomed : Stored(d)}
  <2> HIDE DEF locked
  <2>1. locked \in SUBSET Cv
    BY DEF locked, TypeOK, UploadState
  <2>2. upload' = [upload EXCEPT ![c] = [upload[c] EXCEPT !.phase = "removing", !.doomed = locked]]
    BY <1>2 DEF LockSuperseded, locked
  <2>3. UploadBecomes(c, "removing", upload[c].before, locked)
    BY <2>1, <2>2, UploadSets DEF UploadPhase
  <2> QED BY <2>3 DEF locked
<1>3. UnlinkSuperseded(c) => UploadBecomes(c, "unlinked", upload[c].before, upload[c].doomed)
  BY UploadMoves DEF UnlinkSuperseded, UploadPhase
<1>4. UploadDies(c) => UploadBecomes(c, "dead", upload[c].before, {})
  BY UploadSets DEF UploadDies, UploadPhase
<1> QED BY <1>1, <1>2, <1>3, <1>4

LEMMA ReadingEffects ==
  ASSUME TypeOK, NEW c \in Cv
  PROVE  /\ Start(c) => /\ reading[c].phase = "queued"
                        /\ \E p \in {"done", "parsing"} : ReadingBecomes(c, p, reading[c].sees)
         /\ Parse(c) => /\ reading[c].phase = "parsing"
                        /\ \E p \in {"unreadable", "read"} : ReadingBecomes(c, p, reading[c].sees)
         /\ GiveUp(c) => /\ reading[c].phase = "unreadable"
                         /\ ReadingBecomes(c, "done", reading[c].sees)
         /\ LockRow(c) => /\ reading[c].phase = "read"
                          /\ \/ Stored(c) /\ ReadingBecomes(c, "locked", reading[c].sees)
                             \/ ReadingBecomes(c, "done", reading[c].sees)
         /\ FinishWithoutProfile(c) => /\ reading[c].phase = "locked"
                                       /\ ReadingBecomes(c, "done", reading[c].sees)
         /\ LookAtSkills(c) => ReadingBecomes(c, "clearing", Inferred)
         /\ Clear(c) => ReadingBecomes(c, "cleared", Still(reading[c].sees))
         /\ StoreSkills(c) => ReadingBecomes(c, "done", {})
         /\ ReadingDies(c) => ReadingBecomes(c, "dead", {})
<1>1. Inferred \in SUBSET (Concept \X Cv) /\ Still(reading[c].sees) \in SUBSET (Concept \X Cv)
  BY DEF Inferred, Still
<1>2. Start(c) => /\ reading[c].phase = "queued"
                  /\ \E p \in {"done", "parsing"} : ReadingBecomes(c, p, reading[c].sees)
  BY ReadingMoves DEF Start, ReadingPhase
<1>3. Parse(c) => /\ reading[c].phase = "parsing"
                  /\ \E p \in {"unreadable", "read"} : ReadingBecomes(c, p, reading[c].sees)
  BY ReadingMoves DEF Parse, ReadingPhase
<1>4. GiveUp(c) => reading[c].phase = "unreadable" /\ ReadingBecomes(c, "done", reading[c].sees)
  BY ReadingMoves DEF GiveUp, ReadingPhase
<1>5. LockRow(c) => /\ reading[c].phase = "read"
                    /\ \/ Stored(c) /\ ReadingBecomes(c, "locked", reading[c].sees)
                       \/ ReadingBecomes(c, "done", reading[c].sees)
  BY ReadingMoves DEF LockRow, ReadingPhase
<1>6. FinishWithoutProfile(c) => /\ reading[c].phase = "locked"
                                 /\ ReadingBecomes(c, "done", reading[c].sees)
  BY ReadingMoves DEF FinishWithoutProfile, ReadingPhase
<1>7. LookAtSkills(c) => ReadingBecomes(c, "clearing", Inferred)
  BY <1>1, ReadingPut DEF LookAtSkills, ReadingPhase
<1>8. Clear(c) => ReadingBecomes(c, "cleared", Still(reading[c].sees))
  BY <1>1, ReadingPut DEF Clear, ReadingPhase
<1>9. (StoreSkills(c) => ReadingBecomes(c, "done", {})) /\ (ReadingDies(c) => ReadingBecomes(c, "dead", {}))
  BY ReadingPut DEF StoreSkills, ReadingDies, ReadingPhase
<1> QED BY <1>2, <1>3, <1>4, <1>5, <1>6, <1>7, <1>8, <1>9

LEMMA DeletingEffects ==
  ASSUME TypeOK, NEW c \in Cv
  PROVE  /\ LockDeleted(c) => /\ deleting[c].phase = "no"
                              /\ DeletingBecomes(c, "locked", deleting[c].sees)
         /\ UnlinkDeleted(c) => /\ deleting[c].phase = "locked"
                                /\ \/ /\ DeletingBecomes(c, "unlinked", deleting[c].sees)
                                      /\ files' = files \ {c}
                                   \/ /\ DeletingBecomes(c, "no", deleting[c].sees)
                                      /\ UNCHANGED files
         /\ CheckNewest(c) => /\ deleting[c].phase = "unlinked"
                              /\ \E p \in {"newest", "older"} :
                                   DeletingBecomes(c, p, deleting[c].sees)
         /\ LookAtDeleted(c) => DeletingBecomes(c, "clearing", Inferred)
         /\ CommitDeleted(c) => \/ /\ deleting[c].phase = "older"
                                   /\ DeletingBecomes(c, "deletedOlder", {})
                                \/ /\ deleting[c].phase = "clearing"
                                   /\ DeletingBecomes(c, "deleted", {})
         /\ DeletingDies(c) => DeletingBecomes(c, "no", {})
<1>1. Inferred \in SUBSET (Concept \X Cv)
  BY DEF Inferred
<1>2. LockDeleted(c) => deleting[c].phase = "no" /\ DeletingBecomes(c, "locked", deleting[c].sees)
  BY DeletingMoves DEF LockDeleted, DeletingPhase
<1>3. UnlinkDeleted(c) => /\ deleting[c].phase = "locked"
                          /\ \/ /\ DeletingBecomes(c, "unlinked", deleting[c].sees)
                                /\ files' = files \ {c}
                             \/ /\ DeletingBecomes(c, "no", deleting[c].sees)
                                /\ UNCHANGED files
  BY DeletingMoves DEF UnlinkDeleted, DeletingPhase
<1>4. CheckNewest(c) => /\ deleting[c].phase = "unlinked"
                        /\ \E p \in {"newest", "older"} : DeletingBecomes(c, p, deleting[c].sees)
  BY DeletingMoves DEF CheckNewest, DeletingPhase
<1>5. LookAtDeleted(c) => DeletingBecomes(c, "clearing", Inferred)
  BY <1>1, DeletingPut DEF LookAtDeleted, DeletingPhase
<1>6. CommitDeleted(c) => \/ deleting[c].phase = "older" /\ DeletingBecomes(c, "deletedOlder", {})
                          \/ deleting[c].phase = "clearing" /\ DeletingBecomes(c, "deleted", {})
  BY DeletingPut DEF CommitDeleted, DeletingPhase
<1>7. DeletingDies(c) => DeletingBecomes(c, "no", {})
  BY DeletingPut DEF DeletingDies, NotDeleting, DeletingPhase
<1> QED BY <1>2, <1>3, <1>4, <1>5, <1>6, <1>7

-----------------------------------------------------------------------------
(* Types.                                                                    *)

UploadsTyped ==
  /\ upload \in [Cv -> UploadState]
  /\ \A d \in Cv : upload[d].doomed # {} => upload[d].phase \in {"selected", "removing", "unlinked"}
ReadingsTyped ==
  /\ reading \in [Cv -> ReadingState]
  /\ \A d \in Cv : reading[d].sees # {} => reading[d].phase \in {"clearing", "cleared"}

LEMMA UploadTyped ==
  ASSUME TypeOK, NEW c \in Cv, NEW ph, NEW be, NEW do, UploadBecomes(c, ph, be, do),
         do # {} => ph \in {"selected", "removing", "unlinked"}
  PROVE  UploadsTyped'
<1>1. \A d \in Cv \ {c} : upload'[d].doomed # {} =>
                            upload'[d].phase \in {"selected", "removing", "unlinked"}
  BY DEF UploadBecomes, TypeOK
<1> QED BY <1>1 DEF UploadBecomes, UploadsTyped

LEMMA ReadingTyped ==
  ASSUME TypeOK, NEW c \in Cv, NEW ph, NEW se, ReadingBecomes(c, ph, se),
         se # {} => ph \in {"clearing", "cleared"}
  PROVE  ReadingsTyped'
<1>1. \A d \in Cv \ {c} : reading'[d].sees # {} => reading'[d].phase \in {"clearing", "cleared"}
  BY DEF ReadingBecomes, TypeOK
<1> QED BY <1>1 DEF ReadingBecomes, ReadingsTyped

LEMMA TransitionTyped ==
  ASSUME TypeOK, NEW c \in Cv, NEW state \in CVProcessingState, Transition(c, state)
  PROVE  cvs' \in [Cv -> CVProcessingState \cup {"absent"}]
BY DEF Transition, TypeOK

\* What the types of the tables leave of TypeOK.
LEMMA TypeParts ==
  ASSUME TypeOK, UploadsTyped', ReadingsTyped',
         (cvs \in [Cv -> CVProcessingState \cup {"absent"}])',
         (files \in SUBSET Cv)', (deleting \in [Cv -> DeletingState])', (account \in AccountState)',
         (skills \in [Concept -> Cv \cup {Nobody, ByHand}])', (picked \in SUBSET Concept)'
  PROVE  TypeOK'
BY DEF TypeOK, UploadsTyped, ReadingsTyped

LEMMA TypeUpload ==
  ASSUME TypeOK, NEW c \in Cv, UploadStep(c)
  PROVE  TypeOK'
<1>1. /\ upload[c].doomed # {} => upload[c].phase \in {"selected", "removing", "unlinked"}
      /\ reading[c].sees # {} => reading[c].phase \in {"clearing", "cleared"}
  BY DEF TypeOK
<1>2. UploadsTyped /\ ReadingsTyped
  BY DEF TypeOK, UploadsTyped, ReadingsTyped
<1>3. CASE Begin(c)
  BY <1>1, <1>2, <1>3, UploadEffects, UploadTyped, TypeParts DEF Begin, TypeOK, ReadingsTyped
<1>4. CASE Refuse(c)
  BY <1>1, <1>2, <1>4, UploadEffects, UploadTyped, TypeParts DEF Refuse, TypeOK, ReadingsTyped
<1>5. CASE WriteFile(c)
  BY <1>1, <1>2, <1>5, UploadEffects, UploadTyped, TypeParts DEF WriteFile, TypeOK, ReadingsTyped
<1>6. CASE Insert(c)
  BY <1>1, <1>2, <1>6, UploadEffects, UploadTyped, TypeParts DEF Insert, TypeOK, ReadingsTyped
<1>7. CASE PersistFails(c)
  BY <1>1, <1>2, <1>7, UploadEffects, UploadTyped, TypeParts DEF PersistFails, TypeOK, ReadingsTyped
<1>8. CASE CommitRow(c)
  <2>1. (cvs \in [Cv -> CVProcessingState \cup {"absent"}])'
    BY <1>8 DEF CommitRow, TypeOK, CVProcessingState
  <2> QED BY <1>1, <1>2, <1>8, <2>1, UploadEffects, UploadTyped, TypeParts
          DEF CommitRow, TypeOK, ReadingsTyped
<1>9. CASE SelectSuperseded(c)
  <2>1. CASE Superseded(c) = {}
    <3>1. Answer(c)
      BY <1>9, <2>1 DEF SelectSuperseded
    <3>2. UploadsTyped'
      BY <3>1, AnswerEffect, UploadTyped
    <3>3. ReadingsTyped'
      BY <3>1, <1>1, AnswerEffect, ReadingTyped
    <3> QED BY <1>9, <3>2, <3>3, TypeParts DEF SelectSuperseded, TypeOK
  <2>2. CASE Superseded(c) # {}
    BY <1>9, <2>2, <1>2, RemovalEffects, UploadTyped, TypeParts
       DEF SelectSuperseded, TypeOK, ReadingsTyped
  <2> QED BY <2>1, <2>2
<1>10. CASE LockSuperseded(c)
  BY <1>2, <1>10, RemovalEffects, UploadTyped, TypeParts DEF LockSuperseded, TypeOK, ReadingsTyped
<1>11. CASE UnlinkSuperseded(c)
  BY <1>2, <1>11, RemovalEffects, UploadTyped, TypeParts DEF UnlinkSuperseded, TypeOK, ReadingsTyped
<1>12. CASE CommitRemoval(c)
  <2>1. Answer(c)
    BY <1>12 DEF CommitRemoval
  <2>2. UploadsTyped'
    BY <2>1, AnswerEffect, UploadTyped
  <2>3. ReadingsTyped'
    BY <2>1, <1>1, AnswerEffect, ReadingTyped
  <2>4. (cvs \in [Cv -> CVProcessingState \cup {"absent"}])'
    BY <1>12 DEF CommitRemoval, TypeOK
  <2> QED BY <1>12, <2>2, <2>3, <2>4, TypeParts DEF CommitRemoval, TypeOK
<1>13. CASE UploadDies(c)
  BY <1>2, <1>13, RemovalEffects, UploadTyped, TypeParts DEF UploadDies, TypeOK, ReadingsTyped
<1> QED BY <1>3, <1>4, <1>5, <1>6, <1>7, <1>8, <1>9, <1>10, <1>11, <1>12, <1>13
        DEF UploadStep, RemovalStep

LEMMA TypeReading ==
  ASSUME TypeOK, NEW c \in Cv, ReadingStep(c) \/ ReadingDies(c)
  PROVE  TypeOK'
<1>1. reading[c].sees # {} => reading[c].phase \in {"clearing", "cleared"}
  BY DEF TypeOK
<1>2. UploadsTyped /\ ReadingsTyped
  BY DEF TypeOK, UploadsTyped, ReadingsTyped
<1>3. CASE Start(c)
  <2>1. (cvs \in [Cv -> CVProcessingState \cup {"absent"}])'
    BY <1>3, TransitionTyped DEF Start, TypeOK, CVProcessingState
  <2>2. ReadingsTyped'
    BY <1>1, <1>3, ReadingEffects, ReadingTyped
  <2> QED BY <1>2, <1>3, <2>1, <2>2, TypeParts DEF Start, TypeOK, UploadsTyped
<1>4. CASE Parse(c)
  <2>1. ReadingsTyped'
    BY <1>1, <1>4, ReadingEffects, ReadingTyped
  <2> QED BY <1>2, <1>4, <2>1, TypeParts DEF Parse, TypeOK, UploadsTyped
<1>5. CASE GiveUp(c)
  <2>1. (cvs \in [Cv -> CVProcessingState \cup {"absent"}])'
    BY <1>5, TransitionTyped DEF GiveUp, TypeOK, CVProcessingState
  <2>2. ReadingsTyped'
    BY <1>1, <1>5, ReadingEffects, ReadingTyped
  <2> QED BY <1>2, <1>5, <2>1, <2>2, TypeParts DEF GiveUp, TypeOK, UploadsTyped
<1>6. CASE LockRow(c)
  <2>1. ReadingsTyped'
    BY <1>1, <1>6, ReadingEffects, ReadingTyped
  <2> QED BY <1>2, <1>6, <2>1, TypeParts DEF LockRow, TypeOK, UploadsTyped
<1>7. CASE FinishWithoutProfile(c)
  <2>1. (cvs \in [Cv -> CVProcessingState \cup {"absent"}])'
    BY <1>7, TransitionTyped DEF FinishWithoutProfile, TypeOK, CVProcessingState
  <2>2. ReadingsTyped'
    BY <1>1, <1>7, ReadingEffects, ReadingTyped
  <2> QED BY <1>2, <1>7, <2>1, <2>2, TypeParts DEF FinishWithoutProfile, TypeOK, UploadsTyped
<1>8. CASE LookAtSkills(c)
  <2>1. ReadingsTyped'
    BY <1>8, ReadingEffects, ReadingTyped
  <2> QED BY <1>2, <1>8, <2>1, TypeParts DEF LookAtSkills, TypeOK, UploadsTyped
<1>9. CASE Clear(c)
  <2>1. ReadingsTyped'
    BY <1>9, ReadingEffects, ReadingTyped
  <2> QED BY <1>2, <1>9, <2>1, TypeParts DEF Clear, TypeOK, UploadsTyped
<1>10. CASE StoreSkills(c)
  <2>1. (cvs \in [Cv -> CVProcessingState \cup {"absent"}])'
    BY <1>10, TransitionTyped DEF StoreSkills, TypeOK, CVProcessingState
  <2>2. ReadingsTyped'
    BY <1>10, ReadingEffects, ReadingTyped
  <2>3. \A k \in Concept : Written(c, k) \in Cv \cup {Nobody, ByHand}
    BY DEF Written, TypeOK
  <2>4. (skills \in [Concept -> Cv \cup {Nobody, ByHand}])'
    BY <1>10, <2>3 DEF StoreSkills, TypeOK
  <2> QED BY <1>2, <1>10, <2>1, <2>2, <2>4, TypeParts DEF StoreSkills, TypeOK, UploadsTyped
<1>11. CASE ReadingDies(c)
  <2>1. ReadingsTyped'
    BY <1>11, ReadingEffects, ReadingTyped
  <2> QED BY <1>2, <1>11, <2>1, TypeParts DEF ReadingDies, TypeOK, UploadsTyped
<1> QED BY <1>3, <1>4, <1>5, <1>6, <1>7, <1>8, <1>9, <1>10, <1>11 DEF ReadingStep

LEMMA TypeDeleting ==
  ASSUME TypeOK, NEW c \in Cv, LockDeleted(c) \/ DeletingStep(c) \/ DeletingDies(c)
  PROVE  TypeOK'
<1>1. UploadsTyped /\ ReadingsTyped
  BY DEF TypeOK, UploadsTyped, ReadingsTyped
<1>2. UploadsTyped' /\ ReadingsTyped'
  BY <1>1 DEF LockDeleted, DeletingStep, DeletingDies, UnlinkDeleted, CheckNewest, LookAtDeleted,
              CommitDeleted, UploadsTyped, ReadingsTyped
<1>3. deleting' \in [Cv -> DeletingState]
  BY DeletingEffects DEF DeletingStep, DeletingBecomes
<1>4. CASE LockDeleted(c) \/ CheckNewest(c) \/ LookAtDeleted(c) \/ DeletingDies(c)
  BY <1>2, <1>3, <1>4, TypeParts
     DEF LockDeleted, CheckNewest, LookAtDeleted, DeletingDies, TypeOK
<1>5. CASE UnlinkDeleted(c)
  BY <1>2, <1>3, <1>5, TypeParts DEF UnlinkDeleted, TypeOK
<1>6. CASE CommitDeleted(c)
  <2>1. (cvs \in [Cv -> CVProcessingState \cup {"absent"}])'
    BY <1>6 DEF CommitDeleted, TypeOK
  <2>2. (skills \in [Concept -> Cv \cup {Nobody, ByHand}])'
    BY <1>6 DEF CommitDeleted, TypeOK
  <2> QED BY <1>2, <1>3, <1>6, <2>1, <2>2, TypeParts DEF CommitDeleted, TypeOK
<1> QED BY <1>4, <1>5, <1>6 DEF DeletingStep

LEMMA TypeAccount ==
  ASSUME TypeOK, AccountStep \/ \E k \in Concept : PickSkill(k) \/ DropSkill(k)
  PROVE  TypeOK'
<1>1. UploadsTyped /\ ReadingsTyped
  BY DEF TypeOK, UploadsTyped, ReadingsTyped
<1>2. CASE AccountStep
  <2>1. UploadsTyped' /\ ReadingsTyped' /\ UNCHANGED deleting
    BY <1>1, <1>2 DEF AccountStep, HoldAccount, EmptyAccount, EmptyFails, DropAccount, AccountDies,
                      SaveProfile, UploadsTyped, ReadingsTyped
  <2>2. account' \in AccountState
    <3>1. account \in AccountState /\ {c \in Cv : Stored(c)} \in SUBSET Cv
      BY DEF TypeOK
    <3>2. HoldAccount => account' \in AccountState
      BY <3>1 DEF HoldAccount, AccountState
    <3>3. EmptyAccount \/ EmptyFails \/ AccountDies \/ SaveProfile => account' \in AccountState
      BY <3>1 DEF EmptyAccount, EmptyFails, AccountDies, SaveProfile, AccountState
    <3>4. DropAccount => account' \in AccountState
      BY DEF DropAccount, AccountState
    <3> QED BY <1>2, <3>2, <3>3, <3>4 DEF AccountStep
  <2>3. /\ cvs' \in [Cv -> CVProcessingState \cup {"absent"}] /\ files' \in SUBSET Cv
        /\ skills' \in [Concept -> Cv \cup {Nobody, ByHand}] /\ picked' \in SUBSET Concept
    BY <1>2 DEF AccountStep, HoldAccount, EmptyAccount, EmptyFails, DropAccount, AccountDies,
                SaveProfile, TypeOK
  <2> QED BY <2>1, <2>2, <2>3, TypeParts DEF TypeOK
<1>3. CASE \E k \in Concept : PickSkill(k) \/ DropSkill(k)
  <2>1. PICK k \in Concept : PickSkill(k) \/ DropSkill(k)
    BY <1>3
  <2>2. UploadsTyped' /\ ReadingsTyped' /\ UNCHANGED <<cvs, files, deleting, account>>
    BY <1>1, <2>1 DEF PickSkill, DropSkill, UploadsTyped, ReadingsTyped
  <2>3. skills' \in [Concept -> Cv \cup {Nobody, ByHand}] /\ picked' \in SUBSET Concept
    BY <2>1 DEF PickSkill, DropSkill, TypeOK
  <2> QED BY <2>2, <2>3, TypeParts DEF TypeOK
<1> QED BY <1>2, <1>3

LEMMA TypeStep == TypeOK /\ [Next]_vars => TypeOK'
<1>1. TypeOK /\ UNCHANGED vars => TypeOK'
  BY DEF vars, TypeOK
<1> QED BY <1>1, TypeUpload, TypeReading, TypeDeleting, TypeAccount DEF Next, CvStep

\* The variables hold what they may hold, whatever overlaps and whatever fails.
THEOREM TypeCorrect == Spec => []TypeOK
BY TypeInit, TypeStep, PTL DEF Spec

-----------------------------------------------------------------------------
(* Files and rows.                                                           *)

Persisted == {"stored", "selected", "removing", "unlinked", "answered", "dead"}

\* What NothingStray rests on.  While the account is held no upload commits a row, so the keys
\* are those of every row; once it is emptied none of their files is back; a CV whose file its
\* owner's request removed has none; and what is stored, deleted or held for removal is past
\* its upload's writing.
FilesInv ==
  /\ account.phase \in {"held", "emptied"} =>
       \A c \in Cv : upload[c].phase # "inserted" /\ (Stored(c) => c \in account.keys)
  /\ account.phase = "emptied" => files \cap account.keys = {}
  /\ \A c \in Cv :
       /\ deleting[c].phase \in {"unlinked", "newest", "older", "clearing"} => c \notin files
       /\ Stored(c) \/ deleting[c].phase # "no" \/ c \in account.keys =>
            upload[c].phase \in Persisted
  /\ NothingStray

LEMMA FilesInit == Init => FilesInv
BY DEF Init, FilesInv, NothingStray, Stored, NotDeleting, Persisted

\* A change of state leaves what is stored stored; a reading touches neither files nor rows
\* otherwise.
LEMMA TransitionStores ==
  ASSUME TypeOK, NEW c \in Cv, NEW state \in CVProcessingState, Transition(c, state)
  PROVE  \A d \in Cv : Stored(d)' = Stored(d)
BY DEF Transition, TypeOK, Stored, CVProcessingState

LEMMA ReadingFrame ==
  ASSUME TypeOK, NEW c \in Cv, ReadingStep(c) \/ ReadingDies(c)
  PROVE  /\ UNCHANGED <<files, upload, deleting, account, picked>>
         /\ \A d \in Cv : Stored(d)' = Stored(d)
<1>1. UNCHANGED <<files, upload, deleting, account, picked>>
  BY DEF ReadingStep, Start, Parse, GiveUp, LockRow, FinishWithoutProfile, LookAtSkills, Clear,
         StoreSkills, ReadingDies
<1>2. UNCHANGED cvs \/ \E state \in CVProcessingState : Transition(c, state)
  BY DEF ReadingStep, Start, Parse, GiveUp, LockRow, FinishWithoutProfile, LookAtSkills, Clear,
         StoreSkills, ReadingDies, CVProcessingState
<1>3. UNCHANGED cvs => \A d \in Cv : Stored(d)' = Stored(d)
  BY DEF Stored
<1> QED BY <1>1, <1>2, <1>3, TransitionStores

LEMMA FilesUpload ==
  ASSUME TypeOK, FilesInv, NEW c \in Cv, UploadStep(c)
  PROVE  FilesInv'
<1>1. UNCHANGED <<account, deleting>> /\ files \subseteq Cv
  BY DEF TypeOK, UploadStep, RemovalStep, Begin, Refuse, WriteFile, Insert, PersistFails, CommitRow,
         SelectSuperseded, LockSuperseded, UnlinkSuperseded, CommitRemoval, UploadDies
<1>2. CASE Begin(c)
  <2>1. upload[c].phase = "none" /\ upload'[c].phase = "authed"
        /\ (\A d \in Cv \ {c} : upload'[d] = upload[d]) /\ UNCHANGED <<cvs, files>>
    BY <1>2, UploadEffects DEF Begin, UploadBecomes
  <2> QED BY <1>1, <2>1 DEF FilesInv, NothingStray, Stored, Persisted
<1>3. CASE Refuse(c)
  <2>1. upload[c].phase = "authed" /\ upload'[c].phase = "failed"
        /\ (\A d \in Cv \ {c} : upload'[d] = upload[d]) /\ UNCHANGED <<cvs, files>>
    BY <1>3, UploadEffects DEF Refuse, UploadBecomes
  <2> QED BY <1>1, <2>1 DEF FilesInv, NothingStray, Stored, Persisted
<1>4. CASE WriteFile(c)
  <2>1. upload[c].phase = "authed" /\ upload'[c].phase = "written"
        /\ (\A d \in Cv \ {c} : upload'[d] = upload[d]) /\ UNCHANGED cvs
    BY <1>4, UploadEffects DEF WriteFile, UploadBecomes
  <2>2. files' = files \cup {c}
    BY <1>4 DEF WriteFile
  <2>3. ~Stored(c) /\ deleting[c].phase = "no" /\ c \notin account.keys
    BY <2>1 DEF FilesInv, Persisted
  <2> QED BY <1>1, <2>1, <2>2, <2>3 DEF FilesInv, NothingStray, Stored, Persisted
<1>5. CASE Insert(c)
  <2>1. upload[c].phase = "written" /\ upload'[c].phase = "inserted" /\ account.phase = "open"
        /\ (\A d \in Cv \ {c} : upload'[d] = upload[d]) /\ UNCHANGED <<cvs, files>>
    BY <1>5, UploadEffects DEF Insert, UploadBecomes
  <2> QED BY <1>1, <2>1 DEF FilesInv, NothingStray, Stored, Persisted
<1>6. CASE PersistFails(c)
  <2>1. upload[c].phase \in {"written", "inserted"} /\ upload'[c].phase = "failed"
        /\ (\A d \in Cv \ {c} : upload'[d] = upload[d]) /\ UNCHANGED cvs
    BY <1>6, UploadEffects DEF PersistFails, UploadBecomes
  <2>2. files' \subseteq files
    BY <1>6 DEF PersistFails
  <2> QED BY <1>1, <2>1, <2>2 DEF FilesInv, NothingStray, Stored, Persisted
<1>7. CASE CommitRow(c)
  <2>1. upload[c].phase = "inserted" /\ upload'[c].phase = "stored"
        /\ (\A d \in Cv \ {c} : upload'[d] = upload[d]) /\ UNCHANGED files
    BY <1>7, UploadEffects DEF CommitRow, UploadBecomes
  <2>2. cvs'[c] = "pending" /\ \A d \in Cv \ {c} : cvs'[d] = cvs[d]
    BY <1>7 DEF CommitRow, TypeOK
  <2>3. account.phase \notin {"held", "emptied"}
    BY <2>1 DEF FilesInv
  <2> QED BY <1>1, <2>1, <2>2, <2>3 DEF FilesInv, NothingStray, Stored, Persisted
<1>8. CASE RemovalStep(c)
  <2>1. /\ upload[c].phase \in Persisted /\ upload'[c].phase \in Persisted \ {"dead"}
        /\ upload[c].phase # "dead" /\ \A d \in Cv \ {c} : upload'[d] = upload[d]
    BY <1>8, RemovalEffects, AnswerEffect
       DEF RemovalStep, SelectSuperseded, LockSuperseded, UnlinkSuperseded, CommitRemoval,
           UploadBecomes, Persisted
  <2>2. /\ files' \subseteq files
        /\ \A d \in Cv : Stored(d)' => Stored(d)
        /\ \A d \in files' : Stored(d) => Stored(d)'
    BY <1>8 DEF RemovalStep, SelectSuperseded, LockSuperseded, UnlinkSuperseded, CommitRemoval,
                Stored, TypeOK
  <2> QED BY <1>1, <2>1, <2>2 DEF FilesInv, NothingStray, Persisted
<1>9. CASE UploadDies(c)
  <2>1. upload[c].phase \notin {"none", "answered", "failed", "dead"}
        /\ upload'[c].phase = "dead"
        /\ (\A d \in Cv \ {c} : upload'[d] = upload[d]) /\ UNCHANGED <<cvs, files>>
    BY <1>9, RemovalEffects DEF UploadDies, UploadBecomes
  <2> QED BY <1>1, <2>1 DEF FilesInv, NothingStray, Stored, Persisted
<1> QED BY <1>2, <1>3, <1>4, <1>5, <1>6, <1>7, <1>8, <1>9 DEF UploadStep

LEMMA FilesDeleting ==
  ASSUME TypeOK, FilesInv, NEW c \in Cv, LockDeleted(c) \/ DeletingStep(c) \/ DeletingDies(c)
  PROVE  FilesInv'
<1>1. UNCHANGED <<account, upload>> /\ files \subseteq Cv
  BY DEF TypeOK, LockDeleted, DeletingStep, DeletingDies, UnlinkDeleted, CheckNewest, LookAtDeleted,
         CommitDeleted
<1>2. CASE LockDeleted(c)
  <2>1. Stored(c) /\ deleting'[c].phase = "locked" /\ UNCHANGED <<cvs, files>>
        /\ \A d \in Cv \ {c} : deleting'[d] = deleting[d]
    BY <1>2, DeletingEffects DEF LockDeleted, DeletingBecomes
  <2> QED BY <1>1, <2>1 DEF FilesInv, NothingStray, Stored
<1>3. CASE UnlinkDeleted(c)
  <2>1. /\ deleting[c].phase = "locked" /\ UNCHANGED cvs
        /\ \A d \in Cv \ {c} : deleting'[d] = deleting[d]
        /\ \/ deleting'[c].phase = "unlinked" /\ files' = files \ {c}
           \/ deleting'[c].phase = "no" /\ UNCHANGED files
    BY <1>3, DeletingEffects DEF UnlinkDeleted, DeletingBecomes
  <2> QED BY <1>1, <2>1 DEF FilesInv, NothingStray, Stored
<1>4. CASE CheckNewest(c) \/ LookAtDeleted(c)
  <2>1. /\ deleting[c].phase \in {"unlinked", "newest"} /\ UNCHANGED <<cvs, files>>
        /\ deleting'[c].phase \in {"newest", "older", "clearing"}
        /\ \A d \in Cv \ {c} : deleting'[d] = deleting[d]
    BY <1>4, DeletingEffects DEF CheckNewest, LookAtDeleted, DeletingBecomes
  <2> QED BY <1>1, <2>1 DEF FilesInv, NothingStray, Stored
<1>5. CASE CommitDeleted(c)
  <2>1. /\ deleting[c].phase \in {"older", "clearing"} /\ UNCHANGED files
        /\ deleting'[c].phase \in Deleted
        /\ \A d \in Cv \ {c} : deleting'[d] = deleting[d]
    BY <1>5, DeletingEffects DEF CommitDeleted, DeletingBecomes, Deleted
  <2>2. ~Stored(c)' /\ \A d \in Cv \ {c} : Stored(d)' = Stored(d)
    BY <1>5 DEF CommitDeleted, Stored, TypeOK
  <2> QED BY <1>1, <2>1, <2>2 DEF FilesInv, NothingStray, Deleted
<1>6. CASE DeletingDies(c)
  <2>1. /\ deleting'[c].phase = "no" /\ UNCHANGED <<cvs, files>>
        /\ \A d \in Cv \ {c} : deleting'[d] = deleting[d]
    BY <1>6, DeletingEffects DEF DeletingDies, DeletingBecomes
  <2> QED BY <1>1, <2>1 DEF FilesInv, NothingStray, Stored
<1> QED BY <1>2, <1>3, <1>4, <1>5, <1>6 DEF DeletingStep

LEMMA FilesAccount ==
  ASSUME TypeOK, FilesInv, AccountStep
  PROVE  FilesInv'
<1>1. UNCHANGED <<upload, deleting>> /\ (DropAccount \/ UNCHANGED cvs) /\ files \subseteq Cv
  BY DEF TypeOK, AccountStep, HoldAccount, EmptyAccount, EmptyFails, DropAccount, AccountDies, SaveProfile
<1>2. CASE HoldAccount
  <2>1. account'.phase = "held" /\ account'.keys = {c \in Cv : Stored(c)} /\ UNCHANGED files
    BY <1>2 DEF HoldAccount, TypeOK, AccountState
  <2>2. \A c \in Cv : upload[c].phase # "inserted"
    BY <1>2 DEF HoldAccount
  <2> QED BY <1>1, <1>2, <2>1, <2>2 DEF HoldAccount, FilesInv, NothingStray, Stored
<1>3. CASE EmptyAccount
  <2>1. /\ account.phase = "held" /\ account'.phase = "emptied" /\ account'.keys = account.keys
        /\ files' = files \ account.keys
    BY <1>3 DEF EmptyAccount, TypeOK, AccountState
  <2> QED BY <1>1, <1>3, <2>1 DEF EmptyAccount, FilesInv, NothingStray, Stored
<1>4. CASE EmptyFails \/ AccountDies
  <2>1. account'.phase = "open" /\ account'.keys = {} /\ files' \subseteq files
    BY <1>4 DEF EmptyFails, AccountDies, TypeOK, AccountState
  <2> QED BY <1>1, <1>4, <2>1 DEF EmptyFails, AccountDies, FilesInv, NothingStray, Stored
<1>5. CASE DropAccount
  <2>1. /\ account.phase = "emptied" /\ account'.phase = "gone" /\ account'.keys = {}
        /\ UNCHANGED files /\ \A c \in Cv : ~Stored(c)'
    BY <1>5 DEF DropAccount, Stored
  <2>2. \A c \in files : ~Stored(c)
    BY <2>1 DEF FilesInv, TypeOK
  <2> QED BY <1>1, <2>1, <2>2 DEF FilesInv, NothingStray
<1>6. CASE SaveProfile
  <2>1. account'.phase = "open" /\ account'.keys = account.keys /\ UNCHANGED <<cvs, files>>
    BY <1>6 DEF SaveProfile, TypeOK, AccountState
  <2> QED BY <1>1, <2>1 DEF FilesInv, NothingStray, Stored
<1> QED BY <1>2, <1>3, <1>4, <1>5, <1>6 DEF AccountStep

LEMMA FilesStep == TypeOK /\ FilesInv /\ [Next]_vars => FilesInv'
<1> SUFFICES ASSUME TypeOK, FilesInv, [Next]_vars PROVE FilesInv'
  OBVIOUS
<1>1. ASSUME NEW c \in Cv, ReadingStep(c) \/ ReadingDies(c) PROVE FilesInv'
  BY <1>1, ReadingFrame DEF FilesInv, NothingStray, TypeOK
<1>2. ASSUME NEW k \in Concept, PickSkill(k) \/ DropSkill(k) PROVE FilesInv'
  BY <1>2 DEF PickSkill, DropSkill, FilesInv, NothingStray, Stored
<1>3. CASE UNCHANGED vars
  BY <1>3 DEF vars, FilesInv, NothingStray, Stored
<1> QED BY <1>1, <1>2, <1>3, FilesUpload, FilesDeleting, FilesAccount DEF Next, CvStep

\* The bytes of a CV go with its row: replacing a CV, deleting one and deleting the account
\* leave no file behind that no row names, however they overlap uploads and each other.
THEOREM FilesGoWithRows == Spec => []NothingStray
<1>1. TypeOK /\ FilesInv => NothingStray
  BY DEF FilesInv
<1> QED BY <1>1, TypeInit, TypeStep, FilesInit, FilesStep, PTL DEF Spec

-----------------------------------------------------------------------------
(* Which of two uploads survives.                                            *)

\* What LaterSurvives rests on: to have begun before is one-way, and an upload removes only
\* what began before it.
OrderInv ==
  /\ \A c, d \in Cv :
       /\ c \in upload[d].before => upload[c].phase # "none" /\ d \notin upload[c].before
       /\ c \in upload[d].doomed => c \in upload[d].before
  /\ LaterSurvives

LEMMA OrderInit == Init => OrderInv
BY DEF Init, OrderInv, LaterSurvives, NoUpload

\* Once begun an upload's place in the order is fixed, and an answered upload stays answered.
LEMMA UploadOrder ==
  ASSUME TypeOK, NEW c \in Cv, UploadStep(c), ~Begin(c)
  PROVE  /\ upload[c].phase # "none" /\ upload'[c].phase # "none"
         /\ upload'[c].before = upload[c].before
         /\ upload[c].phase = "answered" => upload'[c].phase = "answered"
         /\ \A d \in Cv \ {c} : upload'[d] = upload[d]
         /\ upload'[c].doomed \subseteq upload[c].doomed \cup upload[c].before
<1>1. CASE Refuse(c) \/ WriteFile(c) \/ Insert(c) \/ PersistFails(c) \/ CommitRow(c)
  BY <1>1, UploadEffects DEF UploadBecomes
<1>2. CASE SelectSuperseded(c)
  <2>1. CASE Superseded(c) = {}
    BY <1>2, <2>1, AnswerEffect DEF SelectSuperseded, UploadBecomes
  <2>2. CASE Superseded(c) # {}
    BY <1>2, <2>2, RemovalEffects DEF SelectSuperseded, UploadBecomes, Superseded
  <2> QED BY <2>1, <2>2
<1>3. CASE LockSuperseded(c) \/ UnlinkSuperseded(c) \/ UploadDies(c)
  BY <1>3, RemovalEffects DEF LockSuperseded, UnlinkSuperseded, UploadDies, UploadBecomes
<1>4. CASE CommitRemoval(c)
  BY <1>4, AnswerEffect DEF CommitRemoval, UploadBecomes
<1> QED BY <1>1, <1>2, <1>3, <1>4 DEF UploadStep, RemovalStep

\* The order survives every step of an upload.
LEMMA OrderKept ==
  ASSUME TypeOK, OrderInv, NEW c \in Cv, UploadStep(c)
  PROVE  \A x, d \in Cv :
           /\ x \in upload'[d].before => upload'[x].phase # "none" /\ d \notin upload'[x].before
           /\ x \in upload'[d].doomed => x \in upload'[d].before
<1>1. CASE Begin(c)
  <2>1. /\ upload[c].phase = "none" /\ upload'[c].phase = "authed"
        /\ upload'[c].before = {d \in Cv : upload[d].phase # "none"}
        /\ upload'[c].doomed = upload[c].doomed /\ upload[c].doomed = {}
        /\ \A d \in Cv \ {c} : upload'[d] = upload[d]
    BY <1>1, UploadEffects DEF UploadBecomes, TypeOK
  <2>2. c \notin upload'[c].before /\ \A d \in Cv : c \notin upload[d].before
    BY <2>1 DEF OrderInv
  <2> QED BY <2>1, <2>2 DEF OrderInv
<1>2. CASE ~Begin(c)
  BY <1>2, UploadOrder DEF OrderInv
<1> QED BY <1>1, <1>2

\* An upload whose row is committed.
Kept == {"stored", "selected", "removing", "unlinked", "answered"}

LEMMA LaterUpload ==
  ASSUME TypeOK, OrderInv, NEW c \in Cv, UploadStep(c)
  PROVE  LaterSurvives'
<1>1. UNCHANGED <<account, deleting>>
  BY DEF UploadStep, RemovalStep, Begin, Refuse, WriteFile, Insert, PersistFails, CommitRow,
         SelectSuperseded, LockSuperseded, UnlinkSuperseded, CommitRemoval, UploadDies
<1> SUFFICES ASSUME NEW x \in Cv, upload'[x].phase \in Kept, ~Stored(x)',
                    deleting[x].phase \notin Deleted, account.phase # "gone"
             PROVE  \E d \in Cv : /\ x \in upload'[d].before /\ d \notin upload'[x].before
                                  /\ upload'[d].phase = "answered"
  BY <1>1 DEF LaterSurvives, Kept
<1>2. \A d \in Cv : x \in upload'[d].before => d \notin upload'[x].before
  BY OrderKept
<1>3. ASSUME ~Stored(x), upload[x].phase \in Kept
      PROVE  \E d \in Cv : x \in upload'[d].before /\ upload'[d].phase = "answered"
  <2>1. PICK d \in Cv : x \in upload[d].before /\ upload[d].phase = "answered"
    BY <1>3 DEF OrderInv, LaterSurvives, Kept
  <2>2. CASE Begin(c)
    <3>1. upload[c].phase = "none" /\ \A e \in Cv \ {c} : upload'[e] = upload[e]
      BY <2>2, UploadEffects DEF UploadBecomes
    <3> QED BY <2>1, <3>1
  <2>3. CASE ~Begin(c)
    BY <2>1, <2>3, UploadOrder
  <2> QED BY <2>2, <2>3
<1>4. CASE Begin(c) \/ Refuse(c) \/ WriteFile(c) \/ Insert(c) \/ PersistFails(c) \/ UploadDies(c)
  <2>1. UNCHANGED cvs /\ upload'[c].phase \notin Kept /\ \A d \in Cv \ {c} : upload'[d] = upload[d]
    BY <1>4, UploadEffects, RemovalEffects
       DEF Begin, Refuse, WriteFile, Insert, PersistFails, UploadDies, UploadBecomes, Kept
  <2>2. ~Stored(x) /\ upload[x].phase \in Kept
    BY <2>1 DEF Stored
  <2> QED BY <1>2, <1>3, <2>2
<1>5. CASE CommitRow(c)
  <2>1. cvs'[c] = "pending" /\ \A d \in Cv \ {c} : cvs'[d] = cvs[d]
    BY <1>5 DEF CommitRow, TypeOK
  <2>2. \A d \in Cv \ {c} : upload'[d] = upload[d]
    BY <1>5, UploadEffects DEF UploadBecomes
  <2>3. ~Stored(x) /\ upload[x].phase \in Kept
    BY <2>1, <2>2 DEF Stored
  <2> QED BY <1>2, <1>3, <2>3
<1>6. CASE SelectSuperseded(c) \/ LockSuperseded(c) \/ UnlinkSuperseded(c)
  <2>1. UNCHANGED cvs /\ upload[c].phase \in Kept
    BY <1>6 DEF SelectSuperseded, LockSuperseded, UnlinkSuperseded, Kept
  <2>2. \A d \in Cv \ {c} : upload'[d] = upload[d]
    BY <1>6, UploadOrder DEF UploadStep, RemovalStep, Begin, SelectSuperseded, LockSuperseded,
                             UnlinkSuperseded
  <2>3. ~Stored(x) /\ upload[x].phase \in Kept
    BY <2>1, <2>2 DEF Stored
  <2> QED BY <1>2, <1>3, <2>3
<1>7. CASE CommitRemoval(c)
  <2>1. /\ upload[c].phase \in Kept /\ upload'[c].phase = "answered"
        /\ upload'[c].before = upload[c].before /\ \A d \in Cv \ {c} : upload'[d] = upload[d]
    BY <1>7, AnswerEffect DEF CommitRemoval, UploadBecomes, Kept
  <2>2. upload[x].phase \in Kept
    BY <2>1
  <2>3. CASE Stored(x)
    <3>1. x \in upload[c].doomed
      BY <1>7, <2>3 DEF CommitRemoval, Stored
    <3>2. x \in upload'[c].before
      BY <2>1, <3>1 DEF OrderInv
    <3> QED BY <1>2, <2>1, <3>2
  <2> QED BY <1>2, <1>3, <2>2, <2>3
<1> QED BY <1>4, <1>5, <1>6, <1>7 DEF UploadStep, RemovalStep

LEMMA LaterElsewhere ==
  ASSUME TypeOK, OrderInv, UNCHANGED upload,
         \A x \in Cv : deleting[x].phase \in Deleted => deleting'[x].phase \in Deleted,
         account.phase = "gone" => account'.phase = "gone",
         \A x \in Cv : ~Stored(x)' => \/ ~Stored(x) \/ deleting'[x].phase \in Deleted
                                      \/ account'.phase = "gone"
  PROVE  OrderInv'
<1>1. LaterSurvives'
  BY DEF OrderInv, LaterSurvives
<1> QED BY <1>1 DEF OrderInv

LEMMA OrderStep == TypeOK /\ OrderInv /\ [Next]_vars => OrderInv'
<1> SUFFICES ASSUME TypeOK, OrderInv, [Next]_vars PROVE OrderInv'
  OBVIOUS
<1>1. ASSUME NEW c \in Cv, UploadStep(c) PROVE OrderInv'
  BY <1>1, OrderKept, LaterUpload DEF OrderInv
<1>2. ASSUME NEW c \in Cv, ReadingStep(c) \/ ReadingDies(c) PROVE OrderInv'
  BY <1>2, ReadingFrame, LaterElsewhere
<1>3. ASSUME NEW c \in Cv, LockDeleted(c) \/ DeletingStep(c) \/ DeletingDies(c) PROVE OrderInv'
  <2>1. UNCHANGED <<upload, account>>
    BY <1>3 DEF LockDeleted, DeletingStep, DeletingDies, UnlinkDeleted, CheckNewest,
                LookAtDeleted, CommitDeleted
  <2>2. /\ \A d \in Cv \ {c} : deleting'[d] = deleting[d]
        /\ deleting[c].phase \notin Deleted
    BY <1>3, DeletingEffects
       DEF LockDeleted, DeletingStep, DeletingDies, UnlinkDeleted, CheckNewest, LookAtDeleted,
           CommitDeleted, DeletingBecomes, Deletes, Deleted
  <2>3. CASE CommitDeleted(c)
    <3>1. deleting'[c].phase \in Deleted
      BY <2>3, DeletingEffects DEF DeletingBecomes, Deleted
    <3>2. \A d \in Cv \ {c} : Stored(d)' = Stored(d)
      BY <2>3 DEF CommitDeleted, Stored, TypeOK
    <3> QED BY <2>1, <2>2, <3>1, <3>2, LaterElsewhere
  <2>4. CASE ~CommitDeleted(c)
    <3>1. UNCHANGED cvs
      BY <1>3, <2>4 DEF LockDeleted, DeletingStep, DeletingDies, UnlinkDeleted, CheckNewest,
                        LookAtDeleted
    <3> QED BY <2>1, <2>2, <3>1, LaterElsewhere DEF Stored
  <2> QED BY <2>3, <2>4
<1>4. CASE AccountStep
  <2>1. UNCHANGED <<upload, deleting>> /\ (DropAccount \/ UNCHANGED cvs)
    BY <1>4 DEF AccountStep, HoldAccount, EmptyAccount, EmptyFails, DropAccount, AccountDies,
                SaveProfile
  <2>2. account.phase # "gone" /\ (DropAccount => account'.phase = "gone")
    BY <1>4 DEF AccountStep, HoldAccount, EmptyAccount, EmptyFails, DropAccount, AccountDies,
                SaveProfile
  <2> QED BY <2>1, <2>2, LaterElsewhere DEF Stored
<1>5. ASSUME NEW k \in Concept, PickSkill(k) \/ DropSkill(k) PROVE OrderInv'
  BY <1>5, LaterElsewhere DEF PickSkill, DropSkill, Stored
<1>6. CASE UNCHANGED vars
  BY <1>6, LaterElsewhere DEF vars, Stored
<1> QED BY <1>1, <1>2, <1>3, <1>4, <1>5, <1>6 DEF Next, CvStep

\* Of uploads racing each other the later survives: a CV once stored is gone only by its
\* owner's deletion, the account's, or an answered upload that began after it.
THEOREM LaterUploadSurvives == Spec => []LaterSurvives
<1>1. TypeOK /\ OrderInv => LaterSurvives
  BY DEF OrderInv
<1> QED BY <1>1, TypeInit, TypeStep, OrderInit, OrderStep, PTL DEF Spec

-----------------------------------------------------------------------------
(* Skills: what the locks of a CV's row and of a skill's row keep apart.     *)

\* A reading and a deletion never both hold the CV's row.
RowLock ==
  \A c \in Cv : deleting[c].phase \in {"locked", "unlinked", "newest", "older", "clearing"} =>
                  reading[c].phase \notin {"locked", "clearing", "cleared"}

\* A deletion about to take the skills of the newest CV has found them all; once done it leaves
\* none, and no row to write more from.
Taken ==
  \A c \in Cv :
    /\ deleting[c].phase = "clearing" =>
         \A k \in Concept : skills[k] = c => <<k, c>> \in deleting[c].sees
    /\ deleting[c].phase \in Deleted => ~Stored(c)
    /\ deleting[c].phase = "deleted" => \A k \in Concept : skills[k] # c

\* What a reading has cleared is still as it found it, and cleared by no other.
Cleared ==
  \A c \in Cv : reading[c].phase = "cleared" =>
    \A k \in Concept, v \in Cv : <<k, v>> \in reading[c].sees =>
      /\ skills[k] = v
      /\ \A d \in Cv \ {c}, w \in Cv :
           reading[d].phase = "cleared" => <<k, w>> \notin reading[d].sees

LEMMA SkillsInit == Init => RowLock /\ Taken /\ Cleared
BY DEF Init, RowLock, Taken, Cleared, NotDeleting, NoReading, Deleted

LEMMA RowLockStep == TypeOK /\ RowLock /\ [Next]_vars => RowLock'
<1> SUFFICES ASSUME TypeOK, RowLock, [Next]_vars PROVE RowLock'
  OBVIOUS
<1>1. ASSUME NEW c \in Cv, UploadStep(c) PROVE RowLock'
  <2>1. UNCHANGED deleting
    BY <1>1 DEF UploadStep, RemovalStep, Begin, Refuse, WriteFile, Insert, PersistFails, CommitRow,
                SelectSuperseded, LockSuperseded, UnlinkSuperseded, CommitRemoval, UploadDies
  <2>2. UNCHANGED reading \/ Answer(c)
    BY <1>1 DEF UploadStep, RemovalStep, Begin, Refuse, WriteFile, Insert, PersistFails, CommitRow,
                SelectSuperseded, LockSuperseded, UnlinkSuperseded, CommitRemoval, UploadDies
  <2>3. Answer(c) => ReadingBecomes(c, "queued", {})
    BY AnswerEffect
  <2> QED BY <2>1, <2>2, <2>3 DEF RowLock, ReadingBecomes
<1>2. ASSUME NEW c \in Cv, ReadingStep(c) \/ ReadingDies(c) PROVE RowLock'
  <2>1. \A d \in Cv \ {c} : reading'[d] = reading[d]
    BY <1>2, ReadingEffects DEF ReadingStep, ReadingBecomes
  <2>2. reading'[c].phase \in {"locked", "clearing", "cleared"} =>
          \/ reading[c].phase \in {"locked", "clearing", "cleared"}
          \/ ~Held(c)
    BY <1>2, ReadingEffects
       DEF ReadingStep, ReadingBecomes, LockRow, LookAtSkills, Clear
  <2> QED BY <1>2, <2>1, <2>2, ReadingFrame DEF RowLock, Held
<1>3. ASSUME NEW c \in Cv, LockDeleted(c) \/ DeletingStep(c) \/ DeletingDies(c) PROVE RowLock'
  <2>1. (\A d \in Cv \ {c} : deleting'[d] = deleting[d]) /\ UNCHANGED reading
    BY <1>3, DeletingEffects
       DEF LockDeleted, DeletingStep, DeletingDies, UnlinkDeleted, CheckNewest, LookAtDeleted,
           CommitDeleted, DeletingBecomes
  <2>2. deleting'[c].phase \in {"locked", "unlinked", "newest", "older", "clearing"} =>
          \/ deleting[c].phase \in {"locked", "unlinked", "newest", "older", "clearing"}
          \/ ~Held(c)
    BY <1>3, DeletingEffects DEF DeletingStep, DeletingBecomes, LockDeleted, LookAtDeleted
  <2> QED BY <2>1, <2>2 DEF RowLock, Held
<1>4. CASE UNCHANGED <<reading, deleting>>
  BY <1>4 DEF RowLock
<1>5. AccountStep \/ (\E k \in Concept : PickSkill(k) \/ DropSkill(k)) \/ UNCHANGED vars =>
        UNCHANGED <<reading, deleting>>
  BY DEF AccountStep, HoldAccount, EmptyAccount, EmptyFails, DropAccount, AccountDies, SaveProfile,
         PickSkill, DropSkill, vars
<1> QED BY <1>1, <1>2, <1>3, <1>4, <1>5 DEF Next, CvStep

\* The steps that write the profile's skills.
LEMMA SkillSteps ==
  [Next]_vars => \/ UNCHANGED skills \/ DropAccount
                 \/ \E d \in Cv : StoreSkills(d) \/ CommitDeleted(d)
                 \/ \E j \in Concept : PickSkill(j) \/ DropSkill(j)
BY DEF Next, CvStep, UploadStep, RemovalStep, Begin, Refuse, WriteFile, Insert, PersistFails,
       CommitRow, SelectSuperseded, LockSuperseded, UnlinkSuperseded, CommitRemoval, UploadDies,
       ReadingStep, Start, Parse, GiveUp, LockRow, FinishWithoutProfile, LookAtSkills, Clear,
       ReadingDies, LockDeleted, DeletingStep, UnlinkDeleted, CheckNewest, LookAtDeleted,
       DeletingDies, AccountStep, HoldAccount, EmptyAccount, EmptyFails, AccountDies, SaveProfile,
       vars

\* Apart from StoreSkills, no step writes a CV's name on a skill.
LEMMA Writers ==
  ASSUME TypeOK, [Next]_vars, NEW c \in Cv, NEW k \in Concept, skills'[k] = c
  PROVE  skills[k] = c \/ (StoreSkills(c) /\ Stored(c))
<1>1. ASSUME NEW d \in Cv, StoreSkills(d) PROVE skills[k] = c \/ (StoreSkills(c) /\ Stored(c))
  <2>1. skills'[k] = IF Stored(d) THEN Written(d, k) ELSE skills[k]
    BY <1>1 DEF StoreSkills
  <2>2. Written(d, k) \in {d, skills[k], Nobody}
    BY DEF Written
  <2> QED BY <1>1, <2>1, <2>2, CvAssumption
<1>2. ASSUME NEW d \in Cv, CommitDeleted(d) PROVE skills[k] = c
  BY <1>2, CvAssumption DEF CommitDeleted
<1>3. ASSUME NEW j \in Concept, PickSkill(j) \/ DropSkill(j) PROVE skills[k] = c
  BY <1>3, CvAssumption DEF PickSkill, DropSkill, TypeOK
<1>4. CASE DropAccount
  BY <1>4, CvAssumption DEF DropAccount
<1>5. CASE UNCHANGED skills
  BY <1>5
<1> QED BY <1>1, <1>2, <1>3, <1>4, <1>5, SkillSteps

\* Only the commit of its upload stores a CV, and no other step than its owner's moves a
\* deletion.
LEMMA Storers ==
  ASSUME TypeOK, [Next]_vars, NEW c \in Cv, Stored(c)', ~Stored(c)
  PROVE  CommitRow(c)
<1>1. ASSUME NEW d \in Cv, ReadingStep(d) \/ ReadingDies(d) PROVE FALSE
  BY <1>1, ReadingFrame
<1>2. ASSUME NEW d \in Cv, CommitRow(d) PROVE CommitRow(c)
  BY <1>2 DEF CommitRow, Stored, TypeOK
<1>3. ASSUME NEW d \in Cv, CommitRemoval(d) \/ CommitDeleted(d) PROVE FALSE
  BY <1>3 DEF CommitRemoval, CommitDeleted, Stored, TypeOK
<1>4. ~DropAccount /\ cvs' # cvs
  BY DEF DropAccount, Stored
<1>5. \/ UNCHANGED cvs \/ DropAccount
      \/ \E d \in Cv : \/ ReadingStep(d) \/ ReadingDies(d)
                       \/ CommitRow(d) \/ CommitRemoval(d) \/ CommitDeleted(d)
  BY DEF Next, CvStep, UploadStep, RemovalStep, Begin, Refuse, WriteFile, Insert, PersistFails,
         SelectSuperseded, LockSuperseded, UnlinkSuperseded, UploadDies, LockDeleted, DeletingStep,
         UnlinkDeleted, CheckNewest, LookAtDeleted, DeletingDies, AccountStep, HoldAccount,
         EmptyAccount, EmptyFails, AccountDies, SaveProfile, PickSkill, DropSkill, vars
<1> QED BY <1>1, <1>2, <1>3, <1>4, <1>5

LEMMA Deleters ==
  ASSUME TypeOK, [Next]_vars, NEW c \in Cv, deleting'[c] # deleting[c]
  PROVE  LockDeleted(c) \/ DeletingStep(c) \/ DeletingDies(c)
<1>1. deleting' # deleting
  OBVIOUS
<1>2. PICK d \in Cv : LockDeleted(d) \/ DeletingStep(d) \/ DeletingDies(d)
  BY <1>1 DEF Next, CvStep, UploadStep, RemovalStep, Begin, Refuse, WriteFile, Insert, PersistFails,
         CommitRow, SelectSuperseded, LockSuperseded, UnlinkSuperseded, CommitRemoval, UploadDies,
         ReadingStep, Start, Parse, GiveUp, LockRow, FinishWithoutProfile, LookAtSkills, Clear,
         StoreSkills, ReadingDies, AccountStep, HoldAccount, EmptyAccount, EmptyFails, DropAccount,
         AccountDies, SaveProfile, PickSkill, DropSkill, vars
<1>3. \A e \in Cv \ {d} : deleting'[e] = deleting[e]
  BY <1>2, DeletingEffects DEF DeletingStep, DeletingBecomes
<1> QED BY <1>2, <1>3

LEMMA TakenStep == TypeOK /\ FilesInv /\ RowLock /\ Taken /\ [Next]_vars => Taken'
<1> SUFFICES ASSUME TypeOK, FilesInv, RowLock, Taken, [Next]_vars, NEW c \in Cv
             PROVE  /\ deleting'[c].phase = "clearing" =>
                         \A k \in Concept : skills'[k] = c => <<k, c>> \in deleting'[c].sees
                    /\ deleting'[c].phase \in Deleted => ~Stored(c)'
                    /\ deleting'[c].phase = "deleted" => \A k \in Concept : skills'[k] # c
  BY DEF Taken
<1>1. CASE deleting'[c] = deleting[c]
  <2>1. ASSUME deleting[c].phase = "clearing", NEW k \in Concept, skills'[k] = c
        PROVE  <<k, c>> \in deleting[c].sees
    <3>1. ~StoreSkills(c)
      BY <2>1 DEF RowLock, StoreSkills
    <3> QED BY <2>1, <3>1, Writers DEF Taken
  <2>2. ASSUME deleting[c].phase \in Deleted PROVE ~Stored(c)'
    <3>1. ~Stored(c) /\ upload[c].phase \in Persisted
      BY <2>2 DEF Taken, FilesInv, Deleted
    <3>2. ~CommitRow(c)
      BY <3>1 DEF CommitRow, Persisted
    <3> QED BY <3>1, <3>2, Storers
  <2>3. ASSUME deleting[c].phase = "deleted", NEW k \in Concept PROVE skills'[k] # c
    BY <2>3, Writers DEF Taken, Deleted
  <2> QED BY <1>1, <2>1, <2>2, <2>3
<1>2. CASE LockDeleted(c) \/ UnlinkDeleted(c) \/ CheckNewest(c) \/ DeletingDies(c)
  <2>1. deleting'[c].phase \notin {"clearing", "deleted", "deletedOlder"}
    BY <1>2, DeletingEffects DEF DeletingBecomes
  <2> QED BY <2>1 DEF Deleted
<1>3. CASE LookAtDeleted(c)
  <2>1. deleting'[c].phase = "clearing" /\ deleting'[c].sees = Inferred /\ UNCHANGED skills
    BY <1>3, DeletingEffects DEF LookAtDeleted, DeletingBecomes
  <2> QED BY <2>1 DEF Deleted, Inferred
<1>4. CASE CommitDeleted(c)
  <2>1. ~Stored(c)'
    BY <1>4 DEF CommitDeleted, Stored, TypeOK
  <2>2. CASE deleting[c].phase = "older"
    <3>1. deleting'[c].phase = "deletedOlder"
      BY <1>4, <2>2, DeletingEffects DEF DeletingBecomes
    <3> QED BY <2>1, <3>1
  <2>3. CASE deleting[c].phase = "clearing"
    <3>1. deleting'[c].phase = "deleted"
      BY <1>4, <2>3, DeletingEffects DEF DeletingBecomes
    <3>2. ASSUME NEW k \in Concept, skills[k] = c PROVE skills'[k] = Nobody
      <4>1. <<k, c>> \in Still(deleting[c].sees)
        BY <2>3, <3>2 DEF Taken, Still, Inferred
      <4> QED BY <1>4, <4>1 DEF CommitDeleted
    <3>3. \A k \in Concept : skills'[k] \in {skills[k], Nobody}
      BY <1>4 DEF CommitDeleted
    <3> QED BY <2>1, <3>1, <3>2, <3>3, CvAssumption
  <2> QED BY <1>4, <2>2, <2>3 DEF CommitDeleted
<1> QED BY <1>1, <1>2, <1>3, <1>4, Deleters DEF DeletingStep

\* The row's lock keeps reading and deletion apart: deleting the newest CV leaves none of the
\* skills it wrote, wherever its reading was, and none comes later.
THEOREM NewestDeletionTakesSkills == Spec => []NewestTakesItsSkills
<1>1. Taken => NewestTakesItsSkills
  BY DEF Taken, NewestTakesItsSkills
<1> QED BY <1>1, TypeInit, TypeStep, FilesInit, FilesStep, SkillsInit, RowLockStep, TakenStep,
           PTL DEF Spec

\* A reading comes to have cleared skills by Clear alone, one reading at a time.
LEMMA Clearers ==
  ASSUME TypeOK, [Next]_vars
  PROVE  /\ \A c \in Cv : reading'[c].phase = "cleared" => reading'[c] = reading[c] \/ Clear(c)
         /\ \A c \in Cv : Clear(c) => \A d \in Cv \ {c} : reading'[d] = reading[d]
<1>1. ASSUME NEW d \in Cv, ReadingStep(d) \/ ReadingDies(d)
      PROVE  /\ reading'[d].phase = "cleared" => Clear(d)
             /\ \A c \in Cv \ {d} : reading'[c] = reading[c]
  <2>1. /\ Start(d) \/ Parse(d) \/ GiveUp(d) \/ LockRow(d) \/ FinishWithoutProfile(d)
           \/ LookAtSkills(d) \/ StoreSkills(d) \/ ReadingDies(d) => reading'[d].phase # "cleared"
        /\ \A c \in Cv \ {d} : reading'[c] = reading[c]
    BY <1>1, ReadingEffects DEF ReadingStep, ReadingBecomes
  <2> QED BY <1>1, <2>1 DEF ReadingStep
<1>2. ASSUME NEW d \in Cv, Answer(d)
      PROVE  reading'[d].phase # "cleared" /\ \A c \in Cv \ {d} : reading'[c] = reading[c]
  BY <1>2, AnswerEffect DEF ReadingBecomes
<1>3. \/ UNCHANGED reading
      \/ \E d \in Cv : ReadingStep(d) \/ ReadingDies(d) \/ Answer(d)
  BY DEF Next, CvStep, UploadStep, RemovalStep, Begin, Refuse, WriteFile, Insert, PersistFails,
         CommitRow, SelectSuperseded, LockSuperseded, UnlinkSuperseded, CommitRemoval, UploadDies,
         LockDeleted, DeletingStep, UnlinkDeleted, CheckNewest, LookAtDeleted, CommitDeleted,
         DeletingDies, AccountStep, HoldAccount, EmptyAccount, EmptyFails, DropAccount, AccountDies,
         SaveProfile, PickSkill, DropSkill, vars
<1>4. \A c \in Cv : Clear(c) => \A d \in Cv \ {c} : reading'[d] = reading[d]
  BY <1>1 DEF ReadingStep
<1> QED BY <1>1, <1>2, <1>3, <1>4

\* No other step touches a skill a reading has cleared, until that reading ends.
LEMMA ClearedUntouched ==
  ASSUME TypeOK, Cleared, [Next]_vars, NEW c \in Cv, NEW k \in Concept, NEW v \in Cv,
         reading[c].phase = "cleared", <<k, v>> \in reading[c].sees, reading'[c] = reading[c]
  PROVE  skills'[k] = skills[k]
<1>1. HeldSkill(k)
  BY DEF HeldSkill
<1>2. ASSUME NEW d \in Cv, StoreSkills(d) PROVE skills'[k] = skills[k]
  <2>1. d # c
    BY <1>2, ReadingEffects DEF ReadingBecomes
  <2>2. k \notin Says[d]
    <3>1. \A p \in reading[c].sees : p[1] \notin Says[d]
      BY <1>2, <2>1 DEF StoreSkills
    <3> QED BY <3>1
  <2>3. reading[d].phase = "cleared"
    BY <1>2 DEF StoreSkills
  <2>4. ~\E w \in Cv : <<k, w>> \in reading[d].sees
    BY <2>1, <2>3 DEF Cleared
  <2>5. Written(d, k) = skills[k]
    BY <2>2, <2>4 DEF Written
  <2> QED BY <1>2, <2>5 DEF StoreSkills
<1>3. ASSUME NEW d \in Cv, CommitDeleted(d) PROVE skills'[k] = skills[k]
  <2>1. ~\E w \in Cv : <<k, w>> \in deleting[d].sees
    <3>1. \A p \in deleting[d].sees : ~HeldSkill(p[1])
      BY <1>3 DEF CommitDeleted
    <3> QED BY <1>1, <3>1
  <2> QED BY <1>3, <2>1 DEF CommitDeleted, Still
<1>4. ASSUME NEW j \in Concept, PickSkill(j) \/ DropSkill(j) PROVE skills'[k] = skills[k]
  BY <1>1, <1>4 DEF PickSkill, DropSkill, TypeOK
<1>5. ~DropAccount
  BY DEF DropAccount, Held
<1> QED BY <1>2, <1>3, <1>4, <1>5, SkillSteps

LEMMA ClearedStep == TypeOK /\ Cleared /\ [Next]_vars => Cleared'
<1> SUFFICES ASSUME TypeOK, Cleared, [Next]_vars,
                    NEW c \in Cv, reading'[c].phase = "cleared",
                    NEW k \in Concept, NEW v \in Cv, <<k, v>> \in reading'[c].sees
             PROVE  /\ skills'[k] = v
                    /\ \A d \in Cv \ {c}, w \in Cv :
                         reading'[d].phase = "cleared" => <<k, w>> \notin reading'[d].sees
  BY DEF Cleared
<1>1. CASE reading'[c] = reading[c]
  <2>1. skills'[k] = v
    BY <1>1, ClearedUntouched DEF Cleared
  <2>2. HeldSkill(k)
    BY <1>1 DEF HeldSkill
  <2>3. ASSUME NEW d \in Cv \ {c}, NEW w \in Cv, reading'[d].phase = "cleared"
        PROVE  <<k, w>> \notin reading'[d].sees
    <3>1. CASE reading'[d] = reading[d]
      BY <1>1, <2>3, <3>1 DEF Cleared
    <3>2. CASE Clear(d)
      <4>1. reading'[d].sees \subseteq reading[d].sees
        BY <3>2, ReadingEffects DEF ReadingBecomes, Still
      <4>2. \A p \in reading[d].sees : ~HeldSkill(p[1])
        BY <3>2 DEF Clear
      <4>3. <<k, w>>[1] = k
        OBVIOUS
      <4> QED BY <2>2, <4>1, <4>2, <4>3
    <3> QED BY <2>3, <3>1, <3>2, Clearers
  <2> QED BY <2>1, <2>3
<1>2. CASE Clear(c)
  <2>1. reading'[c].sees = Still(reading[c].sees) /\ UNCHANGED skills
    BY <1>2, ReadingEffects DEF ReadingBecomes, Clear
  <2>2. skills'[k] = v
    BY <2>1 DEF Still, Inferred
  <2>3. ~HeldSkill(k)
    <3>1. <<k, v>> \in reading[c].sees /\ <<k, v>>[1] = k
      BY <2>1 DEF Still
    <3> QED BY <1>2, <3>1 DEF Clear
  <2>4. ASSUME NEW d \in Cv \ {c}, NEW w \in Cv, reading'[d].phase = "cleared"
        PROVE  <<k, w>> \notin reading'[d].sees
    <3>1. reading'[d] = reading[d]
      BY <1>2, Clearers
    <3> QED BY <2>3, <2>4, <3>1 DEF HeldSkill
  <2> QED BY <2>2, <2>4
<1> QED BY <1>1, <1>2, Clearers

LEMMA ByHandStep ==
  ASSUME TypeOK, Cleared, [Next]_vars, NEW k \in Concept, skills[k] = ByHand
  PROVE  skills'[k] = ByHand \/ k \notin picked'
<1>1. ASSUME NEW d \in Cv, StoreSkills(d) PROVE skills'[k] = ByHand
  <2>1. ASSUME NEW v \in Cv, <<k, v>> \in reading[d].sees PROVE FALSE
    <3>1. reading[d].phase = "cleared"
      BY <1>1 DEF StoreSkills
    <3>2. skills[k] = v
      BY <2>1, <3>1 DEF Cleared
    <3> QED BY <3>2, CvAssumption
  <2>2. Written(d, k) = ByHand
    BY <2>1, CvAssumption DEF Written
  <2> QED BY <1>1, <2>2 DEF StoreSkills
<1>2. ASSUME NEW d \in Cv, CommitDeleted(d) PROVE skills'[k] = ByHand
  <2>1. ~\E v \in Cv : <<k, v>> \in Still(deleting[d].sees)
    BY CvAssumption DEF Still, Inferred
  <2> QED BY <1>2, <2>1 DEF CommitDeleted
<1>3. ASSUME NEW j \in Concept, PickSkill(j) \/ DropSkill(j)
      PROVE  skills'[k] = ByHand \/ k \notin picked'
  <2>1. CASE PickSkill(j)
    BY <2>1, CvAssumption DEF PickSkill, TypeOK
  <2>2. CASE DropSkill(j)
    BY <2>2 DEF DropSkill, TypeOK
  <2> QED BY <1>3, <2>1, <2>2
<1>4. DropAccount => k \notin picked'
  BY DEF DropAccount
<1> QED BY <1>1, <1>2, <1>3, <1>4, SkillSteps

\* Reading a CV and deleting one take only what a CV wrote: a skill the candidate picked before
\* any CV said it stays theirs until they drop it.
THEOREM ByHandKept == Spec => ByHandStands
<1>1. TypeOK /\ Cleared /\ [Next]_vars =>
        [\A k \in Concept : skills[k] = ByHand => skills'[k] = ByHand \/ k \notin picked']_vars
  BY ByHandStep
<1> QED BY <1>1, TypeInit, TypeStep, SkillsInit, ClearedStep, PTL DEF Spec, ByHandStands

=============================================================================
