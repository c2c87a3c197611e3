--------------------------- MODULE CatalogueProofs ---------------------------
(***************************************************************************)
(* What holds of the catalogue for any number of sources, records, jobs    *)
(* and openings, any clock, lifetime, grace and page size.                 *)
(***************************************************************************)
EXTENDS Catalogue, TLAPS

\* What a run holds while a record is under way, and what a row names.
RunHoldsRecord ==
  \A s \in Source :
    run[s].phase \in {"decided", "upserted"} =>
      txn[s].record \in RecordsOf(s) /\ txn[s].job \in Job

RowHasJob == \A r \in Record : prov[r].state # "absent" <=> prov[r].job \in Job

Reconciling == {"retired", "withdrawn"}

GoneIsLive ==
  \A s \in Source :
    run[s].phase \in Reconciling =>
      \A r \in txn[s].gone : r \in RecordsOf(s) /\ prov[r].state = "live"

Typing == TypeOK /\ RunHoldsRecord /\ RowHasJob /\ GoneIsLive

-----------------------------------------------------------------------------
LEMMA TypingInit == Init => Typing
<1> SUFFICES ASSUME Init PROVE Typing
  OBVIOUS
<1>1. AbsentJob \in JobRow /\ AbsentRow \in ProvRow
  BY DEF AbsentJob, JobRow, AbsentRow, ProvRow
<1>2. IdleRun \in RunState /\ NoTxn \in TxnState /\ IdleSweep \in SweepState
  BY DEF IdleRun, RunState, Phase, NoTxn, TxnState, IdleSweep, SweepState
<1>3. TypeOK
  BY <1>1, <1>2 DEF Init, TypeOK, RecordsOf
<1>4. RunHoldsRecord
  BY DEF Init, IdleRun, RunHoldsRecord
<1>5. RowHasJob
  BY CatalogueAssumption DEF Init, AbsentRow, RowHasJob
<1>6. GoneIsLive
  BY DEF Init, IdleRun, GoneIsLive, Reconciling
<1> QED BY <1>3, <1>4, <1>5, <1>6 DEF Typing

\* Records of the right shape, put in the place of a source's, keep run and txn typed.
LEMMA Puts ==
  ASSUME TypeOK, NEW s \in Source
  PROVE  /\ \A rec \in RunState : [run EXCEPT ![s] = rec] \in [Source -> RunState]
         /\ \A rec \in TxnState : [txn EXCEPT ![s] = rec] \in [Source -> TxnState]
<1>1. ASSUME NEW rec \in RunState PROVE [run EXCEPT ![s] = rec] \in [Source -> RunState]
  BY DEF TypeOK
<1>2. ASSUME NEW rec \in TxnState PROVE [txn EXCEPT ![s] = rec] \in [Source -> TxnState]
  BY DEF TypeOK
<1> QED BY <1>1, <1>2

\* A run that only moves to another phase keeps its shape.
LEMMA PhasePut ==
  ASSUME TypeOK, NEW s \in Source, NEW p \in Phase
  PROVE  [run EXCEPT ![s] = [run[s] EXCEPT !.phase = p]] \in [Source -> RunState]
<1>1. run[s] \in RunState
  BY DEF TypeOK
<1>2. [run[s] EXCEPT !.phase = p] \in RunState
  BY <1>1 DEF RunState
<1> QED BY <1>2, Puts

\* What deciding about a record does to its run.
LEMMA DecideTypes ==
  ASSUME TypeOK, NEW s \in Source, NEW r \in RecordsOf(s), NEW j \in Job,
         NEW creates \in SUBSET Change, Decide(s, r, j, creates)
  PROVE  /\ TypeOK'
         /\ run'[s].phase = "decided" /\ txn'[s].record = r /\ txn'[s].job = j
<1> DEFINE todo == run[s].todo \ {r}
<1> DEFINE does == creates \cup {c \in {"revive"} : jobs[j].status = "removed"}
                           \cup {c \in {"restore"} : jobs[j].posting = NoPosting}
<1>1. r \in Record /\ todo \in SUBSET Record
  BY DEF TypeOK, RunState, RecordsOf
<1>2. does \in SUBSET Change
  BY DEF Change
<1>3. run' = [run EXCEPT ![s] = [@ EXCEPT !.phase = "decided", !.todo = todo]]
  BY DEF Decide
<1>4. txn' = [txn EXCEPT ![s] = [@ EXCEPT !.record = r, !.job = j, !.at = now, !.does = does]]
  BY DEF Decide
<1> HIDE DEF todo, does
<1>5. run' \in [Source -> RunState] /\ run'[s].phase = "decided"
  BY <1>1, <1>3 DEF TypeOK, RunState, Phase
<1>6. txn' \in [Source -> TxnState] /\ txn'[s].record = r /\ txn'[s].job = j
  <2> DEFINE rec == [txn[s] EXCEPT !.record = r, !.job = j, !.at = now, !.does = does]
  <2>1. txn[s] \in TxnState /\ now \in Nat /\ s \in DOMAIN txn
    BY DEF TypeOK
  <2>2. rec \in TxnState /\ rec.record = r /\ rec.job = j
    BY <1>1, <1>2, <2>1 DEF TxnState
  <2>3. txn' = [txn EXCEPT ![s] = rec]
    BY <1>4
  <2> HIDE DEF rec
  <2>4. txn'[s] = rec
    BY <2>1, <2>3
  <2> QED BY <2>2, <2>3, <2>4, Puts
<1> QED BY <1>5, <1>6 DEF Decide, TypeOK

\* Committing a record writes a job and a row of the right shape, the row live.
LEMMA CommitTypes ==
  ASSUME Typing, NEW s \in Source, CommitRecord(s)
  PROVE  /\ txn[s].record \in Record /\ txn[s].job \in Job
         /\ Upserted(s) \in ProvRow /\ Upserted(s).state = "live" /\ Upserted(s).job \in Job
         /\ \A touched \in BOOLEAN : Flushed(s, touched) \in JobRow
<1>1. txn[s].record \in Record /\ txn[s].job \in Job
  BY DEF CommitRecord, Typing, RunHoldsRecord, RecordsOf
<1>2. prov[txn[s].record] \in ProvRow /\ jobs[txn[s].job] \in JobRow /\ txn[s].at \in Nat
  BY <1>1 DEF Typing, TypeOK, TxnState
<1>3. prov[txn[s].record].state # "absent" => prov[txn[s].record].job \in Job
  BY <1>1 DEF Typing, RowHasJob
<1>4. Upserted(s) \in ProvRow /\ Upserted(s).state = "live" /\ Upserted(s).job \in Job
  BY <1>1, <1>2, <1>3 DEF Upserted, LaterOf, ProvRow
<1>5. ASSUME NEW touched \in BOOLEAN PROVE Flushed(s, touched) \in JobRow
  <2>1. PostingOf[txn[s].record] \in Posting /\ now \in Nat
    BY <1>1, CatalogueAssumption DEF Typing, TypeOK
  <2>2. CASE "create" \in txn[s].does
    BY <2>1, <2>2 DEF Flushed, JobRow, JobStatus
  <2>3. CASE "create" \notin txn[s].does
    <3> DEFINE job == jobs[txn[s].job]
    <3> DEFINE st == IF "revive" \in txn[s].does THEN "active" ELSE job.status
    <3> DEFINE po == IF "restore" \in txn[s].does THEN PostingOf[txn[s].record] ELSE job.posting
    <3> DEFINE ch == IF "revive" \in txn[s].does \/ touched THEN now ELSE job.changed
    <3>1. job \in JobRow
      BY <1>2
    <3>2. st \in JobStatus \cup {"absent"} /\ po \in Posting \cup {NoPosting} /\ ch \in Nat
      BY <3>1, <2>1 DEF JobRow, JobStatus
    <3>3. Flushed(s, touched) = [job EXCEPT !.status = st, !.posting = po, !.changed = ch]
      BY <2>3, <3>1 DEF Flushed, JobRow
    <3> HIDE DEF job, st, po, ch
    <3> QED BY <3>1, <3>2, <3>3 DEF JobRow
  <2> QED BY <2>2, <2>3
<1> QED BY <1>1, <1>4, <1>5

\* A record refused, or whose upsert fails, leaves its run storing, with a failure noted.
LEMMA RefuseTypes ==
  ASSUME TypeOK, NEW s \in Source, NEW r, RefuseAmbiguous(s, r)
  PROVE  run' \in [Source -> RunState] /\ run'[s].phase = "storing"
<1> DEFINE todo == run[s].todo \ {r}
<1> DEFINE says == run[s].says \cup {"failed"}
<1>1. todo \in SUBSET Record /\ says \in SUBSET Remark
  BY DEF TypeOK, RunState, Remark
<1>2. run' = [run EXCEPT ![s] = [@ EXCEPT !.todo = todo, !.says = says]] /\ run[s].phase = "storing"
  BY DEF RefuseAmbiguous
<1> HIDE DEF todo, says
<1> QED BY <1>1, <1>2 DEF TypeOK, RunState

LEMMA UpsertFailsTypes ==
  ASSUME TypeOK, NEW s \in Source, UpsertFails(s)
  PROVE  run' \in [Source -> RunState] /\ run'[s].phase = "storing"
<1> DEFINE says == run[s].says \cup {"failed"}
<1>1. says \in SUBSET Remark
  BY DEF TypeOK, RunState, Remark
<1>2. run' = [run EXCEPT ![s] = [@ EXCEPT !.phase = "storing", !.says = says]]
  BY DEF UpsertFails
<1> HIDE DEF says
<1> QED BY <1>1, <1>2 DEF TypeOK, RunState, Phase

LEMMA TypeStep == Typing /\ [Next]_vars => TypeOK'
<1> SUFFICES ASSUME Typing, [Next]_vars PROVE TypeOK'
  OBVIOUS
<1> USE DEF Typing
<1>1. CASE World
  <2>1. CASE Tick
    BY <2>1 DEF Tick, TypeOK
  <2>3. CASE Settle
    BY <2>3 DEF Settle, TypeOK
  <2>2. ASSUME NEW r \in Record, MoveListing(r) PROVE TypeOK'
    <3>1. SourceOf[r] \in Source /\ listed[SourceOf[r]] \in SUBSET Record
      BY CatalogueAssumption DEF TypeOK
    <3>2. listed' \in [Source -> SUBSET Record]
      BY <2>2, <3>1 DEF MoveListing, TypeOK
    <3> QED BY <2>2, <3>2 DEF MoveListing, TypeOK
  <2> QED BY <1>1, <2>1, <2>2, <2>3 DEF World
<1>2. ASSUME NEW s \in Source, StartRun(s) PROVE TypeOK'
  <2> DEFINE rec == [run[s] EXCEPT !.phase = "fetching", !.started = now]
  <2>1. run[s] \in RunState /\ now \in Nat
    BY DEF TypeOK
  <2>2. rec \in RunState
    BY <2>1 DEF RunState, Phase
  <2>3. run' = [run EXCEPT ![s] = rec]
    BY <1>2 DEF StartRun
  <2> HIDE DEF rec
  <2>4. run' \in [Source -> RunState]
    BY <2>2, <2>3, Puts
  <2> QED BY <1>2, <2>4 DEF StartRun, TypeOK
<1>3. ASSUME NEW s \in Source, Walk(s) PROVE TypeOK'
  <2>1. PICK got \in SUBSET listed[s], says \in SUBSET Remark :
          run' = [run EXCEPT ![s] = [@ EXCEPT !.phase = "storing", !.offered = listed[s],
                                              !.todo = got, !.says = says]]
    BY <1>3 DEF Walk
  <2>2. listed[s] \in SUBSET Record /\ got \in SUBSET Record
    BY DEF TypeOK
  <2> DEFINE offered == listed[s]
  <2> DEFINE rec == [run[s] EXCEPT !.phase = "storing", !.offered = offered,
                                   !.todo = got, !.says = says]
  <2>3. run[s] \in RunState /\ offered \in SUBSET Record
    BY <2>2 DEF TypeOK
  <2>4. run' = [run EXCEPT ![s] = rec]
    BY <2>1
  <2> HIDE DEF offered
  <2>5. rec \in RunState
    BY <2>2, <2>3 DEF RunState, Phase
  <2> HIDE DEF rec
  <2>6. run' \in [Source -> RunState]
    BY <2>4, <2>5, Puts
  <2> QED BY <1>3, <2>6 DEF Walk, TypeOK
<1>4. ASSUME NEW s \in Source, NEW r \in RecordsOf(s), DecideKnown(s, r) PROVE TypeOK'
  <2>1. prov[r].job \in Job
    BY <1>4 DEF DecideKnown, RowHasJob, RecordsOf
  <2> QED BY <1>4, <2>1, DecideTypes DEF DecideKnown
<1>5. ASSUME NEW s \in Source, NEW r \in RecordsOf(s), DecideMatch(s, r) \/ DecideNew(s, r)
      PROVE  TypeOK'
  BY <1>5, DecideTypes DEF DecideMatch, DecideNew, Change
<1>6. ASSUME NEW s \in Source, NEW r \in RecordsOf(s), RefuseAmbiguous(s, r) PROVE TypeOK'
  BY <1>6, RefuseTypes DEF RefuseAmbiguous, TypeOK
<1>7. ASSUME NEW s \in Source, Upsert(s) PROVE TypeOK'
  <2>1. run' \in [Source -> RunState]
    BY <1>7, PhasePut DEF Upsert, Phase
  <2> QED BY <1>7, <2>1 DEF Upsert, TypeOK
<1>8. ASSUME NEW s \in Source, UpsertFails(s) PROVE TypeOK'
  <2>3. txn' \in [Source -> TxnState]
    BY <1>8 DEF UpsertFails, TypeOK, TxnState, NoTxn
  <2> QED BY <1>8, <2>3, UpsertFailsTypes DEF UpsertFails, TypeOK
<1>9. ASSUME NEW s \in Source, CommitRecord(s) PROVE TypeOK'
  <2>1. PICK touched \in BOOLEAN : jobs' = [jobs EXCEPT ![txn[s].job] = Flushed(s, touched)]
    BY <1>9 DEF CommitRecord
  <2>4. jobs' \in [Job -> JobRow]
    BY <1>9, <2>1, CommitTypes DEF TypeOK
  <2>5. prov' \in [Record -> ProvRow]
    BY <1>9, CommitTypes DEF CommitRecord, TypeOK
  <2>2. run' \in [Source -> RunState]
    BY <1>9 DEF CommitRecord, TypeOK, RunState, Phase
  <2>3. txn' \in [Source -> TxnState]
    BY <1>9 DEF CommitRecord, TypeOK, TxnState, NoTxn
  <2> QED BY <1>9, <2>2, <2>3, <2>4, <2>5 DEF CommitRecord, TypeOK
<1>10. ASSUME NEW s \in Source, FinishRun(s) PROVE TypeOK'
  <2>1. run' \in [Source -> RunState]
    BY <1>10 DEF FinishRun, TypeOK, RunState, Phase, IdleRun
  <2> QED BY <1>10, <2>1 DEF FinishRun, TypeOK
<1>11. ASSUME NEW s \in Source, RetireUnseen(s) PROVE TypeOK'
  <2>1. Unseen(s) \in SUBSET Record
    BY DEF Unseen, RecordsOf
  <2>2. run' \in [Source -> RunState]
    BY <1>11, PhasePut DEF RetireUnseen, Phase
  <2> DEFINE unseen == Unseen(s)
  <2> DEFINE rec == [txn[s] EXCEPT !.gone = unseen]
  <2>4. txn' = [txn EXCEPT ![s] = rec] /\ txn[s] \in TxnState /\ unseen \in SUBSET Record
    BY <1>11, <2>1 DEF RetireUnseen, TypeOK
  <2> HIDE DEF unseen
  <2>5. rec \in TxnState
    BY <2>4 DEF TxnState
  <2> HIDE DEF rec
  <2>3. txn' \in [Source -> TxnState]
    BY <2>4, <2>5, Puts
  <2> QED BY <1>11, <2>2, <2>3 DEF RetireUnseen, TypeOK
<1>12. ASSUME NEW s \in Source, Withdraw(s) PROVE TypeOK'
  <2>1. NobodyLists(s) \in SUBSET Job
    BY DEF NobodyLists
  <2>2. run' \in [Source -> RunState]
    BY <1>12, PhasePut DEF Withdraw, Phase
  <2> DEFINE withdrawn == NobodyLists(s)
  <2> DEFINE rec == [txn[s] EXCEPT !.withdraw = withdrawn]
  <2>4. txn' = [txn EXCEPT ![s] = rec] /\ txn[s] \in TxnState /\ withdrawn \in SUBSET Job
    BY <1>12, <2>1 DEF Withdraw, TypeOK
  <2> HIDE DEF withdrawn
  <2>5. rec \in TxnState
    BY <2>4 DEF TxnState
  <2> HIDE DEF rec
  <2>3. txn' \in [Source -> TxnState]
    BY <2>4, <2>5, Puts
  <2> QED BY <1>12, <2>2, <2>3 DEF Withdraw, TypeOK
<1>13. ASSUME NEW s \in Source, CommitReconciliation(s) PROVE TypeOK'
  <2>1. prov' \in [Record -> ProvRow]
    BY <1>13 DEF CommitReconciliation, TypeOK, ProvRow
  <2>2. jobs' \in [Job -> JobRow]
    <3>1. now \in Nat /\ \A j \in Job : jobs[j] \in JobRow
      BY DEF TypeOK
    <3>2. \A j \in Job : [jobs[j] EXCEPT !.status = "removed", !.changed = now] \in JobRow
      BY <3>1 DEF JobRow, JobStatus
    <3>3. jobs' = [j \in Job |-> IF j \in txn[s].withdraw
                                THEN [jobs[j] EXCEPT !.status = "removed", !.changed = now]
                                ELSE jobs[j]]
      BY <1>13 DEF CommitReconciliation
    <3> QED BY <3>1, <3>2, <3>3
  <2>3. run' \in [Source -> RunState]
    BY <1>13 DEF CommitReconciliation, TypeOK, RunState, Phase, IdleRun
  <2>4. txn' \in [Source -> TxnState]
    BY <1>13 DEF CommitReconciliation, TypeOK, TxnState, NoTxn
  <2> QED BY <1>13, <2>1, <2>2, <2>3, <2>4 DEF CommitReconciliation, TypeOK
<1>14. ASSUME NEW s \in Source, Crash(s) PROVE TypeOK'
  <2>1. run' \in [Source -> RunState]
    BY <1>14 DEF Crash, TypeOK, RunState, Phase, IdleRun
  <2>2. txn' \in [Source -> TxnState]
    BY <1>14 DEF Crash, TypeOK, TxnState, NoTxn
  <2> QED BY <1>14, <2>1, <2>2 DEF Crash, TypeOK
<1>15. CASE Expire
  <2>1. jobs' \in [Job -> JobRow]
    BY <1>15 DEF Expire, TypeOK, JobRow, JobStatus
  <2> QED BY <1>15, <2>1 DEF Expire, TypeOK
<1>16. CASE SweepStart \/ SweepDone \/ SweepCrash \/ LockProvenance
  <2>1. sweep' \in SweepState
    <3>1. CASE SweepStart
      BY <3>1 DEF SweepStart, TypeOK, SweepState
    <3>3. CASE SweepDone \/ SweepCrash
      BY <3>3 DEF SweepDone, SweepCrash, SweepState, IdleSweep
    <3>2. CASE LockProvenance
      <4> DEFINE page == {j \in sweep.page : \A r \in RowsOf(j) : ~RunHoldsRow(r)}
      <4>1. page \in SUBSET Job
        BY DEF TypeOK, SweepState
      <4>2. sweep' = [sweep EXCEPT !.phase = "locked", !.page = page]
        BY <3>2 DEF LockProvenance
      <4> HIDE DEF page
      <4> QED BY <4>1, <4>2 DEF TypeOK, SweepState
    <3> QED BY <1>16, <3>1, <3>2, <3>3
  <2> QED BY <1>16, <2>1 DEF SweepStart, SweepDone, SweepCrash, LockProvenance, TypeOK
<1>17. CASE SelectPage
  <2>1. PICK page \in SUBSET Selectable :
          sweep' = [sweep EXCEPT !.phase = "page", !.page = page, !.done = sweep.done \cup page]
    BY <1>17 DEF SelectPage
  <2>2. page \in SUBSET Job /\ sweep.done \cup page \in SUBSET Job
    BY DEF Selectable, TypeOK, SweepState
  <2>3. sweep' \in SweepState
    BY <2>1, <2>2 DEF TypeOK, SweepState
  <2> QED BY <1>17, <2>3 DEF SelectPage, TypeOK
<1>18. CASE CommitPage
  <2>1. sweep' \in SweepState
    BY <1>18 DEF CommitPage, TypeOK, SweepState
  <2> DEFINE stripped(j) == [jobs[j] EXCEPT !.posting = NoPosting, !.stripped = TRUE,
                                            !.changed = now]
  <2>4. \A j \in Job : stripped(j) \in JobRow /\ AbsentJob \in JobRow
    BY DEF TypeOK, JobRow, AbsentJob
  <2>5. \A j \in Job : jobs'[j] \in {stripped(j), AbsentJob, jobs[j]}
    BY <1>18 DEF CommitPage
  <2>6. jobs' = [j \in Job |-> jobs'[j]] /\ prov' = [r \in Record |-> prov'[r]]
    BY <1>18 DEF CommitPage
  <2> HIDE DEF stripped
  <2>2. jobs' \in [Job -> JobRow]
    BY <2>4, <2>5, <2>6 DEF TypeOK
  <2>7. \A r \in Record : prov'[r] \in {AbsentRow, prov[r]}
    BY <1>18 DEF CommitPage
  <2>8. AbsentRow \in ProvRow
    BY DEF ProvRow, AbsentRow
  <2>3. prov' \in [Record -> ProvRow]
    BY <2>6, <2>7, <2>8 DEF TypeOK
  <2> QED BY <1>18, <2>1, <2>2, <2>3 DEF CommitPage, TypeOK
<1>19. CASE UNCHANGED vars
  BY <1>19 DEF vars, TypeOK
<1> QED
  BY <1>1, <1>2, <1>3, <1>4, <1>5, <1>6, <1>7, <1>8, <1>9, <1>10, <1>11, <1>12, <1>13, <1>14,
     <1>15, <1>16, <1>17, <1>18, <1>19
     DEF Next, RunStep, StoreStep, SweepStep

\* The phase each step of a run leaves it in.
LEMMA PhaseAfter ==
  ASSUME TypeOK, NEW s \in Source
  PROVE  /\ StartRun(s) => run'[s].phase = "fetching"
         /\ Walk(s) => run'[s].phase = "storing"
         /\ \A r \in RecordsOf(s) :
              /\ DecideKnown(s, r) \/ DecideMatch(s, r) \/ DecideNew(s, r) => run'[s].phase = "decided"
              /\ RefuseAmbiguous(s, r) => run'[s].phase = "storing"
         /\ Upsert(s) => run'[s].phase = "upserted"
         /\ UpsertFails(s) \/ CommitRecord(s) => run'[s].phase = "storing"
         /\ RetireUnseen(s) => run'[s].phase = "retired" /\ txn'[s].gone = Unseen(s)
         /\ Withdraw(s) => /\ run'[s].phase = "withdrawn"
                          /\ txn'[s].gone = txn[s].gone /\ txn'[s].withdraw = NobodyLists(s)
         /\ FinishRun(s) \/ CommitReconciliation(s) \/ Crash(s) => run'[s] = IdleRun
<1>1. StartRun(s) => run'[s].phase = "fetching"
  BY DEF StartRun, TypeOK, RunState
<1>2. Walk(s) => run'[s].phase = "storing"
  BY DEF Walk, TypeOK, RunState
<1>3. ASSUME NEW r \in RecordsOf(s), DecideKnown(s, r) \/ DecideMatch(s, r) \/ DecideNew(s, r)
      PROVE  run'[s].phase = "decided"
  <2> DEFINE todo == run[s].todo \ {r}
  <2>1. run' = [run EXCEPT ![s] = [@ EXCEPT !.phase = "decided", !.todo = todo]]
    BY <1>3 DEF DecideKnown, DecideMatch, DecideNew, Decide
  <2> HIDE DEF todo
  <2> QED BY <2>1 DEF TypeOK, RunState
<1>4. Upsert(s) => run'[s].phase = "upserted"
  BY DEF Upsert, TypeOK, RunState
<1>5. CommitRecord(s) => run'[s].phase = "storing"
  BY DEF CommitRecord, TypeOK, RunState
<1>6. RetireUnseen(s) => run'[s].phase = "retired" /\ txn'[s].gone = Unseen(s)
  BY DEF RetireUnseen, TypeOK, RunState, TxnState
<1>7. Withdraw(s) => /\ run'[s].phase = "withdrawn"
                     /\ txn'[s].gone = txn[s].gone /\ txn'[s].withdraw = NobodyLists(s)
  BY DEF Withdraw, TypeOK, RunState, TxnState
<1>8. FinishRun(s) \/ CommitReconciliation(s) \/ Crash(s) => run'[s] = IdleRun
  BY DEF FinishRun, CommitReconciliation, Crash, TypeOK
<1> QED
  BY <1>1, <1>2, <1>3, <1>4, <1>5, <1>6, <1>7, <1>8, RefuseTypes, UpsertFailsTypes

\* A step of a run leaves the other runs and their transactions alone.
LEMMA OthersUnchanged ==
  ASSUME TypeOK, NEW s \in Source, StartRun(s) \/ RunStep(s) \/ Crash(s)
  PROVE  \A t \in Source \ {s} : run'[t] = run[t] /\ txn'[t] = txn[t]
<1>1. CASE StoreStep(s)
  BY <1>1 DEF StoreStep, DecideKnown, DecideMatch, DecideNew, Decide, RefuseAmbiguous, Upsert,
              UpsertFails, CommitRecord, TypeOK
<1>2. CASE StartRun(s) \/ Walk(s) \/ FinishRun(s) \/ RetireUnseen(s) \/ Withdraw(s)
           \/ CommitReconciliation(s) \/ Crash(s)
  BY <1>2 DEF StartRun, Walk, FinishRun, RetireUnseen, Withdraw, CommitReconciliation, Crash, TypeOK
<1> QED BY <1>1, <1>2 DEF RunStep

\* Every other step leaves all of them alone.
LEMMA RunsUnchanged ==
  ASSUME [Next]_vars
  PROVE  \/ UNCHANGED <<run, txn>>
         \/ \E s \in Source : StartRun(s) \/ RunStep(s) \/ Crash(s)
BY DEF Next, World, Tick, Settle, MoveListing, Expire, SweepStart, SweepStep, SelectPage,
       SweepDone, LockProvenance, CommitPage, SweepCrash, vars

\* The rows change only in these three steps.
LEMMA RowsUnchanged ==
  ASSUME [Next]_vars
  PROVE  \/ UNCHANGED prov
         \/ \E s \in Source : CommitRecord(s) \/ CommitReconciliation(s)
         \/ CommitPage
<1>1. ASSUME NEW s \in Source, StoreStep(s) PROVE UNCHANGED prov \/ CommitRecord(s)
  BY <1>1 DEF StoreStep, DecideKnown, DecideMatch, DecideNew, Decide, RefuseAmbiguous, Upsert,
              UpsertFails
<1>2. ASSUME NEW s \in Source, StartRun(s) \/ RunStep(s) \/ Crash(s)
      PROVE  UNCHANGED prov \/ CommitRecord(s) \/ CommitReconciliation(s)
  BY <1>1, <1>2 DEF StartRun, RunStep, Walk, FinishRun, RetireUnseen, Withdraw, Crash
<1>3. CASE World \/ Expire \/ SweepStart \/ SweepStep \/ SweepCrash \/ UNCHANGED vars
  BY <1>3 DEF World, Tick, Settle, MoveListing, Expire, SweepStart, SweepStep, SelectPage,
              SweepDone, LockProvenance, SweepCrash, vars
<1> QED BY <1>2, <1>3 DEF Next

\* The jobs change only in these four.
LEMMA JobsUnchanged ==
  ASSUME [Next]_vars
  PROVE  \/ UNCHANGED jobs
         \/ \E s \in Source : CommitRecord(s) \/ CommitReconciliation(s)
         \/ Expire \/ CommitPage
<1>1. ASSUME NEW s \in Source, StoreStep(s) PROVE UNCHANGED jobs \/ CommitRecord(s)
  BY <1>1 DEF StoreStep, DecideKnown, DecideMatch, DecideNew, Decide, RefuseAmbiguous, Upsert,
              UpsertFails
<1>2. ASSUME NEW s \in Source, StartRun(s) \/ RunStep(s) \/ Crash(s)
      PROVE  UNCHANGED jobs \/ CommitRecord(s) \/ CommitReconciliation(s)
  BY <1>1, <1>2 DEF StartRun, RunStep, Walk, FinishRun, RetireUnseen, Withdraw, Crash
<1>3. CASE World \/ SweepStart \/ SweepStep \/ SweepCrash \/ UNCHANGED vars
  BY <1>3 DEF World, Tick, Settle, MoveListing, SweepStart, SweepStep, SelectPage,
              SweepDone, LockProvenance, SweepCrash, vars
<1> QED BY <1>2, <1>3 DEF Next

LEMMA RunHoldsRecordStep == Typing /\ [Next]_vars => RunHoldsRecord'
<1> SUFFICES ASSUME Typing, [Next]_vars PROVE RunHoldsRecord'
  OBVIOUS
<1> USE DEF Typing
<1>1. CASE UNCHANGED <<run, txn>>
  BY <1>1 DEF RunHoldsRecord
<1>2. ASSUME NEW s \in Source, StartRun(s) \/ RunStep(s) \/ Crash(s) PROVE RunHoldsRecord'
  <2>1. SUFFICES ASSUME run'[s].phase \in {"decided", "upserted"}
                 PROVE  txn'[s].record \in RecordsOf(s) /\ txn'[s].job \in Job
    BY <1>2, OthersUnchanged DEF RunHoldsRecord
  <2>2. Upsert(s) \/ \E r \in RecordsOf(s) : DecideKnown(s, r) \/ DecideMatch(s, r) \/ DecideNew(s, r)
    BY <1>2, <2>1, PhaseAfter DEF RunStep, StoreStep, IdleRun
  <2>3. ASSUME NEW r \in RecordsOf(s), NEW j \in Job, NEW creates \in SUBSET Change,
               Decide(s, r, j, creates)
        PROVE  txn'[s].record \in RecordsOf(s) /\ txn'[s].job \in Job
    BY <2>3, DecideTypes
  <2>4. ASSUME NEW r \in RecordsOf(s), DecideKnown(s, r) \/ DecideMatch(s, r) \/ DecideNew(s, r)
        PROVE  txn'[s].record \in RecordsOf(s) /\ txn'[s].job \in Job
    <3>1. DecideKnown(s, r) => prov[r].job \in Job
      BY DEF DecideKnown, RowHasJob, RecordsOf
    <3> QED BY <2>3, <2>4, <3>1 DEF DecideKnown, DecideMatch, DecideNew, Change
  <2>5. CASE Upsert(s)
    BY <2>5 DEF Upsert, RunHoldsRecord
  <2> QED BY <2>2, <2>4, <2>5
<1> QED BY <1>1, <1>2, RunsUnchanged

\* A retention page deletes rows or leaves them alone.
LEMMA PageRows ==
  ASSUME CommitPage, NEW r \in Record
  PROVE  prov'[r] \in {AbsentRow, prov[r]}
BY DEF CommitPage

\* A commit of a record or of another run's reconciliation, or a retention page, leaves a live
\* row live: the page asks again before it deletes.
LEMMA LiveStaysLive ==
  ASSUME Typing, NEW r \in Record, prov[r].state = "live", [Next]_vars
  PROVE  \/ prov'[r].state = "live" /\ prov'[r].job = prov[r].job
         \/ \E s \in Source : CommitReconciliation(s) /\ r \in txn[s].gone
<1> USE DEF Typing
<1>1. ASSUME NEW s \in Source, CommitRecord(s)
      PROVE  prov'[r].state = "live" /\ prov'[r].job = prov[r].job
  <2>1. CASE r = txn[s].record
    BY <1>1, <2>1, CommitTypes DEF CommitRecord, TypeOK, Upserted
  <2>2. CASE r # txn[s].record
    BY <1>1, <2>2 DEF CommitRecord, TypeOK
  <2> QED BY <2>1, <2>2
<1>2. ASSUME NEW s \in Source, CommitReconciliation(s), r \notin txn[s].gone
      PROVE  prov'[r] = prov[r]
  BY <1>2 DEF CommitReconciliation
<1>3. CASE CommitPage
  <2>1. prov[r].job \in Job /\ r \in LiveRowsOf(prov[r].job)
    BY DEF RowHasJob, LiveRowsOf, RowsOf
  <2>2. ~Eligible(prov[r].job)
    BY <2>1 DEF Eligible
  <2> QED BY <1>3, <2>2 DEF CommitPage
<1> QED BY <1>1, <1>2, <1>3, RowsUnchanged

LEMMA GoneIsLiveStep == Typing /\ [Next]_vars => GoneIsLive'
<1> SUFFICES ASSUME Typing, [Next]_vars, NEW s \in Source, run'[s].phase \in Reconciling,
                    NEW r \in txn'[s].gone
             PROVE  r \in RecordsOf(s) /\ prov'[r].state = "live"
  BY DEF GoneIsLive
<1> USE DEF Typing
<1>1. r \in RecordsOf(s) /\ prov[r].state = "live"
  <2>1. CASE UNCHANGED <<run, txn>>
    BY <2>1 DEF GoneIsLive
  <2>2. ASSUME NEW t \in Source, StartRun(t) \/ RunStep(t) \/ Crash(t)
        PROVE  r \in RecordsOf(s) /\ prov[r].state = "live"
    <3>1. CASE t # s
      BY <2>2, <3>1, OthersUnchanged DEF GoneIsLive
    <3>2. CASE RetireUnseen(s)
      BY <3>2, PhaseAfter DEF Unseen
    <3>3. CASE Withdraw(s)
      BY <3>3, PhaseAfter DEF Withdraw, GoneIsLive, Reconciling
    <3>4. t = s => RetireUnseen(s) \/ Withdraw(s)
      BY <2>2, PhaseAfter DEF RunStep, StoreStep, Reconciling, IdleRun
    <3> QED BY <3>1, <3>2, <3>3, <3>4
  <2> QED BY <2>1, <2>2, RunsUnchanged
<1>2. ASSUME NEW t \in Source, CommitReconciliation(t), r \in txn[t].gone PROVE FALSE
  <2>1. r \in RecordsOf(t)
    BY <1>2 DEF CommitReconciliation, GoneIsLive, Reconciling
  <2>2. t = s
    BY <1>1, <2>1 DEF RecordsOf
  <2> QED BY <1>2, <2>2, PhaseAfter DEF IdleRun, Reconciling
<1> QED BY <1>1, <1>2, LiveStaysLive DEF RecordsOf

LEMMA RowHasJobStep == Typing /\ [Next]_vars => RowHasJob'
<1> SUFFICES ASSUME Typing, [Next]_vars PROVE RowHasJob'
  OBVIOUS
<1> USE DEF Typing
<1>1. ASSUME NEW s \in Source, CommitRecord(s) PROVE RowHasJob'
  <2> DEFINE row == Upserted(s)
  <2>1. row.state = "live" /\ row.job \in Job
    BY <1>1, CommitTypes
  <2>2. prov' = [prov EXCEPT ![txn[s].record] = row] /\ DOMAIN prov = Record
    BY <1>1 DEF CommitRecord, TypeOK
  <2> HIDE DEF row
  <2>3. \A r \in Record : prov'[r] = IF r = txn[s].record THEN row ELSE prov[r]
    BY <2>2
  <2> QED BY <2>1, <2>3 DEF RowHasJob
<1>2. ASSUME NEW s \in Source, CommitReconciliation(s) PROVE RowHasJob'
  <2>1. \A r \in txn[s].gone : prov[r].state = "live"
    BY <1>2 DEF CommitReconciliation, GoneIsLive, Reconciling
  <2>2. \A r \in Record : /\ prov'[r].job = prov[r].job
                          /\ prov'[r].state = IF r \in txn[s].gone THEN "retired" ELSE prov[r].state
    BY <1>2 DEF CommitReconciliation, TypeOK, ProvRow
  <2> QED BY <2>1, <2>2 DEF RowHasJob
<1>3. CASE CommitPage
  BY <1>3, PageRows, CatalogueAssumption DEF RowHasJob, AbsentRow
<1>4. CASE UNCHANGED prov
  BY <1>4 DEF RowHasJob
<1> QED BY <1>1, <1>2, <1>3, <1>4, RowsUnchanged

LEMMA TypingStep == Typing /\ [Next]_vars => Typing'
BY TypeStep, RunHoldsRecordStep, GoneIsLiveStep, RowHasJobStep DEF Typing

\* The tables, the runs, their transactions and the retention page always have the shape the
\* schema and the code give them; a run in the middle of a record has the record and its job.
THEOREM TypeCorrect == Spec => []TypeOK
<1>2. Typing => TypeOK
  BY DEF Typing
<1> QED BY TypingInit, TypingStep, <1>2, PTL DEF Spec

-----------------------------------------------------------------------------
(* No row without its job, whatever overlaps.                               *)

\* The row a run is about to write names the job the run decided on, if it is there.
RowAgrees ==
  \A s \in Source :
    /\ run[s].phase \in {"decided", "upserted"}
    /\ prov[txn[s].record].state # "absent"
    => prov[txn[s].record].job = txn[s].job

\* The retention page and an open upsert exclude each other: by the job the new row names, or
\* by the row that is there.
Locked(s) ==
  IF prov[txn[s].record].state = "absent"
  THEN ~SweepHoldsJob(txn[s].job) ELSE ~SweepHoldsRow(txn[s].record)

OpenUpsertIsLocked == \A s \in Source : run[s].phase = "upserted" => Locked(s)

RowsInv ==
  Typing /\ RowAgrees /\ OpenUpsertIsLocked /\ RowsNameStoredJobs /\ OpenUpsertKeepsItsJob

\* A row appears when a run commits its record, and only then.
LEMMA RowAppears ==
  ASSUME Typing, [Next]_vars, NEW r \in Record, prov[r].state = "absent", prov'[r].state # "absent"
  PROVE  \E s \in Source : CommitRecord(s) /\ txn[s].record = r
<1> USE DEF Typing
<1>1. ASSUME NEW s \in Source, CommitRecord(s), txn[s].record # r PROVE FALSE
  BY <1>1 DEF CommitRecord, TypeOK
<1>2. ASSUME NEW s \in Source, CommitReconciliation(s) PROVE FALSE
  <2>1. r \notin txn[s].gone
    BY <1>2 DEF CommitReconciliation, GoneIsLive, Reconciling
  <2> QED BY <1>2, <2>1 DEF CommitReconciliation
<1>3. ~CommitPage
  BY PageRows DEF AbsentRow
<1> QED BY <1>1, <1>2, <1>3, RowsUnchanged

\* A row keeps its job for as long as it is there.
LEMMA RowKeepsJob ==
  ASSUME Typing, [Next]_vars, NEW r \in Record, prov[r].state # "absent", prov'[r].state # "absent"
  PROVE  prov'[r].job = prov[r].job
<1> USE DEF Typing
<1>1. ASSUME NEW s \in Source, CommitRecord(s) PROVE prov'[r].job = prov[r].job
  <2>1. CASE r = txn[s].record
    BY <1>1, <2>1, CommitTypes DEF CommitRecord, TypeOK, Upserted
  <2>2. CASE r # txn[s].record
    BY <1>1, <2>2 DEF CommitRecord, TypeOK
  <2> QED BY <2>1, <2>2
<1>2. ASSUME NEW s \in Source, CommitReconciliation(s) PROVE prov'[r].job = prov[r].job
  BY <1>2 DEF CommitReconciliation, TypeOK, ProvRow
<1>3. CASE CommitPage
  BY <1>3, PageRows DEF AbsentRow
<1> QED BY <1>1, <1>2, <1>3, RowsUnchanged

LEMMA RowAgreesStep == Typing /\ RowAgrees /\ [Next]_vars => RowAgrees'
<1> SUFFICES ASSUME Typing, RowAgrees, [Next]_vars, NEW s \in Source,
                    run'[s].phase \in {"decided", "upserted"},
                    prov'[txn'[s].record].state # "absent"
             PROVE  prov'[txn'[s].record].job = txn'[s].job
  BY DEF RowAgrees
<1> USE DEF Typing
<1>1. CASE run'[s] = run[s] /\ txn'[s] = txn[s]
  <2>1. txn[s].record \in RecordsOf(s)
    BY <1>1 DEF RunHoldsRecord
  <2>2. prov[txn[s].record].state # "absent"
    <3> SUFFICES ASSUME prov[txn[s].record].state = "absent" PROVE FALSE
      OBVIOUS
    <3>1. PICK t \in Source : CommitRecord(t) /\ txn[t].record = txn[s].record
      BY <1>1, <2>1, RowAppears DEF RecordsOf
    <3>2. t = s
      BY <2>1, <3>1 DEF CommitRecord, RunHoldsRecord, RecordsOf
    <3> QED BY <1>1, <3>1, <3>2, PhaseAfter
  <2> QED BY <1>1, <2>1, <2>2, RowKeepsJob DEF RowAgrees, RecordsOf
<1>2. CASE Upsert(s)
  BY <1>2 DEF Upsert, RowAgrees
<1>3. ASSUME NEW r \in RecordsOf(s), DecideKnown(s, r) \/ DecideMatch(s, r) \/ DecideNew(s, r)
      PROVE  prov'[txn'[s].record].job = txn'[s].job
  <2>1. prov' = prov
    BY <1>3 DEF DecideKnown, DecideMatch, DecideNew, Decide
  <2>2. CASE DecideKnown(s, r)
    <3>1. prov[r].job \in Job
      BY <2>2 DEF DecideKnown, RowHasJob, RecordsOf
    <3> QED BY <2>1, <2>2, <3>1, DecideTypes DEF DecideKnown
  <2>3. CASE DecideMatch(s, r) \/ DecideNew(s, r)
    BY <2>1, <2>3, DecideTypes DEF DecideMatch, DecideNew, Change
  <2> QED BY <1>3, <2>2, <2>3
<1>4. ASSUME StartRun(s) \/ RunStep(s) \/ Crash(s)
      PROVE  Upsert(s) \/ \E r \in RecordsOf(s) : DecideKnown(s, r) \/ DecideMatch(s, r) \/ DecideNew(s, r)
  BY <1>4, PhaseAfter DEF RunStep, StoreStep, IdleRun
<1> QED BY <1>1, <1>2, <1>3, <1>4, OthersUnchanged, RunsUnchanged

\* What a run has upserted and not committed was upserted by its last step, or was before.
LEMMA UpsertedBefore ==
  ASSUME Typing, [Next]_vars, NEW s \in Source, run'[s].phase = "upserted"
  PROVE  Upsert(s) \/ (run'[s] = run[s] /\ txn'[s] = txn[s])
<1> USE DEF Typing
<1>1. ASSUME StartRun(s) \/ RunStep(s) \/ Crash(s) PROVE Upsert(s)
  BY <1>1, PhaseAfter DEF RunStep, StoreStep, IdleRun
<1> QED BY <1>1, OthersUnchanged, RunsUnchanged

\* Only the run that upserted a row commits it; nobody else touches it but a retention page.
LEMMA UpsertedRowUntouched ==
  ASSUME Typing, [Next]_vars, NEW s \in Source, run[s].phase = "upserted", run'[s] = run[s],
         ~CommitPage
  PROVE  prov'[txn[s].record] = prov[txn[s].record]
<1> USE DEF Typing
<1>1. txn[s].record \in RecordsOf(s)
  BY DEF RunHoldsRecord
<1>2. ASSUME NEW t \in Source, CommitRecord(t) PROVE prov'[txn[s].record] = prov[txn[s].record]
  <2>1. t # s /\ txn[t].record \in RecordsOf(t)
    BY <1>2, PhaseAfter DEF CommitRecord, RunHoldsRecord
  <2>2. txn[t].record # txn[s].record
    BY <1>1, <2>1 DEF RecordsOf
  <2> QED BY <1>1, <1>2, <2>2 DEF CommitRecord, TypeOK, RecordsOf
<1>3. ASSUME NEW t \in Source, CommitReconciliation(t)
      PROVE  prov'[txn[s].record] = prov[txn[s].record]
  <2>1. t # s
    BY <1>3 DEF CommitReconciliation
  <2>2. txn[s].record \notin txn[t].gone
    BY <1>1, <1>3, <2>1 DEF CommitReconciliation, GoneIsLive, Reconciling, RecordsOf
  <2> QED BY <1>1, <1>3, <2>2 DEF CommitReconciliation, RecordsOf
<1> QED BY <1>2, <1>3, RowsUnchanged

LEMMA SweepUnchanged ==
  ASSUME [Next]_vars
  PROVE  UNCHANGED sweep \/ SweepStart \/ SweepStep \/ SweepCrash
<1>1. ASSUME NEW s \in Source, StoreStep(s) PROVE UNCHANGED sweep
  BY <1>1 DEF StoreStep, DecideKnown, DecideMatch, DecideNew, Decide, RefuseAmbiguous, Upsert,
              UpsertFails, CommitRecord
<1>2. ASSUME NEW s \in Source, StartRun(s) \/ RunStep(s) \/ Crash(s) PROVE UNCHANGED sweep
  BY <1>1, <1>2 DEF StartRun, RunStep, Walk, FinishRun, RetireUnseen, Withdraw, Crash,
                    CommitReconciliation
<1>3. CASE World \/ Expire \/ UNCHANGED vars
  BY <1>3 DEF World, Tick, Settle, MoveListing, Expire, vars
<1> QED BY <1>2, <1>3 DEF Next

LEMMA OpenUpsertIsLockedStep ==
  Typing /\ OpenUpsertIsLocked /\ [Next]_vars => OpenUpsertIsLocked'
<1> SUFFICES ASSUME Typing, OpenUpsertIsLocked, [Next]_vars, NEW s \in Source,
                    run'[s].phase = "upserted"
             PROVE  Locked(s)'
  BY DEF OpenUpsertIsLocked
<1> USE DEF Typing, Locked, SweepHoldsJob, SweepHoldsRow
<1>1. CASE Upsert(s)
  BY <1>1 DEF Upsert
<1>2. CASE run'[s] = run[s] /\ txn'[s] = txn[s] /\ ~CommitPage
  <2> DEFINE r == txn[s].record
  <2>1. prov'[r] = prov[r] /\ run[s].phase = "upserted" /\ r \in Record
    BY <1>2, UpsertedRowUntouched DEF RunHoldsRecord, RecordsOf
  <2>2. CASE UNCHANGED sweep
    BY <1>2, <2>1, <2>2 DEF OpenUpsertIsLocked
  <2>3. CASE SweepStart \/ SweepDone \/ SweepCrash
    <3>1. CASE SweepStart
      BY <3>1 DEF SweepStart, TypeOK, SweepState
    <3>2. CASE SweepDone \/ SweepCrash
      BY <3>2 DEF SweepDone, SweepCrash, IdleSweep
    <3> QED BY <2>3, <3>1, <3>2
  <2>4. CASE SelectPage
    <3>1. sweep'.phase = "page" /\ sweep'.page \subseteq Selectable
      BY <2>4 DEF SelectPage, TypeOK, SweepState
    <3>2. prov[r].state = "absent" => RunHoldsJob(txn[s].job)
      BY <2>1 DEF RunHoldsJob
    <3> QED BY <1>2, <2>1, <3>1, <3>2 DEF Selectable
  <2>5. CASE LockProvenance
    <3>1. sweep'.page = {j \in sweep.page : \A q \in RowsOf(j) : ~RunHoldsRow(q)}
      BY <2>5 DEF LockProvenance, TypeOK, SweepState
    <3>2. sweep.phase = "page" /\ RunHoldsRow(r)
      BY <2>1, <2>5 DEF LockProvenance, RunHoldsRow
    <3>3. prov[r].state # "absent" => r \in RowsOf(prov[r].job)
      BY <2>1 DEF RowsOf
    <3> QED BY <1>2, <2>1, <3>1, <3>2, <3>3 DEF OpenUpsertIsLocked
  <2> QED BY <1>2, <2>2, <2>3, <2>4, <2>5, SweepUnchanged DEF SweepStep
<1>3. CASE CommitPage
  BY <1>3 DEF CommitPage, TypeOK, SweepState
<1> QED BY <1>1, <1>2, <1>3, UpsertedBefore

\* A job is lost, by its row or by its text, only to a retention page that took it on and
\* found it eligible.
LEMMA JobLoss ==
  ASSUME Typing, [Next]_vars, NEW j \in Job, Stored(j),
         ~Stored(j)' \/ (jobs'[j].stripped /\ ~jobs[j].stripped)
  PROVE  CommitPage /\ j \in sweep.page /\ Eligible(j)
<1> USE DEF Typing, Stored
<1>1. CASE UNCHANGED jobs
  BY <1>1
<1>2. ASSUME NEW s \in Source, CommitRecord(s) PROVE FALSE
  <2>1. PICK touched \in BOOLEAN : jobs' = [jobs EXCEPT ![txn[s].job] = Flushed(s, touched)]
    BY <1>2 DEF CommitRecord
  <2>2. jobs[j] \in JobRow
    BY DEF TypeOK
  <2>3. CASE j = txn[s].job /\ "create" \in txn[s].does
    <3>1. jobs'[j] = Flushed(s, touched)
      BY <2>1, <2>3 DEF TypeOK
    <3>2. Flushed(s, touched).status = "active" /\ Flushed(s, touched).stripped = FALSE
      BY <2>3 DEF Flushed
    <3> QED BY <3>1, <3>2
  <2>4. CASE j = txn[s].job /\ "create" \notin txn[s].does
    <3>1. jobs'[j] = Flushed(s, touched)
      BY <2>1, <2>4 DEF TypeOK
    <3>2. /\ Flushed(s, touched).status \in {"active", jobs[j].status}
          /\ Flushed(s, touched).stripped = jobs[j].stripped
      BY <2>2, <2>4 DEF Flushed, JobRow
    <3> QED BY <3>1, <3>2
  <2>5. CASE j # txn[s].job
    BY <2>1, <2>5 DEF TypeOK
  <2> QED BY <2>3, <2>4, <2>5
<1>3. ASSUME NEW s \in Source, CommitReconciliation(s) PROVE FALSE
  <2>1. jobs[j] \in JobRow
    BY DEF TypeOK
  <2>2. \/ jobs'[j] = [jobs[j] EXCEPT !.status = "removed", !.changed = now]
        \/ jobs'[j] = jobs[j]
    BY <1>3 DEF CommitReconciliation
  <2>3. jobs'[j].status \in {"removed", jobs[j].status} /\ jobs'[j].stripped = jobs[j].stripped
    BY <2>1, <2>2 DEF JobRow
  <2> QED BY <2>3
<1>4. CASE Expire
  <2>1. jobs[j] \in JobRow
    BY DEF TypeOK
  <2>2. \/ jobs'[j] = [jobs[j] EXCEPT !.status = "expired", !.changed = now]
        \/ jobs'[j] = jobs[j]
    BY <1>4 DEF Expire
  <2>3. jobs'[j].status \in {"expired", jobs[j].status} /\ jobs'[j].stripped = jobs[j].stripped
    BY <2>1, <2>2 DEF JobRow
  <2> QED BY <2>3
<1>5. CASE CommitPage
  <2>1. ~(j \in sweep.page /\ Eligible(j)) => jobs'[j] = jobs[j]
    BY <1>5 DEF CommitPage
  <2> QED BY <1>5, <2>1
<1> QED BY <1>1, <1>2, <1>3, <1>4, <1>5, JobsUnchanged

LEMMA OpenUpsertKeepsItsJobStep == RowsInv /\ [Next]_vars => OpenUpsertKeepsItsJob'
<1> SUFFICES ASSUME RowsInv, [Next]_vars, NEW s \in Source, run'[s].phase = "upserted",
                    "create" \notin txn'[s].does
             PROVE  jobs'[txn'[s].job].status # "absent"
  BY DEF OpenUpsertKeepsItsJob, Stored
<1> USE DEF RowsInv
<1> DEFINE r == txn[s].record
<1>1. CASE Upsert(s)
  <2>1. r \in Record
    BY <1>1 DEF Upsert, Typing, RunHoldsRecord, RecordsOf
  <2>2. Stored(txn[s].job)
    <3>1. CASE prov[r].state = "absent"
      BY <1>1, <3>1 DEF Upsert, Dangles
    <3>2. CASE prov[r].state # "absent"
      BY <1>1, <2>1, <3>2 DEF Upsert, RowAgrees, RowsNameStoredJobs
    <3> QED BY <3>1, <3>2
  <2> QED BY <1>1, <2>2 DEF Upsert, Stored
<1>2. CASE run'[s] = run[s] /\ txn'[s] = txn[s]
  <2>1. /\ run[s].phase = "upserted" /\ r \in Record /\ txn[s].job \in Job
        /\ Stored(txn[s].job)
    BY <1>2 DEF Typing, RunHoldsRecord, RecordsOf, OpenUpsertKeepsItsJob
  <2>2. ASSUME CommitPage, txn[s].job \in sweep.page PROVE FALSE
    BY <2>1, <2>2 DEF CommitPage, RowAgrees, OpenUpsertIsLocked, Locked, SweepHoldsJob,
                      SweepHoldsRow
  <2> QED BY <1>2, <2>1, <2>2, JobLoss DEF Stored
<1> QED BY <1>1, <1>2, UpsertedBefore

LEMMA RowsNameStoredJobsStep == RowsInv /\ [Next]_vars => RowsNameStoredJobs'
<1> SUFFICES ASSUME RowsInv, [Next]_vars, NEW r \in Record, prov'[r].state # "absent"
             PROVE  prov'[r].job \in Job /\ jobs'[prov'[r].job].status # "absent"
  BY DEF RowsNameStoredJobs, Stored
<1> USE DEF RowsInv
<1>1. CASE prov[r].state # "absent"
  <2>1. prov'[r].job = prov[r].job /\ prov[r].job \in Job /\ Stored(prov[r].job)
    BY <1>1, RowKeepsJob DEF RowsNameStoredJobs
  <2>2. ASSUME CommitPage, prov[r].job \in sweep.page, Eligible(prov[r].job)
        PROVE  jobs'[prov[r].job].status # "absent"
    <3>1. PICK referenced \in SUBSET sweep.page :
             LET kept == {j \in referenced : Eligible(j)}
                 gone == {j \in sweep.page \ referenced : Eligible(j)}
             IN  /\ jobs' = [j \in Job |->
                               CASE j \in kept -> [jobs[j] EXCEPT !.posting = NoPosting,
                                                     !.stripped = TRUE, !.changed = now]
                                 [] j \in gone -> AbsentJob
                                 [] OTHER -> jobs[j]]
                 /\ prov' = [q \in Record |->
                               IF prov[q].job \in gone THEN AbsentRow ELSE prov[q]]
      BY <2>2 DEF CommitPage
    <3>2. prov[r].job \in referenced
      BY <2>2, <3>1 DEF AbsentRow
    <3>3. jobs'[prov[r].job].status = jobs[prov[r].job].status
      BY <2>1, <2>2, <3>1, <3>2 DEF Typing, TypeOK, JobRow
    <3> QED BY <2>1, <3>3 DEF Stored
  <2> DEFINE j == prov[r].job
  <2>3. jobs'[j].status = "absent" => CommitPage /\ j \in sweep.page /\ Eligible(j)
    BY <2>1, JobLoss DEF Stored
  <2> QED BY <2>1, <2>2, <2>3
<1>2. CASE prov[r].state = "absent"
  <2>1. PICK s \in Source : CommitRecord(s) /\ txn[s].record = r
    BY <1>2, RowAppears
  <2>2. /\ prov'[r].job = txn[s].job /\ txn[s].job \in Job
        /\ run[s].phase = "upserted"
    BY <1>2, <2>1, CommitTypes DEF CommitRecord, Upserted, Typing, TypeOK
  <2>3. CASE "create" \in txn[s].does
    <3>1. \A touched \in BOOLEAN : Flushed(s, touched).status = "active"
      BY <2>3 DEF Flushed
    <3> QED BY <2>1, <2>2, <3>1 DEF CommitRecord, Stored, Typing, TypeOK
  <2>4. CASE "create" \notin txn[s].does
    <3>1. Stored(txn[s].job)
      BY <2>2, <2>4 DEF OpenUpsertKeepsItsJob
    <3>2. ~CommitPage
      BY <1>2, PageRows DEF AbsentRow
    <3> QED BY <2>2, <3>1, <3>2, JobLoss DEF Stored
  <2> QED BY <2>3, <2>4
<1> QED BY <1>1, <1>2

LEMMA RowsInvInit == Init => RowsInv
BY TypingInit
   DEF Init, RowsInv, RowAgrees, OpenUpsertIsLocked, RowsNameStoredJobs, OpenUpsertKeepsItsJob,
       IdleRun, AbsentRow

LEMMA RowsInvStep == RowsInv /\ [Next]_vars => RowsInv'
BY TypingStep, RowAgreesStep, OpenUpsertIsLockedStep, RowsNameStoredJobsStep,
   OpenUpsertKeepsItsJobStep DEF RowsInv

LEMMA RowsInvAlways == Spec => []RowsInv
BY RowsInvInit, RowsInvStep, PTL DEF Spec

\* However runs, crashes and retention pages overlap, every provenance row names a stored job.
THEOREM NoDanglingRow == Spec => []RowsNameStoredJobs
<1>1. RowsInv => RowsNameStoredJobs
  BY DEF RowsInv
<1> QED BY <1>1, RowsInvAlways, PTL

\* An upsert a run has not committed keeps its job.
THEOREM NoUpsertUndermined == Spec => []OpenUpsertKeepsItsJob
<1>1. RowsInv => OpenUpsertKeepsItsJob
  BY DEF RowsInv
<1> QED BY <1>1, RowsInvAlways, PTL

\* The retention pass deletes or strips no job that a source lists or that a run is about to
\* list again.
THEOREM RetentionSafe == Spec => RetentionSparesListed
<1>1. ASSUME RowsInv, [Next]_vars, NEW j \in Job, Stored(j),
             ~Stored(j)' \/ (jobs'[j].stripped /\ ~jobs[j].stripped),
             NEW r \in RowsOf(j), RunHoldsRow(r)
      PROVE  FALSE
  <2>1. CommitPage /\ j \in sweep.page /\ Eligible(j)
    BY <1>1, JobLoss DEF RowsInv
  <2>2. r \in Record /\ prov[r].state # "absent" /\ prov[r].job = j
    BY DEF RowsOf
  <2>3. ASSUME NEW s \in Source, run[s].phase = "upserted", txn[s].record = r PROVE FALSE
    BY <2>1, <2>2, <2>3, <1>1 DEF RowsInv, OpenUpsertIsLocked, Locked, SweepHoldsRow, CommitPage
  <2>4. ASSUME NEW s \in Source, run[s].phase \in {"retired", "withdrawn"}, r \in txn[s].gone
        PROVE  FALSE
    <3>1. r \in LiveRowsOf(j)
      BY <1>1, <2>4 DEF RowsInv, Typing, GoneIsLive, Reconciling, LiveRowsOf
    <3> QED BY <2>1, <3>1 DEF Eligible
  <2> QED BY <1>1, <2>3, <2>4 DEF RunHoldsRow
<1>2. ASSUME RowsInv, [Next]_vars, NEW j \in Job, Stored(j),
             ~Stored(j)' \/ (jobs'[j].stripped /\ ~jobs[j].stripped)
      PROVE  LiveRowsOf(j) = {}
  BY <1>2, JobLoss DEF RowsInv, Eligible
<1>3. RowsInv /\ [Next]_vars =>
        [\A j \in Job :
           Stored(j) /\ (~Stored(j)' \/ (jobs[j]'.stripped /\ ~jobs[j].stripped)) =>
             /\ LiveRowsOf(j) = {}
             /\ \A r \in RowsOf(j) : ~RunHoldsRow(r)]_vars
  BY <1>1, <1>2
<1> QED BY <1>3, RowsInvAlways, PTL DEF Spec, RetentionSparesListed

-----------------------------------------------------------------------------
(* What reconciliation retires, whatever overlaps, and what it withdraws   *)
(* when the runs of different sources do not overlap.                      *)

(* A row is retired only for a posting that is gone.                        *)

StoringPhase == {"storing", "decided", "upserted"}

\* The summary still says that the run saw everything and failed at nothing.
Clean(s) == {"fetched", "atEnd"} \subseteq run[s].says /\ "failed" \notin run[s].says

\* The record has been committed since the run started.
Seen(s, r) == prov[r].state = "live" /\ run[s].started <= prov[r].seen

StartedBefore ==
  \A s \in Source :
    /\ run[s].started <= now
    /\ run[s].phase \in {"decided", "upserted"} => run[s].started <= txn[s].at

\* What a clean run was offered is still to do, under way, or seen.
AccountsForOffer ==
  \A s \in Source :
    run[s].phase \in StoringPhase /\ Clean(s) =>
      \A r \in run[s].offered \cap RecordsOf(s) :
        \/ r \in run[s].todo
        \/ run[s].phase \in {"decided", "upserted"} /\ txn[s].record = r
        \/ Seen(s, r)

Justified(s, r) ==
  \/ r \notin run[s].offered
  \/ s \in Windowed /\ prov[r].seen + Lifetime < run[s].started

GoneIsJustified ==
  \A s \in Source : run[s].phase \in Reconciling => \A r \in txn[s].gone : Justified(s, r)

RetireInv == Typing /\ StartedBefore /\ AccountsForOffer /\ GoneIsJustified

\* What deciding about a record leaves of the walk.
LEMMA DecidePlan ==
  ASSUME TypeOK, NEW s \in Source, NEW r \in RecordsOf(s),
         DecideKnown(s, r) \/ DecideMatch(s, r) \/ DecideNew(s, r)
  PROVE  /\ run[s].phase = "storing" /\ run'[s].todo = run[s].todo \ {r}
         /\ run'[s].offered = run[s].offered
         /\ run'[s].says = run[s].says
         /\ run'[s].started = run[s].started
         /\ txn'[s].record = r /\ txn'[s].at = now /\ UNCHANGED <<prov, now>>
<1>1. PICK j, creates : Decide(s, r, j, creates)
  BY DEF DecideKnown, DecideMatch, DecideNew
<1> DEFINE todo == run[s].todo \ {r}
<1> DEFINE does == creates \cup {c \in {"revive"} : jobs[j].status = "removed"}
                           \cup {c \in {"restore"} : jobs[j].posting = NoPosting}
<1>2. /\ run' = [run EXCEPT ![s] = [@ EXCEPT !.phase = "decided", !.todo = todo]]
      /\ txn' = [txn EXCEPT ![s] = [@ EXCEPT !.record = r, !.job = j, !.at = now, !.does = does]]
      /\ UNCHANGED <<prov, now>>
  BY <1>1 DEF Decide
<1> HIDE DEF todo, does
<1>3. /\ run'[s].todo = todo /\ run'[s].offered = run[s].offered
      /\ run'[s].says = run[s].says /\ run'[s].started = run[s].started
  BY <1>2 DEF TypeOK, RunState
<1>4. txn'[s].record = r /\ txn'[s].at = now
  BY <1>2 DEF TypeOK, TxnState
<1>5. run[s].phase = "storing"
  BY DEF DecideKnown, DecideMatch, DecideNew
<1> QED BY <1>2, <1>3, <1>4, <1>5 DEF todo

\* A record refused, or whose upsert fails, leaves a failure in the summary.
LEMMA FailureNoted ==
  ASSUME TypeOK, NEW s \in Source,
         UpsertFails(s) \/ \E r \in RecordsOf(s) : RefuseAmbiguous(s, r)
  PROVE  "failed" \in run'[s].says /\ run'[s].started = run[s].started
<1> DEFINE says == run[s].says \cup {"failed"}
<1>1. CASE UpsertFails(s)
  <2>1. run' = [run EXCEPT ![s] = [@ EXCEPT !.phase = "storing", !.says = says]]
    BY <1>1 DEF UpsertFails
  <2>2. "failed" \in says
    OBVIOUS
  <2> HIDE DEF says
  <2> QED BY <2>1, <2>2 DEF TypeOK, RunState
<1>2. ASSUME NEW r \in RecordsOf(s), RefuseAmbiguous(s, r)
      PROVE  "failed" \in run'[s].says /\ run'[s].started = run[s].started
  <2> DEFINE todo == run[s].todo \ {r}
  <2>1. run' = [run EXCEPT ![s] = [@ EXCEPT !.todo = todo, !.says = says]]
    BY <1>2 DEF RefuseAmbiguous
  <2>2. "failed" \in says
    OBVIOUS
  <2> HIDE DEF says, todo
  <2> QED BY <2>1, <2>2 DEF TypeOK, RunState
<1> QED BY <1>1, <1>2

\* The steps of a record and of reconciliation keep what the walk came back with.
LEMMA PlanKept ==
  ASSUME TypeOK, NEW s \in Source,
         \/ \E r \in RecordsOf(s) : DecideKnown(s, r) \/ DecideMatch(s, r) \/ DecideNew(s, r)
         \/ Upsert(s) \/ CommitRecord(s) \/ RetireUnseen(s) \/ Withdraw(s)
  PROVE  /\ run'[s].offered = run[s].offered
         /\ run'[s].says = run[s].says
         /\ run'[s].started = run[s].started
<1>1. ASSUME NEW r \in RecordsOf(s), DecideKnown(s, r) \/ DecideMatch(s, r) \/ DecideNew(s, r)
      PROVE  /\ run'[s].offered = run[s].offered
             /\ run'[s].says = run[s].says
             /\ run'[s].started = run[s].started
  BY <1>1, DecidePlan
<1>2. CASE Upsert(s) \/ CommitRecord(s) \/ RetireUnseen(s) \/ Withdraw(s)
  BY <1>2 DEF Upsert, CommitRecord, RetireUnseen, Withdraw, TypeOK, RunState
<1> QED BY <1>1, <1>2

\* The clock does not go back.
LEMMA ClockRuns ==
  ASSUME TypeOK, [Next]_vars
  PROVE  now <= now'
<1>1. ASSUME NEW s \in Source, StoreStep(s) PROVE now' = now
  BY <1>1 DEF StoreStep, DecideKnown, DecideMatch, DecideNew, Decide, RefuseAmbiguous, Upsert,
              UpsertFails, CommitRecord
<1>2. ASSUME NEW s \in Source, StartRun(s) \/ RunStep(s) \/ Crash(s) PROVE now' = now
  BY <1>1, <1>2 DEF StartRun, RunStep, Walk, FinishRun, RetireUnseen, Withdraw, Crash,
                    CommitReconciliation
<1>3. ASSUME \/ Settle \/ (\E r \in Record : MoveListing(r)) \/ Expire \/ SweepStart \/ SweepStep
             \/ SweepCrash \/ UNCHANGED vars
      PROVE  now' = now
  BY <1>3 DEF Settle, MoveListing, Expire, SweepStart, SweepStep, SelectPage, SweepDone,
              LockProvenance, CommitPage, SweepCrash, vars
<1>4. now' = now \/ Tick
  BY <1>2, <1>3 DEF Next, World
<1> QED BY <1>4 DEF Tick, TypeOK

LEMMA StartedBeforeStep == Typing /\ StartedBefore /\ [Next]_vars => StartedBefore'
<1> SUFFICES ASSUME Typing, StartedBefore, [Next]_vars, NEW s \in Source
             PROVE  /\ run'[s].started <= now'
                    /\ run'[s].phase \in {"decided", "upserted"} => run'[s].started <= txn'[s].at
  BY DEF StartedBefore
<1> USE DEF Typing
<1>1. now \in Nat /\ now' \in Nat /\ now <= now' /\ run[s].started \in Nat /\ run[s].started <= now
  BY ClockRuns, TypeStep DEF TypeOK, RunState, StartedBefore
<1>2. CASE run'[s] = run[s] /\ txn'[s] = txn[s]
  BY <1>1, <1>2 DEF StartedBefore
<1>3. CASE StartRun(s)
  <2>1. run'[s].started = now /\ run'[s].phase = "fetching"
    BY <1>3 DEF StartRun, TypeOK, RunState
  <2> QED BY <1>1, <2>1
<1>4. CASE Walk(s) \/ UpsertFails(s) \/ \E r \in RecordsOf(s) : RefuseAmbiguous(s, r)
  <2>1. run'[s].started = run[s].started
    <3>1. CASE Walk(s)
      BY <3>1 DEF Walk, TypeOK, RunState
    <3> QED BY <1>4, <3>1, FailureNoted
  <2> QED BY <1>1, <1>4, <2>1, PhaseAfter
<1>5. ASSUME NEW r \in RecordsOf(s), DecideKnown(s, r) \/ DecideMatch(s, r) \/ DecideNew(s, r)
      PROVE  run'[s].started <= now' /\ run'[s].started <= txn'[s].at
  BY <1>1, <1>5, DecidePlan, PlanKept
<1>6. CASE Upsert(s)
  BY <1>1, <1>6, PlanKept DEF Upsert, StartedBefore
<1>7. CASE CommitRecord(s) \/ RetireUnseen(s) \/ Withdraw(s)
  BY <1>1, <1>7, PlanKept, PhaseAfter
<1>8. CASE FinishRun(s) \/ CommitReconciliation(s) \/ Crash(s)
  BY <1>1, <1>8, PhaseAfter DEF IdleRun
<1> QED
  BY <1>2, <1>3, <1>4, <1>5, <1>6, <1>7, <1>8, OthersUnchanged, RunsUnchanged
     DEF RunStep, StoreStep

\* A live row of a source is retired by nobody else, and is not seen earlier than it was.
LEMMA SeenStays ==
  ASSUME Typing, [Next]_vars, NEW s \in Source, NEW r \in RecordsOf(s), prov[r].state = "live",
         ~CommitReconciliation(s)
  PROVE  prov'[r].state = "live" /\ prov[r].seen <= prov'[r].seen
<1> USE DEF Typing
<1>1. r \in Record /\ prov[r].seen \in Nat
  BY DEF RecordsOf, TypeOK, ProvRow
<1>2. prov'[r].state = "live"
  <2>1. ASSUME NEW t \in Source, CommitReconciliation(t), r \in txn[t].gone PROVE t = s
    BY <2>1 DEF CommitReconciliation, GoneIsLive, Reconciling, RecordsOf
  <2> QED BY <1>1, <2>1, LiveStaysLive
<1>3. prov[r].seen <= prov'[r].seen
  <2>1. ASSUME NEW t \in Source, CommitRecord(t) PROVE prov[r].seen <= prov'[r].seen
    <3>1. txn[t].record \in Record /\ txn[t].at \in Nat
      BY <2>1, CommitTypes DEF TypeOK, TxnState
    <3>2. CASE r = txn[t].record
      BY <1>1, <2>1, <3>1, <3>2 DEF CommitRecord, Upserted, LaterOf, TypeOK
    <3>3. CASE r # txn[t].record
      BY <1>1, <2>1, <3>1, <3>3 DEF CommitRecord, TypeOK
    <3> QED BY <3>2, <3>3
  <2>2. ASSUME NEW t \in Source, CommitReconciliation(t) PROVE prov[r].seen <= prov'[r].seen
    <3>1. prov'[r].seen = prov[r].seen
      BY <1>1, <2>2 DEF CommitReconciliation, TypeOK, ProvRow
    <3> QED BY <1>1, <3>1
  <2>3. CASE CommitPage
    BY <1>1, <1>2, <2>3, PageRows DEF AbsentRow
  <2> QED BY <1>1, <2>1, <2>2, <2>3, RowsUnchanged
<1> QED BY <1>2, <1>3

LEMMA AccountsForOfferStep == RetireInv /\ [Next]_vars => AccountsForOffer'
<1> SUFFICES ASSUME RetireInv, [Next]_vars, NEW s \in Source, run'[s].phase \in StoringPhase,
                    {"fetched", "atEnd"} \subseteq run'[s].says, "failed" \notin run'[s].says,
                    NEW r \in run'[s].offered \cap RecordsOf(s)
             PROVE  \/ r \in run'[s].todo
                    \/ run'[s].phase \in {"decided", "upserted"} /\ txn'[s].record = r
                    \/ prov'[r].state = "live" /\ run'[s].started <= prov'[r].seen
  BY DEF AccountsForOffer, Clean, Seen
<1> USE DEF RetireInv
<1>1. TypeOK /\ Typing /\ r \in Record /\ run[s].started \in Nat /\ prov[r].seen \in Nat
  BY DEF Typing, TypeOK, RunState, ProvRow, RecordsOf
<1>2. CASE run'[s] = run[s] /\ txn'[s] = txn[s]
  <2>1. ~CommitReconciliation(s)
    BY <1>2 DEF CommitReconciliation, StoringPhase
  <2>2. ASSUME Seen(s, r)
        PROVE  prov'[r].state = "live" /\ run'[s].started <= prov'[r].seen
    <3>1. prov'[r].state = "live" /\ prov[r].seen <= prov'[r].seen
      BY <1>1, <2>1, <2>2, SeenStays DEF Seen
    <3>2. prov'[r].seen \in Nat
      BY <1>1, TypeStep DEF TypeOK, ProvRow
    <3> QED BY <1>1, <1>2, <2>2, <3>1, <3>2 DEF Seen
  <2> QED BY <1>2, <2>2 DEF AccountsForOffer, Clean
<1>3. CASE Walk(s)
  <2>1. PICK got \in SUBSET listed[s], says \in SUBSET Remark :
          /\ WalkOutcome(s, got, says)
          /\ run' = [run EXCEPT ![s] = [@ EXCEPT !.phase = "storing", !.offered = listed[s],
                                                 !.todo = got, !.says = says]]
    BY <1>3 DEF Walk
  <2>2. run'[s].offered = listed[s] /\ run'[s].todo = got /\ run'[s].says = says
    BY <1>1, <2>1 DEF TypeOK, RunState
  <2> QED BY <2>1, <2>2 DEF WalkOutcome
<1>4. ASSUME NEW q \in RecordsOf(s), DecideKnown(s, q) \/ DecideMatch(s, q) \/ DecideNew(s, q)
      PROVE  \/ r \in run'[s].todo
             \/ run'[s].phase \in {"decided", "upserted"} /\ txn'[s].record = r
             \/ prov'[r].state = "live" /\ run'[s].started <= prov'[r].seen
  BY <1>1, <1>4, DecidePlan, PlanKept, PhaseAfter DEF AccountsForOffer, Clean, Seen, StoringPhase
<1>5. CASE Upsert(s)
  <2>1. run'[s].todo = run[s].todo /\ txn' = txn /\ prov' = prov /\ run[s].phase = "decided"
    BY <1>1, <1>5 DEF Upsert, TypeOK, RunState
  <2> QED BY <1>1, <1>5, <2>1, PlanKept, PhaseAfter DEF AccountsForOffer, Clean, Seen, StoringPhase
<1>6. CASE CommitRecord(s)
  <2>1. run'[s].todo = run[s].todo /\ run[s].phase = "upserted"
    BY <1>1, <1>6 DEF CommitRecord, TypeOK, RunState
  <2>2. CASE r = txn[s].record
    <3>1. prov'[r] = Upserted(s)
      BY <1>1, <1>6, <2>2 DEF CommitRecord, TypeOK
    <3>2. txn[s].at \in Nat /\ run[s].started <= txn[s].at
      BY <1>1, <2>1 DEF TypeOK, TxnState, StartedBefore
    <3>3. Upserted(s).state = "live" /\ txn[s].at <= Upserted(s).seen /\ Upserted(s).seen \in Nat
      BY <1>1, <2>2, <3>2 DEF Upserted, LaterOf
    <3> QED BY <1>1, <1>6, <3>1, <3>2, <3>3, PlanKept
  <2>3. CASE r \in run[s].todo
    BY <2>1, <2>3
  <2>4. CASE Seen(s, r)
    <3>1. prov'[r].state = "live" /\ prov[r].seen <= prov'[r].seen
      BY <1>1, <2>1, <2>4, SeenStays DEF Seen, CommitReconciliation
    <3>2. prov'[r].seen \in Nat
      BY <1>1, TypeStep DEF TypeOK, ProvRow
    <3> QED BY <1>1, <1>6, <2>4, <3>1, <3>2, PlanKept DEF Seen
  <2> QED BY <1>1, <1>6, <2>1, <2>2, <2>3, <2>4, PlanKept DEF AccountsForOffer, Clean, StoringPhase
<1>7. CASE UpsertFails(s) \/ \E q \in RecordsOf(s) : RefuseAmbiguous(s, q)
  <2>1. "failed" \in run'[s].says
    BY <1>1, <1>7, FailureNoted
  <2> QED BY <2>1
<1>8. ASSUME StartRun(s) \/ RunStep(s) \/ Crash(s)
      PROVE  \/ Walk(s) \/ Upsert(s) \/ CommitRecord(s) \/ UpsertFails(s)
             \/ \E q \in RecordsOf(s) : \/ DecideKnown(s, q) \/ DecideMatch(s, q)
                                        \/ DecideNew(s, q) \/ RefuseAmbiguous(s, q)
  BY <1>1, <1>8, PhaseAfter DEF RunStep, StoreStep, StoringPhase, IdleRun
<1> QED
  BY <1>1, <1>2, <1>3, <1>4, <1>5, <1>6, <1>7, <1>8, OthersUnchanged, RunsUnchanged

LEMMA GoneIsJustifiedStep == RetireInv /\ [Next]_vars => GoneIsJustified'
<1> SUFFICES ASSUME RetireInv, [Next]_vars, NEW s \in Source, run'[s].phase \in Reconciling,
                    NEW r \in txn'[s].gone
             PROVE  \/ r \notin run'[s].offered
                    \/ s \in Windowed /\ prov'[r].seen + Lifetime < run'[s].started
  BY DEF GoneIsJustified, Justified
<1> USE DEF RetireInv
<1>1. TypeOK /\ Typing
  BY DEF Typing
<1>2. CASE run'[s] = run[s] /\ txn'[s] = txn[s]
  <2>1. r \in RecordsOf(s) /\ r \in Record /\ prov[r].state = "live" /\ Justified(s, r)
    BY <1>2 DEF Typing, GoneIsLive, GoneIsJustified, RecordsOf
  <2>2. prov'[r] = prov[r]
    <3>1. ASSUME NEW t \in Source, CommitRecord(t) PROVE prov'[r] = prov[r]
      <4>1. t # s /\ txn[t].record \in RecordsOf(t)
        BY <1>2, <3>1 DEF CommitRecord, Reconciling, Typing, RunHoldsRecord
      <4> QED BY <2>1, <3>1, <4>1 DEF CommitRecord, RecordsOf, Typing, TypeOK
    <3>2. ASSUME NEW t \in Source, CommitReconciliation(t) PROVE prov'[r] = prov[r]
      <4>1. t # s
        BY <1>1, <1>2, <3>2, PhaseAfter DEF IdleRun, Reconciling
      <4>2. r \notin txn[t].gone
        BY <2>1, <3>2, <4>1 DEF CommitReconciliation, Typing, GoneIsLive, Reconciling, RecordsOf
      <4> QED BY <2>1, <3>2, <4>2 DEF CommitReconciliation
    <3>3. CASE CommitPage
      <4>1. prov'[r].state = "live"
        BY <1>1, <2>1, <3>3, LiveStaysLive DEF CommitPage, CommitReconciliation, Typing, TypeOK,
                                              SweepState
      <4> QED BY <2>1, <3>3, <4>1, PageRows DEF AbsentRow
    <3> QED BY <3>1, <3>2, <3>3, RowsUnchanged
  <2> QED BY <1>2, <2>1, <2>2 DEF Justified
<1>3. CASE RetireUnseen(s)
  <2>1. /\ r \in Unseen(s) /\ prov' = prov /\ run[s].phase = "storing" /\ run[s].todo = {}
        /\ r \in RecordsOf(s) /\ r \in Record
    BY <1>1, <1>3, PhaseAfter DEF RetireUnseen, Unseen, RecordsOf
  <2>2. prov[r].seen \in Nat /\ run[s].started \in Nat
    BY <1>1, <2>1 DEF TypeOK, ProvRow, RunState
  <2>3. CASE Exhausted(s) /\ prov[r].seen < run[s].started
    <3>1. Clean(s) /\ ~Seen(s, r)
      BY <2>2, <2>3 DEF Exhausted, Clean, Seen
    <3>2. r \notin run[s].offered
      BY <2>1, <3>1 DEF AccountsForOffer, StoringPhase
    <3> QED BY <1>1, <1>3, <3>2, PlanKept
  <2>4. CASE MayAgeOut(s) /\ prov[r].seen + Lifetime < run[s].started
    BY <1>1, <1>3, <2>1, <2>4, PlanKept DEF MayAgeOut
  <2> QED BY <2>1, <2>3, <2>4 DEF Unseen
<1>4. CASE Withdraw(s)
  BY <1>1, <1>4, PlanKept, PhaseAfter DEF Withdraw, GoneIsJustified, Justified, Reconciling
<1>5. ASSUME StartRun(s) \/ RunStep(s) \/ Crash(s) PROVE RetireUnseen(s) \/ Withdraw(s)
  BY <1>1, <1>5, PhaseAfter DEF RunStep, StoreStep, Reconciling, IdleRun
<1> QED BY <1>1, <1>2, <1>3, <1>4, <1>5, OthersUnchanged, RunsUnchanged

LEMMA RetireInvInit == Init => RetireInv
BY TypingInit
   DEF Init, RetireInv, StartedBefore, AccountsForOffer, GoneIsJustified, IdleRun, StoringPhase,
       Reconciling

LEMMA RetireInvStep == RetireInv /\ [Next]_vars => RetireInv'
BY TypingStep, StartedBeforeStep, AccountsForOfferStep, GoneIsJustifiedStep DEF RetireInv

\* A row is retired only for a posting its source no longer listed when the run walked it, or
\* one a windowed source has not shown for its lifetime.
THEOREM RetirementJustified == Spec => RetiresOnlyWhatIsGone
<1>1. ASSUME RetireInv, [Next]_vars, NEW r \in Record,
             prov[r].state = "live", prov'[r].state = "retired"
      PROVE  Justified(SourceOf[r], r)
  <2>1. PICK s \in Source : CommitReconciliation(s) /\ r \in txn[s].gone
    BY <1>1, LiveStaysLive DEF RetireInv
  <2>2. s = SourceOf[r]
    BY <2>1, <1>1 DEF CommitReconciliation, RetireInv, Typing, GoneIsLive, Reconciling, RecordsOf
  <2> QED BY <1>1, <2>1, <2>2 DEF RetireInv, CommitReconciliation, GoneIsJustified, Reconciling
<1>2. RetireInv /\ [Next]_vars =>
        [\A r \in Record :
           prov[r].state = "live" /\ prov[r]'.state = "retired" =>
             LET s == SourceOf[r] IN
             \/ r \notin run[s].offered
             \/ s \in Windowed /\ prov[r].seen + Lifetime < run[s].started]_vars
  BY <1>1 DEF Justified
<1> QED BY <1>2, RetireInvInit, RetireInvStep, PTL DEF Spec, RetiresOnlyWhatIsGone

\* A run that is concluding has stored what it was offered.
OfferIsLive ==
  \A s \in Source \ Windowed :
    run[s].phase \in Reconciling =>
      \A r \in RecordsOf(s) \cap run[s].offered : prov[r].state = "live"

LEMMA OfferIsLiveStep == RetireInv /\ OfferIsLive /\ [Next]_vars => OfferIsLive'
<1> SUFFICES ASSUME RetireInv, OfferIsLive, [Next]_vars, NEW s \in Source \ Windowed,
                    run'[s].phase \in Reconciling,
                    NEW r \in RecordsOf(s) \cap run'[s].offered
             PROVE  prov'[r].state = "live"
  BY DEF OfferIsLive
<1> USE DEF RetireInv
<1>1. TypeOK /\ Typing
  BY DEF Typing
<1>2. CASE run'[s] = run[s]
  <2>1. prov[r].state = "live"
    BY <1>2 DEF OfferIsLive
  <2>2. ~CommitReconciliation(s)
    BY <1>1, PhaseAfter DEF IdleRun, Reconciling
  <2> QED BY <1>1, <2>1, <2>2, SeenStays
<1>3. CASE RetireUnseen(s)
  <2>1. prov' = prov /\ run[s].phase = "storing" /\ run[s].todo = {} /\ Unseen(s) # {}
    BY <1>3 DEF RetireUnseen
  <2>2. Exhausted(s)
    BY <2>1 DEF Unseen, MayAgeOut
  <2>3. r \in run[s].offered
    BY <1>1, <1>3, PlanKept
  <2>4. Seen(s, r)
    BY <2>1, <2>2, <2>3 DEF Exhausted, Clean, AccountsForOffer, StoringPhase
  <2> QED BY <2>1, <2>4 DEF Seen
<1>4. CASE Withdraw(s)
  BY <1>1, <1>4, PlanKept DEF Withdraw, OfferIsLive, Reconciling
<1>5. ASSUME StartRun(s) \/ RunStep(s) \/ Crash(s) PROVE RetireUnseen(s) \/ Withdraw(s)
  BY <1>1, <1>5, PhaseAfter DEF RunStep, StoreStep, Reconciling, IdleRun
<1> QED BY <1>1, <1>2, <1>3, <1>4, <1>5, OthersUnchanged, RunsUnchanged

\* A run retires rows of a source without a stated lifetime only when everything the source
\* listed has a live row: nothing is concluded while a record was refused or has failed.
THEOREM RetirementComplete == Spec => ConcludesFromAll
<1>1. ASSUME RetireInv, OfferIsLive, [Next]_vars, NEW s \in Source \ Windowed,
             NEW q \in RecordsOf(s), prov[q].state = "live", prov'[q].state = "retired",
             NEW r \in RecordsOf(s) \cap run[s].offered
      PROVE  prov[r].state = "live"
  <2>1. PICK t \in Source : CommitReconciliation(t) /\ q \in txn[t].gone
    BY <1>1, LiveStaysLive DEF RetireInv, RecordsOf
  <2>2. t = s
    BY <2>1, <1>1 DEF CommitReconciliation, RetireInv, Typing, GoneIsLive, Reconciling, RecordsOf
  <2> QED BY <1>1, <2>1, <2>2 DEF OfferIsLive, CommitReconciliation, Reconciling
<1>2. RetireInv /\ OfferIsLive /\ [Next]_vars =>
        [\A s \in Source \ Windowed :
           (\E r \in RecordsOf(s) : prov[r].state = "live" /\ prov[r]'.state = "retired") =>
             \A r \in RecordsOf(s) \cap run[s].offered : prov[r].state = "live"]_vars
  BY <1>1
<1>3. Init => OfferIsLive
  BY DEF Init, OfferIsLive, IdleRun, Reconciling
<1> QED
  BY <1>2, <1>3, RetireInvInit, RetireInvStep, OfferIsLiveStep, PTL DEF Spec, ConcludesFromAll

-----------------------------------------------------------------------------
(* Without overlap, what a job's status says and what its rows say agree.   *)

OneRun ==
  \A s, t \in Source : run[s].phase # "idle" /\ run[t].phase # "idle" => s = t

\* A job a run will not revive has not been withdrawn since the run loaded it.
DecisionHolds ==
  \A s \in Source :
    run[s].phase \in {"decided", "upserted"} /\ txn[s].does \cap {"create", "revive"} = {} =>
      jobs[txn[s].job].status # "removed"

\* The jobs a run is about to withdraw are exactly the served ones that lose their last row.
WithdrawalHolds ==
  \A s \in Source :
    run[s].phase = "withdrawn" =>
      /\ \A j \in txn[s].withdraw : LiveRowsOf(j) \subseteq txn[s].gone
      /\ \A j \in Job :
           jobs[j].status = "active" /\ LiveRowsOf(j) \subseteq txn[s].gone => j \in txn[s].withdraw

SerialInv ==
  /\ Typing /\ RowAgrees
  /\ OneRun /\ DecisionHolds /\ WithdrawalHolds
  /\ RemovedIsUnlisted /\ ActiveIsListed

LEMMA OneRunStep == ASSUME ~Overlap PROVE Typing /\ OneRun /\ [Next]_vars => OneRun'
<1> SUFFICES ASSUME Typing, OneRun, [Next]_vars PROVE OneRun'
  OBVIOUS
<1> USE DEF Typing
<1>1. ASSUME NEW s \in Source, StartRun(s) \/ RunStep(s) \/ Crash(s) PROVE OneRun'
  <2>1. \A t \in Source \ {s} : run'[t].phase = "idle"
    <3>1. CASE StartRun(s)
      BY <1>1, <3>1, OthersUnchanged DEF StartRun
    <3>2. ~StartRun(s) => run[s].phase # "idle"
      BY <1>1 DEF RunStep, StoreStep, Walk, DecideKnown, DecideMatch, DecideNew, RefuseAmbiguous,
                  Upsert, UpsertFails, CommitRecord, FinishRun, RetireUnseen, Withdraw,
                  CommitReconciliation, Crash
    <3> QED BY <1>1, <3>1, <3>2, OthersUnchanged DEF OneRun
  <2> QED BY <2>1 DEF OneRun
<1> QED BY <1>1, RunsUnchanged DEF OneRun

\* Nothing happens to a run in progress but its own steps.
LEMMA OnlyRun ==
  ASSUME ~Overlap, Typing, OneRun, NEW s \in Source, run[s].phase # "idle",
         NEW t \in Source, StartRun(t) \/ RunStep(t) \/ Crash(t)
  PROVE  t = s
<1>1. ~StartRun(t)
  BY DEF StartRun
<1>2. run[t].phase # "idle"
  BY <1>1 DEF RunStep, StoreStep, Walk, DecideKnown, DecideMatch, DecideNew, RefuseAmbiguous,
              Upsert, UpsertFails, CommitRecord, FinishRun, RetireUnseen, Withdraw,
              CommitReconciliation, Crash
<1> QED BY <1>2 DEF OneRun

\* How the live rows of a job change.
LEMMA LiveRowsAfter ==
  ASSUME Typing, RowAgrees, [Next]_vars, NEW j \in Job
  PROVE  /\ \A s \in Source :
              CommitRecord(s) =>
                LiveRowsOf(j)' = IF j = txn[s].job THEN LiveRowsOf(j) \cup {txn[s].record}
                                                  ELSE LiveRowsOf(j)
         /\ \A s \in Source : CommitReconciliation(s) => LiveRowsOf(j)' = LiveRowsOf(j) \ txn[s].gone
         /\ \/ \E s \in Source : CommitRecord(s) \/ CommitReconciliation(s)
            \/ LiveRowsOf(j)' = LiveRowsOf(j)
<1> USE DEF Typing
<1>1. LiveRowsOf(j) = {r \in Record : prov[r].state = "live" /\ prov[r].job = j}
  BY DEF LiveRowsOf, RowsOf
<1>2. LiveRowsOf(j)' = {r \in Record : prov'[r].state = "live" /\ prov'[r].job = j}
  BY DEF LiveRowsOf, RowsOf
<1>3. ASSUME NEW s \in Source, CommitRecord(s)
      PROVE  LiveRowsOf(j)' = IF j = txn[s].job THEN LiveRowsOf(j) \cup {txn[s].record}
                                                ELSE LiveRowsOf(j)
  <2> DEFINE q == txn[s].record
  <2>1. q \in Record /\ run[s].phase = "upserted"
    BY <1>3, CommitTypes DEF CommitRecord
  <2>2. prov'[q].state = "live" /\ prov'[q].job = txn[s].job
    <3>1. prov'[q] = Upserted(s)
      BY <1>3, <2>1 DEF CommitRecord, TypeOK
    <3>2. Upserted(s).job = txn[s].job
      BY <2>1 DEF Upserted, RowAgrees
    <3> QED BY <1>3, <3>1, <3>2, CommitTypes
  <2>3. prov[q].state # "absent" => prov[q].job = txn[s].job
    BY <2>1 DEF RowAgrees
  <2>4. \A r \in Record : r # q => prov'[r] = prov[r]
    BY <1>3 DEF CommitRecord, TypeOK
  <2> HIDE DEF q
  <2>5. \A r \in Record : prov'[r].state = "live" /\ prov'[r].job = j <=>
                            \/ prov[r].state = "live" /\ prov[r].job = j
                            \/ j = txn[s].job /\ r = q
    BY <2>2, <2>3, <2>4
  <2> QED BY <1>1, <1>2, <2>1, <2>5 DEF q
<1>4. ASSUME NEW s \in Source, CommitReconciliation(s)
      PROVE  LiveRowsOf(j)' = LiveRowsOf(j) \ txn[s].gone
  <2>1. \A r \in Record : /\ prov'[r].job = prov[r].job
                          /\ prov'[r].state = IF r \in txn[s].gone THEN "retired" ELSE prov[r].state
    BY <1>4 DEF CommitReconciliation, TypeOK, ProvRow
  <2> QED BY <1>1, <1>2, <2>1
<1>5. ASSUME ~\E s \in Source : CommitRecord(s) \/ CommitReconciliation(s)
      PROVE  LiveRowsOf(j)' = LiveRowsOf(j)
  <2>1. CASE UNCHANGED prov
    BY <2>1, <1>1, <1>2
  <2>2. CASE CommitPage
    <3>1. \A r \in Record : prov'[r].state = "live" => prov'[r] = prov[r]
      BY <2>2, PageRows DEF AbsentRow
    <3>2. \A r \in Record : prov[r].state = "live" => prov'[r].state = "live"
      BY <1>5, LiveStaysLive
    <3> QED BY <1>1, <1>2, <3>1, <3>2
  <2> QED BY <1>5, <2>1, <2>2, RowsUnchanged
<1> QED BY <1>3, <1>4, <1>5

\* How the status of a job changes.
LEMMA StatusAfter ==
  ASSUME Typing, [Next]_vars, NEW j \in Job
  PROVE  \/ jobs'[j].status \in {jobs[j].status, "absent"}
         \/ jobs'[j].status = "expired" /\ jobs[j].status = "active"
         \/ \E s \in Source : /\ CommitRecord(s) /\ j = txn[s].job
                              /\ jobs'[j].status = "active"
         \/ \E s \in Source : /\ CommitReconciliation(s) /\ j \in txn[s].withdraw
                              /\ jobs'[j].status = "removed"
<1> USE DEF Typing
<1>1. jobs[j] \in JobRow
  BY DEF TypeOK
<1>2. ASSUME NEW s \in Source, CommitRecord(s)
      PROVE  jobs'[j].status = jobs[j].status \/ (j = txn[s].job /\ jobs'[j].status = "active")
  <2>1. PICK touched \in BOOLEAN : jobs' = [jobs EXCEPT ![txn[s].job] = Flushed(s, touched)]
    BY <1>2 DEF CommitRecord
  <2>2. CASE j = txn[s].job
    <3>1. jobs'[j] = Flushed(s, touched)
      BY <2>1, <2>2 DEF TypeOK
    <3>2. Flushed(s, touched).status \in {"active", jobs[j].status}
      BY <1>1, <2>2 DEF Flushed, JobRow
    <3> QED BY <2>2, <3>1, <3>2
  <2>3. CASE j # txn[s].job
    BY <2>1, <2>3 DEF TypeOK
  <2> QED BY <2>2, <2>3
<1>3. ASSUME NEW s \in Source, CommitReconciliation(s)
      PROVE  IF j \in txn[s].withdraw THEN jobs'[j].status = "removed"
                                      ELSE jobs'[j].status = jobs[j].status
  BY <1>1, <1>3 DEF CommitReconciliation, JobRow
<1>4. ASSUME Expire
      PROVE  jobs'[j].status = jobs[j].status \/ (jobs'[j].status = "expired" /\ jobs[j].status = "active")
  BY <1>1, <1>4 DEF Expire, Lapsed, JobRow
<1>5. ASSUME CommitPage PROVE jobs'[j].status \in {jobs[j].status, "absent"}
  <2>1. \/ jobs'[j] = [jobs[j] EXCEPT !.posting = NoPosting, !.stripped = TRUE, !.changed = now]
        \/ jobs'[j] = AbsentJob
        \/ jobs'[j] = jobs[j]
    BY <1>5 DEF CommitPage
  <2>2. AbsentJob.status = "absent"
    BY DEF AbsentJob
  <2>3. [jobs[j] EXCEPT !.posting = NoPosting, !.stripped = TRUE, !.changed = now].status = jobs[j].status
    BY <1>1 DEF JobRow
  <2> QED BY <2>1, <2>2, <2>3
<1> QED BY <1>2, <1>3, <1>4, <1>5, JobsUnchanged

LEMMA DecisionHoldsStep ==
  ASSUME ~Overlap PROVE SerialInv /\ [Next]_vars => DecisionHolds'
<1> SUFFICES ASSUME SerialInv, [Next]_vars, NEW s \in Source,
                    run'[s].phase \in {"decided", "upserted"},
                    txn'[s].does \cap {"create", "revive"} = {}
             PROVE  jobs'[txn'[s].job].status # "removed"
  BY DEF DecisionHolds
<1>1. Typing /\ TypeOK /\ OneRun
  BY DEF SerialInv, Typing
<1>2. ASSUME run[s].phase \in {"decided", "upserted"}, txn'[s] = txn[s]
      PROVE  jobs'[txn'[s].job].status # "removed"
  <2>1. txn[s].job \in Job /\ jobs[txn[s].job].status # "removed"
    BY <1>2 DEF SerialInv, DecisionHolds, Typing, RunHoldsRecord
  <2>2. ASSUME NEW t \in Source, CommitReconciliation(t) PROVE FALSE
    BY <1>1, <1>2, <2>2 DEF OneRun, CommitReconciliation
  <2> QED BY <1>1, <1>2, <2>1, <2>2, StatusAfter
<1>3. ASSUME NEW r \in RecordsOf(s), NEW j \in Job, NEW creates \in SUBSET Change,
             Decide(s, r, j, creates)
      PROVE  jobs'[txn'[s].job].status # "removed"
  <2> DEFINE does == creates \cup {c \in {"revive"} : jobs[j].status = "removed"}
                             \cup {c \in {"restore"} : jobs[j].posting = NoPosting}
  <2>1. txn' = [txn EXCEPT ![s] = [@ EXCEPT !.record = r, !.job = j, !.at = now, !.does = does]]
    BY <1>3 DEF Decide
  <2>2. jobs[j].status = "removed" => "revive" \in does
    OBVIOUS
  <2> HIDE DEF does
  <2>3. txn'[s].does = does /\ txn'[s].job = j
    BY <1>1, <2>1 DEF TypeOK, TxnState
  <2> QED BY <1>3, <2>2, <2>3 DEF Decide
<1>4. ASSUME NEW r \in RecordsOf(s), DecideKnown(s, r) \/ DecideMatch(s, r) \/ DecideNew(s, r)
      PROVE  jobs'[txn'[s].job].status # "removed"
  <2>1. DecideKnown(s, r) => prov[r].job \in Job
    BY <1>1 DEF DecideKnown, Typing, RowHasJob, RecordsOf
  <2> QED BY <1>3, <1>4, <2>1 DEF DecideKnown, DecideMatch, DecideNew, Change
<1>5. ASSUME StartRun(s) \/ RunStep(s) \/ Crash(s)
      PROVE  Upsert(s) \/ \E r \in RecordsOf(s) : DecideKnown(s, r) \/ DecideMatch(s, r) \/ DecideNew(s, r)
  BY <1>1, <1>5, PhaseAfter DEF RunStep, StoreStep, IdleRun
<1>6. CASE Upsert(s)
  BY <1>2, <1>6 DEF Upsert
<1>7. CASE run'[s] = run[s] /\ txn'[s] = txn[s]
  BY <1>2, <1>7
<1> QED BY <1>1, <1>4, <1>5, <1>6, <1>7, OthersUnchanged, RunsUnchanged

LEMMA WithdrawalHoldsStep ==
  ASSUME ~Overlap PROVE SerialInv /\ [Next]_vars => WithdrawalHolds'
<1> SUFFICES ASSUME SerialInv, [Next]_vars, NEW s \in Source, run'[s].phase = "withdrawn"
             PROVE  /\ \A j \in txn'[s].withdraw : LiveRowsOf(j)' \subseteq txn'[s].gone
                    /\ \A j \in Job :
                         jobs'[j].status = "active" /\ LiveRowsOf(j)' \subseteq txn'[s].gone =>
                           j \in txn'[s].withdraw
  BY DEF WithdrawalHolds, LiveRowsOf, RowsOf
<1>1. Typing /\ TypeOK /\ OneRun /\ RowAgrees
  BY DEF SerialInv, Typing
<1>2. CASE Withdraw(s)
  <2>1. /\ txn'[s].gone = txn[s].gone /\ txn'[s].withdraw = NobodyLists(s)
        /\ prov' = prov /\ jobs' = jobs
    BY <1>1, <1>2, PhaseAfter DEF Withdraw
  <2>2. \A j : LiveRowsOf(j)' = LiveRowsOf(j)
    BY <2>1 DEF LiveRowsOf, RowsOf
  <2>3. ASSUME NEW j \in Job, jobs[j].status = "active", LiveRowsOf(j) \subseteq txn[s].gone
        PROVE  j \in NobodyLists(s)
    <3>1. PICK r \in LiveRowsOf(j) : TRUE
      BY <2>3 DEF SerialInv, ActiveIsListed
    <3> QED BY <2>3, <3>1 DEF NobodyLists, LiveRowsOf, RowsOf
  <2> QED BY <2>1, <2>2, <2>3 DEF NobodyLists
<1>3. CASE run'[s] = run[s] /\ txn'[s] = txn[s]
  <2>1. ASSUME NEW t \in Source, CommitRecord(t) \/ CommitReconciliation(t) PROVE FALSE
    <3>1. t = s
      BY <1>1, <1>3, <2>1, OnlyRun DEF RunStep, StoreStep
    <3> QED BY <1>1, <1>3, <2>1, <3>1, PhaseAfter DEF IdleRun
  <2>2. \A j \in Job : LiveRowsOf(j)' = LiveRowsOf(j)
    BY <1>1, <2>1, LiveRowsAfter
  <2>3. \A j \in Job : jobs'[j].status = "active" => jobs[j].status = "active"
    BY <1>1, <2>1, StatusAfter
  <2>4. txn[s].withdraw \subseteq Job
    BY <1>1 DEF TypeOK, TxnState
  <2> QED BY <1>3, <2>2, <2>3, <2>4 DEF SerialInv, WithdrawalHolds
<1>4. ASSUME StartRun(s) \/ RunStep(s) \/ Crash(s) PROVE Withdraw(s)
  BY <1>1, <1>4, PhaseAfter DEF RunStep, StoreStep, IdleRun
<1> QED BY <1>1, <1>2, <1>3, <1>4, OthersUnchanged, RunsUnchanged

LEMMA RemovedIsUnlistedStep == SerialInv /\ [Next]_vars => RemovedIsUnlisted'
<1> SUFFICES ASSUME SerialInv, [Next]_vars, NEW j \in Job, jobs'[j].status = "removed"
             PROVE  LiveRowsOf(j)' = {}
  BY DEF RemovedIsUnlisted, LiveRowsOf, RowsOf
<1>1. Typing /\ TypeOK /\ RowAgrees
  BY DEF SerialInv, Typing
<1>2. ASSUME NEW s \in Source, CommitReconciliation(s), j \in txn[s].withdraw
      PROVE  LiveRowsOf(j)' = {}
  <2>1. LiveRowsOf(j) \subseteq txn[s].gone
    BY <1>2 DEF SerialInv, WithdrawalHolds, CommitReconciliation
  <2>2. LiveRowsOf(j)' = LiveRowsOf(j) \ txn[s].gone
    BY <1>1, <1>2, LiveRowsAfter
  <2> QED BY <2>1, <2>2
<1>3. CASE jobs[j].status = "removed"
  <2>1. LiveRowsOf(j) = {}
    BY <1>3 DEF SerialInv, RemovedIsUnlisted
  <2>2. ASSUME NEW s \in Source, CommitRecord(s), j = txn[s].job PROVE FALSE
    <3>1. PICK touched \in BOOLEAN : jobs' = [jobs EXCEPT ![txn[s].job] = Flushed(s, touched)]
      BY <2>2 DEF CommitRecord
    <3>2. jobs'[j] = Flushed(s, touched) /\ jobs[j] \in JobRow
      BY <1>1, <2>2, <3>1 DEF TypeOK
    <3>3. txn[s].does \cap {"create", "revive"} # {}
      BY <1>3, <2>2 DEF SerialInv, DecisionHolds, CommitRecord
    <3>4. Flushed(s, touched).status = "active"
      BY <2>2, <3>2, <3>3 DEF Flushed, JobRow
    <3> QED BY <3>2, <3>4
  <2> QED BY <1>1, <2>1, <2>2, LiveRowsAfter
<1> QED BY <1>1, <1>2, <1>3, StatusAfter

LEMMA ActiveIsListedStep == SerialInv /\ [Next]_vars => ActiveIsListed'
<1> SUFFICES ASSUME SerialInv, [Next]_vars, NEW j \in Job, jobs'[j].status = "active"
             PROVE  LiveRowsOf(j)' # {}
  BY DEF ActiveIsListed, LiveRowsOf, RowsOf
<1>1. Typing /\ TypeOK /\ RowAgrees
  BY DEF SerialInv, Typing
<1>2. ASSUME NEW s \in Source, CommitRecord(s), j = txn[s].job PROVE LiveRowsOf(j)' # {}
  BY <1>1, <1>2, LiveRowsAfter
<1>3. CASE jobs[j].status = "active"
  <2>1. LiveRowsOf(j) # {}
    BY <1>3 DEF SerialInv, ActiveIsListed
  <2>2. ASSUME NEW s \in Source, CommitReconciliation(s) PROVE LiveRowsOf(j)' # {}
    <3>1. j \notin txn[s].withdraw
      BY <1>1, <2>2 DEF CommitReconciliation, TypeOK, JobRow
    <3>2. ~(LiveRowsOf(j) \subseteq txn[s].gone)
      BY <1>3, <2>2, <3>1 DEF SerialInv, WithdrawalHolds, CommitReconciliation
    <3>3. LiveRowsOf(j)' = LiveRowsOf(j) \ txn[s].gone
      BY <1>1, <2>2, LiveRowsAfter
    <3> QED BY <3>2, <3>3
  <2>3. ASSUME NEW s \in Source, CommitRecord(s) PROVE LiveRowsOf(j)' # {}
    BY <1>1, <2>1, <2>3, LiveRowsAfter
  <2> QED BY <1>1, <2>1, <2>2, <2>3, LiveRowsAfter
<1> QED BY <1>1, <1>2, <1>3, StatusAfter

LEMMA SerialInvInit == Init => SerialInv
<1>1. Init => Typing
  BY TypingInit
<1> QED
  BY <1>1
     DEF Init, SerialInv, RowAgrees, OneRun, DecisionHolds, WithdrawalHolds, RemovedIsUnlisted,
         ActiveIsListed, IdleRun, AbsentJob

LEMMA SerialInvStep == ASSUME ~Overlap PROVE SerialInv /\ [Next]_vars => SerialInv'
BY TypingStep, RowAgreesStep, OneRunStep, DecisionHoldsStep, WithdrawalHoldsStep,
   RemovedIsUnlistedStep, ActiveIsListedStep DEF SerialInv

\* When runs do not overlap, a job is withdrawn only once no source lists it.
THEOREM SerialRemovedIsUnlisted == ASSUME ~Overlap PROVE Spec => []RemovedIsUnlisted
<1>1. SerialInv => RemovedIsUnlisted
  BY DEF SerialInv
<1>2. SerialInv /\ [Next]_vars => SerialInv'
  BY SerialInvStep
<1> QED BY <1>1, <1>2, SerialInvInit, PTL DEF Spec

\* When runs do not overlap, a served job is one some source lists.
THEOREM SerialActiveIsListed == ASSUME ~Overlap PROVE Spec => []ActiveIsListed
<1>1. SerialInv => ActiveIsListed
  BY DEF SerialInv
<1>2. SerialInv /\ [Next]_vars => SerialInv'
  BY SerialInvStep
<1> QED BY <1>1, <1>2, SerialInvInit, PTL DEF Spec

-----------------------------------------------------------------------------
(* Without overlap and without references from outside, what reads the     *)
(* same is one job.                                                        *)

\* Nothing strips a text, so no decision is about to put one back.
TextStays ==
  /\ \A j \in Job : Stored(j) => jobs[j].posting # NoPosting
  /\ \A s \in Source :
       run[s].phase \in {"decided", "upserted"} /\ "restore" \in txn[s].does => "create" \in txn[s].does

\* The posting a run is about to make a job of still is nobody's.
StillNew ==
  \A s \in Source :
    run[s].phase \in {"decided", "upserted"} /\ "create" \in txn[s].does =>
      Candidates(txn[s].record) = {}

\* A job about to be withdrawn has a row that is about to be retired.
WithdrawnHaveRows ==
  \A s \in Source :
    run[s].phase = "withdrawn" => \A j \in txn[s].withdraw : \E r \in txn[s].gone : prov[r].job = j

PostingsInv ==
  RowsInv /\ OneRun /\ WithdrawnHaveRows /\ TextStays /\ StillNew /\ OneJobPerPosting

LEMMA WithdrawnHaveRowsStep == Typing /\ WithdrawnHaveRows /\ [Next]_vars => WithdrawnHaveRows'
<1> SUFFICES ASSUME Typing, WithdrawnHaveRows, [Next]_vars, NEW s \in Source,
                    run'[s].phase = "withdrawn", NEW j \in txn'[s].withdraw
             PROVE  \E r \in txn'[s].gone : prov'[r].job = j
  BY DEF WithdrawnHaveRows
<1>1. TypeOK /\ GoneIsLive /\ GoneIsLive'
  BY GoneIsLiveStep DEF Typing
<1>2. CASE Withdraw(s)
  <2>1. txn'[s].gone = txn[s].gone /\ txn'[s].withdraw = NobodyLists(s) /\ prov' = prov
    BY <1>1, <1>2, PhaseAfter DEF Withdraw
  <2> QED BY <2>1 DEF NobodyLists
<1>3. CASE run'[s] = run[s] /\ txn'[s] = txn[s]
  <2>1. PICK r \in txn[s].gone : prov[r].job = j
    BY <1>3 DEF WithdrawnHaveRows
  <2>2. /\ r \in Record /\ prov[r].state = "live" /\ prov'[r].state = "live"
    BY <1>1, <1>3 DEF GoneIsLive, Reconciling, RecordsOf
  <2> QED BY <1>3, <2>1, <2>2, RowKeepsJob
<1>4. ASSUME StartRun(s) \/ RunStep(s) \/ Crash(s) PROVE Withdraw(s)
  BY <1>1, <1>4, PhaseAfter DEF RunStep, StoreStep, IdleRun
<1> QED BY <1>1, <1>2, <1>3, <1>4, OthersUnchanged, RunsUnchanged

\* What a decision will do to the job.
LEMMA DecideDoes ==
  ASSUME TypeOK, NEW s \in Source, NEW r, NEW j, NEW creates, Decide(s, r, j, creates)
  PROVE  /\ "create" \in txn'[s].does <=> "create" \in creates
         /\ "restore" \in txn'[s].does => "restore" \in creates \/ jobs[j].posting = NoPosting
         /\ txn'[s].record = r /\ UNCHANGED <<jobs, prov>>
<1> DEFINE does == creates \cup {c \in {"revive"} : jobs[j].status = "removed"}
                           \cup {c \in {"restore"} : jobs[j].posting = NoPosting}
<1>1. txn' = [txn EXCEPT ![s] = [@ EXCEPT !.record = r, !.job = j, !.at = now, !.does = does]]
  BY DEF Decide
<1>2. /\ "create" \in does <=> "create" \in creates
      /\ "restore" \in does => "restore" \in creates \/ jobs[j].posting = NoPosting
  OBVIOUS
<1> HIDE DEF does
<1>3. txn'[s].does = does /\ txn'[s].record = r
  BY <1>1 DEF TypeOK, TxnState
<1> QED BY <1>2, <1>3 DEF Decide

\* What is under way was decided on just now or was under way before.
LEMMA DecidedBefore ==
  ASSUME Typing, [Next]_vars, NEW s \in Source, run'[s].phase \in {"decided", "upserted"}
  PROVE  \/ \E r \in RecordsOf(s) : DecideKnown(s, r) \/ DecideMatch(s, r) \/ DecideNew(s, r)
         \/ run[s].phase \in {"decided", "upserted"} /\ txn'[s] = txn[s]
<1> USE DEF Typing
<1>1. ASSUME StartRun(s) \/ RunStep(s) \/ Crash(s)
      PROVE  Upsert(s) \/ \E r \in RecordsOf(s) : DecideKnown(s, r) \/ DecideMatch(s, r) \/ DecideNew(s, r)
  BY <1>1, PhaseAfter DEF RunStep, StoreStep, IdleRun
<1>2. CASE Upsert(s)
  BY <1>2 DEF Upsert
<1>3. CASE run'[s] = run[s] /\ txn'[s] = txn[s]
  BY <1>3
<1> QED BY <1>1, <1>2, <1>3, OthersUnchanged, RunsUnchanged

\* Every job of the next state was there and read the same, or is the one just created.
LEMMA PostingAfter ==
  ASSUME ~Probes, RowsInv, WithdrawnHaveRows, TextStays, [Next]_vars, NEW j \in Job, Stored(j)'
  PROVE  \/ Stored(j) /\ jobs'[j].posting = jobs[j].posting
         \/ \E s \in Source : /\ CommitRecord(s) /\ j = txn[s].job /\ "create" \in txn[s].does
                              /\ jobs'[j].posting = PostingOf[txn[s].record]
<1>1. Typing /\ TypeOK /\ jobs[j] \in JobRow
  BY DEF RowsInv, Typing, TypeOK
<1>2. ASSUME NEW s \in Source, CommitRecord(s)
      PROVE  \/ Stored(j) /\ jobs'[j].posting = jobs[j].posting
             \/ /\ j = txn[s].job /\ "create" \in txn[s].does
                /\ jobs'[j].posting = PostingOf[txn[s].record]
  <2>1. PICK touched \in BOOLEAN : jobs' = [jobs EXCEPT ![txn[s].job] = Flushed(s, touched)]
    BY <1>2 DEF CommitRecord
  <2>2. CASE j # txn[s].job
    BY <1>1, <2>1, <2>2 DEF TypeOK, Stored
  <2>3. CASE j = txn[s].job
    <3>1. jobs'[j] = Flushed(s, touched) /\ ("restore" \in txn[s].does => "create" \in txn[s].does)
      BY <1>1, <1>2, <2>1, <2>3 DEF TypeOK, TextStays, CommitRecord
    <3>2. CASE "create" \in txn[s].does
      BY <2>3, <3>1, <3>2 DEF Flushed
    <3>3. CASE "create" \notin txn[s].does
      <4>1. Stored(j)
        BY <1>2, <2>3, <3>3 DEF RowsInv, OpenUpsertKeepsItsJob, CommitRecord
      <4>2. Flushed(s, touched).posting = jobs[j].posting
        BY <1>1, <2>3, <3>1, <3>3 DEF Flushed, JobRow
      <4> QED BY <3>1, <4>1, <4>2
    <3> QED BY <3>2, <3>3
  <2> QED BY <2>2, <2>3
<1>3. ASSUME NEW s \in Source, CommitReconciliation(s)
      PROVE  Stored(j) /\ jobs'[j].posting = jobs[j].posting
  <2>1. j \in txn[s].withdraw => Stored(j)
    <3> SUFFICES ASSUME j \in txn[s].withdraw PROVE Stored(j)
      OBVIOUS
    <3>1. PICK r \in txn[s].gone : prov[r].job = j
      BY <1>3 DEF WithdrawnHaveRows, CommitReconciliation
    <3>2. r \in Record /\ prov[r].state = "live"
      BY <1>1, <1>3 DEF CommitReconciliation, Typing, GoneIsLive, Reconciling, RecordsOf
    <3> QED BY <3>1, <3>2 DEF RowsInv, RowsNameStoredJobs
  <2> QED BY <1>1, <1>3, <2>1 DEF CommitReconciliation, JobRow, Stored
<1>4. CASE Expire
  BY <1>1, <1>4 DEF Expire, Lapsed, JobRow, Stored
<1>5. CASE CommitPage
  <2>1. PICK referenced \in SUBSET sweep.page :
          /\ referenced = {}
          /\ jobs' = [i \in Job |->
               CASE i \in {k \in referenced : Eligible(k)} ->
                      [jobs[i] EXCEPT !.posting = NoPosting, !.stripped = TRUE, !.changed = now]
                 [] i \in {k \in sweep.page \ referenced : Eligible(k)} -> AbsentJob
                 [] OTHER -> jobs[i]]
    BY <1>5 DEF CommitPage
  <2>2. jobs'[j] \in {AbsentJob, jobs[j]}
    BY <2>1
  <2> QED BY <2>2 DEF AbsentJob, Stored
<1> QED BY <1>1, <1>2, <1>3, <1>4, <1>5, JobsUnchanged DEF Stored

\* A job that is there keeps the rows it has.
LEMMA RowsStay ==
  ASSUME Typing, [Next]_vars, NEW j \in Job, Stored(j)'
  PROVE  RowsOf(j) \subseteq RowsOf(j)'
<1> SUFFICES ASSUME NEW r \in Record, prov[r].state # "absent", prov[r].job = j
             PROVE  prov'[r].state # "absent" /\ prov'[r].job = j
  BY DEF RowsOf
<1>1. Typing /\ TypeOK
  BY DEF Typing
<1>2. ASSUME NEW s \in Source, CommitRecord(s) PROVE prov'[r].state # "absent"
  BY <1>1, <1>2, CommitTypes DEF CommitRecord, TypeOK
<1>3. ASSUME NEW s \in Source, CommitReconciliation(s) PROVE prov'[r].state # "absent"
  BY <1>1, <1>3 DEF CommitReconciliation, TypeOK, ProvRow
<1>4. CASE CommitPage
  <2>1. PICK referenced \in SUBSET sweep.page :
          /\ prov' = [q \in Record |->
               IF prov[q].job \in {k \in sweep.page \ referenced : Eligible(k)}
               THEN AbsentRow ELSE prov[q]]
          /\ jobs' = [i \in Job |->
               CASE i \in {k \in referenced : Eligible(k)} ->
                      [jobs[i] EXCEPT !.posting = NoPosting, !.stripped = TRUE, !.changed = now]
                 [] i \in {k \in sweep.page \ referenced : Eligible(k)} -> AbsentJob
                 [] OTHER -> jobs[i]]
    BY <1>4 DEF CommitPage
  <2>2. CASE j \in {k \in sweep.page \ referenced : Eligible(k)}
    <3>1. jobs'[j] = AbsentJob
      BY <2>1, <2>2
    <3> QED BY <3>1 DEF AbsentJob, Stored
  <2>3. CASE j \notin {k \in sweep.page \ referenced : Eligible(k)}
    BY <2>1, <2>3
  <2> QED BY <2>2, <2>3
<1> QED BY <1>1, <1>2, <1>3, <1>4, RowsUnchanged, RowKeepsJob

LEMMA TextStaysStep ==
  ASSUME ~Probes PROVE PostingsInv /\ [Next]_vars => TextStays'
<1> SUFFICES ASSUME PostingsInv, [Next]_vars PROVE TextStays'
  OBVIOUS
<1>1. RowsInv /\ Typing /\ TypeOK /\ WithdrawnHaveRows /\ TextStays
  BY DEF PostingsInv, RowsInv, Typing
<1>2. ASSUME NEW j \in Job, Stored(j)' PROVE jobs'[j].posting # NoPosting
  <2>1. CASE Stored(j) /\ jobs'[j].posting = jobs[j].posting
    BY <1>1, <2>1 DEF TextStays
  <2>2. ASSUME NEW s \in Source, CommitRecord(s) PROVE PostingOf[txn[s].record] # NoPosting
    BY <1>1, <2>2, CommitTypes, CatalogueAssumption
  <2> QED BY <1>1, <1>2, <2>1, <2>2, PostingAfter
<1>3. ASSUME NEW s \in Source, run'[s].phase \in {"decided", "upserted"}
      PROVE  "restore" \in txn'[s].does => "create" \in txn'[s].does
  <2>1. ASSUME NEW r \in RecordsOf(s), DecideKnown(s, r) \/ DecideMatch(s, r) \/ DecideNew(s, r)
        PROVE  "restore" \in txn'[s].does => "create" \in txn'[s].does
    <3>1. r \in Record
      BY DEF RecordsOf
    <3>2. CASE DecideKnown(s, r)
      <4>1. prov[r].job \in Job /\ Stored(prov[r].job)
        BY <1>1, <3>1, <3>2 DEF RowsInv, RowsNameStoredJobs, DecideKnown
      <4> QED BY <1>1, <3>2, <4>1, DecideDoes DEF DecideKnown, TextStays
    <3>3. CASE DecideMatch(s, r)
      <4>1. PICK j \in Job : Candidates(r) = {j} /\ Decide(s, r, j, {})
        BY <3>3 DEF DecideMatch
      <4>2. Stored(j)
        BY <4>1 DEF Candidates
      <4> QED BY <1>1, <4>1, <4>2, DecideDoes DEF TextStays
    <3>4. CASE DecideNew(s, r)
      <4>1. PICK j \in Job : Unused(j) /\ Decide(s, r, j, {"create"})
        BY <3>4 DEF DecideNew
      <4> QED BY <1>1, <4>1, DecideDoes
    <3> QED BY <2>1, <3>2, <3>3, <3>4
  <2> QED BY <1>1, <1>3, <2>1, DecidedBefore DEF TextStays
<1> QED BY <1>2, <1>3 DEF TextStays

\* A job that reads in full in the next state did so before or is just created.
LEMMA FullTextAfter ==
  ASSUME ~Probes, RowsInv, WithdrawnHaveRows, TextStays, [Next]_vars, NEW j \in Job, FullText(j)'
  PROVE  \/ FullText(j) /\ jobs'[j].posting = jobs[j].posting
         \/ \E s \in Source : /\ CommitRecord(s) /\ j = txn[s].job /\ "create" \in txn[s].does
                              /\ jobs'[j].posting = PostingOf[txn[s].record]
                              /\ txn[s].record \notin Partial
<1>1. Typing /\ TypeOK /\ Stored(j)' /\ RowsOf(j)' \cap Partial = {} /\ jobs'[j].posting # NoPosting
  BY DEF RowsInv, Typing, FullText
<1>2. RowsOf(j) \subseteq RowsOf(j)'
  BY <1>1, RowsStay
<1>3. CASE Stored(j) /\ jobs'[j].posting = jobs[j].posting
  BY <1>1, <1>2, <1>3 DEF FullText
<1>4. ASSUME NEW s \in Source, CommitRecord(s), j = txn[s].job, "create" \in txn[s].does
      PROVE  txn[s].record \notin Partial
  <2>1. txn[s].record \in LiveRowsOf(j)'
    BY <1>1, <1>4, LiveRowsAfter DEF RowsInv
  <2> QED BY <1>1, <2>1 DEF LiveRowsOf
<1> QED BY <1>1, <1>3, <1>4, PostingAfter

LEMMA StillNewStep ==
  ASSUME ~Overlap, ~Probes PROVE PostingsInv /\ [Next]_vars => StillNew'
<1> SUFFICES ASSUME PostingsInv, [Next]_vars, NEW s \in Source,
                    run'[s].phase \in {"decided", "upserted"}, "create" \in txn'[s].does,
                    NEW j \in Job, FullText(j)', jobs'[j].posting = PostingOf[txn'[s].record],
                    txn'[s].record \notin Partial
             PROVE  FALSE
  <2> SUFFICES ASSUME PostingsInv, [Next]_vars,
                      NEW s \in Source, run'[s].phase \in {"decided", "upserted"},
                      "create" \in txn'[s].does, NEW j \in Candidates(txn[s].record)'
               PROVE  FALSE
    BY DEF StillNew
  <2>1. /\ j \in Job /\ Stored(j)' /\ jobs'[j].posting = PostingOf[txn'[s].record]
        /\ txn'[s].record \notin Partial /\ RowsOf(j)' \cap Partial = {}
    BY DEF Candidates, Stored, RowsOf
  <2>2. txn'[s].record \in Record
    <3>1. RunHoldsRecord'
      BY RunHoldsRecordStep DEF PostingsInv, RowsInv
    <3> QED BY <3>1 DEF RunHoldsRecord, RecordsOf
  <2>3. FullText(j)'
    BY <2>1, <2>2, CatalogueAssumption DEF FullText
  <2> QED BY <2>1, <2>3
<1>1. Typing /\ TypeOK /\ OneRun /\ RowsInv /\ WithdrawnHaveRows /\ TextStays
  BY DEF PostingsInv, RowsInv, Typing
<1>2. ~\E t \in Source : CommitRecord(t)
  <2> SUFFICES ASSUME NEW t \in Source, CommitRecord(t) PROVE FALSE
    OBVIOUS
  <2>1. run'[t].phase = "storing"
    BY <1>1, PhaseAfter
  <2>2. run'[s] = run[s] /\ run[s].phase # "idle"
    BY <1>1, <2>1, OthersUnchanged DEF RunStep, StoreStep
  <2> QED BY <1>1, <2>1, <2>2, OnlyRun DEF RunStep, StoreStep
<1>3. FullText(j) /\ jobs[j].posting = PostingOf[txn'[s].record]
  BY <1>1, <1>2, FullTextAfter
<1>4. j \in Candidates(txn'[s].record)
  BY <1>3 DEF FullText, Candidates
<1>5. CASE run[s].phase \in {"decided", "upserted"} /\ txn'[s] = txn[s]
  BY <1>4, <1>5 DEF PostingsInv, StillNew
<1>6. ASSUME NEW r \in RecordsOf(s), DecideKnown(s, r) \/ DecideMatch(s, r) \/ DecideNew(s, r)
      PROVE  FALSE
  <2>1. CASE DecideKnown(s, r)
    BY <1>1, <2>1, DecideDoes DEF DecideKnown
  <2>2. CASE DecideMatch(s, r)
    BY <1>1, <2>2, DecideDoes DEF DecideMatch
  <2>3. CASE DecideNew(s, r)
    BY <1>1, <1>4, <2>3, DecideDoes DEF DecideNew
  <2> QED BY <1>6, <2>1, <2>2, <2>3
<1> QED BY <1>1, <1>5, <1>6, DecidedBefore

LEMMA OneJobStep ==
  ASSUME ~Probes PROVE PostingsInv /\ [Next]_vars => OneJobPerPosting'
<1> SUFFICES ASSUME PostingsInv, [Next]_vars, NEW i \in Job, NEW j \in Job,
                    FullText(i)', FullText(j)', jobs'[i].posting = jobs'[j].posting
             PROVE  i = j
  BY DEF OneJobPerPosting, FullText, Stored, RowsOf
<1>1. Typing /\ TypeOK /\ RowsInv /\ WithdrawnHaveRows /\ TextStays
  BY DEF PostingsInv, RowsInv, Typing
<1>2. ASSUME NEW s \in Source, CommitRecord(s), "create" \in txn[s].does,
             txn[s].record \notin Partial,
             NEW k \in Job, FullText(k), jobs[k].posting = PostingOf[txn[s].record]
      PROVE  FALSE
  <2>1. k \in Candidates(txn[s].record)
    BY <1>2 DEF Candidates, FullText
  <2> QED BY <1>2, <2>1 DEF PostingsInv, StillNew, CommitRecord
<1>3. ASSUME NEW s \in Source, NEW t \in Source, CommitRecord(s), CommitRecord(t) PROVE s = t
  BY <1>1, <1>3, PhaseAfter, OthersUnchanged DEF RunStep, StoreStep, CommitRecord
<1> QED BY <1>1, <1>2, <1>3, FullTextAfter DEF PostingsInv, OneJobPerPosting

LEMMA PostingsInvStep ==
  ASSUME ~Overlap, ~Probes PROVE PostingsInv /\ [Next]_vars => PostingsInv'
<1>1. RowsInv => Typing
  BY DEF RowsInv
<1> QED
  BY <1>1, RowsInvStep, OneRunStep, WithdrawnHaveRowsStep, TextStaysStep, StillNewStep, OneJobStep DEF PostingsInv

\* When runs do not overlap and nothing outside the catalogue refers to its jobs, two records
\* that read the same, neither an excerpt, are one job (find_match, decide).
THEOREM SerialOneJobPerPosting == ASSUME ~Overlap, ~Probes PROVE Spec => []OneJobPerPosting
<1>1. Init => PostingsInv
  BY RowsInvInit
     DEF Init, PostingsInv, OneRun, WithdrawnHaveRows, TextStays, StillNew, OneJobPerPosting, IdleRun, AbsentJob,
         FullText, Stored
<1>2. PostingsInv /\ [Next]_vars => PostingsInv'
  BY PostingsInvStep
<1>3. PostingsInv => OneJobPerPosting
  BY DEF PostingsInv
<1> QED BY <1>1, <1>2, <1>3, PTL DEF Spec

=============================================================================
