------------------------- MODULE BoardRegistryProofs -------------------------
(***************************************************************************)
(* What BoardRegistry keeps, for every set of companies and slugs, every   *)
(* threshold and every interleaving.  The row functions come first: what   *)
(* register, _register_named and the column-wise UPDATE make of one row.   *)
(* The invariant about the row discovery has in hand follows, and from the *)
(* two each property, one step per action.                                 *)
(***************************************************************************)
EXTENDS BoardRegistry, TLAPS

\* A recheck keeps owner, pin and streak, and retires nothing.
LEMMA RecheckedFacts ==
  ASSUME NEW row \in JobBoard, NEW v \in Verdict, row.status \in OwnedStatus
  PROVE  /\ Rechecked(row, v) \in JobBoard
         /\ Rechecked(row, v).pinned = row.pinned
         /\ Rechecked(row, v).company = row.company
         /\ Rechecked(row, v).failures = row.failures
         /\ Rechecked(row, v).status # "inactive"
<1>1. v[1] \in {"confirmed", "named", "wrong_company", "unverifiable", "not_found", "unreachable"}
      /\ v[2] \in Kind
  BY DEF Verdict, Kind
<1>2. CASE v[1] = "confirmed"
  BY <1>1, <1>2 DEF Rechecked, JobBoard, BoardStatus, OwnedStatus
<1>3. CASE v[1] = "named"
  BY <1>1, <1>3 DEF Rechecked, JobBoard, BoardStatus, OwnedStatus
<1>4. CASE v[1] = "wrong_company"
  BY <1>1, <1>4 DEF Rechecked, JobBoard, BoardStatus, OwnedStatus
<1>5. CASE v[1] = "unverifiable"
  BY <1>1, <1>5 DEF Rechecked, JobBoard, BoardStatus, OwnedStatus
<1>6. CASE v[1] \in {"not_found", "unreachable"}
  BY <1>6 DEF Rechecked, JobBoard, BoardStatus, OwnedStatus
<1> QED  BY <1>1, <1>2, <1>3, <1>4, <1>5, <1>6

LEMMA RevivedType ==
  ASSUME NEW row PROVE Revived(row) \in {"confirmed", "candidate"}
BY DEF Revived

\* A first guess makes the row this company's, retires nothing, and wipes the streak only of a
\* row that was inactive.
LEMMA FirstGuessedFacts ==
  ASSUME NEW row \in JobBoard, NEW c \in Company, NEW v \in Verdict
  PROVE  /\ FirstGuessed(row, c, v) \in JobBoard
         /\ FirstGuessed(row, c, v).pinned = row.pinned
         /\ FirstGuessed(row, c, v).company = c
         /\ FirstGuessed(row, c, v).failures = row.failures \/ row.status = "inactive"
         /\ FirstGuessed(row, c, v).status # "inactive"
<1> DEFINE mine == [row EXCEPT !.company = c, !.kind = v[2]]
<1>1. v[1] \in {"confirmed", "named", "wrong_company", "unverifiable", "not_found", "unreachable"}
      /\ v[2] \in Kind
  BY DEF Verdict, Kind
<1>2. mine \in JobBoard /\ mine.pinned = row.pinned /\ mine.company = c
      /\ mine.failures = row.failures /\ 0 \in Nat /\ row.failures \in Nat
  BY <1>1 DEF JobBoard
<1>3. Revived(mine) \in {"confirmed", "candidate"}
  BY RevivedType
<1>4. CASE v[1] = "confirmed"
  <2>1. FirstGuessed(row, c, v) =
          [mine EXCEPT !.status = IF row.status = "inactive" THEN Revived(mine) ELSE "confirmed",
                       !.failures = IF row.status = "inactive" THEN 0 ELSE row.failures]
    BY <1>4 DEF FirstGuessed
  <2> HIDE DEF mine
  <2> QED  BY <2>1, <1>2, <1>3 DEF JobBoard, BoardStatus
<1>5. CASE v[1] = "named"
  <2>1. FirstGuessed(row, c, v) =
          [mine EXCEPT !.status = "named",
                       !.failures = IF row.status = "inactive" THEN 0 ELSE row.failures]
    BY <1>5 DEF FirstGuessed
  <2> HIDE DEF mine
  <2> QED  BY <2>1, <1>2 DEF JobBoard, BoardStatus
<1>6. CASE v[1] = "unverifiable"
  <2>1. FirstGuessed(row, c, v) = [mine EXCEPT !.status = "candidate"]
    BY <1>6 DEF FirstGuessed
  <2> HIDE DEF mine
  <2> QED  BY <2>1, <1>2 DEF JobBoard, BoardStatus
<1>7. CASE v[1] \in {"wrong_company", "not_found", "unreachable"}
  <2>1. FirstGuessed(row, c, v) = [mine EXCEPT !.status = v[1]]
    BY <1>7 DEF FirstGuessed
  <2> HIDE DEF mine
  <2> QED  BY <2>1, <1>2, <1>7 DEF JobBoard, BoardStatus
<1> QED  BY <1>1, <1>4, <1>5, <1>6, <1>7

\* What register makes of a row: nothing of a pinned one, and the company's otherwise.
Becomes(row, c, new) ==
  /\ new \in JobBoard
  /\ new.pinned = row.pinned
  /\ new.failures = row.failures \/ row.status = "inactive"
  /\ new # row => ~row.pinned
  /\ row.pinned \/ (new.company = c /\ new.status # "inactive")

LEMMA RegisteredFacts ==
  ASSUME NEW row \in JobBoard, NEW c \in Company, NEW v \in Verdict
  PROVE  Becomes(row, c, Registered(row, c, v))
<1>1. CASE row.pinned
  BY <1>1 DEF Registered, Becomes
<1>2. CASE ~row.pinned /\ Trusted(row, c)
  <2>1. Registered(row, c, v) = Rechecked(row, v) /\ row.status \in OwnedStatus /\ row.company = c
    BY <1>2 DEF Registered, Trusted
  <2> QED  BY <1>2, <2>1, RecheckedFacts DEF Becomes
<1>3. CASE ~row.pinned /\ ~Trusted(row, c)
  <2>1. Registered(row, c, v) = FirstGuessed(row, c, v)
    BY <1>3 DEF Registered
  <2> QED  BY <1>3, <2>1, FirstGuessedFacts DEF Becomes
<1> QED  BY <1>1, <1>2, <1>3

\* What _register_named makes of the row of a board it names: nothing of a pinned one or one
\* it refuses, and the company's otherwise.
LEMMA RegisteredNamedFacts ==
  ASSUME NEW row \in JobBoard, NEW c \in Company, NEW o \in NamedAs
  PROVE  LET new == RegisteredNamed(row, c, o) IN
         \/ new = row
         \/ ~row.pinned /\ ~Refuses(row, c) /\ Becomes(row, c, new)
<1> DEFINE kind == IF o = "confirmed" THEN "link" ELSE "name"
           mine == [row EXCEPT !.company = c, !.kind = kind]
<1>1. o \in {"confirmed", "named", "wrong_company"}
  BY BoardAssumption
<1>2. mine \in JobBoard /\ mine.pinned = row.pinned /\ mine.company = c
      /\ mine.failures = row.failures /\ 0 \in Nat /\ row.failures \in Nat
  BY DEF JobBoard, Kind
<1>3. Revived(mine) \in {"confirmed", "candidate"}
  BY RevivedType
<1>4. CASE Refuses(row, c) \/ row.pinned
  BY <1>4 DEF RegisteredNamed
<1>5. CASE ~Refuses(row, c) /\ ~row.pinned /\ o = "confirmed" /\ row.status = "inactive"
  <2>1. RegisteredNamed(row, c, o) = [mine EXCEPT !.status = Revived(mine), !.failures = 0]
    BY <1>5 DEF RegisteredNamed
  <2> HIDE DEF mine
  <2>2. Becomes(row, c, RegisteredNamed(row, c, o))
    BY <2>1, <1>2, <1>3, <1>5 DEF JobBoard, BoardStatus, Becomes
  <2> QED  BY <2>2, <1>5
<1>6. CASE ~Refuses(row, c) /\ ~row.pinned /\ ~(o = "confirmed" /\ row.status = "inactive")
  <2>1. RegisteredNamed(row, c, o) = [mine EXCEPT !.status = o]
    BY <1>6 DEF RegisteredNamed
  <2> HIDE DEF mine
  <2>2. Becomes(row, c, RegisteredNamed(row, c, o))
    BY <2>1, <1>1, <1>2, <1>6 DEF JobBoard, BoardStatus, Becomes
  <2> QED  BY <2>2, <1>6
<1> QED  BY <1>4, <1>5, <1>6

LEMMA MergedFacts ==
  ASSUME NEW row \in JobBoard, NEW read \in JobBoard, NEW wrote \in JobBoard,
         NEW new \in MergedRows(row, read, wrote)
  PROVE  /\ new \in JobBoard
         /\ new.pinned = row.pinned
         /\ new.status = IF wrote.status # read.status THEN wrote.status ELSE row.status
         /\ new.company = IF wrote.company # read.company THEN wrote.company ELSE row.company
         /\ new.failures = IF wrote.failures # read.failures THEN wrote.failures ELSE row.failures
<1>1. PICK kind \in {wrote.kind, row.kind} :
        new = [row EXCEPT
          !.status = IF wrote.status # read.status THEN wrote.status ELSE row.status,
          !.company = IF wrote.company # read.company THEN wrote.company ELSE row.company,
          !.failures = IF wrote.failures # read.failures THEN wrote.failures ELSE row.failures,
          !.kind = kind]
  BY DEF MergedRows
<1> QED  BY <1>1 DEF JobBoard

\* A row written as it was just read is written as it was meant.
LEMMA MergedAtOnce ==
  ASSUME NEW row \in JobBoard, NEW wrote \in JobBoard, wrote.pinned = row.pinned,
         NEW new \in MergedRows(row, row, wrote)
  PROVE  new = wrote
<1>1. PICK kind \in {wrote.kind} \cup {k \in {row.kind} : Repeats(row, wrote)} :
        new = [row EXCEPT
          !.status = IF wrote.status # row.status THEN wrote.status ELSE row.status,
          !.company = IF wrote.company # row.company THEN wrote.company ELSE row.company,
          !.failures = IF wrote.failures # row.failures THEN wrote.failures ELSE row.failures,
          !.kind = kind]
  BY DEF MergedRows
<1>2. kind = wrote.kind
  BY <1>1 DEF Repeats
<1> QED  BY <1>1, <1>2 DEF JobBoard

-----------------------------------------------------------------------------
(* What the steps do to the table, and the row discovery has in hand.       *)

\* The row in hand is one register does not refuse, and nobody else changes its company.
HandInv ==
  /\ disc.phase \in {"guessed", "looked"} => disc.company \in Company /\ disc.slug \in Slug
  /\ disc.phase = "looked" =>
       /\ ~Refuses(disc.read, disc.company)
       /\ boards[disc.slug].company = disc.read.company

Inv == TypeOK /\ HandInv

\* A row that is not in hand is written only if it is neither refused nor pinned.
Taken(b) ==
  /\ disc.phase \in {"guessed", "looked"}
  /\ ~boards[b].pinned /\ ~Refuses(boards[b], disc.company)
  /\ Becomes(boards[b], disc.company, boards'[b])

\* The row in hand is written by the columns that changed.
FromHand(b) ==
  /\ InHand(b)
  /\ \E new \in JobBoard : /\ Becomes(disc.read, disc.company, new)
                           /\ boards'[b] \in MergedRows(boards[b], disc.read, new)

LEMMA RegisterRows ==
  ASSUME Inv, Register
  PROVE  /\ DOMAIN boards' = Slug
         /\ \A b \in Slug : boards'[b] = boards[b] \/ FromHand(b) \/ Taken(b)
<1> DEFINE c == disc.company
           wrote(v) == Registered(disc.read, c, v)
           final(v, name) ==
             IF disc.slug = name.slug THEN RegisteredNamed(wrote(v), c, name.outcome) ELSE wrote(v)
<1>1. disc.phase = "looked" /\ c \in Company /\ disc.slug \in Slug
      /\ disc.read \in JobBoard /\ boards \in [Slug -> JobBoard]
  BY DEF Inv, HandInv, Register, TypeOK, DiscState
<1>2. PICK v \in Verified(disc.outcome) : \E name \in Names(v) :
        \E new \in MergedRows(boards[disc.slug], disc.read, final(v, name)) :
          boards' = [b \in Slug |->
                       CASE b = disc.slug -> new
                         [] b = name.slug /\ b # disc.slug ->
                              RegisteredNamed(boards[b], c, name.outcome)
                         [] OTHER -> boards[b]]
  BY DEF Register
<1>3. PICK name \in Names(v) : \E new \in MergedRows(boards[disc.slug], disc.read, final(v, name)) :
          boards' = [b \in Slug |->
                       CASE b = disc.slug -> new
                         [] b = name.slug /\ b # disc.slug ->
                              RegisteredNamed(boards[b], c, name.outcome)
                         [] OTHER -> boards[b]]
  BY <1>2
<1>11. PICK new \in MergedRows(boards[disc.slug], disc.read, final(v, name)) :
          boards' = [b \in Slug |->
                       CASE b = disc.slug -> new
                         [] b = name.slug /\ b # disc.slug ->
                              RegisteredNamed(boards[b], c, name.outcome)
                         [] OTHER -> boards[b]]
  BY <1>3
<1>4. v \in Verdict
  BY DEF Verified, Verdict
<1>5. name.slug = NoSlug \/ name.outcome \in NamedAs
  BY DEF Names, NoName
<1>6. NoSlug \notin Slug
  BY BoardAssumption
<1>7. Becomes(disc.read, c, wrote(v)) /\ wrote(v) \in JobBoard
  BY <1>1, <1>4, RegisteredFacts DEF Becomes
<1>8. Becomes(disc.read, c, final(v, name))
  <2>1. CASE disc.slug # name.slug
    BY <1>7, <2>1
  <2>2. CASE disc.slug = name.slug
    <3>1. name.outcome \in NamedAs
      BY <1>1, <1>5, <1>6, <2>2
    <3> DEFINE named == RegisteredNamed(wrote(v), c, name.outcome)
    <3>2. named = wrote(v) \/ (~wrote(v).pinned /\ Becomes(wrote(v), c, named))
      BY <1>1, <1>7, <3>1, RegisteredNamedFacts
    <3>3. final(v, name) = named
      BY <2>2
    <3> HIDE DEF named, wrote, final
    <3> QED  BY <1>7, <3>2, <3>3 DEF Becomes
  <2> QED  BY <2>1, <2>2
<1>9. ASSUME NEW b \in Slug PROVE boards'[b] = boards[b] \/ FromHand(b) \/ Taken(b)
  <2> HIDE DEF final
  <2>1. CASE b = disc.slug
    <3>1. boards'[b] \in MergedRows(boards[b], disc.read, final(v, name))
      BY <1>11, <2>1
    <3> QED  BY <1>1, <1>8, <2>1, <3>1 DEF FromHand, InHand, Becomes
  <2>2. CASE b # disc.slug /\ b = name.slug
    <3>1. boards'[b] = RegisteredNamed(boards[b], c, name.outcome)
      BY <1>11, <2>2
    <3>2. name.outcome \in NamedAs
      BY <1>5, <1>6, <2>2
    <3> QED  BY <1>1, <3>1, <3>2, RegisteredNamedFacts DEF Taken
  <2>3. CASE b # disc.slug /\ b # name.slug
    BY <1>11, <2>3
  <2> QED  BY <2>1, <2>2, <2>3
<1>10. DOMAIN boards' = Slug
  <2> HIDE DEF final
  <2> QED  BY <1>11
<1> QED  BY <1>9, <1>10

LEMMA ProbeFailsRows ==
  ASSUME Inv, ProbeFails
  PROVE  /\ DOMAIN boards' = Slug
         /\ \A b \in Slug : boards'[b] = boards[b] \/ FromHand(b) \/ Taken(b)
<1> DEFINE c == disc.company
           wrote(row) == Registered(row, c, <<"unreachable", "void">>)
<1>1. c \in Company /\ boards \in [Slug -> JobBoard] /\ disc.read \in JobBoard
      /\ disc.phase \in {"guessed", "looked"}
  BY DEF Inv, HandInv, ProbeFails, TypeOK, DiscState
<1>2. PICK b \in KeysOf(c) : \E read \in ReadAgain(b) :
        IF Refuses(read, c) THEN UNCHANGED boards
        ELSE \E new \in MergedRows(boards[b], read, wrote(read)) :
               boards' = [boards EXCEPT ![b] = new]
  BY DEF ProbeFails
<1>3. PICK read \in ReadAgain(b) :
        IF Refuses(read, c) THEN UNCHANGED boards
        ELSE \E new \in MergedRows(boards[b], read, wrote(read)) :
               boards' = [boards EXCEPT ![b] = new]
  BY <1>2
<1>4. b \in Slug
  BY <1>1, BoardAssumption DEF KeysOf
<1>5. read = boards[b] \/ (read = disc.read /\ InHand(b))
  BY <1>3 DEF ReadAgain
<1>6. read \in JobBoard
  BY <1>1, <1>4, <1>5
<1>7. Becomes(read, c, wrote(read))
  BY <1>1, <1>6, RegisteredFacts DEF Verdict
<1> HIDE DEF wrote
<1>8. CASE Refuses(read, c)
  BY <1>1, <1>3, <1>8
<1>9. CASE ~Refuses(read, c)
  <2>1. PICK new \in MergedRows(boards[b], read, wrote(read)) : boards' = [boards EXCEPT ![b] = new]
    BY <1>3, <1>9
  <2>2. \A a \in Slug : a # b => boards'[a] = boards[a]
    BY <1>1, <2>1
  <2>3. boards'[b] = new /\ DOMAIN boards' = Slug
    BY <1>1, <1>4, <2>1
  <2>4. CASE read = boards[b]
    <3>1. wrote(read) \in JobBoard /\ wrote(read).pinned = boards[b].pinned
      BY <1>7, <2>4 DEF Becomes
    <3>2. new = wrote(read)
      BY <1>6, <2>1, <2>4, <3>1, MergedAtOnce
    <3>3. Becomes(boards[b], c, boards'[b])
      BY <1>7, <2>3, <2>4, <3>2
    <3>4. boards'[b] = boards[b] \/ Taken(b)
      BY <1>1, <1>9, <2>4, <3>3 DEF Taken, Becomes
    <3> QED  BY <2>2, <2>3, <3>4
  <2>5. CASE read = disc.read /\ InHand(b)
    <3>1. wrote(read) \in JobBoard
      BY <1>7 DEF Becomes
    <3>2. FromHand(b)
      BY <1>7, <2>1, <2>3, <2>5, <3>1 DEF FromHand
    <3> QED  BY <2>2, <2>3, <3>2
  <2> QED  BY <1>5, <2>4, <2>5
<1> QED  BY <1>8, <1>9

\* A poll keeps owner and pin of the rows it walked; it retires on a streak, and clears the
\* streak of a row only while taking it out of `inactive`.
Polled(b) ==
  /\ b \in poll.slugs
  /\ boards'[b] \in {Answered(boards[b]), Failed(boards[b])}

LEMMA PolledFacts ==
  ASSUME NEW row \in JobBoard, NEW new \in {Answered(row), Failed(row)}
  PROVE  /\ new \in JobBoard
         /\ new.pinned = row.pinned /\ new.company = row.company
         /\ new.status \in {row.status, "inactive"}
              \/ (row.status = "inactive" /\ new.status = Revived(row))
         /\ new.status = "inactive" => new.failures >= InactiveAfter \/ new.failures >= row.failures
         /\ new.status = "inactive" /\ row.status # "inactive" =>
              new.failures >= InactiveAfter /\ ~row.pinned
<1>1. row.failures \in Nat /\ InactiveAfter \in Nat /\ row.status \in BoardStatus \cup {"absent"}
  BY BoardAssumption DEF JobBoard
<1>2. Revived(row) \in {"confirmed", "candidate"}
  BY RevivedType
<1>3. CASE new = Answered(row)
  BY <1>1, <1>2, <1>3 DEF Answered, JobBoard, BoardStatus
<1>4. CASE new = Failed(row)
  <2>1. row.failures + 1 \in Nat /\ row.failures + 1 >= row.failures
    BY <1>1
  <2>2. CASE ~row.pinned /\ row.failures + 1 >= InactiveAfter
    <3>1. new = [row EXCEPT !.failures = row.failures + 1, !.status = "inactive"]
      BY <1>4, <2>2 DEF Failed
    <3>2. new.pinned = row.pinned /\ new.company = row.company /\ new.status = "inactive"
          /\ new.failures = row.failures + 1 /\ new \in JobBoard
      BY <2>1, <3>1 DEF JobBoard, BoardStatus
    <3> QED  BY <2>2, <3>2
  <2>3. CASE ~(~row.pinned /\ row.failures + 1 >= InactiveAfter)
    <3>1. new = [row EXCEPT !.failures = row.failures + 1, !.status = row.status]
      BY <1>4, <2>3 DEF Failed
    <3>2. new.pinned = row.pinned /\ new.company = row.company /\ new.status = row.status
          /\ new.failures = row.failures + 1 /\ new \in JobBoard
      BY <1>1, <2>1, <3>1 DEF JobBoard
    <3> QED  BY <2>1, <3>2
  <2> QED  BY <2>2, <2>3
<1> QED  BY <1>3, <1>4

LEMMA RecordPollRows ==
  ASSUME Inv, RecordPoll
  PROVE  /\ DOMAIN boards' = Slug
         /\ \A b \in Slug : boards'[b] = boards[b] \/ Polled(b)
<1>1. PICK ok \in SUBSET poll.slugs, failed \in SUBSET poll.slugs :
        boards' = [b \in Slug |-> CASE b \in ok -> Answered(boards[b])
                                    [] b \in failed -> Failed(boards[b])
                                    [] OTHER -> boards[b]]
  BY DEF RecordPoll
<1>2. DOMAIN boards' = Slug
  BY <1>1
<1>3. ASSUME NEW b \in Slug PROVE boards'[b] = boards[b] \/ Polled(b)
  <2>1. CASE b \in ok
    BY <1>1, <2>1 DEF Polled
  <2>2. CASE b \notin ok /\ b \in failed
    BY <1>1, <2>2 DEF Polled
  <2>3. CASE b \notin ok /\ b \notin failed
    BY <1>1, <2>3
  <2> QED  BY <2>1, <2>2, <2>3
<1> QED  BY <1>2, <1>3

LEMMA OperatorRows ==
  ASSUME Inv, NEW h \in Slug, Operator(h)
  PROVE  /\ boards' \in [Slug -> JobBoard]
         /\ \A b \in Slug : b # h => boards'[b] = boards[b]
         /\ boards'[h].company = boards[h].company
         /\ UNCHANGED <<disc, poll>>
<1>1. boards \in [Slug -> JobBoard] /\ 0 \in Nat
  BY DEF Inv, TypeOK
<1>2. Revived(boards[h]) \in {"confirmed", "candidate"}
  BY RevivedType
<1>3. CASE AddBoard(h)
  <2> DEFINE row == [boards[h] EXCEPT !.status = "confirmed", !.pinned = TRUE, !.kind = "operator",
                              !.failures = 0]
  <2>1. row \in JobBoard /\ row.company = boards[h].company
    BY <1>1 DEF JobBoard, BoardStatus, Kind
  <2>2. boards' = [boards EXCEPT ![h] = row] /\ UNCHANGED <<disc, poll>>
    BY <1>3 DEF AddBoard, Write
  <2> HIDE DEF row
  <2> QED  BY <1>1, <2>1, <2>2
<1>4. CASE BlockBoard(h)
  <2> DEFINE row == [boards[h] EXCEPT !.status = "blocked", !.pinned = FALSE, !.kind = "operator"]
  <2>1. row \in JobBoard /\ row.company = boards[h].company
    BY <1>1 DEF JobBoard, BoardStatus, Kind
  <2>2. boards' = [boards EXCEPT ![h] = row] /\ UNCHANGED <<disc, poll>>
    BY <1>4 DEF BlockBoard, Write
  <2> HIDE DEF row
  <2> QED  BY <1>1, <2>1, <2>2
<1>5. CASE UnblockBoard(h)
  BY <1>1, <1>5 DEF UnblockBoard, Write, JobBoard, BoardStatus
<1>6. CASE Reactivate(h)
  BY <1>1, <1>2, <1>6 DEF Reactivate, Write, JobBoard, BoardStatus
<1> QED  BY <1>3, <1>4, <1>5, <1>6 DEF Operator

\* Every way a row can change in one step.
LEMMA RowSteps ==
  ASSUME Inv, [Next]_vars
  PROVE  /\ boards' \in [Slug -> JobBoard]
         /\ \A b \in Slug : \/ boards'[b] = boards[b]
                            \/ FromHand(b) \/ Taken(b) \/ Polled(b) \/ Operator(b)
<1> USE DEF Inv
<1>1. boards \in [Slug -> JobBoard] /\ disc.read \in JobBoard
  BY DEF TypeOK, DiscState
<1>2. CASE Register
  <2>1. DOMAIN boards' = Slug /\ \A b \in Slug : boards'[b] = boards[b] \/ FromHand(b) \/ Taken(b)
    BY <1>2, RegisterRows
  <2>2. ASSUME NEW b \in Slug PROVE boards'[b] \in JobBoard
    BY <1>1, <2>1, MergedFacts DEF FromHand, Taken, Becomes
  <2>3. boards' = [b \in Slug |-> boards'[b]]
    BY <1>2, <2>1 DEF Register
  <2> QED  BY <2>1, <2>2, <2>3
<1>3. CASE ProbeFails
  <2>1. DOMAIN boards' = Slug /\ \A b \in Slug : boards'[b] = boards[b] \/ FromHand(b) \/ Taken(b)
    BY <1>3, ProbeFailsRows
  <2>2. ASSUME NEW b \in Slug PROVE boards'[b] \in JobBoard
    BY <1>1, <2>1, MergedFacts DEF FromHand, Taken, Becomes
  <2>3. boards' = [b \in Slug |-> boards'[b]]
    BY <1>1, <1>3, <2>1 DEF ProbeFails
  <2> QED  BY <2>1, <2>2, <2>3
<1>4. CASE RecordPoll
  <2>1. DOMAIN boards' = Slug /\ \A b \in Slug : boards'[b] = boards[b] \/ Polled(b)
    BY <1>4, RecordPollRows
  <2>2. ASSUME NEW b \in Slug PROVE boards'[b] \in JobBoard
    BY <1>1, <2>1, PolledFacts DEF Polled
  <2>3. boards' = [b \in Slug |-> boards'[b]]
    BY <1>4, <2>1 DEF RecordPoll
  <2> QED  BY <2>1, <2>2, <2>3
<1>5. CASE \E h \in Handled : Operator(h)
  BY <1>5, BoardAssumption, OperatorRows
<1>6. CASE \/ StartDiscovery \/ (\E c \in Company : Guess(c)) \/ Look \/ RegisterCollides
           \/ EndDiscovery \/ StartPoll \/ PollCrash \/ UNCHANGED vars
  BY <1>1, <1>6 DEF StartDiscovery, Guess, Look, RegisterCollides, EndDiscovery, StartPoll,
                    PollCrash, vars
<1> QED  BY <1>2, <1>3, <1>4, <1>5, <1>6 DEF Next, DiscoveryStep, PollStep

-----------------------------------------------------------------------------
(* The invariant: types, and the row in hand.                               *)

LEMMA DiscTyped ==
  ASSUME Inv, [Next]_vars
  PROVE  disc' \in DiscState /\ poll' \in PollState
<1> USE DEF Inv
<1>1. boards \in [Slug -> JobBoard] /\ disc \in DiscState /\ poll \in PollState
  BY DEF TypeOK
<1>2. AbsentBoard \in JobBoard /\ "not_found" \in DiscoveryOutcome
  <2>1. AbsentBoard \in JobBoard
    BY DEF AbsentBoard, JobBoard, Kind
  <2>2. <<"not_found", "void">> \in Verdict /\ <<"not_found", "void">>[1] = "not_found"
    BY DEF Verdict
  <2> QED  BY <2>1, <2>2 DEF DiscoveryOutcome
<1>3. IdleDisc \in DiscState /\ IdlePoll \in PollState
  BY <1>2 DEF IdleDisc, DiscState, IdlePoll, PollState
<1>4. NextCompany \in DiscState
  BY <1>1, <1>3 DEF NextCompany, DiscState
<1>5. CASE StartDiscovery
  <2>1. PICK due \in SUBSET Company :
          disc' = [IdleDisc EXCEPT !.phase = "between", !.todo = due,
                     !.skip = {b \in Slug : boards[b].status \in SettledStatus}]
    BY <1>5 DEF StartDiscovery
  <2> DEFINE settled == {b \in Slug : boards[b].status \in SettledStatus}
  <2>2. settled \subseteq Slug
    OBVIOUS
  <2>3. disc' = [IdleDisc EXCEPT !.phase = "between", !.todo = due, !.skip = settled]
    BY <2>1
  <2> HIDE DEF settled
  <2>4. disc' \in DiscState
    BY <1>3, <2>2, <2>3 DEF DiscState
  <2> QED  BY <1>1, <1>5, <2>4 DEF StartDiscovery
<1>6. ASSUME NEW c \in Company, Guess(c) PROVE disc' \in DiscState /\ poll' \in PollState
  <2>1. PICK b \in KeysOf(c), outcome \in DiscoveryOutcome :
          disc' = [disc EXCEPT !.phase = "guessed", !.todo = disc.todo \ {c}, !.company = c,
                               !.slug = b, !.outcome = outcome]
    BY <1>6 DEF Guess
  <2>2. b \in Slug
    BY BoardAssumption DEF KeysOf
  <2>3. disc.todo \ {c} \subseteq Company
    BY <1>1 DEF DiscState
  <2> DEFINE rest == disc.todo \ {c}
  <2>4. disc' = [disc EXCEPT !.phase = "guessed", !.todo = rest, !.company = c,
                               !.slug = b, !.outcome = outcome]
    BY <2>1
  <2> HIDE DEF rest
  <2>5. disc' \in DiscState
    BY <1>1, <2>2, <2>3, <2>4 DEF DiscState, rest
  <2> QED  BY <1>1, <1>6, <2>5 DEF Guess
<1>7. CASE Look
  <2>1. CASE Refuses(boards[disc.slug], disc.company)
    BY <1>1, <1>4, <1>7, <2>1 DEF Look
  <2>2. CASE ~Refuses(boards[disc.slug], disc.company)
    <3>1. disc' = [disc EXCEPT !.phase = "looked", !.read = boards[disc.slug]] /\ disc.slug \in Slug
      BY <1>7, <2>2 DEF Look, HandInv
    <3>2. disc' \in DiscState
      BY <1>1, <3>1 DEF DiscState
    <3> QED  BY <1>1, <1>7, <3>2 DEF Look
  <2> QED  BY <2>1, <2>2
<1>8. CASE RegisterCollides
  <2>1. disc' \in DiscState
    BY <1>3, <1>8 DEF RegisterCollides, DiscState
  <2> QED  BY <1>1, <1>8, <2>1 DEF RegisterCollides
<1>9. CASE Register \/ ProbeFails \/ EndDiscovery
  BY <1>1, <1>3, <1>4, <1>9 DEF Register, ProbeFails, EndDiscovery
<1>10. CASE StartPoll
  <2>1. PICK slugs \in {{b \in Slug : InWalk(b)}} \cup {{b} : b \in {h \in Handled : Exists(h)}} :
          poll' = [walking |-> TRUE, slugs |-> slugs]
    BY <1>10 DEF StartPoll
  <2>2. slugs \subseteq Slug
    BY <2>1, BoardAssumption
  <2>3. poll' \in PollState
    BY <2>1, <2>2 DEF PollState
  <2> QED  BY <1>1, <1>10, <2>3 DEF StartPoll
<1>11. CASE RecordPoll \/ PollCrash
  BY <1>1, <1>3, <1>11 DEF RecordPoll, PollCrash
<1>12. CASE \E h \in Handled : Operator(h)
  BY <1>1, <1>12, BoardAssumption, OperatorRows
<1>13. CASE UNCHANGED vars
  BY <1>1, <1>13 DEF vars
<1> QED
  BY <1>5, <1>6, <1>7, <1>8, <1>9, <1>10, <1>11, <1>12, <1>13
  DEF Next, DiscoveryStep, PollStep

LEMMA HandKept ==
  ASSUME Inv, [Next]_vars
  PROVE  HandInv'
<1> USE DEF Inv
<1>1. boards \in [Slug -> JobBoard] /\ disc \in DiscState
  BY DEF TypeOK
<1>2. CASE StartDiscovery
  BY <1>2 DEF StartDiscovery, IdleDisc, HandInv
<1>3. ASSUME NEW c \in Company, Guess(c) PROVE HandInv'
  <2>1. PICK b \in KeysOf(c), outcome \in DiscoveryOutcome :
          disc' = [disc EXCEPT !.phase = "guessed", !.todo = disc.todo \ {c}, !.company = c,
                               !.slug = b, !.outcome = outcome]
    BY <1>3 DEF Guess
  <2>2. b \in Slug
    BY BoardAssumption DEF KeysOf
  <2>3. disc'.phase = "guessed" /\ disc'.company = c /\ disc'.slug = b
    BY <1>1, <2>1 DEF DiscState
  <2> QED  BY <2>2, <2>3 DEF HandInv
<1>4. CASE Look
  <2>1. CASE Refuses(boards[disc.slug], disc.company)
    BY <1>4, <2>1 DEF Look, NextCompany, IdleDisc, HandInv
  <2>2. CASE ~Refuses(boards[disc.slug], disc.company)
    <3>1. disc' = [disc EXCEPT !.phase = "looked", !.read = boards[disc.slug]]
          /\ disc.phase = "guessed" /\ boards' = boards
      BY <1>4, <2>2 DEF Look
    <3>2. disc'.read = boards[disc.slug] /\ disc'.company = disc.company /\ disc'.slug = disc.slug
      BY <1>1, <3>1 DEF DiscState
    <3> QED  BY <2>2, <3>1, <3>2 DEF HandInv
  <2> QED  BY <2>1, <2>2
<1>5. CASE RegisterCollides \/ EndDiscovery
  BY <1>5 DEF RegisterCollides, EndDiscovery, IdleDisc, HandInv
<1>6. CASE Register \/ ProbeFails
  BY <1>6 DEF Register, ProbeFails, NextCompany, IdleDisc, HandInv
<1>7. CASE StartPoll \/ PollCrash
  BY <1>7 DEF StartPoll, PollCrash, HandInv
<1>8. CASE RecordPoll
  <2>1. disc' = disc
    BY <1>8 DEF RecordPoll
  <2>2. \A b \in Slug : boards'[b] = boards[b] \/ Polled(b)
    BY <1>8, RecordPollRows
  <2>3. \A b \in Slug : boards'[b].company = boards[b].company
    BY <1>1, <2>2, PolledFacts DEF Polled
  <2> QED  BY <2>1, <2>3 DEF HandInv
<1>9. CASE \E h \in Handled : Operator(h)
  <2>1. \A b \in Slug : boards'[b].company = boards[b].company
    BY <1>9, BoardAssumption, OperatorRows
  <2>2. disc' = disc
    BY <1>9, BoardAssumption, OperatorRows
  <2> QED  BY <2>1, <2>2 DEF HandInv
<1>10. CASE UNCHANGED vars
  BY <1>10 DEF vars, HandInv
<1> QED
  BY <1>2, <1>3, <1>4, <1>5, <1>6, <1>7, <1>8, <1>9, <1>10 DEF Next, DiscoveryStep, PollStep

LEMMA InvInitially == Init => Inv
<1> SUFFICES ASSUME Init PROVE Inv
  OBVIOUS
<1>1. AbsentBoard \in JobBoard /\ "not_found" \in DiscoveryOutcome
  <2>1. AbsentBoard \in JobBoard
    BY DEF AbsentBoard, JobBoard, Kind
  <2>2. <<"not_found", "void">> \in Verdict /\ <<"not_found", "void">>[1] = "not_found"
    BY DEF Verdict
  <2> QED  BY <2>1, <2>2 DEF DiscoveryOutcome
<1>2. IdleDisc \in DiscState /\ IdlePoll \in PollState
  BY <1>1 DEF IdleDisc, DiscState, IdlePoll, PollState
<1>3. TypeOK
  BY <1>1, <1>2 DEF Init, TypeOK
<1>4. HandInv
  BY DEF Init, IdleDisc, HandInv
<1> QED  BY <1>3, <1>4 DEF Inv

LEMMA InvKept ==
  ASSUME Inv, [Next]_vars PROVE Inv'
BY RowSteps, DiscTyped, HandKept DEF Inv, TypeOK

\* The table, the discovery run and the poll keep their types, however they interleave.
THEOREM TypeCorrect == Spec => []TypeOK
<1>1. Init => Inv
  BY InvInitially
<1>2. Inv /\ [Next]_vars => Inv'
  BY InvKept
<1>3. Inv => TypeOK
  BY DEF Inv
<1> QED  BY <1>1, <1>2, <1>3, PTL DEF Spec

LEMMA InvHolds == Spec => []Inv
<1>1. Init => Inv
  BY InvInitially
<1>2. Inv /\ [Next]_vars => Inv'
  BY InvKept
<1> QED  BY <1>1, <1>2, PTL DEF Spec

-----------------------------------------------------------------------------
(* The streak, and the word behind a polled board.                          *)

LEMMA OperatorStreak ==
  ASSUME Inv, NEW h \in Slug, Operator(h)
  PROVE  boards'[h].status = "inactive" => FALSE
<1>1. boards \in [Slug -> JobBoard]
  BY DEF Inv, TypeOK
<1>2. Revived(boards[h]) \in {"confirmed", "candidate"}
  BY RevivedType
<1>3. CASE AddBoard(h)
  BY <1>1, <1>3 DEF AddBoard, Write, JobBoard
<1>4. CASE BlockBoard(h)
  BY <1>1, <1>4 DEF BlockBoard, Write, JobBoard
<1>5. CASE UnblockBoard(h)
  BY <1>1, <1>5 DEF UnblockBoard, Write, JobBoard
<1>6. CASE Reactivate(h)
  BY <1>1, <1>2, <1>6 DEF Reactivate, Write, JobBoard
<1> QED  BY <1>3, <1>4, <1>5, <1>6 DEF Operator

\* However probes, polls and commands overlap, a board is inactive only with the streak of
\* failing polls that retires one: nothing wipes the streak and leaves the board out.
THEOREM RetiredByStreak == Spec => []InactiveHasFailed
<1>1. Init => InactiveHasFailed
  BY DEF Init, AbsentBoard, InactiveHasFailed
<1>2. Inv /\ InactiveHasFailed /\ [Next]_vars => InactiveHasFailed'
  <2> SUFFICES ASSUME Inv, InactiveHasFailed, [Next]_vars,
                      NEW b \in Slug, boards'[b].status = "inactive"
               PROVE  boards'[b].failures >= InactiveAfter
    BY DEF InactiveHasFailed
  <2>1. boards[b] \in JobBoard /\ disc.read \in JobBoard /\ boards'[b] \in JobBoard
    BY RowSteps DEF Inv, TypeOK, DiscState
  <2>2. CASE boards'[b] = boards[b]
    BY <2>2 DEF InactiveHasFailed
  <2>3. CASE FromHand(b)
    <3>1. PICK new \in JobBoard : /\ Becomes(disc.read, disc.company, new)
                                  /\ boards'[b] \in MergedRows(boards[b], disc.read, new)
      BY <2>3 DEF FromHand
    <3>2. boards'[b].status = IF new.status # disc.read.status THEN new.status ELSE boards[b].status
      BY <2>1, <3>1, MergedFacts
    <3>3. boards'[b].failures = IF new.failures # disc.read.failures THEN new.failures
                                ELSE boards[b].failures
      BY <2>1, <3>1, MergedFacts
    <3>4. new = disc.read \/ new.status # "inactive"
      BY <3>1 DEF Becomes
    <3>5. new.failures = disc.read.failures \/ disc.read.status = "inactive"
      BY <3>1 DEF Becomes
    <3>6. boards[b].status = "inactive" /\ boards'[b].failures = boards[b].failures
      BY <3>2, <3>3, <3>4, <3>5
    <3> QED  BY <3>6 DEF InactiveHasFailed
  <2>4. CASE Taken(b)
    BY <2>4 DEF Taken, Becomes
  <2>5. CASE Polled(b)
    <3>1. boards[b].status = "inactive" => boards[b].failures >= InactiveAfter
      BY DEF InactiveHasFailed
    <3>2. boards[b].failures \in Nat /\ boards'[b].failures \in Nat /\ InactiveAfter \in Nat
      BY <2>1, BoardAssumption DEF JobBoard
    <3>3. boards'[b].failures >= InactiveAfter \/ boards'[b].failures >= boards[b].failures
      BY <2>1, <2>5, PolledFacts DEF Polled
    <3>4. boards[b].status # "inactive" => boards'[b].failures >= InactiveAfter
      BY <2>1, <2>5, PolledFacts DEF Polled
    <3> QED  BY <3>1, <3>2, <3>3, <3>4
  <2>6. CASE Operator(b)
    BY <2>6, OperatorStreak
  <2> QED  BY <2>2, <2>3, <2>4, <2>5, <2>6, RowSteps
<1> QED  BY <1>1, <1>2, InvHolds, PTL DEF Spec

LEMMA RevivedVouched ==
  ASSUME NEW row, Revived(row) = "confirmed" PROVE row.pinned \/ row.company # NoCompany
BY DEF Revived

\* A command that leaves a board to be polled leaves it pinned, or vouched for.
LEMMA OperatorVouched ==
  ASSUME Inv, NEW h \in Slug, Operator(h), boards'[h].status \in OwnedStatus,
         ~boards'[h].pinned
  PROVE  boards'[h].company # NoCompany
<1>1. boards[h] \in JobBoard /\ boards \in [Slug -> JobBoard]
  BY DEF Inv, TypeOK
<1>2. boards'[h].company = boards[h].company
  BY OperatorRows
<1>3. CASE AddBoard(h)
  BY <1>1, <1>3 DEF AddBoard, Write, JobBoard
<1>4. CASE BlockBoard(h)
  BY <1>1, <1>4 DEF BlockBoard, Write, JobBoard, OwnedStatus
<1>5. CASE UnblockBoard(h)
  BY <1>1, <1>5 DEF UnblockBoard, Write, JobBoard, OwnedStatus
<1>6. CASE Reactivate(h)
  <2>1. boards'[h].status = Revived(boards[h]) /\ boards'[h].pinned = boards[h].pinned
    BY <1>1, <1>6 DEF Reactivate, Write, JobBoard
  <2>2. Revived(boards[h]) = "confirmed"
    BY <2>1, RevivedType DEF OwnedStatus
  <2> QED  BY <1>2, <2>1, <2>2, RevivedVouched
<1> QED  BY <1>3, <1>4, <1>5, <1>6 DEF Operator

\* A board is polled on an operator's pin or for a company it was verified for, even when the
\* pin was withdrawn while a poll or a probe was under way.
THEOREM VouchedFor == Spec => []PolledIsVouchedFor
<1>1. Init => PolledIsVouchedFor
  BY DEF Init, AbsentBoard, PolledIsVouchedFor, InWalk, OwnedStatus
<1>2. Inv /\ PolledIsVouchedFor /\ [Next]_vars => PolledIsVouchedFor'
  <2> SUFFICES ASSUME Inv, PolledIsVouchedFor, [Next]_vars, NEW b \in Slug,
                      boards'[b].status \in OwnedStatus, ~boards'[b].pinned
               PROVE  boards'[b].company # NoCompany
    BY DEF PolledIsVouchedFor, InWalk
  <2>1. boards[b] \in JobBoard /\ disc.read \in JobBoard /\ boards'[b] \in JobBoard
    BY RowSteps DEF Inv, TypeOK, DiscState
  <2>2. boards[b].status \in OwnedStatus => boards[b].pinned \/ boards[b].company # NoCompany
    BY DEF PolledIsVouchedFor, InWalk, OwnedStatus
  <2>3. CASE boards'[b] = boards[b]
    BY <2>2, <2>3
  <2>4. CASE FromHand(b)
    <3>1. PICK new \in JobBoard : /\ Becomes(disc.read, disc.company, new)
                                  /\ boards'[b] \in MergedRows(boards[b], disc.read, new)
      BY <2>4 DEF FromHand
    <3>2. /\ boards'[b].pinned = boards[b].pinned
          /\ boards'[b].status = IF new.status # disc.read.status THEN new.status
                                 ELSE boards[b].status
          /\ boards'[b].company = IF new.company # disc.read.company THEN new.company
                                  ELSE boards[b].company
      BY <2>1, <3>1, MergedFacts
    <3>3. disc.company \in Company /\ boards[b].company = disc.read.company
      BY <2>4 DEF FromHand, InHand, Inv, HandInv
    <3>4. CASE new = disc.read
      BY <2>2, <3>2, <3>4
    <3>5. CASE new # disc.read
      <4>1. new.company = disc.company
        BY <3>1, <3>5 DEF Becomes
      <4> QED  BY <3>2, <3>3, <4>1, BoardAssumption
    <3> QED  BY <3>4, <3>5
  <2>5. CASE Taken(b)
    <3>1. disc.company \in Company /\ boards'[b].company = disc.company
      BY <2>5 DEF Taken, Becomes, Inv, HandInv
    <3> QED  BY <3>1, BoardAssumption
  <2>6. CASE Polled(b)
    <3>1. /\ boards'[b].pinned = boards[b].pinned /\ boards'[b].company = boards[b].company
          /\ \/ boards'[b].status \in {boards[b].status, "inactive"}
             \/ boards'[b].status = Revived(boards[b])
      BY <2>1, <2>6, PolledFacts DEF Polled
    <3>2. Revived(boards[b]) = "confirmed" => boards[b].pinned \/ boards[b].company # NoCompany
      BY RevivedVouched
    <3>3. Revived(boards[b]) \in {"confirmed", "candidate"}
      BY RevivedType
    <3> QED  BY <2>2, <3>1, <3>2, <3>3 DEF OwnedStatus
  <2>7. CASE Operator(b)
    BY <2>1, <2>7, OperatorVouched DEF Inv
  <2> QED  BY <2>3, <2>4, <2>5, <2>6, <2>7, RowSteps
<1> QED  BY <1>1, <1>2, InvHolds, PTL DEF Spec

-----------------------------------------------------------------------------
(* What a step may not do to a row.                                         *)

\* A settled row changes status by the operator's hand, or in one of the two windows named:
\* the row in hand was read before it was settled, or a poll retires it.
THEOREM SettledIsKept == Spec => SettledStands
<1>1. Inv /\ [Next]_vars =>
        [\A b \in Slug :
           boards[b].status \in SettledStatus /\ boards[b]'.status # boards[b].status =>
             \/ Operator(b)
             \/ InHand(b) /\ disc.read.status \notin SettledStatus
             \/ b \in poll.slugs /\ boards[b]'.status = "inactive"]_vars
  <2> SUFFICES ASSUME Inv, [Next]_vars, NEW b \in Slug, boards[b].status \in SettledStatus,
                      boards'[b].status # boards[b].status
               PROVE  \/ Operator(b)
                      \/ InHand(b) /\ disc.read.status \notin SettledStatus
                      \/ b \in poll.slugs /\ boards'[b].status = "inactive"
    OBVIOUS
  <2>1. boards[b] \in JobBoard /\ boards'[b] \in JobBoard
    BY RowSteps DEF Inv, TypeOK
  <2>2. CASE FromHand(b)
    BY <2>2 DEF FromHand, InHand, Inv, HandInv, Refuses
  <2>3. CASE Polled(b)
    <3>1. boards'[b].status \in {boards[b].status, "inactive"}
      BY <2>1, <2>3, PolledFacts DEF Polled, SettledStatus
    <3> QED  BY <2>3, <3>1 DEF Polled
  <2>4. ~Taken(b)
    BY DEF Taken, Refuses
  <2> QED  BY <2>2, <2>3, <2>4, RowSteps
<1> QED  BY <1>1, InvHolds, PTL DEF Spec, SettledStands

\* A pinned row keeps its status and its company, but for the probe that read it unpinned and
\* the poll that finds it inactive.
THEOREM PinIsKept == Spec => PinStands
<1>1. Inv /\ [Next]_vars =>
        [\A b \in Slug :
           boards[b].pinned /\ (boards[b]'.status # boards[b].status
                                  \/ boards[b]'.company # boards[b].company) =>
             \/ Operator(b)
             \/ InHand(b) /\ ~disc.read.pinned
             \/ b \in poll.slugs /\ boards[b].status = "inactive"]_vars
  <2> SUFFICES ASSUME Inv, [Next]_vars, NEW b \in Slug, boards[b].pinned,
                      \/ boards'[b].status # boards[b].status
                      \/ boards'[b].company # boards[b].company
               PROVE  \/ Operator(b)
                      \/ InHand(b) /\ ~disc.read.pinned
                      \/ b \in poll.slugs /\ boards[b].status = "inactive"
    OBVIOUS
  <2>1. boards[b] \in JobBoard /\ boards'[b] \in JobBoard /\ disc.read \in JobBoard
    BY RowSteps DEF Inv, TypeOK, DiscState
  <2>2. CASE FromHand(b)
    <3>1. PICK new \in JobBoard : /\ Becomes(disc.read, disc.company, new)
                                  /\ boards'[b] \in MergedRows(boards[b], disc.read, new)
      BY <2>2 DEF FromHand
    <3>2. new # disc.read
      BY <2>1, <3>1, MergedFacts
    <3>3. ~disc.read.pinned
      BY <3>1, <3>2 DEF Becomes
    <3> QED  BY <2>2, <3>3 DEF FromHand
  <2>3. CASE Polled(b)
    <3>1. boards[b].status = "inactive"
      BY <2>1, <2>3, PolledFacts DEF Polled
    <3> QED  BY <2>3, <3>1 DEF Polled
  <2>4. ~Taken(b)
    BY DEF Taken
  <2>5. boards'[b] # boards[b]
    OBVIOUS
  <2>6. FromHand(b) \/ Polled(b) \/ Operator(b)
    BY <2>4, <2>5, RowSteps
  <2> QED  BY <2>2, <2>3, <2>6
<1> QED  BY <1>1, InvHolds, PTL DEF Spec, PinStands

\* A board verified for one company is handed to another only by a probe that read its row
\* before it was verified.
THEOREM OwnerIsKept == Spec => OwnerStands
<1>1. Inv /\ [Next]_vars =>
        [\A b \in Slug :
           boards[b].status \in OwnedStatus /\ boards[b].company # NoCompany
             /\ boards[b]'.company # boards[b].company
           => InHand(b) /\ disc.read.status \notin OwnedStatus]_vars
  <2> SUFFICES ASSUME Inv, [Next]_vars, NEW b \in Slug, boards[b].status \in OwnedStatus,
                      boards[b].company # NoCompany, boards'[b].company # boards[b].company
               PROVE  InHand(b) /\ disc.read.status \notin OwnedStatus
    OBVIOUS
  <2>1. boards[b] \in JobBoard /\ boards'[b] \in JobBoard /\ disc.read \in JobBoard
    BY RowSteps DEF Inv, TypeOK, DiscState
  <2>2. CASE FromHand(b)
    <3>1. PICK new \in JobBoard : /\ Becomes(disc.read, disc.company, new)
                                  /\ boards'[b] \in MergedRows(boards[b], disc.read, new)
      BY <2>2 DEF FromHand
    <3>2. boards'[b].company = IF new.company # disc.read.company THEN new.company
                               ELSE boards[b].company
      BY <2>1, <3>1, MergedFacts
    <3>3. new # disc.read /\ new.company # disc.read.company
      BY <3>2
    <3>4. new.company = disc.company
      BY <3>1, <3>3 DEF Becomes
    <3>5. ~Refuses(disc.read, disc.company) /\ boards[b].company = disc.read.company
      BY <2>2 DEF FromHand, InHand, Inv, HandInv
    <3>6. disc.read.company \notin {disc.company, NoCompany}
      BY <3>3, <3>4, <3>5
    <3> QED  BY <2>2, <3>5, <3>6 DEF FromHand, Refuses, OwnedByOther
  <2>3. CASE Polled(b)
    BY <2>1, <2>3, PolledFacts DEF Polled
  <2>4. CASE Operator(b)
    BY <2>4, OperatorRows
  <2>5. CASE Taken(b)
    <3>1. boards'[b].company = disc.company
      BY <2>5 DEF Taken, Becomes
    <3> QED  BY <2>5, <3>1 DEF Taken, Refuses, OwnedByOther
  <2> QED  BY <2>2, <2>3, <2>4, <2>5, RowSteps
<1> QED  BY <1>1, InvHolds, PTL DEF Spec, OwnerStands

=============================================================================
