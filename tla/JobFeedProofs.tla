----------------------------- MODULE JobFeedProofs -----------------------------
(***************************************************************************)
(* What JobFeed keeps for every catalogue, page size and number of loads.  *)
(* The order of the listing comes first: that the key condition of the     *)
(* query is that order, that it is strict and total, and that a batch is a *)
(* beginning of the rest with the cursor on its last row.  The invariants  *)
(* follow: whatever a cursor has passed is on the list or on its way.      *)
(***************************************************************************)
EXTENDS JobFeed, FiniteSetTheorems, WellFoundedInduction, TLAPS

-----------------------------------------------------------------------------
(* The order.                                                              *)

LEMMA PositionType ==
  ASSUME NEW p \in Position
  PROVE  p.date \in Nat /\ p.id \in Nat
<1>1. Job \subseteq Nat /\ MaxDate \in Nat
  BY FeedAssumption DEF FeedAssumption
<1>2. p.date \in 0 .. MaxDate /\ p.id \in Job
  BY DEF Position, Date
<1>3. \A d \in 0 .. MaxDate : d \in Nat
  BY <1>1
<1> QED  BY <1>1, <1>2, <1>3

\* The condition on the key of the last row selects what comes later in the listing.
LEMMA AfterIsTheOrder ==
  ASSUME NEW p \in Position, NEW q \in Position
  PROVE  After(p, q) <=> Precedes(q, p)
<1>1. p.date \in Nat /\ q.date \in Nat /\ p.id \in Nat /\ q.id \in Nat
  BY PositionType
<1> QED  BY <1>1 DEF After, Precedes

LEMMA OrderIsStrict ==
  ASSUME NEW p \in Position, NEW q \in Position, NEW r \in Position
  PROVE  /\ ~Precedes(p, p)
         /\ Precedes(p, q) /\ Precedes(q, r) => Precedes(p, r)
         /\ p.id # q.id => Precedes(p, q) \/ Precedes(q, p)
         /\ ~(Precedes(p, q) /\ Precedes(q, p))
<1>1. /\ p.date \in Nat /\ q.date \in Nat /\ r.date \in Nat
      /\ p.id \in Nat /\ q.id \in Nat /\ r.id \in Nat
  BY PositionType
<1> QED  BY <1>1 DEF Precedes

LEMMA PositionIsNoMark == Start \notin Position /\ End \notin Position /\ Start # End
<1>1. ASSUME NEW p \in Position PROVE p # Start /\ p # End
  <2>1. DOMAIN p = {"date", "id"}
    BY DEF Position
  <2>2. DOMAIN Start = {"at"} /\ DOMAIN End = {"at"}
    BY DEF Start, End
  <2>3. "date" \in {"date", "id"} /\ "date" \notin {"at"}
    OBVIOUS
  <2> QED  BY <2>1, <2>2, <2>3
<1>2. Start.at # End.at
  BY DEF Start, End
<1> QED  BY <1>1, <1>2

LEMMA SmallestOf ==
  ASSUME NEW S \in SUBSET Nat, S # {}
  PROVE  \E n \in S : \A m \in S : n <= m
<1>1. PICK n \in S : \A m \in S : <<m, n>> \notin OpToRel(<, Nat)
  BY NatLessThanWellFounded, WFMin, Zenon
<1>2. \A m \in S : ~(m < n)
  BY <1>1 DEF OpToRel
<1> QED  BY <1>2

Places == \A j \in Job : At(j) \in Position /\ At(j).id = j

LEMMA RowsHavePlaces ==
  ASSUME catalogue \in [Job -> Row]
  PROVE  Places
BY DEF Places, At, Position, Row

\* A batch that is not empty has a last row.
LEMMA SomeIsLast ==
  ASSUME Places, NEW S \in SUBSET Job, S # {}
  PROVE  \E j \in S : \A k \in S : k = j \/ Precedes(At(k), At(j))
<1> DEFINE D == {At(k).date : k \in S}
           U == {k \in S : At(k).date = 0}
<1>0. \A k \in S : At(k) \in Position /\ At(k).date \in Nat /\ At(k).id = k /\ k \in Nat
  BY FeedAssumption DEF FeedAssumption, Places, Position, Date
<1>1. CASE U # {}
  <2>1. PICK j \in U : \A m \in U : j <= m
    BY <1>0, <1>1, SmallestOf
  <2>2. \A k \in S : k = j \/ Precedes(At(k), At(j))
    BY <1>0, <2>1 DEF Precedes
  <2> QED  BY <2>1, <2>2
<1>2. CASE U = {}
  <2>1. PICK d \in D : \A m \in D : d <= m
    <3>1. D \in SUBSET Nat /\ D # {}
      BY <1>0
    <3> QED  BY <3>1, SmallestOf
  <2> DEFINE E == {k \in S : At(k).date = d}
  <2>2. PICK j \in E : \A m \in E : j <= m
    <3>1. E \in SUBSET Nat /\ E # {}
      BY <1>0, <2>1
    <3> QED  BY <3>1, SmallestOf
  <2>3. ASSUME NEW k \in S PROVE k = j \/ Precedes(At(k), At(j))
    <3>1. At(k).date # 0 /\ d <= At(k).date /\ At(j).date = d /\ j \in S
      BY <1>2, <2>1, <2>2
    <3>2. At(k).date = d => j <= k
      BY <2>2
    <3> QED  BY <1>0, <3>1, <3>2 DEF Precedes
  <2> QED  BY <2>2, <2>3
<1> QED  BY <1>1, <1>2

LEMMA RestIsFinite ==
  ASSUME NEW c
  PROVE  /\ Rest(c) \subseteq Job /\ IsFiniteSet(Rest(c)) /\ Cardinality(Rest(c)) \in Nat
         /\ Batch(c) \subseteq Rest(c)
<1>1. Rest(c) \subseteq Job /\ IsFiniteSet(Job)
  BY FeedAssumption DEF FeedAssumption, Rest
<1>2. IsFiniteSet(Rest(c))
  BY <1>1, FS_Subset
<1> QED  BY <1>1, <1>2, FS_CardinalityType DEF Batch

\* What precedes a row of the rest; it is finite, and smaller the earlier the row.
LEMMA Earlier ==
  ASSUME Places, NEW c, NEW j \in Rest(c)
  PROVE  /\ Cardinality({k \in Rest(c) : Precedes(At(k), At(j))}) \in Nat
         /\ Cardinality({k \in Rest(c) : Precedes(At(k), At(j))}) < Cardinality(Rest(c))
         /\ \A l \in Rest(c) : Precedes(At(j), At(l)) =>
              Cardinality({k \in Rest(c) : Precedes(At(k), At(j))})
                <= Cardinality({k \in Rest(c) : Precedes(At(k), At(l))})
<1> DEFINE Before(i) == {k \in Rest(c) : Precedes(At(k), At(i))}
<1>1. Rest(c) \subseteq Job /\ IsFiniteSet(Rest(c)) /\ Cardinality(Rest(c)) \in Nat
  BY RestIsFinite
<1>2. \A i \in Rest(c) : /\ IsFiniteSet(Before(i)) /\ Cardinality(Before(i)) \in Nat
                         /\ Cardinality(Before(i)) <= Cardinality(Rest(c))
                         /\ (Cardinality(Before(i)) = Cardinality(Rest(c)) => Before(i) = Rest(c))
  BY <1>1, FS_Subset, FS_CardinalityType
<1>3. j \notin Before(j)
  BY <1>1, OrderIsStrict DEF Places
<1>4. Cardinality(Before(j)) < Cardinality(Rest(c))
  <2> HIDE DEF Before
  <2> QED  BY <1>1, <1>2, <1>3
<1>5. ASSUME NEW l \in Rest(c), Precedes(At(j), At(l))
      PROVE  Cardinality(Before(j)) <= Cardinality(Before(l))
  <2>1. Before(j) \subseteq Before(l)
    BY <1>1, <1>5, OrderIsStrict DEF Places
  <2> HIDE DEF Before
  <2> QED  BY <1>2, <2>1, FS_Subset
<1> QED  BY <1>2, <1>4, <1>5

\* The first row of a rest is in its batch.
LEMMA SomeInBatch ==
  ASSUME Places, NEW c, Rest(c) # {}
  PROVE  Batch(c) # {}
<1> DEFINE Before(i) == {k \in Rest(c) : Precedes(At(k), At(i))}
           N == {Cardinality(Before(i)) : i \in Rest(c)}
<1>1. Rest(c) \subseteq Job /\ IsFiniteSet(Rest(c))
  BY RestIsFinite
<1>2. \A i \in Rest(c) : IsFiniteSet(Before(i)) /\ Cardinality(Before(i)) \in Nat
  BY <1>1, FS_Subset, FS_CardinalityType
<1>3. PICK n \in N : \A m \in N : n <= m
  <2>1. N \in SUBSET Nat /\ N # {}
    BY <1>2
  <2> QED  BY <2>1, SmallestOf
<1>4. PICK j \in Rest(c) : n = Cardinality(Before(j))
  BY <1>3
<1>5. ASSUME NEW k \in Before(j) PROVE FALSE
  <2>1. k \in Rest(c) /\ Before(k) \subseteq Before(j) /\ k \notin Before(k)
    BY <1>1, OrderIsStrict DEF Places
  <2>2. Cardinality(Before(j)) <= Cardinality(Before(k))
    BY <1>3, <1>4, <2>1
  <2> HIDE DEF Before
  <2>3. Cardinality(Before(k)) <= Cardinality(Before(j))
        /\ (Cardinality(Before(j)) = Cardinality(Before(k)) => Before(j) = Before(k))
    BY <1>2, <2>1, FS_Subset
  <2>4. Cardinality(Before(j)) = Cardinality(Before(k))
    BY <1>2, <2>1, <2>2, <2>3
  <2> QED  BY <1>5, <2>1, <2>3, <2>4
<1>6. Before(j) = {} /\ Cardinality(Before(j)) = 0
  <2>1. Before(j) = {}
    BY <1>5
  <2> QED  BY <2>1, FS_EmptySet
<1>7. j \in Batch(c)
  BY <1>4, <1>6, FeedAssumption DEF Batch, FeedAssumption
<1> QED  BY <1>7

\* A cursor handed out is the end, when the batch is the whole rest, or the place of the last row
\* of the batch, and of the rest nothing up to that row is missing from the batch.
LEMMA NextCursorMarks ==
  ASSUME Places, NEW c
  PROVE  \/ NextCursor(c) = End /\ Batch(c) = Rest(c)
         \/ \E l \in Batch(c) :
              /\ NextCursor(c) = At(l)
              /\ \A k \in Batch(c) : k = l \/ Precedes(At(k), At(l))
              /\ \A k \in Rest(c) : k = l \/ Precedes(At(k), At(l)) => k \in Batch(c)
<1>1. /\ Rest(c) \subseteq Job /\ Cardinality(Rest(c)) \in Nat /\ PageSize \in Nat
      /\ Batch(c) \subseteq Rest(c)
  BY RestIsFinite, FeedAssumption DEF FeedAssumption
<1>2. CASE Cardinality(Rest(c)) <= PageSize
  <2>1. ASSUME NEW j \in Rest(c) PROVE j \in Batch(c)
    <3> DEFINE before == Cardinality({k \in Rest(c) : Precedes(At(k), At(j))})
    <3>1. before \in Nat /\ before < Cardinality(Rest(c))
      BY Earlier
    <3>2. before < PageSize
      <4> HIDE DEF before
      <4> QED  BY <1>1, <1>2, <3>1
    <3> QED  BY <3>2 DEF Batch
  <2> QED  BY <1>1, <1>2, <2>1 DEF NextCursor
<1>3. CASE ~(Cardinality(Rest(c)) <= PageSize)
  <2> DEFINE Last(j) == \A k \in Batch(c) : k = j \/ Precedes(At(k), At(j))
             l == CHOOSE j \in Batch(c) : Last(j)
  <2>1. Rest(c) # {}
    <3>1. Rest(c) = {} => Cardinality(Rest(c)) = 0
      BY FS_EmptySet
    <3> QED  BY <1>1, <1>3, <3>1
  <2>2. Batch(c) # {} /\ Batch(c) \subseteq Job
    BY <1>1, <2>1, SomeInBatch
  <2>3. \E j \in Batch(c) : Last(j)
    BY <2>2, SomeIsLast
  <2>4. l \in Batch(c) /\ Last(l)
    <3> HIDE DEF Last
    <3> QED  BY <2>3
  <2>5. NextCursor(c) = At(l)
    BY <1>3 DEF NextCursor
  <2>6. ASSUME NEW k \in Rest(c), Precedes(At(k), At(l)) PROVE k \in Batch(c)
    <3> HIDE DEF l
    <3>1. l \in Rest(c) /\ Cardinality({i \in Rest(c) : Precedes(At(i), At(l))}) < PageSize
      BY <2>4 DEF Batch
    <3>2. Cardinality({i \in Rest(c) : Precedes(At(i), At(l))}) \in Nat
      BY <3>1, Earlier
    <3>3. /\ Cardinality({i \in Rest(c) : Precedes(At(i), At(k))}) \in Nat
          /\ Cardinality({i \in Rest(c) : Precedes(At(i), At(k))})
               <= Cardinality({i \in Rest(c) : Precedes(At(i), At(l))})
      BY <2>6, <3>1, Earlier
    <3> QED  BY <1>1, <3>1, <3>2, <3>3 DEF Batch
  <2> HIDE DEF l
  <2> QED  BY <2>4, <2>5, <2>6
<1> QED  BY <1>2, <1>3

-----------------------------------------------------------------------------
(* What a cursor has passed.                                               *)

\* A load from c would return no row at p, because of where c stands.
Behind(p, c) == c = End \/ (c # Start /\ ~After(p, c))

\* Between two cursors, a listed row that the next one has passed was passed before or is in the
\* batch between them.
LEMMA BatchFillsTheGap ==
  ASSUME Places, NEW c \in Cursor, NEW j \in Job, catalogue[j].listed, Behind(At(j), NextCursor(c))
  PROVE  Behind(At(j), c) \/ j \in Batch(c)
<1>1. CASE j \notin Rest(c)
  BY <1>1 DEF Rest, Behind
<1>2. CASE j \in Rest(c) /\ Batch(c) = Rest(c)
  BY <1>2
<1>3. CASE j \in Rest(c) /\ Batch(c) # Rest(c)
  <2>1. PICK l \in Batch(c) :
          /\ NextCursor(c) = At(l)
          /\ \A k \in Rest(c) : k = l \/ Precedes(At(k), At(l)) => k \in Batch(c)
    BY <1>3, NextCursorMarks
  <2>2. l \in Job
    BY RestIsFinite, <2>1
  <2>3. ~After(At(j), At(l))
    BY <2>1, <2>2, PositionIsNoMark DEF Behind, Places
  <2>4. ~Precedes(At(l), At(j))
    BY <2>2, <2>3, AfterIsTheOrder DEF Places
  <2>5. j = l \/ Precedes(At(j), At(l))
    BY <2>2, <2>4, OrderIsStrict DEF Places
  <2> QED  BY <1>3, <2>1, <2>5
<1> QED  BY <1>1, <1>2, <1>3

\* The next cursor has passed all that the cursor had, and the batch.
LEMMA NextPassesMore ==
  ASSUME Places, NEW c \in Cursor, c # End, NEW j \in Job, Behind(At(j), c) \/ j \in Batch(c)
  PROVE  Behind(At(j), NextCursor(c))
<1>1. CASE NextCursor(c) = End
  BY <1>1 DEF Behind
<1>2. CASE NextCursor(c) # End
  <2>1. PICK l \in Batch(c) :
          NextCursor(c) = At(l) /\ \A k \in Batch(c) : k = l \/ Precedes(At(k), At(l))
    BY <1>2, NextCursorMarks
  <2>2. l \in Rest(c) /\ l \in Job
    BY RestIsFinite, <2>1
  <2>3. j \in Batch(c) => ~Precedes(At(l), At(j))
    BY <2>1, <2>2, OrderIsStrict DEF Places
  <2>4. ASSUME Behind(At(j), c) PROVE ~Precedes(At(l), At(j))
    <3>1. c \in Position /\ ~After(At(j), c) /\ After(At(l), c)
      BY <2>2, <2>4 DEF Behind, Cursor, Rest
    <3>2. ~Precedes(c, At(j)) /\ Precedes(c, At(l))
      BY <2>2, <3>1, AfterIsTheOrder DEF Places
    <3> QED  BY <2>2, <3>1, <3>2, OrderIsStrict DEF Places
  <2>5. ~After(At(j), At(l))
    BY <2>2, <2>3, <2>4, AfterIsTheOrder DEF Places
  <2> QED  BY <2>1, <2>2, <2>5, PositionIsNoMark DEF Behind, Places
<1> QED  BY <1>1, <1>2

LEMMA NextCursorType ==
  ASSUME Places, NEW c
  PROVE  /\ NextCursor(c) \in Cursor /\ NextCursor(c) # Start
         /\ Batch(c) \subseteq Job
<1>1. Batch(c) \subseteq Job
  BY RestIsFinite
<1> QED  BY <1>1, NextCursorMarks, PositionIsNoMark DEF Places, Cursor

-----------------------------------------------------------------------------
(* The invariants.                                                         *)

\* Before the first batch there is nothing; after it no cursor is at the start, and no load is
\* sent from the end.
Begun ==
  /\ ~mounted => loads = {} /\ steady = {} /\ jobs = {}
  /\ mounted => cursor # Start
  /\ \A load \in loads : /\ load.cursor # Start /\ load.cursor # End
                         /\ load.at = "read" => load.next # Start

\* Of the jobs that kept their place, those a cursor has passed are on the list, and those the
\* answer of a load passes are on it or in the answer.
Reached ==
  /\ \A j \in steady : catalogue[j].listed
  /\ mounted => \A j \in steady : Behind(At(j), cursor) => j \in jobs
  /\ \A load \in loads : \A j \in steady :
       /\ Behind(At(j), load.cursor) => j \in jobs
       /\ load.at = "read" /\ Behind(At(j), load.next) => j \in jobs \cup load.items

FeedInv == TypeOK /\ Begun /\ Reached

\* The jobs on the list that did not move are behind every cursor, those of an answer behind the
\* cursor it brings; until a load is sent twice there is one at a time, and the reader waits.
Served ==
  /\ mounted => \A j \in jobs \ moved : Behind(At(j), cursor)
  /\ \A load \in loads : \A j \in jobs \ moved :
       /\ Behind(At(j), load.cursor)
       /\ load.at = "read" => Behind(At(j), load.next)
  /\ \A load \in loads : load.at = "read" =>
       /\ load.items \cap jobs \subseteq moved
       /\ \A j \in load.items \ moved : Behind(At(j), load.next)
  /\ moved = Job \/ (/\ loads # {} => loading
                     /\ \A l, m \in loads : l = m)

ServedInv == TypeOK /\ Begun /\ Served

\* A load once it was read.
Answered(load) ==
  [load EXCEPT !.at = "read", !.items = Batch(load.cursor), !.next = NextCursor(load.cursor)]

LEMMA AnsweredFacts ==
  ASSUME Places, NEW load \in Load
  PROVE  /\ Answered(load) \in Load /\ Answered(load).cursor = load.cursor
         /\ Answered(load).at = "read"
         /\ Answered(load).items = Batch(load.cursor)
         /\ Answered(load).next = NextCursor(load.cursor)
<1>1. Batch(load.cursor) \in SUBSET Job /\ NextCursor(load.cursor) \in Cursor
  BY NextCursorType
<1> QED  BY <1>1 DEF Answered, Load

LEMMA SentFacts ==
  ASSUME NEW c \in Cursor, NEW n \in 1 .. MaxLoads
  PROVE  /\ Sent(c, n) \in Load /\ Sent(c, n).cursor = c /\ Sent(c, n).at = "sent"
<1>1. {} \in SUBSET Job /\ End \in Cursor
  BY DEF Cursor
<1> QED  BY <1>1 DEF Sent, Load

LEMMA InitTypes == ASSUME Init PROVE TypeOK
BY DEF Init, TypeOK, Cursor

LEMMA ChangeKeepsPlaces ==
  ASSUME TypeOK, NEW j \in Job, Change(j)
  PROVE  /\ catalogue' \in [Job -> Row]
         /\ \A i \in Job : i # j => catalogue'[i] = catalogue[i]
         /\ \A i \in Job : i # j \/ catalogue'[j].date = catalogue[j].date => At(i)' = At(i)
<1>1. PICK row \in Row : catalogue' = [catalogue EXCEPT ![j] = row]
  BY DEF Change
<1>2. catalogue' \in [Job -> Row] /\ \A i \in Job : i # j => catalogue'[i] = catalogue[i]
  BY <1>1 DEF TypeOK
<1> QED  BY <1>2 DEF At

LEMMA TypesKept == ASSUME TypeOK, [Next]_vars PROVE TypeOK'
<1>1. Places
  BY RowsHavePlaces DEF TypeOK
<1>2. ASSUME NEW j \in Job, Change(j) PROVE TypeOK'
  BY <1>2, ChangeKeepsPlaces DEF TypeOK, Change, reader
<1>3. CASE Mount
  BY <1>1, <1>3, NextCursorType DEF TypeOK, Mount
<1>4. CASE LoadMore
  <2>1. PICK copies \in SUBSET (1 .. MaxLoads) : loads' = loads \cup {Sent(cursor, n) : n \in copies}
    BY <1>4 DEF LoadMore
  <2>2. \A n \in copies : Sent(cursor, n) \in Load
    BY <2>1, SentFacts DEF TypeOK
  <2>3. loads' \subseteq Load /\ moved' \subseteq Job
    BY <1>4, <2>1, <2>2 DEF TypeOK, LoadMore
  <2> QED  BY <1>4, <2>3 DEF TypeOK, LoadMore
<1>5. ASSUME NEW load \in loads, ReadBatch(load) PROVE TypeOK'
  <2>1. Answered(load) \in Load /\ loads' = (loads \ {load}) \cup {Answered(load)}
    BY <1>1, <1>5, AnsweredFacts DEF TypeOK, ReadBatch, Answered
  <2> QED  BY <1>5, <2>1 DEF TypeOK, ReadBatch
<1>6. ASSUME NEW load \in loads, Deliver(load) PROVE TypeOK'
  <2>1. load.items \subseteq Job /\ load.next \in Cursor
    BY DEF TypeOK, Load
  <2> QED  BY <1>6, <2>1 DEF TypeOK, Deliver, Listed
<1>7. ASSUME NEW load \in loads, LoadFails(load) PROVE TypeOK'
  BY <1>7 DEF TypeOK, LoadFails
<1>8. CASE UNCHANGED vars
  BY <1>8 DEF TypeOK, vars, reader
<1> QED  BY <1>2, <1>3, <1>4, <1>5, <1>6, <1>7, <1>8 DEF Next

LEMMA BegunKept == ASSUME TypeOK, Begun, [Next]_vars PROVE Begun'
<1>1. Places
  BY RowsHavePlaces DEF TypeOK
<1>2. ASSUME NEW j \in Job, Change(j) PROVE Begun'
  BY <1>2 DEF Begun, Change, reader
<1>3. CASE Mount
  BY <1>1, <1>3, NextCursorType DEF Begun, Mount
<1>4. CASE LoadMore
  <2>1. PICK copies \in SUBSET (1 .. MaxLoads) : loads' = loads \cup {Sent(cursor, n) : n \in copies}
    BY <1>4 DEF LoadMore
  <2>2. \A n \in copies : Sent(cursor, n).cursor = cursor /\ Sent(cursor, n).at = "sent"
    BY <2>1, SentFacts DEF TypeOK
  <2>3. \A load \in loads' : /\ load.cursor # Start /\ load.cursor # End
                             /\ load.at = "read" => load.next # Start
    BY <1>4, <2>1, <2>2 DEF Begun, LoadMore
  <2> QED  BY <1>4, <2>3 DEF Begun, LoadMore
<1>5. ASSUME NEW load \in loads, ReadBatch(load) PROVE Begun'
  <2>1. /\ Answered(load).cursor = load.cursor /\ Answered(load).next # Start
        /\ loads' = (loads \ {load}) \cup {Answered(load)}
    BY <1>1, <1>5, AnsweredFacts, NextCursorType DEF TypeOK, ReadBatch, Answered
  <2> QED  BY <1>5, <2>1 DEF Begun, ReadBatch
<1>6. ASSUME NEW load \in loads, Deliver(load) PROVE Begun'
  BY <1>6 DEF Begun, Deliver
<1>7. ASSUME NEW load \in loads, LoadFails(load) PROVE Begun'
  BY <1>7 DEF Begun, LoadFails
<1>8. CASE UNCHANGED vars
  BY <1>8 DEF Begun, vars, reader
<1> QED  BY <1>2, <1>3, <1>4, <1>5, <1>6, <1>7, <1>8 DEF Next

LEMMA ReachedKept == ASSUME FeedInv, [Next]_vars PROVE Reached'
<1>1. /\ Places /\ steady \subseteq Job /\ loads \subseteq Load /\ cursor \in Cursor
      /\ \A load \in loads : load.cursor \in Cursor /\ load.items \subseteq Job
  BY RowsHavePlaces DEF FeedInv, TypeOK, Load
<1>2. UNCHANGED catalogue => \A j \in Job : At(j)' = At(j)
  BY DEF At
<1>3. ASSUME NEW j \in Job, Change(j) PROVE Reached'
  <2>1. \A i \in steady' : i # j /\ i \in steady
    BY <1>3 DEF Change, FeedInv, Begun
  <2>2. \A i \in steady' : catalogue'[i] = catalogue[i] /\ At(i)' = At(i)
    BY <1>1, <1>3, <2>1, ChangeKeepsPlaces DEF FeedInv
  <2> QED  BY <1>3, <2>1, <2>2 DEF FeedInv, Reached, Change, reader
<1>4. CASE Mount
  <2>1. ASSUME NEW j \in steady', Behind(At(j), NextCursor(Start)) PROVE j \in Batch(Start)
    <3>1. j \in Job /\ catalogue[j].listed /\ Start \in Cursor
      BY <1>4 DEF Mount, Cursor
    <3>2. ~Behind(At(j), Start)
      BY PositionIsNoMark DEF Behind
    <3> QED  BY <1>1, <2>1, <3>1, <3>2, BatchFillsTheGap
  <2>2. /\ loads' = {} /\ jobs' = Batch(Start) /\ cursor' = NextCursor(Start)
        /\ \A j \in steady' : catalogue'[j].listed /\ At(j)' = At(j)
    BY <1>2, <1>4 DEF Mount, FeedInv, Begun
  <2> QED  BY <2>1, <2>2 DEF Reached
<1>5. CASE LoadMore
  <2>1. PICK copies \in SUBSET (1 .. MaxLoads) : loads' = loads \cup {Sent(cursor, n) : n \in copies}
    BY <1>5 DEF LoadMore
  <2>2. \A n \in copies : Sent(cursor, n).cursor = cursor /\ Sent(cursor, n).at = "sent"
    BY <1>1, <2>1, SentFacts
  <2>3. ASSUME NEW load \in loads', NEW j \in steady
        PROVE  /\ Behind(At(j), load.cursor) => j \in jobs
               /\ load.at = "read" /\ Behind(At(j), load.next) => j \in jobs \cup load.items
    BY <1>5, <2>1, <2>2 DEF FeedInv, Reached, LoadMore
  <2>4. \A j \in steady : At(j)' = At(j)
    BY <1>1, <1>2, <1>5 DEF LoadMore
  <2> QED  BY <1>5, <2>3, <2>4 DEF FeedInv, Reached, LoadMore
<1>6. ASSUME NEW load \in loads, ReadBatch(load) PROVE Reached'
  <2> DEFINE new == Answered(load)
  <2>1. /\ new.cursor = load.cursor /\ new.items = Batch(load.cursor)
        /\ new.next = NextCursor(load.cursor) /\ loads' = (loads \ {load}) \cup {new}
    BY <1>1, <1>6, AnsweredFacts DEF ReadBatch, Answered
  <2> HIDE DEF new
  <2>2. ASSUME NEW j \in steady, Behind(At(j), new.next) PROVE j \in jobs \cup new.items
    <3>1. Behind(At(j), load.cursor) \/ j \in Batch(load.cursor)
      BY <1>1, <2>1, <2>2, BatchFillsTheGap DEF FeedInv, Reached
    <3> QED  BY <2>1, <3>1 DEF FeedInv, Reached
  <2>3. ASSUME NEW l \in loads', NEW j \in steady
        PROVE  /\ Behind(At(j), l.cursor) => j \in jobs
               /\ l.at = "read" /\ Behind(At(j), l.next) => j \in jobs \cup l.items
    BY <2>1, <2>2 DEF FeedInv, Reached
  <2>4. \A j \in steady : At(j)' = At(j)
    BY <1>1, <1>2, <1>6 DEF ReadBatch
  <2> QED  BY <1>6, <2>3, <2>4 DEF FeedInv, Reached, ReadBatch
<1>7. ASSUME NEW load \in loads, Deliver(load) PROVE Reached'
  <2>1. /\ jobs' = jobs \cup load.items /\ cursor' = load.next /\ load.at = "read"
        /\ loads' \subseteq loads
    BY <1>7 DEF Deliver, Listed
  <2>2. \A j \in steady : At(j)' = At(j)
    BY <1>1, <1>2, <1>7 DEF Deliver
  <2>3. ASSUME NEW l \in loads', NEW j \in steady
        PROVE  /\ Behind(At(j), l.cursor) => j \in jobs'
               /\ l.at = "read" /\ Behind(At(j), l.next) => j \in jobs' \cup l.items
    BY <2>1 DEF FeedInv, Reached
  <2>4. \A j \in steady : Behind(At(j), cursor') => j \in jobs'
    BY <2>1 DEF FeedInv, Reached
  <2> QED  BY <1>7, <2>2, <2>3, <2>4 DEF FeedInv, Reached, Deliver
<1>8. ASSUME NEW load \in loads, LoadFails(load) PROVE Reached'
  <2>1. \A j \in steady : At(j)' = At(j)
    BY <1>1, <1>2, <1>8 DEF LoadFails
  <2> QED  BY <1>8, <2>1 DEF FeedInv, Reached, LoadFails
<1>9. CASE UNCHANGED vars
  <2>1. \A j \in steady : At(j)' = At(j)
    BY <1>1, <1>2, <1>9 DEF vars
  <2> QED  BY <1>9, <2>1 DEF FeedInv, Reached, vars, reader
<1> QED  BY <1>3, <1>4, <1>5, <1>6, <1>7, <1>8, <1>9 DEF Next, FeedInv

\* The rows, the list, the cursors and the loads keep their types.
THEOREM FeedTypes == Spec => []TypeOK
<1>1. Init => TypeOK
  BY InitTypes
<1>2. TypeOK /\ [Next]_vars => TypeOK'
  BY TypesKept
<1> QED  BY <1>1, <1>2, PTL DEF Spec

\* A list that says it is complete has every job that kept its place since the first batch,
\* for every page size, however many loads are under way and whatever becomes of the rest.
THEOREM CompleteListHasAll == Spec => []NoneSkipped
<1>1. Init => FeedInv
  BY InitTypes DEF Init, FeedInv, Begun, Reached
<1>2. FeedInv /\ [Next]_vars => FeedInv'
  BY TypesKept, BegunKept, ReachedKept DEF FeedInv
<1>3. FeedInv => NoneSkipped
  BY DEF FeedInv, Reached, NoneSkipped, Behind
<1> QED  BY <1>1, <1>2, <1>3, PTL DEF Spec

LEMMA ServedKept == ASSUME ServedInv, [Next]_vars PROVE Served'
<1>1. /\ Places /\ loads \subseteq Load /\ jobs \subseteq Job /\ moved \subseteq Job /\ cursor \in Cursor
      /\ \A load \in loads : load.cursor \in Cursor /\ load.items \subseteq Job
  BY RowsHavePlaces DEF ServedInv, TypeOK, Load
<1>2. UNCHANGED catalogue => \A j \in Job : At(j)' = At(j)
  BY DEF At
<1>3. ASSUME NEW j \in Job, Change(j) PROVE Served'
  <2>1. CASE ~mounted
    BY <1>3, <2>1 DEF ServedInv, Begun, Served, Change, reader
  <2>2. CASE mounted
    <3>1. moved \subseteq moved' /\ (moved = Job => moved' = Job)
      BY <1>1, <1>3, <2>2 DEF Change
    <3>2. \A i \in Job \ moved' : At(i)' = At(i)
      <4>1. \A i \in Job \ moved' : i # j \/ catalogue'[j].date = catalogue[j].date
        <5>1. PICK row \in Row : /\ catalogue' = [catalogue EXCEPT ![j] = row]
                                 /\ moved' = IF row.date # catalogue[j].date THEN moved \cup {j}
                                             ELSE moved
          BY <1>3, <2>2 DEF Change
        <5>2. catalogue'[j] = row
          BY <5>1 DEF ServedInv, TypeOK
        <5> QED  BY <5>1, <5>2
      <4> QED  BY <1>3, <4>1, ChangeKeepsPlaces DEF ServedInv
    <3>3. UNCHANGED <<mounted, jobs, cursor, loading, loads>>
      BY <1>3 DEF Change, reader
    <3>4. mounted => \A i \in jobs \ moved' : Behind(At(i)', cursor)
      BY <1>1, <3>1, <3>2 DEF ServedInv, Served
    <3>5. \A load \in loads : \A i \in jobs \ moved' :
            /\ Behind(At(i)', load.cursor)
            /\ load.at = "read" => Behind(At(i)', load.next)
      BY <1>1, <3>1, <3>2 DEF ServedInv, Served
    <3>6. \A load \in loads : load.at = "read" =>
            /\ load.items \cap jobs \subseteq moved'
            /\ \A i \in load.items \ moved' : Behind(At(i)', load.next)
      BY <1>1, <3>1, <3>2 DEF ServedInv, Served
    <3> QED  BY <3>1, <3>3, <3>4, <3>5, <3>6 DEF ServedInv, Served
  <2> QED  BY <2>1, <2>2
<1>4. CASE Mount
  <2>1. /\ loads = {} /\ loads' = {} /\ jobs' = Batch(Start) /\ cursor' = NextCursor(Start)
        /\ \A j \in Job : At(j)' = At(j)
    BY <1>2, <1>4 DEF Mount, ServedInv, Begun
  <2>2. \A j \in Batch(Start) : j \in Job /\ Behind(At(j), NextCursor(Start))
    BY <1>1, NextPassesMore, NextCursorType, PositionIsNoMark DEF Cursor
  <2> QED  BY <2>1, <2>2 DEF Served
<1>5. CASE LoadMore
  <2>1. PICK copies \in SUBSET (1 .. MaxLoads) :
          /\ loads' = loads \cup {Sent(cursor, n) : n \in copies}
          /\ moved' = IF \E n, m \in copies : n # m THEN Job ELSE moved
    BY <1>5 DEF LoadMore
  <2>2. \A n \in copies : Sent(cursor, n).cursor = cursor /\ Sent(cursor, n).at = "sent"
    BY <1>1, <2>1, SentFacts
  <2>3. /\ mounted /\ ~loading /\ loading' /\ moved \subseteq moved'
        /\ UNCHANGED <<mounted, jobs, cursor>>
        /\ \A j \in Job : At(j)' = At(j)
    BY <1>1, <1>2, <1>5, <2>1 DEF LoadMore
  <2>4. ASSUME NEW load \in loads', NEW j \in jobs \ moved'
        PROVE  Behind(At(j), load.cursor) /\ (load.at = "read" => Behind(At(j), load.next))
    BY <2>1, <2>2, <2>3 DEF ServedInv, Served
  <2>5. ASSUME NEW load \in loads', load.at = "read"
        PROVE  /\ load.items \cap jobs \subseteq moved'
               /\ \A j \in load.items \ moved' : j \in Job /\ Behind(At(j), load.next)
    BY <1>1, <2>1, <2>2, <2>3, <2>5 DEF ServedInv, Served
  <2>6. moved' = Job \/ \A l, m \in loads' : l = m
    <3>1. CASE moved' # Job
      <4>1. moved # Job /\ loads = {} /\ \A n, m \in copies : n = m
        BY <1>1, <2>1, <2>3, <3>1 DEF ServedInv, Served
      <4> QED  BY <2>1, <4>1
    <3> QED  BY <3>1
  <2> QED  BY <1>1, <2>3, <2>4, <2>5, <2>6 DEF ServedInv, Served
<1>6. ASSUME NEW load \in loads, ReadBatch(load) PROVE Served'
  <2> DEFINE new == Answered(load)
  <2>1. /\ new.cursor = load.cursor /\ new.items = Batch(load.cursor)
        /\ new.next = NextCursor(load.cursor) /\ loads' = (loads \ {load}) \cup {new}
        /\ load.cursor # Start /\ load.cursor # End
    BY <1>1, <1>6, AnsweredFacts DEF ReadBatch, Answered, ServedInv, Begun
  <2> HIDE DEF new
  <2>2. UNCHANGED <<mounted, jobs, cursor, loading, moved>> /\ \A j \in Job : At(j)' = At(j)
    BY <1>2, <1>6 DEF ReadBatch
  <2>3. new.items \cap jobs \subseteq moved
    <3>1. ASSUME NEW j \in Job, j \in Batch(load.cursor) PROVE ~Behind(At(j), load.cursor)
      BY <2>1, <3>1, RestIsFinite DEF Behind, Rest
    <3> QED  BY <1>1, <2>1, <3>1 DEF ServedInv, Served
  <2>4. ASSUME NEW j \in Job, j \in new.items \/ j \in jobs \ moved PROVE Behind(At(j), new.next)
    BY <1>1, <2>1, <2>4, NextPassesMore DEF ServedInv, Served
  <2>5. new.items \subseteq Job
    BY <1>1, <2>1, NextCursorType
  <2>6. ASSUME NEW l \in loads', NEW j \in jobs \ moved
        PROVE  Behind(At(j), l.cursor) /\ (l.at = "read" => Behind(At(j), l.next))
    BY <1>1, <2>1, <2>4 DEF ServedInv, Served
  <2>7. ASSUME NEW l \in loads', l.at = "read"
        PROVE  /\ l.items \cap jobs \subseteq moved
               /\ \A j \in l.items \ moved : j \in Job /\ Behind(At(j), l.next)
    BY <1>1, <2>1, <2>3, <2>4, <2>5, <2>7 DEF ServedInv, Served
  <2>8. moved = Job \/ (loading /\ \A l, m \in loads' : l = m)
    BY <2>1 DEF ServedInv, Served
  <2> QED  BY <1>1, <2>2, <2>6, <2>7, <2>8 DEF ServedInv, Served
<1>7. ASSUME NEW load \in loads, Deliver(load) PROVE Served'
  <2>1. /\ jobs' = jobs \cup load.items /\ cursor' = load.next /\ load.at = "read"
        /\ loads' = loads \ {load} /\ UNCHANGED moved /\ \A j \in Job : At(j)' = At(j)
    BY <1>2, <1>7 DEF Deliver, Listed
  <2>2. \A j \in jobs' \ moved : j \in Job /\ Behind(At(j), cursor')
    BY <1>1, <2>1 DEF ServedInv, Served
  <2>3. CASE moved = Job
    BY <1>1, <2>1, <2>2, <2>3 DEF ServedInv, Served
  <2>4. CASE moved # Job
    <3>1. loads' = {}
      BY <2>1, <2>4 DEF ServedInv, Served
    <3> QED  BY <2>1, <2>2, <3>1 DEF Served
  <2> QED  BY <2>3, <2>4
<1>8. ASSUME NEW load \in loads, LoadFails(load) PROVE Served'
  <2>1. loads' = loads \ {load} /\ UNCHANGED <<mounted, jobs, cursor, moved>>
        /\ \A j \in Job : At(j)' = At(j)
    BY <1>2, <1>8 DEF LoadFails
  <2>2. moved = Job \/ loads' = {}
    BY <2>1 DEF ServedInv, Served
  <2> QED  BY <1>1, <2>1, <2>2 DEF ServedInv, Served
<1>9. CASE UNCHANGED vars
  <2>1. \A j \in Job : At(j)' = At(j)
    BY <1>2, <1>9 DEF vars
  <2> QED  BY <1>1, <1>9, <2>1 DEF ServedInv, Served, vars, reader
<1> QED  BY <1>3, <1>4, <1>5, <1>6, <1>7, <1>8, <1>9 DEF Next, ServedInv

\* A job comes in an answer a second time only if its date changed or a load was sent twice.
THEOREM NothingServedTwice == Spec => []ServedOnce
<1>1. Init => ServedInv
  BY InitTypes DEF Init, ServedInv, Begun, Served
<1>2. ServedInv /\ [Next]_vars => ServedInv'
  BY TypesKept, BegunKept, ServedKept DEF ServedInv
<1>3. ServedInv => ServedOnce
  BY DEF ServedInv, Served, ServedOnce
<1> QED  BY <1>1, <1>2, <1>3, PTL DEF Spec

===============================================================================
