---------------------------- MODULE AccountsProofs ----------------------------
(***************************************************************************)
(* What holds of accounts, sessions and the throttle for any number of     *)
(* addresses, requests, accounts and tokens, any limit, window and         *)
(* capacity.                                                               *)
(***************************************************************************)
EXTENDS Accounts, FiniteSetTheorems, WellFoundedInduction, TLAPS

LEMMA KeyFinite == IsFiniteSet(Key)
BY ThrottleAssumption

LEMMA KeysOfAddress ==
  /\ \A a \in Address : Login(a) \in Key /\ Registration(a) \in Key
  /\ \A k \in Key : \E a \in Address : k = Login(a) \/ k = Registration(a)
BY AccountsAssumption DEF Login, Registration

LEMMA KeysApart ==
  ASSUME NEW a, NEW b
  PROVE  /\ Login(a) # Registration(b)
         /\ Login(a) = Login(b) => a = b
         /\ Login(a)[1] = "sessions" /\ Registration(a)[1] = "accounts"
BY DEF Login, Registration

-----------------------------------------------------------------------------
(* The dictionary of windows and its order.                                *)

WindowState == [started : 0 .. MaxNow, attempts : Nat, since : SUBSET Key]

\* `since` is the order of a dictionary: the keys after a key.
Ordered(ws) ==
  /\ ws \in [Key -> WindowState]
  /\ \A k \in Key :
       /\ k \notin Kept(ws) => ws[k].since = {}
       /\ ws[k].since \subseteq Kept(ws) \ {k}
       /\ \A j \in ws[k].since : ws[j].since \subseteq ws[k].since
  /\ \A j, k \in Kept(ws) : j = k \/ j \in ws[k].since \/ k \in ws[j].since

Small(ws) == \A k \in Key : Cardinality(ws[k].since) < Capacity

LEMMA SinceFinite ==
  ASSUME NEW S \in SUBSET Key
  PROVE  /\ IsFiniteSet(S) /\ Cardinality(S) \in Nat
         /\ \A T \in SUBSET S : Cardinality(T) \in Nat /\ Cardinality(T) <= Cardinality(S)
BY KeyFinite, FS_Subset, FS_CardinalityType

LEMMA EmptyWindows == Ordered(Empty) /\ Small(Empty)
<1>1. 0 \in 0 .. MaxNow /\ Capacity \in Nat \ {0}
  BY AccountsAssumption, ThrottleAssumption
<1>2. \A k \in Key : Empty[k] = [started |-> 0, attempts |-> 0, since |-> {}]
  BY DEF Empty, NoWindow
<1>3. Kept(Empty) = {}
  BY <1>2 DEF Kept
<1>4. Empty \in [Key -> WindowState]
  BY <1>1 DEF Empty, NoWindow, WindowState
<1> QED BY <1>1, <1>2, <1>3, <1>4, FS_EmptySet DEF Ordered, Small

\* What a key leaving the dictionary leaves of the others.
LEMMA DropFacts ==
  ASSUME NEW ws, Ordered(ws), NEW gone \in SUBSET Key
  PROVE  /\ Ordered(Drop(ws, gone)) /\ Kept(Drop(ws, gone)) = Kept(ws) \ gone
         /\ \A k \in Key :
              IF k \in gone THEN Drop(ws, gone)[k] = NoWindow
              ELSE /\ Drop(ws, gone)[k].started = ws[k].started
                   /\ Drop(ws, gone)[k].attempts = ws[k].attempts
                   /\ Drop(ws, gone)[k].since = ws[k].since \ gone
<1> DEFINE D == Drop(ws, gone)
<1>1. \A k \in Key : ws[k] \in WindowState
  BY DEF Ordered
<1>2. \A k \in Key : D[k] = IF k \in gone THEN NoWindow ELSE [ws[k] EXCEPT !.since = @ \ gone]
  BY DEF Drop
<1>3. NoWindow \in WindowState /\ NoWindow.attempts = 0 /\ NoWindow.since = {}
  BY AccountsAssumption DEF NoWindow, WindowState
<1>4. ASSUME NEW k \in Key
      PROVE  /\ D[k] \in WindowState
             /\ k \in gone => D[k] = NoWindow
             /\ k \notin gone => /\ D[k].started = ws[k].started
                                 /\ D[k].attempts = ws[k].attempts
                                 /\ D[k].since = ws[k].since \ gone
  <2>1. ws[k] \in WindowState /\ D[k] = IF k \in gone THEN NoWindow ELSE [ws[k] EXCEPT !.since = @ \ gone]
    BY <1>1, <1>2
  <2> HIDE DEF D
  <2>2. CASE k \in gone
    BY <1>3, <2>1, <2>2
  <2>3. CASE k \notin gone
    BY <2>1, <2>3 DEF WindowState
  <2> QED BY <2>2, <2>3
<1>5. D \in [Key -> WindowState]
  BY <1>4 DEF Drop
<1>6. Kept(D) = Kept(ws) \ gone
  BY <1>3, <1>4 DEF Kept
<1> HIDE DEF D
<1>7. Ordered(D)
  <2>1. ASSUME NEW k \in Key
        PROVE  /\ k \notin Kept(D) => D[k].since = {}
               /\ D[k].since \subseteq Kept(D) \ {k}
               /\ \A j \in D[k].since : D[j].since \subseteq D[k].since
    BY <1>3, <1>4, <1>6 DEF Ordered, Kept
  <2>2. \A j, k \in Kept(D) : j = k \/ j \in D[k].since \/ k \in D[j].since
    BY <1>4, <1>6 DEF Ordered, Kept
  <2> QED BY <1>5, <2>1, <2>2 DEF Ordered
<1> QED BY <1>4, <1>6, <1>7 DEF D

\* The dictionary holds no more keys than its capacity: the one that comes first in the order
\* has all the others after it.
LEMMA LeastOf ==
  ASSUME NEW S \in SUBSET Nat, S # {}
  PROVE  \E n \in S : \A m \in S : n <= m
<1>1. PICK n \in S : \A m \in S : <<m, n>> \notin OpToRel(<, Nat)
  BY NatLessThanWellFounded, WFMin, Zenon
<1>2. \A m \in S : ~(m < n)
  BY <1>1 DEF OpToRel
<1> QED  BY <1>2

LEMMA KeptFits ==
  ASSUME NEW ws, Ordered(ws), Small(ws)
  PROVE  Cardinality(Kept(ws)) <= Capacity
<1>1. Capacity \in Nat \ {0}
  BY ThrottleAssumption
<1>2. Kept(ws) \in SUBSET Key /\ \A k \in Key : ws[k].since \in SUBSET Key
  BY DEF Kept, Ordered, WindowState
<1>3. CASE Kept(ws) = {}
  BY <1>1, <1>3, FS_EmptySet
<1>4. CASE Kept(ws) # {}
  <2> DEFINE After(k) == Cardinality(ws[k].since)
             Left == {Capacity - After(k) : k \in Kept(ws)}
  <2>1. \A k \in Kept(ws) : After(k) \in Nat /\ After(k) < Capacity
    BY <1>2, SinceFinite DEF Small
  <2>2. Left \in SUBSET Nat /\ Left # {}
    BY <1>1, <1>4, <2>1
  <2>3. PICK n \in Left : \A m \in Left : n <= m
    BY <2>2, LeastOf
  <2>4. PICK first \in Kept(ws) : n = Capacity - After(first)
    BY <2>3
  <2>5. ASSUME NEW j \in Kept(ws) PROVE After(j) <= After(first)
    <3>1. n <= Capacity - After(j)
      BY <2>3
    <3> HIDE DEF After
    <3> QED BY <1>1, <2>1, <2>4, <3>1
  <2>6. ASSUME NEW j \in Kept(ws), j # first, j \notin ws[first].since PROVE FALSE
    <3>1. first \in ws[j].since
      BY <2>6 DEF Ordered
    <3>2. ws[first].since \subseteq ws[j].since /\ first \notin ws[first].since
      BY <1>2, <3>1 DEF Ordered, Kept
    <3>3. Cardinality(ws[first].since \cup {first}) = After(first) + 1
      BY <1>2, <3>2, SinceFinite, FS_AddElement
    <3>4. Cardinality(ws[first].since \cup {first}) <= After(j)
      BY <1>2, <3>1, <3>2, SinceFinite
    <3> QED BY <2>1, <2>5, <3>3, <3>4
  <2>7. Kept(ws) = ws[first].since \cup {first} /\ first \notin ws[first].since
    BY <1>2, <2>6 DEF Ordered
  <2>8. Cardinality(Kept(ws)) = After(first) + 1
    BY <1>2, <2>7, SinceFinite, FS_AddElement
  <2> QED BY <1>1, <2>1, <2>8
<1> QED BY <1>3, <1>4

\* Asking deletes an expired window; a caller who is not refused has an attempt left.
LEMMA AskedFacts ==
  ASSUME NEW ws, Ordered(ws), NEW k \in Key, NEW t \in 0 .. MaxNow
  PROVE  /\ Ordered(Asked(ws, k, t)) /\ (Small(ws) => Small(Asked(ws, k, t)))
         /\ \A j \in Key : /\ Asked(ws, k, t)[j].attempts <= ws[j].attempts
                           /\ Asked(ws, k, t)[j].since \subseteq ws[j].since
                           /\ \/ Asked(ws, k, t)[j].started = ws[j].started
                                   /\ Asked(ws, k, t)[j].attempts = ws[j].attempts
                              \/ j = k /\ Expired(ws, k, t)
         /\ ~Exhausted(ws, k, t) => Asked(ws, k, t)[k].attempts < Attempts
         /\ ~Expired(Asked(ws, k, t), k, t)
<1>1. Attempts \in Nat \ {0} /\ \A j \in Key : ws[j].attempts \in Nat /\ ws[j].since \in SUBSET Key
  BY ThrottleAssumption DEF Ordered, WindowState
<1>2. CASE ~Expired(ws, k, t)
  <2>1. Asked(ws, k, t) = ws
    BY <1>2 DEF Asked
  <2>2. ~Exhausted(ws, k, t) => ws[k].attempts < Attempts
    BY <1>1, <1>2 DEF Exhausted, Kept
  <2> QED BY <1>1, <1>2, <2>1, <2>2
<1>3. CASE Expired(ws, k, t)
  <2> DEFINE D == Drop(ws, {k})
  <2>1. Asked(ws, k, t) = D
    BY <1>3 DEF Asked
  <2>2. /\ Ordered(D) /\ Kept(D) = Kept(ws) \ {k} /\ D[k] = NoWindow
        /\ \A j \in Key \ {k} : /\ D[j].started = ws[j].started
                                /\ D[j].attempts = ws[j].attempts
                                /\ D[j].since = ws[j].since \ {k}
    BY DropFacts
  <2> HIDE DEF D
  <2>3. D[k].attempts = 0 /\ D[k].since = {}
    BY <2>2 DEF NoWindow
  <2>4. Small(ws) => Small(D)
    <3> SUFFICES ASSUME Small(ws), NEW j \in Key PROVE Cardinality(D[j].since) < Capacity
      BY DEF Small
    <3>1. D[j].since \subseteq ws[j].since
      BY <2>2, <2>3
    <3>2. /\ Cardinality(D[j].since) <= Cardinality(ws[j].since)
          /\ Cardinality(D[j].since) \in Nat /\ Cardinality(ws[j].since) \in Nat
      BY <1>1, <3>1, SinceFinite
    <3> QED BY <3>2, ThrottleAssumption DEF Small
  <2>5. ~Expired(D, k, t)
    BY <2>2 DEF Expired
  <2> QED BY <1>1, <1>3, <2>1, <2>2, <2>3, <2>4, <2>5
<1> QED BY <1>2, <1>3

\* An attempt is counted at the end of the order; keys with Capacity keys after them leave.
LEMMA RecordFacts ==
  ASSUME NEW ws, Ordered(ws), NEW k \in Key, NEW t \in 0 .. MaxNow
  PROVE  /\ Ordered(Record(ws, k, t)) /\ Small(Record(ws, k, t))
         /\ Record(ws, k, t)[k] = Counted(ws, k, t)
         /\ \A j \in Key \ {k} :
              \/ /\ Record(ws, k, t)[j].started = ws[j].started
                 /\ Record(ws, k, t)[j].attempts = ws[j].attempts
                 /\ Record(ws, k, t)[j].since \subseteq ws[j].since \cup {k}
              \/ /\ Record(ws, k, t)[j] = NoWindow
                 /\ Cardinality(ws[j].since \cup {k}) >= Capacity
<1> DEFINE c == [j \in Key |->
                   IF j = k THEN Counted(ws, k, t)
                   ELSE IF j \in Kept(ws) THEN [ws[j] EXCEPT !.since = @ \cup {k}]
                   ELSE ws[j]]
           gone == {j \in Kept(c) : Cardinality(c[j].since) >= Capacity}
           R == Drop(c, gone)
<1>1. Record(ws, k, t) = R
  BY DEF Record
<1>2. /\ \A j \in Key : /\ ws[j] \in WindowState /\ ws[j].since \in SUBSET Key
                        /\ ws[j].attempts \in Nat
      /\ Capacity \in Nat \ {0}
  BY ThrottleAssumption DEF Ordered, WindowState
<1>3. c[k] = Counted(ws, k, t) /\ c[k] \in WindowState /\ c[k].attempts > 0 /\ c[k].since = {}
  <2>1. c[k] = Counted(ws, k, t)
    OBVIOUS
  <2>2. /\ Counted(ws, k, t) \in WindowState /\ Counted(ws, k, t).attempts > 0
        /\ Counted(ws, k, t).since = {}
    <3> HIDE DEF c
    <3>1. ws[k] \in WindowState /\ {} \in SUBSET Key /\ 1 \in Nat
      BY <1>2
    <3>2. CASE k \notin Kept(ws) \/ Expired(ws, k, t)
      BY <3>1, <3>2 DEF Counted, WindowState
    <3>3. CASE ~(k \notin Kept(ws) \/ Expired(ws, k, t))
      <4>1. Counted(ws, k, t) = [ws[k] EXCEPT !.attempts = ws[k].attempts + 1, !.since = {}]
        BY <3>3 DEF Counted
      <4>2. ws[k].attempts + 1 \in Nat /\ ws[k].attempts + 1 > 0
        BY <1>2
      <4> QED BY <3>1, <4>1, <4>2 DEF WindowState
    <3> QED BY <3>2, <3>3
  <2> QED BY <2>1, <2>2
<1>4. ASSUME NEW j \in Key, j # k
      PROVE  /\ c[j] \in WindowState /\ c[j].started = ws[j].started
             /\ c[j].attempts = ws[j].attempts
             /\ c[j].since = IF j \in Kept(ws) THEN ws[j].since \cup {k} ELSE ws[j].since
  <2>1. c[j] = IF j \in Kept(ws) THEN [ws[j] EXCEPT !.since = @ \cup {k}] ELSE ws[j]
    BY <1>4
  <2> HIDE DEF c
  <2> QED BY <1>2, <2>1 DEF WindowState
<1>5. c \in [Key -> WindowState]
  <2>1. \A j \in Key : c[j] \in WindowState
    BY <1>3, <1>4
  <2>2. c = [j \in Key |-> c[j]]
    OBVIOUS
  <2> HIDE DEF c
  <2> QED BY <2>1, <2>2
<1> HIDE DEF c
<1>6. Kept(c) = Kept(ws) \cup {k}
  BY <1>3, <1>4 DEF Kept
<1>7. Ordered(c)
  <2>1. ASSUME NEW j \in Key
        PROVE  /\ j \notin Kept(c) => c[j].since = {}
               /\ c[j].since \subseteq Kept(c) \ {j}
               /\ \A i \in c[j].since : c[i].since \subseteq c[j].since
    <3>1. CASE j = k
      BY <1>3, <1>6, <3>1
    <3>2. CASE j # k /\ j \notin Kept(ws)
      BY <1>4, <1>6, <3>2 DEF Ordered
    <3>3. CASE j # k /\ j \in Kept(ws)
      <4>1. c[j].since = ws[j].since \cup {k} /\ ws[j].since \subseteq Kept(ws) \ {j}
        BY <1>4, <3>3 DEF Ordered
      <4>2. ASSUME NEW i \in ws[j].since, i # k PROVE c[i].since \subseteq c[j].since
        <5>1. i \in Key /\ i \in Kept(ws) /\ ws[i].since \subseteq ws[j].since
          BY <4>1 DEF Ordered, Kept
        <5>2. c[i].since = ws[i].since \cup {k}
          BY <1>4, <4>2, <5>1
        <5> QED BY <4>1, <5>1, <5>2
      <4> QED BY <1>3, <1>6, <3>3, <4>1, <4>2
    <3> QED BY <3>1, <3>2, <3>3
  <2>2. ASSUME NEW i \in Kept(c), NEW j \in Kept(c)
        PROVE  i = j \/ i \in c[j].since \/ j \in c[i].since
    <3>1. i \in Key /\ j \in Key /\ i \in Kept(ws) \cup {k} /\ j \in Kept(ws) \cup {k}
      BY <1>6 DEF Kept
    <3>2. CASE i = k
      BY <1>4, <3>1, <3>2
    <3>3. CASE j = k
      BY <1>4, <3>1, <3>3
    <3>4. CASE i # k /\ j # k
      <4>1. i \in Kept(ws) /\ j \in Kept(ws)
        BY <3>1, <3>4
      <4>2. i = j \/ i \in ws[j].since \/ j \in ws[i].since
        BY <4>1 DEF Ordered
      <4>3. c[i].since = ws[i].since \cup {k} /\ c[j].since = ws[j].since \cup {k}
        BY <1>4, <3>1, <3>4, <4>1
      <4> QED BY <4>2, <4>3
    <3> QED BY <3>2, <3>3, <3>4
  <2> QED BY <1>5, <2>1, <2>2 DEF Ordered
<1>8. gone \in SUBSET Key
  BY DEF Kept
<1>9. /\ Ordered(R) /\ Kept(R) = Kept(c) \ gone
      /\ \A j \in Key :
           IF j \in gone THEN R[j] = NoWindow
           ELSE /\ R[j].started = c[j].started
                /\ R[j].attempts = c[j].attempts
                /\ R[j].since = c[j].since \ gone
  BY <1>7, <1>8, DropFacts
<1>10. k \notin gone /\ R[k] = c[k]
  <2>1. Cardinality(c[k].since) = 0
    BY <1>3, FS_EmptySet
  <2>2. k \notin gone
    BY <1>2, <2>1
  <2>3. R[k].started = c[k].started /\ R[k].attempts = c[k].attempts /\ R[k].since = c[k].since
    BY <1>3, <1>9, <2>2
  <2>4. R[k] \in WindowState
    BY <1>9 DEF Ordered
  <2> HIDE DEF R, gone
  <2> QED BY <1>3, <2>2, <2>3, <2>4 DEF WindowState
<1>11. ASSUME NEW j \in Key, j # k
       PROVE  \/ /\ R[j].started = ws[j].started
                 /\ R[j].attempts = ws[j].attempts
                 /\ R[j].since \subseteq ws[j].since \cup {k}
              \/ /\ R[j] = NoWindow
                 /\ Cardinality(ws[j].since \cup {k}) >= Capacity
  <2>1. CASE j \in gone
    <3>1. j \in Kept(ws) /\ Cardinality(c[j].since) >= Capacity
      BY <1>6, <1>11, <2>1
    <3> QED BY <1>4, <1>9, <1>11, <2>1, <3>1
  <2>2. CASE j \notin gone
    <3> HIDE DEF gone, R
    <3> QED BY <1>4, <1>9, <1>11, <2>2
  <2> QED BY <2>1, <2>2
<1>12. ASSUME NEW j \in Key PROVE Cardinality(R[j].since) < Capacity
  <2>1. CASE j \in Kept(c) /\ j \notin gone
    <3>1. c[j].since \in SUBSET Key /\ R[j].since \subseteq c[j].since
      BY <1>5, <1>9, <2>1 DEF WindowState
    <3>2. /\ Cardinality(R[j].since) <= Cardinality(c[j].since)
          /\ Cardinality(R[j].since) \in Nat /\ Cardinality(c[j].since) \in Nat
      BY <3>1, SinceFinite
    <3>3. ~(Cardinality(c[j].since) >= Capacity)
      BY <2>1
    <3> QED BY <1>2, <3>2, <3>3
  <2>2. CASE j \notin Kept(c) \/ j \in gone
    <3>1. j \notin Kept(R)
      BY <1>9, <2>2
    <3>2. R[j].since = {}
      BY <1>9, <3>1 DEF Ordered
    <3>3. Cardinality(R[j].since) = 0
      BY <3>2, FS_EmptySet, Zenon
    <3> HIDE DEF R
    <3> QED BY <1>2, <3>3
  <2> QED BY <2>1, <2>2
<1> HIDE DEF R, gone
<1> QED BY <1>1, <1>3, <1>9, <1>10, <1>11, <1>12 DEF Small

-----------------------------------------------------------------------------
(* How a step changes the throttle.                                        *)

Typed ==
  /\ user \subseteq User /\ created \in 0 .. MaxAccount /\ token \subseteq Token
  /\ request \in [Slot -> Request]
  /\ overran \subseteq AccountId /\ now \in 0 .. MaxNow /\ others \subseteq Key \ {Watched}

InHand == [at : Stage, address : Address, row : SUBSET User, ended : BOOLEAN]

LEMMA IdleApart == Idle \notin InHand
<1>1. Idle.at = "idle" /\ \A h \in InHand : h.at \in Stage
  BY DEF Idle, InHand
<1> QED BY <1>1 DEF Stage

LEMMA BusyAt ==
  ASSUME Typed, NEW s \in Slot, request[s].at # "idle"
  PROVE  request[s] \in InHand /\ request[s] # Idle
BY DEF Typed, Request, InHand, Idle

\* The steps of one request, and those of nobody's.
Serves(s) ==
  \/ Proceed(s)
  \/ \E address \in Address : CreateAccount(s, address) \/ LogIn(s, address)
  \/ \E stage \in {"change_gate", "delete_gate", "end"} : SignedIn(s, stage)

LEMMA NextIs ==
  ASSUME [Next]_vars
  PROVE  \/ \E s \in Slot : Serves(s)
         \/ Tick \/ (\E t \in token : Forget(t)) \/ (\E u \in user : Disable(u)) \/ UNCHANGED vars
BY DEF Next, Serves

RecordsAsked(k) ==
  windows' = Record(Asked(windows, k, now), k, now) /\ others' = WatchedAfter(k)

LEMMA ThrottleAfter ==
  ASSUME Typed, [Next]_vars
  PROVE  \/ UNCHANGED <<windows, others>> /\ (now' = now \/ Tick)
         \/ now' = now /\ \E k \in Key : Asks(k) \/ Records(k) \/ RecordsAsked(k)
<1>1. ASSUME NEW s \in Slot, Serves(s)
      PROVE  \/ UNCHANGED <<windows, others>> /\ now' = now
             \/ now' = now /\ \E k \in Key : Asks(k) \/ Records(k) \/ RecordsAsked(k)
  <2>1. ASSUME NEW a \in Address, CreateAccount(s, a) \/ LogIn(s, a)
        PROVE  now' = now /\ \E k \in Key : Asks(k) \/ RecordsAsked(k)
    BY <2>1, KeysOfAddress DEF CreateAccount, LogIn, RecordsAsked
  <2>2. CASE NotAuthenticated(s) \/ PasswordNotConfirmed(s)
    <3>1. request[s].at # "idle"
      BY <2>2 DEF NotAuthenticated, PasswordNotConfirmed, At
    <3>2. Login(request[s].address) \in Key
      BY <3>1, BusyAt, KeysOfAddress DEF InHand
    <3> QED BY <2>2, <3>2 DEF NotAuthenticated, PasswordNotConfirmed
  <2>3. CASE Gate(s)
    <3>1. request[s].at # "idle"
      BY <2>3 DEF Gate, At
    <3>2. Login(request[s].address) \in Key
      BY <3>1, BusyAt, KeysOfAddress DEF InHand
    <3> QED BY <2>3, <3>2 DEF Gate
  <2>4. CASE \/ Register(s) \/ Insert(s) \/ LookUp(s) \/ Authenticated(s) \/ ChangePassword(s)
             \/ DeleteAccount(s) \/ EndAllSessions(s)
             \/ \E stage \in {"change_gate", "delete_gate", "end"} : SignedIn(s, stage)
    BY <2>4 DEF Register, Insert, LookUp, Authenticated, ChangePassword, DeleteAccount,
                EndAllSessions, SignedIn, Fails, throttle
  <2> QED BY <1>1, <2>1, <2>2, <2>3, <2>4 DEF Serves, Proceed
<1>2. ASSUME \/ Tick \/ (\E t \in token : Forget(t)) \/ (\E u \in user : Disable(u))
             \/ UNCHANGED vars
      PROVE  UNCHANGED <<windows, others>> /\ (now' = now \/ Tick)
  BY <1>2 DEF Tick, Forget, Disable, throttle, vars
<1> QED BY <1>1, <1>2, NextIs

\* Every key after the watched one was recorded since.
ThrottleInv == Ordered(windows) /\ Small(windows) /\ windows[Watched].since \subseteq others

LEMMA ThrottleInvStep == Typed /\ ThrottleInv /\ [Next]_vars => ThrottleInv'
<1> SUFFICES ASSUME Typed, ThrottleInv, [Next]_vars PROVE ThrottleInv'
  OBVIOUS
<1> USE DEF ThrottleInv
<1>1. now \in 0 .. MaxNow /\ Watched \in Key
  BY AccountsAssumption DEF Typed
<1>2. CASE UNCHANGED <<windows, others>>
  BY <1>2 DEF Ordered, Small, Kept
<1>3. ASSUME NEW k \in Key, NEW ws, Ordered(ws), ws[Watched].since \subseteq others,
             windows' = Record(ws, k, now), others' = WatchedAfter(k)
      PROVE  ThrottleInv'
  <2>1. Ordered(windows') /\ Small(windows')
    BY <1>1, <1>3, RecordFacts
  <2>2. windows'[Watched].since \subseteq others'
    <3>1. CASE k = Watched
      <4>1. windows'[Watched] = Counted(ws, Watched, now)
        BY <1>1, <1>3, <3>1, RecordFacts
      <4>2. ws[Watched] \in WindowState
        BY <1>1, <1>3 DEF Ordered
      <4>3. Counted(ws, Watched, now).since = {}
        BY <4>2 DEF Counted, WindowState
      <4> QED BY <4>1, <4>3
    <3>2. CASE k # Watched
      <4>1. others' = others \cup {k}
        BY <1>3, <3>2 DEF WatchedAfter
      <4>2. \/ windows'[Watched].since \subseteq ws[Watched].since \cup {k}
            \/ windows'[Watched] = NoWindow
        <5>1. Watched \in Key \ {k}
          BY <1>1, <3>2
        <5>2. \/ Record(ws, k, now)[Watched].since \subseteq ws[Watched].since \cup {k}
              \/ Record(ws, k, now)[Watched] = NoWindow
          <6>1. \A j \in Key \ {k} :
                  \/ /\ Record(ws, k, now)[j].started = ws[j].started
                     /\ Record(ws, k, now)[j].attempts = ws[j].attempts
                     /\ Record(ws, k, now)[j].since \subseteq ws[j].since \cup {k}
                  \/ /\ Record(ws, k, now)[j] = NoWindow
                     /\ Cardinality(ws[j].since \cup {k}) >= Capacity
            BY <1>1, <1>3, RecordFacts
          <6> QED BY <5>1, <6>1
        <5> QED BY <1>3, <5>2
      <4> QED BY <1>3, <4>1, <4>2 DEF NoWindow
    <3> QED BY <3>1, <3>2
  <2> QED BY <2>1, <2>2 DEF Ordered, Small, Kept
<1>4. ASSUME NEW k \in Key
      PROVE  /\ Ordered(Asked(windows, k, now)) /\ Small(Asked(windows, k, now))
             /\ Asked(windows, k, now)[Watched].since \subseteq others
  BY <1>1, AskedFacts
<1>5. ASSUME NEW k \in Key, Asks(k) PROVE ThrottleInv'
  BY <1>4, <1>5 DEF Asks, Ordered, Small, Kept
<1>6. ASSUME NEW k \in Key, Records(k) PROVE ThrottleInv'
  BY <1>3, <1>6 DEF Records
<1>7. ASSUME NEW k \in Key, RecordsAsked(k) PROVE ThrottleInv'
  BY <1>3, <1>4, <1>7 DEF RecordsAsked
<1> QED BY <1>2, <1>5, <1>6, <1>7, ThrottleAfter

-----------------------------------------------------------------------------
(* Types.                                                                  *)

\* A slot is put to something of the type of a request.
LEMMA PutTypes ==
  ASSUME Typed, NEW s \in Slot, NEW h \in InHand \cup {Idle}, request' = [request EXCEPT ![s] = h]
  PROVE  request' \in [Slot -> Request]
BY DEF Typed, Request, InHand

LEMMA EndsTypes ==
  ASSUME Typed, NEW s \in Slot, Ends(s)
  PROVE  request' \in [Slot -> Request]
BY PutTypes DEF Ends

LEMMA MovesTypes ==
  ASSUME Typed, NEW s \in Slot, request[s].at # "idle", NEW stage \in Stage, Moves(s, stage)
  PROVE  request' \in [Slot -> Request]
<1>1. [request[s] EXCEPT !.at = stage] \in InHand
  BY BusyAt DEF InHand
<1> QED BY <1>1, PutTypes DEF Moves

LEMMA BeginsTypes ==
  ASSUME Typed, NEW s \in Slot, NEW stage \in Stage, NEW a \in Address, NEW row \in SUBSET User,
         Begins(s, stage, a, row)
  PROVE  request' \in [Slot -> Request]
<1>1. [at |-> stage, address |-> a, row |-> row, ended |-> FALSE] \in InHand
  BY DEF InHand
<1> QED BY <1>1, PutTypes DEF Begins

LEMMA HoldersTypes ==
  ASSUME Typed, NEW s \in Slot, NEW id, HoldersEnded(s, id)
  PROVE  request' \in [Slot -> Request]
<1>1. ASSUME NEW q \in Slot, request[q] # Idle PROVE [request[q] EXCEPT !.ended = TRUE] \in InHand
  BY <1>1 DEF Typed, Request, InHand
<1>2. ASSUME NEW q \in Slot PROVE request'[q] \in Request
  <2>1. request[q] \in Request /\ Idle \in Request
    BY DEF Typed, Request
  <2>2. \/ request'[q] = Idle \/ request'[q] = request[q]
        \/ request[q] # Idle /\ request'[q] = [request[q] EXCEPT !.ended = TRUE]
    BY DEF HoldersEnded
  <2> QED BY <1>1, <2>1, <2>2 DEF Request, InHand
<1>3. request' = [q \in Slot |-> request'[q]]
  BY DEF HoldersEnded
<1> QED BY <1>2, <1>3

\* What is written of an account when all its sessions end.
LEMMA SavesTypes ==
  ASSUME Typed, NEW s \in Slot, request[s].at # "idle", NEW u \in request[s].row,
         u.version < MaxVersion, Saves(u), Overruns(u)
  PROVE  /\ u \in User /\ u.version + 1 \in Version
         /\ user' \subseteq User /\ overran' \subseteq AccountId
         /\ Ended(token, u.id) \subseteq Token
<1>1. u \in User
  BY BusyAt DEF InHand
<1>2. u.version + 1 \in Version
  BY <1>1, AccountsAssumption DEF User, Version
<1>3. user' \subseteq User
  <2>1. ASSUME NEW r \in user PROVE [r EXCEPT !.version = u.version + 1] \in User
    BY <1>2 DEF Typed, User
  <2> QED BY <2>1 DEF Saves, Typed
<1>4. overran' \subseteq AccountId
  BY DEF Overruns, Typed, User
<1>5. ASSUME NEW t \in token PROVE [t EXCEPT !.ended = t.ended \/ t.id = u.id] \in Token
  <2>1. t \in Token /\ (t.ended \/ t.id = u.id) \in BOOLEAN
    BY DEF Typed, Token
  <2> QED BY <2>1 DEF Token
<1> QED BY <1>1, <1>2, <1>3, <1>4, <1>5 DEF Ended

LEMMA TypedStep == Typed /\ [Next]_vars => Typed'
<1> SUFFICES ASSUME Typed, [Next]_vars PROVE Typed'
  OBVIOUS
<1> DEFINE Same == UNCHANGED <<user, created, token, overran, now>>
<1>1. others' \subseteq Key \ {Watched}
  BY ThrottleAfter DEF Typed, Asks, Records, RecordsAsked, WatchedAfter
<1>2. now' \in 0 .. MaxNow
  BY ThrottleAfter, AccountsAssumption DEF Typed, Tick
<1>3. ASSUME NEW s \in Slot, NEW a \in Address, CreateAccount(s, a) \/ LogIn(s, a) PROVE Typed'
  BY <1>1, <1>2, <1>3, BeginsTypes DEF CreateAccount, LogIn, Stage, Typed, accounts
<1>4. ASSUME NEW s \in Slot, NEW stage \in {"change_gate", "delete_gate", "end"}, SignedIn(s, stage)
      PROVE Typed'
  <2>1. PICK u \in user : Begins(s, stage, u.address, {u})
    BY <1>4 DEF SignedIn
  <2>2. u \in User /\ u.address \in Address /\ stage \in Stage
    BY DEF Typed, User, Stage
  <2>3. request' \in [Slot -> Request]
    BY <2>1, <2>2, BeginsTypes
  <2> QED BY <1>1, <1>2, <1>4, <2>3 DEF SignedIn, Typed, accounts
<1>5. ASSUME NEW s \in Slot, Register(s) \/ Gate(s) PROVE Typed'
  <2>1. request[s].at # "idle"
    BY <1>5 DEF Register, Gate, At
  <2>2. Ends(s) \/ \E stage \in Stage : Moves(s, stage)
    BY <1>5 DEF Register, Gate, Stage
  <2>3. request' \in [Slot -> Request]
    BY <2>1, <2>2, EndsTypes, MovesTypes
  <2> QED BY <1>1, <1>2, <1>5, <2>3 DEF Register, Gate, Typed, accounts
<1>6. ASSUME NEW s \in Slot, Insert(s) PROVE Typed'
  <2>1. request[s].at # "idle" /\ Ends(s)
    BY <1>6 DEF Insert, At
  <2>2. request[s].address \in Address
    BY <2>1, BusyAt DEF InHand
  <2>3. created < MaxAccount => NewAccount(request[s].address) \in User /\ created + 1 \in 0 .. MaxAccount
    BY <2>2, AccountsAssumption DEF Typed, NewAccount, User, AccountId, Version
  <2> QED BY <1>1, <1>2, <1>6, <2>1, <2>3, EndsTypes DEF Insert, Typed
<1>7. ASSUME NEW s \in Slot, LookUp(s) PROVE Typed'
  <2>1. request[s].at # "idle"
    BY <1>7 DEF LookUp, At
  <2>2. PICK row \in SUBSET Registered(request[s].address) :
          request' = [request EXCEPT ![s] = [@ EXCEPT !.at = "verify", !.row = row]]
    BY <1>7 DEF LookUp
  <2>3. row \in SUBSET User
    BY DEF Registered, Typed
  <2>4. [request[s] EXCEPT !.at = "verify", !.row = row] \in InHand
    BY <2>1, <2>3, BusyAt DEF InHand, Stage
  <2>5. request' \in [Slot -> Request]
    BY <2>2, <2>4, PutTypes
  <2> QED BY <1>1, <1>2, <1>7, <2>5 DEF LookUp, Typed, accounts
<1>8. ASSUME NEW s \in Slot, NotAuthenticated(s) \/ PasswordNotConfirmed(s) PROVE Typed'
  BY <1>1, <1>2, <1>8, EndsTypes DEF NotAuthenticated, PasswordNotConfirmed, Typed, accounts
<1>9. ASSUME NEW s \in Slot, Authenticated(s) PROVE Typed'
  <2>1. request[s].at # "idle"
    BY <1>9 DEF Authenticated, At
  <2>2. request[s] \in InHand
    BY <2>1, BusyAt
  <2>3. \A u \in request[s].row :
          [id |-> u.id, version |-> u.version, ended |-> request[s].ended] \in Token
    BY <2>2 DEF InHand, User, Token
  <2> QED BY <1>1, <1>2, <1>9, <2>3, EndsTypes DEF Authenticated, Typed
<1>10. ASSUME NEW s \in Slot, DeleteAccount(s) PROVE Typed'
  BY <1>1, <1>2, <1>10, EndsTypes DEF DeleteAccount, Typed
<1>11. ASSUME NEW s \in Slot, EndAllSessions(s) \/ ChangePassword(s) PROVE Typed'
  <2>1. request[s].at # "idle"
    BY <1>11 DEF EndAllSessions, ChangePassword, At
  <2>2. PICK u \in request[s].row :
          \/ Fails(s, u)
          \/ /\ u.version < MaxVersion /\ Saves(u) /\ Overruns(u) /\ HoldersEnded(s, u.id)
             /\ token' \subseteq Ended(token, u.id)
                                  \cup {[id |-> u.id, version |-> u.version + 1, ended |-> FALSE]}
             /\ UNCHANGED created
    BY <1>11 DEF EndAllSessions, ChangePassword
  <2>3. CASE Fails(s, u)
    BY <1>1, <1>2, <2>3, EndsTypes DEF Fails, Typed, accounts
  <2>4. CASE ~Fails(s, u)
    <3>1. [id |-> u.id, version |-> u.version + 1, ended |-> FALSE] \in Token
      BY <2>1, <2>2, <2>4, SavesTypes DEF Token, User
    <3> QED BY <1>1, <1>2, <2>1, <2>2, <2>4, <3>1, SavesTypes, HoldersTypes DEF Typed
  <2> QED BY <2>3, <2>4
<1>12. ASSUME NEW u \in user, Disable(u) PROVE Typed'
  <2>1. [u EXCEPT !.active = FALSE] \in User
    BY DEF Typed, User
  <2> QED BY <1>1, <1>2, <1>12, <2>1 DEF Disable, Typed
<1>13. CASE Tick \/ (\E t \in token : Forget(t)) \/ UNCHANGED vars
  BY <1>1, <1>2, <1>13 DEF Tick, Forget, vars, Typed, accounts
<1> QED
  BY <1>3, <1>4, <1>5, <1>6, <1>7, <1>8, <1>9, <1>10, <1>11, <1>12, <1>13, NextIs
     DEF Serves, Proceed

LEMMA TypesInit == Init => Typed /\ ThrottleInv
<1> SUFFICES ASSUME Init PROVE Typed /\ ThrottleInv
  OBVIOUS
<1>1. Typed
  BY AccountsAssumption DEF Init, Typed, Request
<1>2. windows[Watched].since = {}
  BY AccountsAssumption DEF Init, Empty, NoWindow
<1> QED BY <1>1, <1>2, EmptyWindows DEF Init, ThrottleInv

\* Every variable keeps its type, and the throttle keeps no more keys than its capacity, however
\* the attempts on them interleave (AttemptThrottle.record).
THEOREM AccountsTypes == Spec => []TypeOK
<1> DEFINE I == Typed /\ ThrottleInv
<1>1. Init => I
  BY TypesInit
<1>2. I /\ [Next]_vars => I'
  BY TypedStep, ThrottleInvStep
<1>3. I => TypeOK
  BY KeptFits DEF Typed, ThrottleInv, TypeOK, Ordered, WindowState
<1> HIDE DEF I
<1> QED BY <1>1, <1>2, <1>3, PTL DEF Spec

-----------------------------------------------------------------------------
(* How a step changes the accounts, the tokens, and what requests hold.    *)

\* The row a request has in hand, and whether its sessions were ended since it was read.
Hand(s) == IF request[s] = Idle THEN {} ELSE request[s].row
HandEnded(s) == request[s] # Idle /\ request[s].ended

\* Before the account is looked up there is no row.
Early == {"register", "insert", "look_up"}
EarlyHandsEmpty == \A s \in Slot : request[s].at \in Early => Hand(s) = {} /\ ~HandEnded(s)

Keeps(q) == Hand(q)' \subseteq Hand(q) /\ (HandEnded(q)' => HandEnded(q))

\* Nothing is added.
Removes ==
  /\ user' \subseteq user /\ token' \subseteq token /\ UNCHANGED <<created, overran>>
  /\ \A q \in Slot : Keeps(q)

\* A request reads the row of an address.
Reads(s) ==
  /\ UNCHANGED <<user, created, token, overran>>
  /\ \E a \in Address : Hand(s)' \subseteq Registered(a)
  /\ ~HandEnded(s)'
  /\ \A q \in Slot \ {s} : Keeps(q)

\* A token is issued for the row in hand.
Issues(s, u) ==
  /\ token' = token \cup {[id |-> u.id, version |-> u.version, ended |-> HandEnded(s)]}
  /\ UNCHANGED <<user, created, overran>>
  /\ \A q \in Slot : Keeps(q)

Creates(a) ==
  /\ Registered(a) = {} /\ user' = user \cup {NewAccount(a)} /\ created' = created + 1
  /\ UNCHANGED <<token, overran>>
  /\ \A q \in Slot : Keeps(q)

Disables(u) ==
  /\ user' = (user \ {u}) \cup {[u EXCEPT !.active = FALSE]}
  /\ UNCHANGED <<created, token, overran>>
  /\ \A q \in Slot : Keeps(q)

\* Every session of an account is ended, and perhaps one of the next generation begun.
EndsAll(u) ==
  /\ (\E r \in user : r.id = u.id) /\ u.version < MaxVersion
  /\ Saves(u) /\ Overruns(u) /\ UNCHANGED created
  /\ token' \subseteq Ended(token, u.id)
                        \cup {[id |-> u.id, version |-> u.version + 1, ended |-> FALSE]}
  /\ \A q \in Slot :
       /\ Hand(q)' \subseteq Hand(q)
       /\ HandEnded(q)' => HandEnded(q) \/ \E r \in Hand(q) : r.id = u.id

\* What is in hand in a slot that was put to something.
LEMMA HandsPut ==
  ASSUME Typed, NEW s \in Slot, NEW h, request' = [request EXCEPT ![s] = h]
  PROVE  /\ Hand(s)' = IF h = Idle THEN {} ELSE h.row
         /\ HandEnded(s)' <=> (h # Idle /\ h.ended)
         /\ \A q \in Slot \ {s} : Keeps(q) /\ request'[q] = request[q]
<1>1. request'[s] = h /\ \A q \in Slot \ {s} : request'[q] = request[q]
  BY DEF Typed
<1> QED BY <1>1 DEF Hand, HandEnded, Keeps

LEMMA HandsEnd ==
  ASSUME Typed, NEW s \in Slot, Ends(s)
  PROVE  /\ \A q \in Slot : Keeps(q)
         /\ request'[s] = Idle /\ \A q \in Slot \ {s} : request'[q] = request[q]
<1>1. Hand(s)' = {} /\ ~HandEnded(s)' /\ \A q \in Slot \ {s} : Keeps(q) /\ request'[q] = request[q]
  BY HandsPut DEF Ends
<1>2. request'[s] = Idle
  BY DEF Ends, Typed
<1> QED BY <1>1, <1>2 DEF Keeps

LEMMA HandsMove ==
  ASSUME Typed, NEW s \in Slot, request[s].at # "idle", NEW stage \in Stage, Moves(s, stage)
  PROVE  /\ \A q \in Slot : Keeps(q)
         /\ request'[s].at = stage /\ request'[s].address = request[s].address
         /\ \A q \in Slot \ {s} : request'[q] = request[q]
<1> DEFINE h == [request[s] EXCEPT !.at = stage]
<1>1. request[s] \in InHand /\ request[s] # Idle
  BY BusyAt
<1>2. /\ h \in InHand /\ h.row = request[s].row /\ h.ended = request[s].ended
      /\ h.at = stage /\ h.address = request[s].address
  BY <1>1 DEF InHand
<1>3. request' = [request EXCEPT ![s] = h]
  BY DEF Moves
<1>4. request'[s] = h
  BY <1>3 DEF Typed
<1> HIDE DEF h
<1>5. Keeps(s)
  <2>1. Hand(s)' = h.row /\ (HandEnded(s)' <=> h.ended)
    <3>1. h # Idle
      BY <1>2, IdleApart
    <3> QED BY <1>3, <3>1, HandsPut
  <2> QED BY <1>1, <1>2, <2>1 DEF Keeps, Hand, HandEnded
<1> QED BY <1>2, <1>3, <1>4, <1>5, HandsPut

LEMMA HandsBegin ==
  ASSUME Typed, NEW s \in Slot, NEW stage \in Stage, NEW a \in Address, NEW row \in SUBSET User,
         Begins(s, stage, a, row)
  PROVE  /\ Hand(s)' = row /\ ~HandEnded(s)' /\ Hand(s) = {} /\ ~HandEnded(s)
         /\ request'[s].at = stage /\ request'[s].address = a
         /\ \A q \in Slot \ {s} : Keeps(q) /\ request'[q] = request[q]
<1> DEFINE h == [at |-> stage, address |-> a, row |-> row, ended |-> FALSE]
<1>1. h \in InHand /\ h.row = row /\ h.ended = FALSE /\ h.at = stage /\ h.address = a
  BY DEF InHand
<1>2. request' = [request EXCEPT ![s] = h] /\ request[s] = Idle
  BY DEF Begins
<1> HIDE DEF h
<1>3. request'[s] = h
  BY <1>2 DEF Typed
<1>4. Hand(s)' = row /\ ~HandEnded(s)' /\ \A q \in Slot \ {s} : Keeps(q) /\ request'[q] = request[q]
  BY <1>1, <1>2, HandsPut, IdleApart
<1> QED BY <1>1, <1>2, <1>3, <1>4 DEF Hand, HandEnded

LEMMA HandsEnded ==
  ASSUME Typed, NEW s \in Slot, NEW id, HoldersEnded(s, id)
  PROVE  \A q \in Slot :
           /\ Hand(q)' \subseteq Hand(q)
           /\ HandEnded(q)' => HandEnded(q) \/ \E r \in Hand(q) : r.id = id
           /\ \/ request'[q] = Idle
              \/ request'[q].at = request[q].at /\ request'[q].address = request[q].address
                   /\ (Hand(q) = {} => Keeps(q))
<1> SUFFICES ASSUME NEW q \in Slot
             PROVE  /\ Hand(q)' \subseteq Hand(q)
                    /\ HandEnded(q)' => HandEnded(q) \/ \E r \in Hand(q) : r.id = id
                    /\ \/ request'[q] = Idle
                       \/ request'[q].at = request[q].at /\ request'[q].address = request[q].address
                            /\ (Hand(q) = {} => Keeps(q))
  OBVIOUS
<1>1. request'[q] = IF q = s THEN Idle
                    ELSE IF request[q] # Idle /\ \E u \in request[q].row : u.id = id
                      THEN [request[q] EXCEPT !.ended = TRUE] ELSE request[q]
  BY DEF HoldersEnded
<1>2. CASE request'[q] = Idle
  BY <1>2 DEF Hand, HandEnded
<1>3. CASE request'[q] = request[q]
  BY <1>3 DEF Hand, HandEnded, Keeps
<1>4. CASE /\ request[q] # Idle /\ \E u \in request[q].row : u.id = id
           /\ request'[q] = [request[q] EXCEPT !.ended = TRUE]
  <2>1. request[q] \in InHand
    BY <1>4 DEF Typed, Request, InHand
  <2>2. /\ request'[q].row = request[q].row /\ request'[q].at = request[q].at
        /\ request'[q].address = request[q].address
    BY <1>4, <2>1 DEF InHand
  <2> QED BY <1>4, <2>2 DEF Hand, HandEnded
<1> QED BY <1>1, <1>2, <1>3, <1>4

LEMMA AccountsAfter ==
  ASSUME Typed, EarlyHandsEmpty, [Next]_vars
  PROVE  \/ Removes
         \/ \E s \in Slot : Reads(s) \/ \E u \in Hand(s) : Issues(s, u) \/ EndsAll(u)
         \/ (\E a \in Address : Creates(a)) \/ (\E u \in user : Disables(u))
<1> DEFINE Goal == \/ Removes
                   \/ \E s \in Slot : Reads(s) \/ \E u \in Hand(s) : Issues(s, u) \/ EndsAll(u)
                   \/ (\E a \in Address : Creates(a)) \/ (\E u \in user : Disables(u))
<1>1. ASSUME NEW s \in Slot, NEW a \in Address, CreateAccount(s, a) \/ LogIn(s, a) PROVE Removes
  <2>1. \A q \in Slot : Keeps(q)
    <3>1. \E stage \in Stage : Begins(s, stage, a, {})
      BY <1>1 DEF CreateAccount, LogIn, Stage
    <3>2. Hand(s)' = {} /\ ~HandEnded(s)' /\ \A q \in Slot \ {s} : Keeps(q)
      BY <3>1, HandsBegin
    <3> QED BY <3>2 DEF Keeps
  <2> QED BY <1>1, <2>1 DEF CreateAccount, LogIn, Removes, accounts
<1>2. ASSUME NEW s \in Slot, NEW stage \in {"change_gate", "delete_gate", "end"}, SignedIn(s, stage)
      PROVE  Reads(s)
  <2>1. PICK u \in user : Begins(s, stage, u.address, {u})
    BY <1>2 DEF SignedIn
  <2>2. u \in User /\ u.address \in Address /\ stage \in Stage
    BY DEF Typed, User, Stage
  <2>3. Hand(s)' = {u} /\ ~HandEnded(s)' /\ \A q \in Slot \ {s} : Keeps(q)
    BY <2>1, <2>2, HandsBegin
  <2> QED BY <1>2, <2>2, <2>3 DEF SignedIn, Reads, Registered, accounts
<1>3. ASSUME NEW s \in Slot, Register(s) \/ Gate(s) PROVE Removes
  <2>1. request[s].at # "idle"
    BY <1>3 DEF Register, Gate, At
  <2>2. Ends(s) \/ \E stage \in Stage : Moves(s, stage)
    BY <1>3 DEF Register, Gate, Stage
  <2>3. \A q \in Slot : Keeps(q)
    BY <2>1, <2>2, HandsEnd, HandsMove
  <2> QED BY <1>3, <2>3 DEF Register, Gate, Removes, accounts
<1>4. ASSUME NEW s \in Slot, Insert(s) PROVE Removes \/ Creates(request[s].address)
  <2>1. \A q \in Slot : Keeps(q)
    BY <1>4, HandsEnd DEF Insert
  <2> QED BY <1>4, <2>1 DEF Insert, Removes, Creates
<1>5. ASSUME NEW s \in Slot, LookUp(s) PROVE Reads(s)
  <2>1. request[s].at # "idle" /\ request[s].at \in Early
    BY <1>5 DEF LookUp, At, Early
  <2>2. PICK row \in SUBSET Registered(request[s].address) :
          request' = [request EXCEPT ![s] = [@ EXCEPT !.at = "verify", !.row = row]]
    BY <1>5 DEF LookUp
  <2> DEFINE h == [request[s] EXCEPT !.at = "verify", !.row = row]
  <2>3. request[s] \in InHand /\ request[s] # Idle /\ ~request[s].ended
    BY <2>1, BusyAt DEF EarlyHandsEmpty, HandEnded
  <2>4. h \in InHand /\ h.row = row /\ ~h.ended
    BY <2>3 DEF InHand, Stage, Registered, Typed
  <2>5. request' = [request EXCEPT ![s] = h]
    BY <2>2
  <2> HIDE DEF h
  <2>6. Hand(s)' = row /\ ~HandEnded(s)' /\ \A q \in Slot \ {s} : Keeps(q)
    BY <2>4, <2>5, HandsPut, IdleApart
  <2>7. request[s].address \in Address
    BY <2>3 DEF InHand
  <2> QED BY <1>5, <2>6, <2>7 DEF LookUp, Reads, Registered, accounts
<1>6. ASSUME NEW s \in Slot,
             NotAuthenticated(s) \/ PasswordNotConfirmed(s) \/ DeleteAccount(s)
      PROVE  Removes
  <2>1. \A q \in Slot : Keeps(q)
    BY <1>6, HandsEnd DEF NotAuthenticated, PasswordNotConfirmed, DeleteAccount
  <2> QED BY <1>6, <2>1 DEF NotAuthenticated, PasswordNotConfirmed, DeleteAccount, Removes, accounts
<1>7. ASSUME NEW s \in Slot, Authenticated(s) PROVE \E u \in Hand(s) : Issues(s, u)
  <2>1. request[s].at # "idle"
    BY <1>7 DEF Authenticated, At
  <2>2. request[s] # Idle /\ request[s] \in InHand
    BY <2>1, BusyAt
  <2>3. Hand(s) = request[s].row /\ HandEnded(s) = request[s].ended
    BY <2>2 DEF Hand, HandEnded, InHand
  <2>4. \A q \in Slot : Keeps(q)
    BY <1>7, HandsEnd DEF Authenticated
  <2> QED BY <1>7, <2>3, <2>4 DEF Authenticated, Issues
<1>8. ASSUME NEW s \in Slot, EndAllSessions(s) \/ ChangePassword(s)
      PROVE  Removes \/ \E u \in Hand(s) : EndsAll(u)
  <2>1. request[s].at # "idle"
    BY <1>8 DEF EndAllSessions, ChangePassword, At
  <2>2. Hand(s) = request[s].row
    BY <2>1, BusyAt DEF Hand
  <2>3. PICK u \in Hand(s) :
          \/ Fails(s, u)
          \/ /\ (\E r \in user : r.id = u.id) /\ u.version < MaxVersion
             /\ Saves(u) /\ Overruns(u) /\ HoldersEnded(s, u.id)
             /\ token' \subseteq Ended(token, u.id)
                                  \cup {[id |-> u.id, version |-> u.version + 1, ended |-> FALSE]}
             /\ UNCHANGED created
    BY <1>8, <2>2 DEF EndAllSessions, ChangePassword
  <2>4. CASE Fails(s, u)
    BY <2>4, HandsEnd DEF Fails, Removes, accounts
  <2>5. CASE ~Fails(s, u)
    BY <2>3, <2>5, HandsEnded DEF EndsAll
  <2> QED BY <2>4, <2>5
<1>9. UNCHANGED request => \A q \in Slot : Keeps(q)
  BY DEF Keeps, Hand, HandEnded
<1>10. ASSUME NEW u \in user, Disable(u) PROVE Disables(u)
  BY <1>9, <1>10 DEF Disable, Disables
<1>11. ASSUME Tick \/ (\E t \in token : Forget(t)) \/ UNCHANGED vars PROVE Removes
  BY <1>9, <1>11 DEF Tick, Forget, vars, Removes, accounts
<1>12. ASSUME NEW s \in Slot, Insert(s) PROVE request[s].address \in Address
  BY <1>12, BusyAt DEF Insert, At, InHand
<1>13. ASSUME NEW s \in Slot, Serves(s) PROVE Goal
  BY <1>1, <1>2, <1>3, <1>4, <1>5, <1>6, <1>7, <1>8, <1>12, <1>13 DEF Serves, Proceed
<1> HIDE DEF Goal
<1>14. Goal
  <2>1. Removes => Goal
    BY DEF Goal
  <2>2. (\E u \in user : Disables(u)) => Goal
    BY DEF Goal
  <2> QED BY <1>10, <1>11, <1>13, <2>1, <2>2, NextIs
<1> QED BY <1>14 DEF Goal

LEMMA EarlyHandsEmptyStep == Typed /\ EarlyHandsEmpty /\ [Next]_vars => EarlyHandsEmpty'
<1> SUFFICES ASSUME Typed, EarlyHandsEmpty, [Next]_vars, NEW q \in Slot, request'[q].at \in Early
             PROVE  Hand(q)' = {} /\ ~HandEnded(q)'
  BY DEF EarlyHandsEmpty
<1>1. \A s \in Slot : request[s].at \in Early => request[s].at # "idle"
  BY DEF Early
<1>2. request'[q] # Idle
  BY DEF Idle, Early
<1>3. ASSUME request'[q] = request[q] PROVE Hand(q)' = {} /\ ~HandEnded(q)'
  BY <1>3 DEF EarlyHandsEmpty, Hand, HandEnded
<1>4. ASSUME NEW s \in Slot, Ends(s) PROVE Hand(q)' = {} /\ ~HandEnded(q)'
  BY <1>2, <1>3, <1>4, HandsEnd
<1>5. ASSUME NEW s \in Slot, NEW a \in Address, CreateAccount(s, a) \/ LogIn(s, a)
      PROVE  Hand(q)' = {} /\ ~HandEnded(q)'
  <2>1. \E stage \in Stage : Begins(s, stage, a, {})
    BY <1>5 DEF CreateAccount, LogIn, Stage
  <2> QED BY <1>3, <2>1, HandsBegin
<1>6. ASSUME NEW s \in Slot, NEW stage \in {"change_gate", "delete_gate", "end"}, SignedIn(s, stage)
      PROVE  Hand(q)' = {} /\ ~HandEnded(q)'
  <2>1. PICK u \in user : Begins(s, stage, u.address, {u})
    BY <1>6 DEF SignedIn
  <2>2. u \in User /\ u.address \in Address /\ stage \in Stage
    BY DEF Typed, User, Stage
  <2>3. request'[s].at = stage /\ \A p \in Slot \ {s} : request'[p] = request[p]
    BY <2>1, <2>2, HandsBegin
  <2> QED BY <1>3, <2>3 DEF Early
<1>7. ASSUME NEW s \in Slot, Register(s) \/ Gate(s), ~Ends(s)
      PROVE  Hand(q)' = {} /\ ~HandEnded(q)'
  <2>1. request[s].at # "idle"
    BY <1>7 DEF Register, Gate, At
  <2>2. PICK stage \in Stage : /\ Moves(s, stage)
                               /\ stage \in Early => request[s].at \in Early
    BY <1>7 DEF Register, Gate, Stage, At, Early
  <2>3. CASE q = s
    BY <2>1, <2>2, <2>3, HandsMove DEF EarlyHandsEmpty, Keeps
  <2> QED BY <1>3, <2>1, <2>2, <2>3, HandsMove
<1>8. ASSUME NEW s \in Slot, LookUp(s) PROVE Hand(q)' = {} /\ ~HandEnded(q)'
  <2>1. request[s].at # "idle"
    BY <1>8 DEF LookUp, At
  <2>2. PICK row : request' = [request EXCEPT ![s] = [@ EXCEPT !.at = "verify", !.row = row]]
    BY <1>8 DEF LookUp
  <2>3. request'[s].at = "verify"
    BY <2>1, <2>2, BusyAt DEF Typed, InHand
  <2>4. \A p \in Slot \ {s} : request'[p] = request[p]
    BY <2>2 DEF Typed
  <2> QED BY <1>3, <2>3, <2>4 DEF Early
<1>9. ASSUME NEW s \in Slot, NEW id, HoldersEnded(s, id) PROVE Hand(q)' = {} /\ ~HandEnded(q)'
  <2>1. request'[q].at = request[q].at /\ (Hand(q) = {} => Keeps(q))
    BY <1>2, <1>9, HandsEnded
  <2> QED BY <2>1 DEF EarlyHandsEmpty, Keeps
<1>10. ASSUME NEW s \in Slot, Serves(s) PROVE Hand(q)' = {} /\ ~HandEnded(q)'
  BY <1>4, <1>5, <1>6, <1>7, <1>8, <1>9, <1>10
     DEF Serves, Proceed, Insert, NotAuthenticated, PasswordNotConfirmed, Authenticated,
         ChangePassword, EndAllSessions, DeleteAccount, Fails
<1>11. ASSUME \/ Tick \/ (\E t \in token : Forget(t)) \/ (\E u \in user : Disable(u)) \/ UNCHANGED vars
       PROVE  request' = request
  BY <1>11 DEF Tick, Forget, Disable, vars
<1> QED BY <1>3, <1>10, <1>11, NextIs

-----------------------------------------------------------------------------
(* One account of an address, and sessions that stay ended.                *)

\* Ids are never used again, and a request holds one row at most.
Distinct ==
  /\ \A u, v \in user : u.id = v.id => u = v
  /\ \A u \in user : u.id <= created
  /\ \A t \in token : t.id <= created
  /\ \A s \in Slot : \A u, v \in Hand(s) : u.id <= created /\ u = v

\* Unless a sign-out wrote over another, nobody has a later generation of an account than the
\* table, and what was ended is of an earlier one.
Past ==
  \A u \in user : u.id \notin overran =>
    /\ \A t \in token : t.id = u.id => t.version <= u.version /\ (t.ended => t.version < u.version)
    /\ \A s \in Slot : \A r \in Hand(s) :
         r.id = u.id => r.version <= u.version /\ (HandEnded(s) => r.version < u.version)

AccountsInv == Typed /\ EarlyHandsEmpty /\ OneAccountPerAddress /\ Distinct /\ Past

\* The account a registration adds.
LEMMA NewAccountIs ==
  ASSUME NEW a \in Address
  PROVE  /\ NewAccount(a).id = created + 1 /\ NewAccount(a).address = a
         /\ NewAccount(a).version = 1
BY DEF NewAccount

\* The rows after the update of one of them.
LEMMA SavesIs ==
  ASSUME Typed, NEW u, Saves(u), NEW x \in user'
  PROVE  \E r \in user : /\ x.id = r.id /\ x.address = r.address
                         /\ x = IF r.id = u.id THEN [r EXCEPT !.version = u.version + 1] ELSE r
                         /\ r.id = u.id => x.version = u.version + 1
                         /\ r.id # u.id => x = r
<1>1. PICK r \in user : x = IF r.id = u.id THEN [r EXCEPT !.version = u.version + 1] ELSE r
  BY DEF Saves
<1>2. r \in User
  BY DEF Typed
<1> QED BY <1>1, <1>2 DEF User

LEMMA EndedIs ==
  ASSUME Typed, NEW id, NEW t \in Ended(token, id)
  PROVE  \E o \in token : t.id = o.id /\ t.version = o.version /\ (t.ended <=> o.ended \/ o.id = id)
<1>1. PICK o \in token : t = [o EXCEPT !.ended = o.ended \/ o.id = id]
  BY DEF Ended
<1>2. o \in Token
  BY DEF Typed
<1> QED BY <1>1, <1>2 DEF Token

LEMMA OneAccountStep ==
  ASSUME AccountsInv, [Next]_vars PROVE OneAccountPerAddress'
<1> USE DEF AccountsInv
<1>1. CASE user' \subseteq user
  BY <1>1 DEF OneAccountPerAddress
<1>2. ASSUME NEW a \in Address, Creates(a) PROVE OneAccountPerAddress'
  BY <1>2, NewAccountIs DEF Creates, Registered, OneAccountPerAddress
<1>3. ASSUME NEW u \in user, Disables(u) PROVE OneAccountPerAddress'
  <2>1. [u EXCEPT !.active = FALSE].address = u.address
    BY DEF Typed, User
  <2> QED BY <1>3, <2>1 DEF Disables, OneAccountPerAddress
<1>4. ASSUME NEW u, EndsAll(u) PROVE OneAccountPerAddress'
  <2> SUFFICES ASSUME NEW x \in user', NEW y \in user', x.address = y.address PROVE x = y
    BY DEF OneAccountPerAddress
  <2>1. Saves(u)
    BY <1>4 DEF EndsAll
  <2>2. PICK r \in user : x.address = r.address
                          /\ x = IF r.id = u.id THEN [r EXCEPT !.version = u.version + 1] ELSE r
    BY <2>1, SavesIs
  <2>3. PICK q \in user : y.address = q.address
                          /\ y = IF q.id = u.id THEN [q EXCEPT !.version = u.version + 1] ELSE q
    BY <2>1, SavesIs
  <2>4. r = q
    BY <2>2, <2>3 DEF OneAccountPerAddress
  <2> QED BY <2>2, <2>3, <2>4
<1> QED BY <1>1, <1>2, <1>3, <1>4, AccountsAfter DEF Removes, Reads, Issues

LEMMA DistinctStep ==
  ASSUME AccountsInv, [Next]_vars PROVE Distinct'
<1> USE DEF AccountsInv
<1>1. /\ created \in Nat
      /\ \A u \in user : u.id \in Nat
      /\ \A t \in token : t.id \in Nat
      /\ \A s \in Slot : \A u \in Hand(s) : u.id \in Nat
  <2>1. \A s \in Slot : \A u \in Hand(s) : u \in User
    BY BusyAt DEF Hand, Typed, Request
  <2> QED BY <2>1, AccountsAssumption DEF Typed, User, Token, AccountId
<1>2. CASE Removes
  BY <1>2 DEF Removes, Keeps, Distinct
<1>3. ASSUME NEW s \in Slot, Reads(s) PROVE Distinct'
  <2>1. PICK a \in Address : Hand(s)' \subseteq Registered(a)
    BY <1>3 DEF Reads
  <2>2. \A u, v \in Hand(s)' : u \in user /\ u = v
    BY <2>1 DEF Registered, OneAccountPerAddress
  <2>3. \A q \in Slot \ {s} : Hand(q)' \subseteq Hand(q)
    BY <1>3 DEF Reads, Keeps
  <2>4. ASSUME NEW q \in Slot, NEW u \in Hand(q)', NEW v \in Hand(q)'
        PROVE  u.id <= created /\ u = v
    BY <2>2, <2>3 DEF Distinct
  <2> QED BY <1>3, <2>4 DEF Reads, Distinct
<1>4. ASSUME NEW s \in Slot, NEW u \in Hand(s), Issues(s, u) PROVE Distinct'
  <2>1. \A t \in token' : t.id <= created
    BY <1>4 DEF Issues, Distinct
  <2> QED BY <1>4, <2>1 DEF Issues, Keeps, Distinct
<1>5. ASSUME NEW s \in Slot, NEW u \in Hand(s), EndsAll(u) PROVE Distinct'
  <2>1. \A t \in token' : t.id <= created
    <3> SUFFICES ASSUME NEW t \in token' PROVE t.id <= created
      OBVIOUS
    <3>1. CASE t \in Ended(token, u.id)
      BY <3>1, EndedIs DEF Distinct
    <3>2. CASE t = [id |-> u.id, version |-> u.version + 1, ended |-> FALSE]
      BY <3>2 DEF Distinct
    <3> QED BY <1>5, <3>1, <3>2 DEF EndsAll
  <2>2. Saves(u) /\ created' = created
    BY <1>5 DEF EndsAll
  <2>3. \A x \in user' : x.id <= created
    BY <2>2, SavesIs DEF Distinct
  <2>4. ASSUME NEW x \in user', NEW y \in user', x.id = y.id PROVE x = y
    <3>1. PICK r \in user : x.id = r.id
                            /\ x = IF r.id = u.id THEN [r EXCEPT !.version = u.version + 1] ELSE r
      BY <2>2, SavesIs
    <3>2. PICK q \in user : y.id = q.id
                            /\ y = IF q.id = u.id THEN [q EXCEPT !.version = u.version + 1] ELSE q
      BY <2>2, SavesIs
    <3>3. r = q
      BY <2>4, <3>1, <3>2 DEF Distinct
    <3> QED BY <3>1, <3>2, <3>3
  <2>5. \A q \in Slot : Hand(q)' \subseteq Hand(q)
    BY <1>5 DEF EndsAll
  <2> QED BY <2>1, <2>2, <2>3, <2>4, <2>5 DEF Distinct
<1>6. ASSUME NEW a \in Address, Creates(a) PROVE Distinct'
  BY <1>1, <1>6, NewAccountIs DEF Creates, Keeps, Distinct
<1>7. ASSUME NEW u \in user, Disables(u) PROVE Distinct'
  <2>1. [u EXCEPT !.active = FALSE].id = u.id
    BY DEF Typed, User
  <2> QED BY <1>7, <2>1 DEF Disables, Keeps, Distinct
<1> QED BY <1>2, <1>3, <1>4, <1>5, <1>6, <1>7, AccountsAfter

LEMMA PastStep ==
  ASSUME AccountsInv, [Next]_vars PROVE Past'
<1> USE DEF AccountsInv
<1>1. /\ created \in Nat
      /\ \A u \in user : u.id \in Nat /\ u.version \in Nat
      /\ \A t \in token : t.id \in Nat /\ t.version \in Nat
      /\ \A s \in Slot : \A u \in Hand(s) : u.id \in Nat /\ u.version \in Nat
  <2>1. \A s \in Slot : \A u \in Hand(s) : u \in User
    BY BusyAt DEF Hand, Typed, Request
  <2> QED BY <2>1, AccountsAssumption DEF Typed, User, Token, AccountId, Version
<1>2. CASE Removes
  BY <1>2 DEF Removes, Keeps, Past
<1>3. ASSUME NEW s \in Slot, Reads(s) PROVE Past'
  <2>1. /\ \A r \in Hand(s)' : r \in user
        /\ ~HandEnded(s)' /\ UNCHANGED <<user, token, overran>>
        /\ \A q \in Slot \ {s} : Hand(q)' \subseteq Hand(q) /\ (HandEnded(q)' => HandEnded(q))
    BY <1>3 DEF Reads, Registered, Keeps
  <2>2. ASSUME NEW u \in user, u.id \notin overran, NEW q \in Slot, NEW r \in Hand(q)', r.id = u.id
        PROVE  r.version <= u.version /\ (HandEnded(q)' => r.version < u.version)
    <3>1. CASE q = s
      <4>1. r = u
        BY <2>1, <2>2, <3>1 DEF Distinct
      <4> QED BY <1>1, <2>1, <3>1, <4>1
    <3>2. CASE q # s
      BY <2>1, <2>2, <3>2 DEF Past
    <3> QED BY <3>1, <3>2
  <2>3. ASSUME NEW u \in user, u.id \notin overran, NEW t \in token, t.id = u.id
        PROVE  t.version <= u.version /\ (t.ended => t.version < u.version)
    BY <2>3 DEF Past
  <2> QED BY <2>1, <2>2, <2>3 DEF Past
<1>4. ASSUME NEW s \in Slot, NEW u \in Hand(s), Issues(s, u) PROVE Past'
  <2>1. ASSUME NEW v \in user, v.id \notin overran, NEW t \in token', t.id = v.id
        PROVE  t.version <= v.version /\ (t.ended => t.version < v.version)
    <3>1. CASE t \in token
      BY <2>1, <3>1 DEF Past
    <3>2. CASE t = [id |-> u.id, version |-> u.version, ended |-> HandEnded(s)]
      <4>1. t.id = u.id /\ t.version = u.version /\ t.ended = HandEnded(s)
        BY <3>2
      <4> QED BY <2>1, <4>1 DEF Past
    <3> QED BY <1>4, <3>1, <3>2 DEF Issues
  <2> QED BY <1>4, <2>1 DEF Issues, Keeps, Past
<1>5. ASSUME NEW s \in Slot, NEW u \in Hand(s), EndsAll(u) PROVE Past'
  <2>1. /\ Saves(u) /\ overran' = overran \cup {r.id : r \in {r \in user : r.id = u.id /\ r.version # u.version}}
        /\ \A t \in token' : t \in Ended(token, u.id) \/ t = [id |-> u.id, version |-> u.version + 1, ended |-> FALSE]
        /\ \A q \in Slot : /\ Hand(q)' \subseteq Hand(q)
                           /\ HandEnded(q)' => HandEnded(q) \/ \E r \in Hand(q) : r.id = u.id
    BY <1>5 DEF EndsAll, Overruns
  <2> SUFFICES ASSUME NEW x \in user', x.id \notin overran'
               PROVE  /\ \A t \in token' : t.id = x.id => t.version <= x.version /\ (t.ended => t.version < x.version)
                      /\ \A q \in Slot : \A r \in Hand(q)' :
                           r.id = x.id => r.version <= x.version /\ (HandEnded(q)' => r.version < x.version)
    BY DEF Past
  <2>2. PICK v \in user : /\ x.id = v.id
                          /\ v.id = u.id => x.version = u.version + 1
                          /\ v.id # u.id => x = v
    BY <2>1, SavesIs
  <2>3. v.id \notin overran /\ (v.id = u.id => v.version = u.version)
    BY <2>1, <2>2
  <2>4. /\ v.version \in Nat /\ x.version \in Nat
        /\ v.id = u.id => x.version = v.version + 1
        /\ v.id # u.id => x.version = v.version
    BY <1>1, <2>2, <2>3
  <2>5. ASSUME NEW t \in token', t.id = x.id
        PROVE  t.version <= x.version /\ (t.ended => t.version < x.version)
    <3>1. CASE t \in Ended(token, u.id)
      <4>1. PICK o \in token : /\ t.id = o.id /\ t.version = o.version
                               /\ t.ended <=> o.ended \/ o.id = u.id
        BY <3>1, EndedIs
      <4>2. o.version \in Nat /\ o.version <= v.version /\ (o.ended => o.version < v.version)
        BY <1>1, <2>2, <2>3, <2>5, <4>1 DEF Past
      <4>3. o.id = v.id
        BY <2>2, <2>5, <4>1
      <4>4. CASE v.id = u.id
        BY <2>4, <4>1, <4>2, <4>4
      <4>5. CASE v.id # u.id
        BY <2>4, <4>1, <4>2, <4>3, <4>5
      <4> QED BY <4>4, <4>5
    <3>2. CASE t = [id |-> u.id, version |-> u.version + 1, ended |-> FALSE]
      <4>1. t.id = u.id /\ t.version = u.version + 1 /\ ~t.ended
        BY <3>2
      <4>2. t.version = x.version
        BY <2>2, <2>5, <4>1
      <4> QED BY <2>4, <4>1, <4>2
    <3> QED BY <2>1, <3>1, <3>2
  <2>6. ASSUME NEW q \in Slot, NEW r \in Hand(q)', r.id = x.id
        PROVE  r.version <= x.version /\ (HandEnded(q)' => r.version < x.version)
    <3>1. /\ r \in Hand(q) /\ r.version \in Nat /\ r.version <= v.version
          /\ HandEnded(q) => r.version < v.version
      BY <1>1, <2>1, <2>2, <2>3, <2>6 DEF Past
    <3>2. CASE v.id = u.id
      BY <2>4, <3>1, <3>2
    <3>3. CASE v.id # u.id
      <4>1. HandEnded(q)' => HandEnded(q)
        BY <2>1, <2>2, <2>6, <3>1, <3>3 DEF Distinct
      <4> QED BY <2>4, <3>1, <3>3, <4>1
    <3> QED BY <3>2, <3>3
  <2> QED BY <2>5, <2>6
<1>6. ASSUME NEW a \in Address, Creates(a) PROVE Past'
  <2>1. \A u \in user' : u \in user \/ u.id = created + 1
    BY <1>6, NewAccountIs DEF Creates
  <2>2. /\ \A t \in token : t.id # created + 1
        /\ \A q \in Slot : \A r \in Hand(q)' : r.id # created + 1
    BY <1>1, <1>6 DEF Creates, Keeps, Distinct
  <2> QED BY <1>6, <2>1, <2>2 DEF Creates, Keeps, Past
<1>7. ASSUME NEW u \in user, Disables(u) PROVE Past'
  <2>1. [u EXCEPT !.active = FALSE].id = u.id /\ [u EXCEPT !.active = FALSE].version = u.version
    BY DEF Typed, User
  <2> QED BY <1>7, <2>1 DEF Disables, Keeps, Past
<1> QED BY <1>2, <1>3, <1>4, <1>5, <1>6, <1>7, AccountsAfter

LEMMA AccountsInvInit == Init => AccountsInv
<1> SUFFICES ASSUME Init PROVE AccountsInv
  OBVIOUS
<1>1. Typed
  BY TypesInit
<1>2. \A s \in Slot : Hand(s) = {} /\ ~HandEnded(s)
  BY DEF Init, Hand, HandEnded
<1> QED
  BY <1>1, <1>2 DEF Init, AccountsInv, EarlyHandsEmpty, OneAccountPerAddress, Distinct, Past

LEMMA AccountsInvAlways == Spec => []AccountsInv
<1>1. AccountsInv /\ [Next]_vars => AccountsInv'
  BY TypedStep, EarlyHandsEmptyStep, OneAccountStep, DistinctStep, PastStep DEF AccountsInv
<1> QED BY <1>1, AccountsInvInit, PTL DEF Spec

\* Registrations of one address that pass the pre-check together make one account
\* (accounts/service.py:register, uq_users_normalized_email).
THEOREM OneRegistrationWins == Spec => []OneAccountPerAddress
<1>1. AccountsInv => OneAccountPerAddress
  BY DEF AccountsInv
<1> QED BY <1>1, AccountsInvAlways, PTL

\* What every session of an account was ended for stays out: the generation of the account is
\* past every token issued before and every row read before (end_all_sessions, change_password).
THEOREM SessionsStayEnded == Spec => []EndedStaysEnded
<1>1. AccountsInv => EndedStaysEnded
  <2> SUFFICES ASSUME AccountsInv, NEW t \in token, NEW u \in user, t.ended, u.id \notin overran,
                      Accepted(t, u)
               PROVE  FALSE
    BY DEF EndedStaysEnded
  <2>1. t.id = u.id /\ t.version = u.version
    BY DEF Accepted
  <2>2. t.version < u.version /\ u.version \in Nat
    BY <2>1, AccountsAssumption DEF AccountsInv, Past, Typed, User, Version
  <2> QED BY <2>1, <2>2
<1> QED BY <1>1, AccountsInvAlways, PTL

-----------------------------------------------------------------------------
(* Attempts within the limit.                                              *)

\* The requests between the gate of a password check and the attempt they may count.
Checking == {"look_up", "verify", "change", "delete"}
Under(a) == {s \in Slot : request[s].at \in Checking /\ request[s].address = a}

\* Whoever is under way was let through while there was an attempt left.
WithinLimit ==
  \A a \in Address :
    /\ windows[Login(a)].attempts + Cardinality(Under(a)) <= Attempts + Cardinality(Slot) - 1
    /\ windows[Registration(a)].attempts <= Attempts

NobodyEnters == \A a \in Address : Under(a)' \subseteq Under(a)

\* A request passes the gate.
Enters(s, a) ==
  /\ Passes(Login(a)) /\ Asks(Login(a))
  /\ \A b \in Address \ {a} : Under(b)' \subseteq Under(b)

\* An attempt is counted when its request ends.
Counts(s, a) ==
  /\ s \in Under(a) /\ Records(Login(a))
  /\ \A b \in Address : Under(b)' \subseteq Under(b) \ {s}

Registers(a) == Passes(Registration(a)) /\ RecordsAsked(Registration(a)) /\ NobodyEnters

\* Nothing is counted.
CountsNothing ==
  /\ UNCHANGED windows \/ \E k \in Key : Asks(k)
  /\ NobodyEnters

LEMMA UnderFinite ==
  ASSUME NEW S \in SUBSET Slot
  PROVE  /\ IsFiniteSet(S) /\ Cardinality(S) \in Nat /\ Cardinality(Slot) \in Nat
         /\ Cardinality(S) <= Cardinality(Slot)
         /\ \A T \in SUBSET S : Cardinality(T) \in Nat /\ Cardinality(T) <= Cardinality(S)
BY AccountsAssumption, FS_Subset, FS_CardinalityType

\* Who is under way when one slot is put to something, and the others stay as they are.
LEMMA UnderAfter ==
  ASSUME NEW s \in Slot, \A q \in Slot \ {s} : request'[q] = request[q]
  PROVE  /\ request'[s].at \notin Checking => \A b : Under(b)' \subseteq Under(b) \ {s}
         /\ request'[s].at \in Checking =>
              /\ \A b : b # request'[s].address => Under(b)' \subseteq Under(b)
              /\ request[s].at \in Checking /\ request'[s].address = request[s].address => NobodyEnters
BY DEF Under, NobodyEnters

LEMMA AttemptsAfter ==
  ASSUME Typed, [Next]_vars
  PROVE  \/ CountsNothing
         \/ \E s \in Slot, a \in Address : Enters(s, a) \/ Counts(s, a)
         \/ \E a \in Address : Registers(a)
<1> USE DEF Checking
<1>1. Idle.at \notin Checking
  BY DEF Idle
<1>2. ASSUME NEW s \in Slot, Ends(s) PROVE NobodyEnters /\ \A b : Under(b)' \subseteq Under(b) \ {s}
  BY <1>1, <1>2, HandsEnd, UnderAfter DEF NobodyEnters
<1>3. ASSUME NEW s \in Slot, NEW a \in Address, CreateAccount(s, a) PROVE Registers(a)
  <2>1. request'[s].at = "register" /\ \A q \in Slot \ {s} : request'[q] = request[q]
    BY <1>3, HandsBegin DEF CreateAccount, Stage
  <2> QED BY <1>3, <2>1, UnderAfter DEF CreateAccount, Registers, RecordsAsked, NobodyEnters
<1>4. ASSUME NEW s \in Slot, NEW a \in Address, LogIn(s, a) PROVE Enters(s, a)
  <2>1. /\ request'[s].at = "look_up" /\ request'[s].address = a
        /\ \A q \in Slot \ {s} : request'[q] = request[q]
    BY <1>4, HandsBegin DEF LogIn, Stage
  <2> QED BY <1>4, <2>1, UnderAfter DEF LogIn, Enters
<1>5. ASSUME NEW s \in Slot, NEW stage \in {"change_gate", "delete_gate", "end"}, SignedIn(s, stage)
      PROVE  CountsNothing
  <2>1. PICK u \in user : Begins(s, stage, u.address, {u})
    BY <1>5 DEF SignedIn
  <2>2. u \in User /\ u.address \in Address /\ stage \in Stage
    BY DEF Typed, User, Stage
  <2>3. request'[s].at = stage /\ \A q \in Slot \ {s} : request'[q] = request[q]
    BY <2>1, <2>2, HandsBegin
  <2> QED BY <1>5, <2>3, UnderAfter DEF SignedIn, CountsNothing, NobodyEnters, throttle
<1>6. ASSUME NEW s \in Slot, Register(s) PROVE CountsNothing
  <2>1. request[s].at # "idle"
    BY <1>6 DEF Register, At
  <2>2. Ends(s) \/ Moves(s, "insert")
    BY <1>6 DEF Register
  <2>3. CASE Moves(s, "insert")
    <3>1. request'[s].at = "insert" /\ \A q \in Slot \ {s} : request'[q] = request[q]
      BY <2>1, <2>3, HandsMove DEF Stage
    <3> QED BY <1>6, <3>1, UnderAfter DEF Register, CountsNothing, NobodyEnters, throttle
  <2> QED BY <1>2, <1>6, <2>2, <2>3 DEF Register, CountsNothing, throttle
<1>7. ASSUME NEW s \in Slot, Gate(s) PROVE CountsNothing \/ Enters(s, request[s].address)
  <2>1. request[s].at # "idle"
    BY <1>7 DEF Gate, At
  <2>2. request[s].address \in Address /\ Login(request[s].address) \in Key
    BY <2>1, BusyAt, KeysOfAddress DEF InHand
  <2>3. CASE Ends(s)
    BY <1>2, <1>7, <2>2, <2>3 DEF Gate, CountsNothing
  <2>4. ASSUME ~Ends(s) PROVE Enters(s, request[s].address)
    <3>1. PICK stage \in Stage : Moves(s, stage)
      BY <1>7, <2>4 DEF Gate, Stage
    <3>2. /\ request'[s].address = request[s].address
          /\ \A q \in Slot \ {s} : request'[q] = request[q]
      BY <2>1, <3>1, HandsMove
    <3>3. \A b \in Address \ {request[s].address} : Under(b)' \subseteq Under(b)
      BY <3>2, UnderAfter
    <3> QED BY <1>7, <2>4, <3>3 DEF Gate, Enters
  <2> QED BY <2>3, <2>4
<1>8. ASSUME NEW s \in Slot, NotAuthenticated(s) \/ PasswordNotConfirmed(s)
      PROVE  Counts(s, request[s].address)
  <2>1. s \in Under(request[s].address)
    BY <1>8 DEF NotAuthenticated, PasswordNotConfirmed, At, Under
  <2> QED BY <1>2, <1>8, <2>1 DEF NotAuthenticated, PasswordNotConfirmed, Counts
<1>9. ASSUME NEW s \in Slot, LookUp(s) PROVE CountsNothing
  <2>1. request[s].at # "idle" /\ request[s].at \in Checking
    BY <1>9 DEF LookUp, At
  <2>2. PICK row : request' = [request EXCEPT ![s] = [@ EXCEPT !.at = "verify", !.row = row]]
    BY <1>9 DEF LookUp
  <2>3. /\ request'[s].at = "verify" /\ request'[s].address = request[s].address
        /\ \A q \in Slot \ {s} : request'[q] = request[q]
    BY <2>1, <2>2, BusyAt DEF Typed, InHand
  <2> QED BY <1>9, <2>1, <2>3, UnderAfter DEF LookUp, CountsNothing, throttle
<1>10. ASSUME NEW s \in Slot,
              \/ Insert(s) \/ Authenticated(s) \/ DeleteAccount(s)
              \/ \E u : Fails(s, u)
       PROVE  CountsNothing
  BY <1>2, <1>10 DEF Insert, Authenticated, DeleteAccount, Fails, CountsNothing, throttle
<1>11. ASSUME NEW s \in Slot, NEW id, HoldersEnded(s, id), UNCHANGED throttle PROVE CountsNothing
  <2>1. \A q \in Slot : \/ request'[q] = Idle
                        \/ request'[q].at = request[q].at /\ request'[q].address = request[q].address
    BY <1>11, HandsEnded
  <2>2. NobodyEnters
    BY <1>1, <2>1 DEF NobodyEnters, Under
  <2> QED BY <1>11, <2>2 DEF CountsNothing, throttle
<1>12. ASSUME \/ Tick \/ (\E t \in token : Forget(t)) \/ (\E u \in user : Disable(u)) \/ UNCHANGED vars
       PROVE  CountsNothing
  BY <1>12 DEF Tick, Forget, Disable, vars, CountsNothing, NobodyEnters, Under, throttle
<1>13. ASSUME NEW s \in Slot, request[s].at # "idle" PROVE request[s].address \in Address
  BY <1>13, BusyAt DEF InHand
<1>14. ASSUME NEW s \in Slot, EndAllSessions(s) \/ ChangePassword(s) PROVE CountsNothing
  BY <1>10, <1>11, <1>14 DEF EndAllSessions, ChangePassword
<1>15. ASSUME NEW s \in Slot, Gate(s) \/ NotAuthenticated(s) \/ PasswordNotConfirmed(s)
       PROVE  CountsNothing \/ \E a \in Address : Enters(s, a) \/ Counts(s, a)
  BY <1>7, <1>8, <1>13, <1>15 DEF Gate, NotAuthenticated, PasswordNotConfirmed, At
<1>16. ASSUME NEW s \in Slot, Serves(s)
       PROVE  \/ CountsNothing
              \/ \E a \in Address : Enters(s, a) \/ Counts(s, a)
              \/ \E a \in Address : Registers(a)
  BY <1>3, <1>4, <1>5, <1>6, <1>9, <1>10, <1>14, <1>15, <1>16 DEF Serves, Proceed
<1> QED BY <1>12, <1>16, NextIs

LEMMA WithinLimitStep ==
  ASSUME Typed, ThrottleInv, WithinLimit, [Next]_vars PROVE WithinLimit'
<1> DEFINE N == Cardinality(Slot)
<1>1. /\ Attempts \in Nat \ {0} /\ N \in Nat /\ now \in 0 .. MaxNow
      /\ Ordered(windows) /\ \A k \in Key : windows[k].attempts \in Nat
  BY ThrottleAssumption, UnderFinite DEF Typed, ThrottleInv, Ordered, WindowState
<1>2. ASSUME NEW a \in Address
      PROVE  /\ Login(a) \in Key /\ Registration(a) \in Key
             /\ Under(a) \in SUBSET Slot /\ Under(a)' \in SUBSET Slot
             /\ Cardinality(Under(a)) \in Nat /\ Cardinality(Under(a)') \in Nat
             /\ Cardinality(Under(a)') <= N
             /\ Under(a)' \subseteq Under(a) => Cardinality(Under(a)') <= Cardinality(Under(a))
             /\ windows[Login(a)].attempts + Cardinality(Under(a)) <= Attempts + N - 1
             /\ windows[Registration(a)].attempts <= Attempts
  <2>1. Under(a) \in SUBSET Slot /\ Under(a)' \in SUBSET Slot
    BY DEF Under
  <2> HIDE DEF N
  <2> QED BY <2>1, UnderFinite, KeysOfAddress DEF WithinLimit, N
<1>3. ASSUME NEW k \in Key
      PROVE  Ordered(windows)' => windows'[k].attempts \in Nat
  BY DEF Ordered, WindowState
<1>4. Ordered(windows)'
  BY ThrottleInvStep DEF ThrottleInv
<1> SUFFICES ASSUME NEW b \in Address
             PROVE  /\ windows'[Login(b)].attempts + Cardinality(Under(b)') <= Attempts + N - 1
                    /\ windows'[Registration(b)].attempts <= Attempts
  BY DEF WithinLimit, Login, Registration, Under
<1> HIDE DEF N
<1>5. windows'[Login(b)].attempts \in Nat /\ windows'[Registration(b)].attempts \in Nat
  BY <1>2, <1>3, <1>4
<1>6. ASSUME NEW k \in Key, NEW ws, ws = windows \/ ws = Asked(windows, k, now)
      PROVE  Ordered(ws) /\ \A j \in Key : ws[j].attempts \in Nat /\ ws[j].attempts <= windows[j].attempts
  <2>1. Ordered(ws)
    BY <1>1, <1>6, AskedFacts
  <2>2. \A j \in Key : ws[j].attempts \in Nat
    BY <2>1 DEF Ordered, WindowState
  <2> QED BY <1>1, <1>6, <2>1, <2>2, AskedFacts
\* One key's attempts grow by one, and no other's.
<1>7. ASSUME NEW k \in Key, NEW ws, Ordered(ws), \A j \in Key : ws[j].attempts \in Nat,
             windows' = Record(ws, k, now)
      PROVE  /\ windows'[k].attempts <= ws[k].attempts + 1
             /\ \A j \in Key \ {k} : windows'[j].attempts <= ws[j].attempts
  <2>1. windows'[k] = Counted(ws, k, now)
    BY <1>1, <1>7, RecordFacts
  <2>2. ws[k] \in WindowState
    BY <1>7 DEF Ordered
  <2>3. Counted(ws, k, now).attempts <= ws[k].attempts + 1
    <3>1. CASE k \notin Kept(ws) \/ Expired(ws, k, now)
      <4>1. Counted(ws, k, now).attempts = 1
        BY <3>1 DEF Counted
      <4> QED BY <1>7, <4>1
    <3>2. CASE ~(k \notin Kept(ws) \/ Expired(ws, k, now))
      <4>1. Counted(ws, k, now) = [ws[k] EXCEPT !.attempts = ws[k].attempts + 1, !.since = {}]
        BY <3>2 DEF Counted
      <4>2. Counted(ws, k, now).attempts = ws[k].attempts + 1
        BY <2>2, <4>1 DEF WindowState
      <4> QED BY <1>7, <4>2
    <3> QED BY <3>1, <3>2
  <2>4. ASSUME NEW j \in Key \ {k} PROVE windows'[j].attempts <= ws[j].attempts
    <3>1. \A i \in Key \ {k} :
            \/ /\ Record(ws, k, now)[i].started = ws[i].started
               /\ Record(ws, k, now)[i].attempts = ws[i].attempts
               /\ Record(ws, k, now)[i].since \subseteq ws[i].since \cup {k}
            \/ /\ Record(ws, k, now)[i] = NoWindow
               /\ Cardinality(ws[i].since \cup {k}) >= Capacity
      BY <1>1, <1>7, RecordFacts
    <3>2. windows'[j].attempts = ws[j].attempts \/ windows'[j] = NoWindow
      BY <1>7, <3>1
    <3> QED BY <1>7, <3>2 DEF NoWindow
  <2> QED BY <2>1, <2>3, <2>4
<1>8. CASE CountsNothing
  <2>1. \A k \in Key : windows'[k].attempts <= windows[k].attempts
    BY <1>1, <1>6, <1>8 DEF CountsNothing, Asks
  <2>2. /\ windows'[Login(b)].attempts <= windows[Login(b)].attempts
        /\ windows'[Registration(b)].attempts <= windows[Registration(b)].attempts
    BY <1>2, <2>1
  <2>3. Cardinality(Under(b)') <= Cardinality(Under(b))
    BY <1>2, <1>8 DEF CountsNothing, NobodyEnters
  <2> QED BY <1>1, <1>2, <1>5, <2>2, <2>3
<1>9. ASSUME NEW s \in Slot, NEW a \in Address, Enters(s, a)
      PROVE  /\ windows'[Login(b)].attempts + Cardinality(Under(b)') <= Attempts + N - 1
             /\ windows'[Registration(b)].attempts <= Attempts
  <2>1. windows' = Asked(windows, Login(a), now) /\ ~Exhausted(windows, Login(a), now)
    BY <1>9 DEF Enters, Asks, Passes
  <2>2. \A k \in Key : windows'[k].attempts <= windows[k].attempts
    BY <1>2, <1>6, <2>1
  <2>3. windows'[Login(a)].attempts < Attempts
    BY <1>1, <1>2, <2>1, AskedFacts
  <2>4. /\ windows'[Login(b)].attempts <= windows[Login(b)].attempts
        /\ windows'[Registration(b)].attempts <= windows[Registration(b)].attempts
    BY <1>2, <2>2
  <2>5. CASE b = a
    BY <1>1, <1>2, <1>5, <2>3, <2>4, <2>5
  <2>6. CASE b # a
    <3>1. Cardinality(Under(b)') <= Cardinality(Under(b))
      BY <1>2, <1>9, <2>6 DEF Enters
    <3> QED BY <1>1, <1>2, <1>5, <2>4, <3>1
  <2> QED BY <2>5, <2>6
<1>10. ASSUME NEW s \in Slot, NEW a \in Address, Counts(s, a)
       PROVE  /\ windows'[Login(b)].attempts + Cardinality(Under(b)') <= Attempts + N - 1
              /\ windows'[Registration(b)].attempts <= Attempts
  <2>1. /\ windows'[Login(a)].attempts <= windows[Login(a)].attempts + 1
        /\ \A k \in Key \ {Login(a)} : windows'[k].attempts <= windows[k].attempts
    BY <1>1, <1>2, <1>7, <1>10 DEF Counts, Records
  <2>2. windows'[Registration(b)].attempts <= windows[Registration(b)].attempts
    BY <1>2, <2>1, KeysApart
  <2>3. CASE b = a
    <3>1. Under(a)' \subseteq Under(a) \ {s} /\ s \in Under(a)
      BY <1>10, <2>3 DEF Counts
    <3>2. Cardinality(Under(a) \ {s}) = Cardinality(Under(a)) - 1
      BY <1>2, <3>1, UnderFinite, FS_RemoveElement
    <3>3. Under(a) \ {s} \in SUBSET Slot
      BY <1>2
    <3>4. Cardinality(Under(a)') <= Cardinality(Under(a) \ {s})
      BY <3>1, <3>3, UnderFinite
    <3> QED BY <1>1, <1>2, <1>5, <2>1, <2>2, <2>3, <3>2, <3>4
  <2>4. CASE b # a
    <3>1. Under(b)' \subseteq Under(b)
      BY <1>10 DEF Counts
    <3>2. windows'[Login(b)].attempts <= windows[Login(b)].attempts
      BY <1>2, <2>1, <2>4, KeysApart
    <3> QED BY <1>1, <1>2, <1>5, <2>2, <3>1, <3>2
  <2> QED BY <2>3, <2>4
<1>11. ASSUME NEW a \in Address, Registers(a)
       PROVE  /\ windows'[Login(b)].attempts + Cardinality(Under(b)') <= Attempts + N - 1
              /\ windows'[Registration(b)].attempts <= Attempts
  <2> DEFINE ws == Asked(windows, Registration(a), now)
  <2>1. /\ Ordered(ws) /\ \A j \in Key : ws[j].attempts \in Nat /\ ws[j].attempts <= windows[j].attempts
    BY <1>2, <1>6
  <2>2. ws[Registration(a)].attempts < Attempts
    BY <1>1, <1>2, <1>11, AskedFacts DEF Registers, Passes
  <2>3. windows' = Record(ws, Registration(a), now)
    BY <1>11 DEF Registers, RecordsAsked
  <2> HIDE DEF ws
  <2>4. /\ windows'[Registration(a)].attempts <= ws[Registration(a)].attempts + 1
        /\ \A k \in Key \ {Registration(a)} : windows'[k].attempts <= ws[k].attempts
    BY <1>2, <1>7, <2>1, <2>3
  <2>5. windows'[Login(b)].attempts <= ws[Login(b)].attempts /\ ws[Login(b)].attempts <= windows[Login(b)].attempts
        /\ ws[Login(b)].attempts \in Nat
    BY <1>2, <2>1, <2>4, KeysApart
  <2>6. Cardinality(Under(b)') <= Cardinality(Under(b))
    BY <1>2, <1>11 DEF Registers, NobodyEnters
  <2>7. CASE b = a
    BY <1>1, <1>2, <1>5, <2>1, <2>2, <2>4, <2>5, <2>6, <2>7
  <2>8. CASE b # a
    <3>1. windows'[Registration(b)].attempts <= ws[Registration(b)].attempts
      BY <1>2, <2>4, <2>8 DEF Registration
    <3>2. ws[Registration(b)].attempts \in Nat /\ ws[Registration(b)].attempts <= windows[Registration(b)].attempts
      BY <1>2, <2>1
    <3> QED BY <1>1, <1>2, <1>5, <2>5, <2>6, <3>1, <3>2
  <2> QED BY <2>7, <2>8
<1> QED BY <1>8, <1>9, <1>10, <1>11, AttemptsAfter

LimitInv == Typed /\ ThrottleInv /\ WithinLimit

LEMMA LimitInvAlways == Spec => []LimitInv
<1>1. Init => LimitInv
  <2> SUFFICES ASSUME Init PROVE WithinLimit
    BY TypesInit DEF LimitInv
  <2>1. \A a \in Address : Under(a) = {}
    BY DEF Init, Under, Checking, Idle
  <2>2. \A k \in Key : windows[k].attempts = 0
    BY DEF Init, Empty, NoWindow
  <2>3. Attempts \in Nat \ {0} /\ Cardinality(Slot) \in Nat /\ Cardinality({}) = 0
    BY ThrottleAssumption, UnderFinite, FS_EmptySet
  <2>4. ASSUME NEW a \in Address
        PROVE  /\ windows[Login(a)].attempts + Cardinality(Under(a)) <= Attempts + Cardinality(Slot) - 1
               /\ windows[Registration(a)].attempts <= Attempts
    <3>1. windows[Login(a)].attempts = 0 /\ windows[Registration(a)].attempts = 0
      BY <2>2, KeysOfAddress
    <3>2. Cardinality(Under(a)) = 0
      BY <2>1, <2>3, Zenon
    <3> QED BY <2>3, <3>1, <3>2
  <2> QED BY <2>4 DEF WithinLimit
<1>2. LimitInv /\ [Next]_vars => LimitInv'
  BY TypedStep, ThrottleInvStep, WithinLimitStep DEF LimitInv
<1> QED BY <1>1, <1>2, PTL DEF Spec

\* Guesses at a password stay within the limit but for the requests under way together, and
\* registrations within it exactly (refuse_exhausted_attempts, AttemptThrottle.record).
THEOREM GuessesAreBounded == Spec => []AttemptsBounded
<1>1. LimitInv => AttemptsBounded
  <2> SUFFICES ASSUME LimitInv, NEW k \in Key
               PROVE  windows[k].attempts <=
                        Attempts + (IF k[1] = "sessions" THEN Cardinality(Slot) - 1 ELSE 0)
    BY DEF AttemptsBounded
  <2>1. PICK a \in Address : k = Login(a) \/ k = Registration(a)
    BY KeysOfAddress
  <2>2. /\ windows[k].attempts \in Nat /\ Attempts \in Nat
        /\ Cardinality(Under(a)) \in Nat /\ Cardinality(Slot) \in Nat
    <3>1. Under(a) \in SUBSET Slot
      BY DEF Under
    <3> QED BY <3>1, UnderFinite, ThrottleAssumption DEF LimitInv, ThrottleInv, Ordered, WindowState
  <2>3. /\ windows[Login(a)].attempts + Cardinality(Under(a)) <= Attempts + Cardinality(Slot) - 1
        /\ windows[Registration(a)].attempts <= Attempts
    BY DEF LimitInv, WithinLimit
  <2>4. CASE k = Login(a)
    <3>1. k[1] = "sessions"
      BY <2>4, KeysApart
    <3> QED BY <2>2, <2>3, <2>4, <3>1
  <2>5. CASE k = Registration(a)
    <3>1. k[1] = "accounts"
      BY <2>5, KeysApart
    <3> QED BY <2>2, <2>3, <2>5, <3>1
  <2> QED BY <2>1, <2>4, <2>5
<1> QED BY <1>1, LimitInvAlways, PTL

-----------------------------------------------------------------------------
(* Refusals.                                                               *)

\* A caller who waits as long as it is told finds the refusal over.
LEMMA WaitIsEnough ==
  ASSUME NEW ws, Ordered(ws), NEW k \in Key, NEW t \in 0 .. MaxNow, Exhausted(ws, k, t)
  PROVE  ~Exhausted(ws, k, t + 2 * RetryAfter(ws, k, t))
<1>1. ws[k].started \in Nat /\ Window \in Nat /\ t \in Nat
  BY ThrottleAssumption, AccountsAssumption DEF Ordered, WindowState
<1> DEFINE R == Remaining(ws, k, t)
           W == RetryAfter(ws, k, t)
<1>2. R \in Int /\ R = Window - (t - ws[k].started) /\ W = (R + 1) \div 2
  BY <1>1 DEF Remaining, RetryAfter
<1>3. Remaining(ws, k, t + 2 * W) = Window - ((t + 2 * W) - ws[k].started)
  BY DEF Remaining
<1> HIDE DEF R, W
<1>4. W \in Int /\ 2 * W >= R
  BY <1>2
<1>5. Remaining(ws, k, t + 2 * W) <= 0
  BY <1>1, <1>2, <1>3, <1>4
<1> QED BY <1>5 DEF Exhausted, Expired, W

\* A refusal is not put off by attempts under way, nor lifted before its window ends but by
\* Capacity other keys; and the wait the caller is told is enough (AttemptThrottle.retry_after).
THEOREM RefusalLasts == Spec => RefusalIsKept
<1> DEFINE Lasts == Exhausted(windows, Watched, now) =>
                      \/ /\ Exhausted(windows', Watched, now')
                         /\ windows'[Watched].started = windows[Watched].started
                      \/ now' - windows[Watched].started >= Window
                      \/ Cardinality(others') >= Capacity
           Over == \A k \in Key : Exhausted(windows, k, now) =>
                     ~Exhausted(windows, k, now + 2 * RetryAfter(windows, k, now))
<1>1. LimitInv => Over
  BY WaitIsEnough DEF LimitInv, ThrottleInv, Typed
<1>2. LimitInv /\ LimitInv' /\ [Next]_vars => Lasts
  <2> SUFFICES ASSUME LimitInv, LimitInv', [Next]_vars, Exhausted(windows, Watched, now),
                      ~(now' - windows[Watched].started >= Window),
                      ~(Cardinality(others') >= Capacity)
               PROVE  /\ Exhausted(windows', Watched, now')
                      /\ windows'[Watched].started = windows[Watched].started
    OBVIOUS
  <2>1. /\ Typed /\ Ordered(windows) /\ windows[Watched].since \subseteq others
        /\ now \in 0 .. MaxNow /\ Watched \in Key /\ Window \in Nat \ {0}
        /\ Attempts \in Nat \ {0} /\ Capacity \in Nat \ {0}
    BY AccountsAssumption, ThrottleAssumption DEF LimitInv, ThrottleInv, Typed
  <2>2. /\ windows[Watched] \in WindowState /\ windows[Watched].started \in Nat
        /\ windows[Watched].attempts \in Nat /\ windows[Watched].attempts >= Attempts
        /\ Watched \in Kept(windows) /\ ~Expired(windows, Watched, now)
    BY <2>1 DEF Ordered, WindowState, Exhausted
  <2>3. /\ now' \in Nat /\ others' \in SUBSET Key
        /\ windows'[Watched] \in WindowState /\ windows'[Watched].attempts \in Nat
    BY <2>1, AccountsAssumption DEF LimitInv, ThrottleInv, Typed, Ordered, WindowState
  \* The window that goes on, with no attempt less, still refuses.
  <2>4. SUFFICES /\ windows'[Watched].started = windows[Watched].started
                 /\ windows'[Watched].attempts >= windows[Watched].attempts
    BY <2>1, <2>2, <2>3 DEF Exhausted, Expired, Kept, Remaining
  <2>5. CASE UNCHANGED <<windows, others>>
    BY <2>2, <2>5
  <2>6. ASSUME NEW k \in Key
        PROVE  /\ Asked(windows, k, now)[Watched].started = windows[Watched].started
               /\ Asked(windows, k, now)[Watched].attempts = windows[Watched].attempts
               /\ Asked(windows, k, now)[Watched].since \subseteq others
               /\ Ordered(Asked(windows, k, now)) /\ ~Expired(Asked(windows, k, now), Watched, now)
    <3>1. k = Watched => ~Expired(windows, k, now)
      BY <2>2
    <3>2. /\ Asked(windows, k, now)[Watched].started = windows[Watched].started
          /\ Asked(windows, k, now)[Watched].attempts = windows[Watched].attempts
          /\ Asked(windows, k, now)[Watched].since \subseteq others
          /\ Ordered(Asked(windows, k, now))
      BY <2>1, <3>1, AskedFacts
    <3> QED BY <2>1, <2>2, <3>2 DEF Expired, Kept, Remaining
  <2>7. ASSUME NEW k \in Key, NEW ws, Ordered(ws),
               ws[Watched].started = windows[Watched].started,
               ws[Watched].attempts = windows[Watched].attempts,
               ws[Watched].since \subseteq others, ~Expired(ws, Watched, now),
               windows' = Record(ws, k, now), others' = WatchedAfter(k)
        PROVE  /\ windows'[Watched].started = windows[Watched].started
               /\ windows'[Watched].attempts >= windows[Watched].attempts
    <3>1. CASE k = Watched
      <4>1. windows'[Watched] = Counted(ws, Watched, now)
        BY <2>1, <2>7, <3>1, RecordFacts
      <4>2. Counted(ws, Watched, now) = [ws[Watched] EXCEPT !.attempts = ws[Watched].attempts + 1, !.since = {}]
        BY <2>1, <2>2, <2>7 DEF Counted, Kept
      <4>3. ws[Watched] \in WindowState
        BY <2>1, <2>7 DEF Ordered
      <4> QED BY <2>2, <2>7, <4>1, <4>2, <4>3 DEF WindowState
    <3>2. CASE k # Watched
      <4>1. \A i \in Key \ {k} :
              \/ /\ Record(ws, k, now)[i].started = ws[i].started
                 /\ Record(ws, k, now)[i].attempts = ws[i].attempts
                 /\ Record(ws, k, now)[i].since \subseteq ws[i].since \cup {k}
              \/ /\ Record(ws, k, now)[i] = NoWindow
                 /\ Cardinality(ws[i].since \cup {k}) >= Capacity
        BY <2>1, <2>7, RecordFacts
      <4>2. \/ /\ windows'[Watched].started = ws[Watched].started
               /\ windows'[Watched].attempts = ws[Watched].attempts
            \/ Cardinality(ws[Watched].since \cup {k}) >= Capacity
        BY <2>1, <2>7, <3>2, <4>1
      <4>3. ws[Watched].since \cup {k} \subseteq others'
        BY <2>7, <3>2 DEF WatchedAfter
      <4>4. /\ Cardinality(ws[Watched].since \cup {k}) <= Cardinality(others')
            /\ Cardinality(ws[Watched].since \cup {k}) \in Nat /\ Cardinality(others') \in Nat
        BY <2>3, <4>3, SinceFinite
      <4> QED BY <2>1, <2>2, <2>7, <4>2, <4>4
    <3> QED BY <3>1, <3>2
  <2>8. ASSUME NEW k \in Key, Asks(k) \/ Records(k) \/ RecordsAsked(k)
        PROVE  /\ windows'[Watched].started = windows[Watched].started
               /\ windows'[Watched].attempts >= windows[Watched].attempts
    BY <2>1, <2>2, <2>6, <2>7, <2>8 DEF Asks, Records, RecordsAsked
  <2> QED BY <2>1, <2>5, <2>8, ThrottleAfter
<1>3. LimitInv /\ LimitInv' /\ [Next]_vars =>
        [/\ Exhausted(windows, Watched, now) =>
              \/ Exhausted(windows', Watched, now') /\ windows'[Watched].started = windows[Watched].started
              \/ now' - windows[Watched].started >= Window
              \/ Cardinality(others') >= Capacity
         /\ \A k \in Key : Exhausted(windows, k, now) =>
              ~Exhausted(windows, k, now + 2 * RetryAfter(windows, k, now))]_vars
  BY <1>1, <1>2
<1> QED BY <1>3, LimitInvAlways, PTL DEF Spec, RefusalIsKept
===============================================================================
