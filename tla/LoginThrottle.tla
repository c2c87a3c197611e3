----------------------------- MODULE LoginThrottle -----------------------------
(***************************************************************************)
(* The windows of attempts the API keeps in memory (api/throttle.py): a    *)
(* fixed window per key, for at most Capacity keys.  Time is counted in    *)
(* half seconds, so that a whole second told to a caller is not exact.     *)
(*                                                                         *)
(* The OrderedDict is a function on all keys; `since` are the keys used    *)
(* after this one, which is the order of the dictionary.                   *)
(***************************************************************************)
EXTENDS Integers, FiniteSets

CONSTANTS
  Key,       \* what attempts are counted against
  Attempts,  \* how many attempts a window allows
  Window,    \* how long it lasts
  Capacity   \* how many keys are kept

ASSUME ThrottleAssumption ==
  /\ IsFiniteSet(Key)
  /\ Attempts \in Nat \ {0} /\ Window \in Nat \ {0} /\ Capacity \in Nat \ {0}

NoWindow == [started |-> 0, attempts |-> 0, since |-> {}]
Empty == [k \in Key |-> NoWindow]
Kept(ws) == {k \in Key : ws[k].attempts > 0}

\* A key leaves the dictionary.
Drop(ws, gone) ==
  [k \in Key |-> IF k \in gone THEN NoWindow ELSE [ws[k] EXCEPT !.since = @ \ gone]]

Remaining(ws, k, now) == Window - (now - ws[k].started)
Expired(ws, k, now) == k \in Kept(ws) /\ Remaining(ws, k, now) <= 0

\* slip: one attempt more is let through
ExhaustedLater(ws, k, now) ==
  k \in Kept(ws) /\ ~Expired(ws, k, now) /\ ws[k].attempts > Attempts

\* The caller is told to wait: retry_after is not None.
Exhausted(ws, k, now) ==
  k \in Kept(ws) /\ ~Expired(ws, k, now) /\ ws[k].attempts >= Attempts

\* max(1, ceil(remaining)), in seconds
RetryAfter(ws, k, now) == (Remaining(ws, k, now) + 1) \div 2

\* What asking leaves behind: an expired window is deleted.
Asked(ws, k, now) == IF Expired(ws, k, now) THEN Drop(ws, {k}) ELSE ws

\* slip: every attempt begins the window again
CountedSliding(ws, k, now) == [started |-> now, attempts |-> ws[k].attempts + 1, since |-> {}]

\* The window of `k` after one attempt more, at the end of the order.
Counted(ws, k, now) ==
  IF k \notin Kept(ws) \/ Expired(ws, k, now)
    THEN [started |-> now, attempts |-> 1, since |-> {}]
    ELSE [ws[k] EXCEPT !.attempts = @ + 1, !.since = {}]

Record(ws, k, now) ==
  LET counted == [j \in Key |->
        IF j = k THEN Counted(ws, k, now)
        ELSE IF j \in Kept(ws) THEN [ws[j] EXCEPT !.since = @ \cup {k}]
        ELSE ws[j]]
  IN Drop(counted, {j \in Kept(counted) : Cardinality(counted[j].since) >= Capacity})
===============================================================================
