------------------------------- MODULE Accounts -------------------------------
(***************************************************************************)
(* Accounts and their sessions: registration, sign-in, ending every        *)
(* session, changing the password and deleting the account                 *)
(* (app/modules/accounts, api/routes/accounts.py and me.py), with the      *)
(* throttle in front of the password checks.  Requests interleave at their *)
(* awaits, and each goes by the row it has in memory.  Whether the         *)
(* password offered is that of the row is a choice, made when it is        *)
(* checked: passwords themselves are left out.                             *)
(*                                                                         *)
(* Signing out one device only forgets its cookie, and a token that runs   *)
(* out is one browser less that holds one: both are Forget.                *)
(***************************************************************************)
EXTENDS LoginThrottle

CONSTANTS
  Address,     \* normalized e-mail addresses
  Slot,        \* the requests the process serves at once
  Watched,     \* the key whose attempts are watched
  MaxVersion,  \* bound: token_version
  MaxAccount,  \* bound: the accounts ever created
  MaxToken,    \* bound: the tokens held at once
  MaxNow       \* bound: the clock

ASSUME AccountsAssumption ==
  /\ Key = {"accounts", "sessions"} \X Address /\ Watched \in Key /\ IsFiniteSet(Slot)
  /\ MaxVersion \in Nat \ {0} /\ MaxAccount \in Nat /\ MaxNow \in Nat
  /\ MaxToken \in Nat

VARIABLES
  user,     \* the users table
  created,  \* how many accounts there ever were: each id is new
  token,    \* the session tokens browsers hold
  request,  \* what each slot is doing
  overran,  \* ghost: accounts of which one sign-out wrote over another it had not read
  windows,  \* the throttle
  now,      \* time.monotonic
  others    \* ghost: the keys recorded since the watched key was

accounts == <<user, created, token, overran>>
throttle == <<windows, others>>
vars == <<user, created, token, request, overran, windows, now, others>>

AccountId == 1 .. MaxAccount
Version == 1 .. MaxVersion
User == [id : AccountId, address : Address, version : Version, active : BOOLEAN]

\* SessionClaims, and whether every session of the account was ended since they were read.
Token == [id : AccountId, version : Version, ended : BOOLEAN]

\* What a handler has in hand: the address it is asked about, the row it read, if it found
\* one, and whether every session of the account was ended since.
Stage == {"register", "insert", "look_up", "verify", "change_gate", "change", "delete_gate",
          "delete", "erase", "end"}
Idle == [at |-> "idle"]
Request == {Idle} \cup [at : Stage, address : Address, row : SUBSET User, ended : BOOLEAN]
At(s, stage) == request[s].at = stage

Registered(address) == {u \in user : u.address = address}

Moves(s, stage) == request' = [request EXCEPT ![s].at = stage]
Ends(s) == request' = [request EXCEPT ![s] = Idle]
Begins(s, stage, address, row) ==
  /\ request[s] = Idle
  /\ request' = [request EXCEPT ![s] = [at |-> stage, address |-> address, row |-> row,
                                        ended |-> FALSE]]

-----------------------------------------------------------------------------
(* The throttle in front of a password check.                              *)

Login(address) == <<"sessions", address>>
Registration(address) == <<"accounts", address>>

\* refuse_exhausted_attempts
Passes(k) == ~Exhausted(windows, k, now)
Asks(k) == windows' = Asked(windows, k, now) /\ UNCHANGED others

WatchedAfter(k) == IF k = Watched THEN {} ELSE others \cup {k}
Records(k) == windows' = Record(windows, k, now) /\ others' = WatchedAfter(k)

-----------------------------------------------------------------------------
(* Registration.                                                           *)

\* Every attempt counts, and is counted before anything is awaited.
CreateAccount(s, address) ==
  LET k == Registration(address)
  IN /\ Passes(k) /\ Begins(s, "register", address, {})
     /\ windows' = Record(Asked(windows, k, now), k, now) /\ others' = WatchedAfter(k)
     /\ UNCHANGED <<accounts, now>>

\* The pre-check, and then the hash.
Register(s) ==
  /\ At(s, "register")
  /\ IF Registered(request[s].address) = {} THEN Moves(s, "insert") ELSE Ends(s)
  /\ UNCHANGED <<accounts, throttle, now>>

NewAccount(address) ==
  [id |-> created + 1, address |-> address, version |-> 1, active |-> TRUE]

\* slip: the pre-check is left to stand for the constraint
InsertUnchecked(s) ==
  /\ At(s, "insert") /\ created < MaxAccount
  /\ Ends(s) /\ created' = created + 1
  /\ user' = user \cup {NewAccount(request[s].address)}
  /\ UNCHANGED <<token, overran, throttle, now>>

\* uq_users_normalized_email refuses the later of two registrations.
Insert(s) ==
  /\ At(s, "insert") /\ created < MaxAccount
  /\ Ends(s)
  /\ IF Registered(request[s].address) # {} THEN UNCHANGED <<user, created>>
     ELSE /\ created' = created + 1
          /\ user' = user \cup {NewAccount(request[s].address)}
  /\ UNCHANGED <<token, overran, throttle, now>>

-----------------------------------------------------------------------------
(* Sessions.                                                               *)

\* The gate of log_in stands before the account is looked up.
LogIn(s, address) ==
  /\ Passes(Login(address)) /\ Begins(s, "look_up", address, {})
  /\ Asks(Login(address))
  /\ UNCHANGED <<accounts, now>>

\* The row is read, and then the password hashed in a thread.
LookUp(s) ==
  /\ At(s, "look_up")
  /\ \E row \in SUBSET Registered(request[s].address) :
       /\ Cardinality(row) <= 1 /\ (row = {} => Registered(request[s].address) = {})
       /\ request' = [request EXCEPT ![s] = [@ EXCEPT !.at = "verify", !.row = row]]
  /\ UNCHANGED <<accounts, throttle, now>>

\* The password does not match, the account is disabled, or there is none.
NotAuthenticated(s) ==
  /\ At(s, "verify") /\ Ends(s)
  /\ Records(Login(request[s].address))
  /\ UNCHANGED <<accounts, now>>

\* slip: the generation is read when the token is issued
AuthenticatedLate(s) ==
  /\ At(s, "verify") /\ Ends(s)
  /\ \E u \in request[s].row, r \in user :
       /\ u.active /\ r.id = u.id /\ Cardinality(token) < MaxToken
       /\ token' = token \cup {[id |-> u.id, version |-> r.version, ended |-> request[s].ended]}
  /\ UNCHANGED <<user, created, overran, throttle, now>>

Authenticated(s) ==
  /\ At(s, "verify") /\ Ends(s)
  /\ \E u \in request[s].row :
       /\ u.active /\ Cardinality(token) < MaxToken
       /\ token' = token \cup {[id |-> u.id, version |-> u.version, ended |-> request[s].ended]}
  /\ UNCHANGED <<user, created, overran, throttle, now>>

\* current_user: the account is there, not disabled, and of the generation of the token.
Accepted(t, u) == u.id = t.id /\ u.active /\ u.version = t.version

SignedIn(s, stage) ==
  /\ \E t \in token, u \in user : Accepted(t, u) /\ Begins(s, stage, u.address, {u})
  /\ UNCHANGED <<accounts, throttle, now>>

\* A cookie is cleared, is lost, or carries a token that has run out.
Forget(t) ==
  /\ token' = token \ {t}
  /\ UNCHANGED <<user, created, request, overran, throttle, now>>

\* An administrator disables the account.
Disable(u) ==
  /\ u.active
  /\ user' = (user \ {u}) \cup {[u EXCEPT !.active = FALSE]}
  /\ UNCHANGED <<created, token, request, overran, throttle, now>>

-----------------------------------------------------------------------------
(* Ending every session.                                                   *)

\* What no longer counts once every session of an account was ended.
Ended(tokens, id) == {[t EXCEPT !.ended = t.ended \/ t.id = id] : t \in tokens}
HoldersEnded(s, id) ==
  request' = [q \in Slot |->
    IF q = s THEN Idle
    ELSE IF request[q] # Idle /\ \E u \in request[q].row : u.id = id
      THEN [request[q] EXCEPT !.ended = TRUE] ELSE request[q]]

\* The update of the columns that changed, with the value the request has in memory.
Saves(u) ==
  user' = {IF r.id = u.id THEN [r EXCEPT !.version = u.version + 1] ELSE r : r \in user}

\* The row is gone: the update finds nothing to update and the request fails.
Fails(s, u) ==
  /\ \A r \in user : r.id # u.id
  /\ Ends(s) /\ UNCHANGED <<accounts, throttle, now>>

Overruns(u) ==
  overran' = overran \cup {r.id : r \in {r \in user : r.id = u.id /\ r.version # u.version}}

\* end_all_sessions
EndAllSessions(s) ==
  /\ At(s, "end")
  /\ \E u \in request[s].row :
       \/ Fails(s, u)
       \/ /\ \E r \in user : r.id = u.id
          /\ u.version < MaxVersion
          /\ Saves(u) /\ Overruns(u)
          /\ token' = Ended(token, u.id) /\ HoldersEnded(s, u.id)
          /\ UNCHANGED <<created, throttle, now>>

\* The checks of the two routes that ask for the password again.
Gate(s) ==
  /\ At(s, "change_gate") \/ At(s, "delete_gate")
  /\ Asks(Login(request[s].address))
  /\ IF Passes(Login(request[s].address))
       THEN Moves(s, IF At(s, "change_gate") THEN "change" ELSE "delete")
       ELSE Ends(s)
  /\ UNCHANGED <<accounts, now>>

PasswordNotConfirmed(s) ==
  /\ At(s, "change") \/ At(s, "delete")
  /\ Ends(s) /\ Records(Login(request[s].address))
  /\ UNCHANGED <<accounts, now>>

\* The password matches the row in memory; the new one and the next generation are written,
\* and this browser is issued a token of that generation.
ChangePassword(s) ==
  /\ At(s, "change")
  /\ \E u \in request[s].row :
       \/ Fails(s, u)
       \/ /\ \E r \in user : r.id = u.id
          /\ u.version < MaxVersion /\ Cardinality(token) < MaxToken
          /\ Saves(u) /\ Overruns(u)
          /\ token' = Ended(token, u.id)
                        \cup {[id |-> u.id, version |-> u.version + 1, ended |-> FALSE]}
          /\ HoldersEnded(s, u.id)
          /\ UNCHANGED <<created, throttle, now>>

\* The row is taken FOR UPDATE, the files removed and the row deleted; a file that cannot be
\* removed, or a row that is gone, leaves everything as it is.
DeleteAccount(s) ==
  /\ At(s, "delete") /\ Ends(s)
  /\ \/ UNCHANGED user
     \/ \E u \in request[s].row : user' = {r \in user : r.id # u.id}
  /\ UNCHANGED <<created, token, overran, throttle, now>>

Tick ==
  /\ now < MaxNow /\ now' = now + 1
  /\ UNCHANGED <<accounts, request, throttle>>

-----------------------------------------------------------------------------
Init ==
  /\ user = {} /\ created = 0 /\ token = {} /\ overran = {}
  /\ request = [s \in Slot |-> Idle]
  /\ windows = Empty /\ others = {} /\ now = 0

Proceed(s) ==
  \/ Register(s) \/ Insert(s)
  \/ LookUp(s) \/ NotAuthenticated(s) \/ Authenticated(s)
  \/ Gate(s) \/ PasswordNotConfirmed(s) \/ ChangePassword(s) \/ DeleteAccount(s)
  \/ EndAllSessions(s)

Next ==
  \/ Tick
  \/ \E t \in token : Forget(t)
  \/ \E u \in user : Disable(u)
  \/ \E s \in Slot :
       \/ Proceed(s)
       \/ \E address \in Address : CreateAccount(s, address) \/ LogIn(s, address)
       \/ \E stage \in {"change_gate", "delete_gate", "end"} : SignedIn(s, stage)

Spec == Init /\ [][Next]_vars

-----------------------------------------------------------------------------
(* Properties.                                                             *)

\* Every variable keeps its type, and the throttle no more keys than its capacity.
TypeOK ==
  /\ user \subseteq User /\ created \in 0 .. MaxAccount /\ token \subseteq Token
  /\ request \in [Slot -> Request]
  /\ overran \subseteq AccountId /\ now \in 0 .. MaxNow /\ others \subseteq Key \ {Watched}
  /\ windows \in [Key -> [started : 0 .. MaxNow, attempts : Nat, since : SUBSET Key]]
  /\ Cardinality(Kept(windows)) <= Capacity

\* Two registrations of one address that both passed the pre-check make one account.
OneAccountPerAddress == \A u, v \in user : u.address = v.address => u = v

\* Ending every session of an account ends them for good: neither a token issued before it nor
\* one issued for a password checked before it is accepted again, as long as no sign-out wrote
\* over another that it had not read (end_all_sessions, change_password).
EndedStaysEnded ==
  \A t \in token, u \in user : t.ended /\ u.id \notin overran => ~Accepted(t, u)

\* The attempts counted in a window stay within the limit: exactly for registration, and but for
\* the requests under way together for the password checks, which are counted after the hash.
AttemptsBounded ==
  \A k \in Key : windows[k].attempts <= Attempts + (IF k[1] = "sessions" THEN Cardinality(Slot) - 1 ELSE 0)

\* A refusal lasts to the end of its window and no longer: it is not put off by the attempts of
\* requests already under way, it is not lifted early unless Capacity other keys pushed the
\* address out, and a caller who waits as long as it is told finds it over.
RefusalIsKept ==
  [][/\ Exhausted(windows, Watched, now) =>
          \/ Exhausted(windows', Watched, now') /\ windows'[Watched].started = windows[Watched].started
          \/ now' - windows[Watched].started >= Window
          \/ Cardinality(others') >= Capacity
     /\ \A k \in Key : Exhausted(windows, k, now) =>
          ~Exhausted(windows, k, now + 2 * RetryAfter(windows, k, now))]_vars
===============================================================================
