---------------------------- MODULE BoardRegistry ----------------------------
(***************************************************************************)
(* One provider's rows of the table `job_boards` and the three parties     *)
(* that write them: the ingestion run, which walks the boards the registry *)
(* names and then records what each answered (boards/pipeline.py,          *)
(* boards/lifecycle.py); the discovery run, which guesses a slug for each  *)
(* company and asks who answers there (boards/discovery_run.py); and an    *)
(* operator (boards/operator.py).                                          *)
(*                                                                         *)
(* Discovery asks the network twice for one company: before it reads the   *)
(* row it will write, and between reading and writing it, when a verifier  *)
(* or the company's website is asked.  Nothing locks the row meanwhile,    *)
(* and SQLAlchemy writes the columns whose value changed since the read.   *)
(* A poll and an operator's command read and write without a wait between. *)
(***************************************************************************)
EXTENDS Naturals, FiniteSets

CONSTANTS
  Company,
  Slug,           \* the boards a provider could host
  NoCompany, NoSlug,
  Guesses,        \* the slugs a company's name suggests
  NamedAs,        \* what a hook can say of a board it names on its own
  InactiveAfter,  \* failing polls in a row that retire a board; 3 in the code
  MaxFailures,    \* the bound of consecutive_failures
  Handled,        \* the boards an operator touches
  Overlap         \* whether others write while discovery has a row in hand

ASSUME BoardAssumption ==
  /\ NoCompany \notin Company /\ NoSlug \notin Slug
  /\ Guesses \in [Company -> (SUBSET Slug) \ {{}}]
  /\ NamedAs \subseteq {"confirmed", "named", "wrong_company"}
  /\ Handled \subseteq Slug
  /\ InactiveAfter \in Nat \ {0} /\ MaxFailures \in Nat
  /\ Overlap \in BOOLEAN

VARIABLES
  boards,  \* the table job_boards, keyed by slug
  disc,    \* the discovery run
  poll     \* the ingestion run, as far as the registry sees it

vars == <<boards, disc, poll>>

-----------------------------------------------------------------------------
\* (A definition marked `slip` is the next one with a likely mistake in the code; each breaks
\* a property below.)

BoardStatus == {"candidate", "confirmed", "named", "wrong_company", "not_found",
                "unreachable", "inactive", "blocked"}
SettledStatus == {"blocked", "wrong_company"}
OwnedStatus == {"confirmed", "named"}

\* The kind of evidence behind a row: an operator's word; the name a board states
\* (provider_name, site_title); a link from the company's website (website_link,
\* website_redirect, website_self); or what names nobody (unverified, not_found, unreachable).
Kind == {"none", "operator", "name", "link", "void"}

JobBoard == [status : BoardStatus \cup {"absent"}, company : Company \cup {NoCompany},
             kind : Kind, pinned : BOOLEAN, failures : Nat]
AbsentBoard == [status |-> "absent", company |-> NoCompany, kind |-> "none",
                pinned |-> FALSE, failures |-> 0]

\* What a probe comes to, and the evidence it leaves.
Verdict == {<<"confirmed", "name">>, <<"confirmed", "link">>, <<"named", "name">>,
            <<"wrong_company", "name">>, <<"unverifiable", "void">>,
            <<"not_found", "void">>, <<"unreachable", "void">>}
DiscoveryOutcome == {v[1] : v \in Verdict}

\* The companies still due, the slugs not to ask, and the probe under way: its company, the
\* slug it is keyed on, what the feed said, and the row as register read it.
DiscState == [phase : {"idle", "between", "guessed", "looked", "died"},
              todo : SUBSET Company, skip : SUBSET Slug,
              company : Company \cup {NoCompany}, slug : Slug \cup {NoSlug},
              outcome : DiscoveryOutcome, read : JobBoard]
IdleDisc == [phase |-> "idle", todo |-> {}, skip |-> {}, company |-> NoCompany,
             slug |-> NoSlug, outcome |-> "not_found", read |-> AbsentBoard]

PollState == [walking : BOOLEAN, slugs : SUBSET Slug]
IdlePoll == [walking |-> FALSE, slugs |-> {}]

Exists(b) == boards[b].status # "absent"

\* polled_slugs.
InWalk(b) ==
  boards[b].status # "blocked" /\ (boards[b].status \in OwnedStatus \/ boards[b].pinned)

Init ==
  /\ boards = [b \in Slug |-> AbsentBoard]
  /\ disc = IdleDisc
  /\ poll = IdlePoll

-----------------------------------------------------------------------------
(* What register makes of a row, the row taken as it was read.              *)

\* slip: a board with a matching name only is not yet anyone's.
OwnedByOtherNot(row, c) == row.company \notin {c, NoCompany} /\ row.status = "confirmed"
OwnedByOther(row, c) == row.company \notin {c, NoCompany} /\ row.status \in OwnedStatus
\* slip: only another company's board is refused.
RefusesOwnedOnly(row, c) == OwnedByOther(row, c)
Refuses(row, c) == row.status \in SettledStatus \/ OwnedByOther(row, c)
Trusted(row, c) == ~row.pinned /\ row.company = c /\ row.status \in OwnedStatus

\* slip: any evidence but none counts as naming a company.
RevivedUnasked(row) == IF row.pinned \/ row.kind # "none" THEN "confirmed" ELSE "candidate"

\* The status a board that answers again earns back.
Revived(row) ==
  IF row.pinned \/ (row.kind \notin {"operator", "none"} /\ row.company # NoCompany)
  THEN "confirmed" ELSE "candidate"

\* A recheck of a row this company already holds: silence changes nothing, and what cannot be
\* verified again falls back to what its old evidence is worth.
Rechecked(row, v) ==
  CASE v[1] = "confirmed" -> [row EXCEPT !.status = "confirmed", !.kind = v[2]]
    [] v[1] = "named" -> [row EXCEPT !.kind = v[2]]
    [] v[1] = "wrong_company" -> [row EXCEPT !.status = "wrong_company", !.kind = v[2]]
    [] v[1] = "unverifiable" ->
         [row EXCEPT !.status = IF row.kind = "name" THEN "named" ELSE "candidate", !.kind = v[2]]
    [] OTHER -> row

\* A first guess: the row becomes this company's, whatever unproven state it was in.
FirstGuessed(row, c, v) ==
  LET mine == [row EXCEPT !.company = c, !.kind = v[2]]
      back == row.status = "inactive"
  IN  CASE v[1] = "confirmed" ->
             [mine EXCEPT !.status = IF back THEN Revived(mine) ELSE "confirmed",
                          !.failures = IF back THEN 0 ELSE row.failures]
        [] v[1] = "named" ->
             [mine EXCEPT !.status = "named", !.failures = IF back THEN 0 ELSE row.failures]
        [] v[1] = "unverifiable" -> [mine EXCEPT !.status = "candidate"]
        [] OTHER -> [mine EXCEPT !.status = v[1]]

\* slip: a pinned row is written like any other.
RegisteredUnpinned(row, c, v) ==
  IF Trusted(row, c) THEN Rechecked(row, v) ELSE FirstGuessed(row, c, v)

Registered(row, c, v) ==
  IF row.pinned THEN row
  ELSE IF Trusted(row, c) THEN Rechecked(row, v) ELSE FirstGuessed(row, c, v)

\* _register_named: the row of a board that a verifier or the website named.
RegisteredNamed(row, c, outcome) ==
  LET kind == IF outcome = "confirmed" THEN "link" ELSE "name"
      mine == [row EXCEPT !.company = c, !.kind = kind]
      back == row.status = "inactive"
  IN  IF Refuses(row, c) \/ row.pinned THEN row
      ELSE IF outcome = "confirmed" /\ back
           THEN [mine EXCEPT !.status = Revived(mine), !.failures = 0]
           ELSE [mine EXCEPT !.status = outcome]

\* Evidence without the time of the check can equal what the row had: it then is no change.
Repeats(read, wrote) ==
  /\ wrote.status \in {"not_found", "unreachable", "wrong_company"}
  /\ wrote.kind = read.kind /\ ~read.pinned

\* What an UPDATE of the columns whose value changed since the read can leave of a row.
MergedRows(row, read, wrote) ==
  {[row EXCEPT !.status = IF wrote.status # read.status THEN wrote.status ELSE @,
               !.company = IF wrote.company # read.company THEN wrote.company ELSE @,
               !.failures = IF wrote.failures # read.failures THEN wrote.failures ELSE @,
               !.kind = kind] :
     kind \in {wrote.kind} \cup {k \in {row.kind} : Repeats(read, wrote)}}

-----------------------------------------------------------------------------
(* The discovery run.                                                       *)

\* A company with a blocked or wrong-company row is never due; any other may be, its rows'
\* cadence being left open.
MayBeDue(c) == \A b \in Slug : boards[b].company = c => boards[b].status \notin SettledStatus

StartDiscovery ==
  /\ disc.phase \in {"idle", "died"}
  /\ \E due \in SUBSET {c \in Company : MayBeDue(c)} :
       disc' = [IdleDisc EXCEPT !.phase = "between", !.todo = due,
                  !.skip = {b \in Slug : boards[b].status \in SettledStatus}]
  /\ UNCHANGED <<boards, poll>>

\* The slugs a probe without an answer may be keyed on: a guess that was asked, if any was.
KeysOf(c) == IF Guesses[c] \subseteq disc.skip THEN Guesses[c] ELSE Guesses[c] \ disc.skip

\* discover: the guesses are asked in turn, what the feeds say is one outcome and one slug.
Guess(c) ==
  /\ disc.phase = "between" /\ c \in disc.todo
  /\ \E b \in KeysOf(c), outcome \in DiscoveryOutcome \ {"named"} :
       /\ b \in disc.skip => outcome = "not_found"
       /\ disc' = [disc EXCEPT !.phase = "guessed", !.todo = disc.todo \ {c}, !.company = c,
                               !.slug = b, !.outcome = outcome]
  /\ UNCHANGED <<boards, poll>>

NextCompany == [IdleDisc EXCEPT !.phase = "between", !.todo = disc.todo, !.skip = disc.skip]

\* register reads the row, and leaves it alone if it is settled or another company's.
Look ==
  /\ disc.phase = "guessed"
  /\ disc' = IF Refuses(boards[disc.slug], disc.company)
             THEN NextCompany
             ELSE [disc EXCEPT !.phase = "looked", !.read = boards[disc.slug]]
  /\ UNCHANGED <<boards, poll>>

\* What verify can make of the feed's outcome: an unverifiable guess may turn out otherwise.
Verified(outcome) ==
  CASE outcome = "unverifiable" ->
         {v \in Verdict : v \in {<<"confirmed", "link">>, <<"named", "name">>,
                                 <<"wrong_company", "name">>, <<"unverifiable", "void">>}}
    [] outcome = "confirmed" -> {<<"confirmed", "name">>}
    [] OTHER -> {v \in Verdict : v[1] = outcome}

NoName == [slug |-> NoSlug, outcome |-> "confirmed"]

\* The board named on the side: by verify, another than the guess and in place of a verdict;
\* by locate, after a guess nobody answered for, unless the row was trusted.
Names(v) ==
  {NoName} \cup
  IF disc.read.pinned THEN {}
  ELSE CASE disc.outcome = "unverifiable" /\ v[1] = "unverifiable" ->
              [slug : Slug \ {disc.slug}, outcome : NamedAs]
         [] disc.outcome = "not_found" /\ ~Trusted(disc.read, disc.company) ->
              [slug : Slug, outcome : NamedAs]
         [] OTHER -> {}

\* uq_job_boards_source_id_slug: a row new at the read was inserted by someone else, or
\* locate named the guess itself and its row, not flushed, is not found and added again.
Collides(name) ==
  disc.read.status = "absent" /\ (Exists(disc.slug) \/ name.slug = disc.slug)

\* register writes, probe_company's savepoint is released, and the company is committed.
Register ==
  /\ disc.phase = "looked"
  /\ \E v \in Verified(disc.outcome) : \E name \in Names(v) :
       LET guessed == Registered(disc.read, disc.company, v)
           wrote == IF disc.slug = name.slug
                    THEN RegisteredNamed(guessed, disc.company, name.outcome) ELSE guessed
       IN  /\ ~Collides(name)
           /\ \E new \in MergedRows(boards[disc.slug], disc.read, wrote) :
                boards' = [b \in Slug |->
                  CASE b = disc.slug -> new
                    [] b = name.slug /\ b # disc.slug ->
                         RegisteredNamed(boards[b], disc.company, name.outcome)
                    [] OTHER -> boards[b]]
  /\ disc' = NextCompany
  /\ UNCHANGED poll

\* An IntegrityError is not one of _PROBE_FAILURES: it ends the run.
RegisterCollides ==
  /\ disc.phase = "looked"
  /\ \E v \in Verified(disc.outcome) : \E name \in Names(v) : Collides(name)
  /\ disc' = [IdleDisc EXCEPT !.phase = "died"]
  /\ UNCHANGED <<boards, poll>>

\* Discovery is about to write this row from what it read of it.
InHand(b) == disc.phase = "looked" /\ disc.slug = b

\* What a second read of a row can give: the row, or, where the session still holds the one it
\* read before, that one.
ReadAgain(b) ==
  {boards[b]} \cup {row \in {disc.read} : InHand(b) /\ row.status # "absent"}

\* The probe failed in transport: what it wrote is rolled back, and the company is registered
\* unreachable under the slug a probe without an answer is keyed on.
ProbeFails ==
  /\ disc.phase \in {"guessed", "looked"}
  /\ \E b \in KeysOf(disc.company) : \E read \in ReadAgain(b) :
       IF Refuses(read, disc.company) THEN UNCHANGED boards
       ELSE \E new \in MergedRows(boards[b], read,
                         Registered(read, disc.company, <<"unreachable", "void">>)) :
              boards' = [boards EXCEPT ![b] = new]
  /\ disc' = NextCompany
  /\ UNCHANGED poll

\* The last due company, the budget, a timeout or an error.
EndDiscovery ==
  /\ disc.phase \in {"between", "guessed", "looked"}
  /\ disc' = IdleDisc
  /\ UNCHANGED <<boards, poll>>

-----------------------------------------------------------------------------
(* The ingestion run.                                                       *)

\* Others may write.
Free == Overlap \/ disc.phase # "looked"

\* resolve_config, or one board an operator runs by hand.
StartPoll ==
  /\ ~poll.walking
  /\ \E slugs \in {{b \in Slug : InWalk(b)}} \cup {{b} : b \in {h \in Handled : Exists(h)}} :
       poll' = [walking |-> TRUE, slugs |-> slugs]
  /\ UNCHANGED <<boards, disc>>

\* slip: an inactive board that answers loses its streak and stays inactive.
AnsweredUnrevived(row) == [row EXCEPT !.failures = 0]

Answered(row) ==
  [row EXCEPT !.failures = 0,
              !.status = IF row.status = "inactive" THEN Revived(row) ELSE row.status]

Failed(row) ==
  [row EXCEPT !.failures = row.failures + 1,
              !.status = IF ~row.pinned /\ row.failures + 1 >= InactiveAfter
                         THEN "inactive" ELSE row.status]

\* record_poll: the boards walked before the run's budget ended, each as it answered.
RecordPoll ==
  /\ poll.walking /\ Free
  /\ \E ok \in SUBSET poll.slugs : \E failed \in SUBSET (poll.slugs \ ok) :
       /\ \A b \in failed : boards[b].failures < MaxFailures
       /\ boards' = [b \in Slug |-> CASE b \in ok -> Answered(boards[b])
                                      [] b \in failed -> Failed(boards[b])
                                      [] OTHER -> boards[b]]
  /\ poll' = IdlePoll
  /\ UNCHANGED disc

\* The run dies before it records its poll.
PollCrash ==
  /\ poll.walking
  /\ poll' = IdlePoll
  /\ UNCHANGED <<boards, disc>>

-----------------------------------------------------------------------------
(* The operator.                                                            *)

Write(b, row) == Free /\ boards' = [boards EXCEPT ![b] = row] /\ UNCHANGED <<disc, poll>>

AddBoard(b) ==
  Write(b, [boards[b] EXCEPT !.status = "confirmed", !.pinned = TRUE, !.kind = "operator",
                             !.failures = 0])

BlockBoard(b) ==
  Write(b, [boards[b] EXCEPT !.status = "blocked", !.pinned = FALSE, !.kind = "operator"])

UnblockBoard(b) == Exists(b) /\ Write(b, [boards[b] EXCEPT !.status = "candidate"])

Reactivate(b) ==
  /\ boards[b].status = "inactive"
  /\ Write(b, [boards[b] EXCEPT !.status = Revived(boards[b]), !.failures = 0])

Operator(b) == AddBoard(b) \/ BlockBoard(b) \/ UnblockBoard(b) \/ Reactivate(b)

-----------------------------------------------------------------------------
DiscoveryStep ==
  \/ StartDiscovery \/ (\E c \in Company : Guess(c)) \/ Look
  \/ Register \/ RegisterCollides \/ ProbeFails \/ EndDiscovery

PollStep == StartPoll \/ RecordPoll \/ PollCrash

Next == DiscoveryStep \/ PollStep \/ \E b \in Handled : Operator(b)

Spec == Init /\ [][Next]_vars

-----------------------------------------------------------------------------
(* Properties.                                                              *)

TypeOK ==
  /\ boards \in [Slug -> JobBoard]
  /\ disc \in DiscState
  /\ poll \in PollState

\* lifecycle.py: only a streak of failing polls takes a board out of the walk, and whatever
\* brings it back wipes the streak; so an inactive row always has its streak behind it,
\* however a probe's write and a poll's interleave.
InactiveHasFailed ==
  \A b \in Slug : boards[b].status = "inactive" => boards[b].failures >= InactiveAfter

\* A board is polled on somebody's word: an operator's pin, or a company it was verified for.
PolledIsVouchedFor ==
  \A b \in Slug : InWalk(b) => boards[b].pinned \/ boards[b].company # NoCompany

\* discovery_run.py, operator.py: a settled row (blocked, wrong_company) changes status only
\* by the operator's hand.  The windows the code leaves open are the ones stated: a probe
\* that read the row before it was settled, and the failing poll of a walk that began before
\* or was started by hand.
SettledStands ==
  [][\A b \in Slug :
       boards[b].status \in SettledStatus /\ boards[b]'.status # boards[b].status =>
         \/ Operator(b)
         \/ InHand(b) /\ disc.read.status \notin SettledStatus
         \/ b \in poll.slugs /\ boards[b]'.status = "inactive"]_vars

\* A pinned row is reported on and never changed by an automatic run, but by a probe that
\* read it before it was pinned and by a poll that finds it inactive and answering.
PinStands ==
  [][\A b \in Slug :
       boards[b].pinned /\ (boards[b]'.status # boards[b].status
                              \/ boards[b]'.company # boards[b].company) =>
         \/ Operator(b)
         \/ InHand(b) /\ ~disc.read.pinned
         \/ b \in poll.slugs /\ boards[b].status = "inactive"]_vars

\* discovery_run.py: two companies that guess one slug do not fight over it; a board verified
\* for one company is never handed to another while it stands verified, except by a probe
\* that read the row before it was verified.
OwnerStands ==
  [][\A b \in Slug :
       boards[b].status \in OwnedStatus /\ boards[b].company # NoCompany
         /\ boards[b]'.company # boards[b].company
       => InHand(b) /\ disc.read.status \notin OwnedStatus]_vars

\* discovery_run.py: re-entering the walk with a stale failure count would retire the board
\* after one more failure, so a fresh verification gets a clean slate.  Refuted: README, 13.
WalkStartsClean ==
  \A b \in Slug : InWalk(b) /\ ~boards[b].pinned => boards[b].failures < InactiveAfter

\* probe_company: what one company's probe comes to is that company's outcome, not the run's.
\* Refuted: README, section 13.
DiscoverySurvives == disc.phase # "died"

=============================================================================
