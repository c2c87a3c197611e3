---------------------------- MODULE FieldOwnership ----------------------------
(***************************************************************************)
(* Which of several sources a job's text and fields come from: how one     *)
(* stored job takes in the records of the sources that list it             *)
(* (persistence.py: write, merge_fields, incoming_outranks), given that    *)
(* they were matched to it (deduplication.py).                             *)
(*                                                                         *)
(* A value is told by whose account it is and by which revision of it.  A  *)
(* source has one row on the job, as the docstring of rivals_of has it,    *)
(* and one run at a time.  A run decides on what was committed when it     *)
(* read and writes when it commits; the runs of other sources, and edits   *)
(* of the record it holds, come between.                                   *)
(***************************************************************************)
EXTENDS Integers, FiniteSets, FiniteSetsExt

CONSTANTS
  Source,     \* the sources that may list the posting
  Rank,       \* the precedence each is registered with
  Optional,   \* the optional canonical fields
  Opening,    \* what each says of the posting at first, in one way or another
  Mover,      \* the sources that drop the posting and bring it back
  MaxEdits    \* the bound of the revisions of all records

VARIABLES
  account,   \* what each source says of the posting now
  listed,    \* the sources that list it now
  row,       \* the job_provenance row of each source
  elsewhere, \* the sources whose record was stored as a job of its own
  job,       \* the stored canonical fields
  task       \* what the run of each source has decided and not committed

vars == <<account, listed, row, elsewhere, job, task>>

Revision == 0 .. MaxEdits

\* NormalizedJob: a description that is the posting or an excerpt of it, and what it states.
Account == [rev : Revision, partial : BOOLEAN, states : SUBSET Optional]

ASSUME FieldOwnershipAssumption ==
  /\ IsFiniteSet(Source) /\ Rank \in [Source -> Nat] /\ IsFiniteSet(Optional)
  /\ Opening \subseteq [Source -> {a \in Account : a.rev = 0}]
  /\ Mover \subseteq Source /\ MaxEdits \in Nat

\* The row's facts: retired or live, `partial_description`, `stated_fields`, and when the
\* source first listed the job, 0 before it did.
Row == [first : 0 .. Cardinality(Source), live : BOOLEAN, partial : BOOLEAN, stated : Nat]
NoRow == [first |-> 0, live |-> FALSE, partial |-> FALSE, stated |-> 0]
Seen(s) == row[s].first > 0

Value == [by : Source, rev : Revision]
Unstated == [by |-> "nobody"]
Text == [by : Source, rev : Revision, partial : BOOLEAN]

\* The title, the application URL and the match key go with the text: every record states them.
Job == [text : Text, field : [Optional -> Value \cup {Unstated}]]
NoJob == [text |-> "none"]
Stored == job # NoJob

\* A transaction under way: whether it adds a job, the columns it will write, and what its row
\* will say.
Resting == [at |-> "resting"]
Kept == [by |-> "kept"]
Task ==
  {Resting} \cup
  [at : {"decided"}, creates : BOOLEAN, text : Text \cup {Kept},
   field : [Optional -> Value \cup {Unstated, Kept}], first : 1 .. Cardinality(Source),
   partial : BOOLEAN, stated : Nat]
Deciding == {s \in Source : task[s] # Resting}

-----------------------------------------------------------------------------
(* Ownership.                                                              *)

Rivals(s) == {r \in Source : Seen(r) /\ r # s}
LiveRivals(s) == {r \in Rivals(s) : row[r].live}
SuppliedFullText(s) == \E r \in Rivals(s) : ~row[r].partial

\* The owner is the highest-ranked of the live rivals, taken together.
Owning(s) == {r \in LiveRivals(s) : \A q \in LiveRivals(s) : Rank[q] <= Rank[r]}
OwnerIsFull(s) == \E r \in Owning(s) : ~row[r].partial
OwnerStates(s, n) ==
  (\E r \in Owning(s) : row[r].stated = n) /\ (\A r \in Owning(s) : row[r].stated <= n)

\* The row an arriving source will get keeps the first date it has; a record is dated when its
\* run takes it up.
Dates == {row[r].first : r \in Source} \cup {task[r].first : r \in Deciding}
FirstListedAt(s) == IF Seen(s) THEN row[s].first ELSE Max(Dates) + 1

MoreComplete(s) ==
  LET full == ~account[s].partial
      stated == Cardinality(account[s].states)
  IN \/ full /\ ~OwnerIsFull(s)
     \/ /\ full = OwnerIsFull(s)
        /\ \E n \in 0 .. Cardinality(Optional) :
             /\ OwnerStates(s, n)
             /\ \/ stated > n
                \/ stated = n /\ \A r \in Owning(s) : FirstListedAt(s) < row[r].first

\* slip: at equal completeness the later run has it
OutranksLast(s) ==
  /\ ~(account[s].partial /\ SuppliedFullText(s))
  /\ \A r \in Owning(s) :
       \/ Rank[s] > Rank[r]
       \/ /\ Rank[s] = Rank[r] /\ (account[s].partial => row[r].partial)
          /\ Cardinality(account[s].states) >= row[r].stated

Outranks(s) ==
  /\ ~(account[s].partial /\ SuppliedFullText(s))
  /\ \/ \A r \in Owning(s) : Rank[s] > Rank[r]
     \/ (\E r \in Owning(s) : Rank[s] = Rank[r]) /\ MoreComplete(s)

TextOf(s) == [by |-> s, rev |-> account[s].rev, partial |-> account[s].partial]
ValueOf(s, f) ==
  IF f \in account[s].states THEN [by |-> s, rev |-> account[s].rev] ELSE Unstated

\* Silence never wins; when both speak the caller has decided.
Resolve(stored, incoming, outranks) ==
  IF incoming = Unstated THEN stored
  ELSE IF stored = Unstated \/ outranks THEN incoming
  ELSE stored

Merged(s) ==
  [text |-> IF Outranks(s) THEN TextOf(s) ELSE job.text,
   field |-> [f \in Optional |-> Resolve(job.field[f], ValueOf(s, f), Outranks(s))]]

-----------------------------------------------------------------------------
(* The records that arrive.                                                *)

\* Only whole texts are compared, and every row of the job counts.
DescribesTheSamePosting(s) == ~account[s].partial /\ \A r \in Rivals(s) : ~row[r].partial

Arrives(s) == task[s] = Resting /\ s \in listed /\ s \notin elsewhere

\* slip: a row is written whole, the columns the merge left as it read them too
Whole(stored, made) == made

\* A record that says what is stored skips the merge, and of a merged job the flush writes the
\* columns that differ from those it read.
Changed(stored, made) == IF made = stored THEN Kept ELSE made

\* What the statements of one transaction read, they read here at once.
Decides(s, creates, text, field) ==
  /\ task' = [task EXCEPT ![s] =
       [at |-> "decided", creates |-> creates, text |-> text, field |-> field,
        first |-> FirstListedAt(s), partial |-> account[s].partial,
        stated |-> Cardinality(account[s].states)]]
  /\ UNCHANGED <<account, listed, row, elsewhere, job>>

DecideNew(s) ==
  Arrives(s) /\ ~Stored /\ Decides(s, TRUE, TextOf(s), [f \in Optional |-> ValueOf(s, f)])

\* Known by its row, or matched by its text.
DecideMerge(s) ==
  /\ Arrives(s) /\ Stored
  /\ Seen(s) \/ DescribesTheSamePosting(s)
  /\ Decides(s, FALSE, Changed(job.text, Merged(s).text),
             [f \in Optional |-> Changed(job.field[f], Merged(s).field[f])])

Written(stored, value) == IF value = Kept THEN stored ELSE value
Flushed(t) ==
  [text |-> Written(job.text, t.text),
   field |-> [f \in Optional |-> Written(job.field[f], t.field[f])]]

\* The upsert of the row: the first date stays, the payload is the record that was read.
Observed(s, t) ==
  [row EXCEPT ![s] =
     [first |-> t.first, live |-> TRUE, partial |-> t.partial, stated |-> t.stated]]

\* What persist_job did becomes visible.  Of two that add the posting at once the later one is
\* left with a job of its own.
Commit(s) ==
  /\ s \in Deciding /\ task' = [task EXCEPT ![s] = Resting]
  /\ \/ /\ task[s].creates /\ Stored
        /\ elsewhere' = elsewhere \cup {s}
        /\ UNCHANGED <<row, job>>
     \/ /\ task[s].creates /\ ~Stored
        /\ job' = [text |-> task[s].text, field |-> task[s].field] /\ row' = Observed(s, task[s])
        /\ UNCHANGED elsewhere
     \/ /\ ~task[s].creates
        /\ job' = Flushed(task[s]) /\ row' = Observed(s, task[s])
        /\ UNCHANGED elsewhere
  /\ UNCHANGED <<account, listed>>

StoreElsewhere(s) ==
  /\ Arrives(s) /\ Stored /\ ~Seen(s) /\ ~DescribesTheSamePosting(s)
  /\ elsewhere' = elsewhere \cup {s}
  /\ UNCHANGED <<account, listed, row, job, task>>

\* A reconciliation of the source finds the posting gone.
Retire(s) ==
  /\ task[s] = Resting /\ s \notin listed /\ row[s].live
  /\ row' = [row EXCEPT ![s].live = FALSE]
  /\ UNCHANGED <<account, listed, elsewhere, job, task>>

\* The providers: a record is revised, truncated or completed, dropped and brought back.
Edit(s) ==
  /\ \E a \in Account :
       /\ \A r \in Source : a.rev > account[r].rev
       /\ \A n \in Revision : n < a.rev => n = 0 \/ \E r \in Source : n <= account[r].rev
       /\ account' = [account EXCEPT ![s] = a]
  /\ UNCHANGED <<listed, row, elsewhere, job, task>>

Move(s) ==
  /\ s \in Mover
  /\ listed' = IF s \in listed THEN listed \ {s} ELSE listed \cup {s}
  /\ UNCHANGED <<account, row, elsewhere, job, task>>

-----------------------------------------------------------------------------
Init ==
  /\ account \in Opening
  /\ listed = Source
  /\ row = [s \in Source |-> NoRow]
  /\ elsewhere = {} /\ job = NoJob /\ task = [s \in Source |-> Resting]

\* What the run of a source does with the posting.
Run(s) == DecideNew(s) \/ DecideMerge(s) \/ Commit(s) \/ StoreElsewhere(s) \/ Retire(s)

Next == \E s \in Source : Run(s) \/ Edit(s) \/ Move(s)

\* The DAGs run every source again and again.
Spec == Init /\ [][Next]_vars /\ \A s \in Source : WF_vars(Run(s))

-----------------------------------------------------------------------------
(* Properties.                                                             *)

\* Every variable keeps the type the columns and the payload give it, and rows are dated one
\* after the other.
TypeOK ==
  /\ account \in [Source -> Account]
  /\ listed \subseteq Source
  /\ row \in [Source -> Row]
  /\ elsewhere \subseteq Source
  /\ Stored => job \in Job
  /\ task \in [Source -> Task]
  /\ \A s \in Source : row[s].live => Seen(s)

\* Which of two accounts, as their rows record them, is the one to believe: rank, then a whole
\* description, then how much is stated, then who listed it first (incoming_outranks).
Believed(s, r) ==
  \/ Rank[s] > Rank[r]
  \/ /\ Rank[s] = Rank[r]
     /\ \/ ~row[s].partial /\ row[r].partial
        \/ row[s].partial = row[r].partial /\ row[s].stated > row[r].stated
        \/ /\ row[s].partial = row[r].partial /\ row[s].stated = row[r].stated
           /\ row[s].first < row[r].first

\* A snippet of the best account does not count against a whole text another supplied.
TextIsBelieved ==
  \A s \in Source :
    (/\ row[s].live /\ \A r \in LiveRivals(s) : Believed(s, r)
     /\ ~(row[s].partial /\ SuppliedFullText(s)))
      => job.text = TextOf(s)

\* Once the providers leave the posting alone the job comes to hold the text of the account to
\* believe, whatever the order of the runs before and after and however they overlap, and keeps
\* it.  At most two sources of one rank contest it: among three, equally complete, the text can
\* stay with one that is not the first (README, section 13).
OwnerLands == <>[][FALSE]_<<account, listed>> => <>[](Stored => TextIsBelieved)

\* A snippet never replaces a whole description another source supplied.  Refuted: README,
\* section 13.
SnippetReplacesNoFullText ==
  [][(/\ Stored /\ ~job.text.partial
      /\ job'.text.by # job.text.by) => ~job'.text.partial]_vars

\* Every stored value is some source's that has a row.
Backed ==
  Stored => /\ Seen(job.text.by)
            /\ \A f \in Optional : job.field[f] # Unstated => Seen(job.field[f].by)

\* Nothing a source stated is ever erased or set back, though a run writes what it made of a job
\* that others have written since: a stated field stays stated, the text and the fields never go
\* back to an earlier revision of the account they are from, and each account has a row (resolve;
\* the flush writes changed columns only).
NothingErased ==
  [][/\ Backed'
     /\ Stored =>
          /\ job'.text.by = job.text.by => job'.text.rev >= job.text.rev
          /\ \A f \in Optional :
               job.field[f] # Unstated =>
                 /\ job'.field[f] # Unstated
                 /\ job'.field[f].by = job.field[f].by =>
                      job'.field[f].rev >= job.field[f].rev]_vars
===============================================================================
