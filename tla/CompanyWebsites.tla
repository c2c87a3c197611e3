---------------------------- MODULE CompanyWebsites ----------------------------
(***************************************************************************)
(* Resolving the official website of the companies of the catalogue        *)
(* (boards/websites.py): once a day a pass takes the companies that are    *)
(* due, at most `budget` of them, asks their postings and then Wikidata,   *)
(* and writes all it found in one transaction.                             *)
(*                                                                         *)
(* What a posting or an entity says is chosen when it is read.  Companies  *)
(* are numbered by the order of the query: most jobs first, then by name.  *)
(***************************************************************************)
EXTENDS Integers, FiniteSets

CONSTANTS
  Companies,   \* how many companies there are
  Budget,      \* how many a pass looks at
  Recheck,     \* after how many days a company is looked at again
  Host,        \* the hosts postings mention
  Ignored,     \* those that are never an employer's own
  Entity,      \* the entities Wikidata has for a name
  MaxVotes,    \* bound: the postings that mention one host
  MaxFailures  \* bound: passes that die

ASSUME WebsitesAssumption ==
  /\ Companies \in Nat /\ Budget \in Nat \ {0} /\ Recheck \in Nat
  /\ Ignored \subseteq Host /\ IsFiniteSet(Entity) /\ MaxVotes \in Nat /\ MaxFailures \in Nat

VARIABLES
  company,   \* the three website columns of every company
  pass,      \* the pass under way
  ranToday,  \* whether today's pass is over
  failures   \* how many passes died

websites == <<company, pass, ranToday, failures>>

Company == 1 .. Companies
MinimumVotes == 2
NoUrl == "none"

\* website_url and website_source.
Website == [url : {NoUrl} \cup Host \cup Entity, source : {"none", "postings", "wikidata"}]
Unresolved == [url |-> NoUrl, source |-> "none"]

\* How many days ago website_checked_at was: past Recheck, as never, it is before the cutoff.
Past == Recheck + 1
Row == [website : Website, age : 0 .. Past]

\* The companies still to look at, and what was found of those looked at.
Resting == [at |-> "resting"]
Pass == {Resting} \cup
  [at : {"resolving"}, seeded : SUBSET Company, left : SUBSET Company,
   found : [Company -> Website]]

Due == {c \in Company : company[c].website.url = NoUrl /\ company[c].age = Past}

\* The first of the due in the order of the query.
Candidates == {c \in Due : Cardinality({d \in Due : d < c}) < Budget}

-----------------------------------------------------------------------------
(* The strategies.                                                         *)

\* The most mentioned host that may be an employer's, with enough votes and no tie.
Wins(votes, h) ==
  /\ h \notin Ignored /\ votes[h] >= MinimumVotes
  /\ \A g \in Host \ ({h} \cup Ignored) : votes[g] < votes[h]

\* Every posting gives one vote to each host it mentions.
Tallies == [Host -> 0 .. MaxVotes]
FromPostings(votes) ==
  {[url |-> h, source |-> "postings"] : h \in {h \in Host : Wins(votes, h)}}

\* Those of the hits that are a business of this name with a website qualify; one whose request
\* is not answered is passed over.
FromWikidata(qualifying, answered) ==
  {[url |-> e, source |-> "wikidata"] : e \in {e \in Entity : qualifying \cap answered = {e}}}

\* resolve_website: the first strategy that finds one.
Resolutions ==
  LET found(votes, qualifying, answered) ==
        CASE FromPostings(votes) # {} -> FromPostings(votes)
          [] FromPostings(votes) = {} /\ FromWikidata(qualifying, answered) # {} ->
               FromWikidata(qualifying, answered)
          [] OTHER -> {Unresolved}
  IN UNION {found(votes, qualifying, answered) :
              votes \in Tallies, qualifying \in SUBSET Entity, answered \in SUBSET Entity}

-----------------------------------------------------------------------------
(* The daily pass.                                                         *)

BeginPass ==
  /\ pass = Resting /\ ~ranToday
  /\ pass' = [at |-> "resolving", seeded |-> Due, left |-> Candidates,
              found |-> [c \in Company |-> Unresolved]]
  /\ UNCHANGED <<company, ranToday, failures>>

Resolve(c) ==
  /\ pass # Resting /\ c \in pass.left /\ \A d \in pass.left : c <= d
  /\ \E website \in Resolutions : pass' = [pass EXCEPT !.left = @ \ {c}, !.found[c] = website]
  /\ UNCHANGED <<company, ranToday, failures>>

Processed == {c \in pass.seeded : Cardinality({d \in pass.seeded : d < c}) < Budget}

\* slip: a company nothing was found for is not marked as checked
RecordedIfFound(c) ==
  IF c \in Processed /\ pass.found[c] # Unresolved
    THEN [website |-> pass.found[c], age |-> 0] ELSE company[c]

\* A website only where there was none, and when it was checked.
Recorded(c) ==
  IF c \in Processed
    THEN [website |-> IF company[c].website.url = NoUrl THEN pass.found[c] ELSE company[c].website,
          age |-> 0]
    ELSE company[c]

\* The commit.
EndPass ==
  /\ pass # Resting /\ pass.left = {}
  /\ company' = [c \in Company |-> Recorded(c)]
  /\ pass' = Resting /\ ranToday' = TRUE
  /\ UNCHANGED failures

\* The process dies and takes what it found with it; the scheduler tries again.
PassDies ==
  /\ pass # Resting /\ failures < MaxFailures
  /\ pass' = Resting /\ failures' = failures + 1
  /\ UNCHANGED <<company, ranToday>>

NextDay ==
  /\ pass = Resting /\ ranToday /\ ranToday' = FALSE
  /\ company' = [c \in Company |->
       [company[c] EXCEPT !.age = IF @ < Past /\ company[c].website.url = NoUrl THEN @ + 1 ELSE @]]
  /\ UNCHANGED <<pass, failures>>

-----------------------------------------------------------------------------
InitWebsites ==
  /\ company = [c \in Company |-> [website |-> Unresolved, age |-> Past]]
  /\ pass = Resting /\ ranToday = FALSE /\ failures = 0

WorkOnPass == BeginPass \/ (\E c \in Company : Resolve(c)) \/ EndPass

NextWebsites == WorkOnPass \/ PassDies \/ NextDay

-----------------------------------------------------------------------------
(* Properties.                                                             *)

\* What the columns and the pass may hold; a source is stated exactly with a url.
WebsitesTypeOK ==
  /\ company \in [Company -> Row] /\ pass \in Pass
  /\ ranToday \in BOOLEAN /\ failures \in 0 .. MaxFailures
  /\ \A c \in Company : (company[c].website.url = NoUrl) <=> (company[c].website.source = "none")

\* While the queue is no longer than the passes of one recheck period can take, no company
\* waits for ever behind those with more jobs: each is looked at, and again when it is due.
EveryCompanyIsLookedAt == \A c \in Company : []<>(c \notin Due)

===============================================================================
