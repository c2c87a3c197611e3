--------------------------- MODULE BoardVerification ---------------------------
(***************************************************************************)
(* What discovery learns of a guessed Pinpoint board beyond its feed       *)
(* (pinpoint/verification.py): `verify` reads at most three pages of the   *)
(* company's website for a link to a board and then the title and the RSS  *)
(* feed of the guessed one, `locate` reads the website alone.  The website *)
(* is the one CompanyWebsites found; the answer is what BoardRegistry's    *)
(* Verified and Names take for granted.                                    *)
(*                                                                         *)
(* What a request is answered with is chosen when it is made.  Discovery   *)
(* asks after the day's pass over the websites: a verification reads one   *)
(* column of one row, when it begins, and no pass reads what it does.      *)
(***************************************************************************)
EXTENDS CompanyWebsites

CONSTANTS
  Tenant,        \* the subdomains of the provider's host, other than www
  Contains,      \* Contains[t]: the tenants whose host has t's as its ending, t among them
  Pages,         \* how many paths of a website are read
  MaxRedirects,  \* how many redirects of a page are followed
  MaxProbes      \* how many boards one page may name to have them asked

ASSUME VerificationAssumption ==
  /\ IsFiniteSet(Tenant) /\ Contains \in [Tenant -> SUBSET Tenant]
  /\ \A t \in Tenant : t \in Contains[t]
  /\ Pages \in Nat \ {0} /\ MaxRedirects \in Nat /\ MaxProbes \in Nat \ {0}
  /\ {"none", "site", "private"} \cap Tenant = {}

VARIABLES
  verification,  \* the verification under way: discovery asks for one at a time
  verified       \* the companies discovery asked about since the last pass

vars == <<websites, verification, verified>>

Page == 1 .. Pages
NoSlug == "none"
NotAsking == [at |-> "idle"]

\* A page of the website, or where a redirect leads: another tenant's host, another host, or
\* one that is not on the public internet.
Base == {"site", "private"} \cup Tenant
Url == Base \X (0 .. Pages)
IsPublic(url) == url[1] # "private"

\* A domain read off postings is not the provider's, what Wikidata states may be.
Bases(website) ==
  CASE website.source = "none" -> {"none"}
    [] website.source = "postings" -> {"site", "private"}
    [] OTHER -> Base

\* The answer, and what was asked for it.
Answer(v, outcome, slug) ==
  [at |-> "answered", asks |-> v.asks, guess |-> v.guess, outcome |-> outcome, slug |-> slug,
   requests |-> v.requests]

Asked(v) == [v EXCEPT !.requests = @ + 1]

\* The website said nothing: verify asks the board itself, locate is done.
FallBack(v) ==
  IF v.asks = "verify" THEN [v EXCEPT !.at = "title"] ELSE Answer(v, "nothing", NoSlug)

\* The next path robots.txt does not refuse.
PageAfter(v, page) ==
  LET open == {p \in Page \ v.refused : p > page}
      first == CHOOSE p \in open : \A q \in open : p <= q
  IN  IF open = {} THEN FallBack(v)
      ELSE [v EXCEPT !.at = "follow", !.page = first, !.url = <<v.base, first>>, !.hops = 0,
                     !.left = {}, !.serving = {}]

-----------------------------------------------------------------------------
BeginVerification(c) ==
  /\ verification = NotAsking /\ pass = Resting /\ ranToday /\ c \notin verified
  /\ \E asks \in {"verify", "locate"}, guess \in Tenant, base \in Bases(company[c].website) :
       LET v == [at |-> "robots", asks |-> asks, base |-> base, refused |-> {}, page |-> 0,
                 guess |-> IF asks = "verify" THEN guess ELSE NoSlug,
                 url |-> <<base, 0>>, hops |-> 0, left |-> {}, serving |-> {}, requests |-> 0]
       IN  verification' = IF base \in {"none", "private"} THEN FallBack(v) ELSE v
  /\ verified' = verified \cup {c}
  /\ UNCHANGED websites

\* 401 and 403 refuse every page, a file refuses some, anything else none.
ReadRobots ==
  /\ verification.at = "robots"
  /\ \E refused \in SUBSET Page :
       verification' = PageAfter([Asked(verification) EXCEPT !.refused = refused], 0)
  /\ UNCHANGED <<websites, verified>>

\* slip: the guess is not told from the other tenants
LandedOther(v) == Answer(v, "confirmed", v.url[1])

\* The page is one of a board: the guess is confirmed, or the other in its place.
Landed(v) == Answer(v, "confirmed", IF v.url[1] = v.guess THEN NoSlug ELSE v.url[1])

\* Several candidates are asked for their feed, unless they are a directory's.
Narrow(v, candidates) ==
  CASE Cardinality(candidates) = 1 ->
         Answer(v, "confirmed", CHOOSE t \in candidates : TRUE)
    [] Cardinality(candidates) \in 2 .. MaxProbes ->
         [v EXCEPT !.at = "probe", !.left = candidates]
    [] OTHER -> PageAfter(v, v.page)

\* The search for the guess's host takes a host that merely ends with it.
LinksTo(v, named) == v.asks = "verify" /\ named \cap Contains[v.guess] # {}

OtherTenants(v, named) == named \ {v.guess}

\* What the tenants a page names say of the guess.
Read(v, named) ==
  IF LinksTo(v, named) THEN Answer(v, "confirmed", NoSlug) ELSE Narrow(v, OtherTenants(v, named))

\* slip: the redirects are not counted
RedirectedAgain(v, to) == [v EXCEPT !.url = to]

Redirected(v, to) ==
  IF v.hops < MaxRedirects THEN [v EXCEPT !.url = to, !.hops = @ + 1] ELSE PageAfter(v, v.page)

\* One request of a page, or of where it was sent: no answer, a redirect, or the page.
Follow ==
  /\ verification.at = "follow"
  /\ LET v == Asked(verification) IN
     IF ~IsPublic(v.url) THEN verification' = PageAfter(verification, verification.page)
     ELSE \/ verification' = PageAfter(v, v.page)
          \/ \E to \in Url : verification' = Redirected(v, to)
          \/ v.url[1] \in Tenant /\ verification' = Landed(v)
          \/ /\ v.url[1] \notin Tenant
             /\ \E named \in SUBSET Tenant : verification' = Read(v, named)
  /\ UNCHANGED <<websites, verified>>

\* One candidate is asked for its feed; with the last answer, exactly one serves or the page
\* says nothing.
Probe ==
  /\ verification.at = "probe"
  /\ \E t \in verification.left, serves \in BOOLEAN :
       LET v == [Asked(verification) EXCEPT
                   !.left = @ \ {t}, !.serving = IF serves THEN @ \cup {t} ELSE @]
       IN  verification' =
             CASE v.left # {} -> v
               [] v.left = {} /\ Cardinality(v.serving) = 1 ->
                    Answer(v, "confirmed", CHOOSE s \in v.serving : TRUE)
               [] OTHER -> PageAfter(v, v.page)
  /\ UNCHANGED <<websites, verified>>

\* A title that states a name decides: it is the company's or another's.
Identified(v) == {Answer(v, outcome, NoSlug) : outcome \in {"named", "wrong_company"}}

\* The title of the guessed board's careers site, and, if it states none, of its RSS channel.
ReadTitle ==
  /\ verification.at = "title"
  /\ LET v == Asked(verification) IN verification' \in Identified(v) \cup {[v EXCEPT !.at = "rss"]}
  /\ UNCHANGED <<websites, verified>>

ReadChannel ==
  /\ verification.at = "rss"
  /\ LET v == Asked(verification) IN
     verification' \in Identified(v) \cup {Answer(v, "unverifiable", NoSlug)}
  /\ UNCHANGED <<websites, verified>>

\* Discovery registers the answer and goes on.
EndVerification ==
  /\ verification.at = "answered"
  /\ verification' = NotAsking
  /\ UNCHANGED <<websites, verified>>

-----------------------------------------------------------------------------
Init == InitWebsites /\ verification = NotAsking /\ verified = {}

VerificationStep ==
  ReadRobots \/ Follow \/ Probe \/ ReadTitle \/ ReadChannel \/ EndVerification

\* A day's pass begins when discovery is done with the day before.
PassStep ==
  /\ NextWebsites
  /\ verification = NotAsking /\ UNCHANGED verification
  /\ verified' = IF ranToday' THEN verified ELSE {}

Next == PassStep \/ (\E c \in Company : BeginVerification(c)) \/ VerificationStep

Work == WorkOnPass /\ PassStep
Day == NextDay /\ PassStep

\* Airflow runs the pass every day; every request ends.
Spec == Init /\ [][Next]_vars /\ WF_vars(VerificationStep) /\ WF_vars(Work) /\ WF_vars(Day)

-----------------------------------------------------------------------------
(* Properties.                                                             *)

\* However pages redirect and whatever they name, a verification makes a handful of requests.
RequestsAreBounded ==
  verification # NotAsking =>
    verification.requests <= 1 + Pages * (MaxRedirects + 1 + MaxProbes)
                             + (IF verification.asks = "verify" THEN 2 ELSE 0)

\* What BoardRegistry takes for granted of its input: a board named on the side comes with
\* `confirmed` alone and is never the guess itself, and locate gives no verdict on a guess.
AnswersFitTheRegistry ==
  verification.at = "answered" =>
    /\ verification.slug # NoSlug =>
         verification.outcome = "confirmed" /\ verification.slug # verification.guess
    /\ verification.asks = "locate" =>
         (verification.outcome = "nothing") <=> (verification.slug = NoSlug)

===============================================================================
