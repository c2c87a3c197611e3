------------------------ MODULE BoardVerificationProofs ------------------------
(***************************************************************************)
(* What BoardVerification keeps for every number of pages, redirects and   *)
(* probes, every set of tenants and whatever a website answers: how much   *)
(* is asked of it, and what discovery may be told.  A verification is      *)
(* followed by what it may have asked up to the page it is at.             *)
(***************************************************************************)
EXTENDS BoardVerification, FiniteSetTheorems, WellFoundedInduction, TLAPS

\* What one page may cost, and the first n of them.
Each == MaxRedirects + 1 + MaxProbes
Upto(n) == n * Each

LEMMA EachType ==
  /\ MaxRedirects \in Nat /\ MaxProbes \in Nat /\ Pages \in Nat /\ Each \in Nat
  /\ IsFiniteSet(Tenant) /\ "none" \notin Tenant
BY VerificationAssumption DEF VerificationAssumption, Each

LEMMA UptoGrows ==
  ASSUME NEW n \in Nat, NEW m \in Nat, n <= m
  PROVE  /\ Upto(n) \in Nat /\ Upto(m) \in Nat /\ Upto(n) <= Upto(m)
         /\ Upto(n + 1) = Upto(n) + Each
<1>1. Each \in Nat
  BY EachType
<1> HIDE DEF Each
<1>2. PICK d \in Nat : m = n + d
  <2>1. m - n \in Nat /\ m = n + (m - n)
    OBVIOUS
  <2> QED  BY <2>1
<1>3. n * Each \in Nat /\ d * Each \in Nat /\ (n + d) * Each = n * Each + d * Each
      /\ (n + 1) * Each = n * Each + Each
  BY <1>1
<1> QED  BY <1>2, <1>3 DEF Upto

LEMMA LeastOf ==
  ASSUME NEW S \in SUBSET Nat, S # {}
  PROVE  \E n \in S : \A m \in S : n <= m
<1>1. PICK n \in S : \A m \in S : <<m, n>> \notin OpToRel(<, Nat)
  BY NatLessThanWellFounded, WFMin, Zenon
<1>2. \A m \in S : ~(m < n)
  BY <1>1 DEF OpToRel
<1> QED  BY <1>2

-----------------------------------------------------------------------------
(* A verification at work, and its answer.                                 *)

Working ==
  [at : {"robots", "follow", "probe", "title", "rss"}, asks : {"verify", "locate"},
   base : Base \cup {"none"}, refused : SUBSET Page, page : 0 .. Pages,
   guess : Tenant \cup {NoSlug}, url : (Base \cup {"none"}) \X (0 .. Pages),
   hops : 0 .. MaxRedirects, left : SUBSET Tenant, serving : SUBSET Tenant, requests : Nat]

Answers ==
  [at : {"answered"}, asks : {"verify", "locate"}, guess : Tenant \cup {NoSlug},
   outcome : {"confirmed", "named", "wrong_company", "unverifiable", "nothing"},
   slug : Tenant \cup {NoSlug}, requests : Nat]

\* Locate has no guess.
Guesses(v) == v.asks = "locate" <=> v.guess = NoSlug

\* What may have been asked so far, and whom.
Frugal(v) ==
  /\ v.at = "robots" => v.requests = 0 /\ v.page = 0 /\ v.base \in Base
  /\ v.at = "follow" => /\ v.page > 0 /\ v.base \in Base /\ v.serving = {}
                        /\ v.requests <= 1 + Upto(v.page - 1) + v.hops
  /\ v.at = "probe" => /\ v.page > 0 /\ v.base \in Base
                       /\ v.guess \notin v.left \cup v.serving
                       /\ v.requests + Cardinality(v.left) <= 1 + Upto(v.page)
  /\ v.at = "title" => v.asks = "verify" /\ v.requests <= 1 + Upto(Pages)
  /\ v.at = "rss" => v.asks = "verify" /\ v.requests <= 2 + Upto(Pages)

Fitting(v) ==
  /\ v.requests <= 1 + Upto(Pages) + (IF v.asks = "verify" THEN 2 ELSE 0)
  /\ v.slug # NoSlug => v.outcome = "confirmed" /\ v.slug # v.guess
  /\ v.asks = "locate" => (v.outcome = "nothing") <=> (v.slug = NoSlug)

Sound(v) ==
  \/ v = NotAsking
  \/ v \in Working /\ Guesses(v) /\ Frugal(v)
  \/ v \in Answers /\ Guesses(v) /\ Fitting(v)

LEMMA FallBackSound ==
  ASSUME NEW v \in Working, Guesses(v), v.requests <= 1 + Upto(Pages)
  PROVE  Sound(FallBack(v))
<1>1. Upto(Pages) \in Nat
  BY EachType, UptoGrows
<1>2. CASE v.asks = "verify"
  <2> DEFINE w == [v EXCEPT !.at = "title"]
  <2>1. w \in Working /\ w.at = "title" /\ w.asks = v.asks /\ w.guess = v.guess
        /\ w.requests = v.requests
    BY DEF Working
  <2>2. FallBack(v) = w
    BY <1>2 DEF FallBack
  <2> HIDE DEF w
  <2>3. Guesses(w)
    BY <2>1 DEF Guesses
  <2>4. Frugal(w)
    BY <1>2, <2>1 DEF Frugal
  <2> QED  BY <2>1, <2>2, <2>3, <2>4 DEF Sound
<1>3. CASE v.asks = "locate"
  <2> DEFINE w == Answer(v, "nothing", NoSlug)
  <2>1. /\ w \in Answers /\ w.asks = v.asks /\ w.guess = v.guess /\ w.requests = v.requests
        /\ w.slug = NoSlug /\ w.outcome = "nothing"
    BY DEF Working, Answer, Answers
  <2>2. FallBack(v) = w
    BY <1>3 DEF FallBack
  <2> HIDE DEF w
  <2> QED  BY <1>1, <1>3, <2>1, <2>2 DEF Sound, Guesses, Fitting
<1> QED  BY <1>2, <1>3 DEF Working

\* Going on to the next page, with what the pages so far may cost.
LEMMA PageAfterSound ==
  ASSUME NEW v \in Working, Guesses(v), v.base \in Base, v.requests <= 1 + Upto(v.page)
  PROVE  Sound(PageAfter(v, v.page))
<1> DEFINE open == {p \in Page \ v.refused : p > v.page}
           first == CHOOSE p \in open : \A q \in open : p <= q
<1>1. /\ Pages \in Nat /\ v.page \in 0 .. Pages /\ v.page \in Nat /\ v.page <= Pages
      /\ MaxRedirects \in Nat /\ v.requests \in Nat
  BY EachType DEF Working
<1>2. CASE open = {}
  <2>1. v.requests <= 1 + Upto(Pages)
    <3>1. Upto(v.page) \in Nat /\ Upto(Pages) \in Nat /\ Upto(v.page) <= Upto(Pages)
      BY <1>1, UptoGrows
    <3> QED  BY <1>1, <3>1
  <2>2. PageAfter(v, v.page) = FallBack(v)
    BY <1>2 DEF PageAfter
  <2> QED  BY <2>1, <2>2, FallBackSound
<1>3. CASE open # {}
  <2>1. first \in open
    <3>1. open \in SUBSET Nat
      BY <1>1 DEF Page
    <3>2. \E p \in open : \A q \in open : p <= q
      BY <1>3, <3>1, LeastOf
    <3> HIDE DEF open
    <3> QED  BY <3>2
  <2> DEFINE w == [v EXCEPT !.at = "follow", !.page = first, !.url = <<v.base, first>>,
                            !.hops = 0, !.left = {}, !.serving = {}]
  <2>2. PageAfter(v, v.page) = w
    BY <1>3 DEF PageAfter
  <2>3. first \in 1 .. Pages /\ first > v.page
    BY <2>1 DEF Page
  <2> HIDE DEF first, open
  <2>4. first \in 0 .. Pages /\ 0 \in 0 .. MaxRedirects /\ {} \in SUBSET Tenant
        /\ <<v.base, first>> \in (Base \cup {"none"}) \X (0 .. Pages)
    BY <1>1, <2>3
  <2>5. /\ w \in Working /\ w.at = "follow" /\ w.asks = v.asks /\ w.guess = v.guess
        /\ w.requests = v.requests /\ w.page = first /\ w.hops = 0 /\ w.base = v.base
        /\ w.serving = {}
    BY <2>4 DEF Working
  <2> HIDE DEF w
  <2>6. w.requests <= 1 + Upto(w.page - 1) + w.hops
    <3>1. first - 1 \in Nat /\ v.page <= first - 1
      BY <1>1, <2>3
    <3>2. Upto(v.page) <= Upto(first - 1) /\ Upto(v.page) \in Nat /\ Upto(first - 1) \in Nat
      BY <1>1, <3>1, UptoGrows
    <3> QED  BY <1>1, <2>5, <3>2
  <2> QED  BY <2>2, <2>3, <2>5, <2>6 DEF Sound, Guesses, Frugal
<1> QED  BY <1>2, <1>3

LEMMA AnswerSound ==
  ASSUME NEW v \in Working, Guesses(v),
         NEW outcome \in {"confirmed", "named", "wrong_company", "unverifiable"},
         NEW slug \in Tenant \cup {NoSlug}, slug # NoSlug => outcome = "confirmed",
         slug # NoSlug => slug # v.guess,
         v.asks = "locate" => slug # NoSlug,
         v.requests <= 1 + Upto(Pages) + (IF v.asks = "verify" THEN 2 ELSE 0)
  PROVE  Sound(Answer(v, outcome, slug))
<1> DEFINE w == Answer(v, outcome, slug)
<1>1. /\ w \in Answers /\ w.asks = v.asks /\ w.guess = v.guess /\ w.requests = v.requests
      /\ w.slug = slug /\ w.outcome = outcome
  BY DEF Working, Answer, Answers
<1> HIDE DEF w
<1>2. Guesses(w) /\ Fitting(w)
  BY <1>1 DEF Guesses, Fitting
<1>3. Sound(w)
  BY <1>1, <1>2 DEF Sound
<1> QED  BY <1>3 DEF w

-----------------------------------------------------------------------------
(* The steps.                                                              *)

\* One request more.
LEMMA AskedFacts ==
  ASSUME NEW v \in Working
  PROVE  /\ Asked(v) \in Working /\ Asked(v).requests = v.requests + 1 /\ Asked(v).at = v.at
         /\ Asked(v).asks = v.asks /\ Asked(v).guess = v.guess /\ Asked(v).page = v.page
         /\ Asked(v).base = v.base /\ Asked(v).url = v.url /\ Asked(v).hops = v.hops
         /\ Asked(v).left = v.left /\ Asked(v).serving = v.serving
         /\ Asked(v).refused = v.refused
BY DEF Asked, Working

LEMMA NarrowSound ==
  ASSUME NEW v \in Working, Guesses(v), v.base \in Base, v.page > 0,
         v.requests + MaxProbes <= 1 + Upto(v.page),
         NEW others \in SUBSET Tenant, v.guess \notin others, v.serving = {}
  PROVE  Sound(Narrow(v, others))
<1>1. /\ v.requests \in Nat /\ MaxProbes \in Nat /\ v.page \in Nat /\ Pages \in Nat
      /\ v.page <= Pages /\ IsFiniteSet(others) /\ Cardinality(others) \in Nat /\ NoSlug \notin Tenant
  BY EachType, FS_Subset, FS_CardinalityType DEF Working, NoSlug
<1>2. Upto(v.page) \in Nat /\ Upto(Pages) \in Nat /\ Upto(v.page) <= Upto(Pages)
  BY <1>1, UptoGrows
<1>3. CASE Cardinality(others) = 1
  <2>1. PICK t : others = {t}
    BY <1>1, <1>3, FS_Singleton
  <2>2. (CHOOSE s \in others : TRUE) = t /\ t \in Tenant
    BY <2>1
  <2>3. Narrow(v, others) = Answer(v, "confirmed", t)
    <3>1. Cardinality(others) \notin 2 .. MaxProbes
      BY <1>1, <1>3
    <3>2. Narrow(v, others) = Answer(v, "confirmed", CHOOSE s \in others : TRUE)
      BY <1>3, <3>1 DEF Narrow
    <3> QED  BY <2>2, <3>2
  <2> QED  BY <1>1, <1>2, <2>1, <2>2, <2>3, AnswerSound
<1>4. CASE Cardinality(others) \in 2 .. MaxProbes
  <2> DEFINE w == [v EXCEPT !.at = "probe", !.left = others]
  <2>1. Narrow(v, others) = w
    BY <1>1, <1>4 DEF Narrow
  <2>2. /\ w \in Working /\ w.at = "probe" /\ w.asks = v.asks /\ w.guess = v.guess
        /\ w.requests = v.requests /\ w.page = v.page /\ w.base = v.base /\ w.left = others
        /\ w.serving = v.serving
    BY DEF Working
  <2> HIDE DEF w
  <2>3. w.requests + Cardinality(w.left) <= 1 + Upto(w.page)
    BY <1>1, <1>2, <1>4, <2>2
  <2>4. Guesses(w)
    BY <2>2 DEF Guesses
  <2>5. Frugal(w)
    BY <2>2, <2>3 DEF Frugal
  <2> QED  BY <2>1, <2>2, <2>4, <2>5 DEF Sound
<1>5. CASE Cardinality(others) # 1 /\ Cardinality(others) \notin 2 .. MaxProbes
  <2>1. Narrow(v, others) = PageAfter(v, v.page)
    BY <1>5 DEF Narrow
  <2>2. v.requests <= 1 + Upto(v.page)
    BY <1>1, <1>2
  <2> QED  BY <2>1, <2>2, PageAfterSound
<1> QED  BY <1>3, <1>4, <1>5

LEMMA FollowSound ==
  ASSUME Sound(verification), Follow
  PROVE  Sound(verification')
<1> DEFINE v == Asked(verification)
<1>0. verification \in Working /\ Guesses(verification) /\ Frugal(verification)
  BY DEF Sound, Follow, NotAsking, Answers
<1>1. /\ v \in Working /\ v.requests = verification.requests + 1 /\ v.base \in Base
      /\ v.at = "follow" /\ v.page = verification.page /\ v.hops = verification.hops
      /\ v.url = verification.url /\ v.guess = verification.guess
      /\ v.asks = verification.asks /\ Guesses(v) /\ v.serving = {}
  BY <1>0, AskedFacts DEF Follow, Guesses, Frugal
<1>2. /\ v.page \in Nat /\ v.page > 0 /\ v.page <= Pages /\ Pages \in Nat /\ v.hops \in Nat
      /\ v.hops <= MaxRedirects /\ MaxRedirects \in Nat /\ MaxProbes \in Nat
      /\ verification.requests \in Nat /\ v.page - 1 \in Nat
  BY <1>0, <1>1, EachType DEF Working, Frugal, Follow
<1>3. /\ Upto(v.page) = Upto(v.page - 1) + MaxRedirects + 1 + MaxProbes
      /\ Upto(v.page) \in Nat /\ Upto(v.page - 1) \in Nat /\ Upto(v.page) <= Upto(Pages)
      /\ Upto(Pages) \in Nat
  <2>1. v.page - 1 + 1 = v.page /\ v.page - 1 <= v.page - 1
    BY <1>2
  <2>2. Upto(v.page - 1 + 1) = Upto(v.page - 1) + Each
    BY <1>2, <2>1, UptoGrows
  <2>3. Upto(v.page - 1) \in Nat /\ Upto(v.page) \in Nat /\ Upto(v.page) <= Upto(Pages)
        /\ Upto(Pages) \in Nat
    BY <1>2, UptoGrows
  <2> HIDE DEF v
  <2>4. Each = MaxRedirects + 1 + MaxProbes
    BY DEF Each
  <2> QED  BY <1>2, <2>1, <2>2, <2>3, <2>4
<1>4. verification.requests <= 1 + Upto(v.page - 1) + v.hops
  BY <1>0, <1>1 DEF Frugal, Follow
<1>5. /\ verification.requests <= 1 + Upto(v.page)
      /\ v.requests + MaxProbes <= 1 + Upto(v.page) /\ v.requests <= 1 + Upto(v.page)
      /\ v.requests <= 1 + Upto(Pages)
      /\ v.requests <= 1 + Upto(v.page - 1) + (v.hops + 1)
  <2> HIDE DEF v
  <2> QED  BY <1>1, <1>2, <1>3, <1>4
<1>6. CASE verification' = PageAfter(verification, verification.page)
  BY <1>0, <1>1, <1>5, <1>6, PageAfterSound DEF Frugal, Follow
<1>7. CASE verification' = PageAfter(v, v.page)
  BY <1>1, <1>5, <1>7, PageAfterSound
<1>8. ASSUME NEW to \in Url, verification' = Redirected(v, to) PROVE Sound(verification')
  <2>1. CASE ~(v.hops < MaxRedirects)
    BY <1>1, <1>5, <1>8, <2>1, PageAfterSound DEF Redirected
  <2>2. CASE v.hops < MaxRedirects
    <3> DEFINE w == [v EXCEPT !.url = to, !.hops = v.hops + 1]
    <3>1. verification' = w
      BY <1>8, <2>2 DEF Redirected
    <3>2. v.hops + 1 \in 0 .. MaxRedirects /\ to \in (Base \cup {"none"}) \X (0 .. Pages)
      BY <1>2, <2>2 DEF Url
    <3> HIDE DEF v
    <3>3. /\ w \in Working /\ w.at = v.at /\ w.asks = v.asks /\ w.guess = v.guess
          /\ w.requests = v.requests /\ w.page = v.page /\ w.base = v.base
          /\ w.hops = v.hops + 1 /\ w.serving = v.serving
      BY <1>1, <3>2 DEF Working
    <3> HIDE DEF w
    <3>4. Guesses(w)
      BY <1>1, <3>3 DEF Guesses
    <3>5. w.requests <= 1 + Upto(w.page - 1) + w.hops
      BY <1>5, <3>3
    <3>6. Frugal(w)
      BY <1>1, <1>2, <3>3, <3>5 DEF Frugal
    <3> QED  BY <3>1, <3>3, <3>4, <3>6 DEF Sound
  <2> QED  BY <2>1, <2>2
<1>9. CASE v.url[1] \in Tenant /\ verification' = Landed(v)
  <2> DEFINE slug == IF v.url[1] = v.guess THEN NoSlug ELSE v.url[1]
  <2>1. v.guess = NoSlug => v.url[1] # v.guess
    BY <1>9, EachType DEF NoSlug
  <2>2. /\ slug \in Tenant \cup {NoSlug} /\ (slug # NoSlug => slug # v.guess)
        /\ (v.asks = "locate" => slug # NoSlug)
    BY <1>1, <1>9, <2>1, EachType DEF Guesses, NoSlug
  <2>3. verification' = Answer(v, "confirmed", slug)
    BY <1>9 DEF Landed
  <2>4. v.requests <= 1 + Upto(Pages) + (IF v.asks = "verify" THEN 2 ELSE 0)
    <3> HIDE DEF v
    <3> QED  BY <1>1, <1>2, <1>3, <1>5
  <2> HIDE DEF v, slug
  <2> QED  BY <1>1, <2>2, <2>3, <2>4, AnswerSound
<1>10. ASSUME NEW named \in SUBSET Tenant, verification' = Read(v, named)
       PROVE  Sound(verification')
  <2>1. CASE LinksTo(v, named)
    <3>1. v.asks = "verify"
      BY <2>1 DEF LinksTo
    <3>2. verification' = Answer(v, "confirmed", NoSlug)
      BY <1>10, <2>1 DEF Read
    <3>3. v.requests <= 1 + Upto(Pages) + (IF v.asks = "verify" THEN 2 ELSE 0)
      <4> HIDE DEF v
      <4> QED  BY <1>1, <1>2, <1>3, <1>5
    <3> HIDE DEF v
    <3> QED  BY <1>1, <3>1, <3>2, <3>3, AnswerSound
  <2>2. CASE ~LinksTo(v, named)
    <3>1. verification' = Narrow(v, OtherTenants(v, named))
      BY <1>10, <2>2 DEF Read
    <3>2. OtherTenants(v, named) \in SUBSET Tenant /\ v.guess \notin OtherTenants(v, named)
      BY DEF OtherTenants
    <3> HIDE DEF v
    <3> QED  BY <1>1, <1>2, <1>5, <3>1, <3>2, NarrowSound
  <2> QED  BY <2>1, <2>2
<1> QED  BY <1>6, <1>7, <1>8, <1>9, <1>10 DEF Follow

LEMMA ProbeSound ==
  ASSUME Sound(verification), Probe
  PROVE  Sound(verification')
<1>0. verification \in Working /\ Guesses(verification) /\ Frugal(verification)
  BY DEF Sound, Probe, NotAsking, Answers
<1>1. PICK t \in verification.left, serves \in BOOLEAN :
        LET v == [Asked(verification) EXCEPT
                    !.left = @ \ {t}, !.serving = IF serves THEN @ \cup {t} ELSE @]
        IN  verification' =
              CASE v.left # {} -> v
                [] v.left = {} /\ Cardinality(v.serving) = 1 ->
                     Answer(v, "confirmed", CHOOSE s \in v.serving : TRUE)
                [] OTHER -> PageAfter(v, v.page)
  BY Zenon DEF Probe
<1> DEFINE v == [Asked(verification) EXCEPT
                   !.left = @ \ {t}, !.serving = IF serves THEN @ \cup {t} ELSE @]
<1>2. /\ v \in Working /\ v.requests = verification.requests + 1 /\ v.at = "probe"
      /\ v.page = verification.page /\ v.base = verification.base /\ v.asks = verification.asks
      /\ v.guess = verification.guess /\ v.left = verification.left \ {t}
      /\ v.serving \subseteq verification.serving \cup {t}
  <2>1. Asked(verification).left = verification.left /\ t \in Tenant
        /\ Asked(verification).serving = verification.serving
        /\ Asked(verification) \in Working
    BY <1>0, AskedFacts DEF Working
  <2>2. verification.left \ {t} \in SUBSET Tenant
        /\ (IF serves THEN verification.serving \cup {t} ELSE verification.serving) \in SUBSET Tenant
    BY <1>0, <2>1 DEF Working
  <2>3. v = [Asked(verification) EXCEPT
              !.left = verification.left \ {t},
              !.serving = IF serves THEN verification.serving \cup {t} ELSE verification.serving]
    BY <2>1
  <2> HIDE DEF v
  <2>4. /\ v \in Working /\ v.left = verification.left \ {t}
        /\ v.serving = IF serves THEN verification.serving \cup {t} ELSE verification.serving
        /\ v.requests = Asked(verification).requests /\ v.at = Asked(verification).at
        /\ v.page = Asked(verification).page /\ v.base = Asked(verification).base
        /\ v.asks = Asked(verification).asks /\ v.guess = Asked(verification).guess
    BY <2>1, <2>2, <2>3 DEF Working
  <2> QED  BY <1>0, <2>4, AskedFacts DEF Probe
<1>3. verification' = CASE v.left # {} -> v
                        [] v.left = {} /\ Cardinality(v.serving) = 1 ->
                             Answer(v, "confirmed", CHOOSE s \in v.serving : TRUE)
                        [] OTHER -> PageAfter(v, v.page)
  BY <1>1, Zenon
<1> HIDE DEF v
<1>4. /\ Guesses(v) /\ v.base \in Base /\ v.page > 0 /\ v.guess \notin v.left \cup v.serving
      /\ verification.requests + Cardinality(verification.left) <= 1 + Upto(v.page)
  BY <1>0, <1>2 DEF Guesses, Frugal, Probe
<1>5. /\ IsFiniteSet(verification.left) /\ Cardinality(verification.left) \in Nat
      /\ Cardinality(v.left) = Cardinality(verification.left) - 1 /\ Cardinality(v.left) \in Nat
  <2>1. IsFiniteSet(verification.left)
    BY <1>0, EachType, FS_Subset DEF Working
  <2>2. IsFiniteSet(v.left) /\ Cardinality(v.left) = Cardinality(verification.left) - 1
    <3>1. LET left == verification.left \ {t}
          IN  IsFiniteSet(left) /\ Cardinality(left) = Cardinality(verification.left) - 1
      BY <2>1, FS_RemoveElement
    <3> QED  BY <1>2, <3>1
  <2> QED  BY <2>1, <2>2, FS_CardinalityType
<1>6. /\ v.page \in Nat /\ v.page <= Pages /\ Pages \in Nat /\ verification.requests \in Nat
      /\ NoSlug \notin Tenant
  BY <1>0, <1>2, EachType DEF Working, NoSlug
<1>7. Upto(v.page) \in Nat /\ Upto(Pages) \in Nat /\ Upto(v.page) <= Upto(Pages)
  BY <1>6, UptoGrows
<1>8. v.requests + Cardinality(v.left) <= 1 + Upto(v.page) /\ v.requests <= 1 + Upto(v.page)
      /\ v.requests <= 1 + Upto(Pages) + (IF v.asks = "verify" THEN 2 ELSE 0)
  BY <1>2, <1>4, <1>5, <1>6, <1>7
<1>9. CASE v.left # {}
  <2>1. verification' = v
    BY <1>3, <1>9
  <2>2. Frugal(v)
    BY <1>2, <1>4, <1>8 DEF Frugal
  <2> QED  BY <1>2, <1>4, <2>1, <2>2 DEF Sound
<1>10. CASE v.left = {} /\ Cardinality(v.serving) = 1
  <2>1. v.serving \in SUBSET Tenant /\ IsFiniteSet(v.serving)
    BY <1>2, EachType, FS_Subset DEF Working
  <2>2. PICK s : v.serving = {s}
    BY <1>10, <2>1, FS_Singleton
  <2>3. (CHOOSE r \in v.serving : TRUE) = s /\ s \in Tenant /\ s # v.guess
    BY <1>4, <2>1, <2>2
  <2>4. verification' = Answer(v, "confirmed", s)
    BY <1>3, <1>10, <2>3
  <2> QED  BY <1>2, <1>4, <1>6, <1>8, <2>3, <2>4, AnswerSound
<1>11. CASE v.left = {} /\ Cardinality(v.serving) # 1
  <2>1. verification' = PageAfter(v, v.page)
    BY <1>3, <1>11
  <2> QED  BY <1>2, <1>4, <1>8, <2>1, PageAfterSound
<1> QED  BY <1>9, <1>10, <1>11

LEMMA RobotsSound ==
  ASSUME Sound(verification), ReadRobots
  PROVE  Sound(verification')
<1>0. verification \in Working /\ Guesses(verification) /\ Frugal(verification)
  BY DEF Sound, ReadRobots, NotAsking, Answers
<1>1. PICK refused \in SUBSET Page :
        verification' = PageAfter([Asked(verification) EXCEPT !.refused = refused], 0)
  BY DEF ReadRobots
<1> DEFINE v == [Asked(verification) EXCEPT !.refused = refused]
<1>2. /\ v \in Working /\ v.requests = 1 /\ v.page = 0 /\ v.base \in Base /\ Guesses(v)
  <2>1. /\ v \in Working /\ v.requests = Asked(verification).requests
        /\ v.page = Asked(verification).page /\ v.base = Asked(verification).base
        /\ v.guess = Asked(verification).guess /\ v.asks = Asked(verification).asks
    BY <1>0, AskedFacts DEF Working
  <2> HIDE DEF v
  <2> QED  BY <1>0, <2>1, AskedFacts DEF ReadRobots, Frugal, Guesses
<1> HIDE DEF v
<1>3. v.requests <= 1 + Upto(v.page)
  <2>1. Upto(0) \in Nat
    BY UptoGrows
  <2> QED  BY <1>2, <2>1
<1> QED  BY <1>1, <1>2, <1>3, PageAfterSound DEF v

LEMMA TitleSound ==
  ASSUME Sound(verification), ReadTitle \/ ReadChannel
  PROVE  Sound(verification')
<1> DEFINE v == Asked(verification)
<1>0. verification \in Working /\ Guesses(verification) /\ Frugal(verification)
  BY DEF Sound, ReadTitle, ReadChannel, NotAsking, Answers
<1>1. /\ v \in Working /\ v.requests = verification.requests + 1 /\ v.asks = "verify"
      /\ Guesses(v) /\ verification.requests \in Nat /\ Upto(Pages) \in Nat
  <2>1. Upto(Pages) \in Nat
    BY EachType, UptoGrows
  <2> QED  BY <1>0, <2>1, AskedFacts DEF ReadTitle, ReadChannel, Frugal, Guesses, Working
<1>2. /\ v.requests <= 1 + Upto(Pages) + (IF v.asks = "verify" THEN 2 ELSE 0)
      /\ ReadTitle => v.requests <= 2 + Upto(Pages)
  BY <1>0, <1>1 DEF ReadTitle, ReadChannel, Frugal
<1> HIDE DEF v
<1>3. ASSUME NEW outcome \in {"named", "wrong_company", "unverifiable"},
             verification' = Answer(v, outcome, NoSlug)
      PROVE  Sound(verification')
  BY <1>1, <1>2, <1>3, AnswerSound
<1>4. ASSUME ReadTitle, verification' = [v EXCEPT !.at = "rss"] PROVE Sound(verification')
  <2> DEFINE w == [v EXCEPT !.at = "rss"]
  <2>1. w \in Working /\ w.at = "rss" /\ w.asks = v.asks /\ w.guess = v.guess
        /\ w.requests = v.requests
    BY <1>1 DEF Working
  <2> HIDE DEF w
  <2>2. Guesses(w) /\ Frugal(w)
    BY <1>1, <1>2, <1>4, <2>1 DEF Guesses, Frugal
  <2>3. Sound(w)
    BY <2>1, <2>2 DEF Sound
  <2> QED  BY <1>4, <2>3 DEF w
<1>5. CASE ReadTitle
  BY <1>3, <1>4, <1>5 DEF ReadTitle, Identified, v
<1>6. CASE ReadChannel
  BY <1>3, <1>6 DEF ReadChannel, Identified, v
<1> QED  BY <1>5, <1>6

LEMMA BeginSound ==
  ASSUME NEW c \in Company, BeginVerification(c)
  PROVE  Sound(verification')
<1>1. PICK asks \in {"verify", "locate"}, guess \in Tenant, base \in Bases(company[c].website) :
        LET v == [at |-> "robots", asks |-> asks, base |-> base, refused |-> {}, page |-> 0,
                  guess |-> IF asks = "verify" THEN guess ELSE NoSlug,
                  url |-> <<base, 0>>, hops |-> 0, left |-> {}, serving |-> {}, requests |-> 0]
        IN  verification' = IF base \in {"none", "private"} THEN FallBack(v) ELSE v
  BY Zenon DEF BeginVerification
<1> DEFINE v == [at |-> "robots", asks |-> asks, base |-> base, refused |-> {}, page |-> 0,
                 guess |-> IF asks = "verify" THEN guess ELSE NoSlug,
                 url |-> <<base, 0>>, hops |-> 0, left |-> {}, serving |-> {}, requests |-> 0]
<1>2. base \in Base \cup {"none"}
  BY DEF Bases, Base
<1>3. v \in Working
  <2>1. Pages \in Nat /\ MaxRedirects \in Nat
    BY EachType
  <2>2. /\ 0 \in 0 .. Pages /\ 0 \in 0 .. MaxRedirects /\ {} \in SUBSET Page /\ {} \in SUBSET Tenant
        /\ <<base, 0>> \in (Base \cup {"none"}) \X (0 .. Pages)
    BY <1>2, <2>1
  <2> QED  BY <1>2, <2>2 DEF Working
<1>4. /\ v.at = "robots" /\ v.requests = 0 /\ v.page = 0 /\ v.base = base
      /\ Guesses(v)
  BY EachType DEF Guesses, NoSlug
<1>5. verification' = IF base \in {"none", "private"} THEN FallBack(v) ELSE v
  BY <1>1, Zenon
<1> HIDE DEF v
<1>6. v.requests <= 1 + Upto(Pages)
  <2>1. Upto(Pages) \in Nat
    BY EachType, UptoGrows
  <2> QED  BY <1>4, <2>1
<1>7. base \notin {"none", "private"} => Frugal(v)
  BY <1>2, <1>4 DEF Frugal
<1> QED  BY <1>3, <1>4, <1>5, <1>6, <1>7, FallBackSound DEF Sound

-----------------------------------------------------------------------------
LEMMA SoundInit == ASSUME Init PROVE Sound(verification)
BY DEF Init, Sound

LEMMA SoundKept ==
  ASSUME Sound(verification), [Next]_vars
  PROVE  Sound(verification')
<1>1. CASE PassStep \/ UNCHANGED vars
  BY <1>1 DEF PassStep, vars
<1>2. CASE EndVerification
  BY <1>2 DEF EndVerification, Sound
<1>3. CASE \E c \in Company : BeginVerification(c)
  BY <1>3, BeginSound
<1> QED  BY <1>1, <1>2, <1>3, RobotsSound, FollowSound, ProbeSound, TitleSound
         DEF Next, VerificationStep

\* A verification makes a handful of requests, whatever pages redirect to and name: at most one
\* for robots.txt, and of each page its redirects and its candidates, and two of the board.
THEOREM VerificationIsFrugal == Spec => []RequestsAreBounded
<1>1. Init => Sound(verification)
  BY SoundInit
<1>2. Sound(verification) /\ [Next]_vars => Sound(verification)'
  BY SoundKept
<1>3. ASSUME Sound(verification) PROVE RequestsAreBounded
  <2>1. CASE verification \in Answers /\ Fitting(verification)
    <3>1. Pages * Each = Upto(Pages) /\ Each = MaxRedirects + 1 + MaxProbes
      BY DEF Upto, Each
    <3> QED  BY <2>1, <3>1 DEF Fitting, RequestsAreBounded
  <2>2. CASE verification \in Working /\ Frugal(verification)
    <3>1. /\ verification.page \in Nat /\ verification.page <= Pages /\ Pages \in Nat
          /\ verification.requests \in Nat /\ verification.hops \in Nat
          /\ verification.hops <= MaxRedirects /\ MaxRedirects \in Nat /\ MaxProbes \in Nat
          /\ IsFiniteSet(verification.left)
          /\ Upto(Pages) \in Nat
      BY <2>2, EachType, FS_Subset, UptoGrows DEF Working
    <3>2. Cardinality(verification.left) \in Nat
      BY <3>1, FS_CardinalityType
    <3>3. verification.page > 0 =>
            /\ verification.page - 1 \in Nat /\ verification.page - 1 + 1 = verification.page
      BY <3>1
    <3>4. verification.page > 0 =>
            /\ Upto(verification.page - 1) \in Nat /\ Upto(verification.page) \in Nat
            /\ Upto(verification.page) = Upto(verification.page - 1) + Each
            /\ Upto(verification.page) <= Upto(Pages)
      BY <3>1, <3>3, UptoGrows
    <3>5. Each = MaxRedirects + 1 + MaxProbes
      BY DEF Each
    <3>6. verification.at \in {"robots", "follow", "probe", "title", "rss"}
      BY <2>2 DEF Working
    <3>7. verification.requests <=
            1 + Upto(Pages) + (IF verification.asks = "verify" THEN 2 ELSE 0)
      BY <2>2, <3>1, <3>2, <3>4, <3>5, <3>6 DEF Frugal
    <3>8. Pages * (MaxRedirects + 1 + MaxProbes) = Upto(Pages)
      BY DEF Upto, Each
    <3> QED  BY <3>7, <3>8 DEF RequestsAreBounded
  <2> QED  BY <1>3, <2>1, <2>2 DEF Sound, RequestsAreBounded
<1> QED  BY <1>1, <1>2, <1>3, PTL DEF Spec

\* The answers discovery registers: a board named on the side is never the guess itself and
\* comes with `confirmed` alone, and locate gives no verdict on a guess.
THEOREM AnswersFit == Spec => []AnswersFitTheRegistry
<1>1. Init => Sound(verification)
  BY SoundInit
<1>2. Sound(verification) /\ [Next]_vars => Sound(verification)'
  BY SoundKept
<1>3. Sound(verification) => AnswersFitTheRegistry
  BY DEF Sound, AnswersFitTheRegistry, Fitting, NotAsking, Working
<1> QED  BY <1>1, <1>2, <1>3, PTL DEF Spec

=============================================================================
