----------------------------- MODULE MCCrawler ------------------------------
(***************************************************************************)
(* Small webs and groups of runs for model-checking Crawler.               *)
(***************************************************************************)
EXTENDS Crawler, TLC

CONSTANTS a, b, c, w, x, s1, s2, r1, r2, t1, t2, t3

(* Cycle: a is the seed's page; a, b and c link to one another.            *)
CycleLinks == a :> <<b, c>> @@ b :> <<c, a>> @@ c :> <<b>>

(* Diamond: b and c lead to w and to each other; x is out of every scope.  *)
DiamondLinks == a :> <<b, c>> @@ b :> <<w, x, c>> @@ c :> <<w, b>> @@ w :> <<a>> @@ x :> <<c>>
DiamondScope == s1 :> {a, b, c, w}

(* One seed over {a, b, c}; its own page is a.                             *)
OneSeedUrl == s1 :> a
OneScope == s1 :> {a, b, c}
OneDepth == s1 :> 2

(* Two seeds whose scopes overlap in c; the second seed's page is b.       *)
TwoSeedUrl == s1 :> a @@ s2 :> b
TwoScope == s1 :> {a, c} @@ s2 :> {b, c}
TwoDepth == s1 :> 1 @@ s2 :> 2

(* Tasks of one run; one task for each of two runs; two and one.           *)
PairOfOne == t1 :> r1 @@ t2 :> r1
TripleOfOne == t1 :> r1 @@ t2 :> r1 @@ t3 :> r1
OneEach == t1 :> r1 @@ t2 :> r2
TwoAndOne == t1 :> r1 @@ t2 :> r1 @@ t3 :> r2

(* No cap on pages, or one page for the first of two runs.                 *)
Unlimited == [r \in Runs |-> NoLimit]
CapFirst == r1 :> 1 @@ r2 :> NoLimit

AnyOutcome == {"page", "blocked", "error", "raise"}
PagesOnly == {"page"}

=============================================================================
