--------------------------- MODULE CrawlerProofs ----------------------------
(***************************************************************************)
(* Proofs about Crawler for every web, every set of seeds, every number of *)
(* runs and tasks, every choice of outcomes and every environment.         *)
(***************************************************************************)
EXTENDS Crawler, TLAPS, FiniteSetTheorems, SequenceTheorems

(* A task holds a row exactly while it fetches, stores or expands; it has  *)
(* links to enqueue or rows inserted only while it expands.                *)
TaskShape ==
    \A t \in Tasks :
        /\ Working(t) <=> pc[t] \in {"fetching", "storing", "expanding"}
        /\ toLink[t] # {} => /\ pc[t] = "expanding"
                             /\ toLink[t] \subseteq DOMAIN Links[claim[t]]
        /\ grown[t] # {} => pc[t] = "expanding"

(* Only a run that is seeding has planted anything; the tasks of a run are *)
(* born when its rules are loaded, with its counter at zero.               *)
RunShape ==
    /\ \A r \in Runs : phase[r] # "seeding" => planted[r] = {}
    /\ \A r \in Runs : phase[r] \in {"idle", "seeding", "loading"} =>
          crawled[r] = 0 /\ \A t \in TasksOf(r) : pc[t] = "unborn"

-----------------------------------------------------------------------------
(* Lemmas about the operators.                                             *)

(* The least element of a nonempty set of numbers is one of them.          *)
LEMMA MinOfNats ==
    ASSUME NEW S \in SUBSET Nat, S # {}
    PROVE  Min(S) \in S /\ \A n \in S : Min(S) <= n
<1>1. OpToRel(<, Nat) = {ss \in Nat \X Nat : ss[1] < ss[2]}
  BY DEF OpToRel
<1>2. PICK m \in S : \A n \in S : <<n, m>> \notin OpToRel(<, Nat)
  BY NatLessThanWellFounded, WFMin
<1>3. ASSUME NEW n \in S PROVE m <= n
  <2>1. n \in Nat /\ m \in Nat OBVIOUS
  <2>2. <<n, m>> \notin {ss \in Nat \X Nat : ss[1] < ss[2]}
    BY <1>1, <1>2, Zenon
  <2>3. ~ (n < m) BY <2>1, <2>2
  <2> QED BY <2>1, <2>3
<1> QED BY <1>3 DEF Min

(* match_scope returns the seed of a rule that matches, or none.           *)
LEMMA MatchedType ==
    ASSUME TypeOK, NEW r \in Runs, NEW u
    PROVE  /\ Matched(r, u) \in Seeds \cup {NoSeed}
           /\ Matched(r, u) # NoSeed => u \in Scope[Matched(r, u)]
<1> DEFINE hits == {i \in DOMAIN rules[r] : u \in Scope[rules[r][i]]}
<1>1. rules[r] \in Seq(Seeds) BY DEF TypeOK
<1>2. hits \subseteq Nat BY <1>1
<1>3. CASE hits = {} BY <1>3 DEF Matched
<1>4. CASE hits # {}
  <2>1. Min(hits) \in hits BY <1>2, <1>4, MinOfNats
  <2>2. \A i \in DOMAIN rules[r] : rules[r][i] \in Seeds BY <1>1
  <2> QED BY <2>1, <2>2, <1>4 DEF Matched
<1> QED BY <1>3, <1>4

(* A SELECT returns a sequence of the rows it selects.                     *)
LEMMA OrderingsType ==
    ASSUME NEW S \in SUBSET Seeds, NEW q \in Orderings(S)
    PROVE  q \in Seq(S)
<1>1. Cardinality(S) \in Nat
  BY SeedsAssumption, FS_Subset, FS_CardinalityType
<1>2. q \in [1..Cardinality(S) -> S] BY DEF Orderings
<1> QED BY <1>1, <1>2, SeqDef

LEMMA NewRowType ==
    ASSUME NEW d \in Nat, NEW s \in Seeds \cup {NoSeed}
    PROVE  NewRow(d, s) \in Row
BY DEF NewRow, Row

LEMMA InReachType ==
    ASSUME NEW r \in Runs, NEW u \in Urls, NEW d
    PROVE  /\ InReach(r, u, d) \subseteq Nat
           /\ InReach(r, u, d) \subseteq DOMAIN Links[u]
BY LinksAssumption DEF InReach

(* A page a task works on, and the link it is about to enqueue, are URLs.  *)
LEMMA ClaimType ==
    ASSUME TypeOK, TaskShape, NEW t \in Tasks,
           pc[t] \in {"fetching", "storing", "expanding"}
    PROVE  claim[t] \in Urls /\ queue[claim[t]] \in Row
BY DEF TypeOK, TaskShape, Working

LEMMA NextLinkType ==
    ASSUME TypeOK, TaskShape, NEW t \in Tasks, toLink[t] # {}
    PROVE  /\ Min(toLink[t]) \in toLink[t]
           /\ NextLink(t) \in Urls
<1>1. Min(toLink[t]) \in toLink[t] BY MinOfNats DEF TypeOK
<1>2. pc[t] = "expanding" /\ toLink[t] \subseteq DOMAIN Links[claim[t]]
  BY DEF TaskShape
<1>3. claim[t] \in Urls BY <1>2, ClaimType
<1>4. \A i \in DOMAIN Links[claim[t]] : Links[claim[t]][i] \in Urls
  BY <1>3, LinksAssumption
<1> QED BY <1>1, <1>2, <1>4 DEF NextLink

-----------------------------------------------------------------------------
(* Type correctness.                                                       *)

TypeInv == TypeOK /\ TaskShape /\ RunShape

USE DEF tables, runVars, taskVars

LEMMA InitType == Init => TypeInv
<1> SUFFICES ASSUME Init PROVE TypeInv OBVIOUS
<1>1. TypeOK
  BY SeedsAssumption, UrlsAssumption
  DEF Init, TypeOK, NoRow, Row, NoPage, Page, NoJob, Job, Phases, Places
<1>2. TaskShape BY DEF Init, TaskShape, Working
<1>3. RunShape BY DEF Init, RunShape, TasksOf
<1> QED BY <1>1, <1>2, <1>3 DEF TypeInv

LEMMA AbortType ==
    ASSUME TypeInv, NEW t \in Tasks, AbortTask(t), pc[t] # "unborn"
    PROVE  TypeInv'
<1>1. TypeOK'
  BY RunsAssumption, UrlsAssumption DEF TypeInv, TypeOK, AbortTask, GoTo, Phases, Places
<1>2. TaskShape'
  BY RunsAssumption DEF TypeInv, TypeOK, TaskShape, Working, AbortTask, GoTo
<1>3. RunShape'
  BY RunsAssumption DEF TypeInv, TypeOK, RunShape, TasksOf, AbortTask, GoTo
<1> QED BY <1>1, <1>2, <1>3 DEF TypeInv

LEMMA FailRunType ==
    ASSUME TypeInv, NEW r \in Runs, FailRun(r)
    PROVE  TypeInv'
<1>1. TypeOK' /\ TaskShape'
  BY DEF TypeInv, TypeOK, TaskShape, Working, FailRun, Phases
<1>2. RunShape' BY DEF TypeInv, TypeOK, RunShape, TasksOf, FailRun
<1> QED BY <1>1, <1>2 DEF TypeInv

LEMMA StopType ==
    ASSUME TypeInv, NEW T \in SUBSET Tasks, Stop(T)
    PROVE  /\ pc' \in [Tasks -> Places]
           /\ claim' \in [Tasks -> Urls \cup {NoUrl}]
           /\ toLink' \in [Tasks -> SUBSET Nat]
           /\ grown' \in [Tasks -> SUBSET Urls]
           /\ TaskShape'
BY DEF TypeInv, TypeOK, TaskShape, Working, Stop, Places

LEMMA RunStepType ==
    ASSUME TypeInv, NEW r \in Runs, StartRun(r) \/ RunStep(r) \/ KillRun(r)
    PROVE  TypeInv'
<1> USE DEF TypeInv
<1>1. CASE StartRun(r)
  <2> DEFINE S == {s \in EnabledSeeds : SeedUrl[s] # NoUrl}
  <2>1. PICK q \in Orderings(S) : toPlant' = [toPlant EXCEPT ![r] = q]
    BY <1>1 DEF StartRun
  <2>2. S \in SUBSET Seeds BY DEF EnabledSeeds
  <2>3. q \in Seq(S) BY <2>1, <2>2, OrderingsType
  <2>4. q \in Seq({s \in Seeds : SeedUrl[s] # NoUrl})
    BY <2>3, SeqMonotonic DEF EnabledSeeds
  <2>5. TypeOK' BY <1>1, <2>1, <2>4 DEF StartRun, TypeOK, Phases
  <2>6. TaskShape' BY <1>1 DEF StartRun, TaskShape, Working
  <2>7. RunShape' BY <1>1 DEF StartRun, TypeOK, RunShape, TasksOf
  <2> QED BY <2>5, <2>6, <2>7
<1>2. CASE PlantSeed(r)
  <2> DEFINE S == {s \in Seeds : SeedUrl[s] # NoUrl}
  <2>1. toPlant[r] \in Seq(S) /\ toPlant[r] # <<>> /\ phase[r] = "seeding"
    BY <1>2 DEF PlantSeed, Planting, TypeOK
  <2>2. Head(toPlant[r]) \in S /\ Tail(toPlant[r]) \in Seq(S)
    BY <2>1, HeadTailProperties
  <2>3. toPlant' \in [Runs -> Seq(S)]
    BY <1>2, <2>2 DEF PlantSeed, TypeOK
  <2>4. planted' \in [Runs -> SUBSET S]
    BY <1>2, <2>2 DEF PlantSeed, TypeOK
  <2>5. TypeOK' BY <1>2, <2>3, <2>4 DEF PlantSeed, TypeOK
  <2>6. TaskShape' BY <1>2 DEF PlantSeed, TaskShape, Working
  <2>7. RunShape' BY <1>2, <2>1 DEF PlantSeed, TypeOK, RunShape, TasksOf
  <2> QED BY <2>5, <2>6, <2>7
<1>3. CASE PlantSeedGone(r)
  BY <1>3, FailRunType DEF PlantSeedGone
<1>4. CASE CommitSeeds(r)
  <2>1. ASSUME NEW u \in RunKeys(r)
        PROVE  (CHOOSE s \in planted[r] : SeedUrl[s] = u) \in Seeds
    BY <2>1 DEF TypeOK, RunKeys
  <2>2. queue' \in [Urls -> Row]
    BY <1>4, <2>1, NewRowType DEF CommitSeeds, TypeOK
  <2>3. TypeOK' BY <1>4, <2>2 DEF CommitSeeds, TypeOK, Phases
  <2>4. TaskShape' BY <1>4 DEF CommitSeeds, TaskShape, Working
  <2>5. RunShape' BY <1>4 DEF CommitSeeds, TypeOK, RunShape, TasksOf
  <2> QED BY <2>3, <2>4, <2>5
<1>5. CASE LoadRules(r)
  <2>1. PICK q \in Orderings(EnabledSeeds) : rules' = [rules EXCEPT ![r] = q]
    BY <1>5 DEF LoadRules
  <2>2. q \in Seq(Seeds)
    BY <2>1, OrderingsType, SeqMonotonic DEF EnabledSeeds
  <2>3. jobs' \in [Runs -> Job]
    <3>1. jobs[r] \in Job BY DEF TypeOK
    <3>2. [jobs[r] EXCEPT !.status = "running"] \in Job BY <3>1 DEF Job
    <3> QED BY <1>5, <3>2 DEF LoadRules, TypeOK
  <2>4. pc' \in [Tasks -> Places]
    BY <1>5 DEF LoadRules, TypeOK, Places
  <2>5. TypeOK' BY <1>5, <2>1, <2>2, <2>3, <2>4 DEF LoadRules, TypeOK, Phases
  <2>6. \A t \in Tasks : RunOf[t] = r => pc[t] = "unborn"
    BY <1>5 DEF LoadRules, RunShape, TasksOf
  <2>7. TaskShape' BY <1>5, <2>6 DEF LoadRules, TypeOK, TaskShape, Working
  <2>8. RunShape' BY <1>5 DEF LoadRules, TypeOK, RunShape, TasksOf
  <2> QED BY <2>5, <2>7, <2>8
<1>6. CASE FinishRun(r)
  <2>1. jobs' \in [Runs -> Job]
    BY <1>6 DEF FinishRun, TypeOK, Job
  <2>2. TypeOK' BY <1>6, <2>1 DEF FinishRun, TypeOK, Phases
  <2>3. TaskShape' BY <1>6 DEF FinishRun, TaskShape, Working
  <2>4. RunShape' BY <1>6 DEF FinishRun, TypeOK, RunShape, TasksOf
  <2> QED BY <2>2, <2>3, <2>4
<1>7. CASE KillRun(r)
  <2>1. TasksOf(r) \in SUBSET Tasks BY DEF TasksOf
  <2>2. TypeOK' /\ TaskShape'
    BY <1>7, <2>1, StopType DEF KillRun, TypeOK, Phases
  <2>3. RunShape' BY <1>7 DEF KillRun, Stop, TypeOK, RunShape, TasksOf
  <2> QED BY <2>2, <2>3
<1> QED BY <1>1, <1>2, <1>3, <1>4, <1>5, <1>6, <1>7 DEF RunStep

LEMMA TaskStepType ==
    ASSUME TypeInv, NEW t \in Tasks,
           TaskStep(t) \/ RaiseInTask(t) \/ CancelTask(t)
    PROVE  TypeInv'
<1> USE DEF TypeInv
<1> DEFINE r == RunOf[t]
<1>r. r \in Runs BY RunsAssumption
<1>1. CASE ClaimRow(t)
  <2>1. PICK u \in Urls : claim' = [claim EXCEPT ![t] = u]
    BY <1>1 DEF ClaimRow, Claimable, Available
  <2>2. TypeOK' BY <1>1, <2>1 DEF ClaimRow, GoTo, TypeOK, Places
  <2>3. TaskShape'
    BY <1>1, <2>1, UrlsAssumption DEF ClaimRow, GoTo, TypeOK, TaskShape, Working
  <2>4. RunShape' BY <1>1 DEF ClaimRow, GoTo, TypeOK, RunShape, TasksOf
  <2> QED BY <2>2, <2>3, <2>4
<1>2. CASE FindNothing(t)
  <2>1. TypeOK' BY <1>2 DEF FindNothing, GoTo, TypeOK, Places
  <2>2. TaskShape' BY <1>2 DEF FindNothing, GoTo, TypeOK, TaskShape, Working
  <2>3. RunShape' BY <1>2 DEF FindNothing, GoTo, TypeOK, RunShape, TasksOf
  <2> QED BY <2>1, <2>2, <2>3
<1>3. CASE FetchPage(t)
  <2>1. TypeOK' BY <1>3 DEF FetchPage, GoTo, TypeOK, Places
  <2>2. TaskShape' BY <1>3 DEF FetchPage, GoTo, TypeOK, TaskShape, Working
  <2>3. RunShape' BY <1>3 DEF FetchPage, GoTo, TypeOK, RunShape, TasksOf
  <2> QED BY <2>1, <2>2, <2>3
<1>4. CASE CloseUnindexed(t)
  <2>1. claim[t] \in Urls /\ queue[claim[t]] \in Row
    BY <1>4, ClaimType DEF CloseUnindexed
  <2>2. queue' \in [Urls -> Row]
    <3>1. PICK st \in {"done", "error"} :
              queue' = [queue EXCEPT ![claim[t]].err = TRUE, ![claim[t]].status = st]
      BY <1>4 DEF CloseUnindexed
    <3>2. [[queue[claim[t]] EXCEPT !.err = TRUE] EXCEPT !.status = st] \in Row
      BY <2>1 DEF Row
    <3>3. queue' = [queue EXCEPT ![claim[t]] =
                       [[queue[claim[t]] EXCEPT !.err = TRUE] EXCEPT !.status = st]]
      BY <2>1, <3>1 DEF TypeOK
    <3> QED BY <2>1, <3>2, <3>3 DEF TypeOK
  <2>3. TypeOK' BY <1>4, <2>2 DEF CloseUnindexed, GoTo, TypeOK, Places
  <2>4. TaskShape' BY <1>4 DEF CloseUnindexed, GoTo, TypeOK, TaskShape, Working
  <2>5. RunShape' BY <1>4 DEF CloseUnindexed, GoTo, TypeOK, RunShape, TasksOf
  <2> QED BY <2>3, <2>4, <2>5
<1>5. CASE StorePage(t)
  <2>1. claim[t] \in Urls
    BY <1>5, ClaimType DEF StorePage
  <2>2. toLink' \in [Tasks -> SUBSET Nat]
    BY <1>5, <1>r, <2>1, InReachType DEF StorePage, TypeOK
  <2>3. TypeOK' BY <1>5, <2>2 DEF StorePage, GoTo, TypeOK, Places
  <2>4. TaskShape' BY <1>5, <1>r, <2>1, InReachType DEF StorePage, GoTo, TypeOK, TaskShape, Working
  <2>5. RunShape' BY <1>5 DEF StorePage, GoTo, TypeOK, RunShape, TasksOf
  <2> QED BY <2>3, <2>4, <2>5
<1>6. CASE EnqueueLink(t)
  <2>1. pc[t] = "expanding" /\ toLink[t] # {} /\ claim[t] \in Urls
    BY <1>6, ClaimType DEF EnqueueLink, Expanding
  <2>2. NextLink(t) \in Urls
    BY <2>1, NextLinkType
  <2>3. TypeOK' BY <1>6, <2>2 DEF EnqueueLink, TypeOK
  <2>4. TaskShape' BY <1>6, <2>1 DEF EnqueueLink, TypeOK, TaskShape, Working
  <2>5. RunShape' BY <1>6 DEF EnqueueLink, TypeOK, RunShape, TasksOf
  <2> QED BY <2>3, <2>4, <2>5
<1>7. CASE LinkSeedGone(t)
  BY <1>7, AbortType DEF LinkSeedGone, Expanding
<1>8. CASE CommitPage(t)
  <2> DEFINE u == claim[t]
             d == queue[u].depth
  <2>1. u \in Urls /\ queue[u] \in Row /\ pages[u] \in Page
    BY <1>8, ClaimType DEF CommitPage, TypeOK
  <2>2. d \in Nat /\ ChildDepth(d) \in Nat
    BY <2>1 DEF Row, ChildDepth
  <2>3. queue' \in [Urls -> Row]
    <3>1. [queue[u] EXCEPT !.status = "done", !.err = FALSE] \in Row
      BY <2>1 DEF Row
    <3>2. \A v : NewRow(ChildDepth(d), Matched(r, v)) \in Row
      BY <2>2, <1>r, MatchedType, NewRowType
    <3> QED BY <1>8, <3>1, <3>2 DEF CommitPage, TypeOK
  <2>4. pages' \in [Urls -> Page]
    <3>1. Range(Links[u]) \in SUBSET Urls
      BY <2>1, LinksAssumption DEF Range
    <3>2. queue[u].seed \in Seeds \cup {NoSeed} /\ pages[u].seed \in Seeds \cup {NoSeed}
          /\ pages[u].depth \in Nat
      BY <2>1 DEF Row, Page
    <3>3. [stored |-> TRUE,
           depth |-> IF pages[u].stored /\ pages[u].depth < d THEN pages[u].depth ELSE d,
           seed |-> IF ChecksSeed(u) THEN queue[u].seed ELSE pages[u].seed,
           out |-> Range(Links[u])] \in Page
      BY <2>2, <3>1, <3>2 DEF Page
    <3> QED BY <1>8, <3>3 DEF CommitPage, TypeOK
  <2>5. TypeOK' BY <1>8, <2>3, <2>4 DEF CommitPage, GoTo, TypeOK, Places
  <2>6. TaskShape' BY <1>8 DEF CommitPage, GoTo, TypeOK, TaskShape, Working
  <2>7. RunShape' BY <1>8 DEF CommitPage, GoTo, TypeOK, RunShape, TasksOf
  <2> QED BY <2>5, <2>6, <2>7
<1>9. CASE Count(t)
  <2>1. crawled' \in [Runs -> Nat] /\ errors' \in [Runs -> Nat]
    BY <1>9, <1>r DEF Count, TypeOK
  <2>2. TypeOK' BY <1>9, <2>1 DEF Count, GoTo, TypeOK, Places
  <2>3. TaskShape' BY <1>9 DEF Count, GoTo, TypeOK, TaskShape, Working
  <2>4. RunShape' BY <1>9, <1>r DEF Count, GoTo, TypeOK, RunShape, TasksOf
  <2> QED BY <2>2, <2>3, <2>4
<1>10. CASE RaiseInTask(t)
  BY <1>10, AbortType DEF RaiseInTask
<1>11. CASE CancelTask(t)
  <2>1. {t} \in SUBSET Tasks OBVIOUS
  <2>2. Stop({t}) BY <1>11 DEF CancelTask
  <2>3. TypeOK' /\ TaskShape'
    BY <1>11, <2>1, <2>2, StopType DEF CancelTask, TypeOK
  <2>4. RunShape'
    BY <1>11 DEF CancelTask, Stop, TypeOK, RunShape, TasksOf
  <2> QED BY <2>3, <2>4
<1> QED BY <1>1, <1>2, <1>3, <1>4, <1>5, <1>6, <1>7, <1>8, <1>9, <1>10, <1>11
        DEF TaskStep

LEMMA AdminStepType ==
    ASSUME TypeInv, NEW s \in Seeds, AdminStep(s)
    PROVE  TypeInv'
<1> USE DEF TypeInv
<1>1. CASE AddSeed(s)
  BY <1>1 DEF AddSeed, TypeOK, TaskShape, RunShape, Working, TasksOf
<1>2. CASE ToggleSeed(s)
  BY <1>2 DEF ToggleSeed, TypeOK, TaskShape, RunShape, Working, TasksOf
<1>3. CASE DeleteBegin(s)
  BY <1>3 DEF DeleteBegin, TypeOK, TaskShape, RunShape, Working, TasksOf
<1>4. CASE DeleteFinish(s)
  <2>1. NoRow \in Row BY DEF NoRow, Row
  <2>2. queue' \in [Urls -> Row] BY <1>4, <2>1 DEF DeleteFinish, TypeOK
  <2>3. \A p \in Page : [p EXCEPT !.seed = NoSeed] \in Page BY DEF Page
  <2>4. pages' \in [Urls -> Page] BY <1>4, <2>3 DEF DeleteFinish, TypeOK
  <2> QED BY <1>4, <2>2, <2>4
          DEF DeleteFinish, TypeOK, TaskShape, RunShape, Working, TasksOf
<1> QED BY <1>1, <1>2, <1>3, <1>4 DEF AdminStep

(* Only a transaction that waits can be the victim of a deadlock.          *)
LEMMA OnCycleWaits ==
    ASSUME TypeOK
    PROVE  /\ \A t \in Tasks : OnCycle(t) => pc[t] \in {"storing", "expanding"}
           /\ \A r \in Runs : OnCycle(r) => phase[r] = "seeding"
<1>1. ASSUME NEW t \in Tasks, OnCycle(t)
      PROVE  pc[t] \in {"storing", "expanding"}
  <2>1. t \notin Runs /\ t \notin deleting BY RunsAssumption DEF TypeOK
  <2>2. WaitsFor(t) # {} BY <1>1 DEF OnCycle
  <2> QED BY <2>1, <2>2 DEF WaitsFor, Expanding
<1>2. ASSUME NEW r \in Runs, OnCycle(r)
      PROVE  phase[r] = "seeding"
  <2>1. r \notin Tasks /\ r \notin deleting BY RunsAssumption DEF TypeOK
  <2>2. WaitsFor(r) # {} BY <1>2 DEF OnCycle
  <2> QED BY <2>1, <2>2 DEF WaitsFor, Planting
<1> QED BY <1>1, <1>2

LEMMA DeadlockAbortType ==
    ASSUME TypeInv, DeadlockAbort
    PROVE  TypeInv'
<1>1. CASE \E t \in Tasks : OnCycle(t) /\ AbortTask(t)
  <2>1. PICK t \in Tasks : OnCycle(t) /\ AbortTask(t) BY <1>1
  <2>2. pc[t] # "unborn" BY <2>1, OnCycleWaits DEF TypeInv
  <2> QED BY <2>1, <2>2, AbortType
<1>2. CASE \E r \in Runs : OnCycle(r) /\ FailRun(r)
  BY <1>2, FailRunType
<1>3. CASE \E s \in deleting :
             /\ deleting' = deleting \ {s}
             /\ UNCHANGED <<seeds, queue, pages, jobs, runVars, taskVars>>
  BY <1>3 DEF TypeInv, TypeOK, TaskShape, RunShape, Working, TasksOf
<1> QED BY <1>1, <1>2, <1>3 DEF DeadlockAbort

LEMMA NextType ==
    ASSUME TypeInv, [Next]_vars
    PROVE  TypeInv'
<1>1. CASE UNCHANGED vars
  BY <1>1 DEF vars, TypeInv, TypeOK, TaskShape, RunShape, Working, TasksOf
<1>2. CASE Next
  BY <1>1, <1>2, RunStepType, TaskStepType, AdminStepType, DeadlockAbortType
  DEF Next, Quiescent
<1> QED BY <1>1, <1>2

(* Every variable keeps its type, and the shapes hold with it.             *)
THEOREM TypeCorrect == Spec => []TypeInv
BY InitType, NextType, PTL DEF Spec

THEOREM TypeSafe == Spec => []TypeOK
BY TypeCorrect, PTL DEF TypeInv

-----------------------------------------------------------------------------
(* One writer per URL.  Either property needs the other: that nobody else  *)
(* holds a key is what keeps a write fitting the table until its commit,   *)
(* and that every write fits the table is what keeps a claimed key apart   *)
(* from an inserted one.                                                   *)

KeyInv == OneWriterPerUrl /\ WritesFitTable

(* A step that writes nothing to crawl_queue and takes no key keeps it.    *)
LEMMA KeysReleased ==
    ASSUME KeyInv, TypeInv, queue' = queue,
           \A t \in Tasks : claim'[t] \in {claim[t], NoUrl} /\ grown'[t] \subseteq grown[t],
           \A r \in Runs : planted'[r] \subseteq planted[r]
    PROVE  KeyInv'
<1>1. \A u \in Urls : Holders(u)' \subseteq Holders(u)
  BY DEF Holders, TaskKeys, RunKeys
<1>2. OneWriterPerUrl' BY <1>1 DEF KeyInv, OneWriterPerUrl
<1>3. WritesFitTable'
  BY DEF KeyInv, WritesFitTable, RunKeys, Working
<1> QED BY <1>2, <1>3 DEF KeyInv

(* A key that nobody holds has no claim, no insert and no planting on it.  *)
LEMMA Unheld ==
    ASSUME NEW u, Holders(u) = {}
    PROVE  /\ \A t \in Tasks : u \notin grown[t]
           /\ \A t \in Tasks : claim[t] = u => u = NoUrl
           /\ \A r \in Runs : u \notin RunKeys(r)
BY DEF Holders, TaskKeys

(* A row that a claim does not pass over is held by nobody.                *)
LEMMA AvailableUnheld ==
    ASSUME KeyInv, TypeInv, NEW u \in Available
    PROVE  Holders(u) = {}
BY DEF KeyInv, WritesFitTable, Available, Holders, TaskKeys

(* A task that takes a key nobody holds, fitting the table, keeps it.      *)
LEMMA KeyTaken ==
    ASSUME KeyInv, TypeInv, queue' = queue, planted' = planted,
           NEW t \in Tasks, NEW u \in Urls, Holders(u) = {},
           \A v \in Tasks \ {t} : claim'[v] = claim[v] /\ grown'[v] = grown[v],
           \/ /\ claim'[t] = u /\ grown'[t] = grown[t]
              /\ queue[u].status = "pending" /\ claim[t] = NoUrl
           \/ /\ claim'[t] = claim[t] /\ grown'[t] = grown[t] \cup {u}
              /\ queue[u].status = "none"
    PROVE  KeyInv'
<1>1. \A v \in Urls : v # u => Holders(v)' \subseteq Holders(v)
  BY DEF Holders, TaskKeys, RunKeys
<1>2. Holders(u)' \subseteq {t}
  BY DEF Holders, TaskKeys, RunKeys
<1>3. OneWriterPerUrl' BY <1>1, <1>2 DEF KeyInv, OneWriterPerUrl
<1>4. WritesFitTable'
  BY DEF KeyInv, WritesFitTable, RunKeys, Working
<1> QED BY <1>3, <1>4 DEF KeyInv

(* A task that commits changes rows it holds, and holds nothing after.     *)
LEMMA TaskCommits ==
    ASSUME KeyInv, TypeInv, NEW t \in Tasks,
           \A u \in Urls : u \notin TaskKeys(t) => queue'[u] = queue[u],
           claim' = [claim EXCEPT ![t] = NoUrl], grown' = [grown EXCEPT ![t] = {}],
           planted' = planted
    PROVE  KeyInv'
<1> USE DEF TypeInv
<1>1. claim'[t] = NoUrl /\ grown'[t] = {}
      /\ \A v \in Tasks \ {t} : claim'[v] = claim[v] /\ grown'[v] = grown[v]
  BY DEF TypeOK
<1>2. \A u \in Urls : Holders(u)' \subseteq Holders(u)
  BY <1>1 DEF Holders, TaskKeys, RunKeys
<1>3. OneWriterPerUrl' BY <1>2 DEF KeyInv, OneWriterPerUrl
<1>4. ASSUME NEW u \in Urls, NEW a \in Holders(u), a # t
      PROVE  queue'[u] = queue[u]
  BY <1>4 DEF KeyInv, OneWriterPerUrl, Holders
<1>5. ASSUME NEW v \in Tasks, Working(v)'
      PROVE  queue'[claim'[v]].status = "pending"
  <2>1. v # t /\ claim'[v] = claim[v] /\ claim[v] # NoUrl
    BY <1>1, <1>5 DEF Working
  <2>2. claim[v] \in Urls /\ v \in Holders(claim[v])
    BY <2>1 DEF TypeOK, Holders, TaskKeys
  <2> QED BY <2>1, <2>2, <1>4 DEF KeyInv, WritesFitTable, Working
<1>6. ASSUME NEW v \in Tasks, NEW u \in grown'[v]
      PROVE  queue'[u].status = "none"
  <2>1. v # t /\ u \in grown[v] BY <1>1, <1>6
  <2>2. u \in Urls /\ v \in Holders(u)
    BY <2>1 DEF TypeOK, Holders, TaskKeys
  <2> QED BY <2>1, <2>2, <1>4 DEF KeyInv, WritesFitTable
<1>7. ASSUME NEW r \in Runs, NEW u \in RunKeys(r)
      PROVE  queue'[u].status = "none"
  <2>1. u \in Urls /\ r \in Holders(u) /\ r # t
    BY SeedsAssumption, RunsAssumption DEF TypeOK, Holders, RunKeys
  <2> QED BY <2>1, <1>4 DEF KeyInv, WritesFitTable
<1>8. WritesFitTable'
  BY <1>5, <1>6, <1>7 DEF WritesFitTable, RunKeys
<1> QED BY <1>3, <1>8 DEF KeyInv

LEMMA InitKeys == Init => KeyInv
BY DEF Init, KeyInv, OneWriterPerUrl, WritesFitTable, Holders, TaskKeys, RunKeys,
       Working, NoRow

LEMMA RunStepKeys ==
    ASSUME KeyInv, TypeInv, NEW r \in Runs, StartRun(r) \/ RunStep(r) \/ KillRun(r)
    PROVE  KeyInv'
<1> USE DEF TypeInv
<1>1. CASE StartRun(r) BY <1>1, KeysReleased DEF StartRun
<1>2. CASE PlantSeed(r)
  <2> DEFINE s == Head(toPlant[r])
             u == SeedUrl[s]
  <2>1. CASE planted' = planted
    BY <1>2, <2>1, KeysReleased DEF PlantSeed
  <2>2. CASE Inserts(r, u, s) /\ planted' = [planted EXCEPT ![r] = @ \cup {s}]
    <3>1. Holders(u) = {} /\ queue[u].status = "none"
      BY <2>2 DEF Inserts, InsertResult
    <3>2. toPlant[r] \in Seq({z \in Seeds : SeedUrl[z] # NoUrl}) /\ toPlant[r] # <<>>
      BY <1>2 DEF PlantSeed, Planting, TypeOK
    <3>3. s \in Seeds /\ u \in Urls
      BY <3>2, HeadTailProperties, SeedsAssumption
    <3>4. \A z \in Runs \ {r} : RunKeys(z)' = RunKeys(z)
      BY <2>2 DEF RunKeys, TypeOK
    <3>5. RunKeys(r)' = RunKeys(r) \cup {u}
      BY <2>2 DEF RunKeys, TypeOK
    <3>6. PICK w \in Urls : w = u BY <3>3
    <3>7. \A v \in Urls : Holders(v)' \subseteq IF v = w THEN {r} ELSE Holders(v)
      BY <1>2, <3>1, <3>4, <3>5, <3>6 DEF Holders, TaskKeys, PlantSeed
    <3>8. OneWriterPerUrl' BY <3>7 DEF KeyInv, OneWriterPerUrl
    <3>9. WritesFitTable'
      <4>1. queue' = queue /\ claim' = claim /\ grown' = grown
        BY <1>2 DEF PlantSeed
      <4> QED BY <4>1, <3>1, <3>4, <3>5 DEF KeyInv, WritesFitTable, Working
    <3> QED BY <3>8, <3>9 DEF KeyInv
  <2> QED BY <1>2, <2>1, <2>2 DEF PlantSeed
<1>3. CASE PlantSeedGone(r)
  BY <1>3, KeysReleased DEF PlantSeedGone, FailRun
<1>4. CASE CommitSeeds(r)
  <2>1. planted'[r] = {} /\ (\A z \in Runs \ {r} : planted'[z] = planted[z])
        /\ claim' = claim /\ grown' = grown
    BY <1>4 DEF CommitSeeds, TypeOK
  <2>2. \A u \in Urls : u \notin RunKeys(r) => queue'[u] = queue[u]
    BY <1>4 DEF CommitSeeds
  <2>3. \A u \in Urls : Holders(u)' \subseteq Holders(u)
    BY <2>1 DEF Holders, TaskKeys, RunKeys
  <2>4. OneWriterPerUrl' BY <2>3 DEF KeyInv, OneWriterPerUrl
  <2>5. ASSUME NEW u \in Urls, NEW a \in Holders(u), a # r
        PROVE  queue'[u] = queue[u]
    BY <2>2, <2>5 DEF KeyInv, OneWriterPerUrl, Holders
  <2>6. ASSUME NEW t \in Tasks, Working(t)'
        PROVE  queue'[claim'[t]].status = "pending"
    <3>1. claim[t] \in Urls /\ t \in Holders(claim[t]) /\ t # r
      BY <2>1, <2>6, RunsAssumption DEF TypeOK, Working, Holders, TaskKeys
    <3> QED BY <3>1, <2>1, <2>5, <2>6 DEF KeyInv, WritesFitTable, Working
  <2>7. ASSUME NEW t \in Tasks, NEW u \in grown'[t]
        PROVE  queue'[u].status = "none"
    <3>1. u \in Urls /\ t \in Holders(u) /\ t # r
      BY <2>1, RunsAssumption DEF TypeOK, Holders, TaskKeys
    <3> QED BY <3>1, <2>1, <2>5 DEF KeyInv, WritesFitTable
  <2>8. ASSUME NEW z \in Runs, NEW u \in RunKeys(z)'
        PROVE  queue'[u].status = "none"
    <3>1. z # r /\ u \in RunKeys(z) BY <2>1, <2>8 DEF RunKeys
    <3>2. u \in Urls /\ z \in Holders(u)
      BY <3>1, SeedsAssumption DEF TypeOK, Holders, RunKeys
    <3> QED BY <3>1, <3>2, <2>5 DEF KeyInv, WritesFitTable
  <2>9. WritesFitTable' BY <2>6, <2>7, <2>8 DEF WritesFitTable
  <2> QED BY <2>4, <2>9 DEF KeyInv
<1>5. CASE LoadRules(r) BY <1>5, KeysReleased DEF LoadRules
<1>6. CASE FinishRun(r) BY <1>6, KeysReleased DEF FinishRun
<1>7. CASE KillRun(r)
  BY <1>7, KeysReleased DEF KillRun, Stop, TypeOK
<1> QED BY <1>1, <1>2, <1>3, <1>4, <1>5, <1>6, <1>7 DEF RunStep

LEMMA AbortKeys ==
    ASSUME KeyInv, TypeInv, NEW t \in Tasks, AbortTask(t)
    PROVE  KeyInv'
BY KeysReleased DEF AbortTask, TypeInv, TypeOK

LEMMA TaskStepKeys ==
    ASSUME KeyInv, TypeInv, NEW t \in Tasks,
           TaskStep(t) \/ RaiseInTask(t) \/ CancelTask(t)
    PROVE  KeyInv'
<1> USE DEF TypeInv
<1>1. CASE ClaimRow(t)
  <2>1. PICK u \in Available : claim' = [claim EXCEPT ![t] = u]
    BY <1>1 DEF ClaimRow, Claimable
  <2>2. u \in Urls /\ queue[u].status = "pending" /\ claim[t] = NoUrl
    BY <1>1, <2>1 DEF Available, ClaimRow, TaskShape, Working
  <2>3. Holders(u) = {} BY <2>1, AvailableUnheld
  <2> QED BY <1>1, <2>1, <2>2, <2>3, KeyTaken DEF ClaimRow, TypeOK
<1>2. CASE FindNothing(t) BY <1>2, KeysReleased DEF FindNothing
<1>3. CASE FetchPage(t) BY <1>3, KeysReleased DEF FetchPage
<1>4. CASE CloseUnindexed(t)
  <2>1. claim[t] \in Urls /\ grown[t] = {}
    BY <1>4, ClaimType DEF CloseUnindexed, TaskShape
  <2>2. \A u \in Urls : u \notin TaskKeys(t) => queue'[u] = queue[u]
    BY <1>4, <2>1, UrlsAssumption DEF CloseUnindexed, TaskKeys, TypeOK
  <2>3. grown' = [grown EXCEPT ![t] = {}]
    BY <1>4, <2>1 DEF CloseUnindexed, TypeOK
  <2> QED BY <1>4, <2>2, <2>3, TaskCommits DEF CloseUnindexed
<1>5. CASE StorePage(t) BY <1>5, KeysReleased DEF StorePage
<1>6. CASE EnqueueLink(t)
  <2> DEFINE u == NextLink(t)
  <2>1. CASE grown' = grown BY <1>6, <2>1, KeysReleased DEF EnqueueLink
  <2>2. CASE /\ Inserts(t, u, Matched(RunOf[t], u))
             /\ grown' = [grown EXCEPT ![t] = @ \cup {u}]
    <3>1. Holders(u) = {} /\ queue[u].status = "none"
      BY <2>2 DEF Inserts, InsertResult
    <3>2. u \in Urls
      BY <1>6, NextLinkType DEF EnqueueLink, Expanding
    <3> QED BY <1>6, <2>2, <3>1, <3>2, KeyTaken DEF EnqueueLink, TypeOK
  <2> QED BY <1>6, <2>1, <2>2 DEF EnqueueLink
<1>7. CASE LinkSeedGone(t) BY <1>7, AbortKeys DEF LinkSeedGone
<1>8. CASE CommitPage(t)
  <2>1. \A u \in Urls : u \notin TaskKeys(t) => queue'[u] = queue[u]
    <3>1. claim[t] \in Urls BY <1>8, ClaimType DEF CommitPage
    <3> QED BY <1>8, <3>1, UrlsAssumption DEF CommitPage, TaskKeys
  <2> QED BY <1>8, <2>1, TaskCommits DEF CommitPage
<1>9. CASE Count(t) BY <1>9, KeysReleased DEF Count
<1>10. CASE RaiseInTask(t) BY <1>10, AbortKeys DEF RaiseInTask
<1>11. CASE CancelTask(t) BY <1>11, KeysReleased DEF CancelTask, Stop, TypeOK
<1> QED BY <1>1, <1>2, <1>3, <1>4, <1>5, <1>6, <1>7, <1>8, <1>9, <1>10, <1>11
        DEF TaskStep

LEMMA AdminStepKeys ==
    ASSUME KeyInv, TypeInv, NEW s \in Seeds, AdminStep(s)
    PROVE  KeyInv'
<1>1. CASE AddSeed(s) BY <1>1, KeysReleased DEF AddSeed
<1>2. CASE ToggleSeed(s) BY <1>2, KeysReleased DEF ToggleSeed
<1>3. CASE DeleteBegin(s) BY <1>3, KeysReleased DEF DeleteBegin
<1>4. CASE DeleteFinish(s)
  <2>1. claim' = claim /\ grown' = grown /\ planted' = planted
    BY <1>4 DEF DeleteFinish
  <2>2. OneWriterPerUrl'
    BY <2>1 DEF KeyInv, OneWriterPerUrl, Holders, TaskKeys, RunKeys
  <2>3. \A t \in Tasks : Working(t) => queue'[claim[t]] = queue[claim[t]]
    BY <1>4 DEF DeleteFinish, Delaying, Working, TypeInv, TypeOK
  <2>4. \A u \in Urls : queue[u].status = "none" => queue'[u].status = "none"
    BY <1>4 DEF DeleteFinish, NoRow
  <2>5. \A t \in Tasks : grown[t] \subseteq Urls
    BY DEF TypeInv, TypeOK
  <2>6. \A r \in Runs : RunKeys(r) \subseteq Urls
    BY SeedsAssumption DEF TypeInv, TypeOK, RunKeys
  <2>7. WritesFitTable'
    BY <2>1, <2>3, <2>4, <2>5, <2>6 DEF KeyInv, WritesFitTable, Working, RunKeys
  <2> QED BY <2>2, <2>7 DEF KeyInv
<1> QED BY <1>1, <1>2, <1>3, <1>4 DEF AdminStep

LEMMA DeadlockAbortKeys ==
    ASSUME KeyInv, TypeInv, DeadlockAbort
    PROVE  KeyInv'
<1>1. CASE \E t \in Tasks : OnCycle(t) /\ AbortTask(t)
  BY <1>1, AbortKeys
<1>2. CASE \E r \in Runs : OnCycle(r) /\ FailRun(r)
  BY <1>2, KeysReleased DEF FailRun, TypeInv, TypeOK
<1>3. CASE UNCHANGED <<seeds, queue, pages, jobs, runVars, taskVars>>
  BY <1>3, KeysReleased
<1> QED BY <1>1, <1>2, <1>3 DEF DeadlockAbort

LEMMA NextKeys ==
    ASSUME KeyInv, TypeInv, [Next]_vars
    PROVE  KeyInv'
<1>1. CASE UNCHANGED vars
  BY <1>1, KeysReleased DEF vars
<1>2. CASE Next
  BY <1>1, <1>2, RunStepKeys, TaskStepKeys, AdminStepKeys, DeadlockAbortKeys
  DEF Next, Quiescent
<1> QED BY <1>1, <1>2

(* No two transactions, of whatever tasks and runs, ever have uncommitted  *)
(* writes of the same URL, and every such write fits the table when its    *)
(* transaction commits.                                                    *)
THEOREM KeysSafe == Spec => []KeyInv
<1>1. Init => KeyInv BY InitKeys
<1>2. TypeInv /\ KeyInv /\ [Next]_vars => KeyInv' BY NextKeys
<1> QED BY <1>1, <1>2, TypeCorrect, PTL DEF Spec

THEOREM OneWriter == Spec => []OneWriterPerUrl
BY KeysSafe, PTL DEF KeyInv

THEOREM WritesFit == Spec => []WritesFitTable
BY KeysSafe, PTL DEF KeyInv

-----------------------------------------------------------------------------
(* Crawler implements Frontier: every step of the tasks, the runs, the     *)
(* administrator and PostgreSQL is, seen through Entry, a step of the      *)
(* abstract frontier or no step at all.                                    *)

Claimed(u) == \E t \in Tasks : claim[t] = u

LEMMA EntryOf ==
    ASSUME NEW u \in Urls
    PROVE  Entry[u] = CASE queue[u].status = "none" -> "unknown"
                        [] queue[u].status = "pending" /\ ~Claimed(u) -> "ready"
                        [] queue[u].status = "pending" /\ Claimed(u) -> "busy"
                        [] OTHER -> "closed"
<1>1. u \in Available <=> queue[u].status = "pending" /\ ~Claimed(u)
  BY DEF Available, Claimed
<1> QED BY <1>1 DEF Entry

LEMMA EntryOfNext ==
    ASSUME NEW u \in Urls
    PROVE  Entry'[u] = CASE queue'[u].status = "none" -> "unknown"
                         [] queue'[u].status = "pending" /\ ~Claimed(u)' -> "ready"
                         [] queue'[u].status = "pending" /\ Claimed(u)' -> "busy"
                         [] OTHER -> "closed"
<1>1. u \in Available' <=> queue'[u].status = "pending" /\ ~Claimed(u)'
  BY DEF Available, Claimed
<1> QED BY <1>1 DEF Entry

LEMMA EntryFcn == Entry = [u \in Urls |-> Entry[u]] /\ Entry' = [u \in Urls |-> Entry'[u]]
BY DEF Entry

(* Tasks that do nothing to crawl_queue but let go of their claims.        *)
LEMMA LettingGo ==
    ASSUME KeyInv, TypeInv, queue' = queue,
           \A t \in Tasks : claim'[t] \in {claim[t], NoUrl}
    PROVE  Abstract!Next
<1> DEFINE S == {u \in Urls : Claimed(u) /\ ~Claimed(u)'}
<1>1. \A u \in Urls : Claimed(u)' => Claimed(u)
  BY UrlsAssumption DEF Claimed
<1>2. \A u \in Urls : Claimed(u) => queue[u].status = "pending"
  BY UrlsAssumption DEF KeyInv, WritesFitTable, Working, Claimed
<1>3. \A u \in S : Entry[u] = "busy" BY <1>2, EntryOf
<1>4. \A u \in Urls : Entry'[u] = IF u \in S THEN "ready" ELSE Entry[u]
  BY <1>1, <1>2, EntryOf, EntryOfNext
<1>5. Abstract!Move(S, "busy", "ready")
  BY <1>3, <1>4, EntryFcn DEF Abstract!Move
<1>6. S \in SUBSET Urls OBVIOUS
<1> QED BY <1>5, <1>6 DEF Abstract!Next, Abstract!Release

LEMMA ClaimTakes ==
    ASSUME KeyInv, TypeInv, NEW t \in Tasks, ClaimRow(t)
    PROVE  Abstract!Next
<1>1. PICK u \in Available : claim' = [claim EXCEPT ![t] = u]
  BY DEF ClaimRow, Claimable
<1>2. u \in Urls /\ claim[t] = NoUrl /\ queue' = queue
  <2>1. pc[t] = "claiming" /\ queue' = queue BY DEF ClaimRow
  <2>2. claim[t] = NoUrl BY <2>1 DEF TypeInv, TaskShape, Working
  <2> QED BY <1>1, <2>1, <2>2 DEF Available
<1>3. \A v \in Urls : Claimed(v)' <=> Claimed(v) \/ v = u
  BY <1>1, <1>2, UrlsAssumption DEF Claimed, TypeInv, TypeOK
<1>4. Entry[u] = "ready"
  BY <1>1, <1>2, EntryOf DEF Available, Claimed
<1>5. \A v \in Urls : Entry'[v] = IF v \in {u} THEN "busy" ELSE Entry[v]
  BY <1>1, <1>2, <1>3, EntryOf, EntryOfNext DEF Available
<1>6. Abstract!Move({u}, "ready", "busy")
  BY <1>4, <1>5, EntryFcn DEF Abstract!Move
<1> QED BY <1>2, <1>6 DEF Abstract!Next, Abstract!Take

(* A commit that closes the row of a task and inserts the rows of S.       *)
LEMMA CommitCloses ==
    ASSUME KeyInv, TypeInv, NEW t \in Tasks, Working(t),
           NEW S, S = grown[t],
           claim' = [claim EXCEPT ![t] = NoUrl],
           queue'[claim[t]].status \in {"done", "error"},
           \A v \in S : v # claim[t] => queue'[v].status = "pending",
           \A v \in Urls : v \notin S /\ v # claim[t] => queue'[v] = queue[v]
    PROVE  Abstract!Next
<1> DEFINE u == claim[t]
<1>1. u \in Urls /\ u # NoUrl /\ S \in SUBSET Urls
  BY DEF TypeInv, TypeOK, Working
<1>2. queue[u].status = "pending" /\ \A v \in S : queue[v].status = "none"
  BY DEF KeyInv, WritesFitTable
<1>3. \A z \in Tasks : claim[z] = u => z = t
  BY <1>1 DEF KeyInv, OneWriterPerUrl, Holders, TaskKeys
<1>4. \A v \in Urls : Claimed(v)' <=> Claimed(v) /\ v # u
  <2>1. claim'[t] = NoUrl /\ \A z \in Tasks \ {t} : claim'[z] = claim[z]
    BY DEF TypeInv, TypeOK
  <2> QED BY <1>3, <2>1, UrlsAssumption DEF Claimed
<1>5. \A v \in S : ~Claimed(v)
  BY <1>1, <1>2, UrlsAssumption DEF Claimed, KeyInv, WritesFitTable, Working
<1>6. Entry[u] = "busy" /\ \A v \in S : Entry[v] = "unknown"
  BY <1>1, <1>2, EntryOf DEF Claimed
<1>7. \A v \in Urls : Entry'[v] = CASE v = u   -> "closed"
                                    [] v \in S -> "ready"
                                    [] OTHER   -> Entry[v]
  <2> SUFFICES ASSUME NEW v \in Urls
               PROVE  Entry'[v] = CASE v = u   -> "closed"
                                    [] v \in S -> "ready"
                                    [] OTHER   -> Entry[v]
    OBVIOUS
  <2>1. CASE v = u
    <3>1. queue'[v].status \in {"done", "error"} BY <2>1
    <3>2. Entry'[v] = "closed" BY <3>1, EntryOfNext
    <3>3. v \notin S BY <2>1, <1>2
    <3> QED BY <2>1, <3>2, <3>3
  <2>2. CASE v # u /\ v \in S BY <2>2, <1>4, <1>5, EntryOfNext
  <2>3. CASE v # u /\ v \notin S BY <2>3, <1>4, EntryOf, EntryOfNext
  <2> QED BY <2>1, <2>2, <2>3
<1>8. Entry' = [v \in Urls |-> CASE v = u   -> "closed"
                                 [] v \in S -> "ready"
                                 [] OTHER   -> Entry[v]]
  BY <1>7, EntryFcn
<1> QED BY <1>1, <1>6, <1>8 DEF Abstract!Next, Abstract!Close

LEMMA CloseUnindexedCloses ==
    ASSUME KeyInv, TypeInv, NEW t \in Tasks, CloseUnindexed(t)
    PROVE  Abstract!Next
<1>1. claim[t] \in Urls /\ Working(t) /\ grown[t] = {}
  BY ClaimType DEF CloseUnindexed, TypeInv, TaskShape
<1>2. PICK st \in {"done", "error"} :
          queue' = [queue EXCEPT ![claim[t]].err = TRUE, ![claim[t]].status = st]
  BY DEF CloseUnindexed
<1>3. queue'[claim[t]].status = st
      /\ \A v \in Urls : v # claim[t] => queue'[v] = queue[v]
  <2>1. queue[claim[t]] \in Row BY <1>1 DEF TypeInv, TypeOK
  <2> QED BY <1>1, <1>2, <2>1 DEF TypeInv, TypeOK, Row
<1>4. claim' = [claim EXCEPT ![t] = NoUrl] BY DEF CloseUnindexed
<1> QED BY <1>1, <1>3, <1>4, CommitCloses

LEMMA CommitPageCloses ==
    ASSUME KeyInv, TypeInv, NEW t \in Tasks, CommitPage(t)
    PROVE  Abstract!Next
<1>1. claim[t] \in Urls /\ Working(t) /\ queue[claim[t]] \in Row
  BY ClaimType DEF CommitPage, TypeInv, TaskShape
<1>2. \A v \in grown[t] : v \in Urls /\ queue[v].status = "none"
  BY DEF KeyInv, WritesFitTable, TypeInv, TypeOK
<1>3. claim[t] \notin grown[t]
  BY <1>1, <1>2 DEF KeyInv, WritesFitTable
<1>4. queue'[claim[t]].status = "done"
  BY <1>1, <1>3 DEF CommitPage, Row
<1>5. \A v \in grown[t] : v # claim[t] => queue'[v].status = "pending"
  BY <1>2 DEF CommitPage, NewRow
<1>6. \A v \in Urls : v \notin grown[t] /\ v # claim[t] => queue'[v] = queue[v]
  BY DEF CommitPage
<1>7. claim' = [claim EXCEPT ![t] = NoUrl] BY DEF CommitPage
<1> QED BY <1>1, <1>4, <1>5, <1>6, <1>7, CommitCloses

LEMMA CommitSeedsOffers ==
    ASSUME KeyInv, TypeInv, NEW r \in Runs, CommitSeeds(r)
    PROVE  Abstract!Next
<1> DEFINE S == RunKeys(r)
<1>1. S \in SUBSET Urls BY SeedsAssumption DEF RunKeys, TypeInv, TypeOK
<1>2. claim' = claim BY DEF CommitSeeds
<1>3. \A u \in Urls : Claimed(u)' <=> Claimed(u) BY <1>2 DEF Claimed
<1>4. \A u \in S : Entry[u] = "unknown"
  BY <1>1, EntryOf DEF KeyInv, WritesFitTable
<1>5. \A u \in S : ~Claimed(u)
  BY <1>1, UrlsAssumption DEF Claimed, KeyInv, WritesFitTable, Working
<1>6. \A u \in S : queue'[u].status = "pending"
  BY <1>1 DEF CommitSeeds, NewRow
<1>7. \A u \in Urls : u \notin S => queue'[u] = queue[u]
  BY DEF CommitSeeds
<1>8. \A u \in Urls : Entry'[u] = IF u \in S THEN "ready" ELSE Entry[u]
  BY <1>3, <1>5, <1>6, <1>7, EntryOf, EntryOfNext
<1>9. Abstract!Move(S, "unknown", "ready")
  BY <1>4, <1>8, EntryFcn DEF Abstract!Move
<1> QED BY <1>1, <1>9 DEF Abstract!Next, Abstract!Offer

LEMMA DeleteWithdraws ==
    ASSUME KeyInv, TypeInv, NEW s \in Seeds, DeleteFinish(s)
    PROVE  Abstract!Next
<1> DEFINE S == {u \in Urls : queue[u].seed = s}
<1>1. claim' = claim BY DEF DeleteFinish
<1>2. \A u \in Urls : Claimed(u)' <=> Claimed(u) BY <1>1 DEF Claimed
<1>3. \A u \in S : ~Claimed(u)
  BY UrlsAssumption DEF DeleteFinish, Delaying, Claimed, Working
<1>4. \A u \in S : Entry[u] # "busy" BY <1>3, EntryOf
<1>5. \A u \in Urls : queue'[u] = IF u \in S THEN NoRow ELSE queue[u]
  BY DEF DeleteFinish
<1>6. \A u \in Urls : Entry'[u] = IF u \in S THEN "unknown" ELSE Entry[u]
  BY <1>2, <1>5, EntryOf, EntryOfNext DEF NoRow
<1>7. Entry' = [u \in Urls |-> IF u \in S THEN "unknown" ELSE Entry[u]]
  BY <1>6, EntryFcn
<1> QED BY <1>4, <1>7 DEF Abstract!Next, Abstract!Withdraw

LEMMA AbortLetsGo ==
    ASSUME KeyInv, TypeInv, NEW t \in Tasks, AbortTask(t)
    PROVE  Abstract!Next
BY LettingGo DEF AbortTask, TypeInv, TypeOK

LEMMA StepRefines ==
    ASSUME KeyInv, TypeInv, [Next]_vars
    PROVE  Abstract!Next
<1>1. ASSUME NEW r \in Runs, StartRun(r) \/ RunStep(r) \/ KillRun(r)
      PROVE  Abstract!Next
  <2>1. CASE CommitSeeds(r) BY <2>1, CommitSeedsOffers
  <2>2. CASE StartRun(r) BY <2>2, LettingGo DEF StartRun
  <2>3. CASE PlantSeed(r) BY <2>3, LettingGo DEF PlantSeed
  <2>4. CASE PlantSeedGone(r) BY <2>4, LettingGo DEF PlantSeedGone, FailRun
  <2>5. CASE LoadRules(r) BY <2>5, LettingGo DEF LoadRules
  <2>6. CASE FinishRun(r) BY <2>6, LettingGo DEF FinishRun
  <2>7. CASE KillRun(r) BY <2>7, LettingGo DEF KillRun, Stop
  <2> QED BY <1>1, <2>1, <2>2, <2>3, <2>4, <2>5, <2>6, <2>7 DEF RunStep
<1>2. ASSUME NEW t \in Tasks, TaskStep(t) \/ RaiseInTask(t) \/ CancelTask(t)
      PROVE  Abstract!Next
  <2>1. CASE ClaimRow(t) BY <2>1, ClaimTakes
  <2>2. CASE CloseUnindexed(t) BY <2>2, CloseUnindexedCloses
  <2>3. CASE CommitPage(t) BY <2>3, CommitPageCloses
  <2>4. CASE FindNothing(t) BY <2>4, LettingGo DEF FindNothing
  <2>5. CASE FetchPage(t) BY <2>5, LettingGo DEF FetchPage
  <2>6. CASE StorePage(t) BY <2>6, LettingGo DEF StorePage
  <2>7. CASE EnqueueLink(t) BY <2>7, LettingGo DEF EnqueueLink
  <2>8. CASE LinkSeedGone(t) BY <2>8, AbortLetsGo DEF LinkSeedGone
  <2>9. CASE Count(t) BY <2>9, LettingGo DEF Count
  <2>10. CASE RaiseInTask(t) BY <2>10, AbortLetsGo DEF RaiseInTask
  <2>11. CASE CancelTask(t) BY <2>11, LettingGo DEF CancelTask, Stop
  <2> QED BY <1>2, <2>1, <2>2, <2>3, <2>4, <2>5, <2>6, <2>7, <2>8, <2>9, <2>10,
             <2>11 DEF TaskStep
<1>3. ASSUME NEW s \in Seeds, AdminStep(s)
      PROVE  Abstract!Next
  <2>1. CASE DeleteFinish(s) BY <2>1, DeleteWithdraws
  <2>2. CASE AddSeed(s) BY <2>2, LettingGo DEF AddSeed
  <2>3. CASE ToggleSeed(s) BY <2>3, LettingGo DEF ToggleSeed
  <2>4. CASE DeleteBegin(s) BY <2>4, LettingGo DEF DeleteBegin
  <2> QED BY <1>3, <2>1, <2>2, <2>3, <2>4 DEF AdminStep
<1>4. CASE DeadlockAbort
  <2>1. CASE \E t \in Tasks : OnCycle(t) /\ AbortTask(t)
    BY <2>1, AbortLetsGo
  <2>2. CASE \E r \in Runs : OnCycle(r) /\ FailRun(r)
    BY <2>2, LettingGo DEF FailRun
  <2>3. CASE UNCHANGED <<seeds, queue, pages, jobs, runVars, taskVars>>
    BY <2>3, LettingGo
  <2> QED BY <1>4, <2>1, <2>2, <2>3 DEF DeadlockAbort
<1>5. CASE UNCHANGED vars BY <1>5, LettingGo DEF vars
<1> QED BY <1>1, <1>2, <1>3, <1>4, <1>5 DEF Next, Quiescent

(* Whatever the web, the seeds, the runs, the failures and the edits: the  *)
(* frontier hands a URL to one worker at a time, never hands out a closed  *)
(* one, and closes a page and publishes its links in one step.             *)
THEOREM Refinement == Spec => ImplementsFrontier
<1>1. Init => Abstract!Init
  <2> SUFFICES ASSUME Init PROVE Abstract!Init OBVIOUS
  <2>1. \A u \in Urls : Entry[u] = "unknown"
    BY EntryOf DEF Init, NoRow
  <2> QED BY <2>1, EntryFcn DEF Abstract!Init
<1>2. TypeInv /\ KeyInv /\ [Next]_vars => [Abstract!Next]_Entry
  BY StepRefines
<1> QED BY <1>1, <1>2, TypeCorrect, KeysSafe, PTL
        DEF Spec, ImplementsFrontier, Abstract!Spec

=============================================================================
