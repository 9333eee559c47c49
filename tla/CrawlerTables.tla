--------------------------- MODULE CrawlerTables ----------------------------
(***************************************************************************)
(* Proofs about what the tables say of each other and of the runs: that a  *)
(* crawl keeps within its bounds (the scope and the depth of its seeds,    *)
(* and max_pages plus the pages its tasks are working on), that a finished *)
(* job is over, counted and leaves nothing behind, that rows refer to      *)
(* seeds that are there, and where rows come from and what they lead to.   *)
(***************************************************************************)
EXTENDS CrawlerProofs

USE DEF tables, runVars, taskVars

(* The links a task has yet to enqueue, and those it has inserted, are     *)
(* within the scope and the depth of the rule they matched.                *)
Fits(t, v) ==
    LET s == Matched(RunOf[t], v)
    IN  /\ s \in Seeds /\ v \in Scope[s]
        /\ ChildDepth(queue[claim[t]].depth) <= MaxDepth[s]
LinksFit ==
    \A t \in Tasks : pc[t] = "expanding" =>
        /\ \A i \in toLink[t] : Fits(t, Links[claim[t]][i])
        /\ \A v \in grown[t] : Fits(t, v)

(* The tasks of a run that may count a page before they look at max_pages  *)
(* again.                                                                  *)
InFlight(r) == {t \in TasksOf(r) : pc[t] \notin {"unborn", "exited", "gone"}}
BudgetInv ==
    \A r \in Runs : MaxPages[r] # NoLimit =>
        IF MaxPages[r] = 0
        THEN crawled[r] = 0 /\ InFlight(r) = {}
        ELSE crawled[r] + Cardinality(InFlight(r))
                <= MaxPages[r] - 1 + Cardinality(TasksOf(r))

-----------------------------------------------------------------------------
(* Scope and depth.                                                        *)

DepthInv == WithinSeed /\ LinksFit

LEMMA InitDepth == Init => DepthInv
BY DEF Init, DepthInv, WithinSeed, LinksFit, NoRow

(* What one transaction commits leaves the rows others have claimed alone. *)
LEMMA OthersKeep ==
    ASSUME KeyInv, TypeInv, NEW a,
           \A u \in Urls : a \notin Holders(u) => queue'[u] = queue[u]
    PROVE  \A t \in Tasks : t # a /\ Working(t) => queue'[claim[t]] = queue[claim[t]]
BY DEF KeyInv, OneWriterPerUrl, Holders, TaskKeys, Working, TypeInv, TypeOK

(* Links that fit keep fitting while the row and the rules stay.           *)
LEMMA LinksKeep ==
    ASSUME LinksFit, TypeInv,
           \A t \in Tasks : pc'[t] = "expanding" =>
               /\ pc[t] = "expanding" /\ claim'[t] = claim[t]
               /\ queue'[claim[t]].depth = queue[claim[t]].depth
               /\ rules'[RunOf[t]] = rules[RunOf[t]]
               /\ toLink'[t] \subseteq toLink[t]
               /\ grown'[t] \subseteq grown[t]
    PROVE  LinksFit'
<1> SUFFICES ASSUME NEW t \in Tasks, pc'[t] = "expanding"
             PROVE  /\ \A i \in toLink'[t] : Fits(t, Links[claim[t]][i])'
                    /\ \A v \in grown'[t] : Fits(t, v)'
  BY DEF LinksFit
<1>1. \A v : Matched(RunOf[t], v)' = Matched(RunOf[t], v)
  BY DEF Matched
<1>2. \A v : Fits(t, v)' <=> Fits(t, v)
  BY <1>1 DEF Fits
<1> QED BY <1>2 DEF LinksFit

(* Most steps leave the rows, the rules and the expansions alone.          *)
LEMMA DepthKeeps ==
    ASSUME DepthInv, TypeInv, queue' = queue,
           \A t \in Tasks : pc'[t] = "expanding" =>
               /\ pc[t] = "expanding" /\ claim'[t] = claim[t]
               /\ rules'[RunOf[t]] = rules[RunOf[t]]
               /\ toLink'[t] \subseteq toLink[t]
               /\ grown'[t] \subseteq grown[t]
    PROVE  DepthInv'
<1>1. LinksFit' BY LinksKeep DEF DepthInv
<1>2. WithinSeed' BY DEF DepthInv, WithinSeed
<1> QED BY <1>1, <1>2 DEF DepthInv

LEMMA RunStepDepth ==
    ASSUME DepthInv, KeyInv, TypeInv, NEW r \in Runs,
           StartRun(r) \/ RunStep(r) \/ KillRun(r)
    PROVE  DepthInv'
<1>1. CASE StartRun(r) BY <1>1, DepthKeeps DEF StartRun
<1>2. CASE PlantSeed(r) BY <1>2, DepthKeeps DEF PlantSeed
<1>3. CASE PlantSeedGone(r) BY <1>3, DepthKeeps DEF PlantSeedGone, FailRun
<1>4. CASE CommitSeeds(r)
  <2>1. \A u \in Urls : r \notin Holders(u) => queue'[u] = queue[u]
    BY <1>4 DEF CommitSeeds, Holders
  <2>2. \A t \in Tasks : Working(t) => queue'[claim[t]] = queue[claim[t]]
    BY <2>1, OthersKeep, RunsAssumption
  <2>3. LinksFit'
    <3>1. pc' = pc /\ claim' = claim /\ rules' = rules /\ toLink' = toLink
          /\ grown' = grown
      BY <1>4 DEF CommitSeeds
    <3> QED BY <2>2, <3>1, LinksKeep DEF DepthInv, TypeInv, TaskShape
  <2>4. ASSUME NEW u \in RunKeys(r), u \in Urls
        PROVE  \E s \in Seeds : u = SeedUrl[s] /\ queue'[u] = NewRow(0, s)
    <3> DEFINE s == CHOOSE z \in planted[r] : SeedUrl[z] = u
    <3>1. s \in planted[r] /\ SeedUrl[s] = u BY <2>4 DEF RunKeys
    <3>2. queue'[u] = NewRow(0, s) BY <1>4, <2>4 DEF CommitSeeds
    <3> QED BY <3>1, <3>2 DEF TypeInv, TypeOK
  <2>5. WithinSeed'
    <3> SUFFICES ASSUME NEW u \in Urls, queue'[u].status # "none"
                 PROVE  LET s == queue'[u].seed
                        IN  /\ queue'[u].depth <= MaxDepth[s]
                            /\ u \in Scope[s] \/ (u = SeedUrl[s] /\ queue'[u].depth = 0)
      BY DEF WithinSeed
    <3>1. CASE u \in RunKeys(r)
      <4>1. PICK s \in Seeds : u = SeedUrl[s] /\ queue'[u] = NewRow(0, s)
        BY <2>4, <3>1
      <4>2. 0 <= MaxDepth[s] BY SeedsAssumption
      <4> QED BY <4>1, <4>2 DEF NewRow
    <3>2. CASE u \notin RunKeys(r)
      <4>1. queue'[u] = queue[u] BY <1>4, <3>2 DEF CommitSeeds
      <4> QED BY <4>1 DEF DepthInv, WithinSeed
    <3> QED BY <3>1, <3>2
  <2> QED BY <2>3, <2>5 DEF DepthInv
<1>5. CASE LoadRules(r)
  <2>1. \A t \in Tasks : RunOf[t] = r => pc'[t] # "expanding"
    BY <1>5 DEF LoadRules, TypeInv, TypeOK
  <2>2. \A t \in Tasks : RunOf[t] # r =>
            pc'[t] = pc[t] /\ rules'[RunOf[t]] = rules[RunOf[t]]
    <3>1. PICK q : rules' = [rules EXCEPT ![r] = q] BY <1>5 DEF LoadRules
    <3> QED BY <1>5, <3>1, RunsAssumption DEF LoadRules, TypeInv, TypeOK
  <2> QED BY <1>5, <2>1, <2>2, DepthKeeps DEF LoadRules
<1>6. CASE FinishRun(r) BY <1>6, DepthKeeps DEF FinishRun
<1>7. CASE KillRun(r) BY <1>7, DepthKeeps DEF KillRun, Stop
<1> QED BY <1>1, <1>2, <1>3, <1>4, <1>5, <1>6, <1>7 DEF RunStep

LEMMA AbortDepth ==
    ASSUME DepthInv, TypeInv, NEW t \in Tasks, AbortTask(t)
    PROVE  DepthInv'
BY DepthKeeps DEF AbortTask, GoTo, TypeInv, TypeOK

(* A task that commits its own rows leaves the expansions of others alone. *)
LEMMA CommitKeepsLinks ==
    ASSUME DepthInv, KeyInv, TypeInv, NEW t \in Tasks, pc'[t] # "expanding",
           \A u \in Urls : u \notin TaskKeys(t) => queue'[u] = queue[u],
           \A v \in Tasks \ {t} : /\ pc'[v] = pc[v] /\ claim'[v] = claim[v]
                                  /\ grown'[v] = grown[v],
           rules' = rules, toLink' = toLink
    PROVE  LinksFit'
<1>1. \A u \in Urls : t \notin Holders(u) => queue'[u] = queue[u]
  BY DEF Holders
<1>2. \A v \in Tasks \ {t} : Working(v) => queue'[claim[v]] = queue[claim[v]]
  BY <1>1, OthersKeep
<1> QED BY <1>2, LinksKeep DEF DepthInv, TypeInv, TaskShape

LEMMA TaskStepDepth ==
    ASSUME DepthInv, KeyInv, TypeInv, NEW t \in Tasks,
           TaskStep(t) \/ RaiseInTask(t) \/ CancelTask(t)
    PROVE  DepthInv'
<1> DEFINE r == RunOf[t]
<1>r. r \in Runs BY RunsAssumption
<1>1. CASE ClaimRow(t)
  BY <1>1, DepthKeeps DEF ClaimRow, GoTo, TypeInv, TypeOK
<1>2. CASE FindNothing(t)
  BY <1>2, DepthKeeps DEF FindNothing, GoTo, TypeInv, TypeOK
<1>3. CASE FetchPage(t)
  BY <1>3, DepthKeeps DEF FetchPage, GoTo, TypeInv, TypeOK
<1>4. CASE CloseUnindexed(t)
  <2>1. claim[t] \in Urls /\ queue[claim[t]] \in Row /\ queue[claim[t]].status = "pending"
    BY <1>4, ClaimType DEF CloseUnindexed, TypeInv, KeyInv, WritesFitTable, TaskShape
  <2>2. PICK st \in {"done", "error"} :
            queue' = [queue EXCEPT ![claim[t]].err = TRUE, ![claim[t]].status = st]
    BY <1>4 DEF CloseUnindexed
  <2>3. \A u \in Urls : /\ queue'[u].depth = queue[u].depth
                        /\ queue'[u].seed = queue[u].seed
                        /\ queue'[u].status # "none" => queue[u].status # "none"
    BY <2>1, <2>2 DEF TypeInv, TypeOK, Row
  <2>4. WithinSeed' BY <2>3 DEF DepthInv, WithinSeed
  <2>5. \A u \in Urls : u \notin TaskKeys(t) => queue'[u] = queue[u]
    BY <2>1, <2>2, UrlsAssumption DEF TaskKeys, TypeInv, TypeOK
  <2>6. pc'[t] # "expanding"
        /\ \A v \in Tasks \ {t} : pc'[v] = pc[v] /\ claim'[v] = claim[v]
    BY <1>4 DEF CloseUnindexed, GoTo, TypeInv, TypeOK
  <2>7. LinksFit'
    BY <1>4, <2>5, <2>6, CommitKeepsLinks DEF CloseUnindexed
  <2> QED BY <2>4, <2>7 DEF DepthInv
<1>5. CASE StorePage(t)
  <2> DEFINE d == queue[claim[t]].depth
  <2>1. ASSUME NEW i \in InReach(r, claim[t], d)
        PROVE  Fits(t, Links[claim[t]][i])
    <3>1. claim[t] \in Urls BY <1>5, ClaimType DEF StorePage, TypeInv
    <3>2. Matched(r, Links[claim[t]][i]) # NoSeed
          /\ ChildDepth(d) <= MaxDepth[Matched(r, Links[claim[t]][i])]
      BY <2>1 DEF InReach
    <3> QED BY <3>2, <1>r, MatchedType DEF Fits, TypeInv
  <2>2. claim' = claim /\ queue' = queue /\ rules' = rules /\ grown' = grown
    BY <1>5 DEF StorePage
  <2>3. \A z \in Tasks : \A v : Fits(z, v)' <=> Fits(z, v)
    BY <2>2 DEF Fits, Matched
  <2>4. grown[t] = {} BY <1>5 DEF StorePage, TypeInv, TaskShape
  <2>5. toLink'[t] = InReach(r, claim[t], d)
        /\ \A z \in Tasks \ {t} : toLink'[z] = toLink[z] /\ pc'[z] = pc[z]
    BY <1>5 DEF StorePage, GoTo, TypeInv, TypeOK
  <2>6. ASSUME NEW z \in Tasks, pc'[z] = "expanding"
        PROVE  /\ \A i \in toLink'[z] : Fits(z, Links[claim[z]][i])
               /\ \A v \in grown[z] : Fits(z, v)
    <3>1. CASE z = t BY <3>1, <2>1, <2>4, <2>5
    <3>2. CASE z # t BY <3>2, <2>5, <2>6 DEF DepthInv, LinksFit
    <3> QED BY <3>1, <3>2
  <2>7. LinksFit' BY <2>2, <2>3, <2>6 DEF LinksFit
  <2>8. WithinSeed' BY <2>2 DEF DepthInv, WithinSeed
  <2> QED BY <2>7, <2>8 DEF DepthInv
<1>6. CASE EnqueueLink(t)
  <2> DEFINE u == NextLink(t)
  <2>1. pc[t] = "expanding" /\ toLink[t] # {}
    BY <1>6 DEF EnqueueLink, Expanding
  <2>2. Fits(t, u)
    BY <2>1, NextLinkType DEF NextLink, DepthInv, LinksFit, TypeInv
  <2>3. claim' = claim /\ queue' = queue /\ rules' = rules /\ pc' = pc
    BY <1>6 DEF EnqueueLink
  <2>4. \A z \in Tasks : \A v : Fits(z, v)' <=> Fits(z, v)
    BY <2>3 DEF Fits, Matched
  <2>5. toLink'[t] \subseteq toLink[t] /\ grown'[t] \subseteq grown[t] \cup {u}
        /\ \A z \in Tasks \ {t} : toLink'[z] = toLink[z] /\ grown'[z] = grown[z]
    BY <1>6 DEF EnqueueLink, TypeInv, TypeOK
  <2>6. ASSUME NEW z \in Tasks, pc[z] = "expanding"
        PROVE  /\ \A i \in toLink'[z] : Fits(z, Links[claim[z]][i])
               /\ \A v \in grown'[z] : Fits(z, v)
    BY <2>2, <2>5, <2>6 DEF DepthInv, LinksFit
  <2>7. LinksFit' BY <2>3, <2>4, <2>6 DEF LinksFit
  <2>8. WithinSeed' BY <2>3 DEF DepthInv, WithinSeed
  <2> QED BY <2>7, <2>8 DEF DepthInv
<1>7. CASE LinkSeedGone(t) BY <1>7, AbortDepth DEF LinkSeedGone
<1>8. CASE CommitPage(t)
  <2> DEFINE u == claim[t]
             d == queue[u].depth
  <2>1. u \in Urls /\ queue[u] \in Row /\ queue[u].status = "pending"
        /\ u \notin grown[t] /\ pc[t] = "expanding"
    BY <1>8, ClaimType
    DEF CommitPage, TypeInv, TaskShape, KeyInv, WritesFitTable
  <2>2. \A v \in Urls : v \notin TaskKeys(t) => queue'[v] = queue[v]
    BY <1>8, <2>1, UrlsAssumption DEF CommitPage, TaskKeys
  <2>3. pc'[t] # "expanding" /\ rules' = rules /\ toLink' = toLink
        /\ \A v \in Tasks \ {t} : pc'[v] = pc[v] /\ claim'[v] = claim[v]
                                  /\ grown'[v] = grown[v]
    BY <1>8 DEF CommitPage, GoTo, TypeInv, TypeOK
  <2>4. LinksFit' BY <2>2, <2>3, CommitKeepsLinks
  <2>5. WithinSeed'
    <3> SUFFICES ASSUME NEW v \in Urls, queue'[v].status # "none"
                 PROVE  LET s == queue'[v].seed
                        IN  /\ queue'[v].depth <= MaxDepth[s]
                            /\ v \in Scope[s] \/ (v = SeedUrl[s] /\ queue'[v].depth = 0)
      BY DEF WithinSeed
    <3>1. CASE v = u
      <4>1. queue'[v] = [queue[v] EXCEPT !.status = "done", !.err = FALSE]
        BY <1>8, <2>1, <3>1 DEF CommitPage
      <4>2. queue'[v].depth = queue[v].depth /\ queue'[v].seed = queue[v].seed
        BY <4>1, <2>1, <3>1 DEF Row
      <4> QED BY <4>2, <2>1, <3>1 DEF DepthInv, WithinSeed
    <3>2. CASE v \in grown[t]
      <4>1. queue'[v] = NewRow(ChildDepth(d), Matched(r, v))
        BY <1>8, <2>1, <3>2 DEF CommitPage
      <4>2. Fits(t, v) BY <2>1, <3>2 DEF DepthInv, LinksFit
      <4> QED BY <4>1, <4>2 DEF Fits, NewRow
    <3>3. CASE v # u /\ v \notin grown[t]
      <4>1. queue'[v] = queue[v] BY <1>8, <3>3 DEF CommitPage
      <4> QED BY <4>1 DEF DepthInv, WithinSeed
    <3> QED BY <3>1, <3>2, <3>3
  <2> QED BY <2>4, <2>5 DEF DepthInv
<1>9. CASE Count(t)
  BY <1>9, DepthKeeps DEF Count, GoTo, TypeInv, TypeOK
<1>10. CASE RaiseInTask(t) BY <1>10, AbortDepth DEF RaiseInTask
<1>11. CASE CancelTask(t)
  BY <1>11, DepthKeeps DEF CancelTask, Stop
<1> QED BY <1>1, <1>2, <1>3, <1>4, <1>5, <1>6, <1>7, <1>8, <1>9, <1>10, <1>11
        DEF TaskStep

LEMMA AdminStepDepth ==
    ASSUME DepthInv, KeyInv, TypeInv, NEW s \in Seeds, AdminStep(s)
    PROVE  DepthInv'
<1>1. CASE AddSeed(s) BY <1>1, DepthKeeps DEF AddSeed
<1>2. CASE ToggleSeed(s) BY <1>2, DepthKeeps DEF ToggleSeed
<1>3. CASE DeleteBegin(s) BY <1>3, DepthKeeps DEF DeleteBegin
<1>4. CASE DeleteFinish(s)
  <2>1. \A t \in Tasks : Working(t) => queue'[claim[t]] = queue[claim[t]]
    BY <1>4 DEF DeleteFinish, Delaying, Working, TypeInv, TypeOK
  <2>2. LinksFit'
    <3>1. pc' = pc /\ claim' = claim /\ rules' = rules /\ toLink' = toLink
          /\ grown' = grown
      BY <1>4 DEF DeleteFinish
    <3> QED BY <2>1, <3>1, LinksKeep DEF DepthInv, TypeInv, TaskShape
  <2>3. \A u \in Urls : queue'[u] = queue[u] \/ queue'[u].status = "none"
    BY <1>4 DEF DeleteFinish, NoRow
  <2>4. WithinSeed' BY <2>3 DEF DepthInv, WithinSeed
  <2> QED BY <2>2, <2>4 DEF DepthInv
<1> QED BY <1>1, <1>2, <1>3, <1>4 DEF AdminStep

LEMMA NextDepth ==
    ASSUME DepthInv, KeyInv, TypeInv, [Next]_vars
    PROVE  DepthInv'
<1>1. CASE UNCHANGED vars BY <1>1, DepthKeeps DEF vars
<1>2. CASE DeadlockAbort
  <2>1. CASE \E t \in Tasks : OnCycle(t) /\ AbortTask(t)
    BY <2>1, AbortDepth
  <2>2. CASE \E r \in Runs : OnCycle(r) /\ FailRun(r)
    BY <2>2, DepthKeeps DEF FailRun
  <2>3. CASE UNCHANGED <<seeds, queue, pages, jobs, runVars, taskVars>>
    BY <2>3, DepthKeeps
  <2> QED BY <1>2, <2>1, <2>2, <2>3 DEF DeadlockAbort
<1> QED BY <1>1, <1>2, RunStepDepth, TaskStepDepth, AdminStepDepth
        DEF Next, Quiescent

(* Every row of the frontier is within the scope and the max_depth of the  *)
(* seed it is crawled for, although it was matched against rules that may  *)
(* have gone stale and committed later than it was matched.                *)
THEOREM SeedBounds == Spec => []WithinSeed
<1>1. Init => DepthInv BY InitDepth
<1>2. TypeInv /\ KeyInv /\ DepthInv /\ [Next]_vars => DepthInv' BY NextDepth
<1>3. DepthInv => WithinSeed BY DEF DepthInv
<1> QED BY <1>1, <1>2, <1>3, TypeCorrect, KeysSafe, PTL DEF Spec

-----------------------------------------------------------------------------
(* The cap on pages.                                                       *)

LEMMA InFlightType ==
    ASSUME NEW r
    PROVE  /\ IsFiniteSet(InFlight(r)) /\ IsFiniteSet(TasksOf(r))
           /\ Cardinality(InFlight(r)) \in Nat /\ Cardinality(TasksOf(r)) \in Nat
           /\ Cardinality(InFlight(r)) <= Cardinality(TasksOf(r))
<1>1. TasksOf(r) \in SUBSET Tasks /\ InFlight(r) \in SUBSET TasksOf(r)
  BY DEF TasksOf, InFlight
<1>2. IsFiniteSet(TasksOf(r)) BY <1>1, RunsAssumption, FS_Subset
<1>3. IsFiniteSet(InFlight(r))
      /\ Cardinality(InFlight(r)) <= Cardinality(TasksOf(r))
  BY <1>1, <1>2, FS_Subset
<1> QED BY <1>2, <1>3, FS_CardinalityType

LEMMA InitBudget == Init => BudgetInv
<1> SUFFICES ASSUME Init, NEW r \in Runs, MaxPages[r] # NoLimit
             PROVE  IF MaxPages[r] = 0
                    THEN crawled[r] = 0 /\ InFlight(r) = {}
                    ELSE crawled[r] + Cardinality(InFlight(r))
                            <= MaxPages[r] - 1 + Cardinality(TasksOf(r))
  BY DEF BudgetInv
<1>1. crawled[r] = 0 /\ InFlight(r) = {}
  BY DEF Init, InFlight, TasksOf
<1>2. Cardinality(InFlight(r)) = 0 BY <1>1, FS_EmptySet
<1>3. MaxPages[r] \in Nat BY RunsAssumption
<1> QED BY <1>1, <1>2, <1>3, InFlightType

(* A step that counts nothing and starts no task keeps within the cap.     *)
LEMMA BudgetKeeps ==
    ASSUME BudgetInv, TypeInv, crawled' = crawled,
           \A t \in Tasks : pc'[t] \notin {"unborn", "exited", "gone"} =>
               pc[t] \notin {"unborn", "exited", "gone"}
    PROVE  BudgetInv'
<1> SUFFICES ASSUME NEW r \in Runs, MaxPages[r] # NoLimit
             PROVE  IF MaxPages[r] = 0
                    THEN crawled[r] = 0 /\ InFlight(r)' = {}
                    ELSE crawled[r] + Cardinality(InFlight(r)')
                            <= MaxPages[r] - 1 + Cardinality(TasksOf(r))
  BY DEF BudgetInv, TasksOf
<1>1. InFlight(r)' \in SUBSET InFlight(r) BY DEF InFlight, TasksOf
<1>2. IsFiniteSet(InFlight(r)')
      /\ Cardinality(InFlight(r)') <= Cardinality(InFlight(r))
  BY <1>1, InFlightType, FS_Subset
<1>3. Cardinality(InFlight(r)') \in Nat BY <1>2, FS_CardinalityType
<1>4. MaxPages[r] \in Nat /\ crawled[r] \in Nat
  BY RunsAssumption DEF TypeInv, TypeOK
<1> QED BY <1>1, <1>2, <1>3, <1>4, InFlightType DEF BudgetInv

LEMMA LoadRulesBudget ==
    ASSUME BudgetInv, TypeInv, NEW r \in Runs, LoadRules(r)
    PROVE  BudgetInv'
<1>1. crawled' = crawled /\ crawled[r] = 0
  BY DEF LoadRules, TypeInv, RunShape
<1> SUFFICES ASSUME NEW q \in Runs, MaxPages[q] # NoLimit
             PROVE  IF MaxPages[q] = 0
                    THEN crawled[q] = 0 /\ InFlight(q)' = {}
                    ELSE crawled[q] + Cardinality(InFlight(q)')
                            <= MaxPages[q] - 1 + Cardinality(TasksOf(q))
  BY <1>1 DEF BudgetInv, TasksOf
<1>2. MaxPages[q] \in Nat BY RunsAssumption
<1>3. CASE q # r
  <2>1. InFlight(q)' = InFlight(q)
    BY <1>3 DEF LoadRules, InFlight, TasksOf, TypeInv, TypeOK
  <2> QED BY <2>1 DEF BudgetInv
<1>4. CASE q = r /\ MaxPages[q] = 0
  <2>1. BudgetSpent(r, crawled[r]) BY <1>1, <1>4 DEF BudgetSpent
  <2>2. \A t \in TasksOf(r) : pc'[t] = "exited"
    BY <2>1 DEF LoadRules, TasksOf
  <2>3. InFlight(r)' = {} BY <2>2 DEF InFlight, TasksOf
  <2> QED BY <1>1, <1>4, <2>3
<1>5. CASE q = r /\ MaxPages[q] # 0
  <2>1. InFlight(q)' \in SUBSET TasksOf(q) BY DEF InFlight, TasksOf
  <2>2. IsFiniteSet(InFlight(q)')
        /\ Cardinality(InFlight(q)') <= Cardinality(TasksOf(q))
    BY <2>1, InFlightType, FS_Subset
  <2>3. Cardinality(InFlight(q)') \in Nat BY <2>2, FS_CardinalityType
  <2> QED BY <1>1, <1>2, <1>5, <2>2, <2>3, InFlightType
<1> QED BY <1>3, <1>4, <1>5

LEMMA CountBudget ==
    ASSUME BudgetInv, TypeInv, NEW t \in Tasks, Count(t)
    PROVE  BudgetInv'
<1> DEFINE r == RunOf[t]
<1>1. r \in Runs /\ t \in InFlight(r)
  BY RunsAssumption DEF Count, InFlight, TasksOf
<1>2. /\ crawled'[r] \in {crawled[r], crawled[r] + 1}
      /\ \A q \in Runs \ {r} : crawled'[q] = crawled[q]
      /\ pc'[t] = IF BudgetSpent(r, crawled'[r]) THEN "exited" ELSE "claiming"
      /\ \A z \in Tasks \ {t} : pc'[z] = pc[z]
  BY <1>1 DEF Count, GoTo, TypeInv, TypeOK
<1> HIDE DEF r
<1> SUFFICES ASSUME NEW q \in Runs, MaxPages[q] # NoLimit
             PROVE  IF MaxPages[q] = 0
                    THEN crawled'[q] = 0 /\ InFlight(q)' = {}
                    ELSE crawled'[q] + Cardinality(InFlight(q)')
                            <= MaxPages[q] - 1 + Cardinality(TasksOf(q))
  BY DEF BudgetInv, TasksOf
<1>3. CASE q # r
  <2>1. InFlight(q)' = InFlight(q) BY <1>2, <1>3 DEF InFlight, TasksOf, r
  <2> QED BY <1>2, <1>3, <2>1 DEF BudgetInv
<1>4. CASE q = r
  <2>1. /\ MaxPages[r] \in Nat /\ crawled[r] \in Nat /\ MaxPages[r] # 0
        /\ crawled[r] + Cardinality(InFlight(r))
              <= MaxPages[r] - 1 + Cardinality(TasksOf(r))
    BY <1>1, <1>4, RunsAssumption DEF BudgetInv, TypeInv, TypeOK
  <2>2. CASE BudgetSpent(r, crawled'[r])
    <3>1. InFlight(r)' = InFlight(r) \ {t}
      BY <1>1, <1>2, <2>2 DEF InFlight, TasksOf
    <3>2. Cardinality(InFlight(r)') = Cardinality(InFlight(r)) - 1
      BY <1>1, <3>1, InFlightType, FS_RemoveElement
    <3> QED BY <1>2, <1>4, <2>1, <3>2, InFlightType
  <2>3. CASE ~BudgetSpent(r, crawled'[r])
    <3>1. InFlight(r)' = InFlight(r)
      BY <1>1, <1>2, <2>3 DEF InFlight, TasksOf
    <3>2. ~ (crawled'[r] >= MaxPages[r])
      BY <1>4, <2>3 DEF BudgetSpent
    <3> QED BY <1>2, <1>4, <2>1, <3>1, <3>2, InFlightType
  <2> QED BY <2>2, <2>3
<1> QED BY <1>3, <1>4

LEMMA NextBudget ==
    ASSUME BudgetInv, TypeInv, [Next]_vars
    PROVE  BudgetInv'
<1>1. CASE UNCHANGED vars BY <1>1, BudgetKeeps DEF vars
<1>2. ASSUME NEW t \in Tasks, AbortTask(t) PROVE BudgetInv'
  BY <1>2, BudgetKeeps DEF AbortTask, GoTo, TypeInv, TypeOK
<1>3. ASSUME NEW r \in Runs, StartRun(r) \/ RunStep(r) \/ KillRun(r)
      PROVE  BudgetInv'
  <2>1. CASE LoadRules(r) BY <2>1, LoadRulesBudget
  <2>2. CASE KillRun(r) BY <2>2, BudgetKeeps DEF KillRun, Stop, TypeInv, TypeOK
  <2>3. CASE StartRun(r) BY <2>3, BudgetKeeps DEF StartRun
  <2>4. CASE PlantSeed(r) \/ PlantSeedGone(r) \/ CommitSeeds(r) \/ FinishRun(r)
    BY <2>4, BudgetKeeps DEF PlantSeed, PlantSeedGone, FailRun, CommitSeeds, FinishRun
  <2> QED BY <1>3, <2>1, <2>2, <2>3, <2>4 DEF RunStep
<1>4. ASSUME NEW t \in Tasks, TaskStep(t) \/ RaiseInTask(t) \/ CancelTask(t)
      PROVE  BudgetInv'
  <2>1. CASE Count(t) BY <2>1, CountBudget
  <2>2. CASE ClaimRow(t) BY <2>2, BudgetKeeps DEF ClaimRow, GoTo, TypeInv, TypeOK
  <2>3. CASE FindNothing(t) \/ FetchPage(t)
    BY <2>3, BudgetKeeps DEF FindNothing, FetchPage, GoTo, TypeInv, TypeOK
  <2>4. CASE CloseUnindexed(t)
    BY <2>4, BudgetKeeps DEF CloseUnindexed, GoTo, TypeInv, TypeOK
  <2>5. CASE StorePage(t) \/ EnqueueLink(t)
    BY <2>5, BudgetKeeps DEF StorePage, EnqueueLink, GoTo, TypeInv, TypeOK
  <2>6. CASE CommitPage(t)
    BY <2>6, BudgetKeeps DEF CommitPage, GoTo, TypeInv, TypeOK
  <2>7. CASE RaiseInTask(t) \/ LinkSeedGone(t)
    BY <2>7, <1>2 DEF RaiseInTask, LinkSeedGone
  <2>8. CASE CancelTask(t) BY <2>8, BudgetKeeps DEF CancelTask, Stop, TypeInv, TypeOK
  <2> QED BY <1>4, <2>1, <2>2, <2>3, <2>4, <2>5, <2>6, <2>7, <2>8 DEF TaskStep
<1>5. ASSUME NEW s \in Seeds, AdminStep(s) PROVE BudgetInv'
  BY <1>5, BudgetKeeps DEF AdminStep, AddSeed, ToggleSeed, DeleteBegin, DeleteFinish
<1>6. CASE DeadlockAbort
  <2>1. CASE \E r \in Runs : OnCycle(r) /\ FailRun(r)
    BY <2>1, BudgetKeeps DEF FailRun
  <2>2. CASE UNCHANGED <<seeds, queue, pages, jobs, runVars, taskVars>>
    BY <2>2, BudgetKeeps
  <2> QED BY <1>2, <1>6, <2>1, <2>2 DEF DeadlockAbort
<1> QED BY <1>1, <1>3, <1>4, <1>5, <1>6 DEF Next, Quiescent

(* However its tasks interleave, and whoever else is crawling, a run takes *)
(* at most one page too many for each of its tasks but one.                *)
THEOREM Budget == Spec => []BudgetOvershoot
<1>1. BudgetInv /\ TypeInv => BudgetOvershoot
  <2> SUFFICES ASSUME BudgetInv, TypeInv, NEW r \in Runs, MaxPages[r] # NoLimit
               PROVE  crawled[r] <= IF MaxPages[r] = 0 THEN 0
                                    ELSE MaxPages[r] + Cardinality(TasksOf(r)) - 1
    BY DEF BudgetOvershoot
  <2>1. MaxPages[r] \in Nat /\ crawled[r] \in Nat
    BY RunsAssumption DEF TypeInv, TypeOK
  <2> QED BY <2>1, InFlightType DEF BudgetInv
<1> QED BY <1>1, InitBudget, NextBudget, TypeCorrect, PTL DEF Spec

-----------------------------------------------------------------------------
(* Finished runs.                                                          *)

(* A job is finished with its run, and a finished run has no task left.    *)
OverInv ==
    \A r \in Runs :
        /\ jobs[r].status = "finished" => phase[r] = "finished"
        /\ phase[r] = "finished" => AllExited(r)

(* Most steps finish no run and wake no task that has exited.              *)
LEMMA OverKeeps ==
    ASSUME OverInv,
           \A r \in Runs : /\ phase'[r] = "finished" <=> phase[r] = "finished"
                           /\ jobs'[r].status = "finished" => jobs[r].status = "finished",
           \A t \in Tasks : pc[t] = "exited" => pc'[t] = "exited"
    PROVE  OverInv'
BY DEF OverInv, AllExited, TasksOf

LEMMA AbortOver ==
    ASSUME OverInv, TypeInv, NEW t \in Tasks, AbortTask(t), pc[t] # "exited"
    PROVE  OverInv'
BY OverKeeps DEF AbortTask, GoTo, TypeInv, TypeOK

LEMMA RunStepOver ==
    ASSUME OverInv, TypeInv, NEW r \in Runs,
           StartRun(r) \/ RunStep(r) \/ KillRun(r)
    PROVE  OverInv'
<1> USE DEF TypeInv, TypeOK
<1>1. CASE StartRun(r) BY <1>1, OverKeeps DEF StartRun
<1>2. CASE PlantSeed(r) BY <1>2, OverKeeps DEF PlantSeed
<1>3. CASE PlantSeedGone(r) BY <1>3, OverKeeps DEF PlantSeedGone, Planting, FailRun
<1>4. CASE CommitSeeds(r) BY <1>4, OverKeeps DEF CommitSeeds
<1>5. CASE LoadRules(r)
  <2>1. \A t \in Tasks : RunOf[t] = r => pc[t] = "unborn"
    BY <1>5 DEF LoadRules, RunShape, TasksOf
  <2>2. \A t \in Tasks : pc[t] = "exited" => pc'[t] = "exited"
    BY <1>5, <2>1 DEF LoadRules
  <2>3. \A z \in Runs : jobs'[z].status = "finished" => jobs[z].status = "finished"
    BY <1>5 DEF LoadRules, Job
  <2> QED BY <1>5, <2>2, <2>3, OverKeeps DEF LoadRules
<1>6. CASE FinishRun(r) BY <1>6 DEF FinishRun, OverInv, AllExited, TasksOf
<1>7. CASE KillRun(r)
  <2>1. \A t \in Tasks : RunOf[t] # r => pc'[t] = pc[t]
    BY <1>7 DEF KillRun, Stop, TasksOf
  <2>2. jobs' = jobs /\ phase' = [phase EXCEPT ![r] = "killed"] /\ phase[r] # "finished"
    BY <1>7 DEF KillRun
  <2> QED BY <2>1, <2>2 DEF OverInv, AllExited, TasksOf
<1> QED BY <1>1, <1>2, <1>3, <1>4, <1>5, <1>6, <1>7 DEF RunStep

LEMMA TaskStepOver ==
    ASSUME OverInv, TypeInv, NEW t \in Tasks,
           TaskStep(t) \/ RaiseInTask(t) \/ CancelTask(t)
    PROVE  OverInv'
<1>1. CASE RaiseInTask(t) \/ LinkSeedGone(t)
  BY <1>1, AbortOver DEF RaiseInTask, LinkSeedGone, Expanding
<1>2. CASE CancelTask(t)
  BY <1>2, OverKeeps DEF CancelTask, Stop, TypeInv, TypeOK
<1>3. CASE ClaimRow(t) \/ FindNothing(t) \/ FetchPage(t)
  BY <1>3, OverKeeps DEF ClaimRow, FindNothing, FetchPage, GoTo, TypeInv, TypeOK
<1>4. CASE CloseUnindexed(t) \/ StorePage(t) \/ EnqueueLink(t)
  BY <1>4, OverKeeps DEF CloseUnindexed, StorePage, EnqueueLink, GoTo, TypeInv, TypeOK
<1>5. CASE CommitPage(t) \/ Count(t)
  BY <1>5, OverKeeps DEF CommitPage, Count, GoTo, TypeInv, TypeOK
<1> QED BY <1>1, <1>2, <1>3, <1>4, <1>5 DEF TaskStep

LEMMA NextOver ==
    ASSUME OverInv, TypeInv, [Next]_vars
    PROVE  OverInv'
<1>1. CASE UNCHANGED vars BY <1>1, OverKeeps DEF vars
<1>2. ASSUME NEW s \in Seeds, AdminStep(s) PROVE OverInv'
  BY <1>2, OverKeeps DEF AdminStep, AddSeed, ToggleSeed, DeleteBegin, DeleteFinish
<1>3. CASE DeadlockAbort
  <2>1. CASE \E t \in Tasks : OnCycle(t) /\ AbortTask(t)
    BY <2>1, AbortOver, OnCycleWaits DEF TypeInv
  <2>2. CASE \E r \in Runs : OnCycle(r) /\ FailRun(r)
    BY <2>2, OverKeeps, OnCycleWaits DEF FailRun, TypeInv, TypeOK
  <2>3. CASE UNCHANGED <<seeds, queue, pages, jobs, runVars, taskVars>>
    BY <2>3, OverKeeps
  <2> QED BY <1>3, <2>1, <2>2, <2>3 DEF DeadlockAbort
<1> QED BY <1>1, <1>2, <1>3, RunStepOver, TaskStepOver DEF Next, Quiescent

LEMMA OverInvariant == Spec => []OverInv
<1>1. Init => OverInv BY DEF Init, OverInv, NoJob
<1> QED BY <1>1, NextOver, TypeCorrect, PTL DEF Spec

(* Nothing a job's totals do not count happens once it says "finished",    *)
(* although tasks outlive runs that fail.                                  *)
THEOREM JobsOver == Spec => []FinishedMeansOver
<1>1. OverInv /\ TypeInv => FinishedMeansOver
  BY DEF OverInv, TypeInv, TaskShape, FinishedMeansOver, AllExited, TasksOf
<1> QED BY <1>1, OverInvariant, TypeCorrect, PTL

-----------------------------------------------------------------------------
(* Nothing is left over.                                                   *)

(* Somebody may yet claim a row: a run that has not come to its tasks, or  *)
(* that was cut short, or a task that goes on.                             *)
Unsettled ==
    \/ \E r \in Runs : phase[r] \notin {"running", "finished"}
    \/ \E t \in Tasks : pc[t] \notin {"unborn", "exited", "gone"}

NothingCapped == "delete" \notin Environment /\ \A r \in Runs : MaxPages[r] = NoLimit

DrainInv ==
    /\ deleting = {}
    /\ \A u \in Urls : queue[u].status = "pending" => Unsettled

LEMMA AbortDrain ==
    ASSUME DrainInv, OverInv, TypeInv, NEW t \in Tasks, AbortTask(t),
           pc[t] \notin {"unborn", "exited"}
    PROVE  DrainInv'
<1>1. RunOf[t] \in Runs /\ phase[RunOf[t]] # "finished"
  BY RunsAssumption DEF OverInv, AllExited, TasksOf
<1>2. phase'[RunOf[t]] \notin {"running", "finished"}
  BY <1>1 DEF AbortTask, TypeInv, TypeOK
<1>3. Unsettled' BY <1>1, <1>2 DEF Unsettled
<1> QED BY <1>3 DEF DrainInv, AbortTask

LEMMA RunStepDrain ==
    ASSUME DrainInv, TypeInv, NothingCapped, \A r \in Runs : TasksOf(r) # {},
           NEW r \in Runs, StartRun(r) \/ RunStep(r) \/ KillRun(r)
    PROVE  DrainInv'
<1>0. deleting' = deleting
  BY DEF StartRun, RunStep, PlantSeed, PlantSeedGone, FailRun, CommitSeeds, LoadRules,
         FinishRun, KillRun
<1>1. CASE FinishRun(r)
  <2>1. Unsettled => Unsettled'
    BY <1>1 DEF FinishRun, Unsettled, TypeInv, TypeOK
  <2> QED BY <1>0, <1>1, <2>1 DEF FinishRun, DrainInv
<1>2. CASE LoadRules(r)
  <2>1. PICK t \in TasksOf(r) : TRUE OBVIOUS
  <2>2. pc'[t] = "claiming"
    BY <1>2, <2>1 DEF LoadRules, NothingCapped, BudgetSpent, TasksOf
  <2>3. Unsettled' BY <2>1, <2>2 DEF Unsettled, TasksOf
  <2> QED BY <1>0, <2>3 DEF DrainInv
<1>3. CASE StartRun(r) \/ PlantSeed(r) \/ PlantSeedGone(r) \/ CommitSeeds(r) \/ KillRun(r)
  <2>1. phase'[r] \notin {"running", "finished"}
    BY <1>3 DEF StartRun, PlantSeed, PlantSeedGone, Planting, FailRun, CommitSeeds,
                KillRun, TypeInv, TypeOK
  <2>2. Unsettled' BY <2>1 DEF Unsettled
  <2> QED BY <1>0, <2>2 DEF DrainInv
<1> QED BY <1>1, <1>2, <1>3 DEF RunStep

LEMMA TaskStepDrain ==
    ASSUME DrainInv, OverInv, TypeInv, NothingCapped, NEW t \in Tasks,
           TaskStep(t) \/ RaiseInTask(t) \/ CancelTask(t)
    PROVE  DrainInv'
<1>r. RunOf[t] \in Runs BY RunsAssumption
<1>1. CASE RaiseInTask(t) \/ LinkSeedGone(t)
  BY <1>1, AbortDrain DEF RaiseInTask, LinkSeedGone, Expanding
<1>2. CASE CancelTask(t)
  <2>1. Unsettled' BY <1>2, <1>r DEF CancelTask, Unsettled
  <2> QED BY <1>2, <2>1 DEF CancelTask, DrainInv
<1>3. CASE FindNothing(t)
  <2>1. ASSUME NEW u \in Urls, queue[u].status = "pending"
        PROVE  Unsettled'
    <3>1. Cascading = {} BY DEF Cascading, DrainInv
    <3>2. PICK v \in Tasks : claim[v] = u
      BY <1>3, <2>1, <3>1 DEF FindNothing, Available
    <3>3. pc[v] \in {"fetching", "storing", "expanding"}
      BY <3>2, UrlsAssumption DEF TypeInv, TaskShape, Working
    <3>4. pc'[v] = pc[v]
      BY <1>3, <3>3 DEF FindNothing, GoTo, TypeInv, TypeOK
    <3> QED BY <3>3, <3>4 DEF Unsettled
  <2> QED BY <1>3, <2>1 DEF FindNothing, DrainInv
<1>4. CASE Count(t)
  <2>1. pc'[t] = "claiming"
    BY <1>4, <1>r DEF Count, GoTo, NothingCapped, BudgetSpent, TypeInv, TypeOK
  <2>2. Unsettled' BY <2>1 DEF Unsettled
  <2> QED BY <1>4, <2>2 DEF Count, DrainInv
<1>5. CASE ClaimRow(t) \/ FetchPage(t) \/ StorePage(t) \/ EnqueueLink(t)
  <2>1. pc'[t] \in {"fetching", "storing", "expanding"} /\ deleting' = deleting
    BY <1>5 DEF ClaimRow, FetchPage, StorePage, EnqueueLink, Expanding, GoTo, TypeInv, TypeOK
  <2>2. Unsettled' BY <2>1 DEF Unsettled
  <2> QED BY <2>1, <2>2 DEF DrainInv
<1>6. CASE CloseUnindexed(t) \/ CommitPage(t)
  <2>1. pc'[t] \in {"countErr", "countOk"} /\ deleting' = deleting
    BY <1>6 DEF CloseUnindexed, CommitPage, GoTo, TypeInv, TypeOK
  <2>2. Unsettled' BY <2>1 DEF Unsettled
  <2> QED BY <2>1, <2>2 DEF DrainInv
<1> QED BY <1>1, <1>2, <1>3, <1>4, <1>5, <1>6 DEF TaskStep

LEMMA NextDrain ==
    ASSUME DrainInv, OverInv, TypeInv, NothingCapped, \A r \in Runs : TasksOf(r) # {},
           [Next]_vars
    PROVE  DrainInv'
<1>1. CASE UNCHANGED vars BY <1>1 DEF vars, DrainInv, Unsettled
<1>2. ASSUME NEW s \in Seeds, AdminStep(s) PROVE DrainInv'
  BY <1>2 DEF AdminStep, AddSeed, ToggleSeed, DeleteBegin, DeleteFinish, DrainInv,
              Unsettled, NothingCapped
<1>3. CASE DeadlockAbort
  <2>1. CASE \E t \in Tasks : OnCycle(t) /\ AbortTask(t)
    BY <2>1, AbortDrain, OnCycleWaits DEF TypeInv
  <2>2. ASSUME NEW r \in Runs, FailRun(r) PROVE DrainInv'
    <3>1. Unsettled' BY <2>2 DEF FailRun, Unsettled, TypeInv, TypeOK
    <3> QED BY <2>2, <3>1 DEF FailRun, DrainInv
  <2> QED BY <1>3, <2>1, <2>2 DEF DeadlockAbort, DrainInv
<1> QED BY <1>1, <1>2, <1>3, RunStepDrain, TaskStepDrain DEF Next, Quiescent

(* No task gives up while a sibling, or a task of another run, can still   *)
(* find new URLs, provided that runs have tasks at all                     *)
(* (crawl_concurrency).                                                    *)
THEOREM NothingLeft == (\A r \in Runs : TasksOf(r) # {}) => (Spec => []Drained)
<1> SUFFICES ASSUME \A r \in Runs : TasksOf(r) # {} PROVE Spec => []Drained
  OBVIOUS
<1>1. Init => (NothingCapped => DrainInv) BY DEF Init, DrainInv, NoRow
<1>2. /\ NothingCapped => DrainInv
      /\ OverInv /\ TypeInv /\ [Next]_vars
      => (NothingCapped => DrainInv)'
  BY NextDrain DEF NothingCapped
<1>3. OverInv /\ TypeInv /\ (NothingCapped => DrainInv) => Drained
  <2> SUFFICES ASSUME OverInv, TypeInv, NothingCapped => DrainInv,
                      \A r \in Runs : phase[r] = "finished" /\ MaxPages[r] = NoLimit,
                      "delete" \notin Environment,
                      NEW u \in Urls
               PROVE  queue[u].status # "pending"
    BY DEF Drained
  <2>1. DrainInv BY DEF NothingCapped
  <2>2. \A t \in Tasks : pc[t] = "exited"
    BY RunsAssumption DEF OverInv, AllExited, TasksOf
  <2>3. ~Unsettled BY <2>2 DEF Unsettled
  <2> QED BY <2>1, <2>3 DEF DrainInv
<1> QED BY <1>1, <1>2, <1>3, OverInvariant, TypeCorrect, PTL DEF Spec

-----------------------------------------------------------------------------
(* Where rows come from.                                                   *)

(* The links of a page are those its URL stands for, and a task that       *)
(* expands a page inserts nothing but links of it.                         *)
ProvInv ==
    /\ Provenance
    /\ \A u \in Urls : pages[u].stored => pages[u].out = Range(Links[u])
    /\ \A t \in Tasks : grown[t] # {} => grown[t] \subseteq Range(Links[claim[t]])

(* A reason stays one as long as pages stay and come no later.             *)
LEMMA ReasonsKeep ==
    ASSUME ProvInv,
           \A u \in Urls :
              /\ pages[u].stored => /\ pages'[u].stored /\ pages'[u].out = pages[u].out
                                    /\ pages'[u].depth <= pages[u].depth
              /\ pages[u].depth \in Nat /\ pages'[u].depth \in Nat
              /\ queue[u].depth \in Nat
              /\ queue'[u].status # "none" =>
                    \/ /\ queue[u].status # "none" /\ queue'[u].depth = queue[u].depth
                       /\ queue'[u].seed = queue[u].seed
                    \/ queue'[u].depth = 0 /\ u = SeedUrl[queue'[u].seed]
                    \/ \E v \in Urls : /\ pages'[v].stored /\ u \in pages'[v].out
                                       /\ pages'[v].depth < queue'[u].depth
    PROVE  Provenance'
<1> SUFFICES ASSUME NEW u \in Urls, queue'[u].status # "none"
             PROVE  \/ queue'[u].depth = 0 /\ u = SeedUrl[queue'[u].seed]
                    \/ \E v \in Urls : /\ pages'[v].stored /\ u \in pages'[v].out
                                       /\ pages'[v].depth < queue'[u].depth
  BY DEF Provenance
<1>1. CASE /\ queue[u].status # "none" /\ queue'[u].depth = queue[u].depth
           /\ queue'[u].seed = queue[u].seed
  <2>1. CASE queue[u].depth = 0 /\ u = SeedUrl[queue[u].seed]
    BY <1>1, <2>1
  <2>2. ASSUME NEW v \in Urls, pages[v].stored, u \in pages[v].out,
               pages[v].depth < queue[u].depth
        PROVE  /\ pages'[v].stored /\ u \in pages'[v].out
               /\ pages'[v].depth < queue'[u].depth
    BY <1>1, <2>2
  <2> QED BY <1>1, <2>1, <2>2 DEF ProvInv, Provenance
<1> QED BY <1>1

LEMMA ProvKeeps ==
    ASSUME ProvInv, TypeInv, queue' = queue, pages' = pages,
           \A t \in Tasks : grown'[t] # {} =>
               claim'[t] = claim[t] /\ grown'[t] \subseteq grown[t]
    PROVE  ProvInv'
<1>1. Provenance' BY DEF ProvInv, Provenance
<1> QED BY <1>1 DEF ProvInv

LEMMA AbortProv ==
    ASSUME ProvInv, TypeInv, NEW t \in Tasks, AbortTask(t)
    PROVE  ProvInv'
BY ProvKeeps DEF AbortTask, TypeInv, TypeOK

LEMMA DepthsAre ==
    ASSUME TypeInv, NEW u \in Urls
    PROVE  queue[u] \in Row /\ pages[u] \in Page
           /\ queue[u].depth \in Nat /\ pages[u].depth \in Nat
BY DEF TypeInv, TypeOK, Row, Page

LEMMA CommitSeedsProv ==
    ASSUME ProvInv, TypeInv, NEW r \in Runs, CommitSeeds(r)
    PROVE  ProvInv'
<1>1. pages' = pages /\ claim' = claim /\ grown' = grown BY DEF CommitSeeds
<1>2. ASSUME NEW u \in Urls
      PROVE  \/ queue'[u] = queue[u]
             \/ queue'[u].depth = 0 /\ u = SeedUrl[queue'[u].seed]
  <2>1. CASE u \in RunKeys(r)
    <3> DEFINE s == CHOOSE z \in planted[r] : SeedUrl[z] = u
    <3>1. SeedUrl[s] = u BY <2>1 DEF RunKeys
    <3>2. queue'[u] = NewRow(0, s) BY <2>1 DEF CommitSeeds
    <3> QED BY <3>1, <3>2 DEF NewRow
  <2>2. CASE u \notin RunKeys(r) BY <2>2 DEF CommitSeeds
  <2> QED BY <2>1, <2>2
<1>3. Provenance' BY <1>1, <1>2, ReasonsKeep, DepthsAre
<1> QED BY <1>1, <1>3 DEF ProvInv

LEMMA CommitPageProv ==
    ASSUME ProvInv, KeyInv, TypeInv, TypeInv', NEW t \in Tasks, CommitPage(t)
    PROVE  ProvInv'
<1> DEFINE u == claim[t]
           d == queue[u].depth
<1>1. u \in Urls /\ queue[u] \in Row /\ queue[u].status = "pending"
      /\ d \in Nat /\ pages[u].depth \in Nat /\ u \notin grown[t]
  BY ClaimType, DepthsAre
  DEF CommitPage, TypeInv, TaskShape, KeyInv, WritesFitTable
<1>2. /\ pages'[u].stored /\ pages'[u].out = Range(Links[u])
      /\ pages'[u].depth <= d
      /\ pages[u].stored => pages'[u].depth <= pages[u].depth
      /\ \A v \in Urls \ {u} : pages'[v] = pages[v]
  BY <1>1 DEF CommitPage, TypeInv, TypeOK
<1>3. ASSUME NEW v \in Urls, queue'[v].status # "none"
      PROVE  \/ /\ queue[v].status # "none" /\ queue'[v].depth = queue[v].depth
                /\ queue'[v].seed = queue[v].seed
             \/ \E w \in Urls : /\ pages'[w].stored /\ v \in pages'[w].out
                                /\ pages'[w].depth < queue'[v].depth
  <2>1. CASE v = u
    <3>1. queue'[v] = [queue[v] EXCEPT !.status = "done", !.err = FALSE]
      BY <2>1, <1>1 DEF CommitPage
    <3> QED BY <3>1, <2>1, <1>1 DEF Row
  <2>2. CASE v # u /\ v \in grown[t]
    <3>1. queue'[v] = NewRow(ChildDepth(d), Matched(RunOf[t], v))
      BY <2>2 DEF CommitPage
    <3>2. v \in Range(Links[u]) BY <2>2 DEF ProvInv
    <3>3. pages'[u].depth < queue'[v].depth
      BY <3>1, <1>1, <1>2, DepthsAre, TypeInv', <1>1 DEF NewRow, ChildDepth, TypeInv, TypeOK, Page
    <3> QED BY <1>1, <1>2, <3>2, <3>3
  <2>3. CASE v # u /\ v \notin grown[t]
    BY <1>3, <2>3 DEF CommitPage
  <2> QED BY <2>1, <2>2, <2>3
<1>4. \A v \in Urls : pages'[v].depth \in Nat BY DEF TypeInv, TypeOK, Page
<1>5. \A v \in Urls : pages[v].stored =>
          /\ pages'[v].stored /\ pages'[v].out = pages[v].out
          /\ pages'[v].depth <= pages[v].depth
  BY <1>2, DepthsAre DEF ProvInv
<1>6. Provenance' BY <1>3, <1>4, <1>5, DepthsAre, ReasonsKeep
<1>7. \A v \in Urls : pages'[v].stored => pages'[v].out = Range(Links[v])
  BY <1>2 DEF ProvInv
<1>8. \A z \in Tasks : grown'[z] # {} => grown'[z] \subseteq Range(Links[claim'[z]])
  BY DEF CommitPage, ProvInv, TypeInv, TypeOK
<1> QED BY <1>6, <1>7, <1>8 DEF ProvInv

LEMMA TaskStepProv ==
    ASSUME ProvInv, KeyInv, TypeInv, TypeInv', NEW t \in Tasks,
           TaskStep(t) \/ RaiseInTask(t) \/ CancelTask(t)
    PROVE  ProvInv'
<1>1. CASE RaiseInTask(t) \/ LinkSeedGone(t)
  BY <1>1, AbortProv DEF RaiseInTask, LinkSeedGone
<1>2. CASE CancelTask(t) BY <1>2, ProvKeeps DEF CancelTask, Stop, TypeInv, TypeOK
<1>3. CASE ClaimRow(t)
  <2>1. grown[t] = {} BY <1>3 DEF ClaimRow, TypeInv, TaskShape
  <2>2. \A z \in Tasks \ {t} : claim'[z] = claim[z]
    BY <1>3 DEF ClaimRow, TypeInv, TypeOK
  <2> QED BY <1>3, <2>1, <2>2, ProvKeeps DEF ClaimRow
<1>4. CASE FindNothing(t) \/ FetchPage(t) \/ StorePage(t) \/ Count(t)
  BY <1>4, ProvKeeps DEF FindNothing, FetchPage, StorePage, Count
<1>5. CASE CloseUnindexed(t)
  <2>1. claim[t] \in Urls /\ queue[claim[t]] \in Row /\ queue[claim[t]].status = "pending"
        /\ grown[t] = {}
    BY <1>5, ClaimType DEF CloseUnindexed, TypeInv, KeyInv, WritesFitTable, TaskShape
  <2>2. PICK st \in {"done", "error"} :
            queue' = [queue EXCEPT ![claim[t]].err = TRUE, ![claim[t]].status = st]
    BY <1>5 DEF CloseUnindexed
  <2>3. \A u \in Urls : /\ queue'[u].depth = queue[u].depth
                        /\ queue'[u].seed = queue[u].seed
                        /\ queue'[u].status # "none" => queue[u].status # "none"
    BY <2>1, <2>2 DEF TypeInv, TypeOK, Row
  <2>4. pages' = pages /\ grown' = grown
        /\ \A z \in Tasks \ {t} : claim'[z] = claim[z]
    BY <1>5 DEF CloseUnindexed, TypeInv, TypeOK
  <2>5. Provenance' BY <2>3, <2>4, DepthsAre, ReasonsKeep
  <2> QED BY <2>1, <2>4, <2>5 DEF ProvInv
<1>6. CASE EnqueueLink(t)
  <2> DEFINE u == NextLink(t)
  <2>1. pc[t] = "expanding" /\ claim[t] \in Urls /\ toLink[t] # {}
    BY <1>6, ClaimType DEF EnqueueLink, Expanding, TypeInv
  <2>2. Min(toLink[t]) \in DOMAIN Links[claim[t]]
    BY <2>1, NextLinkType DEF TypeInv, TaskShape
  <2>3. u \in Range(Links[claim[t]])
    BY <2>2 DEF NextLink, Range
  <2>4. grown'[t] \subseteq grown[t] \cup {u}
        /\ \A z \in Tasks \ {t} : grown'[z] = grown[z]
    BY <1>6 DEF EnqueueLink, TypeInv, TypeOK
  <2>5. claim' = claim /\ queue' = queue /\ pages' = pages BY <1>6 DEF EnqueueLink
  <2>6. Provenance' BY <2>5 DEF ProvInv, Provenance
  <2> QED BY <2>3, <2>4, <2>5, <2>6 DEF ProvInv
<1>7. CASE CommitPage(t) BY <1>7, CommitPageProv
<1> QED BY <1>1, <1>2, <1>3, <1>4, <1>5, <1>6, <1>7 DEF TaskStep

LEMMA NextProv ==
    ASSUME ProvInv, KeyInv, TypeInv, TypeInv', [Next]_vars
    PROVE  ProvInv'
<1>1. CASE UNCHANGED vars BY <1>1, ProvKeeps DEF vars
<1>2. ASSUME NEW r \in Runs, StartRun(r) \/ RunStep(r) \/ KillRun(r) PROVE ProvInv'
  <2>1. CASE CommitSeeds(r) BY <2>1, CommitSeedsProv
  <2>2. CASE KillRun(r) BY <2>2, ProvKeeps DEF KillRun, Stop, TypeInv, TypeOK
  <2>3. CASE StartRun(r) \/ PlantSeed(r) \/ PlantSeedGone(r) \/ LoadRules(r) \/ FinishRun(r)
    BY <2>3, ProvKeeps DEF StartRun, PlantSeed, PlantSeedGone, FailRun, LoadRules, FinishRun
  <2> QED BY <1>2, <2>1, <2>2, <2>3 DEF RunStep
<1>3. ASSUME NEW s \in Seeds, AdminStep(s) PROVE ProvInv'
  <2>1. CASE AddSeed(s) \/ ToggleSeed(s) \/ DeleteBegin(s)
    BY <2>1, ProvKeeps DEF AddSeed, ToggleSeed, DeleteBegin
  <2>2. CASE DeleteFinish(s)
    <3>1. \A u \in Urls : queue'[u] = queue[u] \/ queue'[u].status = "none"
      BY <2>2 DEF DeleteFinish, NoRow
    <3>2. \A u \in Urls : /\ pages'[u].stored = pages[u].stored
                          /\ pages'[u].out = pages[u].out
                          /\ pages'[u].depth = pages[u].depth
      BY <2>2, DepthsAre DEF DeleteFinish, Page
    <3>3. Provenance' BY <3>1, <3>2, DepthsAre, ReasonsKeep
    <3> QED BY <2>2, <3>2, <3>3 DEF DeleteFinish, ProvInv
  <2> QED BY <1>3, <2>1, <2>2 DEF AdminStep
<1>4. CASE DeadlockAbort
  <2>1. CASE \E t \in Tasks : OnCycle(t) /\ AbortTask(t) BY <2>1, AbortProv
  <2>2. CASE \E r \in Runs : OnCycle(r) /\ FailRun(r) BY <2>2, ProvKeeps DEF FailRun
  <2>3. CASE UNCHANGED <<seeds, queue, pages, jobs, runVars, taskVars>>
    BY <2>3, ProvKeeps
  <2> QED BY <1>4, <2>1, <2>2, <2>3 DEF DeadlockAbort
<1> QED BY <1>1, <1>2, <1>3, <1>4, TaskStepProv DEF Next, Quiescent

(* Every row of the frontier has been committed together with, or after,   *)
(* the reason for it: it is the URL of its seed, or a page that is nearer  *)
(* to a seed links to it.                                                  *)
THEOREM RowsHaveReasons == Spec => []Provenance
<1>1. Init => ProvInv
  BY DEF Init, ProvInv, Provenance, NoRow, NoPage
<1>2. TypeInv /\ TypeInv' /\ KeyInv /\ ProvInv /\ [Next]_vars => ProvInv' BY NextProv
<1>3. ProvInv => Provenance BY DEF ProvInv
<1> QED BY <1>1, <1>2, <1>3, TypeCorrect, KeysSafe, PTL DEF Spec

-----------------------------------------------------------------------------
(* Rows and the seeds they refer to.                                       *)

Live(s) == seeds[s] \in {"enabled", "disabled"}
Pinned(s) == s \in Seeds /\ Live(s) /\ s \notin deleting

(* A transaction that has inserted a row for a seed keeps the seed from    *)
(* being deleted, and no SELECT returns a seed that is yet to be added.    *)
SeedInv ==
    /\ SeedsExist
    /\ \A u \in Urls : queue[u].status # "none" => queue[u].seed \in Seeds
    /\ \A s \in deleting : Live(s)
    /\ \A r \in Runs : \A s \in planted[r] : Pinned(s)
    /\ \A t \in Tasks : \A v \in grown[t] : Pinned(Matched(RunOf[t], v))
    /\ \A r \in Runs : \A i \in DOMAIN toPlant[r] : seeds[toPlant[r][i]] # "new"
    /\ \A r \in Runs : \A i \in DOMAIN rules[r] : seeds[rules[r][i]] # "new"

(* The seed a link matches was there when the rules were loaded.           *)
LEMMA MatchedNotNew ==
    ASSUME SeedInv, TypeInv, NEW r \in Runs, NEW v, Matched(r, v) # NoSeed
    PROVE  seeds[Matched(r, v)] # "new"
<1> DEFINE hits == {i \in DOMAIN rules[r] : v \in Scope[rules[r][i]]}
<1>1. rules[r] \in Seq(Seeds) BY DEF TypeInv, TypeOK
<1>2. hits \subseteq Nat BY <1>1
<1>3. hits # {} BY DEF Matched
<1>4. Min(hits) \in hits BY <1>2, <1>3, MinOfNats
<1> QED BY <1>3, <1>4 DEF Matched, SeedInv

(* Most steps change no table and take no new seed.                        *)
LEMMA SeedKeeps ==
    ASSUME SeedInv, queue' = queue, pages' = pages, seeds' = seeds,
           deleting' \subseteq deleting, rules' = rules,
           \A r \in Runs : planted'[r] \subseteq planted[r],
           \A t \in Tasks : grown'[t] \subseteq grown[t],
           \A r \in Runs : toPlant'[r] = toPlant[r] \/ toPlant'[r] = <<>>
    PROVE  SeedInv'
<1>1. \A r, v : Matched(r, v)' = Matched(r, v) BY DEF Matched
<1>2. \A s : Live(s)' <=> Live(s) BY DEF Live
<1>3. \A s : Pinned(s) => Pinned(s)' BY <1>2 DEF Pinned
<1>4. SeedsExist' BY DEF SeedInv, SeedsExist
<1> QED BY <1>1, <1>2, <1>3, <1>4 DEF SeedInv

LEMMA AbortSeed ==
    ASSUME SeedInv, TypeInv, NEW t \in Tasks, AbortTask(t)
    PROVE  SeedInv'
BY SeedKeeps DEF AbortTask, TypeInv, TypeOK

LEMMA FailRunSeed ==
    ASSUME SeedInv, TypeInv, NEW r \in Runs, FailRun(r)
    PROVE  SeedInv'
BY SeedKeeps DEF FailRun, TypeInv, TypeOK

(* The rows of some URLs become rows of seeds that are there, and pages    *)
(* refer to the seeds of their rows.                                       *)
LEMMA RowsChange ==
    ASSUME SeedInv, seeds' = seeds,
           \A u \in Urls :
              \/ queue'[u] = queue[u] /\ pages'[u] = pages[u]
              \/ /\ queue'[u].seed \in Seeds /\ Live(queue'[u].seed)
                 /\ queue'[u].status # "none"
                 /\ pages'[u].seed # NoSeed => pages'[u].seed = queue'[u].seed
    PROVE  /\ SeedsExist'
           /\ \A u \in Urls : queue'[u].status # "none" => queue'[u].seed \in Seeds
BY DEF SeedInv, SeedsExist, Live

LEMMA StartRunSeed ==
    ASSUME SeedInv, TypeInv, NEW r \in Runs, StartRun(r)
    PROVE  SeedInv'
<1> DEFINE S == {s \in EnabledSeeds : SeedUrl[s] # NoUrl}
<1>1. PICK q \in Orderings(S) : toPlant' = [toPlant EXCEPT ![r] = q]
  BY DEF StartRun
<1>2. \A i \in DOMAIN q : seeds[q[i]] = "enabled"
  BY DEF Orderings, EnabledSeeds
<1>3. \A z \in Runs : \A i \in DOMAIN toPlant'[z] : seeds[toPlant'[z][i]] # "new"
  BY <1>1, <1>2 DEF SeedInv, TypeInv, TypeOK
<1>4. seeds' = seeds /\ deleting' = deleting /\ queue' = queue /\ pages' = pages
      /\ planted' = planted /\ rules' = rules /\ grown' = grown
  BY DEF StartRun
<1>5. SeedsExist' BY <1>4 DEF SeedInv, SeedsExist
<1>6. \A z, v : Matched(z, v)' = Matched(z, v) BY <1>4 DEF Matched
<1> QED BY <1>3, <1>4, <1>5, <1>6 DEF SeedInv, Pinned, Live

LEMMA PlantSeedSeed ==
    ASSUME SeedInv, TypeInv, NEW r \in Runs, PlantSeed(r)
    PROVE  SeedInv'
<1> DEFINE s == Head(toPlant[r])
           S == {z \in Seeds : SeedUrl[z] # NoUrl}
<1>1. toPlant[r] \in Seq(S) /\ toPlant[r] # <<>>
  BY DEF PlantSeed, Planting, TypeInv, TypeOK
<1>2. s \in Seeds /\ seeds[s] # "new"
  <2>1. s = toPlant[r][1] /\ 1 \in DOMAIN toPlant[r] BY <1>1
  <2> QED BY <1>1, <2>1, HeadTailProperties DEF SeedInv
<1>3. planted' = planted \/ (planted' = [planted EXCEPT ![r] = @ \cup {s}] /\ Pinned(s))
  BY <1>2 DEF PlantSeed, Inserts, Pinned, Live, TypeInv, TypeOK
<1>4. \A i \in DOMAIN toPlant'[r] :
          i + 1 \in DOMAIN toPlant[r] /\ toPlant'[r][i] = toPlant[r][i + 1]
  <2>1. toPlant'[r] = Tail(toPlant[r])
    BY DEF PlantSeed, TypeInv, TypeOK
  <2> QED BY <1>1, <2>1
<1>5. \A z \in Runs \ {r} : toPlant'[z] = toPlant[z]
  BY DEF PlantSeed, TypeInv, TypeOK
<1>6. seeds' = seeds /\ deleting' = deleting /\ queue' = queue /\ pages' = pages
      /\ rules' = rules /\ grown' = grown
  BY DEF PlantSeed
<1>7. \A z \in Runs : \A i \in DOMAIN toPlant'[z] : seeds[toPlant'[z][i]] # "new"
  BY <1>4, <1>5 DEF SeedInv
<1>8. \A z \in Runs : \A x \in planted'[z] : Pinned(x)
  <2> SUFFICES ASSUME NEW z \in Runs, NEW x \in planted'[z] PROVE Pinned(x)
    OBVIOUS
  <2>1. x \in planted[z] \/ (x = s /\ Pinned(s))
    <3>1. planted \in [Runs -> SUBSET S] BY DEF TypeInv, TypeOK
    <3> HIDE DEF s, S
    <3> QED BY <1>3, <3>1
  <2>2. x \in planted[z] => Pinned(x) BY DEF SeedInv
  <2> QED BY <2>1, <2>2
<1>9. SeedsExist' BY <1>6 DEF SeedInv, SeedsExist
<1>10. \A z, v : Matched(z, v)' = Matched(z, v) BY <1>6 DEF Matched
<1> QED BY <1>6, <1>7, <1>8, <1>9, <1>10 DEF SeedInv, Pinned, Live

LEMMA CommitSeedsSeed ==
    ASSUME SeedInv, KeyInv, TypeInv, NEW r \in Runs, CommitSeeds(r)
    PROVE  SeedInv'
<1>1. /\ seeds' = seeds /\ deleting' = deleting /\ pages' = pages /\ rules' = rules
      /\ grown' = grown /\ toPlant' = toPlant
      /\ \A z \in Runs : planted'[z] \subseteq planted[z]
  BY DEF CommitSeeds, TypeInv, TypeOK
<1>2. ASSUME NEW u \in Urls
      PROVE  \/ queue'[u] = queue[u]
             \/ /\ queue'[u].seed \in Seeds /\ Live(queue'[u].seed)
                /\ queue'[u].status # "none" /\ pages[u].seed = NoSeed
  <2>1. CASE u \in RunKeys(r)
    <3> DEFINE s == CHOOSE z \in planted[r] : SeedUrl[z] = u
    <3>1. s \in planted[r] BY <2>1 DEF RunKeys
    <3>2. Pinned(s) BY <3>1 DEF SeedInv
    <3>3. queue'[u] = NewRow(0, s) BY <2>1 DEF CommitSeeds
    <3>4. queue[u].status = "none" BY <2>1 DEF KeyInv, WritesFitTable
    <3> QED BY <3>2, <3>3, <3>4 DEF NewRow, Pinned, SeedInv, SeedsExist
  <2>2. CASE u \notin RunKeys(r) BY <2>2 DEF CommitSeeds
  <2> QED BY <2>1, <2>2
<1>3. /\ SeedsExist'
      /\ \A u \in Urls : queue'[u].status # "none" => queue'[u].seed \in Seeds
  BY <1>1, <1>2, RowsChange
<1>4. \A z, v : Matched(z, v)' = Matched(z, v) BY <1>1 DEF Matched
<1> QED BY <1>1, <1>3, <1>4 DEF SeedInv, Pinned, Live

LEMMA LoadRulesSeed ==
    ASSUME SeedInv, TypeInv, NEW r \in Runs, LoadRules(r)
    PROVE  SeedInv'
<1>1. PICK q \in Orderings(EnabledSeeds) : rules' = [rules EXCEPT ![r] = q]
  BY DEF LoadRules
<1>2. \A i \in DOMAIN q : seeds[q[i]] = "enabled"
  BY DEF Orderings, EnabledSeeds
<1>3. \A z \in Runs : \A i \in DOMAIN rules'[z] : seeds[rules'[z][i]] # "new"
  BY <1>1, <1>2 DEF SeedInv, TypeInv, TypeOK
<1>4. seeds' = seeds /\ deleting' = deleting /\ queue' = queue /\ pages' = pages
      /\ planted' = planted /\ toPlant' = toPlant /\ grown' = grown
  BY DEF LoadRules
<1>5. SeedsExist' BY <1>4 DEF SeedInv, SeedsExist
<1>6. \A t \in Tasks : RunOf[t] = r => grown[t] = {}
  BY DEF LoadRules, TypeInv, RunShape, TaskShape, TasksOf
<1>7. \A t \in Tasks : RunOf[t] # r => \A v : Matched(RunOf[t], v)' = Matched(RunOf[t], v)
  BY <1>1, RunsAssumption DEF Matched, TypeInv, TypeOK
<1> QED BY <1>3, <1>4, <1>5, <1>6, <1>7 DEF SeedInv, Pinned, Live

LEMMA EnqueueLinkSeed ==
    ASSUME SeedInv, DepthInv, TypeInv, NEW t \in Tasks, EnqueueLink(t)
    PROVE  SeedInv'
<1> DEFINE u == NextLink(t)
           s == Matched(RunOf[t], u)
<1>1. pc[t] = "expanding" /\ toLink[t] # {} /\ RunOf[t] \in Runs
  BY RunsAssumption DEF EnqueueLink, Expanding
<1>2. s \in Seeds
  <2>1. Fits(t, u) BY <1>1, NextLinkType DEF NextLink, DepthInv, LinksFit, TypeInv
  <2> QED BY <2>1 DEF Fits
<1>3. seeds[s] # "new"
  BY <1>1, <1>2, SeedsAssumption, MatchedNotNew
<1>4. grown' = grown \/ (grown' = [grown EXCEPT ![t] = @ \cup {u}] /\ Pinned(s))
  BY <1>2, <1>3 DEF EnqueueLink, Inserts, Pinned, Live, TypeInv, TypeOK
<1>5. seeds' = seeds /\ deleting' = deleting /\ queue' = queue /\ pages' = pages
      /\ rules' = rules /\ planted' = planted /\ toPlant' = toPlant
  BY DEF EnqueueLink
<1>6. \A z \in Tasks : \A v \in grown'[z] : Pinned(Matched(RunOf[z], v))
  <2> SUFFICES ASSUME NEW z \in Tasks, NEW v \in grown'[z]
               PROVE  Pinned(Matched(RunOf[z], v))
    OBVIOUS
  <2>1. v \in grown[z] \/ (z = t /\ v = u /\ Pinned(s))
    <3>1. grown \in [Tasks -> SUBSET Urls] BY DEF TypeInv, TypeOK
    <3> HIDE DEF u, s
    <3> QED BY <1>4, <3>1
  <2>2. v \in grown[z] => Pinned(Matched(RunOf[z], v)) BY DEF SeedInv
  <2> QED BY <2>1, <2>2
<1>7. \A z, v : Matched(z, v)' = Matched(z, v) BY <1>5 DEF Matched
<1>8. SeedsExist' BY <1>5 DEF SeedInv, SeedsExist
<1> QED BY <1>5, <1>6, <1>7, <1>8 DEF SeedInv, Pinned, Live

LEMMA CommitPageSeed ==
    ASSUME SeedInv, KeyInv, TypeInv, NEW t \in Tasks, CommitPage(t)
    PROVE  SeedInv'
<1> DEFINE u == claim[t]
           d == queue[u].depth
<1>1. u \in Urls /\ queue[u] \in Row /\ queue[u].status = "pending"
      /\ pages[u] \in Page /\ u \notin grown[t]
  BY ClaimType
  DEF CommitPage, TypeInv, TypeOK, TaskShape, KeyInv, WritesFitTable
<1>2. /\ seeds' = seeds /\ deleting' = deleting /\ rules' = rules /\ toPlant' = toPlant
      /\ planted' = planted /\ \A z \in Tasks : grown'[z] \subseteq grown[z]
  BY DEF CommitPage, TypeInv, TypeOK
<1>3. ASSUME NEW v \in Urls
      PROVE  \/ queue'[v] = queue[v] /\ pages'[v] = pages[v]
             \/ /\ queue'[v].seed \in Seeds /\ Live(queue'[v].seed)
                /\ queue'[v].status # "none"
                /\ pages'[v].seed # NoSeed => pages'[v].seed = queue'[v].seed
  <2>1. CASE v = u
    <3>1. queue'[v] = [queue[v] EXCEPT !.status = "done", !.err = FALSE]
      BY <2>1, <1>1 DEF CommitPage
    <3>2. queue'[v].seed = queue[v].seed /\ queue'[v].status = "done"
      BY <3>1, <2>1, <1>1 DEF Row
    <3>3. queue[v].seed \in Seeds /\ Live(queue[v].seed)
      BY <2>1, <1>1 DEF SeedInv, SeedsExist, Live
    <3>4. pages'[v].seed = IF ChecksSeed(u) THEN queue[v].seed ELSE pages[v].seed
      BY <2>1, <1>1 DEF CommitPage, TypeInv, TypeOK
    <3>5. pages'[v].seed # NoSeed => pages'[v].seed = queue[v].seed
      BY <3>4, <2>1 DEF ChecksSeed, SeedInv, SeedsExist
    <3> QED BY <3>2, <3>3, <3>5
  <2>2. CASE v # u /\ v \in grown[t]
    <3>1. queue'[v] = NewRow(ChildDepth(d), Matched(RunOf[t], v))
      BY <2>2 DEF CommitPage
    <3>2. Pinned(Matched(RunOf[t], v)) BY <2>2 DEF SeedInv
    <3>3. queue[v].status = "none" BY <2>2 DEF KeyInv, WritesFitTable
    <3>4. pages'[v].seed = NoSeed
      BY <2>2, <3>3 DEF CommitPage, SeedInv, SeedsExist, TypeInv, TypeOK
    <3> QED BY <3>1, <3>2, <3>4 DEF NewRow, Pinned
  <2>3. CASE v # u /\ v \notin grown[t]
    BY <2>3 DEF CommitPage, TypeInv, TypeOK
  <2> QED BY <2>1, <2>2, <2>3
<1>4. /\ SeedsExist'
      /\ \A v \in Urls : queue'[v].status # "none" => queue'[v].seed \in Seeds
  BY <1>2, <1>3, RowsChange
<1>5. \A z, v : Matched(z, v)' = Matched(z, v) BY <1>2 DEF Matched
<1> QED BY <1>2, <1>4, <1>5 DEF SeedInv, Pinned, Live

LEMMA TaskStepSeed ==
    ASSUME SeedInv, DepthInv, KeyInv, TypeInv, NEW t \in Tasks,
           TaskStep(t) \/ RaiseInTask(t) \/ CancelTask(t)
    PROVE  SeedInv'
<1>1. CASE RaiseInTask(t) \/ LinkSeedGone(t)
  BY <1>1, AbortSeed DEF RaiseInTask, LinkSeedGone
<1>2. CASE CancelTask(t) BY <1>2, SeedKeeps DEF CancelTask, Stop, TypeInv, TypeOK
<1>3. CASE ClaimRow(t) \/ FindNothing(t) \/ FetchPage(t) \/ StorePage(t) \/ Count(t)
  BY <1>3, SeedKeeps DEF ClaimRow, FindNothing, FetchPage, StorePage, Count
<1>4. CASE CloseUnindexed(t)
  <2>1. claim[t] \in Urls /\ queue[claim[t]] \in Row /\ queue[claim[t]].status = "pending"
    BY <1>4, ClaimType DEF CloseUnindexed, TypeInv, KeyInv, WritesFitTable, TaskShape
  <2>2. PICK st \in {"done", "error"} :
            queue' = [queue EXCEPT ![claim[t]].err = TRUE, ![claim[t]].status = st]
    BY <1>4 DEF CloseUnindexed
  <2>3. \A u \in Urls : /\ queue'[u].seed = queue[u].seed
                        /\ queue'[u].status # "none" <=> queue[u].status # "none"
    BY <2>1, <2>2 DEF TypeInv, TypeOK, Row
  <2>4. seeds' = seeds /\ deleting' = deleting /\ pages' = pages /\ rules' = rules
        /\ grown' = grown /\ planted' = planted /\ toPlant' = toPlant
    BY <1>4 DEF CloseUnindexed
  <2>5. SeedsExist' BY <2>3, <2>4 DEF SeedInv, SeedsExist
  <2>6. \A z, v : Matched(z, v)' = Matched(z, v) BY <2>4 DEF Matched
  <2> QED BY <2>3, <2>4, <2>5, <2>6 DEF SeedInv, Pinned, Live
<1>5. CASE EnqueueLink(t) BY <1>5, EnqueueLinkSeed
<1>6. CASE CommitPage(t) BY <1>6, CommitPageSeed
<1> QED BY <1>1, <1>2, <1>3, <1>4, <1>5, <1>6 DEF TaskStep

(* What SELECTs have returned are seeds.                                   *)
LEMMA SeedsListed ==
    ASSUME TypeInv
    PROVE  \A r \in Runs : /\ \A i \in DOMAIN toPlant[r] : toPlant[r][i] \in Seeds
                           /\ \A i \in DOMAIN rules[r] : rules[r][i] \in Seeds
<1> SUFFICES ASSUME NEW r \in Runs
             PROVE  /\ \A i \in DOMAIN toPlant[r] : toPlant[r][i] \in Seeds
                    /\ \A i \in DOMAIN rules[r] : rules[r][i] \in Seeds
  OBVIOUS
<1> DEFINE S == {z \in Seeds : SeedUrl[z] # NoUrl}
<1>1. toPlant[r] \in Seq(S) /\ rules[r] \in Seq(Seeds) BY DEF TypeInv, TypeOK
<1>2. \A i \in DOMAIN toPlant[r] : toPlant[r][i] \in S
  <2> HIDE DEF S
  <2> QED BY <1>1
<1>3. \A i \in DOMAIN rules[r] : rules[r][i] \in Seeds BY <1>1
<1> QED BY <1>2, <1>3

LEMMA AdminStepSeed ==
    ASSUME SeedInv, TypeInv, NEW s \in Seeds, AdminStep(s)
    PROVE  SeedInv'
<1>0. /\ planted' = planted /\ grown' = grown /\ toPlant' = toPlant /\ rules' = rules
      /\ \A z, v : Matched(z, v)' = Matched(z, v)
  BY DEF AdminStep, AddSeed, ToggleSeed, DeleteBegin, DeleteFinish, Matched
<1>1. CASE AddSeed(s) \/ ToggleSeed(s)
  <2>1. /\ queue' = queue /\ pages' = pages /\ deleting' = deleting
        /\ \A z \in Seeds : /\ Live(z) => Live(z)'
                            /\ seeds[z] # "new" => seeds'[z] # "new"
    BY <1>1 DEF AddSeed, ToggleSeed, Live, TypeInv, TypeOK
  <2>2. SeedsExist' BY <2>1 DEF SeedInv, SeedsExist, Live
  <2>3. \A r \in Runs : /\ \A i \in DOMAIN toPlant[r] : toPlant[r][i] \in Seeds
                        /\ \A i \in DOMAIN rules[r] : rules[r][i] \in Seeds BY SeedsListed
  <2>4. deleting \subseteq Seeds BY DEF TypeInv, TypeOK
  <2> QED BY <1>0, <2>1, <2>2, <2>3, <2>4 DEF SeedInv, Pinned
<1>2. CASE DeleteBegin(s)
  <2>1. /\ seeds' = seeds /\ queue' = queue /\ pages' = pages
        /\ deleting' = deleting \cup {s} /\ Live(s)
        /\ \A z : Live(z)' <=> Live(z)
    BY <1>2 DEF DeleteBegin, Live
  <2>2. \A r \in Runs : s \notin planted[r]
    BY <1>2 DEF DeleteBegin, ShareHolders
  <2>3. \A t \in Tasks : \A v \in grown[t] : Matched(RunOf[t], v) # s
    BY <1>2 DEF DeleteBegin, ShareHolders, TypeInv, TaskShape
  <2>4. SeedsExist' BY <2>1 DEF SeedInv, SeedsExist
  <2> QED BY <1>0, <2>1, <2>2, <2>3, <2>4 DEF SeedInv, Pinned
<1>3. CASE DeleteFinish(s)
  <2>1. /\ s \in deleting /\ deleting' = deleting \ {s}
        /\ \A z \in Seeds \ {s} : seeds'[z] = seeds[z]
        /\ seeds'[s] = "deleted"
    BY <1>3 DEF DeleteFinish, TypeInv, TypeOK
  <2>2. \A z \in Seeds : /\ Pinned(z) => Pinned(z)'
                         /\ z # s /\ Live(z) => Live(z)'
                         /\ seeds[z] # "new" => seeds'[z] # "new"
    BY <2>1 DEF Pinned, Live
  <2>3. ASSUME NEW u \in Urls
        PROVE  /\ queue'[u].status # "none" =>
                     /\ queue[u].status # "none" /\ queue'[u] = queue[u]
                     /\ queue[u].seed # s
               /\ pages'[u].seed # NoSeed =>
                     pages'[u].seed = pages[u].seed /\ pages[u].seed # s
    <3>1. pages[u] \in Page BY DEF TypeInv, TypeOK
    <3>2. queue'[u] = IF queue[u].seed = s THEN NoRow ELSE queue[u]
      BY <1>3 DEF DeleteFinish
    <3>3. pages'[u] = IF pages[u].seed = s THEN [pages[u] EXCEPT !.seed = NoSeed]
                                           ELSE pages[u]
      BY <1>3 DEF DeleteFinish
    <3> QED BY <3>1, <3>2, <3>3 DEF NoRow, Page
  <2>4. \A u \in Urls : queue[u].seed # s => queue'[u] = queue[u]
    BY <1>3 DEF DeleteFinish
  <2>5. SeedsExist'
    <3> SUFFICES ASSUME NEW u \in Urls
                 PROVE  /\ queue'[u].status # "none" =>
                              seeds'[queue'[u].seed] \in {"enabled", "disabled"}
                        /\ pages'[u].seed # NoSeed =>
                              /\ queue'[u].status # "none"
                              /\ queue'[u].seed = pages'[u].seed
      BY DEF SeedsExist
    <3>1. queue'[u].status # "none" =>
              seeds'[queue'[u].seed] \in {"enabled", "disabled"}
      BY <2>1, <2>3 DEF SeedInv, SeedsExist
    <3>2. pages'[u].seed # NoSeed =>
              queue'[u].status # "none" /\ queue'[u].seed = pages'[u].seed
      BY <2>3, <2>4 DEF SeedInv, SeedsExist
    <3> QED BY <3>1, <3>2
  <2>6. \A u \in Urls : queue'[u].status # "none" => queue'[u].seed \in Seeds
    BY <2>3 DEF SeedInv
  <2>7. \A r \in Runs : /\ \A i \in DOMAIN toPlant[r] : toPlant[r][i] \in Seeds
                        /\ \A i \in DOMAIN rules[r] : rules[r][i] \in Seeds BY SeedsListed
  <2>8. \A z \in deleting' : Live(z)'
    BY <2>1, <2>2 DEF SeedInv, TypeInv, TypeOK
  <2>9. /\ \A r \in Runs : \A z \in planted'[r] : Pinned(z)'
        /\ \A t \in Tasks : \A v \in grown'[t] : Pinned(Matched(RunOf[t], v))'
    <3>1. \A z : Pinned(z) => z \in Seeds BY DEF Pinned
    <3> QED BY <1>0, <2>2, <3>1 DEF SeedInv
  <2> QED BY <1>0, <2>2, <2>5, <2>6, <2>7, <2>8, <2>9 DEF SeedInv
<1> QED BY <1>1, <1>2, <1>3 DEF AdminStep

LEMMA NextSeed ==
    ASSUME SeedInv, DepthInv, KeyInv, TypeInv, [Next]_vars
    PROVE  SeedInv'
<1>1. CASE UNCHANGED vars BY <1>1, SeedKeeps DEF vars
<1>2. ASSUME NEW r \in Runs, StartRun(r) \/ RunStep(r) \/ KillRun(r) PROVE SeedInv'
  <2>1. CASE KillRun(r) BY <2>1, SeedKeeps DEF KillRun, Stop, TypeInv, TypeOK
  <2>2. CASE FinishRun(r) BY <2>2, SeedKeeps DEF FinishRun
  <2>3. CASE PlantSeedGone(r) BY <2>3, FailRunSeed DEF PlantSeedGone
  <2> QED BY <1>2, <2>1, <2>2, <2>3, StartRunSeed, PlantSeedSeed, CommitSeedsSeed,
             LoadRulesSeed DEF RunStep
<1>3. CASE DeadlockAbort
  <2>1. CASE \E t \in Tasks : OnCycle(t) /\ AbortTask(t) BY <2>1, AbortSeed
  <2>2. CASE \E r \in Runs : OnCycle(r) /\ FailRun(r) BY <2>2, FailRunSeed
  <2>3. CASE \E s \in deleting :
                /\ deleting' = deleting \ {s}
                /\ UNCHANGED <<seeds, queue, pages, jobs, runVars, taskVars>>
    BY <2>3, SeedKeeps
  <2> QED BY <1>3, <2>1, <2>2, <2>3 DEF DeadlockAbort
<1> QED BY <1>1, <1>2, <1>3, TaskStepSeed, AdminStepSeed DEF Next, Quiescent

(* No row outlives its seed and no page refers to a seed that is gone,     *)
(* whenever a deletion comes between the matching of a link, its insert    *)
(* and its commit.                                                         *)
THEOREM SeedsStay == Spec => []SeedsExist
<1>1. Init => SeedInv
  BY DEF Init, SeedInv, SeedsExist, NoRow, NoPage
<1>2. TypeInv /\ KeyInv /\ DepthInv /\ SeedInv /\ [Next]_vars => SeedInv' BY NextSeed
<1>3. TypeInv /\ KeyInv /\ DepthInv /\ [Next]_vars => DepthInv' BY NextDepth
<1>4. SeedInv => SeedsExist BY DEF SeedInv
<1> QED BY <1>1, <1>2, <1>3, <1>4, InitDepth, TypeCorrect, KeysSafe, PTL DEF Spec

-----------------------------------------------------------------------------
(* What stored pages lead to.                                              *)

Quiet == Environment \cap {"add", "toggle", "delete"} = {}
Active(t) == pc[t] \notin {"unborn", "exited", "gone"}

(* A URL a task need not insert any more: it has, or there is a row.       *)
Settled(t, v) == v \in grown[t] \/ queue[v].status # "none"

(* While nobody edits the seeds every run works with rules for all of      *)
(* them, and a link a task is through with stays settled: what it left to  *)
(* others was in the table, for it waited until they had committed.        *)
LinksSettled ==
    \A t \in Tasks : pc[t] = "expanding" =>
        \A i \in InReach(RunOf[t], claim[t], queue[claim[t]].depth) :
            i \in toLink[t] \/ Settled(t, Links[claim[t]][i])
ExpInv ==
    /\ ExpansionComplete
    /\ EnabledSeeds = Seeds /\ deleting = {}
    /\ \A t \in Tasks : Active(t) => Range(rules[RunOf[t]]) = Seeds
    /\ \A u \in Urls : pages[u].stored => queue[u].status \notin {"none", "pending"}
    /\ LinksSettled

(* Rows come and are closed, and expansions go on.                         *)
LEMMA ExpKeeps ==
    ASSUME ExpInv, Quiet, TypeInv,
           seeds' = seeds, deleting' = deleting, pages' = pages,
           \A u \in Urls : /\ queue[u].status # "none" => queue'[u].status # "none"
                           /\ pages[u].stored => queue'[u] = queue[u],
           \A t \in Tasks : Active(t)' =>
               Active(t) /\ rules'[RunOf[t]] = rules[RunOf[t]],
           \A t \in Tasks : pc'[t] = "expanding" =>
               /\ pc[t] = "expanding" /\ claim'[t] = claim[t]
               /\ queue'[claim[t]].depth = queue[claim[t]].depth
               /\ toLink[t] \subseteq toLink'[t]
               /\ grown[t] \subseteq grown'[t]
    PROVE  ExpInv'
<1>1. EnabledSeeds' = EnabledSeeds BY DEF EnabledSeeds
<1>2. ASSUME NEW u \in Urls, pages'[u].stored, NEW v \in pages'[u].out,
             {s \in EnabledSeeds' : v \in Scope[s]} # {},
             \A s \in {z \in EnabledSeeds' : v \in Scope[z]} : pages'[u].depth < MaxDepth[s]
      PROVE  queue'[v].status # "none"
  <2>1. v \in Urls BY <1>2 DEF TypeInv, TypeOK, Page
  <2>2. queue[v].status # "none" BY <1>1, <1>2 DEF ExpInv, ExpansionComplete, Quiet
  <2> QED BY <2>1, <2>2
<1>3. ExpansionComplete' BY <1>2 DEF ExpansionComplete
<1>4. LinksSettled'
  <2> SUFFICES ASSUME NEW t \in Tasks, pc'[t] = "expanding",
                      NEW i \in InReach(RunOf[t], claim[t], queue[claim[t]].depth)'
               PROVE  i \in toLink'[t] \/ Settled(t, Links[claim[t]][i])'
    BY DEF LinksSettled
  <2>1. Active(t)' BY DEF Active
  <2>2. \A v : Matched(RunOf[t], v)' = Matched(RunOf[t], v) BY <2>1 DEF Matched
  <2>3. i \in InReach(RunOf[t], claim[t], queue[claim[t]].depth)
    <3>1. claim'[t] = claim[t] /\ queue'[claim[t]].depth = queue[claim[t]].depth OBVIOUS
    <3> QED BY <2>2, <3>1 DEF InReach
  <2>4. i \in toLink[t] \/ Settled(t, Links[claim[t]][i])
    BY <2>3 DEF ExpInv, LinksSettled
  <2>5. claim[t] \in Urls BY ClaimType DEF TypeInv
  <2>6. Links[claim[t]][i] \in Urls
    BY <2>3, <2>5, LinksAssumption DEF InReach
  <2> QED BY <2>4, <2>6 DEF Settled
<1> QED BY <1>1, <1>3, <1>4 DEF ExpInv

LEMMA AbortExp ==
    ASSUME ExpInv, Quiet, TypeInv, NEW t \in Tasks, AbortTask(t)
    PROVE  ExpInv'
BY ExpKeeps DEF AbortTask, GoTo, Active, TypeInv, TypeOK

LEMMA RunStepExp ==
    ASSUME ExpInv, KeyInv, Quiet, TypeInv, NEW r \in Runs,
           StartRun(r) \/ RunStep(r) \/ KillRun(r)
    PROVE  ExpInv'
<1>1. CASE StartRun(r) \/ PlantSeed(r) \/ PlantSeedGone(r) \/ FinishRun(r)
  BY <1>1, ExpKeeps DEF StartRun, PlantSeed, PlantSeedGone, FailRun, FinishRun, Active
<1>2. CASE KillRun(r)
  BY <1>2, ExpKeeps DEF KillRun, Stop, Active
<1>3. CASE CommitSeeds(r)
  <2>1. \A u \in Urls : r \notin Holders(u) => queue'[u] = queue[u]
    BY <1>3 DEF CommitSeeds, Holders
  <2>2. \A t \in Tasks : Working(t) => queue'[claim[t]] = queue[claim[t]]
    BY <2>1, OthersKeep, RunsAssumption
  <2>3. \A t \in Tasks : pc[t] = "expanding" => queue'[claim[t]] = queue[claim[t]]
    BY <2>2 DEF TypeInv, TaskShape
  <2>4. \A u \in Urls : u \in RunKeys(r) => queue[u].status = "none"
    BY DEF KeyInv, WritesFitTable
  <2>5. \A u \in Urls : /\ queue[u].status # "none" => queue'[u] = queue[u]
                        /\ pages[u].stored => queue'[u] = queue[u]
    BY <1>3, <2>4 DEF CommitSeeds, ExpInv
  <2>6. /\ seeds' = seeds /\ deleting' = deleting /\ pages' = pages /\ rules' = rules
        /\ pc' = pc /\ claim' = claim /\ toLink' = toLink /\ grown' = grown
    BY <1>3 DEF CommitSeeds
  <2> QED BY <2>3, <2>5, <2>6, ExpKeeps DEF Active
<1>4. CASE LoadRules(r)
  <2>1. PICK q \in Orderings(EnabledSeeds) : rules' = [rules EXCEPT ![r] = q]
    BY <1>4 DEF LoadRules
  <2>2. Range(q) = Seeds BY <2>1 DEF Orderings, ExpInv
  <2>3. rules'[r] = q /\ \A z \in Runs \ {r} : rules'[z] = rules[z]
    BY <2>1 DEF TypeInv, TypeOK
  <2>4. \A t \in Tasks : RunOf[t] # r => pc'[t] = pc[t] /\ rules'[RunOf[t]] = rules[RunOf[t]]
    BY <1>4, <2>3, RunsAssumption DEF LoadRules
  <2>5. \A t \in Tasks : RunOf[t] = r => pc'[t] # "expanding"
    BY <1>4 DEF LoadRules
  <2>6. \A t \in Tasks : Active(t)' => Range(rules'[RunOf[t]]) = Seeds
    BY <2>2, <2>3, <2>4 DEF Active, ExpInv
  <2>7. seeds' = seeds /\ deleting' = deleting /\ pages' = pages /\ queue' = queue
        /\ claim' = claim /\ toLink' = toLink /\ grown' = grown
    BY <1>4 DEF LoadRules
  <2>8. LinksSettled'
    <3> SUFFICES ASSUME NEW t \in Tasks, pc'[t] = "expanding",
                        NEW i \in InReach(RunOf[t], claim[t], queue[claim[t]].depth)'
                 PROVE  i \in toLink[t] \/ Settled(t, Links[claim[t]][i])
      BY <2>7 DEF LinksSettled, Settled
    <3>1. RunOf[t] # r BY <2>5
    <3>2. \A v : Matched(RunOf[t], v)' = Matched(RunOf[t], v)
      BY <2>4, <3>1 DEF Matched
    <3>3. i \in InReach(RunOf[t], claim[t], queue[claim[t]].depth)
      BY <2>7, <3>2 DEF InReach
    <3> QED BY <2>4, <3>1, <3>3 DEF ExpInv, LinksSettled
  <2>9. ExpansionComplete' /\ EnabledSeeds' = EnabledSeeds
    BY <2>7 DEF ExpInv, ExpansionComplete, EnabledSeeds
  <2> QED BY <2>6, <2>7, <2>8, <2>9 DEF ExpInv
<1> QED BY <1>1, <1>2, <1>3, <1>4 DEF RunStep

(* A link that is in the table, or that the task has inserted, needs no    *)
(* second row, whoever inserted it.                                        *)
LEMMA EnqueueLinkExp ==
    ASSUME ExpInv, KeyInv, Quiet, TypeInv, NEW t \in Tasks, EnqueueLink(t)
    PROVE  ExpInv'
<1> DEFINE u == NextLink(t)
<1>1. pc[t] = "expanding" /\ toLink[t] # {} /\ claim[t] \in Urls /\ u \in Urls
  BY NextLinkType, ClaimType DEF EnqueueLink, Expanding, TypeInv
<1>2. /\ seeds' = seeds /\ deleting' = deleting /\ pages' = pages /\ queue' = queue
      /\ claim' = claim /\ rules' = rules /\ pc' = pc
      /\ toLink'[t] = toLink[t] \ {Min(toLink[t])}
      /\ \A z \in Tasks \ {t} : toLink'[z] = toLink[z] /\ grown'[z] = grown[z]
      /\ grown[t] \subseteq grown'[t]
  BY DEF EnqueueLink, TypeInv, TypeOK
<1>3. u \in grown'[t] \/ queue[u].status # "none"
  <2>1. CASE InsertResult(t, u) = "skip"
    <3>1. Holders(u) \subseteq {t} /\ (Holders(u) = {} => queue[u].status # "none")
      BY <2>1 DEF InsertResult
    <3>2. Holders(u) # {} => u \in grown[t] \/ u = claim[t]
      BY <3>1, RunsAssumption DEF Holders, TaskKeys
    <3>3. queue[claim[t]].status # "none"
      BY <1>1, UrlsAssumption DEF KeyInv, WritesFitTable, Working
    <3> QED BY <1>2, <3>1, <3>2, <3>3
  <2>2. CASE grown' = [grown EXCEPT ![t] = @ \cup {u}]
    BY <2>2 DEF TypeInv, TypeOK
  <2> QED BY <2>1, <2>2 DEF EnqueueLink
<1>4. LinksSettled'
  <2> SUFFICES ASSUME NEW z \in Tasks, pc[z] = "expanding",
                      NEW i \in InReach(RunOf[z], claim[z], queue[claim[z]].depth)'
               PROVE  i \in toLink'[z] \/ Settled(z, Links[claim[z]][i])'
    BY <1>2 DEF LinksSettled
  <2>1. i \in InReach(RunOf[z], claim[z], queue[claim[z]].depth)
    BY <1>2 DEF InReach, Matched
  <2>2. i \in toLink[z] \/ Settled(z, Links[claim[z]][i])
    BY <2>1 DEF ExpInv, LinksSettled
  <2>3. CASE z = t /\ i = Min(toLink[t])
    BY <1>2, <1>3, <2>3 DEF NextLink, Settled
  <2>4. CASE ~(z = t /\ i = Min(toLink[t]))
    BY <1>2, <2>2, <2>4 DEF Settled
  <2> QED BY <2>3, <2>4
<1>5. ExpansionComplete' /\ EnabledSeeds' = EnabledSeeds
  BY <1>2 DEF ExpInv, ExpansionComplete, EnabledSeeds
<1> QED BY <1>2, <1>4, <1>5 DEF ExpInv, Active

(* A link that every seed whose scope it is in accepts is in reach,        *)
(* whichever of their rules comes first.                                   *)
LEMMA AcceptedInReach ==
    ASSUME ExpInv, TypeInv, NEW t \in Tasks, Active(t), NEW u \in Urls, NEW d,
           NEW i \in DOMAIN Links[u],
           {s \in Seeds : Links[u][i] \in Scope[s]} # {},
           \A s \in {z \in Seeds : Links[u][i] \in Scope[z]} : ChildDepth(d) <= MaxDepth[s]
    PROVE  i \in InReach(RunOf[t], u, d)
<1> DEFINE r == RunOf[t]
           v == Links[u][i]
           hits == {j \in DOMAIN rules[r] : v \in Scope[rules[r][j]]}
<1>1. r \in Runs /\ rules[r] \in Seq(Seeds) BY RunsAssumption DEF TypeInv, TypeOK
<1>2. PICK s \in Seeds : v \in Scope[s] OBVIOUS
<1>3. Range(rules[r]) = Seeds BY DEF ExpInv
<1>4. PICK j \in DOMAIN rules[r] : rules[r][j] = s BY <1>3 DEF Range
<1>5. hits # {} /\ hits \subseteq Nat BY <1>1, <1>2, <1>4
<1>6. Min(hits) \in hits BY <1>5, MinOfNats
<1>7. rules[r][Min(hits)] \in Seeds
  <2>1. \A k \in DOMAIN rules[r] : rules[r][k] \in Seeds BY <1>1
  <2> QED BY <1>6, <2>1
<1>8. Matched(r, v) = rules[r][Min(hits)] BY <1>5 DEF Matched
<1>9. v \in Scope[Matched(r, v)] BY <1>6, <1>8
<1> QED BY <1>7, <1>8, <1>9, SeedsAssumption DEF InReach

LEMMA CommitPageExp ==
    ASSUME ExpInv, KeyInv, Quiet, TypeInv, NEW t \in Tasks, CommitPage(t)
    PROVE  ExpInv'
<1> DEFINE u == claim[t]
           d == queue[u].depth
<1>1. u \in Urls /\ queue[u] \in Row /\ queue[u].status = "pending"
      /\ pages[u] \in Page /\ u \notin grown[t] /\ pc[t] = "expanding" /\ toLink[t] = {}
  BY ClaimType
  DEF CommitPage, TypeInv, TypeOK, TaskShape, KeyInv, WritesFitTable
<1>2. ~pages[u].stored BY <1>1 DEF ExpInv
<1>3. /\ pages'[u].stored /\ pages'[u].depth = d /\ pages'[u].out = Range(Links[u])
      /\ \A v \in Urls \ {u} : pages'[v] = pages[v]
      /\ seeds' = seeds /\ deleting' = deleting /\ rules' = rules
  BY <1>1, <1>2 DEF CommitPage, TypeInv, TypeOK
<1>4. queue'[u].status = "done"
  <2>1. queue'[u] = [queue[u] EXCEPT !.status = "done", !.err = FALSE]
    BY <1>1 DEF CommitPage
  <2> QED BY <1>1, <2>1 DEF Row
<1>5. \A v \in Urls : v # u /\ v \notin grown[t] => queue'[v] = queue[v]
  BY DEF CommitPage
<1>6. \A v \in grown[t] : queue'[v].status = "pending" /\ queue[v].status = "none"
  BY <1>1 DEF CommitPage, NewRow, TypeInv, TypeOK, KeyInv, WritesFitTable
<1>7. \A v \in Urls : Settled(t, v) => queue'[v].status # "none"
  BY <1>4, <1>5, <1>6 DEF Settled
<1>8. \A v \in Urls : queue[v].status # "none" => queue'[v].status # "none"
  BY <1>4, <1>5, <1>6
<1>9. EnabledSeeds' = Seeds /\ EnabledSeeds = Seeds BY <1>3 DEF EnabledSeeds, ExpInv
<1>10. ExpansionComplete'
  <2> SUFFICES ASSUME NEW w \in Urls, pages'[w].stored, NEW v \in pages'[w].out,
                      {s \in Seeds : v \in Scope[s]} # {},
                      \A s \in {z \in Seeds : v \in Scope[z]} : pages'[w].depth < MaxDepth[s]
               PROVE  queue'[v].status # "none"
    BY <1>9 DEF ExpansionComplete
  <2>1. CASE w = u
    <3>1. PICK i \in DOMAIN Links[u] : v = Links[u][i]
      BY <1>3, <2>1 DEF Range
    <3>2. \A s \in {z \in Seeds : v \in Scope[z]} : ChildDepth(d) <= MaxDepth[s]
      BY <1>1, <1>3, <2>1, SeedsAssumption DEF Row, ChildDepth
    <3>3. i \in InReach(RunOf[t], u, d)
      BY <1>1, <3>1, <3>2, AcceptedInReach DEF Active
    <3>4. Settled(t, v) BY <1>1, <3>1, <3>3 DEF ExpInv, LinksSettled
    <3>5. v \in Urls BY <1>1, <3>1, LinksAssumption
    <3> QED BY <1>7, <3>4, <3>5
  <2>2. CASE w # u
    <3>1. pages'[w] = pages[w] BY <1>3, <2>2
    <3>2. v \in Urls BY <3>1 DEF TypeInv, TypeOK, Page
    <3>3. queue[v].status # "none"
      BY <1>9, <3>1 DEF ExpInv, ExpansionComplete, Quiet
    <3> QED BY <1>8, <3>2, <3>3
  <2> QED BY <2>1, <2>2
<1>11. /\ pc'[t] = "countOk"
       /\ \A z \in Tasks \ {t} : pc'[z] = pc[z] /\ claim'[z] = claim[z]
                                 /\ toLink'[z] = toLink[z] /\ grown'[z] = grown[z]
  BY DEF CommitPage, GoTo, TypeInv, TypeOK
<1>12. LinksSettled'
  <2>1. \A v \in Urls : t \notin Holders(v) => queue'[v] = queue[v]
    BY <1>1, <1>5, UrlsAssumption DEF Holders, TaskKeys
  <2>2. \A z \in Tasks : z # t /\ Working(z) => queue'[claim[z]] = queue[claim[z]]
    BY <2>1, OthersKeep
  <2> SUFFICES ASSUME NEW z \in Tasks, pc'[z] = "expanding",
                      NEW i \in InReach(RunOf[z], claim[z], queue[claim[z]].depth)'
               PROVE  i \in toLink'[z] \/ Settled(z, Links[claim[z]][i])'
    BY DEF LinksSettled
  <2>3. z # t /\ pc[z] = "expanding" /\ claim'[z] = claim[z] /\ toLink'[z] = toLink[z]
        /\ grown'[z] = grown[z]
    BY <1>11
  <2>4. claim[z] \in Urls /\ queue'[claim[z]] = queue[claim[z]]
    BY <2>2, <2>3, ClaimType DEF TypeInv, TaskShape
  <2>5. i \in InReach(RunOf[z], claim[z], queue[claim[z]].depth)
    <3>1. \A v : Matched(RunOf[z], v)' = Matched(RunOf[z], v) BY <1>3 DEF Matched
    <3> QED BY <2>3, <2>4, <3>1 DEF InReach
  <2>6. i \in toLink[z] \/ Settled(z, Links[claim[z]][i])
    BY <2>3, <2>5 DEF ExpInv, LinksSettled
  <2>7. Links[claim[z]][i] \in Urls
    BY <2>4, <2>5, LinksAssumption DEF InReach
  <2> QED BY <1>8, <2>3, <2>6, <2>7 DEF Settled
<1>13. \A v \in Urls : pages'[v].stored => queue'[v].status \notin {"none", "pending"}
  BY <1>3, <1>4, <1>5, <1>6 DEF ExpInv
<1>14. \A z \in Tasks : Active(z)' => Range(rules'[RunOf[z]]) = Seeds
  BY <1>1, <1>3, <1>11 DEF ExpInv, Active
<1> QED BY <1>3, <1>9, <1>10, <1>12, <1>13, <1>14 DEF ExpInv

LEMMA TaskStepExp ==
    ASSUME ExpInv, KeyInv, Quiet, TypeInv, NEW t \in Tasks,
           TaskStep(t) \/ RaiseInTask(t) \/ CancelTask(t)
    PROVE  ExpInv'
<1>1. CASE RaiseInTask(t) \/ LinkSeedGone(t)
  BY <1>1, AbortExp DEF RaiseInTask, LinkSeedGone
<1>2. CASE CancelTask(t)
  BY <1>2, ExpKeeps DEF CancelTask, Stop, Active
<1>3. CASE ClaimRow(t) \/ FindNothing(t) \/ FetchPage(t) \/ Count(t)
  <2>1. PICK place \in {"fetching", "exited", "storing", "claiming"} : pc' = [pc EXCEPT ![t] = place]
    BY <1>3 DEF ClaimRow, FindNothing, FetchPage, Count, GoTo
  <2>2. Active(t) BY <1>3 DEF ClaimRow, FindNothing, FetchPage, Count, Active
  <2>3. pc'[t] # "expanding" /\ \A z \in Tasks \ {t} : pc'[z] = pc[z]
    BY <2>1 DEF TypeInv, TypeOK
  <2>4. \A z \in Tasks \ {t} : claim'[z] = claim[z]
    BY <1>3 DEF ClaimRow, FindNothing, FetchPage, Count, TypeInv, TypeOK
  <2>5. /\ seeds' = seeds /\ deleting' = deleting /\ pages' = pages /\ queue' = queue
        /\ rules' = rules /\ toLink' = toLink /\ grown' = grown
    BY <1>3 DEF ClaimRow, FindNothing, FetchPage, Count
  <2> QED BY <2>2, <2>3, <2>4, <2>5, ExpKeeps DEF Active
<1>4. CASE CloseUnindexed(t)
  <2>1. claim[t] \in Urls /\ queue[claim[t]] \in Row /\ queue[claim[t]].status = "pending"
    BY <1>4, ClaimType DEF CloseUnindexed, TypeInv, KeyInv, WritesFitTable, TaskShape
  <2>2. PICK st \in {"done", "error"} :
            queue' = [queue EXCEPT ![claim[t]].err = TRUE, ![claim[t]].status = st]
    BY <1>4 DEF CloseUnindexed
  <2>3. \A u \in Urls : /\ queue'[u].depth = queue[u].depth
                        /\ queue[u].status # "none" => queue'[u].status # "none"
                        /\ u # claim[t] => queue'[u] = queue[u]
    BY <2>1, <2>2 DEF TypeInv, TypeOK, Row
  <2>4. ~pages[claim[t]].stored BY <2>1 DEF ExpInv
  <2>5. /\ seeds' = seeds /\ deleting' = deleting /\ pages' = pages /\ rules' = rules
        /\ toLink' = toLink /\ grown' = grown /\ pc[t] = "fetching"
        /\ \A z \in Tasks \ {t} : claim'[z] = claim[z] /\ pc'[z] = pc[z]
        /\ pc'[t] = "countErr"
    BY <1>4 DEF CloseUnindexed, GoTo, TypeInv, TypeOK
  <2>6. \A z \in Tasks : pc[z] = "expanding" => claim[z] \in Urls
    BY ClaimType DEF TypeInv
  <2> QED BY <2>3, <2>4, <2>5, <2>6, ExpKeeps DEF Active
<1>5. CASE StorePage(t)
  <2>1. /\ seeds' = seeds /\ deleting' = deleting /\ pages' = pages /\ queue' = queue
        /\ rules' = rules /\ claim' = claim /\ grown' = grown /\ pc[t] = "storing"
        /\ toLink'[t] = InReach(RunOf[t], claim[t], queue[claim[t]].depth)
        /\ \A z \in Tasks \ {t} : toLink'[z] = toLink[z] /\ pc'[z] = pc[z]
    BY <1>5 DEF StorePage, GoTo, TypeInv, TypeOK
  <2>2. \A z \in Tasks : InReach(RunOf[z], claim[z], queue[claim[z]].depth)'
                         = InReach(RunOf[z], claim[z], queue[claim[z]].depth)
    BY <2>1 DEF InReach, Matched
  <2>3. LinksSettled' BY <2>1, <2>2 DEF ExpInv, LinksSettled, Settled
  <2>4. ExpansionComplete' /\ EnabledSeeds' = EnabledSeeds
    BY <2>1 DEF ExpInv, ExpansionComplete, EnabledSeeds
  <2> QED BY <2>1, <2>3, <2>4 DEF ExpInv, Active
<1>6. CASE EnqueueLink(t) BY <1>6, EnqueueLinkExp
<1>7. CASE CommitPage(t) BY <1>7, CommitPageExp
<1> QED BY <1>1, <1>2, <1>3, <1>4, <1>5, <1>6, <1>7 DEF TaskStep

LEMMA NextExp ==
    ASSUME ExpInv, KeyInv, Quiet, TypeInv, [Next]_vars
    PROVE  ExpInv'
<1>1. CASE UNCHANGED vars BY <1>1, ExpKeeps DEF vars, Active
<1>2. ASSUME NEW s \in Seeds, AdminStep(s) PROVE ExpInv'
  BY <1>2 DEF AdminStep, AddSeed, ToggleSeed, DeleteBegin, DeleteFinish, Quiet, ExpInv
<1>3. CASE DeadlockAbort
  <2>1. CASE \E t \in Tasks : OnCycle(t) /\ AbortTask(t) BY <2>1, AbortExp
  <2>2. CASE \E r \in Runs : OnCycle(r) /\ FailRun(r)
    BY <2>2, ExpKeeps DEF FailRun, Active
  <2> QED BY <1>3, <2>1, <2>2 DEF DeadlockAbort, ExpInv
<1> QED BY <1>1, <1>2, <1>3, RunStepExp, TaskStepExp DEF Next, Quiescent

(* The links of a stored page are never lost to a conflict with another    *)
(* transaction, were it to fail later: unless somebody edits the seeds, a  *)
(* link that every matching seed accepts has its row with the page.        *)
THEOREM LinksFollow == Spec => []ExpansionComplete
<1>1. Init /\ Quiet => ExpInv
  BY DEF Init, Quiet, ExpInv, ExpansionComplete, EnabledSeeds, Active, LinksSettled, NoPage
<1>2. TypeInv /\ KeyInv /\ (Quiet => ExpInv) /\ [Next]_vars => (Quiet => ExpInv)'
  BY NextExp DEF Quiet
<1>3. (Quiet => ExpInv) => ExpansionComplete BY DEF Quiet, ExpInv, ExpansionComplete
<1>4. Init => (Quiet => ExpInv) BY <1>1
<1> QED BY <1>2, <1>3, <1>4, TypeCorrect, KeysSafe, PTL DEF Spec

-----------------------------------------------------------------------------
(* What the runs count is what the table shows.                            *)

Good == {u \in Urls : queue[u].status = "done" /\ ~queue[u].err}
Bad == {u \in Urls : queue[u].err}

(* Tasks that have committed a page and have yet to count it.              *)
At(place) == {t \in Tasks : pc[t] = place}

(* No run was cut short: those that are leave pages uncounted.             *)
AllWell == \A r \in Runs : phase[r] \notin {"failed", "killed"}

(* The pages the runs have counted and those their tasks are about to      *)
(* count are the rows that are closed.                                     *)
Balance(n, place, rows) ==
    /\ IsFiniteSet(Counted(n)) /\ IsFiniteSet(rows)
    /\ Cardinality(Counted(n)) + Cardinality(At(place)) = Cardinality(rows)

TotalInv ==
    /\ deleting = {}
    /\ \A u \in Urls : queue[u].status \in {"none", "pending"} => ~queue[u].err
    /\ AllWell =>
          /\ Balance(crawled, "countOk", Good)
          /\ Balance(errors, "countErr", Bad)
    /\ \A r \in Runs : phase[r] = "finished" =>
          jobs[r].pages = crawled[r] /\ jobs[r].errors = errors[r]

(* Counting one more adds one.                                             *)
LEMMA CountedMore ==
    ASSUME NEW n \in [Runs -> Nat], NEW r \in Runs, IsFiniteSet(Counted(n))
    PROVE  /\ IsFiniteSet(Counted([n EXCEPT ![r] = @ + 1]))
           /\ Cardinality(Counted([n EXCEPT ![r] = @ + 1])) = Cardinality(Counted(n)) + 1
<1> DEFINE m == [n EXCEPT ![r] = @ + 1]
<1>1. \A z \in Runs : n[z] \in Nat /\ m[z] = IF z = r THEN n[z] + 1 ELSE n[z] OBVIOUS
<1>2. 1..n[r] + 1 = 1..n[r] \cup {n[r] + 1} BY <1>1
<1> HIDE DEF m
<1>3. \A z \in Runs : {z} \X (1..m[z]) =
          IF z = r THEN ({z} \X (1..n[z])) \cup {<<r, n[r] + 1>>} ELSE {z} \X (1..n[z])
  BY <1>1, <1>2
<1>4. Counted(m) = Counted(n) \cup {<<r, n[r] + 1>>} BY <1>3 DEF Counted
<1>5. <<r, n[r] + 1>> \notin Counted(n)
  <2> SUFFICES ASSUME <<r, n[r] + 1>> \in Counted(n) PROVE FALSE OBVIOUS
  <2>1. PICK z \in Runs : <<r, n[r] + 1>> \in {z} \X (1..n[z]) BY DEF Counted
  <2>2. z = r /\ n[r] + 1 \in 1..n[r] BY <2>1
  <2> QED BY <1>1, <2>2
<1>6. IsFiniteSet(Counted(m)) /\ Cardinality(Counted(m)) = Cardinality(Counted(n)) + 1
  BY <1>4, <1>5, FS_AddElement
<1> QED BY <1>6 DEF m

(* One task more, or less, in a place.                                     *)
LEMMA AtMore ==
    ASSUME NEW place, NEW t \in Tasks, t \notin At(place), At(place)' = At(place) \cup {t}
    PROVE  Cardinality(At(place)') = Cardinality(At(place)) + 1
<1>1. IsFiniteSet(At(place)) BY RunsAssumption, FS_Subset DEF At
<1> QED BY <1>1, FS_AddElement

LEMMA AtNumber ==
    ASSUME NEW place
    PROVE  Cardinality(At(place)) \in Nat /\ Cardinality(At(place)') \in Nat
<1>1. At(place) \subseteq Tasks /\ At(place)' \subseteq Tasks BY DEF At
<1> QED BY <1>1, RunsAssumption, FS_Subset, FS_CardinalityType

(* A page is committed.                                                    *)
LEMMA BalanceCommits ==
    ASSUME NEW n, NEW m, m = n, NEW place, NEW rows, NEW more, NEW u, NEW t \in Tasks,
           Balance(n, place, rows),
           t \notin At(place), At(place)' = At(place) \cup {t},
           u \notin rows, more = rows \cup {u}
    PROVE  /\ IsFiniteSet(Counted(m)) /\ IsFiniteSet(more)
           /\ Cardinality(Counted(m)) + Cardinality(At(place)') = Cardinality(more)
<1>1. Cardinality(At(place)') = Cardinality(At(place)) + 1 BY AtMore
<1>2. IsFiniteSet(more) /\ Cardinality(more) = Cardinality(rows) + 1
  BY FS_AddElement DEF Balance
<1>3. Cardinality(Counted(n)) \in Nat /\ Cardinality(rows) \in Nat /\ Cardinality(At(place)) \in Nat
  BY FS_CardinalityType, AtNumber DEF Balance
<1> QED BY <1>1, <1>2, <1>3 DEF Balance

(* A page is counted.                                                      *)
LEMMA BalanceCounts ==
    ASSUME NEW n \in [Runs -> Nat], NEW r \in Runs, NEW place, NEW rows, NEW t \in Tasks,
           Balance(n, place, rows),
           t \notin At(place)', At(place) = At(place)' \cup {t}
    PROVE  /\ IsFiniteSet(Counted([n EXCEPT ![r] = @ + 1])) /\ IsFiniteSet(rows)
           /\ Cardinality(Counted([n EXCEPT ![r] = @ + 1])) + Cardinality(At(place)')
                 = Cardinality(rows)
<1>1. At(place)' \subseteq Tasks BY DEF At
<1>2. IsFiniteSet(At(place)') BY <1>1, RunsAssumption, FS_Subset
<1>3. Cardinality(At(place)) = Cardinality(At(place)') + 1 BY <1>2, FS_AddElement
<1>4. /\ IsFiniteSet(Counted([n EXCEPT ![r] = @ + 1]))
      /\ Cardinality(Counted([n EXCEPT ![r] = @ + 1])) = Cardinality(Counted(n)) + 1
  BY CountedMore DEF Balance
<1>5. Cardinality(Counted(n)) \in Nat /\ Cardinality(At(place)') \in Nat
  BY FS_CardinalityType, AtNumber DEF Balance
<1> QED BY <1>3, <1>4, <1>5 DEF Balance

(* Most steps commit no page and count none.                               *)
LEMMA TotalKeeps ==
    ASSUME TotalInv, deleting' = deleting, AllWell' => AllWell,
           crawled' = crawled, errors' = errors,
           \A u \in Urls :
              \/ queue'[u] = queue[u]
              \/ queue[u].status = "none" /\ queue'[u].status = "pending" /\ ~queue'[u].err,
           \A u \in Urls : queue[u].status = "none" => ~queue[u].err,
           \A t \in Tasks : /\ pc'[t] = "countOk" <=> pc[t] = "countOk"
                            /\ pc'[t] = "countErr" <=> pc[t] = "countErr",
           \A r \in Runs : phase'[r] = "finished" =>
              jobs'[r].pages = crawled[r] /\ jobs'[r].errors = errors[r]
    PROVE  TotalInv'
<1>1. Good' = Good BY DEF Good
<1>2. Bad' = Bad BY DEF Bad
<1>3. At("countOk")' = At("countOk") /\ At("countErr")' = At("countErr") BY DEF At
<1>4. Balance(crawled, "countOk", Good) => Balance(crawled, "countOk", Good)'
  BY <1>1, <1>3 DEF Balance
<1>5. Balance(errors, "countErr", Bad) => Balance(errors, "countErr", Bad)'
  BY <1>2, <1>3 DEF Balance
<1>6. \A u \in Urls : queue'[u].status \in {"none", "pending"} => ~queue'[u].err
  BY DEF TotalInv
<1> QED BY <1>4, <1>5, <1>6 DEF TotalInv

(* Steps that leave crawl_queue alone.                                     *)
LEMMA TotalSame ==
    ASSUME TotalInv, deleting' = deleting, queue' = queue, AllWell' => AllWell,
           crawled' = crawled, errors' = errors,
           \A t \in Tasks : /\ pc'[t] = "countOk" <=> pc[t] = "countOk"
                            /\ pc'[t] = "countErr" <=> pc[t] = "countErr",
           \A r \in Runs : phase'[r] = "finished" =>
              jobs'[r].pages = crawled[r] /\ jobs'[r].errors = errors[r]
    PROVE  TotalInv'
<1>1. Good' = Good /\ Bad' = Bad BY DEF Good, Bad
<1>2. At("countOk")' = At("countOk") /\ At("countErr")' = At("countErr") BY DEF At
<1>3. Balance(crawled, "countOk", Good) => Balance(crawled, "countOk", Good)'
  BY <1>1, <1>2 DEF Balance
<1>4. Balance(errors, "countErr", Bad) => Balance(errors, "countErr", Bad)'
  BY <1>1, <1>2 DEF Balance
<1> QED BY <1>3, <1>4 DEF TotalInv

(* Steps that finish nothing either.                                       *)
LEMMA TotalStays ==
    ASSUME TotalInv, deleting' = deleting, queue' = queue, jobs' = jobs, phase' = phase,
           crawled' = crawled, errors' = errors,
           \A t \in Tasks : /\ pc'[t] = "countOk" <=> pc[t] = "countOk"
                            /\ pc'[t] = "countErr" <=> pc[t] = "countErr"
    PROVE  TotalInv'
<1>1. \A r \in Runs : phase'[r] = "finished" =>
              jobs'[r].pages = crawled[r] /\ jobs'[r].errors = errors[r]
  BY DEF TotalInv
<1>2. AllWell' => AllWell BY DEF AllWell
<1> QED BY <1>1, <1>2, TotalSame

(* Once a run has been cut short nothing is said of the totals.            *)
LEMMA TotalGivenUp ==
    ASSUME TotalInv, deleting' = deleting, queue' = queue, jobs' = jobs,
           crawled' = crawled, errors' = errors, ~AllWell',
           \A r \in Runs : phase'[r] = "finished" => phase[r] = "finished"
    PROVE  TotalInv'
BY DEF TotalInv


LEMMA AbortTotal ==
    ASSUME TotalInv, TypeInv, OverInv, NEW t \in Tasks, AbortTask(t),
           pc[t] \notin {"unborn", "exited"}
    PROVE  TotalInv'
<1>1. RunOf[t] \in Runs /\ phase[RunOf[t]] \notin {"idle", "seeding", "loading", "finished"}
  BY RunsAssumption DEF OverInv, AllExited, TasksOf, TypeInv, RunShape
<1>2. phase[RunOf[t]] \in {"running", "failed", "killed"}
  BY <1>1 DEF TypeInv, TypeOK, Phases
<1>3. phase'[RunOf[t]] \in {"failed", "killed"}
  BY <1>1, <1>2 DEF AbortTask, TypeInv, TypeOK
<1>4. ~AllWell' BY <1>1, <1>3 DEF AllWell
<1>5. \A r \in Runs : phase'[r] = "finished" => phase[r] = "finished"
  BY DEF AbortTask, TypeInv, TypeOK
<1> QED BY <1>4, <1>5, TotalGivenUp DEF AbortTask

LEMMA FailRunTotal ==
    ASSUME TotalInv, TypeInv, NEW r \in Runs, FailRun(r)
    PROVE  TotalInv'
<1>1. phase' = [phase EXCEPT ![r] = "failed"] BY DEF FailRun
<1>2. ~AllWell' BY <1>1 DEF AllWell, TypeInv, TypeOK
<1>3. \A z \in Runs : phase'[z] = "finished" => phase[z] = "finished"
  BY <1>1 DEF TypeInv, TypeOK
<1> QED BY <1>2, <1>3, TotalGivenUp DEF FailRun

LEMMA RunStepTotal ==
    ASSUME TotalInv, TypeInv, KeyInv, NEW r \in Runs,
           StartRun(r) \/ RunStep(r) \/ KillRun(r)
    PROVE  TotalInv'
<1>0. \A u \in Urls : queue[u].status = "none" => ~queue[u].err BY DEF TotalInv
<1>a. AllWell' => AllWell
  <2>1. \A z \in Runs : phase[z] \in {"failed", "killed"} => phase'[z] \in {"failed", "killed"}
    BY DEF StartRun, RunStep, PlantSeed, PlantSeedGone, Planting, FailRun, CommitSeeds,
           LoadRules, FinishRun, KillRun, TypeInv, TypeOK
  <2> QED BY <2>1 DEF AllWell
<1>b. crawled' = crawled /\ errors' = errors /\ deleting' = deleting
  BY DEF StartRun, RunStep, PlantSeed, PlantSeedGone, Planting, FailRun, CommitSeeds,
         LoadRules, FinishRun, KillRun
<1>1. CASE StartRun(r) \/ PlantSeed(r)
  <2>1. \A z \in Runs : phase'[z] = "finished" =>
            jobs'[z].pages = crawled[z] /\ jobs'[z].errors = errors[z]
    BY <1>1 DEF StartRun, PlantSeed, TotalInv, TypeInv, TypeOK
  <2>2. UNCHANGED <<queue, pc>> BY <1>1 DEF StartRun, PlantSeed
  <2> QED BY <1>a, <1>b, <2>1, <2>2, TotalSame
<1>2. CASE PlantSeedGone(r) BY <1>2, FailRunTotal DEF PlantSeedGone
<1>3. CASE CommitSeeds(r)
  <2>1. \A z \in Runs : phase'[z] = "finished" =>
            jobs'[z].pages = crawled[z] /\ jobs'[z].errors = errors[z]
    BY <1>3 DEF CommitSeeds, TotalInv, TypeInv, TypeOK
  <2>2. \A u \in Urls :
          \/ queue'[u] = queue[u]
          \/ queue[u].status = "none" /\ queue'[u].status = "pending" /\ ~queue'[u].err
    <3> SUFFICES ASSUME NEW u \in Urls
                 PROVE  \/ queue'[u] = queue[u]
                        \/ /\ queue[u].status = "none"
                           /\ queue'[u].status = "pending" /\ ~queue'[u].err
      OBVIOUS
    <3>1. CASE u \in RunKeys(r)
      <4>1. queue[u].status = "none" BY <3>1 DEF KeyInv, WritesFitTable
      <4>2. queue'[u] = NewRow(0, CHOOSE s \in planted[r] : SeedUrl[s] = u)
        BY <1>3, <3>1 DEF CommitSeeds
      <4> QED BY <4>1, <4>2 DEF NewRow
    <3>2. CASE u \notin RunKeys(r)
      <4>1. queue'[u] = queue[u] BY <1>3, <3>2 DEF CommitSeeds
      <4> QED BY <4>1
    <3> QED BY <3>1, <3>2
  <2>3. pc' = pc BY <1>3 DEF CommitSeeds
  <2> QED BY <1>0, <1>a, <1>b, <2>1, <2>2, <2>3, TotalKeeps
<1>4. CASE LoadRules(r)
  <2>1. \A z \in Runs : phase'[z] = "finished" =>
            jobs'[z].pages = crawled[z] /\ jobs'[z].errors = errors[z]
    BY <1>4 DEF LoadRules, TotalInv, TypeInv, TypeOK
  <2>2. \A t \in Tasks : RunOf[t] = r => pc[t] = "unborn"
    BY <1>4 DEF LoadRules, TypeInv, RunShape, TasksOf
  <2>3. \A t \in Tasks : /\ pc'[t] = "countOk" <=> pc[t] = "countOk"
                         /\ pc'[t] = "countErr" <=> pc[t] = "countErr"
    BY <1>4, <2>2 DEF LoadRules
  <2>4. queue' = queue BY <1>4 DEF LoadRules
  <2> QED BY <1>a, <1>b, <2>1, <2>3, <2>4, TotalSame
<1>5. CASE FinishRun(r)
  <2>1. \A z \in Runs : phase'[z] = "finished" =>
            jobs'[z].pages = crawled[z] /\ jobs'[z].errors = errors[z]
    BY <1>5 DEF FinishRun, TotalInv, TypeInv, TypeOK
  <2>2. UNCHANGED <<queue, pc>> BY <1>5 DEF FinishRun
  <2> QED BY <1>a, <1>b, <2>1, <2>2, TotalSame
<1>6. CASE KillRun(r)
  <2>1. ~AllWell' BY <1>6 DEF KillRun, AllWell, TypeInv, TypeOK
  <2>2. \A z \in Runs : phase'[z] = "finished" => phase[z] = "finished"
    BY <1>6 DEF KillRun, TypeInv, TypeOK
  <2> QED BY <1>6, <1>b, <2>1, <2>2, TotalGivenUp DEF KillRun
<1> QED BY <1>1, <1>2, <1>3, <1>4, <1>5, <1>6 DEF RunStep

(* A row is closed with an error, or as a page: it was pending.            *)
LEMMA CloseTotal ==
    ASSUME TotalInv, TypeInv, KeyInv, NEW t \in Tasks, CloseUnindexed(t)
    PROVE  TotalInv'
<1> DEFINE u == claim[t]
<1>1. u \in Urls /\ queue[u].status = "pending" /\ ~queue[u].err
  BY ClaimType DEF CloseUnindexed, TypeInv, TaskShape, KeyInv, WritesFitTable, TotalInv
<1>2. PICK how \in {"blocked", "error"} :
          queue' = [queue EXCEPT ![u].err = TRUE,
                      ![u].status = IF how = "blocked" THEN "done" ELSE "error"]
  BY DEF CloseUnindexed
<1>3. queue[u] \in Row BY <1>1 DEF TypeInv, TypeOK
<1>4. /\ queue'[u].err = TRUE /\ queue'[u].status \in {"done", "error"}
      /\ \A v \in Urls \ {u} : queue'[v] = queue[v]
  BY <1>1, <1>2, <1>3 DEF TypeInv, TypeOK, Row
<1>5. Good' = Good BY <1>1, <1>4 DEF Good
<1>6. u \notin Bad /\ Bad' = Bad \cup {u} BY <1>1, <1>4 DEF Bad
<1>7. /\ t \notin At("countErr") /\ At("countErr")' = At("countErr") \cup {t}
      /\ At("countOk")' = At("countOk")
  BY DEF CloseUnindexed, GoTo, At, TypeInv, TypeOK
<1>8. UNCHANGED <<phase, deleting, jobs, crawled, errors>> BY DEF CloseUnindexed
<1>9. \A v \in Urls : queue'[v].status \in {"none", "pending"} => ~queue'[v].err
  BY <1>4 DEF TotalInv
<1>10. Balance(crawled, "countOk", Good) => Balance(crawled, "countOk", Good)'
  BY <1>5, <1>7, <1>8 DEF Balance
<1>11. ASSUME Balance(errors, "countErr", Bad) PROVE Balance(errors, "countErr", Bad)'
  <2>1. /\ IsFiniteSet(Counted(errors')) /\ IsFiniteSet(Bad')
        /\ Cardinality(Counted(errors')) + Cardinality(At("countErr")') = Cardinality(Bad')
    BY <1>6, <1>7, <1>8, <1>11, BalanceCommits
  <2> QED BY <2>1 DEF Balance, Counted
<1> QED BY <1>8, <1>9, <1>10, <1>11 DEF TotalInv, AllWell

LEMMA CommitPageTotal ==
    ASSUME TotalInv, TypeInv, KeyInv, NEW t \in Tasks, CommitPage(t)
    PROVE  TotalInv'
<1> DEFINE u == claim[t]
<1>1. u \in Urls /\ queue[u].status = "pending" /\ ~queue[u].err
  BY ClaimType DEF CommitPage, TypeInv, TaskShape, KeyInv, WritesFitTable, TotalInv
<1>2. \A v \in grown[t] : v # u /\ queue[v].status = "none"
  BY <1>1 DEF KeyInv, WritesFitTable
<1>3. queue[u] \in Row BY <1>1 DEF TypeInv, TypeOK
<1>4. /\ queue'[u].status = "done" /\ queue'[u].err = FALSE
      /\ \A v \in Urls \ {u} :
            IF v \in grown[t] THEN queue'[v].status = "pending" /\ ~queue'[v].err
                              ELSE queue'[v] = queue[v]
  <2>1. ASSUME NEW v \in Urls
        PROVE  /\ v = u => queue'[v].status = "done" /\ queue'[v].err = FALSE
               /\ v # u /\ v \in grown[t] => queue'[v].status = "pending" /\ ~queue'[v].err
               /\ v # u /\ v \notin grown[t] => queue'[v] = queue[v]
    <3>1. CASE v = u
      <4>1. queue'[v] = [queue[v] EXCEPT !.status = "done", !.err = FALSE]
        BY <1>1, <1>2, <3>1 DEF CommitPage
      <4> QED BY <1>3, <3>1, <4>1 DEF Row
    <3>2. CASE v # u /\ v \in grown[t]
      <4>1. queue'[v] = NewRow(ChildDepth(queue[u].depth), Matched(RunOf[t], v))
        BY <3>2 DEF CommitPage
      <4> QED BY <3>2, <4>1 DEF NewRow
    <3>3. CASE v # u /\ v \notin grown[t] BY <3>3 DEF CommitPage
    <3> QED BY <3>1, <3>2, <3>3
  <2> QED BY <1>1, <2>1
<1>5. u \notin Good /\ Good' = Good \cup {u} BY <1>1, <1>2, <1>4 DEF Good
<1>6. Bad' = Bad BY <1>1, <1>2, <1>4 DEF Bad, TotalInv
<1>7. /\ t \notin At("countOk") /\ At("countOk")' = At("countOk") \cup {t}
      /\ At("countErr")' = At("countErr")
  BY DEF CommitPage, GoTo, At, TypeInv, TypeOK
<1>8. UNCHANGED <<phase, deleting, jobs, crawled, errors>> BY DEF CommitPage
<1>9. \A v \in Urls : queue'[v].status \in {"none", "pending"} => ~queue'[v].err
  BY <1>4 DEF TotalInv
<1>10. Balance(errors, "countErr", Bad) => Balance(errors, "countErr", Bad)'
  BY <1>6, <1>7, <1>8 DEF Balance
<1>11. ASSUME Balance(crawled, "countOk", Good) PROVE Balance(crawled, "countOk", Good)'
  <2>1. /\ IsFiniteSet(Counted(crawled')) /\ IsFiniteSet(Good')
        /\ Cardinality(Counted(crawled')) + Cardinality(At("countOk")') = Cardinality(Good')
    BY <1>5, <1>7, <1>8, <1>11, BalanceCommits
  <2> QED BY <2>1 DEF Balance, Counted
<1> QED BY <1>8, <1>9, <1>10, <1>11 DEF TotalInv, AllWell

(* A page is counted, in one of the two counters.                          *)
LEMMA CountTotal ==
    ASSUME TotalInv, TypeInv, OverInv, NEW t \in Tasks, Count(t)
    PROVE  TotalInv'
<1> DEFINE r == RunOf[t]
<1>1. r \in Runs /\ phase[r] # "finished"
  BY RunsAssumption DEF Count, OverInv, AllExited, TasksOf
<1>2. crawled \in [Runs -> Nat] /\ errors \in [Runs -> Nat] BY DEF TypeInv, TypeOK
<1>3. UNCHANGED <<phase, deleting, jobs, queue>> BY DEF Count
<1>4. Good' = Good /\ Bad' = Bad BY <1>3 DEF Good, Bad
<1>5. \A z \in Runs : phase'[z] = "finished" =>
          jobs'[z].pages = crawled'[z] /\ jobs'[z].errors = errors'[z]
  BY <1>1, <1>2, <1>3 DEF Count, TotalInv
<1>6. pc'[t] \notin {"countOk", "countErr"} /\ \A z \in Tasks \ {t} : pc'[z] = pc[z]
  BY DEF Count, GoTo, TypeInv, TypeOK
<1>7. CASE pc[t] = "countOk"
  <2>1. crawled' = [crawled EXCEPT ![r] = @ + 1] /\ errors' = errors
    BY <1>1, <1>2, <1>7 DEF Count
  <2>2. /\ t \notin At("countOk")' /\ At("countOk") = At("countOk")' \cup {t}
        /\ At("countErr")' = At("countErr")
    BY <1>6, <1>7 DEF At
  <2>3. Balance(errors, "countErr", Bad) => Balance(errors, "countErr", Bad)'
    BY <1>4, <2>1, <2>2 DEF Balance
  <2>4. ASSUME Balance(crawled, "countOk", Good) PROVE Balance(crawled, "countOk", Good)'
    <3>1. /\ IsFiniteSet(Counted(crawled')) /\ IsFiniteSet(Good)
          /\ Cardinality(Counted(crawled')) + Cardinality(At("countOk")') = Cardinality(Good)
      BY <1>1, <1>2, <2>1, <2>2, <2>4, BalanceCounts
    <3> QED BY <1>4, <3>1 DEF Balance, Counted
  <2> QED BY <1>3, <1>5, <2>3, <2>4 DEF TotalInv, AllWell
<1>8. CASE pc[t] = "countErr"
  <2>1. errors' = [errors EXCEPT ![r] = @ + 1] /\ crawled' = crawled
    BY <1>1, <1>2, <1>8 DEF Count
  <2>2. /\ t \notin At("countErr")' /\ At("countErr") = At("countErr")' \cup {t}
        /\ At("countOk")' = At("countOk")
    BY <1>6, <1>8 DEF At
  <2>3. Balance(crawled, "countOk", Good) => Balance(crawled, "countOk", Good)'
    BY <1>4, <2>1, <2>2 DEF Balance
  <2>4. ASSUME Balance(errors, "countErr", Bad) PROVE Balance(errors, "countErr", Bad)'
    <3>1. /\ IsFiniteSet(Counted(errors')) /\ IsFiniteSet(Bad)
          /\ Cardinality(Counted(errors')) + Cardinality(At("countErr")') = Cardinality(Bad)
      BY <1>1, <1>2, <2>1, <2>2, <2>4, BalanceCounts
    <3> QED BY <1>4, <3>1 DEF Balance, Counted
  <2> QED BY <1>3, <1>5, <2>3, <2>4 DEF TotalInv, AllWell
<1> QED BY <1>7, <1>8 DEF Count

LEMMA TaskStepTotal ==
    ASSUME TotalInv, TypeInv, KeyInv, OverInv, NEW t \in Tasks,
           TaskStep(t) \/ RaiseInTask(t) \/ CancelTask(t)
    PROVE  TotalInv'
<1>1. CASE RaiseInTask(t) \/ LinkSeedGone(t)
  BY <1>1, AbortTotal DEF RaiseInTask, LinkSeedGone, Expanding
<1>2. CASE CancelTask(t)
  <2>1. RunOf[t] \in Runs BY RunsAssumption
  <2>2. ~AllWell' BY <1>2, <2>1 DEF CancelTask, AllWell
  <2> QED BY <1>2, <2>2, TotalGivenUp DEF CancelTask
<1>3. CASE ClaimRow(t) \/ FindNothing(t) \/ FetchPage(t) \/ StorePage(t)
  BY <1>3, TotalStays
  DEF ClaimRow, FindNothing, FetchPage, StorePage, GoTo, TypeInv, TypeOK
<1>4. CASE EnqueueLink(t) BY <1>4, TotalStays DEF EnqueueLink
<1>5. CASE CloseUnindexed(t) BY <1>5, CloseTotal
<1>6. CASE CommitPage(t) BY <1>6, CommitPageTotal
<1>7. CASE Count(t) BY <1>7, CountTotal
<1> QED BY <1>1, <1>2, <1>3, <1>4, <1>5, <1>6, <1>7 DEF TaskStep

LEMMA NextTotal ==
    ASSUME TotalInv, TypeInv, KeyInv, OverInv, "delete" \notin Environment, [Next]_vars
    PROVE  TotalInv'
<1>1. CASE UNCHANGED vars BY <1>1, TotalStays DEF vars
<1>2. ASSUME NEW s \in Seeds, AdminStep(s) PROVE TotalInv'
  <2>1. AddSeed(s) \/ ToggleSeed(s)
    BY <1>2 DEF AdminStep, DeleteBegin, DeleteFinish, TotalInv
  <2> QED BY <2>1, TotalStays DEF AddSeed, ToggleSeed
<1>3. CASE DeadlockAbort
  <2>1. CASE \E t \in Tasks : OnCycle(t) /\ AbortTask(t)
    BY <2>1, AbortTotal, OnCycleWaits DEF TypeInv
  <2>2. CASE \E r \in Runs : OnCycle(r) /\ FailRun(r) BY <2>2, FailRunTotal
  <2> QED BY <1>3, <2>1, <2>2 DEF DeadlockAbort, TotalInv
<1> QED BY <1>1, <1>2, <1>3, RunStepTotal, TaskStepTotal DEF Next, Quiescent

LEMMA InitTotal == Init => TotalInv
<1> SUFFICES ASSUME Init PROVE TotalInv OBVIOUS
<1>1. 1..0 = {} OBVIOUS
<1>2. Counted(crawled) = {} /\ Counted(errors) = {} BY <1>1 DEF Init, Counted
<1>3. Good = {} /\ Bad = {} BY DEF Init, Good, Bad, NoRow
<1>4. At("countOk") = {} /\ At("countErr") = {} BY DEF Init, At
<1>5. Balance(crawled, "countOk", Good) /\ Balance(errors, "countErr", Bad)
  BY <1>2, <1>3, <1>4, FS_EmptySet DEF Balance
<1> QED BY <1>5 DEF Init, TotalInv, NoRow

(* When every run has finished, the pages and errors their jobs report add *)
(* up to the rows that are closed, whatever the tasks of all runs did in   *)
(* between: no page is counted twice, by two runs or not at all.           *)
THEOREM TotalsAgree == Spec => []Totals
<1>1. CASE "delete" \in Environment
  <2>1. TypeInv => Totals BY <1>1 DEF Totals
  <2> QED BY <2>1, TypeCorrect, PTL
<1>2. CASE "delete" \notin Environment
  <2>1. TotalInv /\ TypeInv /\ KeyInv /\ OverInv /\ [Next]_vars => TotalInv'
    BY <1>2, NextTotal
  <2>2. TotalInv /\ OverInv => Totals
    <3> SUFFICES ASSUME TotalInv, OverInv, \A r \in Runs : phase[r] = "finished"
                 PROVE  /\ Cardinality(Counted([r \in Runs |-> jobs[r].pages]))
                             = Cardinality(Good)
                        /\ Cardinality(Counted([r \in Runs |-> jobs[r].errors]))
                             = Cardinality(Bad)
      BY DEF Totals, Good, Bad
    <3>1. \A t \in Tasks : pc[t] = "exited"
      BY RunsAssumption DEF OverInv, AllExited, TasksOf
    <3>2. At("countOk") = {} /\ At("countErr") = {} BY <3>1 DEF At
    <3>3. /\ Counted([r \in Runs |-> jobs[r].pages]) = Counted(crawled)
          /\ Counted([r \in Runs |-> jobs[r].errors]) = Counted(errors)
      BY DEF TotalInv, Counted
    <3>4. Balance(crawled, "countOk", Good) /\ Balance(errors, "countErr", Bad)
      BY DEF TotalInv, AllWell
    <3>5. /\ Cardinality(Counted(crawled)) \in Nat /\ Cardinality(Counted(errors)) \in Nat
          /\ Cardinality(At("countOk")) = 0 /\ Cardinality(At("countErr")) = 0
      BY <3>2, <3>4, FS_EmptySet, FS_CardinalityType DEF Balance
    <3>6. Cardinality(Counted(crawled)) = Cardinality(Good) BY <3>4, <3>5 DEF Balance
    <3>7. Cardinality(Counted(errors)) = Cardinality(Bad) BY <3>4, <3>5 DEF Balance
    <3> QED BY <3>3, <3>6, <3>7
  <2> QED BY <2>1, <2>2, InitTotal, OverInvariant, TypeCorrect, KeysSafe, PTL DEF Spec
<1> QED BY <1>1, <1>2
=============================================================================
