--------------------------- MODULE ServiceProofs ----------------------------
(***************************************************************************)
(* Proofs about Service for every set of URLs, seeds and links and for any *)
(* number of processes, failures and edits of seeds.                       *)
(***************************************************************************)
EXTENDS Service, TLAPS, FiniteSetTheorems

USE DEF crawlVars

(* What the steps need to know of the types.                               *)
Types ==
    /\ entry \in [Urls -> Frontier!States]
    /\ pc \in [Procs -> {"idle", "crawling", "orphaned", "reading", "writing"}]
    /\ taken \in [Crawlers -> SUBSET Urls]
    /\ job \in [Crawlers -> {"none", "running", "finished"}]
    /\ failures \in Nat

(* What is claimed is in the hands of exactly one crawl.                   *)
HeldOnce ==
    /\ \A u \in Urls : entry[u] = "busy" <=> \E p \in Crawlers : u \in taken[p]
    /\ \A p, q \in Crawlers : p # q => taken[p] \cap taken[q] = {}

FewStale == IsFiniteSet(StaleJobs) /\ Cardinality(StaleJobs) <= failures

ServiceInv == Types /\ HeldOnce /\ FewStale

LEMMA ProcKinds ==
    /\ Crawlers \subseteq Procs /\ Rankers \subseteq Procs /\ Rankings \subseteq Procs
    /\ Loop \in Crawlers /\ Crawls \subseteq Crawlers
BY DEF Procs, Crawlers, Rankers

LEMMA InitService == Init => ServiceInv
<1> SUFFICES ASSUME Init PROVE ServiceInv OBVIOUS
<1>1. Types BY ProcKinds DEF Init, Types, Frontier!Init, Frontier!States
<1>2. HeldOnce BY DEF Init, HeldOnce, Frontier!Init
<1>3. StaleJobs = {} BY DEF Init, StaleJobs
<1> QED BY <1>1, <1>2, <1>3, FS_EmptySet DEF Init, ServiceInv, FewStale

-----------------------------------------------------------------------------
(* Steps in which one process ends a run or starts one: nobody else's job  *)
(* goes stale, and its own only at the price of a failure.                 *)
LEMMA StaleKept ==
    ASSUME ServiceInv, NEW p,
           failures' \in Nat, failures' >= failures,
           \A q \in StaleJobs' \ {p} : q \in StaleJobs,
           p \in StaleJobs' /\ p \notin StaleJobs => failures' = failures + 1
    PROVE  FewStale'
<1> USE DEF ServiceInv, FewStale, Types
<1>1. Cardinality(StaleJobs) \in Nat BY FS_CardinalityType
<1>2. CASE p \in StaleJobs' /\ p \notin StaleJobs
  <2>1. StaleJobs' \subseteq StaleJobs \cup {p} OBVIOUS
  <2>2. /\ IsFiniteSet(StaleJobs \cup {p})
        /\ Cardinality(StaleJobs \cup {p}) = Cardinality(StaleJobs) + 1
    BY <1>2, FS_AddElement
  <2>3. /\ IsFiniteSet(StaleJobs') /\ Cardinality(StaleJobs') \in Nat
        /\ Cardinality(StaleJobs') <= Cardinality(StaleJobs) + 1
    BY <2>1, <2>2, FS_Subset, FS_CardinalityType
  <2> QED BY <1>1, <1>2, <2>3
<1>3. CASE ~(p \in StaleJobs' /\ p \notin StaleJobs)
  <2>1. StaleJobs' \subseteq StaleJobs BY <1>3
  <2>2. /\ IsFiniteSet(StaleJobs') /\ Cardinality(StaleJobs') \in Nat
        /\ Cardinality(StaleJobs') <= Cardinality(StaleJobs)
    BY <2>1, FS_Subset, FS_CardinalityType
  <2> QED BY <1>1, <2>2
<1> QED BY <1>2, <1>3

(* Steps that neither claim nor let go of a URL.                           *)
LEMMA HeldKept ==
    ASSUME HeldOnce, taken' = taken,
           \A u \in Urls : entry'[u] = "busy" <=> entry[u] = "busy"
    PROVE  HeldOnce'
BY DEF HeldOnce

LEMMA StartService ==
    ASSUME ServiceInv, NEW p \in Crawlers, StartCrawl(p)
    PROVE  ServiceInv' /\ Frontier!Next
<1> USE DEF ServiceInv
<1> DEFINE S == {u \in Urls : u \in Unknown(Planted)}
<1>1. \A u \in S : u \in Urls /\ entry[u] = "unknown" BY DEF Unknown
<1>2. entry' = [u \in Urls |-> IF u \in S THEN "ready" ELSE entry[u]]
  BY DEF StartCrawl, Offered
<1>3. Types' BY <1>2, ProcKinds DEF StartCrawl, GoTo, Types, Frontier!States
<1>4. \A u \in Urls : entry'[u] = "busy" <=> entry[u] = "busy" BY <1>1, <1>2
<1>5. HeldOnce' BY <1>4, HeldKept DEF StartCrawl
<1>6. pc'[p] = "crawling" /\ \A q \in Crawlers \ {p} : pc'[q] = pc[q] /\ job'[q] = job[q]
  BY ProcKinds DEF StartCrawl, GoTo, Types
<1>7. \A q \in StaleJobs' : q \in StaleJobs BY <1>6 DEF StaleJobs
<1>8. FewStale' BY <1>7, StaleKept DEF StartCrawl, Types
<1>9. S \in SUBSET Urls /\ Frontier!Move(S, "unknown", "ready")
  BY <1>1, <1>2 DEF Frontier!Move
<1> QED BY <1>3, <1>5, <1>8, <1>9 DEF Frontier!Next, Frontier!Offer

LEMMA TakeService ==
    ASSUME ServiceInv, NEW p \in Crawlers, Take(p)
    PROVE  ServiceInv' /\ Frontier!Next
<1> USE DEF ServiceInv
<1>1. PICK u \in Ready : /\ entry' = [entry EXCEPT ![u] = "busy"]
                         /\ taken' = [taken EXCEPT ![p] = taken[p] \cup {u}]
  BY DEF Take
<1>2. u \in Urls /\ entry[u] = "ready" BY DEF Ready
<1>3. Types' BY <1>1, <1>2 DEF Take, Types, Frontier!States
<1>4. \A q \in Crawlers : u \notin taken[q] BY <1>2 DEF HeldOnce
<1>5. HeldOnce'
  <2>1. \A q \in Crawlers : taken'[q] = IF q = p THEN taken[p] \cup {u} ELSE taken[q]
    BY <1>1 DEF Types
  <2>2. \A v \in Urls : entry'[v] = IF v = u THEN "busy" ELSE entry[v]
    BY <1>1 DEF Types
  <2> QED BY <1>2, <1>4, <2>1, <2>2 DEF HeldOnce
<1>6. StaleJobs' = StaleJobs /\ failures' = failures BY DEF Take, StaleJobs
<1>7. Frontier!Move({u}, "ready", "busy")
  BY <1>1, <1>2 DEF Frontier!Move, Types
<1> QED BY <1>2, <1>3, <1>5, <1>6, <1>7 DEF Frontier!Next, Frontier!Take, FewStale

(* One URL is closed; S are the links that become known with it.           *)
LEMMA CloseService ==
    ASSUME ServiceInv, NEW p \in Crawlers, NEW u \in Urls, u \in taken[p],
           NEW S \in SUBSET Urls, \A v \in S : entry[v] = "unknown",
           entry' = [v \in Urls |-> IF v = u THEN "closed"
                                    ELSE IF v \in S THEN "ready" ELSE entry[v]],
           taken' = [taken EXCEPT ![p] = @ \ {u}],
           UNCHANGED <<pc, job, failures>>
    PROVE  ServiceInv' /\ Frontier!Next
<1> USE DEF ServiceInv
<1>1. entry[u] = "busy" BY DEF HeldOnce
<1>2. Types' BY DEF Types, Frontier!States
<1>3. \A q \in Crawlers : taken'[q] = IF q = p THEN taken[p] \ {u} ELSE taken[q]
  BY DEF Types
<1>4. \A v \in Urls : entry'[v] = "busy" <=> entry[v] = "busy" /\ v # u
  OBVIOUS
<1>5. HeldOnce'
  <2>1. \A q \in Crawlers : q # p => u \notin taken[q] BY DEF HeldOnce
  <2> QED BY <1>3, <1>4, <2>1 DEF HeldOnce
<1>6. StaleJobs' = StaleJobs BY DEF StaleJobs
<1>7. Frontier!Close
  BY <1>1 DEF Frontier!Close
<1> QED BY <1>2, <1>5, <1>6, <1>7 DEF Frontier!Next, FewStale

LEMMA StoreService ==
    ASSUME ServiceInv, NEW p \in Crawlers, NEW u \in Urls, StorePage(p, u) \/ CloseError(p, u)
    PROVE  ServiceInv' /\ Frontier!Next
<1>1. CASE StorePage(p, u)
  <2> DEFINE S == {v \in Urls : v \in Unknown(Finds[u])}
  <2>1. entry' = [v \in Urls |-> IF v = u THEN "closed"
                                 ELSE IF v \in S THEN "ready" ELSE entry[v]]
    BY <1>1 DEF StorePage, Offered
  <2>2. S \in SUBSET Urls /\ \A v \in S : entry[v] = "unknown" BY DEF Unknown
  <2> HIDE DEF S
  <2> QED BY <1>1, <2>1, <2>2, CloseService DEF StorePage
<1>2. CASE CloseError(p, u)
  <2> DEFINE S == {v \in Urls : FALSE}
  <2>1. entry' = [v \in Urls |-> IF v = u THEN "closed"
                                 ELSE IF v \in S THEN "ready" ELSE entry[v]]
    BY <1>2 DEF CloseError, ServiceInv, Types
  <2>2. S \in SUBSET Urls /\ \A v \in S : entry[v] = "unknown" OBVIOUS
  <2> HIDE DEF S
  <2> QED BY <1>2, <2>1, <2>2, CloseService DEF CloseError
<1> QED BY <1>1, <1>2

(* A crawl lets go of the URLs of S, all of which it has.                  *)
LEMMA ReleaseService ==
    ASSUME ServiceInv, NEW p \in Crawlers, NEW S \in SUBSET taken[p],
           entry' = Released(S), taken' = [taken EXCEPT ![p] = @ \ S]
    PROVE  /\ entry' \in [Urls -> Frontier!States] /\ taken' \in [Crawlers -> SUBSET Urls]
           /\ HeldOnce' /\ Frontier!Next
<1> USE DEF ServiceInv
<1>1. S \in SUBSET Urls /\ \A u \in S : entry[u] = "busy"
  BY DEF HeldOnce, Types
<1>2. entry' = [u \in Urls |-> IF u \in S THEN "ready" ELSE entry[u]] BY DEF Released
<1>3. entry' \in [Urls -> Frontier!States] /\ taken' \in [Crawlers -> SUBSET Urls]
  BY <1>2 DEF Types, Frontier!States
<1>4. HeldOnce'
  <2>1. \A q \in Crawlers : taken'[q] = IF q = p THEN taken[p] \ S ELSE taken[q]
    BY DEF Types
  <2>2. \A q \in Crawlers : q # p => taken[q] \cap S = {} BY DEF HeldOnce
  <2>3. \A u \in Urls : entry'[u] = "busy" <=> entry[u] = "busy" /\ u \notin S
    BY <1>2
  <2> QED BY <2>1, <2>2, <2>3 DEF HeldOnce
<1>5. Frontier!Move(S, "busy", "ready") BY <1>1, <1>2 DEF Frontier!Move
<1> QED BY <1>1, <1>3, <1>4, <1>5 DEF Frontier!Next, Frontier!Release

LEMMA FailService ==
    ASSUME ServiceInv, NEW p \in Crawlers,
           CutShort(p) \/ \E u \in Urls : TaskRaises(p, u)
    PROVE  ServiceInv' /\ Frontier!Next
<1> USE DEF ServiceInv
<1>1. PICK S \in SUBSET taken[p] :
          entry' = Released(S) /\ taken' = [taken EXCEPT ![p] = @ \ S]
  <2>1. CASE CutShort(p)
    <3>1. taken[p] \ taken[p] = {} OBVIOUS
    <3> QED BY <2>1, <3>1 DEF CutShort
  <2>2. ASSUME NEW u \in Urls, TaskRaises(p, u)
        PROVE  \E S \in SUBSET taken[p] :
                   entry' = Released(S) /\ taken' = [taken EXCEPT ![p] = @ \ S]
    <3>1. {u} \in SUBSET taken[p] BY <2>2 DEF TaskRaises
    <3> QED BY <2>2, <3>1 DEF TaskRaises
  <2> QED BY <2>1, <2>2
<1>2. /\ entry' \in [Urls -> Frontier!States] /\ taken' \in [Crawlers -> SUBSET Urls]
      /\ HeldOnce' /\ Frontier!Next
  BY <1>1, ReleaseService
<1>3. PICK place \in {"idle", "reading", "orphaned"} : pc' = [pc EXCEPT ![p] = place]
  BY DEF CutShort, TaskRaises, GoTo, AfterCrawl
<1>4. job' = job /\ failures' = failures + 1 /\ failures' \in Nat
  <2>1. job' = job /\ failures' = failures + 1 BY DEF CutShort, TaskRaises
  <2>2. failures \in Nat BY DEF Types
  <2> QED BY <2>1, <2>2
<1>5. Types' BY <1>2, <1>3, <1>4 DEF Types
<1>6. \A q \in Crawlers \ {p} : pc'[q] = pc[q]
  BY <1>3, ProcKinds DEF Types
<1>7. \A q \in StaleJobs' \ {p} : q \in StaleJobs BY <1>4, <1>6 DEF StaleJobs
<1>8. FewStale' BY <1>4, <1>7, StaleKept DEF Types
<1> QED BY <1>2, <1>5, <1>8

(* Steps of which the frontier sees nothing: a process goes on with a      *)
(* ranking or leaves its crawl, and, if it leaves it by itself, its job is *)
(* finished.                                                               *)
LEMMA ElsewhereService ==
    ASSUME ServiceInv, NEW p \in Procs,
           NEW place \in {"idle", "reading", "writing"}, pc' = [pc EXCEPT ![p] = place],
           p \in Crawlers => job'[p] = "finished" \/ (pc[p] # "crawling" /\ job'[p] = job[p]),
           job' \in [Crawlers -> {"none", "running", "finished"}],
           \A q \in Crawlers \ {p} : job'[q] = job[q],
           failures' \in {failures, failures + 1},
           UNCHANGED <<entry, taken>>
    PROVE  ServiceInv' /\ UNCHANGED entry
<1> USE DEF ServiceInv
<1>1. failures' \in Nat /\ failures' >= failures BY DEF Types
<1>2. Types' BY <1>1 DEF Types
<1>3. HeldOnce' BY HeldKept
<1>4. \A q \in Crawlers \ {p} : pc'[q] = pc[q] BY ProcKinds DEF Types
<1>5. \A q \in StaleJobs' : q \in StaleJobs BY <1>4, ProcKinds DEF StaleJobs, Types
<1>6. FewStale' BY <1>1, <1>5, StaleKept
<1> QED BY <1>2, <1>3, <1>6

LEMMA LeaveService ==
    ASSUME ServiceInv, NEW p \in Crawlers, FinishCrawl(p) \/ OrphansEnd(p)
    PROVE  ServiceInv' /\ UNCHANGED entry
<1>1. CASE FinishCrawl(p)
  <2>1. PICK place \in {"idle", "reading", "writing"} : pc' = [pc EXCEPT ![p] = place]
    BY <1>1 DEF FinishCrawl, GoTo, AfterCrawl
  <2>2. /\ job' = [job EXCEPT ![p] = "finished"] /\ failures' = failures
        /\ UNCHANGED <<entry, taken>>
    BY <1>1 DEF FinishCrawl
  <2> QED BY <2>1, <2>2, ElsewhereService, ProcKinds DEF ServiceInv, Types
<1>2. CASE OrphansEnd(p)
  BY <1>2, ElsewhereService, ProcKinds DEF OrphansEnd, GoTo, ServiceInv, Types
<1> QED BY <1>1, <1>2

LEMMA RankService ==
    ASSUME ServiceInv, NEW r \in Rankers,
           StartRanking(r) \/ RankStep(r) \/ FailRanking(r)
    PROVE  ServiceInv' /\ UNCHANGED entry
<1>1. /\ pc[r] \in {"idle", "reading", "writing"}
      /\ \E place \in {"idle", "reading", "writing"} : pc' = [pc EXCEPT ![r] = place]
      /\ job' = job /\ UNCHANGED <<entry, taken>>
      /\ failures' \in {failures, failures + 1}
  BY DEF StartRanking, RankStep, ReadPages, PublishRanks, FailRanking, EndRanking, GoTo
<1> QED BY <1>1, ElsewhereService, ProcKinds DEF ServiceInv, Types

LEMMA NextService ==
    ASSUME ServiceInv, [Next]_vars
    PROVE  ServiceInv' /\ (Frontier!Next \/ UNCHANGED entry)
<1>1. ASSUME NEW p \in Crawlers, StartCrawl(p) \/ CrawlStep(p) \/ CutShort(p)
                                   \/ \E u \in Urls : TaskRaises(p, u)
      PROVE  ServiceInv' /\ (Frontier!Next \/ UNCHANGED entry)
  BY <1>1, StartService, TakeService, StoreService, FailService, LeaveService
  DEF CrawlStep
<1>2. ASSUME NEW r \in Rankers, StartRanking(r) \/ RankStep(r) \/ FailRanking(r)
      PROVE  ServiceInv' /\ UNCHANGED entry
  BY <1>2, RankService
<1>3. ASSUME NEW s \in Seeds, EditSeed(s) PROVE ServiceInv' /\ UNCHANGED entry
  BY <1>3 DEF EditSeed, ServiceInv, Types, HeldOnce, FewStale, StaleJobs
<1>4. CASE UNCHANGED vars
  BY <1>4 DEF vars, ServiceInv, Types, HeldOnce, FewStale, StaleJobs
<1> QED BY <1>1, <1>2, <1>3, <1>4 DEF Next

LEMMA ServiceInvariant == Spec => []ServiceInv
<1>1. ServiceInv /\ [Next]_vars => ServiceInv' BY NextService
<1> QED BY <1>1, InitService, PTL DEF Spec

(* Whatever crawls fail, die or go on without their run, in any number of  *)
(* processes: no URL stays claimed, and each failure leaves at most one    *)
(* job that says "running" behind.                                         *)
THEOREM NothingLeftBehind == Spec => []LeftBehind
<1>1. ServiceInv => LeftBehind BY DEF ServiceInv, HeldOnce, FewStale, LeftBehind
<1> QED BY <1>1, ServiceInvariant, PTL

(* All crawls of all processes together do to the frontier what            *)
(* Frontier.tla allows, and nothing else.                                  *)
THEOREM OneFrontier == Spec => SharesFrontier
<1>1. Init => Frontier!Init BY DEF Init
<1>2. ServiceInv /\ [Next]_vars => [Frontier!Next]_entry BY NextService
<1> QED BY <1>1, <1>2, ServiceInvariant, PTL DEF Spec, SharesFrontier, Frontier!Spec

=============================================================================
