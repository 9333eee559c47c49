------------------------------ MODULE Service -------------------------------
(***************************************************************************)
(* The deployed system: the worker container's endless loop (crawl, rank,  *)
(* sleep; docker-compose.yml), the crawls that the admin pages and the MCP *)
(* tool start in the background of their own process (routers/admin.py,    *)
(* mcp_server.py), and rankings started by hand.  They all share the       *)
(* frontier, of which each crawl here takes the steps Frontier.tla allows  *)
(* and Crawler.tla implements; a ranking is as in Corpus.tla.              *)
(***************************************************************************)
EXTENDS Naturals, FiniteSets

CONSTANTS
    Urls,
    Seeds,          \* seeds, each named by its canonical URL
    Finds,          \* Finds[u]: the links of u that u's row may lead to
    Loop,           \* the worker container
    Crawls,         \* background crawls of the web and the MCP process
    Rankings,       \* rankings started by hand
    Cap, NoLimit,   \* Cap[p]: max_pages of the crawls of p
    Concurrency,    \* settings.crawl_concurrency: worker tasks of a run
    MaxFailures,    \* bound: runs and rankings that fail or are killed
    MaxEdits        \* bound: times seeds are added, disabled or enabled

Crawlers == {Loop} \cup Crawls
Rankers == {Loop} \cup Rankings
Procs == Crawlers \cup Rankings

ASSUME ServiceAssumption ==
    /\ IsFiniteSet(Urls) /\ Seeds \subseteq Urls
    /\ Finds \in [Urls -> SUBSET Urls]
    /\ Cap \in [Crawlers -> Nat \cup {NoLimit}] /\ Cap[Loop] = NoLimit
    /\ Concurrency \in Nat \ {0} /\ MaxFailures \in Nat /\ MaxEdits \in Nat

VARIABLES
    entry,      \* the frontier
    stored,     \* URLs with a row in pages
    ranked,     \* those of them a committed ranking has given a rank
    enabled,    \* enabled seeds
    pc,         \* where each process is
    taken,      \* URLs the tasks of its crawl have claimed
    tasks,      \* its worker tasks that have not ended with an exception
    crawled,    \* pages its run has counted, up to its cap
    job,        \* status of the crawl_jobs row of its latest run
    reads,      \* pages its ranking has read
    failures, edits

vars == <<entry, stored, ranked, enabled, pc, taken, tasks, crawled, job,
          reads, failures, edits>>
crawlVars == <<taken, tasks, crawled, job>>

Frontier == INSTANCE Frontier

TypeOK ==
    /\ Frontier!TypeOK
    /\ ranked \subseteq stored /\ stored \subseteq Urls /\ enabled \subseteq Seeds
    /\ pc \in [Procs -> {"idle", "crawling", "orphaned", "reading", "writing"}]
    /\ taken \in [Crawlers -> SUBSET Urls]
    /\ tasks \in [Crawlers -> 0..Concurrency]
    /\ crawled \in [Crawlers -> Nat]
    /\ job \in [Crawlers -> {"none", "running", "finished"}]
    /\ reads \in [Rankers -> SUBSET Urls]
    /\ failures \in 0..MaxFailures /\ edits \in 0..MaxEdits

Init ==
    /\ Frontier!Init
    /\ stored = {} /\ ranked = {}
    /\ enabled \in SUBSET Seeds
    /\ pc = [p \in Procs |-> "idle"]
    /\ taken = [p \in Crawlers |-> {}]
    /\ tasks = [p \in Crawlers |-> 0]
    /\ crawled = [p \in Crawlers |-> 0]
    /\ job = [p \in Crawlers |-> "none"]
    /\ reads = [p \in Rankers |-> {}]
    /\ failures = 0 /\ edits = 0

-----------------------------------------------------------------------------
GoTo(p, place) == pc' = [pc EXCEPT ![p] = place]

(* Mutant of AfterCrawl: the container crawls and sleeps.                  *)
AfterCrawlSleep(p) == "idle"

(* Where a process goes when its crawl is over, however it ended: sh runs  *)
(* the ranking next.                                                       *)
AfterCrawl(p) == IF p = Loop THEN "reading" ELSE "idle"

Unknown(S) == {u \in S : entry[u] = "unknown"}
Ready == {u \in Urls : entry[u] = "ready"}

(* Mutant of Offered: a URL that was crawled before is offered again.      *)
OfferedAgain(S) ==
    [u \in Urls |-> IF u \in S /\ entry[u] # "busy" THEN "ready" ELSE entry[u]]

(* What entry becomes when the URLs of S get a row.                        *)
Offered(S) == [u \in Urls |-> IF u \in Unknown(S) THEN "ready" ELSE entry[u]]

Released(S) == [u \in Urls |-> IF u \in S THEN "ready" ELSE entry[u]]

(* Mutant of Planted: the seeds are enqueued by the first run only.        *)
PlantedOnce == IF \A p \in Crawlers : job[p] = "none" THEN enabled ELSE {}

(* enqueue_seeds looks at every enabled seed, in every run.                *)
Planted == enabled

(* The loop wakes up, or a crawl is triggered: trigger_crawl, start_crawl. *)
StartCrawl(p) ==
    /\ pc[p] = "idle"
    /\ entry' = Offered(Planted)
    /\ tasks' = [tasks EXCEPT ![p] = Concurrency]
    /\ crawled' = [crawled EXCEPT ![p] = 0]
    /\ job' = [job EXCEPT ![p] = "running"]
    /\ GoTo(p, "crawling")
    /\ UNCHANGED <<stored, ranked, enabled, taken, reads, failures, edits>>

Under(p) == Cap[p] # NoLimit => crawled[p] < Cap[p]

Take(p) ==
    /\ pc[p] \in {"crawling", "orphaned"}
    /\ Cardinality(taken[p]) < tasks[p] /\ Under(p)
    /\ \E u \in Ready :
          /\ entry' = [entry EXCEPT ![u] = "busy"]
          /\ taken' = [taken EXCEPT ![p] = @ \cup {u}]
    /\ UNCHANGED <<stored, ranked, enabled, pc, tasks, crawled, job, reads,
                   failures, edits>>

(* A page is stored and expanded.  The run of an orphaned task has failed  *)
(* and closed its HTTP client, but what was fetched before is stored.      *)
StorePage(p, u) ==
    /\ u \in taken[p]
    /\ entry' = [Offered(Finds[u]) EXCEPT ![u] = "closed"]
    /\ stored' = stored \cup {u}
    /\ taken' = [taken EXCEPT ![p] = @ \ {u}]
    /\ crawled' = [crawled EXCEPT ![p] = IF Cap[p] = NoLimit THEN 0 ELSE @ + 1]
    /\ UNCHANGED <<ranked, enabled, pc, tasks, job, reads, failures, edits>>

(* It is blocked, or cannot be fetched.                                    *)
CloseError(p, u) ==
    /\ u \in taken[p]
    /\ entry' = [entry EXCEPT ![u] = "closed"]
    /\ taken' = [taken EXCEPT ![p] = @ \ {u}]
    /\ UNCHANGED <<stored, ranked, enabled, pc, tasks, crawled, job, reads,
                   failures, edits>>

(* gather returns, and the job is finished.                                *)
FinishCrawl(p) ==
    /\ pc[p] = "crawling" /\ taken[p] = {}
    /\ Ready = {} \/ ~Under(p)
    /\ tasks' = [tasks EXCEPT ![p] = 0]
    /\ job' = [job EXCEPT ![p] = "finished"]
    /\ GoTo(p, AfterCrawl(p))
    /\ UNCHANGED <<entry, stored, ranked, enabled, taken, crawled, reads,
                   failures, edits>>

(* Mutant of CutShort: what the run had claimed stays claimed.             *)
CutShortHolding(p) ==
    /\ failures < MaxFailures
    /\ pc[p] \in {"crawling", "orphaned"}
    /\ failures' = failures + 1
    /\ taken' = [taken EXCEPT ![p] = {}]
    /\ tasks' = [tasks EXCEPT ![p] = 0]
    /\ GoTo(p, AfterCrawl(p))
    /\ UNCHANGED <<entry, stored, ranked, enabled, crawled, job, reads, edits>>

(* The process of the crawl dies, or, in the worker, a page raises and     *)
(* asyncio.run cancels the sibling tasks.  The job is left as it is.       *)
CutShort(p) ==
    /\ failures < MaxFailures
    /\ pc[p] \in {"crawling", "orphaned"}
    /\ failures' = failures + 1
    /\ entry' = Released(taken[p])
    /\ taken' = [taken EXCEPT ![p] = {}]
    /\ tasks' = [tasks EXCEPT ![p] = 0]
    /\ GoTo(p, AfterCrawl(p))
    /\ UNCHANGED <<stored, ranked, enabled, crawled, job, reads, edits>>

(* A page raises in a background crawl: _crawl_task logs the exception,    *)
(* and the sibling tasks go on without their run.                          *)
TaskRaises(p, u) ==
    /\ p \in Crawls /\ u \in taken[p]
    /\ failures < MaxFailures
    /\ failures' = failures + 1
    /\ entry' = Released({u})
    /\ taken' = [taken EXCEPT ![p] = @ \ {u}]
    /\ tasks' = [tasks EXCEPT ![p] = @ - 1]
    /\ GoTo(p, "orphaned")
    /\ UNCHANGED <<stored, ranked, enabled, crawled, job, reads, edits>>

(* The last orphan returns.                                                *)
OrphansEnd(p) ==
    /\ pc[p] = "orphaned" /\ taken[p] = {}
    /\ tasks[p] = 0 \/ Ready = {} \/ ~Under(p)
    /\ tasks' = [tasks EXCEPT ![p] = 0]
    /\ GoTo(p, "idle")
    /\ UNCHANGED <<entry, stored, ranked, enabled, taken, crawled, job, reads,
                   failures, edits>>

-----------------------------------------------------------------------------
(* trigger_pagerank, recompute_pagerank.                                   *)
StartRanking(r) ==
    /\ r \in Rankings /\ pc[r] = "idle"
    /\ GoTo(r, "reading")
    /\ UNCHANGED <<entry, stored, ranked, enabled, crawlVars, reads, failures, edits>>

(* The ids of all pages are read, in a transaction of the ranking's own.   *)
ReadPages(r) ==
    /\ pc[r] = "reading"
    /\ reads' = [reads EXCEPT ![r] = stored]
    /\ GoTo(r, "writing")
    /\ UNCHANGED <<entry, stored, ranked, enabled, crawlVars, failures, edits>>

EndRanking(r) ==
    /\ reads' = [reads EXCEPT ![r] = {}]
    /\ GoTo(r, "idle")
    /\ UNCHANGED <<entry, stored, enabled, crawlVars, edits>>

(* Pages stored since keep the rank they have.                             *)
PublishRanks(r) ==
    /\ pc[r] = "writing"
    /\ ranked' = ranked \cup reads[r]
    /\ EndRanking(r)
    /\ UNCHANGED failures

(* It loses a deadlock against a crawl, or its process dies.               *)
FailRanking(r) ==
    /\ pc[r] \in {"reading", "writing"} /\ failures < MaxFailures
    /\ failures' = failures + 1
    /\ EndRanking(r)
    /\ UNCHANGED ranked

-----------------------------------------------------------------------------
(* A seed is added or enabled again, or disabled.  Its URLs stay.          *)
EditSeed(s) ==
    /\ edits < MaxEdits
    /\ edits' = edits + 1
    /\ enabled' = IF s \in enabled THEN enabled \ {s} ELSE enabled \cup {s}
    /\ UNCHANGED <<entry, stored, ranked, pc, crawlVars, reads, failures>>

-----------------------------------------------------------------------------
CrawlStep(p) ==
    \/ Take(p) \/ FinishCrawl(p) \/ OrphansEnd(p)
    \/ \E u \in Urls : StorePage(p, u) \/ CloseError(p, u)
RankStep(r) == ReadPages(r) \/ PublishRanks(r)

Next ==
    \/ \E p \in Crawlers : StartCrawl(p) \/ CrawlStep(p) \/ CutShort(p)
                              \/ \E u \in Urls : TaskRaises(p, u)
    \/ \E r \in Rankers : StartRanking(r) \/ RankStep(r) \/ FailRanking(r)
    \/ \E s \in Seeds : EditSeed(s)

Spec == Init /\ [][Next]_vars

(* The container's loop goes on for ever, and a process that can go on     *)
(* does.  Nobody has to start a crawl or a ranking by hand.                *)
Fairness ==
    /\ WF_vars(StartCrawl(Loop))
    /\ \A p \in Crawlers : WF_vars(CrawlStep(p))
    /\ \A r \in Rankers : WF_vars(RankStep(r))

LiveSpec == Spec /\ Fairness

-----------------------------------------------------------------------------
(* What crawls that fail, are killed or go on without their run leave      *)
(* behind: no claimed URL that is not in the hands of exactly one crawl,   *)
(* and, one for each failure at most, a job that says "running" although   *)
(* its run is over.                                                        *)
StaleJobs == {p \in Crawlers : job[p] = "running" /\ pc[p] # "crawling"}
LeftBehind ==
    /\ \A u \in Urls : entry[u] = "busy" <=> \E p \in Crawlers : u \in taken[p]
    /\ \A p, q \in Crawlers : p # q => taken[p] \cap taken[q] = {}
    /\ Cardinality(StaleJobs) <= failures

(* Whatever the crawls of the three processes do to the frontier, it is    *)
(* what Frontier.tla allows.                                               *)
SharesFrontier == Frontier!Spec

(* "The crawl loop drains the frontier whenever there is work, then        *)
(* sleeps" (docker-compose.yml:44): a URL that waits is dealt with.        *)
EventuallyCrawled == \A u \in Urls : entry[u] = "ready" ~> entry[u] = "closed"

(* A page that is stored, by whatever process, gets a rank and keeps one.  *)
EventuallyRanked == \A u \in Urls : u \in stored ~> [](u \in ranked)

(* A seed that stays enabled is crawled, whenever it was added.            *)
SeedsReached ==
    \A s \in Seeds : s \in enabled ~> (s \notin enabled \/ entry[s] = "closed")

=============================================================================
