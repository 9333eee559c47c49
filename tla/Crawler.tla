------------------------------ MODULE Crawler -------------------------------
(***************************************************************************)
(* The crawl frontier loop (src/app/crawler/worker.py) over the tables it  *)
(* shares with the administrator.  Several runs of run_crawl, each with    *)
(* its own worker tasks, work on one PostgreSQL database.                  *)
(*                                                                         *)
(* The tables (seeds, queue, pages, jobs) hold COMMITTED rows.  A worker   *)
(* task claims, fetches, stores and expands a page in ONE transaction, so  *)
(* what it wrote and did not commit is its own: the row it claimed         *)
(* (claim) and the rows it inserted (grown); a run that plants the seeds'  *)
(* URLs has planted.  Uncommitted writes are also locks: see Holders.      *)
(***************************************************************************)
EXTENDS Integers, Sequences, FiniteSets, FiniteSetsExt, Functions

CONSTANTS
    Urls, NoUrl,    \* canonical URLs
    Seeds, NoSeed,  \* rows the table seeds may hold
    SeedUrl,        \* SeedUrl[s]: normalize_url of the seed's value, or NoUrl
    MaxDepth,       \* MaxDepth[s]: its max_depth
    Scope,          \* Scope[s]: the URLs _matches accepts for its rule
    Links,          \* Links[u]: the links parse_html finds in u, in order
    Runs, Tasks,    \* calls of run_crawl, and worker_task coroutines
    RunOf,          \* RunOf[t]: the run task t belongs to
    MaxPages,       \* MaxPages[r]: max_pages of the run, or NoLimit for None
    NoLimit,
    FetchOutcomes,  \* what may come of handling a page
    Environment     \* what may happen around the runs

ASSUME UrlsAssumption == NoUrl \notin Urls
ASSUME SeedsAssumption ==
    /\ IsFiniteSet(Seeds) /\ NoSeed \notin Seeds
    /\ SeedUrl \in [Seeds -> Urls \cup {NoUrl}]
    /\ MaxDepth \in [Seeds -> Nat]
    /\ Scope \in [Seeds -> SUBSET Urls]
ASSUME LinksAssumption == Links \in [Urls -> Seq(Urls)]
ASSUME RunsAssumption ==
    /\ IsFiniteSet(Tasks) /\ Tasks \cap Runs = {}
    /\ Seeds \cap (Tasks \cup Runs) = {}
    /\ RunOf \in [Tasks -> Runs]
    /\ NoLimit \notin Nat /\ MaxPages \in [Runs -> Nat \cup {NoLimit}]
ASSUME OutcomesAssumption ==
    /\ FetchOutcomes \subseteq {"page", "blocked", "error", "raise"}
    /\ Environment \subseteq {"kill", "add", "toggle", "delete"}

VARIABLES
    seeds,      \* seeds[s] \in {"new", "enabled", "disabled", "deleted"}
    deleting,   \* seeds under an uncommitted DELETE
    queue,      \* crawl_queue, by its unique url
    pages,      \* pages, by its unique url, with its rows of links
    jobs,       \* crawl_jobs: the job of each run
    phase,      \* how far each run_crawl has come
    toPlant,    \* seeds its enqueue_seeds has yet to enqueue, in SELECT order
    planted,    \* seeds whose URL it has inserted, not yet committed
    rules,      \* its scope rules, in SELECT order
    crawled, errors,    \* its two counters
    pc,         \* where each worker task is
    claim,      \* the URL whose row the task has claimed, or NoUrl
    toLink,     \* positions of the links the task has yet to enqueue
    grown       \* URLs it has inserted, not yet committed

tables == <<seeds, deleting, queue, pages, jobs>>
runVars == <<phase, toPlant, planted, rules, crawled, errors>>
taskVars == <<pc, claim, toLink, grown>>
vars == <<seeds, deleting, queue, pages, jobs,
          phase, toPlant, planted, rules, crawled, errors,
          pc, claim, toLink, grown>>

Row == [status : {"none", "pending", "done", "error"}, depth : Nat,
        seed : Seeds \cup {NoSeed}, err : BOOLEAN]
NoRow == [status |-> "none", depth |-> 0, seed |-> NoSeed, err |-> FALSE]
Page == [stored : BOOLEAN, depth : Nat, seed : Seeds \cup {NoSeed},
         out : SUBSET Urls]
NoPage == [stored |-> FALSE, depth |-> 0, seed |-> NoSeed, out |-> {}]
Job == [status : {"none", "running", "finished"}, pages : Nat, errors : Nat]
NoJob == [status |-> "none", pages |-> 0, errors |-> 0]

Phases == {"idle", "seeding", "loading", "running",
           "finished", "failed", "killed"}
Places == {"unborn", "claiming", "fetching", "storing", "expanding",
           "countOk", "countErr", "exited", "gone"}

TypeOK ==
    /\ seeds \in [Seeds -> {"new", "enabled", "disabled", "deleted"}]
    /\ deleting \subseteq Seeds
    /\ queue \in [Urls -> Row]
    /\ pages \in [Urls -> Page]
    /\ jobs \in [Runs -> Job]
    /\ phase \in [Runs -> Phases]
    /\ toPlant \in [Runs -> Seq({s \in Seeds : SeedUrl[s] # NoUrl})]
    /\ planted \in [Runs -> SUBSET {s \in Seeds : SeedUrl[s] # NoUrl}]
    /\ rules \in [Runs -> Seq(Seeds)]
    /\ crawled \in [Runs -> Nat]
    /\ errors \in [Runs -> Nat]
    /\ pc \in [Tasks -> Places]
    /\ claim \in [Tasks -> Urls \cup {NoUrl}]
    /\ toLink \in [Tasks -> SUBSET Nat]
    /\ grown \in [Tasks -> SUBSET Urls]

Init ==
    /\ seeds \in [Seeds -> IF "add" \in Environment THEN {"new", "enabled"}
                                                   ELSE {"enabled"}]
    /\ deleting = {}
    /\ queue = [u \in Urls |-> NoRow]
    /\ pages = [u \in Urls |-> NoPage]
    /\ jobs = [r \in Runs |-> NoJob]
    /\ phase = [r \in Runs |-> "idle"]
    /\ toPlant = [r \in Runs |-> <<>>]
    /\ planted = [r \in Runs |-> {}]
    /\ rules = [r \in Runs |-> <<>>]
    /\ crawled = [r \in Runs |-> 0]
    /\ errors = [r \in Runs |-> 0]
    /\ pc = [t \in Tasks |-> "unborn"]
    /\ claim = [t \in Tasks |-> NoUrl]
    /\ toLink = [t \in Tasks |-> {}]
    /\ grown = [t \in Tasks |-> {}]

-----------------------------------------------------------------------------
(* What the database shows and locks.                                      *)

Working(t) == claim[t] # NoUrl
TasksOf(r) == {t \in Tasks : RunOf[t] = r}

(* The keys of crawl_queue a transaction has written and not committed.    *)
TaskKeys(t) == grown[t] \cup ({claim[t]} \ {NoUrl})
RunKeys(r) == {SeedUrl[s] : s \in planted[r]}

(* Transactions whose uncommitted write of u's key makes everybody else's  *)
(* INSERT ... ON CONFLICT DO NOTHING of u wait.                            *)
Holders(u) == {t \in Tasks : u \in TaskKeys(t)}
                 \cup {r \in Runs : u \in RunKeys(r)}

(* Mutant of Available: FOR UPDATE without SKIP LOCKED, and no wait.       *)
AvailableUnlocked == {u \in Urls : queue[u].status = "pending"}

(* FOR UPDATE SKIP LOCKED passes over the rows other tasks have claimed.   *)
Available == {u \in Urls : queue[u].status = "pending"
                             /\ \A t \in Tasks : claim[t] # u}

(* Rows a DELETE of their seed may have locked already.                    *)
Cascading == {u \in Urls : queue[u].seed \in deleting}

(* ORDER BY depth among the rows the claim does not pass over.             *)
Claimable == {u \in Available :
                 \A v \in Available \ Cascading : queue[u].depth <= queue[v].depth}

(* A SELECT without ORDER BY returns its rows in any order.                *)
Orderings(S) == {q \in [1..Cardinality(S) -> S] : Range(q) = S}
EnabledSeeds == {s \in Seeds : seeds[s] = "enabled"}

(* match_scope: the seed of the first rule that matches.                   *)
Matched(r, u) ==
    LET hits == {i \in DOMAIN rules[r] : u \in Scope[rules[r][i]]}
    IN  IF hits = {} THEN NoSeed ELSE rules[r][Min(hits)]

(* Mutant of ChildDepth: links are enqueued at the depth of their page.    *)
ChildDepthSame(d) == d

(* The depth of the links found on a page at depth d.                      *)
ChildDepth(d) == d + 1

(* Mutant of InReach: the depth of the page is tested, not of the link.    *)
InReachOfPage(r, u, d) ==
    {i \in DOMAIN Links[u] :
        LET s == Matched(r, Links[u][i]) IN s # NoSeed /\ d <= MaxDepth[s]}

(* Positions of the links of u that a row at depth d enqueues.             *)
InReach(r, u, d) ==
    {i \in DOMAIN Links[u] :
        LET s == Matched(r, Links[u][i])
        IN  s # NoSeed /\ ChildDepth(d) <= MaxDepth[s]}
NextLink(t) == Links[claim[t]][Min(toLink[t])]

(* Mutant of BudgetSpent: off by one.                                      *)
BudgetExceeded(r, n) == MaxPages[r] # NoLimit /\ n > MaxPages[r]

(* The test against max_pages at the head of a task's loop.                *)
BudgetSpent(r, n) == MaxPages[r] # NoLimit /\ n >= MaxPages[r]

(* Storing u checks the foreign key pages.seed_id unless it is unchanged.  *)
ChecksSeed(u) == pages[u].seed = NoSeed

(* Mutant of ShareHolders: the foreign keys take no lock.                  *)
NoShareHolders(s) == {}

(* Transactions that hold KEY SHARE on the row of seed s: they inserted a  *)
(* row that refers to it.                                                  *)
ShareHolders(s) ==
    {r \in Runs : s \in planted[r]} \cup
    {t \in Tasks : /\ pc[t] = "expanding"
                   /\ \/ ChecksSeed(claim[t]) /\ queue[claim[t]].seed = s
                      \/ \E u \in grown[t] : Matched(RunOf[t], u) = s}

(* Mutant of InsertResult: a row somebody is still inserting is taken for  *)
(* one that is there.                                                      *)
InsertUnawaited(a, u) ==
    IF queue[u].status = "none" /\ Holders(u) = {} THEN "insert" ELSE "skip"

(* enqueue_url of u by transaction a: wait for whoever else has written    *)
(* the key; then skip the URL if it has a row, else insert one.            *)
InsertResult(a, u) ==
    CASE ~(Holders(u) \subseteq {a}) -> "wait"
      [] Holders(u) = {} /\ queue[u].status = "none" -> "insert"
      [] OTHER -> "skip"

(* The insert checks the foreign key crawl_queue.seed_id, for which it     *)
(* waits for a DELETE of the seed.                                         *)
Inserts(a, u, s) == InsertResult(a, u) = "insert" /\ s \notin deleting

(* What the insert writes.                                                 *)
NewRow(d, s) == [status |-> "pending", depth |-> d, seed |-> s, err |-> FALSE]

-----------------------------------------------------------------------------
(* A run: enqueue the seeds, load the rules, start the tasks, finish.      *)

(* enqueue_seeds selects the enabled seeds; those without a canonical URL  *)
(* are passed over.                                                        *)
StartRun(r) ==
    /\ phase[r] = "idle"
    /\ phase' = [phase EXCEPT ![r] = "seeding"]
    /\ \E q \in Orderings({s \in EnabledSeeds : SeedUrl[s] # NoUrl}) :
          toPlant' = [toPlant EXCEPT ![r] = q]
    /\ UNCHANGED <<tables, planted, rules, crawled, errors, taskVars>>

Planting(r) == phase[r] = "seeding" /\ toPlant[r] # <<>>

(* enqueue_url of the next seed.                                           *)
PlantSeed(r) ==
    LET s == Head(toPlant[r])
        u == SeedUrl[s]
    IN  /\ Planting(r)
        /\ \/ /\ InsertResult(r, u) = "skip"
              /\ UNCHANGED planted
           \/ /\ Inserts(r, u, s) /\ seeds[s] # "deleted"
              /\ planted' = [planted EXCEPT ![r] = @ \cup {s}]
        /\ toPlant' = [toPlant EXCEPT ![r] = Tail(@)]
        /\ UNCHANGED <<tables, phase, rules, crawled, errors, taskVars>>

FailRun(r) ==
    /\ phase' = [phase EXCEPT ![r] = "failed"]
    /\ planted' = [planted EXCEPT ![r] = {}]
    /\ toPlant' = [toPlant EXCEPT ![r] = <<>>]
    /\ UNCHANGED <<tables, rules, crawled, errors, taskVars>>

(* The seed was deleted after the SELECT: the insert violates the foreign  *)
(* key, nothing catches the error and run_crawl ends with it.              *)
PlantSeedGone(r) ==
    /\ Planting(r)
    /\ LET s == Head(toPlant[r])
       IN  Inserts(r, SeedUrl[s], s) /\ seeds[s] = "deleted"
    /\ FailRun(r)

CommitSeeds(r) ==
    /\ phase[r] = "seeding" /\ toPlant[r] = <<>>
    /\ phase' = [phase EXCEPT ![r] = "loading"]
    /\ queue' = [u \in Urls |->
          IF u \in RunKeys(r)
          THEN NewRow(0, CHOOSE s \in planted[r] : SeedUrl[s] = u)
          ELSE queue[u]]
    /\ planted' = [planted EXCEPT ![r] = {}]
    /\ UNCHANGED <<seeds, deleting, pages, jobs,
                   toPlant, rules, crawled, errors, taskVars>>

(* load_scope_rules, the CrawlJob row, its commit, and the worker tasks.   *)
LoadRules(r) ==
    /\ phase[r] = "loading"
    /\ phase' = [phase EXCEPT ![r] = "running"]
    /\ \E q \in Orderings(EnabledSeeds) : rules' = [rules EXCEPT ![r] = q]
    /\ jobs' = [jobs EXCEPT ![r].status = "running"]
    /\ pc' = [t \in Tasks |->
                 IF RunOf[t] # r THEN pc[t]
                 ELSE IF BudgetSpent(r, crawled[r]) THEN "exited" ELSE "claiming"]
    /\ UNCHANGED <<seeds, deleting, queue, pages,
                   toPlant, planted, crawled, errors, claim, toLink, grown>>

(* Mutant of AllExited: the first task to return ends the wait.            *)
AnyExited(r) == \E t \in TasksOf(r) : pc[t] = "exited"

(* What gather waits for.                                                  *)
AllExited(r) == \A t \in TasksOf(r) : pc[t] = "exited"

(* gather returns; the job gets the two totals.                            *)
FinishRun(r) ==
    /\ phase[r] = "running"
    /\ AllExited(r)
    /\ phase' = [phase EXCEPT ![r] = "finished"]
    /\ jobs' = [jobs EXCEPT ![r] = [status |-> "finished",
                                    pages |-> crawled[r], errors |-> errors[r]]]
    /\ UNCHANGED <<seeds, deleting, queue, pages,
                   toPlant, planted, rules, crawled, errors, taskVars>>

-----------------------------------------------------------------------------
(* A worker task: claim a row, fetch, store, expand, commit, count.        *)

GoTo(t, place) == pc' = [pc EXCEPT ![t] = place]

(* Mutant of ClaimRow: the claim is committed at once.                     *)
ClaimRowCommitted(t) ==
    /\ pc[t] = "claiming"
    /\ \E u \in Claimable :
          /\ claim' = [claim EXCEPT ![t] = u]
          /\ queue' = [queue EXCEPT ![u].status = "in_progress"]
    /\ GoTo(t, "fetching")
    /\ UNCHANGED <<seeds, deleting, pages, jobs, runVars, toLink, grown>>

(* _claim_one finds a row.  The UPDATE to in_progress is flushed, not      *)
(* committed.                                                              *)
ClaimRow(t) ==
    /\ pc[t] = "claiming"
    /\ \E u \in Claimable : claim' = [claim EXCEPT ![t] = u]
    /\ GoTo(t, "fetching")
    /\ UNCHANGED <<tables, runVars, toLink, grown>>

(* Mutant of FindNothing: the task asks again instead of returning.        *)
FindNothingPolls(t) ==
    /\ pc[t] = "claiming"
    /\ Available \subseteq Cascading
    /\ UNCHANGED vars

(* _claim_one finds nothing: the task is over.                             *)
FindNothing(t) ==
    /\ pc[t] = "claiming"
    /\ Available \subseteq Cascading
    /\ GoTo(t, "exited")
    /\ UNCHANGED <<tables, runVars, claim, toLink, grown>>

(* Once a run has failed its HTTP client is closed under the tasks that    *)
(* are still going.                                                        *)
OutcomesFor(t) ==
    IF phase[RunOf[t]] = "failed" THEN FetchOutcomes \cup {"error", "raise"}
                                  ELSE FetchOutcomes

FetchPage(t) ==
    /\ pc[t] = "fetching"
    /\ "page" \in OutcomesFor(t)
    /\ GoTo(t, "storing")
    /\ UNCHANGED <<tables, runVars, claim, toLink, grown>>

(* Blocked by robots.txt, or no HTML: the row is closed with an error text *)
(* and committed.                                                          *)
CloseUnindexed(t) ==
    /\ pc[t] = "fetching"
    /\ \E how \in OutcomesFor(t) \cap {"blocked", "error"} :
          queue' = [queue EXCEPT ![claim[t]].err = TRUE,
                      ![claim[t]].status = IF how = "blocked" THEN "done"
                                                              ELSE "error"]
    /\ claim' = [claim EXCEPT ![t] = NoUrl]
    /\ GoTo(t, "countErr")
    /\ UNCHANGED <<seeds, deleting, pages, jobs, runVars, toLink, grown>>

(* Mutant of AbortTask: the rows inserted so far were committed.           *)
AbortTaskKeepsRows(t) ==
    /\ GoTo(t, "gone")
    /\ claim' = [claim EXCEPT ![t] = NoUrl]
    /\ toLink' = [toLink EXCEPT ![t] = {}]
    /\ grown' = [grown EXCEPT ![t] = {}]
    /\ phase' = [phase EXCEPT ![RunOf[t]] = IF @ = "running" THEN "failed" ELSE @]
    /\ queue' = [u \in Urls |-> IF u \in grown[t]
                  THEN NewRow(ChildDepth(queue[claim[t]].depth), Matched(RunOf[t], u))
                  ELSE queue[u]]
    /\ UNCHANGED <<seeds, deleting, pages, jobs,
                   toPlant, planted, rules, crawled, errors>>

(* The transaction is rolled back and the task ends with an exception; it  *)
(* goes through gather and ends run_crawl.                                 *)
AbortTask(t) ==
    /\ GoTo(t, "gone")
    /\ claim' = [claim EXCEPT ![t] = NoUrl]
    /\ toLink' = [toLink EXCEPT ![t] = {}]
    /\ grown' = [grown EXCEPT ![t] = {}]
    /\ phase' = [phase EXCEPT ![RunOf[t]] = IF @ = "running" THEN "failed" ELSE @]
    /\ UNCHANGED <<tables, toPlant, planted, rules, crawled, errors>>

(* _process_row raises.  rollback expires the row, so row.url in the       *)
(* handler raises too and the row is not marked.                           *)
RaiseInTask(t) ==
    /\ pc[t] \in {"fetching", "storing"}
    /\ "raise" \in OutcomesFor(t)
    /\ AbortTask(t)

(* upsert_page and replace_links, not committed yet; then the scope and    *)
(* depth tests of the expansion, whose inputs no longer change.            *)
StorePage(t) ==
    /\ pc[t] = "storing"
    /\ ChecksSeed(claim[t]) => queue[claim[t]].seed \notin deleting
    /\ toLink' = [toLink EXCEPT ![t] =
                     InReach(RunOf[t], claim[t], queue[claim[t]].depth)]
    /\ GoTo(t, "expanding")
    /\ UNCHANGED <<tables, runVars, claim, grown>>

Expanding(t) == pc[t] = "expanding" /\ toLink[t] # {}

(* enqueue_url of the next link.                                           *)
EnqueueLink(t) ==
    LET u == NextLink(t)
        s == Matched(RunOf[t], u)
    IN  /\ Expanding(t)
        /\ \/ /\ InsertResult(t, u) = "skip"
              /\ UNCHANGED grown
           \/ /\ Inserts(t, u, s) /\ seeds[s] # "deleted"
              /\ grown' = [grown EXCEPT ![t] = @ \cup {u}]
        /\ toLink' = [toLink EXCEPT ![t] = @ \ {Min(@)}]
        /\ UNCHANGED <<tables, runVars, pc, claim>>

(* The rule's seed has been deleted since the rules were loaded.           *)
LinkSeedGone(t) ==
    /\ Expanding(t)
    /\ LET u == NextLink(t)
           s == Matched(RunOf[t], u)
       IN  Inserts(t, u, s) /\ seeds[s] = "deleted"
    /\ AbortTask(t)

(* The page, its links, the rows it adds and its own row become visible at *)
(* once.                                                                   *)
CommitPage(t) ==
    LET u == claim[t]
        d == queue[u].depth
    IN  /\ pc[t] = "expanding" /\ toLink[t] = {}
        /\ queue' = [v \in Urls |->
              CASE v = u -> [queue[u] EXCEPT !.status = "done", !.err = FALSE]
                [] v \in grown[t] -> NewRow(ChildDepth(d), Matched(RunOf[t], v))
                [] OTHER -> queue[v]]
        /\ pages' = [pages EXCEPT ![u] =
              [stored |-> TRUE,
               depth |-> IF @.stored /\ @.depth < d THEN @.depth ELSE d,
               seed |-> IF ChecksSeed(u) THEN queue[u].seed ELSE @.seed,
               out |-> Range(Links[u])]]
        /\ claim' = [claim EXCEPT ![t] = NoUrl]
        /\ grown' = [grown EXCEPT ![t] = {}]
        /\ GoTo(t, "countOk")
        /\ UNCHANGED <<seeds, deleting, jobs, runVars, toLink>>

(* Mutant of Count: an error ends the task.                                *)
CountQuits(t) ==
    LET r == RunOf[t] IN
    /\ pc[t] \in {"countOk", "countErr"}
    /\ crawled' = [crawled EXCEPT ![r] = IF pc[t] = "countOk" THEN @ + 1 ELSE @]
    /\ errors' = [errors EXCEPT ![r] = IF pc[t] = "countErr" THEN @ + 1 ELSE @]
    /\ GoTo(t, IF pc[t] = "countErr" THEN "exited" ELSE "claiming")
    /\ UNCHANGED <<tables, phase, toPlant, planted, rules, claim, toLink, grown>>

(* Mutant of Count: the counter written back is the one read before the    *)
(* commit, so the count of a sibling is lost.                              *)
CountStale(t) ==
    LET r == RunOf[t]
        others == {v \in TasksOf(r) \ {t} : pc[v] = "countOk"}
    IN
    /\ pc[t] \in {"countOk", "countErr"}
    /\ crawled' = [crawled EXCEPT ![r] =
                      IF pc[t] = "countOk" /\ others = {} THEN @ + 1 ELSE @]
    /\ errors' = [errors EXCEPT ![r] = IF pc[t] = "countErr" THEN @ + 1 ELSE @]
    /\ GoTo(t, IF BudgetSpent(r, crawled'[r]) THEN "exited" ELSE "claiming")
    /\ UNCHANGED <<tables, phase, toPlant, planted, rules, claim, toLink, grown>>

(* The counter, and the max_pages test of the next turn of the loop.       *)
Count(t) ==
    LET r == RunOf[t] IN
    /\ pc[t] \in {"countOk", "countErr"}
    /\ crawled' = [crawled EXCEPT ![r] = IF pc[t] = "countOk" THEN @ + 1 ELSE @]
    /\ errors' = [errors EXCEPT ![r] = IF pc[t] = "countErr" THEN @ + 1 ELSE @]
    /\ GoTo(t, IF BudgetSpent(r, crawled'[r]) THEN "exited" ELSE "claiming")
    /\ UNCHANGED <<tables, phase, toPlant, planted, rules, claim, toLink, grown>>

-----------------------------------------------------------------------------
(* The end of a process, the administrator, and PostgreSQL.                *)

Stop(T) ==
    /\ pc' = [t \in Tasks |-> IF t \in T THEN "gone" ELSE pc[t]]
    /\ claim' = [t \in Tasks |-> IF t \in T THEN NoUrl ELSE claim[t]]
    /\ toLink' = [t \in Tasks |-> IF t \in T THEN {} ELSE toLink[t]]
    /\ grown' = [t \in Tasks |-> IF t \in T THEN {} ELSE grown[t]]

(* asyncio.run cancels the tasks a failed run left behind; a web or MCP    *)
(* process never does.                                                     *)
CancelTask(t) ==
    /\ phase[RunOf[t]] = "failed"
    /\ pc[t] \notin {"unborn", "exited", "gone"}
    /\ Stop({t})
    /\ UNCHANGED <<tables, runVars>>

(* The process dies; the server rolls its transactions back.               *)
KillRun(r) ==
    /\ "kill" \in Environment
    /\ phase[r] \in {"seeding", "loading", "running", "failed"}
    /\ phase' = [phase EXCEPT ![r] = "killed"]
    /\ toPlant' = [toPlant EXCEPT ![r] = <<>>]
    /\ planted' = [planted EXCEPT ![r] = {}]
    /\ Stop(TasksOf(r))
    /\ UNCHANGED <<tables, rules, crawled, errors>>

AddSeed(s) ==
    /\ "add" \in Environment /\ seeds[s] = "new"
    /\ seeds' = [seeds EXCEPT ![s] = "enabled"]
    /\ UNCHANGED <<deleting, queue, pages, jobs, runVars, taskVars>>

ToggleSeed(s) ==
    /\ "toggle" \in Environment /\ s \notin deleting
    /\ seeds[s] \in {"enabled", "disabled"}
    /\ seeds' = [seeds EXCEPT ![s] = IF @ = "enabled" THEN "disabled" ELSE "enabled"]
    /\ UNCHANGED <<deleting, queue, pages, jobs, runVars, taskVars>>

(* DELETE FROM seeds locks the row, which waits for the KEY SHARE holders. *)
DeleteBegin(s) ==
    /\ "delete" \in Environment
    /\ seeds[s] \in {"enabled", "disabled"} /\ s \notin deleting
    /\ ShareHolders(s) = {}
    /\ deleting' = deleting \cup {s}
    /\ UNCHANGED <<seeds, queue, pages, jobs, runVars, taskVars>>

(* Mutant of Delaying: the cascade deletes rows a task has claimed.        *)
DelayedByNone(s) == {}

(* The cascade waits for the tasks that have claimed one of its rows.      *)
Delaying(s) == {t \in Tasks : Working(t) /\ queue[claim[t]].seed = s}

DeleteFinish(s) ==
    /\ s \in deleting
    /\ Delaying(s) = {}
    /\ seeds' = [seeds EXCEPT ![s] = "deleted"]
    /\ deleting' = deleting \ {s}
    /\ queue' = [u \in Urls |-> IF queue[u].seed = s THEN NoRow ELSE queue[u]]
    /\ pages' = [u \in Urls |-> IF pages[u].seed = s
                                THEN [pages[u] EXCEPT !.seed = NoSeed] ELSE pages[u]]
    /\ UNCHANGED <<jobs, runVars, taskVars>>

(* An insert of u for seed s waits for other writers of the key, for a     *)
(* DELETE that has locked the existing row, and for a DELETE of the seed.  *)
InsertWaits(a, u, s) ==
    (Holders(u) \ {a}) \cup ({queue[u].seed} \cap deleting)
       \cup (IF InsertResult(a, u) = "insert" THEN {s} \cap deleting ELSE {})

Actors == Tasks \cup Runs \cup Seeds
WaitsFor(a) ==
    CASE a \in Tasks /\ pc[a] = "storing" /\ ChecksSeed(claim[a]) ->
              {queue[claim[a]].seed} \cap deleting
      [] a \in Tasks /\ Expanding(a) ->
              InsertWaits(a, NextLink(a), Matched(RunOf[a], NextLink(a)))
      [] a \in Runs /\ Planting(a) ->
              InsertWaits(a, SeedUrl[Head(toPlant[a])], Head(toPlant[a]))
      [] a \in deleting -> Delaying(a)
      [] OTHER -> {}

(* a is in every set that has what a waits for and is closed under waiting.*)
OnCycle(a) ==
    /\ WaitsFor(a) # {}
    /\ \A C \in SUBSET Actors :
          (\A b \in C \cup {a} : WaitsFor(b) \subseteq C) => a \in C

(* PostgreSQL breaks a deadlock by failing one transaction on the cycle.   *)
DeadlockAbort ==
    \/ \E t \in Tasks : OnCycle(t) /\ AbortTask(t)
    \/ \E r \in Runs : OnCycle(r) /\ FailRun(r)
    \/ \E s \in deleting :
          /\ OnCycle(s)
          /\ deleting' = deleting \ {s}
          /\ UNCHANGED <<seeds, queue, pages, jobs, runVars, taskVars>>

(* Every run has ended, no task is left and the administrator is done.     *)
Quiescent ==
    /\ \A r \in Runs : phase[r] \in {"finished", "failed", "killed"}
    /\ \A t \in Tasks : pc[t] \in {"unborn", "exited", "gone"}
    /\ deleting = {}
    /\ UNCHANGED vars

-----------------------------------------------------------------------------
RunStep(r) == PlantSeed(r) \/ PlantSeedGone(r) \/ CommitSeeds(r)
                 \/ LoadRules(r) \/ FinishRun(r)
TaskStep(t) == ClaimRow(t) \/ FindNothing(t) \/ FetchPage(t) \/ CloseUnindexed(t)
                 \/ StorePage(t) \/ EnqueueLink(t) \/ LinkSeedGone(t)
                 \/ CommitPage(t) \/ Count(t)
AdminStep(s) == AddSeed(s) \/ ToggleSeed(s) \/ DeleteBegin(s) \/ DeleteFinish(s)

Next ==
    \/ \E r \in Runs : StartRun(r) \/ RunStep(r) \/ KillRun(r)
    \/ \E t \in Tasks : TaskStep(t) \/ RaiseInTask(t) \/ CancelTask(t)
    \/ \E s \in Seeds : AdminStep(s)
    \/ DeadlockAbort
    \/ Quiescent

Spec == Init /\ [][Next]_vars

(* A coroutine that can go on does, a request ends (timeouts), and         *)
(* PostgreSQL looks for deadlocks.  Nobody has to start or kill a run.     *)
Fairness ==
    /\ \A r \in Runs : WF_vars(RunStep(r))
    /\ \A t \in Tasks : WF_vars(TaskStep(t))
    /\ \A s \in Seeds : WF_vars(DeleteFinish(s))
    /\ WF_vars(DeadlockAbort)

LiveSpec == Spec /\ Fairness

-----------------------------------------------------------------------------
(* What the tables and the tasks keep true.                                *)

(* "without fetching the same URL twice" (worker.py:3-5): one transaction  *)
(* at most has an uncommitted write of a URL's row, be it a claim, the     *)
(* planting of a seed or a link found, whatever mix of tasks and runs.     *)
OneWriterPerUrl ==
    \A u \in Urls : \A a, b \in Holders(u) : a = b

(* What a transaction has written still fits the committed table when it   *)
(* commits: the row it claimed is there and pending, the rows it inserted  *)
(* are not there.                                                          *)
WritesFitTable ==
    /\ \A t \in Tasks : Working(t) => queue[claim[t]].status = "pending"
    /\ \A t \in Tasks : \A u \in grown[t] : queue[u].status = "none"
    /\ \A r \in Runs : \A u \in RunKeys(r) : queue[u].status = "none"

(* The foreign keys hold through the races of the crawler with the         *)
(* deletion of seeds, and a page that has a seed has a row of that seed.   *)
SeedsExist ==
    \A u \in Urls :
        /\ queue[u].status # "none" => seeds[queue[u].seed] \in {"enabled", "disabled"}
        /\ pages[u].seed # NoSeed => queue[u].status # "none"
                                       /\ queue[u].seed = pages[u].seed

(* No row is deeper than the max_depth of the seed it is crawled for, and  *)
(* it is within that seed's scope or is the seed's own URL.                *)
WithinSeed ==
    \A u \in Urls : queue[u].status # "none" =>
        LET s == queue[u].seed
        IN  /\ queue[u].depth <= MaxDepth[s]
            /\ u \in Scope[s] \/ (u = SeedUrl[s] /\ queue[u].depth = 0)

(* Every row is there for a reason that has been committed: it is the URL  *)
(* of its seed, or a page stored at a smaller depth links to it.           *)
Provenance ==
    \A u \in Urls : queue[u].status # "none" =>
        \/ queue[u].depth = 0 /\ u = SeedUrl[queue[u].seed]
        \/ \E v \in Urls : /\ pages[v].stored /\ u \in pages[v].out
                           /\ pages[v].depth < queue[u].depth

(* A stored page comes with its expansion, whoever else was inserting the  *)
(* same URLs and then failed: every link that each matching seed accepts   *)
(* at that depth has a row (as long as nobody edits the seeds).            *)
ExpansionComplete ==
    Environment \cap {"add", "toggle", "delete"} = {} =>
        \A u \in Urls : pages[u].stored =>
            \A v \in pages[u].out :
                LET S == {s \in EnabledSeeds : v \in Scope[s]}
                IN  S # {} /\ (\A s \in S : pages[u].depth < MaxDepth[s])
                      => queue[v].status # "none"

(* When every run has finished, without a cap on pages, nothing is left    *)
(* pending: no task gives up while its sibling can still find new URLs.    *)
Drained ==
    /\ \A r \in Runs : phase[r] = "finished" /\ MaxPages[r] = NoLimit
    /\ "delete" \notin Environment
    => \A u \in Urls : queue[u].status # "pending"

(* max_pages is tested before a page is taken and counted after it is      *)
(* committed, so each task but one can take a page too many, and no more.  *)
BudgetOvershoot ==
    \A r \in Runs : MaxPages[r] # NoLimit =>
        crawled[r] <= IF MaxPages[r] = 0 THEN 0
                      ELSE MaxPages[r] + Cardinality(TasksOf(r)) - 1

(* When every run has finished, the totals of the jobs are the totals of   *)
(* the table: every page taken was counted once and by one run.  (The sum  *)
(* of a count over the runs is the size of the set of what they counted.)  *)
Counted(n) == UNION {{r} \X (1..n[r]) : r \in Runs}
Totals ==
    /\ \A r \in Runs : phase[r] = "finished"
    /\ "delete" \notin Environment
    => /\ Cardinality(Counted([r \in Runs |-> jobs[r].pages]))
            = Cardinality({u \in Urls : queue[u].status = "done" /\ ~queue[u].err})
       /\ Cardinality(Counted([r \in Runs |-> jobs[r].errors]))
            = Cardinality({u \in Urls : queue[u].err})

(* A job is reported finished only when no task of its run can still claim *)
(* or commit anything.                                                     *)
FinishedMeansOver ==
    \A r \in Runs : jobs[r].status = "finished" =>
        \A t \in TasksOf(r) : pc[t] = "exited" /\ ~Working(t) /\ grown[t] = {}

(* The frontier as a whole does what Frontier.tla promises.                *)
Entry == [u \in Urls |->
            CASE queue[u].status = "none" -> "unknown"
              [] queue[u].status = "pending" /\ u \in Available -> "ready"
              [] queue[u].status = "pending" /\ u \notin Available -> "busy"
              [] OTHER -> "closed"]
Abstract == INSTANCE Frontier WITH entry <- Entry
ImplementsFrontier == Abstract!Spec

(* Every run that starts ends, whatever its pages do: no deadlock, no task *)
(* that polls for ever, no wait that nobody ends.                          *)
RunsEnd ==
    \A r \in Runs : phase[r] \in {"seeding", "loading", "running"}
                      ~> phase[r] \in {"finished", "failed", "killed"}

-----------------------------------------------------------------------------
(* What the repository says and its code does not do.                      *)

(* "record and keep going" (worker.py:162): a page that raises costs the   *)
(* run that page, not the run.                                             *)
KeepsGoing == \A r \in Runs : phase[r] # "failed"

(* "lets multiple workers run safely" (README.md:25): workers never block  *)
(* each other for good.                                                    *)
WorkersNeverDeadlock == \A a \in Tasks \cup Runs : ~OnCycle(a)

=============================================================================
