# TLA+ models and proofs for pse

pse is a personal search engine: a crawler fills PostgreSQL with pages, a web
server and an MCP server search them, and the user curates the seeds the crawl
starts from. This directory models the parts of it that run concurrently and the
rules that decide what is crawled, checks them with TLC on small instances, and
proves the central properties with TLAPS for every instance. All paths below are relative to the repository.

## The system

| Part | State | Operations | Interacts by |
| --- | --- | --- | --- |
| Crawl run (`app/crawler/worker.py`) | `crawl_queue`, `crawl_jobs`, two counters and the tasks of a run | `run_crawl`, `enqueue_seeds`, `worker_task`, `_claim_one`, `_process_row`, `enqueue_url` | rows of the tables, with other runs in the same or other processes |
| Page store (`app/index/indexer.py`) | `pages`, `links` | `upsert_page`, `replace_links`, `reindex_pages` | called in the crawl's transactions; by the administrator |
| Scope (`app/crawler/scope.py`) | none (rules are a list a run holds) | `match_scope` | `seeds` |
| Fetcher, robots (`app/crawler/fetcher.py`, `robots.py`) | a lock and a time per host; a parser per site | `fetch`, `allowed` | shared by the tasks of a run; HTTP |
| Self-seeding (`app/seeding/`, `/go`) | `seeds`, `discovered_domains` | `record_click`, `add_domains_as_seeds` | search clicks; the review |
| Administration (`app/routers/admin.py`, `app/mcp_server.py`) | `seeds`, `discovered_domains`, `peers` | create, toggle, delete, import, approve, reject; start a crawl, PageRank, reindex | HTTP requests, tool calls, background tasks in the server |
| Federation (`app/federation/client.py`) | `peers` | `federated_hits` | a task per peer, merged by three fronts |
| Ranking (`app/ranking/pagerank.py`) | `pages.pagerank`, `links.dst_page_id` | `compute_pagerank` | rows crawls and reindexing also write |
| Local search, statistics | none | one SELECT each | read committed rows |
| URLs, parser (`app/urls.py`, `app/crawler/parser.py`) | none | `normalize_url`, `registrable_domain`, `parse_html` | their results are keys of the tables |
| Worker container (`docker-compose.yml`) | none | crawl, rank, sleep, for ever | the tables |
| Importers' parsers | none | pure functions | |

What makes it hard: several tasks of several processes share one table, and
PostgreSQL's row locks, unique keys, foreign keys and deadlock detection decide
what happens when they meet; a transaction spans network requests, so any of
them can be cut short by an error, a cancellation or the end of the process;
rules, checks and caches are read before an `await` and used after it; a budget
of time or of pages races the work it is to limit.

What makes each part correct:

- *Crawl*: a URL has one writer at a time; closing a page and publishing its
  links is atomic; nothing is left over, lost or counted twice; rows stay within
  scope and depth of their seed; every run ends; `max_pages` is kept as far as it
  is. Modelled in `Crawler`.
- *Fetcher and robots*: pages of a host are spaced, the lock is always with a
  live task, whoever waits is served, guarded pages are not requested.
  Modelled in `Politeness`.
- *Self-seeding and review*: additions are all or nothing, approval implies a seed,
  a seed that still waits for review can be told from an approval that was cut off
  and is settled by the next, clicks count and never undo a decision.
  Modelled in `SelfSeeding`.
- *Search*: turning pages passes over nothing while the index grows; of the peers'
  answers those in time count, local hits come first and are not repeated; the
  search ends whatever peers do, with an error only if one sent what a front cannot
  take. Modelled in `Federation`.
- *Page store and ranking*: texts, search vectors and links belong together whoever
  wrote them; a ranking misses no link and becomes visible all at once; crawls that
  store a page again keep its rank; no transaction hangs. Modelled in `Index`.
- *URLs and scope*: one resource has one canonical URL, an accepted link has to do
  with the seed that is charged for it, and approving a domain covers the links it
  was proposed for. Modelled in `Scoping`.
- *Deployment*: what fails or dies leaves no row stuck; every URL is crawled, every
  page ranked and every enabled seed reached, as long as the worker's loop goes on.
  Modelled in `Service`.

The full list of hazards, each at its line with the properties about it, is in
`PROJECT.json`.

## Modules

| Module | Role |
| --- | --- |
| `Frontier` | abstract: what a crawl frontier promises, in five steps on a map from URLs to four states |
| `Crawler` | the runs, their tasks, the tables, the administrator's seeds and PostgreSQL's locks |
| `CrawlerProofs` | type correctness, `OneWriterPerUrl`, `WritesFitTable`, and that `Crawler` implements `Frontier` |
| `CrawlerTables` | `WithinSeed`, `BudgetOvershoot`, `FinishedMeansOver`, `Drained`, `Provenance`, `SeedsExist`, `ExpansionComplete`, `Totals` |
| `Politeness` | the Fetcher and the RobotsCache of one run |
| `PolitenessProofs` | `PagesSpaced`, `GuardRespected`, `LockSound` |
| `SelfSeeding` | clicks, review, imports and edits of seeds as concurrent requests |
| `SelfSeedingProofs` | all five properties of `SelfSeeding` that its run `Seeding` checks |
| `Federation` | a search page by page, and its peers |
| `FederationProofs` | type correctness, `AnswersKept`, `NothingSkipped`, `BestHits` |
| `Corpus` | abstract: what a search may see of the index |
| `Index` | crawls that store pages, rankings and reindexings as transactions on the same rows |
| `IndexProofs` | `TablesAgree`, `NoEdgeLost`, and that `Index` implements `Corpus` |
| `Scoping` | from the anchors of a page to offered links and proposed domains |
| `ScopingProofs` | all five properties of `Scoping` |
| `Service` | the worker's loop, background crawls and rankings by hand, over the steps of `Frontier` |
| `ServiceProofs` | `LeftBehind`, `SharesFrontier` |
| `MCCrawler`, `MCPoliteness`, `MCSelfSeeding`, `MCFederation`, `MCIndex`, `MCScoping`, `MCService` | small instances for TLC |

How they fit together: `Crawler` implements `Frontier`, and `Service` uses the steps of
`Frontier` for each of its crawls, so that what several processes do to the queue
can be checked without their tasks and transactions. `Crawler` is given the rows of
`pages` and `links` as sets of URLs; `Index` looks at their contents. `Crawler`'s constants
`Scope` and `Links` are what `Scoping` computes for one page.

Definitions called *mutant of* another are the plausible bugs the properties are
tested with: replacing the definition by its mutant must violate the property.

### Crawler and its database

The tables hold *committed* rows only, as functions of their unique keys. What a
transaction has written and not committed belongs to the task or run that wrote
it: `claim` (the row a task has selected and set to `in_progress`), `grown` (rows
it inserted for links), `planted` (rows `enqueue_seeds` inserted). Commit moves
them to the tables, and a rollback of any kind (an exception, a cancelled task, a
killed process, a deadlock) only forgets them. This is also why `in_progress` is
not a status in the model: the code never commits it.

PostgreSQL under READ COMMITTED is modelled by what these transactions can tell:

- `Available`: `FOR UPDATE SKIP LOCKED` passes over rows that are locked.
- `Holders`, `InsertWaits`: `INSERT ... ON CONFLICT DO NOTHING` waits for any
  uncommitted write of the same key, including an update of an existing row.
- `ChecksSeed`, `ShareHolders`: an insert with a foreign key to a seed locks the
  seed's row against deletion and fails if the row is gone.
- `Cascading`, `Delaying`: a DELETE of a seed cascades to rows of the queue and
  waits for those in uncommitted transactions.
- `WaitsFor`, `OnCycle`, `DeadlockAbort`: one transaction of a cycle of waits is
  aborted.

SQLAlchemy matters twice: `expire_on_commit=False` keeps objects readable after a
commit, but `rollback` expires them, and reading an expired attribute outside its
greenlet raises. So `AbortTask`, the handler of worker.py:162-171, itself raises at
line 164: a page that raises ends the run (`FindsKeepsGoing`). Siblings of a task that
ended the run go on as orphans (`phase = "failed"` while tasks still work).

Actions follow the transactions: `StartRun`, `PlantSeed`, `CommitSeeds`,
`LoadRules`, `FinishRun` are `run_crawl`; `ClaimRow`, `FindNothing`, `FetchPage`,
`StorePage`, `EnqueueLink`, `CommitPage`, `CloseUnindexed`, `Count` a round of
`worker_task`; `RaiseInTask`, `CancelTask`, `KillRun`, `DeadlockAbort` the ways a
round is cut short; `AddSeed`, `ToggleSeed`, `DeleteBegin`, `DeleteFinish` the
administrator. Links are enqueued one by one, since each INSERT may wait.
Scope matching is the constant `Scope`, in the order in which the SELECT happened
to return the seeds; the web is the constant `Links`.

### Politeness

A step lasts from one `await` to the next. Clock values are kept as ages up to
the delay, which is all the code compares. `sincePage`, `early` and `unread` only
observe. asyncio.Lock hands a released lock to the first waiter (`PassLock`).
A task that finds a forbidden page leaves at once. A robots.txt may fail to load
at any time, which allows everything, and two tasks may load the same one: the
later result stays, so a failure can replace rules (`LoadRobots`). Requests that
do not go through the Fetcher (robots.txt itself, redirects the client follows)
have neither lock nor delay; `PagesSpaced` is about the others.

### SelfSeeding

Each request is a transaction script: what it read is in `saw`, what it decides
follows from that, and PostgreSQL's unique key on `seeds.value` is the condition
that tells `InsertSeeds` from `InsertClashes`. A request of kind "autoClick" is a
click on a server that runs with `self_seed_auto_add`; mixing both kinds covers a
server restarted with the other setting. `Lose` is the server stopping anywhere.
Approval commits the seed and the status separately, as the code does: cut off between
importers.py:126 and admin.py:144-145 (mcp_server.py:342-343), it leaves a seed whose domain
still waits for review. `ApprovedIsSeed` excludes the reverse, and `ReviewSettled` says
that nothing else leaves such seeds behind, except adding them in another way, and
that approving again marks them, although there is nothing left to add. Seeds are
domain-scoped, so "in scope" is "is an enabled seed"; ids distinguish a seed from a
later one of the same value.

### Federation

A search is answered page by page (`Search`, `NextPage`, `PrevPage`), and between two
pages the index may change (`ChangeIndex`): what the index has for the query is one of
the constant `Corpora`, since scores are PostgreSQL's. `ORDER BY score` leaves ties open,
so every request may order them anew (`ByScore`); the total is a column of the rows
found, and is 0 where a page has none. The first page of a search may ask peers. Their
answers are constants; which query ends when, fails, or is cancelled is
nondeterministic, against a budget in ticks. A hit of a peer is known by its place, the
peer's in the order of the queries and its own in the answer (`Pool`): the stable sort by
score is the order `Before` on places, the first `Limit` of them are `Remote`, and
`Fresh` is what is left of these next to the local hits, in order. The three fronts merge alike, and
`last_ok_at` is committed before they do (`Merging`). The fields of a hit are taken over
unseen (client.py:84): one whose url is a list or an object (`form` "unhashable") makes
`h.url not in seen` raise in each front, and one whose types the JSON API refuses ("odd")
fails the answer of that front alone (`MergeFails`). Scores are numbers; what else
float() accepts (NaN, infinity) is left out. Only a federated search page has no
pager. `first`, `seen` and `steady` only observe.

### Index and Corpus

`pages`, `links` and `resolved` are committed rows; `held` are the rows a transaction has
written, and `doc`, `fresh` and `edges` what it is going to commit or has read. Each
statement of the code is one or more actions: it finds its rows in a snapshot, in an order
of its own (`Orderings`), and then writes them one by one; a row that another
transaction holds is waited for (`Reaches`) and looked at again (`StillToResolve`,
`VectorOf`), as READ COMMITTED does. `CommitStore` is `upsert_page` with `replace_links`;
`ResolveLink` to `CommitRanking` are `compute_pagerank`; `IndexPage` is `reindex_pages`.
`Rollback` is any end without a commit, and `DeadlockAbort` PostgreSQL's choice of a
victim. A rank is known by the ranking that computed it: its value is networkx's, and
no property is about it. `owed` and `replaced` only observe. Two stores never have the
same URL at the same time: the row of `crawl_queue` sees to that (`OneWriterPerUrl` of
`Crawler`). The parser's and the crawler's part of a store is before `BeginStore`.

`Corpus` says the same without statements and locks: storing, ranking and giving up
are single steps, and a reindexing is not seen at all.

### Scoping

URLs are records of their parts; hosts and paths are sequences of tokens, so that
prefixes and suffixes can be told apart without spelling strings. The tokens of each
part are a constant, of kinds that cannot be confused where one part ends and the next
begins (`TokenAssumption`): a port begins with a colon, a path with a slash, a query with
a question mark. What the code
compares as strings is compared as the sequence of all tokens (`Text`), which is how
a prefix seed `https://a.com/docs` comes to accept `https://a.com/docsx`. `Join` is what
urljoin does to the references at hand, and `SuffixList` stands for the public suffixes
of tldextract. One behaviour is one page: its anchors are parsed in order
(`ParseAnchor`), then each link is matched with the seeds (`OfferLink`, `LeaveLink`), and
a click may propose the domains of the rest (`Click`). `Same` and `SameSite` are
reference definitions in terms of RFC 3986 and of the suffix list; they do not use the
code's own functions.

### Service

The worker container starts a crawl, then a ranking, then sleeps, whatever became of
the crawl; the web and the MCP server run crawls in the background of their own
process. In the worker, a page that raises ends the process with all its tasks
(`CutShort`); in a server only the run ends, and the other tasks go on as
orphans (`TaskRaises`, `OrphansEnd`). A row a crawl stops working on is ready again
(`Released`), which is what `CrawlerProofs!Refinement` shows of a rollback. A ranking is its
two moments that others can tell: `ReadPages` and `PublishRanks`. Seeds are added,
disabled and enabled (`EditSeed`); deleting one, with its rows, is in `Crawler`.

## What is checked

| Run | Instance | Shows |
| --- | --- | --- |
| `CrawlerTasks` | 3 tasks of 1 run; 5 URLs: a diamond whose middle pages link to each other, and a link out of scope | types, provenance of rows, nothing left pending, refinement of `Frontier` |
| `CrawlerRuns` | 2 runs (2 tasks with cap 1, and 1 without a cap), 2 overlapping seeds, 3 URLs in a cycle; fairness | one writer, complete expansion, totals, finished jobs are over, the cap is overshot by at most tasks - 1, every run ends |
| `CrawlerAdmin` | 2 runs; seeds added, toggled, deleted meanwhile | commits fit, foreign keys, scope and depth |
| `Polite` | 3 tasks, 2 sites of one host, delay 2; fairness | spacing, lock, rules, whoever waits is served |
| `Seeding` | 3 requests of any kind, 2 domains, 1 waiting for review | additions, approval and what a cut-off one leaves, counting, decisions |
| `FederationSearch` | up to 5 local hits on pages of 2, 6 corpora, 1 change of the index; 2 peers, budget 1; fairness | no hit is passed over, kept answers, merging, best hits, the search ends and when it fails |
| `Indexing` | 2 pages, 2 texts, 1 store, 2 rankings, 1 reindexing; fairness | the tables agree, no edge is lost, refinement of `Corpus`, transactions end |
| `Scoping` | 2 pages with up to 2 of 19 anchors, every pair of 9 seeds | canonical URLs, scope, what a domain seed accepts, what approval covers |
| `Deployed` | the worker, a background crawl with cap 1, a ranking by hand; 3 URLs, 2 of them seeds; 1 failure, 1 edit; fairness | nothing left behind, refinement of `Frontier`, every URL crawled, every page ranked, every seed reached |

The bounds are the least at which the interesting cases happen: three tasks let
two race while a third looks for work, and can form a cycle of waits; pages that
link to each other make tasks deadlock, a diamond makes two pages find one URL;
two runs with overlapping seeds meet in `enqueue_seeds` as well as on links; a delay
of two ticks leaves a moment in which a second request would be early; three requests
let one change what another has read while a third acts between its two commits. Two
rankings resolve the same links while a store replaces them and a reindexing, which
visits pages in another order, closes a cycle of waits. Two anchors are what it takes
to write one resource twice, and two seeds to have one match before the other. Three
local pages of search have a full one, one that is not full, and a hit that moves
from one to the next. In `Deployed` the capped crawl leaves work to the loop, and
a failure can hit each process at each point. No run uses symmetry.

`Polite` has one host, so that three tasks contend for it; hosts share nothing but
the tasks, and the module lets any number of them be.

Bounds that no code has, each a constant with its meaning in the module: `MaxChanges`
of `Federation` (changes of the index during a search), `MaxAnchors` of `Scoping`
(anchors of a page), `MaxFailures` and `MaxEdits` of `Service`. Without `MaxFailures`,
nothing would have to be crawled at all, if every attempt may fail; the theorems about
`Service` hold for any value of both. The other counters need no cap: rows are processed
once, requests are finitely many, ages stop at the delay.

### Fairness

- *Crawler*: coroutines that can go on do, requests end (`crawl_timeout`), DELETE
  statements end when nothing blocks them, PostgreSQL looks for deadlocks
  (`deadlock_timeout`). Nobody has to start, kill or cancel a run, and no page has to
  succeed.
- *Politeness*: time passes, coroutines that can go on do, requests end. Nobody has
  to hand out URLs or cancel.
- *Federation*: time passes and the server goes on. No peer has to answer: the
  budget alone ends the search. The reader need not turn pages.
- *Index*: a transaction that has begun and can go on does, and PostgreSQL looks for
  deadlocks. Nothing has to begin.
- *Service*: the container's loop goes on (an `sh` loop that ignores the exit
  codes of the crawl and the ranking), and crawls and rankings that can go on do. Nobody has to
  start a crawl or a ranking by hand; any run may be cut short, but not for ever.

### Where the code differs from what the repository says

Each of these runs checks one such statement and finds a behaviour of the model
that breaks it:

| Run | Says | Does |
| --- | --- | --- |
| `FindsKeepsGoing` | worker.py:162 "record and keep going" | the handler raises; the run ends, its job stays running |
| `FindsDeadlock` | README.md:19-20 "lets multiple workers run safely" | pages that link to each other deadlock their tasks |
| `FindsClickFails` | routers/search.py:62 "must never block navigation" | a lost race fails the click |

Others show in the models without a run of their own:

- `max_pages` ("up to", worker.py:127) is overshot; `BudgetOvershoot` says by how much.
- Rows of seeds disabled since are still crawled (against scope.py:4, "only if
  it matches at least one *enabled* seed"); `WithinSeed` says what does hold.
- `in_progress` is never committed, so the progress report (mcp_server.py:266) always
  counts none.
- robots.txt and redirects are not delayed (against .env.example:9).
- A peer can break the search (against client.py:52, "a flaky peer must not break the
  search"): a url in its answer that is a list or an object fails it in all three fronts
  (routers/search.py:36, api.py:51, mcp_server.py:119), a null url that of the JSON API.
  `SearchEnds` names both, and that nothing else makes a search fail.
- A rejected domain comes back as a seed when clicks add seeds at once (against
  mcp_server.py:348); `DecisionsStick` is about the review queue.
- A ranking does not rank pages that are stored after it has read the ids (against
  "so every page is ranked", pagerank.py:56); `Corpus` says which pages it owes a rank, and
  `EventuallyRanked` that the others get theirs later.
- Hits with equal scores may change places between two requests and be shown
  twice or never (search.py:54); `NothingSkipped` leaves them out.
- A prefix seed accepts whatever begins with its text, so `/docs` also matches `/docsx`,
  and the seed of an empty path becomes `/` (against "drop a trailing slash",
  urls.py:87); `WithinScope` is worded accordingly.
- A domain seed entered as `localhost:8000` accepts nothing, since its "domain" keeps the
  port, nor does a seed with a port and no host (`http://:80/`) accept its own page;
  `AcceptsItself` excludes both by name (`Reachable`).
- A page that raises every time is retried by every run and can keep the loop from the
  others: `EventuallyCrawled` holds because failures are bounded.

## What is proved

All from the named assumptions of each module (finitely many tasks, seeds or
requests; types of the constants) and nothing else: `Crawler` for every web, scope,
number of runs and tasks, outcome and environment; `Politeness` for any tasks, hosts,
sites and delay; `SelfSeeding` for any requests, domains and pages; `Index` for any pages,
texts, links and numbers of transactions; `Federation` for any finite set of peers, any
answers, corpora, page size, budget and number of changes; `Scoping` for any pages,
anchors, seeds, list of public suffixes and tokens; `Service` for any URLs, seeds, crawls, rankings,
caps, concurrency, failures and edits.

1. `CrawlerProofs!TypeSafe`: `Spec => []TypeOK`. The induction needs `TaskShape` (a
   task has a row exactly in the three places where it works on one, and links or
   insertions only while it expands) and `RunShape` (tasks exist only once rules
   are loaded; planted rows only while seeding).
2. `CrawlerProofs!OneWriter` and `WritesFit`: `OneWriterPerUrl` and `WritesFitTable` are inductive only
   together, relative to 1 (`KeyInv`): a claim is exclusive because what is claimed
   is pending and what is inserted is not there; that stays so because nobody else
   holds the key.
3. `CrawlerProofs!Refinement`: every step is a step of `Frontier` under the
   mapping `Entry` or leaves it unchanged. `KeyInv` makes each abstract step's guard true: what a
   commit publishes was unknown, what a rollback gives back was busy.
4. `CrawlerTables!SeedBounds`: `WithinSeed`, strengthened by what the links in
   flight satisfy (`LinksFit`); it needs 2, so that a commit cannot change the
   depth of a row another task is expanding.
5. `CrawlerTables!Budget`: `BudgetOvershoot`, strengthened to pages counted plus
   tasks still at work (`BudgetInv`).
6. `PolitenessProofs!Spacing`: `PagesSpaced` only says what has been requested. The
   invariant (`SpacedInv`) adds why: the Fetcher's clock of a host agrees with its
   pages, and a task that sleeps has the lock of its host and wakes no earlier than
   the delay (`SleepsEnough`), so that nobody resets the clock while it sleeps.
7. `PolitenessProofs!RulesObeyed`: `GuardRespected`, from what a cached parser can be
   (`CacheHonest`): a guarded site has an empty one only if its file failed to load.
8. `SelfSeedingProofs!Decided` needs the types and which kind of request can be at which
   step (`KindsFit`). `Settled` is `ReviewSettled`, from `SettledInv`: what an approval has
   read of its domain still says where the domain is at least (`Reviewed`, since no step
   takes a decision back: `StatusOnward`), and every seed that nobody has decided about
   has a request behind it, also one that no click has harvested yet. `Promoted` and `Added` are one invariant
   (`AddedInv`): seeds that a request has seen are still seeds when it inserts the
   rest, so after the insert all its domains are, and stay so until it marks them.
   This is where "no seed has been deleted" is needed, and `StillDeleted` shows that a
   deletion is not forgotten. `Counts` is `EveryClickCounts`, by the cardinality of the set of clicks.
9. `IndexProofs!TablesAlwaysAgree`, `EdgesAllSeen`: one invariant (`IndexInv`). A row is
   held by one transaction (`Exclusive`), and what each is going to commit fits the
   tables as long as it holds its rows: a store holds its page and has found all
   links it must delete (`StoreGood`); what a ranking still owes is resolved, held or
   ahead of it, and what it holds is there (`RankGood`); the vectors a reindexing has
   computed are those of the texts (`FreshGood`). A commit keeps these of all others
   because the rows it changes are its own, which is `Exclusive` again.
10. `IndexProofs!IndexImplementsCorpus`: under the mapping `Shown` and `RankingState`, a
   commit is the one step of `Corpus` that a transaction takes; that a reindexing changes
   nothing is `TablesAgree` with `FreshGood`, and that a ranking pays what it owes is in
   `RankGood`.
11. `ServiceProofs!NothingLeftBehind`, `OneFrontier`: `LeftBehind` and `SharesFrontier`, from
   `HeldOnce` (a busy URL is in the hands of exactly one crawl) and `FewStale` (what
   has failed accounts for the stale jobs, by cardinality).

12. `CrawlerTables!JobsOver`: `FinishedMeansOver`; a finished run's tasks have all exited
   (`OverInv`), and no step wakes one.
13. `CrawlerTables!NothingLeft`: `Drained`, from `DrainInv`: as long as a row is
   pending, some run has not come to its tasks or was cut short, or some task goes on.
   A task that finds nothing leaves because others have claimed the rest, and it is
   these that go on. It needs every run to have a task (`crawl_concurrency` of at least 1).
14. `CrawlerTables!RowsHaveReasons`: `Provenance`; the reason of a row stays one because the
   links of a page are those of its URL and its depth only falls, and what a task is
   about to commit are links of its page (`ProvInv`).
15. `CrawlerTables!SeedsStay`: `SeedsExist`; a seed for which a transaction has inserted
   rows is there and not being deleted (`Pinned`), since a deletion waits for those
   that hold its key (`ShareHolders`) and an insert for the deletion. It needs 4 for
   the seeds of links to be seeds, and 2 for inserted rows to be new.
16. `CrawlerTables!LinksFollow`: `ExpansionComplete`, from `LinksSettled`: each link within
   reach is yet to come, inserted by the task itself, or in the table. A task leaves
   a link out only once the row is committed, because it waits for whoever has
   inserted it; that a claimed row keeps its depth meanwhile is 2 again.
17. `CrawlerTables!TotalsAgree`: `Totals`. A sum over the runs is the cardinality of the set of
   what they counted (`Counted`), so that one page more is one element more. As long as no
   run has been cut short, what is counted and what tasks have committed and are about
   to count (a step of its own in the code) are together the closed rows (`TotalInv`).
18. `PolitenessProofs!LocksSound`: `LockSound`, from `LockInv`: the holder and the waiters of a lock
   are distinct, and are exactly the tasks at the steps between asking for it and giving it
   back. A cancelled waiter is removed from the middle of the queue, and what is left of a
   sequence without repetition has none either.
19. `FederationProofs!FederationTypes`: types, and `Shape`: no peer has a task that was not
   asked, none is asked twice, and the local hits wait unchanged for the merge.
   `AnswersAreKept` is `AnswersKept`, for which it suffices to look at each step.
20. `FederationProofs!NoneSkipped`: `NothingSkipped`, from `SkipInv`: a hit of the first page's index
   that has not been seen, and has the score of no other, stands behind the page in every
   order of the database (`Ahead` has `page * Limit` hits), and was counted in the total,
   so that the pager goes on. Pages that are added can only push it further back.
   That the total is 0 on an empty page is why the invariant must speak of it.
21. `FederationProofs!BestAreShown`: `BestHits`. A delivered hit is among `Remote` or has `Limit` places
   before it; these are different hits of `Above`, by an injection from the places in the
   order of the queries to those in the order of the peers.
22. `ScopingProofs`: one invariant (`ScopingInvariant`) says what the links, offers and proposals
   so far are in terms of the operators; the rest are facts about these for any input.
   `LinksAreResources`: two URLs are the same resource if and only if their canonical forms are
   equal (`SameIs`). `LinksMeetSeeds` follows for the URL that is planted, which
   is also the text of the rule. `OfferedWithinScope`: equal registrable domains are one
   site (`OneSite`), and a canonical URL whose text begins with another's has its host and
   port (`PrefixMeets`), because a path begins with a slash. `SeedsAcceptThemselves` and `ApprovedDomainsCover`: the
   registrable domain of a registrable domain is itself (`RegistrableTwice`).

So every safety property, action property and refinement that a run checks is a theorem.
Only model-checked is liveness (`RunsEnd`, `Served`, `SearchEnds`, `TransactionsEnd`,
`EventuallyCrawled`, `EventuallyRanked`, `SeedsReached`), which is beyond the prover. The theorems
about sequences use the library's definitions of sorting, reversing and enumerating as
what they are, sets and functions; none needs an induction over data.

## Not modelled

`PROJECT.json` gives the reason for each. In short: presentation, configuration, assembly
and one-shot scripts have no state of their own; which pages match a query and how they
score is PostgreSQL's full-text ranking; the value of a rank is networkx's; extraction of
text and the parsing of OPML, bookmarks and lists are pure and make nothing but lists;
tools and pages that only read change nothing. The creation of a peer is the
check-then-insert of `SelfSeeding` on another table. User names in URLs and
white space in references are left out of `Scoping`.

## Plan

Done, in order of importance: `Frontier`, `Crawler` and its proofs; `Politeness`;
`SelfSeeding`; `Federation`; `Index` with `Corpus`; `Service`; `Scoping`; paging and totals
of the local search, in `Federation`; proofs of every safety property.

Left: the deletion of seeds in `Service`, which `Frontier` allows.

Abstract specifications worth adding: a rate limiter that `Politeness` implements,
and a review of domains in single steps that `SelfSeeding` implements.
