------------------------------- MODULE Index --------------------------------
(***************************************************************************)
(* The tables a search is answered from, and the three kinds of            *)
(* transaction that write them at the same time: a crawl that stores one   *)
(* page with its links (upsert_page and replace_links, index/indexer.py),  *)
(* the PageRank job (ranking/pagerank.py) and the rebuilding of the search *)
(* vectors (reindex_pages).                                                *)
(*                                                                         *)
(* pages, links and resolved hold COMMITTED rows.  PostgreSQL runs each    *)
(* statement at READ COMMITTED: the statement finds its rows in a snapshot *)
(* taken when it starts, then locks them one by one; a row another         *)
(* transaction has written is waited for and then looked at again.  held   *)
(* are the rows a transaction has written and not committed.               *)
(***************************************************************************)
EXTENDS Naturals, Sequences, FiniteSets, Functions

CONSTANTS
    Urls, NoUrl,    \* canonical URLs, which name the rows of pages
    Texts, NoText,  \* what a page may say
    LinksOf,        \* LinksOf[t]: the URLs a page with text t links to
    Stores,         \* transactions that store a page,
    Rankings,       \* calls of compute_pagerank,
    Reindexes,      \* and calls of reindex_pages
    NoRank          \* the rank a page is inserted with

LinkRows == Urls \X Urls
Rows == Urls \cup LinkRows
Txs == Stores \cup Rankings \cup Reindexes

ASSUME IndexAssumption ==
    /\ IsFiniteSet(Urls) /\ NoUrl \notin Urls /\ Urls \cap LinkRows = {}
    /\ NoText \notin Texts /\ LinksOf \in [Texts -> SUBSET Urls]
    /\ NoRank \notin Rankings
    /\ Stores \cap Rankings = {} /\ Stores \cap Reindexes = {}
    /\ Rankings \cap Reindexes = {}

VARIABLES
    pages,      \* the row of each URL; without a text there is none
    links,      \* rows <<source, target>> of links
    resolved,   \* those of them whose dst_page_id is set
    pc,         \* where each transaction is
    todo,       \* rows its statement has yet to write, in order
    held,       \* rows it has written
    doc,        \* the page a store writes
    fresh,      \* the search vectors a reindexing has computed
    edges,      \* the edges a ranking has read
    owed,       \* pages and links that were there when a ranking began
    replaced    \* pages whose links have been replaced since

tables == <<pages, links, resolved>>
rankVars == <<edges, owed, replaced>>
vars == <<pages, links, resolved, pc, todo, held, doc, fresh,
          edges, owed, replaced>>

MaybeText == Texts \cup {NoText}
Page == [text : MaybeText, vector : MaybeText, rank : Rankings \cup {NoRank}]
Places == {"new", "upserting", "unlinking", "resolving", "reading", "writing",
           "indexing", "done"}

TypeOK ==
    /\ pages \in [Urls -> Page]
    /\ links \subseteq LinkRows /\ resolved \subseteq LinkRows
    /\ pc \in [Txs -> Places]
    /\ todo \in [Txs -> Seq(Rows)]
    /\ held \in [Txs -> SUBSET Rows]
    /\ doc \in [Stores -> [url : Urls \cup {NoUrl}, text : MaybeText]]
    /\ fresh \in [Reindexes -> [Urls -> MaybeText]]
    /\ edges \in [Rankings -> SUBSET LinkRows]
    /\ owed \in [Rankings -> [pages : SUBSET Urls, links : SUBSET LinkRows]]
    /\ replaced \in [Rankings -> SUBSET Urls]

NoDoc == [url |-> NoUrl, text |-> NoText]
NoVectors == [u \in Urls |-> NoText]
NothingOwed == [pages |-> {}, links |-> {}]

Stored == {u \in Urls : pages[u].text # NoText}
From(u) == {u} \X Urls

(* Pages crawled before, not ranked yet.                                   *)
Init ==
    /\ \E known \in [Urls -> MaybeText] :
          /\ pages = [u \in Urls |-> [text |-> known[u], vector |-> known[u],
                                      rank |-> NoRank]]
          /\ links = {l \in LinkRows : known[l[1]] # NoText
                                         /\ l[2] \in LinksOf[known[l[1]]]}
    /\ resolved = {}
    /\ pc = [x \in Txs |-> "new"]
    /\ todo = [x \in Txs |-> <<>>]
    /\ held = [x \in Txs |-> {}]
    /\ doc = [s \in Stores |-> NoDoc]
    /\ fresh = [x \in Reindexes |-> NoVectors]
    /\ edges = [r \in Rankings |-> {}]
    /\ owed = [r \in Rankings |-> NothingOwed]
    /\ replaced = [r \in Rankings |-> {}]

-----------------------------------------------------------------------------
(* Row locks.                                                              *)

(* A statement visits its rows in an order of its own.                     *)
Orderings(S) == {q \in [1..Cardinality(S) -> S] : Range(q) = S}

HoldersOf(row, x) == {y \in Txs \ {x} : row \in held[y]}

(* x is in that statement and nobody else has written its next row.        *)
Reaches(x, place) ==
    pc[x] = place /\ todo[x] # <<>> /\ HoldersOf(Head(todo[x]), x) = {}

(* It writes the row, or passes over it.                                   *)
Write(x) ==
    /\ held' = [held EXCEPT ![x] = @ \cup {Head(todo[x])}]
    /\ todo' = [todo EXCEPT ![x] = Tail(@)]
PassOver(x) ==
    /\ todo' = [todo EXCEPT ![x] = Tail(@)]
    /\ UNCHANGED held

Active(x) == pc[x] \notin {"new", "done"}
Through(x, place) == pc[x] = place /\ todo[x] = <<>>

(* The end of a transaction that has replaced the links of the pages anew: *)
(* its rows are free, and what it has read is of no use any more.          *)
End(x, anew) ==
    /\ pc' = [pc EXCEPT ![x] = "done"]
    /\ todo' = [todo EXCEPT ![x] = <<>>]
    /\ held' = [held EXCEPT ![x] = {}]
    /\ doc' = [s \in Stores |-> IF s = x THEN NoDoc ELSE doc[s]]
    /\ fresh' = [i \in Reindexes |-> IF i = x THEN NoVectors ELSE fresh[i]]
    /\ edges' = [r \in Rankings |-> IF r = x THEN {} ELSE edges[r]]
    /\ owed' = [r \in Rankings |-> IF r = x THEN NothingOwed ELSE owed[r]]
    /\ replaced' = [r \in Rankings |-> IF r = x \/ ~Active(r) THEN {}
                                       ELSE replaced[r] \cup anew]

-----------------------------------------------------------------------------
(* A crawl stores a page.                                                  *)

(* A worker has fetched a page; the row of crawl_queue it has claimed      *)
(* keeps other workers from the same URL.                                  *)
BeginStore(s) ==
    /\ pc[s] = "new"
    /\ \E u \in Urls, t \in Texts :
          /\ \A o \in Stores : doc[o].url # u
          /\ doc' = [doc EXCEPT ![s] = [url |-> u, text |-> t]]
          /\ todo' = [todo EXCEPT ![s] = <<u>>]
    /\ pc' = [pc EXCEPT ![s] = "upserting"]
    /\ UNCHANGED <<tables, held, fresh, rankVars>>

(* INSERT ... ON CONFLICT (url) DO UPDATE writes the row of the page; then *)
(* the DELETE finds the links of the page.                                 *)
UpsertPage(s) ==
    /\ Reaches(s, "upserting")
    /\ held' = [held EXCEPT ![s] = @ \cup {Head(todo[s])}]
    /\ pc' = [pc EXCEPT ![s] = "unlinking"]
    /\ \E q \in Orderings(links \cap From(doc[s].url)) :
          todo' = [todo EXCEPT ![s] = q]
    /\ UNCHANGED <<tables, doc, fresh, rankVars>>

DeleteLink(s) ==
    /\ Reaches(s, "unlinking")
    /\ Write(s)
    /\ UNCHANGED <<tables, pc, doc, fresh, rankVars>>

(* Mutant of StoredPage: the upsert writes the rank of the INSERT.         *)
StoredPageUnranked(page, text) ==
    [text |-> text, vector |-> text, rank |-> NoRank]

(* What the upsert makes of the row: the DO UPDATE leaves pagerank alone.  *)
StoredPage(page, text) ==
    [text |-> text, vector |-> text, rank |-> page.rank]

(* replace_links: the rows of the page are those of its new text.          *)
LinksAfter(u, text) == (links \ From(u)) \cup ({u} \X LinksOf[text])

(* The commit.  The new rows of links have no dst_page_id.                 *)
CommitStore(s) ==
    LET u == doc[s].url
        text == doc[s].text
    IN  /\ Through(s, "unlinking")
        /\ pages' = [pages EXCEPT ![u] = StoredPage(@, text)]
        /\ links' = LinksAfter(u, text)
        /\ resolved' = resolved \ From(u)
        /\ End(s, {u})

-----------------------------------------------------------------------------
(* compute_pagerank.                                                       *)

(* resolve_link_targets: the UPDATE finds the links to stored pages whose  *)
(* dst_page_id is not set.                                                 *)
BeginRanking(r) ==
    /\ pc[r] = "new"
    /\ pc' = [pc EXCEPT ![r] = "resolving"]
    /\ \E q \in Orderings({l \in links \ resolved : l[2] \in Stored}) :
          todo' = [todo EXCEPT ![r] = q]
    /\ owed' = [owed EXCEPT ![r] =
          [pages |-> Stored, links |-> {l \in links : l[2] \in Stored}]]
    /\ UNCHANGED <<tables, held, doc, fresh, edges, replaced>>

(* The row is as the statement found it: it is not one that was deleted    *)
(* and inserted again, and nobody has set its dst_page_id.                 *)
StillToResolve(r, l) == l[1] \notin replaced[r] /\ l \notin resolved

ResolveLink(r) ==
    /\ Reaches(r, "resolving")
    /\ IF StillToResolve(r, Head(todo[r])) THEN Write(r) ELSE PassOver(r)
    /\ UNCHANGED <<tables, pc, doc, fresh, rankVars>>

(* The ids of all pages are read.  Without any the job returns, and its    *)
(* session is closed without a commit.                                     *)
ReadPages(r) ==
    /\ Through(r, "resolving")
    /\ IF Stored = {} THEN End(r, {})
       ELSE /\ pc' = [pc EXCEPT ![r] = "reading"]
            /\ \E q \in Orderings(Stored) : todo' = [todo EXCEPT ![r] = q]
            /\ UNCHANGED <<held, doc, fresh, rankVars>>
    /\ UNCHANGED tables

(* Mutant of EdgesSeen: the links resolved by r itself are not seen.       *)
EdgesSeenCommitted(r) == resolved

(* A later statement: what others have committed by now, and what r wrote. *)
EdgesSeen(r) == resolved \cup (held[r] \cap LinkRows)

(* Links of a page to itself are no edges of the graph.                    *)
ReadEdges(r) ==
    /\ pc[r] = "reading"
    /\ pc' = [pc EXCEPT ![r] = "writing"]
    /\ edges' = [edges EXCEPT ![r] = {l \in EdgesSeen(r) : l[1] # l[2]}]
    /\ UNCHANGED <<tables, todo, held, doc, fresh, owed, replaced>>

(* One UPDATE for each page that was read.                                 *)
WriteRank(r) ==
    /\ Reaches(r, "writing")
    /\ Write(r)
    /\ UNCHANGED <<tables, pc, doc, fresh, rankVars>>

CommitRanking(r) ==
    /\ Through(r, "writing")
    /\ pages' = [u \in Urls |-> IF u \in held[r] THEN [pages[u] EXCEPT !.rank = r]
                                                 ELSE pages[u]]
    /\ resolved' = resolved \cup (held[r] \cap LinkRows)
    /\ End(r, {})
    /\ UNCHANGED links

-----------------------------------------------------------------------------
(* reindex_pages.                                                          *)

BeginReindex(x) ==
    /\ pc[x] = "new"
    /\ pc' = [pc EXCEPT ![x] = "indexing"]
    /\ \E q \in Orderings(Stored) : todo' = [todo EXCEPT ![x] = q]
    /\ fresh' = [fresh EXCEPT ![x] = [u \in Urls |-> pages[u].text]]
    /\ UNCHANGED <<tables, held, doc, rankVars>>

(* Mutant of VectorOf: the text is the one the statement found.            *)
VectorOfSnapshot(x, u) == fresh[x][u]

(* The vector is computed from the row as it is once it has been locked.   *)
VectorOf(x, u) == pages[u].text

IndexPage(x) ==
    /\ Reaches(x, "indexing")
    /\ LET u == Head(todo[x])
       IN  fresh' = [fresh EXCEPT ![x][u] = VectorOf(x, u)]
    /\ Write(x)
    /\ UNCHANGED <<tables, pc, doc, rankVars>>

CommitReindex(x) ==
    /\ Through(x, "indexing")
    /\ pages' = [u \in Urls |->
          IF u \in held[x] THEN [pages[u] EXCEPT !.vector = fresh[x][u]]
                           ELSE pages[u]]
    /\ End(x, {})
    /\ UNCHANGED <<links, resolved>>

-----------------------------------------------------------------------------
(* Failures.                                                               *)

(* The process dies or an error ends the transaction; it is rolled back.   *)
Rollback(x) ==
    /\ Active(x)
    /\ End(x, {})
    /\ UNCHANGED tables

WaitsFor(x) == IF todo[x] = <<>> THEN {} ELSE HoldersOf(Head(todo[x]), x)

(* x is in every set that has what x waits for and is closed under waiting.*)
OnCycle(x) ==
    /\ WaitsFor(x) # {}
    /\ \A C \in SUBSET Txs :
          (\A y \in C \cup {x} : WaitsFor(y) \subseteq C) => x \in C

(* Mutant of DeadlockAbort: nobody looks for deadlocks.                    *)
DeadlockIgnored == FALSE /\ UNCHANGED vars

(* PostgreSQL breaks a deadlock by failing one transaction on the cycle.   *)
DeadlockAbort == \E x \in Txs : OnCycle(x) /\ Rollback(x)

Quiescent == (\A x \in Txs : ~Active(x)) /\ UNCHANGED vars

-----------------------------------------------------------------------------
StoreStep(s) == UpsertPage(s) \/ DeleteLink(s) \/ CommitStore(s)
RankingStep(r) == ResolveLink(r) \/ ReadPages(r) \/ ReadEdges(r)
                     \/ WriteRank(r) \/ CommitRanking(r)
ReindexStep(x) == IndexPage(x) \/ CommitReindex(x)

Next ==
    \/ \E s \in Stores : BeginStore(s) \/ StoreStep(s)
    \/ \E r \in Rankings : BeginRanking(r) \/ RankingStep(r)
    \/ \E x \in Reindexes : BeginReindex(x) \/ ReindexStep(x)
    \/ \E x \in Txs : Rollback(x)
    \/ DeadlockAbort
    \/ Quiescent

Spec == Init /\ [][Next]_vars

(* A transaction that can go on does, and PostgreSQL looks for deadlocks.  *)
Fairness ==
    /\ \A s \in Stores : WF_vars(StoreStep(s))
    /\ \A r \in Rankings : WF_vars(RankingStep(r))
    /\ \A x \in Reindexes : WF_vars(ReindexStep(x))
    /\ WF_vars(DeadlockAbort)

LiveSpec == Spec /\ Fairness

-----------------------------------------------------------------------------
(* The three tables belong together, whoever has written them in whatever  *)
(* order: the search vector of a page is that of its text, its links are   *)
(* those of its text, and a resolved link is one of them and leads to a    *)
(* page that is there.                                                     *)
TablesAgree ==
    /\ \A u \in Urls : pages[u].vector = pages[u].text
    /\ links = {l \in LinkRows : l[1] \in Stored /\ l[2] \in LinksOf[pages[l[1]].text]}
    /\ resolved \subseteq {l \in links : l[2] \in Stored}

(* A ranking misses no link between two pages that were there when it      *)
(* began, be it resolved by itself, before it or by another ranking at the *)
(* same time, unless the page was crawled anew in between.                 *)
NoEdgeLost ==
    \A r \in Rankings : pc[r] = "writing" =>
        \A l \in owed[r].links :
            l[1] # l[2] /\ l[1] \notin replaced[r] => l \in edges[r]

(* What a search sees changes as Corpus.tla says: page by page when a page *)
(* is stored, all ranks at once when a ranking ends, and never by a        *)
(* reindexing.                                                             *)
Shown == [u \in Urls |-> [text |-> pages[u].text, words |-> pages[u].vector,
                          rank |-> pages[u].rank]]
RankingState == [r \in Rankings |->
    [state |-> CASE pc[r] = "new" -> "new" [] pc[r] = "done" -> "over"
                 [] OTHER -> "begun",
     owed |-> owed[r].pages]]
Search == INSTANCE Corpus WITH shown <- Shown, ranking <- RankingState
ImplementsCorpus == Search!Spec

(* The transactions that have begun end, although crawls, rankings and     *)
(* reindexings write the same rows in different orders.                    *)
TransactionsEnd == (\E x \in Txs : Active(x)) ~> (\A x \in Txs : ~Active(x))

=============================================================================
