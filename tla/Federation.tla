----------------------------- MODULE Federation -----------------------------
(***************************************************************************)
(* A search, page by page, while the index changes (index/search.py), and  *)
(* one that asks peers as well: on its first page the local hits come      *)
(* first, then every enabled peer is queried in a task of its own under    *)
(* one wall-clock budget (federation/client.py), and what has come in time *)
(* is merged (routers/api.py, routers/search.py, mcp_server.py).           *)
(***************************************************************************)
EXTENDS Naturals, Sequences, FiniteSets, SequencesExt

CONSTANTS
    Peers,
    Fronts,     \* where the search comes from: "api", "page" or "tool"
    Corpora,    \* what the local index may have for the query: sets of hits
    PeerHits,   \* PeerHits[p]: what peer p would answer
    Limit,      \* the page size, which limits the remote hits too
    Budget,     \* settings.federation_timeout, in ticks
    MaxChanges  \* bound: changes of the index between the pages of a search

(* _query_peer takes over the fields of a peer's hit unseen.  One is "odd" *)
(* if the JSON API refuses the type of a field, such as a null url, and    *)
(* "unhashable" if its url is a list or an object, for which no set of     *)
(* URLs can be asked.                                                      *)
Hit == [url : STRING, score : Nat, form : {"plain", "odd", "unhashable"}]

ASSUME FederationAssumption ==
    /\ IsFiniteSet(Peers)
    /\ Fronts \subseteq {"api", "page", "tool"}
    /\ \A hits \in Corpora :
          /\ IsFiniteSet(hits) /\ hits \subseteq Hit
          /\ \A h, g \in hits : h.form = "plain" /\ (h.url = g.url => h = g)
    /\ PeerHits \in [Peers -> Seq(Hit)]
    /\ Limit \in Nat \ {0} /\ Budget \in Nat /\ MaxChanges \in Nat

VARIABLES
    phase,      \* how far the search has come
    front,      \* where it comes from
    index,      \* what the local index has for the query: unordered hits
    page,       \* the number of the page
    total,      \* how many local hits the answer says there are
    local,      \* the local hits of the page
    federated,  \* whether the search asks peers
    enabled,    \* peers the table has enabled
    asked,      \* the peers it asks, in SELECT order
    task,       \* what has become of the query of each peer
    left,       \* what is left of the budget
    results,    \* the hits it answers with
    okAt,       \* peers whose last_ok_at it has set
    first,      \* what the index had at the first page of the search
    seen,       \* URLs the search has shown since
    steady,     \* whether pages have only been added to the index since
    changes

searchVars == <<front, federated, page, total, local>>
peerVars == <<enabled, asked, task, left, okAt>>
readerVars == <<first, seen, steady, changes>>
vars == <<phase, searchVars, index, peerVars, results, readerVars>>

TypeOK ==
    /\ phase \in {"new", "selecting", "asking", "merging", "answered", "failed"}
    /\ front \in Fronts /\ federated \in BOOLEAN
    /\ index \in Corpora /\ page \in Nat \ {0} /\ total \in Nat
    /\ local \in Seq(Hit)
    /\ enabled \subseteq Peers /\ okAt \subseteq Peers
    /\ asked \in Seq(Peers)
    /\ task \in [Peers -> {"none", "running", "hits", "error", "cancelled"}]
    /\ left \in 0..Budget
    /\ results \in Seq(Hit)
    /\ first \in Corpora \cup {{}} /\ seen \subseteq STRING
    /\ steady \in BOOLEAN /\ changes \in 0..MaxChanges

Init ==
    /\ phase = "new"
    /\ front \in Fronts /\ federated \in BOOLEAN
    /\ index \in Corpora /\ page = 1 /\ total = 0
    /\ local = <<>>
    /\ enabled = Peers
    /\ asked = <<>>
    /\ task = [p \in Peers |-> "none"]
    /\ left = Budget
    /\ results = <<>>
    /\ okAt = {}
    /\ first = {} /\ seen = {} /\ steady = TRUE /\ changes = 0

-----------------------------------------------------------------------------
(* index/search.py, the pager of search/_results.html.                     *)

Urls(hits) == {hits[i].url : i \in DOMAIN hits}
Firsts(hits, n) == SubSeq(hits, 1, IF Len(hits) < n THEN Len(hits) ELSE n)

(* ORDER BY score DESC leaves the order of equal scores open: it may be    *)
(* another one in every request.                                           *)
ByScore ==
    {q \in SetToSeqs(index) : \A i, j \in DOMAIN q : i < j => q[i].score >= q[j].score}

(* LIMIT Limit OFFSET (page - 1) * Limit.                                  *)
PageOf(q) == Firsts(SubSeq(q, (page - 1) * Limit + 1, Len(q)), Limit)

(* The local search; total is a column of its rows, and there may be none. *)
(* Peers are asked for the first page only, and never for a peer: that is  *)
(* the search of the JSON API that is not federated.  A blank query is one *)
(* that finds nothing.                                                     *)
Search ==
    /\ phase = "new"
    /\ \E q \in ByScore : local' = PageOf(q)
    /\ total' = IF local' = <<>> THEN 0 ELSE Cardinality(index)
    /\ results' = local'
    /\ phase' = IF federated /\ page = 1 THEN "selecting" ELSE "answered"
    /\ first' = IF page = 1 /\ changes = 0 THEN index ELSE first
    /\ seen' = seen \cup Urls(local')
    /\ UNCHANGED <<front, federated, page, index, peerVars, steady, changes>>

(* Mutant of TotalPages: a last page that is not full is not counted.      *)
TotalPagesFull == total \div Limit

TotalPages == (total + Limit - 1) \div Limit

(* The pager, which a federated search page does not have; whoever uses    *)
(* the API or the tool is taken to count pages in the same way.            *)
HasPager == TotalPages > 1 /\ (front = "page" => ~federated)
MorePages == HasPager /\ page < TotalPages

TurnTo(n) ==
    /\ phase = "answered" /\ HasPager
    /\ phase' = "new"
    /\ page' = n
    /\ task' = [p \in Peers |-> "none"]
    /\ asked' = <<>>
    /\ left' = Budget
    /\ UNCHANGED <<front, federated, total, local, index, enabled, okAt, results,
                   readerVars>>

NextPage == MorePages /\ TurnTo(page + 1)
PrevPage == page > 1 /\ TurnTo(page - 1)

(* Pages are stored, stored again with another text, or ranked.            *)
ChangeIndex ==
    /\ phase = "answered" /\ HasPager /\ changes < MaxChanges
    /\ changes' = changes + 1
    /\ index' \in Corpora \ {index}
    /\ steady' = (steady /\ index \subseteq index')
    /\ UNCHANGED <<phase, searchVars, peerVars, results, first, seen>>

-----------------------------------------------------------------------------
(* federation/client.py.                                                   *)

(* One task for every enabled peer.                                        *)
AskPeers ==
    /\ phase = "selecting"
    /\ asked' \in SetToSeqs(enabled)
    /\ task' = [p \in Peers |-> IF p \in enabled THEN "running" ELSE "none"]
    /\ phase' = IF enabled = {} THEN "merging" ELSE "asking"
    /\ UNCHANGED <<searchVars, index, enabled, left, results, okAt, readerVars>>

Running == {p \in Peers : task[p] = "running"}

(* A peer answers, or its query fails: no connection, an error status, a   *)
(* timeout of its own, a body that cannot be read as hits.                 *)
PeerEnds(p) ==
    /\ phase = "asking" /\ p \in Running
    /\ \E how \in {"hits", "error"} : task' = [task EXCEPT ![p] = how]
    /\ UNCHANGED <<phase, searchVars, index, enabled, asked, left, okAt, results,
                   readerVars>>

(* gather returns: no exception of a task gets through it.                 *)
AllIn ==
    /\ phase = "asking" /\ Running = {}
    /\ phase' = "merging"
    /\ UNCHANGED <<searchVars, index, peerVars, results, readerVars>>

(* Mutant of Expire: the budget is each peer's own.                        *)
ExpireNever == FALSE /\ UNCHANGED vars

(* Mutant of Expire: every task is cancelled, the finished ones too.       *)
ExpireAll ==
    /\ phase = "asking" /\ left = 0 /\ Running # {}
    /\ task' = [p \in Peers |-> IF p \in enabled THEN "cancelled" ELSE task[p]]
    /\ phase' = "merging"
    /\ UNCHANGED <<searchVars, index, enabled, asked, left, okAt, results, readerVars>>

(* The budget is spent: the queries that have not ended are cancelled.     *)
Expire ==
    /\ phase = "asking" /\ left = 0 /\ Running # {}
    /\ task' = [p \in Peers |-> IF p \in Running THEN "cancelled" ELSE task[p]]
    /\ phase' = "merging"
    /\ UNCHANGED <<searchVars, index, enabled, asked, left, okAt, results, readerVars>>

(* The event loop's timer is served before more time passes.               *)
Tick ==
    /\ phase = "asking" /\ left > 0
    /\ left' = left - 1
    /\ UNCHANGED <<phase, searchVars, index, enabled, asked, task, okAt, results,
                   readerVars>>

-----------------------------------------------------------------------------
(* The hits of the peers that ended with an answer, by the peer's place in *)
(* asked and the hit's place in its answer.                                *)
Pool ==
    UNION {{k} \X DOMAIN PeerHits[asked[k]] :
               k \in {k \in DOMAIN asked : task[asked[k]] = "hits"}}
HitAt(x) == PeerHits[asked[x[1]]][x[2]]
CameBefore(x, y) == x[1] < y[1] \/ (x[1] = y[1] /\ x[2] < y[2])

(* Mutant of Before: the hits stay in the order of the peers.              *)
BeforeByPeer(x, y) == CameBefore(x, y)

(* list.sort by descending score is stable.                                *)
Before(x, y) ==
    \/ HitAt(x).score > HitAt(y).score
    \/ HitAt(x).score = HitAt(y).score /\ CameBefore(x, y)

(* What federated_hits returns.                                            *)
Remote == {x \in Pool : Cardinality({y \in Pool : Before(y, x)}) < Limit}

(* Those of them that are not among the local hits, in order.              *)
Fresh ==
    {q \in SetToSeqs({x \in Remote : HitAt(x).url \notin Urls(results)}) :
        \A i, j \in DOMAIN q : i < j => Before(q[i], q[j])}

(* Appended to the local hits.                                             *)
Merged == {results \o [i \in DOMAIN q |-> HitAt(q[i])] : q \in Fresh}

(* h.url not in seen raises, in each of the fronts.                        *)
Unhashable == \E x \in Remote : HitAt(x).form = "unhashable"

(* Only the JSON API checks the types of what it answers.                  *)
Refused(hits) == front = "api" /\ \E i \in DOMAIN hits : hits[i].form # "plain"

(* last_ok_at is set for the peers that had hits, and that is committed    *)
(* before their hits are looked at.                                        *)
Merging ==
    /\ phase = "merging"
    /\ okAt' = {p \in Peers : task[p] = "hits" /\ PeerHits[p] # <<>>}
    /\ UNCHANGED <<searchVars, index, enabled, asked, task, left, readerVars>>

Merge ==
    /\ Merging /\ ~Unhashable
    /\ results' \in Merged /\ ~Refused(results')
    /\ phase' = "answered"

(* The search is answered with an error.                                   *)
MergeFails ==
    /\ Merging
    /\ Unhashable \/ \E hits \in Merged : Refused(hits)
    /\ phase' = "failed"
    /\ UNCHANGED results

(* toggle_peer; a peer that delete_peer drops is one that stays disabled.  *)
TogglePeer(p) ==
    /\ phase \notin {"answered", "failed"}
    /\ enabled' = IF p \in enabled THEN enabled \ {p} ELSE enabled \union {p}
    /\ UNCHANGED <<phase, searchVars, index, asked, task, left, okAt, results,
                   readerVars>>

(* The reader leaves it at that.                                           *)
Over == phase \in {"answered", "failed"} /\ UNCHANGED vars

SearchStep == Search \/ AskPeers \/ AllIn \/ Expire \/ Merge \/ MergeFails

Next ==
    \/ SearchStep \/ Tick \/ NextPage \/ PrevPage \/ ChangeIndex \/ Over
    \/ \E p \in Peers : PeerEnds(p) \/ TogglePeer(p)

Spec == Init /\ [][Next]_vars

(* The server goes on when it can and time passes; no peer has to answer.  *)
Fairness == WF_vars(SearchStep) /\ WF_vars(Tick)

LiveSpec == Spec /\ Fairness

-----------------------------------------------------------------------------
(* Following Next to the last page, while pages are only added to the      *)
(* index, a reader has seen every hit that was there at first; pages that  *)
(* come in between push hits back and never past the reader.  Only hits    *)
(* with the same score may be passed over, as search.py orders by nothing  *)
(* else.                                                                   *)
NothingSkipped ==
    phase = "answered" /\ steady /\ HasPager /\ ~MorePages =>
        \A h \in first :
            h.url \in seen \/ \E g \in index : g.url # h.url /\ g.score = h.score

(* What a peer has answered within the budget is not lost when the budget  *)
(* is spent: only queries that are still running are cancelled.            *)
AnswersKept ==
    [][phase = "asking" =>
          \A p \in Peers : task[p] \in {"hits", "error"} => task'[p] = task[p]]_vars

(* The local hits come first and no hit of a peer repeats a URL of theirs. *)
LocalFirst ==
    /\ IsPrefix(local, results)
    /\ page > 1 => results = local
    /\ \A i \in DOMAIN results :
          i > Len(local) => results[i].url \notin Urls(local)

(* The delivered hits other than the i-th of p that score no less.         *)
Above(p, i) ==
    {x \in UNION {{q} \X DOMAIN PeerHits[q] : q \in {q \in Peers : task[q] = "hits"}} :
        x # <<p, i>> /\ PeerHits[x[1]][x[2]].score >= PeerHits[p][i].score}

(* What is shown, whatever answers arrive and in whatever order: the local *)
(* hits come first; a hit that a peer delivered is shown, is shown by the  *)
(* local index, or has Limit others before it that score no less, however  *)
(* few of the others are shown, as the limit counts hits the local ones    *)
(* repeat.                                                                 *)
BestHits ==
    phase = "answered" =>
        /\ LocalFirst
        /\ \A p \in Peers : \A i \in DOMAIN PeerHits[p] :
              task[p] = "hits" =>
                  \/ PeerHits[p][i].url \in Urls(results)
                  \/ Cardinality(Above(p, i)) >= Limit

(* A search is answered although no peer ever has to answer: the budget is *)
(* one for all of them.  It fails only if a peer has delivered a hit whose *)
(* url is a list or an object or, asked for by the JSON API, one with a    *)
(* field of another type than it answers with.                             *)
Delivered(form) ==
    \E p \in Peers : task[p] = "hits" /\ \E i \in DOMAIN PeerHits[p] : PeerHits[p][i].form = form
SearchEnds ==
    phase = "new" ~>
        \/ phase = "answered"
        \/ phase = "failed" /\ Delivered("unhashable")
        \/ phase = "failed" /\ front = "api" /\ Delivered("odd")

=============================================================================
